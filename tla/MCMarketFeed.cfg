SPECIFICATION FairSpec
CONSTANTS
    t1 = t1
    t2 = t2
    t3 = t3
    Trade = {t1, t2, t3}
    TradeTime <- MCTradeTime
    HorizonMs = 1
    MaxLagMs = 1
    WindowMs = 3
    MaxTime = 5
    MaxBookAge = 1
    BookHistory = 2
    TapeLimit = 2
    SeenLimit = 2
    SeenBatch = 1
    Replayed = 2
INVARIANTS
    LabelIsHorizonMid
    CountedOnce
    NoOrphanOnTape
PROPERTIES
    ScoredBeforehand
    StallNoticed
CHECK_DEADLOCK FALSE
