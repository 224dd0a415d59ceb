SPECIFICATION Spec
CONSTANTS
    Oid = {1, 2, 3}
    Price = {1, 2, 3}
    Size = {1, 2}
    Depth = 1
    Gap = 2
    Warmup = 0
    MaxTime = 5
    MaxRecords = 3
    MaxTotal = 3
    Opening <- MCOpening
    None = None
    Queues = {"fifo", "risk_averse"}
    Quoting <- MCQuoting
    Wanted = {0, 1, 2}
    Qty = 2
    Delay = 2
    CrossingFills = FALSE
    Deep = 100
INVARIANTS
    RebuiltBook
    QueuePlaceKept
    TargetTells
CHECK_DEADLOCK FALSE
