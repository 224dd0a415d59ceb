\* Batches of up to three of the nine actions, one after the other for ever,
\* self-trade prevention on.
SPECIFICATION FairEngineSpec
CONSTANTS
    u1 = u1
    u2 = u2
    Oid = {1, 2, 3}
    User = {u1, u2}
    Tick = {1, 2}
    MaxLots = 2
    Idle = Idle
    Menu <- MCMenu
    MaxBatch = 3
    StpRule = "ExpireMaker"
INVARIANTS
    EngineType
    NeverCrossed
    CancelBeatsTaker
    ReportAccounts
PROPERTIES
    BatchEnds
