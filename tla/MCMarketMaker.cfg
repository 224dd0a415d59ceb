\* Timers of one and two evaluations; every order and reference within the
\* tolerance stays.
SPECIFICATION MMSpec
CONSTANTS
    Tick = {1, 2}
    Qty = 1
    Latency = 1
    Tol = 1
    Horizon = 4
    Never = 99
    None = None
    NoExit = NoExit
    MaxPosition = 2
    Rooms = {2}
    EvalMs = 1
    Lag = 1
    Stale = 1
    Pause = 2
    Cool = 2
    Hold = 1
    Tops <- MCTops
    Depths <- MCDepths
    Trades <- MCTrades
INVARIANTS
    QuotesGoBeforeExit
    HeldSinceOpened
    QuietPeriods
    NoStrayWithPulls
    OneLivePerSide
PROPERTIES
    ExitEndsFlat
