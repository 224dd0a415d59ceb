\* Two-unit orders, filled in parts; a latency and a feed delay of one
\* evaluation each.
SPECIFICATION Spec
CONSTANTS
    Tick = {1, 2}
    Qty = 2
    Latency = 1
    Tol = 0
    Horizon = 5
    Never = 99
    None = None
    MaxPosition = 4
    Rooms = {2}
    EvalMs = 1
    Lag = 1
    Tops <- MCTops
    Depths <- MCDepths
    Trades <- MCTrades
INVARIANTS
    NoStrayOrder
    OneLivePerSide
    TradeFillsOnce
    PositionBounded
PROPERTIES
    OrdersOnlyShrink
