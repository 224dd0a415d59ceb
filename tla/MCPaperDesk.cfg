\* Orders act at once, so that a coin can reach the room of two quotes
\* within the horizon.
SPECIFICATION Spec
CONSTANTS
    btc = btc
    eth = eth
    Coin = {btc, eth}
    Budget = 2
    Tick = {1, 2}
    Qty = 1
    Latency = 0
    Tol = 1
    Horizon = 2
    Never = 99
    None = None
    MaxPosition = 2
    EvalMs = 1
    Lag = 0
    Tops <- MCTops
    Depths <- MCDepths
    Trades <- MCTrades
INVARIANTS
    GrossBounded
PROPERTIES
    CoinsAreMakers
