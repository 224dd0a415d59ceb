\* The budget as its test names it: a cap on the gross exposure.
SPECIFICATION Spec
CONSTANTS
    btc = btc
    eth = eth
    Coin = {btc, eth}
    Budget = 1
    Tick = {1, 2}
    Qty = 1
    Latency = 1
    Tol = 1
    Horizon = 3
    Never = 99
    None = None
    MaxPosition = 2
    EvalMs = 1
    Lag = 0
    Tops <- MCTops
    Depths <- MCDepths
    Trades <- MCTrades
INVARIANTS
    GrossWithinBudget
