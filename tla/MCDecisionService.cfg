SPECIFICATION FairSpec
CONSTANTS
    r1 = r1
    r2 = r2
    r3 = r3
    Run = {r1, r2, r3}
    sol = sol
    btc = btc
    Coin = {sol, btc}
    hour = hour
    day = day
    bare = bare
    Request = {hour, day, bare}
    f1 = f1
    p1 = p1
    Page = {p1}
    None = None
    Torn = Torn
    Replacing = {r2}
    Refreshing = {r3}
    Forcing = {}
    MaxStops = 1
    AtOnce = 2
    Models = 2
    CoinOf <- MCCoinOf
    RequestOf <- MCRequestOf
    Yields <- MCYields
    CoinOrder <- MCCoinOrder
    Alerts <- MCAlerts
INVARIANTS
    CoverageTells
    DecisionsTell
PROPERTIES
    ServesNewest
CHECK_DEADLOCK FALSE
