\* Three ids: the smallest number with a middle to cancel from, a slot freed
\* out of order and a slot reused under another id, side and price.
SPECIFICATION Spec
CONSTANTS
    u1 = u1
    u2 = u2
    Oid = {o1, o2, o3}
    User = {u1, u2}
    Tick = {1, 2}
    MaxLots = 2
    Idle = Idle
    Orders <- MCOrders
    Takers <- MCTakers
SYMMETRY Symmetry
INVARIANTS
    LinksConsistent
    TotalsCached
    SlotsAccounted
PROPERTIES
    RefinesOrderBook
