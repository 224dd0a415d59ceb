\* Three orders of two wallets at two prices: a level of three, a level
\* emptied in the middle of a take, a maker filled in part, an own order met
\* between two others.
SPECIFICATION Spec
CONSTANTS
    Oid = {o1, o2, o3}
    User = {u1, u2}
    Tick = {1, 2}
    MaxLots = 2
    Idle = Idle
SYMMETRY Symmetry
INVARIANTS
    TypeOK
    QueueOrder
PROPERTIES
    PositionsKept
    PriceTimePriority
