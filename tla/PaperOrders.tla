------------------------------ MODULE PaperOrders ------------------------------
(***************************************************************************)
(* marketimmune/paper/orders.py and the order keeping of engine.py's       *)
(* Maker: what a decision, a book message and a trade do to the paper      *)
(* orders of one strategy in one coin.  Constant-level: PaperMaker,        *)
(* MarketMaker and PaperDesk give these operators their state.             *)
(*                                                                         *)
(* A maker decides at most once per millisecond and side (EVAL_MS > 0), so *)
(* an order is named by its side and the local time it was placed, and     *)
(* Maker.orders, a list whose order nothing reads, is a partial function   *)
(* from these names.  Maker.current[side], a reference, is the time the    *)
(* order was placed; once the order is filled its name leaves the orders   *)
(* and the reference dangles, which is the "cur.qty <= 0" of place().      *)
(***************************************************************************)
EXTENDS Integers, FiniteSets, FiniteSetsExt

CONSTANTS
    Tick,       \* prices
    Qty,        \* the size of every order sent
    Latency,    \* Maker.latency_ms
    Tol,        \* how far a live order may be from its target and stay
    Horizon,    \* bound: the last local time a run looks at
    Never,      \* orders.NEVER
    None

ASSUME PaperAssumption ==
    /\ Tick \subseteq Int
    /\ Qty \in Nat \ {0}
    /\ Latency \in Nat
    /\ Horizon \in Nat
    /\ Never \in Int /\ Never > Horizon + Latency
    /\ None \notin Int

Side == {1, -1}         \* +1 a bid, -1 an ask
Time == 0 .. Horizon
Size == Nat
OrderName == Side \X Time
PaperOrder == [px : Tick, qty : 1 .. Qty, live : Nat, cancel : Nat,
               queue : Size \cup {None}]

\* Not the code: an order is live as soon as it is sent.
NewOrderAtOnce(px, now) ==
    [px |-> px, qty |-> Qty, live |-> now, cancel |-> Never, queue |-> None]

NewOrder(px, now) ==
    [px |-> px, qty |-> Qty, live |-> now + Latency, cancel |-> Never,
     queue |-> None]

Least(a, b) == IF a <= b THEN a ELSE b
NotBelow0(a) == IF a >= 0 THEN a ELSE 0

-----------------------------------------------------------------------------
(* place(): from what is live to what is wanted. *)

\* A side that would take the position past the room is not quoted; one
\* that reduces the position always is.
Dropped(side, position, room) ==
    side * position >= 0 /\ side * position + Qty > room

Quoted(want, position, room) ==
    [s \in Side |-> IF Dropped(s, position, room) THEN None ELSE want[s]]

\* current[side] is an order with something left to fill.
Open(orders, current, side) ==
    current[side] # None /\ <<side, current[side]>> \in DOMAIN orders

\* keep(): the live order may stay for the price now wanted.
Keeps(orders, current, side, px) ==
    /\ px # None
    /\ Open(orders, current, side)
    /\ LET live == orders[<<side, current[side]>>].px
       IN  live - px <= Tol /\ px - live <= Tol

Sent(orders, current, quotes, now) ==
    {<<s, now>> : s \in {s \in Side : /\ quotes[s] # None
                                      /\ ~Keeps(orders, current, s, quotes[s])}}

\* Not the code: only an order that is replaced is cancelled.
CancelledIfReplaced(orders, current, quotes) ==
    {<<s, current[s]>> : s \in {s \in Side : /\ Open(orders, current, s)
                                             /\ quotes[s] # None
                                             /\ ~Keeps(orders, current, s, quotes[s])}}

Cancelled(orders, current, quotes) ==
    {<<s, current[s]>> : s \in {s \in Side : /\ Open(orders, current, s)
                                             /\ ~Keeps(orders, current, s, quotes[s])}}

CancelBy(order, t) == [order EXCEPT !.cancel = Least(@, t)]

OrdersPlaced(orders, current, quotes, now) ==
    LET sent == Sent(orders, current, quotes, now)
        gone == Cancelled(orders, current, quotes)
    IN  [n \in DOMAIN orders \cup sent |->
            IF n \in sent THEN NewOrder(quotes[n[1]], now)
            ELSE IF n \in gone THEN CancelBy(orders[n], now + Latency)
            ELSE orders[n]]

CurrentPlaced(orders, current, quotes, now) ==
    [s \in Side |-> IF Keeps(orders, current, s, quotes[s]) THEN current[s]
                    ELSE IF quotes[s] # None THEN now
                    ELSE None]

-----------------------------------------------------------------------------
(* Book messages and trades, at block time t. *)

\* Not the code: orders stay at their cancel time.
SurvivingCancel(orders, t) ==
    [n \in {m \in DOMAIN orders : orders[m].qty > 0 /\ orders[m].cancel >= t} |->
        orders[n]]

\* What a pass over the orders at block time t leaves of them.
Surviving(orders, t) ==
    [n \in {m \in DOMAIN orders : orders[m].qty > 0 /\ orders[m].cancel > t} |->
        orders[n]]

\* Not the code: the queue is whatever the last message showed.
SeeLevelAnew(order, t, size) ==
    IF size = None \/ t < order.live THEN order
    ELSE [order EXCEPT !.queue = size]

\* see_level(): the first size seen joins the queue, later ones only cut it.
SeeLevel(order, t, size) ==
    IF size = None \/ t < order.live THEN order
    ELSE [order EXCEPT !.queue = IF @ = None THEN size ELSE Least(@, size)]

\* The size a top shows before an order: its level's at the best price,
\* nothing at a better one, and no news behind it.
TopShows(top, side, px) ==
    IF side * px > side * top.px[side] THEN 0
    ELSE IF px = top.px[side] THEN top.size[side]
    ELSE None

AfterTop(orders, t, top) ==
    LET left == Surviving(orders, t)
    IN  [n \in DOMAIN left |->
            SeeLevel(left[n], t, TopShows(top, n[1], left[n].px))]

\* The same of a depth message: the levels of each side, best first.
DepthShows(levels, side, px) ==
    IF DOMAIN levels = {} THEN None
    ELSE IF \A p \in DOMAIN levels : side * px > side * p THEN 0
    ELSE IF px \in DOMAIN levels THEN levels[px]
    ELSE None

AfterDepth(orders, t, depth) ==
    [n \in DOMAIN orders |->
        SeeLevel(orders[n], t, DepthShows(depth[n[1]], n[1], orders[n].px))]

\* Not the code: an order still fills at its cancel time.
LiveThrough(order, t) == order.qty > 0 /\ order.live <= t /\ t <= order.cancel

LiveAt(order, t) == order.qty > 0 /\ order.live <= t /\ t < order.cancel

\* A trade meets the live orders of the side its taker hits.
Meets(orders, n, t, trade) == LiveAt(orders[n], t) /\ trade.taker # n[1]

\* The queue before an order; seen is the level's size in the latest book,
\* for an order no message has reached since it went live.
Ahead(order, seen) == IF order.queue = None THEN seen ELSE order.queue

\* match(): all of it if the trade went through its price, else what the
\* trade leaves after the queue.
Filled(orders, n, t, trade, seen) ==
    LET order == orders[n]
    IN  IF ~Meets(orders, n, t, trade) THEN 0
        ELSE IF n[1] * trade.px < n[1] * order.px THEN order.qty
        ELSE IF trade.px = order.px
             THEN Least(order.qty, NotBelow0(trade.sz - Ahead(order, seen)))
        ELSE 0

\* Not the code: what filled is not taken off the order.
MatchedUnreduced(orders, n, t, trade, seen) ==
    [orders[n] EXCEPT !.queue = IF Meets(orders, n, t, trade) /\ trade.px = orders[n].px
                                THEN NotBelow0(Ahead(orders[n], seen) - trade.sz) ELSE @]

Matched(orders, n, t, trade, seen) ==
    LET order == orders[n]
    IN  [px |-> order.px, live |-> order.live, cancel |-> order.cancel,
         qty |-> order.qty - Filled(orders, n, t, trade, seen),
         queue |-> IF Meets(orders, n, t, trade) /\ trade.px = order.px
                   THEN NotBelow0(Ahead(order, seen) - trade.sz)
                   ELSE order.queue]

AfterTrade(orders, t, trade, seen) ==
    Surviving([n \in DOMAIN orders |-> Matched(orders, n, t, trade, seen)], t)

\* The entries the trade adds to Account.log.
FillsOf(orders, t, trade, seen) ==
    {[order |-> n, qty |-> Filled(orders, n, t, trade, seen), at |-> t] :
        n \in {m \in DOMAIN orders : Filled(orders, m, t, trade, seen) > 0}}

\* What these fills add to Account.position.
Bought(fills) == MapThenSumSet(LAMBDA f : f.order[1] * f.qty, fills)
=============================================================================
