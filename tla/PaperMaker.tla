------------------------------- MODULE PaperMaker -------------------------------
(***************************************************************************)
(* One strategy in one coin: engine.py's Maker under Engine.handle and     *)
(* Engine.evaluate.  Decisions are taken on local time, fills on block     *)
(* time, and messages carry block times up to Lag behind the local clock   *)
(* and in any order between the feeds' channels: what is decided now meets *)
(* trades that happened before.                                            *)
(*                                                                         *)
(* The model starts when the coin has seen its first top                   *)
(* (Engine._start_coin) and quotes nothing yet.  The quoter is any         *)
(* strategy that stops at its position limit (strategies.capped).          *)
(***************************************************************************)
EXTENDS PaperOrders

CONSTANTS
    MaxPosition,    \* Maker.max_position
    Rooms,          \* what Engine.room may answer
    EvalMs,         \* the least time between two decisions
    Lag,            \* bound: how far block time runs behind local time
    Tops,           \* the tops Hyperliquid may send: best price and size a side
    Depths,         \* its depth messages: levels a side
    Trades          \* its trades: price, size and side of the taker

ASSUME MakerAssumption ==
    /\ MaxPosition \in Nat
    /\ Rooms \subseteq Nat
    /\ \E most \in Rooms \cup {Qty} : \A room \in Rooms : room <= most
    /\ EvalMs \in Nat \ {0}
    /\ Lag \in Nat
    /\ Tops \subseteq [px : [Side -> Tick], size : [Side -> Size]]
    /\ \A d \in Depths : \A s \in Side : \A p \in DOMAIN d[s] :
            p \in Tick /\ d[s][p] \in Size
    /\ Trades \subseteq [px : Tick, sz : Size, taker : Side]

VARIABLES
    now,        \* local time, Clock.now_ns
    lastEval,   \* Engine.last_eval of the coin
    orders,     \* Maker.orders
    current,    \* Maker.current
    position,   \* Account.position
    fills       \* what the latest message added to Account.log

maker == <<orders, current, position, fills>>
vars == <<now, lastEval, maker>>

BlockTimes == {t \in Time : now - Lag <= t /\ t <= now}

-----------------------------------------------------------------------------
\* capped(): no side at its position limit; bids below asks.
Wants(held) ==
    {want \in [Side -> Tick \cup {None}] :
        /\ \A s \in Side : want[s] # None => s * held < MaxPosition
        /\ \A s \in Side : want[s] # None /\ want[-s] # None
                => s * want[s] < s * want[-s]}

\* evaluate(): decide(), unless the last decision is too recent.
Evaluate(before) ==
    \/ /\ now - lastEval < EvalMs
       /\ orders' = before
       /\ UNCHANGED <<lastEval, current>>
    \/ /\ now - lastEval >= EvalMs
       /\ lastEval' = now
       /\ \E want \in Wants(position), room \in Rooms :
            LET quotes == Quoted(want, position, room)
            IN  /\ orders' = OrdersPlaced(before, current, quotes, now)
                /\ current' = CurrentPlaced(before, current, quotes, now)

\* A top of Hyperliquid: the maker reads its queues, then decides.
HearTop ==
    \E t \in BlockTimes, top \in Tops :
        /\ Evaluate(AfterTop(orders, t, top))
        /\ fills' = {}
        /\ UNCHANGED <<now, position>>

\* A top of Coinbase only makes it decide.
HearRef ==
    /\ Evaluate(orders)
    /\ fills' = {}
    /\ UNCHANGED <<now, position>>

HearDepth ==
    \E t \in BlockTimes, depth \in Depths :
        /\ orders' = AfterDepth(orders, t, depth)
        /\ fills' = {}
        /\ UNCHANGED <<now, lastEval, current, position>>

\* seen_size() reads the latest top and depth: some size they showed at the
\* order's price, or nothing.
SeenSizes ==
    {0} \cup {top.size[s] : top \in Tops, s \in Side}
        \cup UNION {{d[s][p] : p \in DOMAIN d[s]} : d \in Depths, s \in Side}

HearTrade ==
    \E t \in BlockTimes, trade \in Trades, seen \in SeenSizes :
        /\ fills' = FillsOf(orders, t, trade, seen)
        /\ orders' = AfterTrade(orders, t, trade, seen)
        /\ position' = position + Bought(fills')
        /\ UNCHANGED <<now, lastEval, current>>

Wait ==
    /\ now < Horizon
    /\ now' = now + 1
    /\ UNCHANGED <<lastEval, maker>>

Init ==
    /\ now = 0
    /\ lastEval = 0
    /\ orders = [n \in {} |-> None]
    /\ current = [s \in Side |-> None]
    /\ position = 0
    /\ fills = {}

Next == HearTop \/ HearRef \/ HearDepth \/ HearTrade \/ Wait

Spec == Init /\ [][Next]_vars

-----------------------------------------------------------------------------
OrdersType ==
    /\ DOMAIN orders \subseteq OrderName
    /\ \A n \in DOMAIN orders : orders[n] \in PaperOrder

\* An order is either the one the maker still steers, its current of that
\* side, or it was told to leave and does so within the latency: place()
\* forgets no order on the book, whatever trades and messages came between.
NoStrayOrder ==
    \A n \in DOMAIN orders :
        IF current[n[1]] = n[2] THEN orders[n].cancel = Never
        ELSE orders[n].cancel <= lastEval + Latency

\* Of the orders of a side, however many are still on their way in or out,
\* no two are live at one block time: a new one reaches the book no sooner
\* than the one it replaces has left it.
OneLivePerSide ==
    \A m, n \in DOMAIN orders :
        m[1] = n[1] /\ m[2] < n[2] => orders[m].cancel <= orders[n].live

\* So a trade of the real market fills one paper order at most, and its size
\* is not counted twice.
TradeFillsOnce == Cardinality(fills) <= 1

\* The limits bind what is quoted, not what is held: while an order is on its
\* way out and the next on its way in, both may fill.  The position may pass
\* the limits by the orders one latency and one feed delay can hold, no more.
InFlight == (Latency + Lag - 1) \div EvalMs + 1
Limit == LET room == Max(Rooms \cup {Qty})
         IN  IF room < MaxPosition + Qty - 1 THEN room ELSE MaxPosition + Qty - 1

PositionBounded ==
    \A s \in Side : s * position <= Limit + InFlight * Qty

\* An order's time in the queue only takes from it: its size, the queue
\* before it once it has joined one, and the time it has left never grow.
OrdersOnlyShrink ==
    [][\A n \in DOMAIN orders \cap DOMAIN orders' :
        /\ orders'[n].qty <= orders[n].qty
        /\ orders'[n].cancel <= orders[n].cancel
        /\ orders[n].queue # None => /\ orders'[n].queue # None
                                     /\ orders'[n].queue <= orders[n].queue]_vars
=============================================================================
