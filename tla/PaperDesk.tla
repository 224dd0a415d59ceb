------------------------------- MODULE PaperDesk -------------------------------
(***************************************************************************)
(* One strategy over all its coins: engine.py's Engine with a budget.      *)
(* Each coin runs a maker of its own; all they share is the budget, which  *)
(* Engine.room turns into the most one coin may hold given what the others *)
(* hold now.  Exposure is counted in lots: every mid is one and stays.     *)
(*                                                                         *)
(* CoinsAreMakers says each coin of the desk is a PaperMaker whose rooms   *)
(* the other coins choose, so what is shown of PaperMaker for every room   *)
(* holds of it.                                                            *)
(***************************************************************************)
EXTENDS PaperOrders

CONSTANTS
    Coin,           \* the coins the engine trades
    Budget,         \* Engine.budget_usd
    MaxPosition, EvalMs, Lag, Tops, Depths, Trades  \* as in PaperMaker

ASSUME DeskAssumption ==
    /\ IsFiniteSet(Coin)
    /\ Budget \in Nat
    /\ MaxPosition \in Nat
    /\ EvalMs \in Nat \ {0}
    /\ Lag \in Nat
    /\ Tops \subseteq [px : [Side -> Tick], size : [Side -> Size]]
    /\ \A d \in Depths : \A s \in Side : \A p \in DOMAIN d[s] :
            p \in Tick /\ d[s][p] \in Size
    /\ Trades \subseteq [px : Tick, sz : Size, taker : Side]

VARIABLES now, lastEval, orders, current, position, fills

coins == <<lastEval, orders, current, position, fills>>
vars == <<now, coins>>

Maker(c) == INSTANCE PaperMaker WITH
    Rooms <- 0 .. Budget,
    lastEval <- lastEval[c], orders <- orders[c], current <- current[c],
    position <- position[c], fills <- fills[c]

Abs(n) == IF n >= 0 THEN n ELSE -n
Exposure(held) == MapThenSumSet(LAMBDA c : Abs(held[c]), DOMAIN held)
Gross == Exposure(position)

\* Not the code: each coin has the budget to itself.
RoomAlone(c) == Budget

\* room(): the budget less the gross exposure in the other coins.
Room(c) ==
    NotBelow0(Budget - Exposure([d \in Coin \ {c} |-> position[d]]))

\* Not the code: one evaluation clock for all coins.
EvaluateTogether(c, before) ==
    \/ /\ now - lastEval[c] < EvalMs
       /\ orders' = [orders EXCEPT ![c] = before]
       /\ UNCHANGED <<lastEval, current>>
    \/ /\ now - lastEval[c] >= EvalMs
       /\ lastEval' = [d \in Coin |-> now]
       /\ \E want \in Maker(c)!Wants(position[c]) :
            LET quotes == Quoted(want, position[c], Room(c))
            IN  /\ orders' = [orders EXCEPT ![c] = OrdersPlaced(before, current[c], quotes, now)]
                /\ current' = [current EXCEPT ![c] = CurrentPlaced(before, current[c], quotes, now)]

\* evaluate(), with the coin's room.
Evaluate(c, before) ==
    \/ /\ now - lastEval[c] < EvalMs
       /\ orders' = [orders EXCEPT ![c] = before]
       /\ UNCHANGED <<lastEval, current>>
    \/ /\ now - lastEval[c] >= EvalMs
       /\ lastEval' = [lastEval EXCEPT ![c] = now]
       /\ \E want \in Maker(c)!Wants(position[c]) :
            LET quotes == Quoted(want, position[c], Room(c))
            IN  /\ orders' = [orders EXCEPT ![c] = OrdersPlaced(before, current[c], quotes, now)]
                /\ current' = [current EXCEPT ![c] = CurrentPlaced(before, current[c], quotes, now)]

\* handle(), by the type of the event.
HearTop(c) ==
    \E t \in Maker(c)!BlockTimes, top \in Tops :
        /\ Evaluate(c, AfterTop(orders[c], t, top))
        /\ fills' = [fills EXCEPT ![c] = {}]
        /\ UNCHANGED <<now, position>>

HearRef(c) ==
    /\ Evaluate(c, orders[c])
    /\ fills' = [fills EXCEPT ![c] = {}]
    /\ UNCHANGED <<now, position>>

HearDepth(c) ==
    \E t \in Maker(c)!BlockTimes, depth \in Depths :
        /\ orders' = [orders EXCEPT ![c] = AfterDepth(@, t, depth)]
        /\ fills' = [fills EXCEPT ![c] = {}]
        /\ UNCHANGED <<now, lastEval, current, position>>

HearTrade(c) ==
    \E t \in Maker(c)!BlockTimes, trade \in Trades, seen \in Maker(c)!SeenSizes :
        /\ fills' = [fills EXCEPT ![c] = FillsOf(orders[c], t, trade, seen)]
        /\ orders' = [orders EXCEPT ![c] = AfterTrade(@, t, trade, seen)]
        /\ position' = [position EXCEPT ![c] = @ + Bought(fills'[c])]
        /\ UNCHANGED <<now, lastEval, current>>

Wait ==
    /\ now < Horizon
    /\ now' = now + 1
    /\ UNCHANGED coins

Init ==
    /\ now = 0
    /\ lastEval = [c \in Coin |-> 0]
    /\ orders = [c \in Coin |-> [n \in {} |-> None]]
    /\ current = [c \in Coin |-> [s \in Side |-> None]]
    /\ position = [c \in Coin |-> 0]
    /\ fills = [c \in Coin |-> {}]

Next ==
    \/ \E c \in Coin : HearTop(c) \/ HearRef(c) \/ HearDepth(c) \/ HearTrade(c)
    \/ Wait

Spec == Init /\ [][Next]_vars

-----------------------------------------------------------------------------
\* Whatever the other coins do, to each coin it is only a room.
CoinsAreMakers ==
    /\ \A c \in Coin : Maker(c)!Init
    /\ [][\A c \in Coin : Maker(c)!Next \/ UNCHANGED Maker(c)!vars]_vars

\* The budget is checked against what is held, not against what is quoted:
\* every coin may be quoting into the same room.  The desk can pass its
\* budget by the orders its coins have on the book or on their way when the
\* last one was sent, no more.
GrossBounded ==
    \A c \in Coin :
        Gross <= Budget - Qty + Cardinality(Coin) * (Maker(c)!InFlight + 1) * Qty

\* tests/paper/test_paper_dashboard.py: "test_budget_caps_gross_exposure_
\* across_coins".
GrossWithinBudget == Gross <= Budget
=============================================================================
