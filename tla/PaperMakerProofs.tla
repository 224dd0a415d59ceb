---------------------------- MODULE PaperMakerProofs ----------------------------
(***************************************************************************)
(* For every latency, feed delay, price set and room: a maker never loses  *)
(* track of an order, never has two live orders on a side, and so fills at *)
(* most one of them with a trade; an order only shrinks; and the position  *)
(* passes the limits by what can be on its way at once, and no more.  With *)
(* exits, pauses, cool-offs and pulled quotes a market maker still loses   *)
(* no order and has no two live on a side, its quotes are gone when an     *)
(* exit lands, and it is quiet when it should be.                          *)
(*                                                                         *)
(* The argument: messages and trades change no order's live or cancel time *)
(* (Meek), so both are as the decisions left them; a decision either keeps *)
(* a side's current order or, in one step, gives it a cancel time no later *)
(* than the live time of the order it sends in its place.                  *)
(*                                                                         *)
(* The position alone is not inductive: a fill moves it.  The position and *)
(* all that the orders of the side may still fill is (BoundInv): a fill    *)
(* moves lots from the one to the other, and a decision that sends an      *)
(* order finds few others that have not left (FewOut).                     *)
(*                                                                         *)
(* Under the risk layer a decision is one of PaperMaker with fewer quotes, *)
(* and a pull is a cancel without latency, so the orders stay Steered;     *)
(* what leaves does so by the last decision's latency or by now, whichever *)
(* is later.  A blocked decision sends nothing, and with an exit pending   *)
(* there is nothing left to cancel.                                        *)
(*                                                                         *)
(* What is said of any orders, and not of the maker's own, serves the desk *)
(* of several coins too (PaperDeskProofs).                                 *)
(***************************************************************************)
EXTENDS MarketMaker, Sums, FiniteSetTheorems, TLAPS

\* An order that may have lost size, time and places in its queue.
Less(after, before) ==
    /\ after.qty <= before.qty
    /\ after.cancel <= before.cancel
    /\ before.queue # None => after.queue # None /\ after.queue <= before.queue

\* Paper orders under their names.
Typed(ords) ==
    /\ DOMAIN ords \subseteq OrderName
    /\ \A n \in DOMAIN ords : ords[n] \in PaperOrder

\* Some of the orders, with the same times and none the larger.
Meek(before, after) ==
    /\ DOMAIN after \subseteq DOMAIN before
    /\ \A n \in DOMAIN after :
        /\ after[n] \in PaperOrder
        /\ after[n].live = before[n].live
        /\ after[n].cancel = before[n].cancel
        /\ Less(after[n], before[n])

\* The orders of a maker whose last decision was at last; what it no longer
\* steers leaves by gone.
Steered(ords, cur, last, gone) ==
    /\ DOMAIN ords \subseteq OrderName
    /\ cur \in [Side -> Time \cup {None}]
    /\ \A n \in DOMAIN ords :
        /\ ords[n] \in PaperOrder
        /\ n[2] <= last
        /\ ords[n].live = n[2] + Latency
        /\ IF cur[n[1]] = n[2] THEN ords[n].cancel = Never
           ELSE ords[n].cancel <= gone
    /\ \A m, n \in DOMAIN ords :
        m[1] = n[1] /\ m[2] < n[2] => ords[m].cancel <= ords[n].live

MakerInv ==
    /\ now \in Time
    /\ lastEval \in Time /\ lastEval <= now
    /\ Steered(orders, current, lastEval, lastEval + Latency)

-----------------------------------------------------------------------------
(* Times and records. *)

\* Least is the smaller of two integers.
LEMMA LeastType ==
    ASSUME NEW a \in Int, NEW b \in Int
    PROVE  Least(a, b) \in {a, b} /\ Least(a, b) <= a /\ Least(a, b) <= b
BY DEF Least

\* An order sent at t goes live one latency later and has no cancel time.
LEMMA NewOrderType ==
    ASSUME NEW px \in Tick, NEW t \in Time
    PROVE  /\ NewOrder(px, t) \in PaperOrder
           /\ NewOrder(px, t).live = t + Latency
           /\ NewOrder(px, t).cancel = Never
BY PaperAssumption DEF NewOrder, PaperOrder, Time, Size

\* A cancel moves an order's cancel time only, and never later.
LEMMA CancelByType ==
    ASSUME NEW o \in PaperOrder, NEW t \in Nat
    PROVE  /\ CancelBy(o, t) \in PaperOrder
           /\ CancelBy(o, t).live = o.live
           /\ CancelBy(o, t).cancel <= t
           /\ CancelBy(o, t).cancel <= o.cancel
           /\ Less(CancelBy(o, t), o)
BY DEF CancelBy, PaperOrder, Least, Less, Size

\* A message that shows a size or nothing moves no order's times.
LEMMA SeeLevelType ==
    ASSUME NEW o \in PaperOrder, NEW t \in Nat, NEW size \in Size \cup {None}
    PROVE  /\ SeeLevel(o, t, size) \in PaperOrder
           /\ SeeLevel(o, t, size).live = o.live
           /\ SeeLevel(o, t, size).cancel = o.cancel
           /\ Less(SeeLevel(o, t, size), o)
BY PaperAssumption DEF SeeLevel, PaperOrder, Size, Least, Less

-----------------------------------------------------------------------------
(* Messages and trades are meek. *)

\* A top of the book drops what has left and cuts queues.
LEMMA TopIsMeek ==
    ASSUME NEW ords, Typed(ords), NEW t \in Time, NEW top \in Tops
    PROVE  Meek(ords, AfterTop(ords, t, top))
<1> DEFINE left == Surviving(ords, t)
           after == AfterTop(ords, t, top)
<1>1. DOMAIN left \subseteq DOMAIN ords /\ \A n \in DOMAIN left : left[n] = ords[n]
  BY DEF Surviving
<1>2. DOMAIN after = DOMAIN left
  BY DEF AfterTop
<1>3. ASSUME NEW n \in DOMAIN after
      PROVE  /\ after[n] \in PaperOrder
             /\ after[n].live = ords[n].live
             /\ after[n].cancel = ords[n].cancel
             /\ Less(after[n], ords[n])
  <2>1. n \in DOMAIN ords /\ left[n] = ords[n] /\ ords[n] \in PaperOrder /\ n[1] \in Side
    BY <1>1, <1>2, <1>3 DEF Typed, OrderName
  <2>2. TopShows(top, n[1], left[n].px) \in Size \cup {None}
    <3>1. top.size[n[1]] \in Size
      BY <2>1, MakerAssumption
    <3>2. QED  BY <3>1 DEF TopShows, Size
  <2>3. after[n] = SeeLevel(left[n], t, TopShows(top, n[1], left[n].px))
    BY <1>2, <1>3 DEF AfterTop
  <2>4. QED  BY <2>1, <2>2, <2>3, SeeLevelType DEF Time
<1>4. QED  BY <1>1, <1>2, <1>3 DEF Meek

\* A depth message only cuts queues.
LEMMA DepthIsMeek ==
    ASSUME NEW ords, Typed(ords), NEW t \in Time, NEW depth \in Depths
    PROVE  Meek(ords, AfterDepth(ords, t, depth))
<1> DEFINE after == AfterDepth(ords, t, depth)
<1>1. DOMAIN after = DOMAIN ords
  BY DEF AfterDepth
<1>2. ASSUME NEW n \in DOMAIN after
      PROVE  /\ after[n] \in PaperOrder
             /\ after[n].live = ords[n].live
             /\ after[n].cancel = ords[n].cancel
             /\ Less(after[n], ords[n])
  <2>1. ords[n] \in PaperOrder /\ n[1] \in Side
    BY <1>1, <1>2 DEF Typed, OrderName
  <2>2. DepthShows(depth[n[1]], n[1], ords[n].px) \in Size \cup {None}
    BY <2>1, MakerAssumption DEF DepthShows, Size
  <2>3. after[n] = SeeLevel(ords[n], t, DepthShows(depth[n[1]], n[1], ords[n].px))
    BY <1>1, <1>2 DEF AfterDepth
  <2>4. QED  BY <2>1, <2>2, <2>3, SeeLevelType DEF Time
<1>3. QED  BY <1>1, <1>2 DEF Meek

\* The sizes a book message may show are sizes.
LEMMA SeenIsSize == \A seen \in SeenSizes : seen \in Size
<1> SUFFICES ASSUME NEW seen \in SeenSizes
             PROVE  seen \in Size
  OBVIOUS
<1>1. CASE seen = 0
  BY <1>1 DEF Size
<1>2. CASE \E top \in Tops, s \in Side : seen = top.size[s]
  BY <1>2, MakerAssumption
<1>3. CASE \E d \in Depths, s \in Side : \E p \in DOMAIN d[s] : seen = d[s][p]
  BY <1>3, MakerAssumption
<1>4. QED  BY <1>1, <1>2, <1>3 DEF SeenSizes

\* What a trade fills of an order is a part of it.
LEMMA FilledType ==
    ASSUME NEW ords, Typed(ords), NEW n \in DOMAIN ords, NEW t \in Time,
           NEW trade \in Trades, NEW seen \in Size
    PROVE  Filled(ords, n, t, trade, seen) \in 0 .. ords[n].qty
<1>1. ords[n] \in PaperOrder /\ ords[n].qty \in Nat /\ trade.sz \in Nat
  BY MakerAssumption, PaperAssumption DEF Typed, PaperOrder, Size
<1>2. Ahead(ords[n], seen) \in Nat
  BY <1>1 DEF Ahead, PaperOrder, Size
<1>3. NotBelow0(trade.sz - Ahead(ords[n], seen)) \in Nat
  BY <1>1, <1>2 DEF NotBelow0
<1>4. Least(ords[n].qty, NotBelow0(trade.sz - Ahead(ords[n], seen))) \in 0 .. ords[n].qty
  BY <1>1, <1>3 DEF Least
<1>5. QED  BY <1>1, <1>4 DEF Filled

\* A trade takes size off orders and queues, and drops what is filled or gone.
LEMMA TradeIsMeek ==
    ASSUME NEW ords, Typed(ords), NEW t \in Time, NEW trade \in Trades, NEW seen \in Size
    PROVE  Meek(ords, AfterTrade(ords, t, trade, seen))
<1> DEFINE met == [n \in DOMAIN ords |-> Matched(ords, n, t, trade, seen)]
           after == AfterTrade(ords, t, trade, seen)
<1>1. /\ DOMAIN after \subseteq DOMAIN ords
      /\ \A n \in DOMAIN after : after[n] = met[n] /\ met[n].qty > 0
  BY DEF AfterTrade, Surviving
<1>2. ASSUME NEW n \in DOMAIN after
      PROVE  /\ after[n] \in PaperOrder
             /\ after[n].live = ords[n].live
             /\ after[n].cancel = ords[n].cancel
             /\ Less(after[n], ords[n])
  <2> DEFINE f == Filled(ords, n, t, trade, seen)
             q == IF Meets(ords, n, t, trade) /\ trade.px = ords[n].px
                  THEN NotBelow0(Ahead(ords[n], seen) - trade.sz)
                  ELSE ords[n].queue
  <2>1. n \in DOMAIN ords /\ ords[n] \in PaperOrder
    BY <1>1, <1>2 DEF Typed
  <2>2. f \in 0 .. ords[n].qty
    BY <2>1, FilledType
  <2>3. q \in Size \cup {None}
    <3>1. Ahead(ords[n], seen) \in Nat /\ trade.sz \in Nat
      BY <2>1, MakerAssumption DEF Ahead, PaperOrder, Size
    <3>2. NotBelow0(Ahead(ords[n], seen) - trade.sz) \in Nat
      BY <3>1 DEF NotBelow0
    <3>3. QED  BY <2>1, <3>2 DEF PaperOrder, Size
  <2>4. after[n] = [px |-> ords[n].px, live |-> ords[n].live,
                    cancel |-> ords[n].cancel, qty |-> ords[n].qty - f, queue |-> q]
    BY <1>1, <2>1 DEF Matched
  <2>5. after[n].qty > 0
    BY <1>1, <1>2
  <2> HIDE DEF f, q, after
  <2>6. ords[n].qty - f \in 1 .. Qty
    BY <2>1, <2>2, <2>4, <2>5, PaperAssumption DEF PaperOrder
  <2>7. after[n] \in PaperOrder
    BY <2>1, <2>3, <2>4, <2>6 DEF PaperOrder
  <2>8. ords[n].queue # None => q # None /\ q <= ords[n].queue
    <3>1. ords[n].queue # None => Ahead(ords[n], seen) = ords[n].queue
      BY DEF Ahead
    <3>2. trade.sz \in Nat /\ ords[n].queue \in Nat \cup {None}
      BY <2>1, MakerAssumption DEF PaperOrder, Size
    <3>3. QED  BY <3>1, <3>2, PaperAssumption DEF q, NotBelow0
  <2>9. after[n].qty <= ords[n].qty /\ after[n].cancel <= ords[n].cancel
    BY <2>1, <2>2, <2>4 DEF PaperOrder
  <2>10. after[n].queue = q /\ after[n].live = ords[n].live
         /\ after[n].cancel = ords[n].cancel
    BY <2>4
  <2>11. QED  BY <2>7, <2>8, <2>9, <2>10 DEF Less
<1>3. QED  BY <1>1, <1>2 DEF Meek

\* To leave the orders alone is meek.
LEMMA SameIsMeek ==
    ASSUME NEW ords, Typed(ords)
    PROVE  Meek(ords, ords)
<1> SUFFICES ASSUME NEW n \in DOMAIN ords
             PROVE  ords[n] \in PaperOrder /\ Less(ords[n], ords[n])
  BY DEF Meek
<1>1. ords[n] \in PaperOrder
  BY DEF Typed
<1>2. Less(ords[n], ords[n])
  BY <1>1 DEF Less, PaperOrder, Size
<1>3. QED  BY <1>1, <1>2

\* Meek changes leave the orders as well steered as they were.
LEMMA MeekIsSteered ==
    ASSUME NEW before, NEW after, NEW cur, NEW last, NEW gone,
           Steered(before, cur, last, gone), Meek(before, after)
    PROVE  Steered(after, cur, last, gone)
BY DEF Steered, Meek

-----------------------------------------------------------------------------
(* A decision. *)

\* place() puts a side's new order behind every order it ever sent there.
LEMMA PlaceSteers ==
    ASSUME NEW ords, NEW cur, NEW last \in Time, NEW t \in Time, last < t,
           NEW gone \in Int, gone <= t + Latency, Steered(ords, cur, last, gone),
           NEW quotes \in [Side -> Tick \cup {None}]
    PROVE  Steered(OrdersPlaced(ords, cur, quotes, t), CurrentPlaced(ords, cur, quotes, t),
                   t, t + Latency)
<1> DEFINE sent == Sent(ords, cur, quotes, t)
           told == Cancelled(ords, cur, quotes)
           after == OrdersPlaced(ords, cur, quotes, t)
           cur2 == CurrentPlaced(ords, cur, quotes, t)
<1>1. DOMAIN after = DOMAIN ords \cup sent
  BY DEF OrdersPlaced
<1>2. ASSUME NEW n \in sent
      PROVE  /\ n \in OrderName /\ n[2] = t /\ n \notin DOMAIN ords
             /\ quotes[n[1]] \in Tick /\ cur2[n[1]] = t
             /\ n[1] \in Side /\ ~Keeps(ords, cur, n[1], quotes[n[1]])
  <2>1. n[1] \in Side /\ n[2] = t /\ n = <<n[1], t>> /\ quotes[n[1]] # None
        /\ ~Keeps(ords, cur, n[1], quotes[n[1]])
    BY <1>2 DEF Sent
  <2>2. n \notin DOMAIN ords
    BY <2>1 DEF Steered, Time
  <2>3. cur2[n[1]] = t
    BY <2>1 DEF CurrentPlaced
  <2>4. QED  BY <2>1, <2>2, <2>3 DEF OrderName
<1>3. ASSUME NEW n \in sent
      PROVE  /\ after[n] \in PaperOrder
             /\ after[n].live = t + Latency /\ after[n].cancel = Never
  <2>1. after[n] = NewOrder(quotes[n[1]], t)
    BY <1>1, <1>3 DEF OrdersPlaced
  <2>2. QED  BY <1>2, <1>3, <2>1, NewOrderType
<1>4. ASSUME NEW n \in DOMAIN ords
      PROVE  /\ n \in OrderName /\ n[1] \in Side /\ n[2] <= last
             /\ ords[n] \in PaperOrder /\ ords[n].live = n[2] + Latency
             /\ n \notin sent
  BY <1>2, <1>4 DEF Steered, OrderName
<1>5. ASSUME NEW n \in DOMAIN ords
      PROVE  /\ after[n] \in PaperOrder
             /\ after[n].live = ords[n].live
             /\ after[n].cancel <= ords[n].cancel
             /\ IF cur2[n[1]] = n[2] THEN after[n].cancel = Never /\ n[1] \notin {m[1] : m \in sent}
                ELSE after[n].cancel <= t + Latency
  <2>1. CASE cur[n[1]] # n[2]
    <3>1. n \notin told
      BY <2>1, <1>4 DEF Cancelled
    <3>2. after[n] = ords[n]
      BY <1>1, <1>4, <1>5, <3>1 DEF OrdersPlaced
    <3>3. ords[n].cancel <= gone
      BY <2>1, <1>5 DEF Steered
    <3>4. cur2[n[1]] # n[2]
      BY <2>1, <1>4, PaperAssumption DEF CurrentPlaced, Time, OrderName
    <3>5. QED  BY <1>4, <3>2, <3>3, <3>4, PaperAssumption DEF Time, PaperOrder
  <2>2. CASE cur[n[1]] = n[2] /\ Keeps(ords, cur, n[1], quotes[n[1]])
    <3>1. n \notin told
      BY <2>2, <1>4 DEF Cancelled
    <3>2. after[n] = ords[n]
      BY <1>1, <1>4, <1>5, <3>1 DEF OrdersPlaced
    <3>3. ords[n].cancel = Never
      BY <2>2, <1>5 DEF Steered
    <3>4. n[1] \notin {m[1] : m \in sent}
      BY <2>2, <1>2
    <3>5. cur2[n[1]] = n[2]
      BY <2>2, <1>4 DEF CurrentPlaced
    <3>6. QED  BY <1>4, <3>2, <3>3, <3>4, <3>5 DEF PaperOrder
  <2>3. CASE cur[n[1]] = n[2] /\ ~Keeps(ords, cur, n[1], quotes[n[1]])
    <3>1. n = <<n[1], cur[n[1]]>> /\ Open(ords, cur, n[1])
      BY <2>3, <1>4, PaperAssumption DEF Open, OrderName, Time
    <3>2. n \in told
      BY <2>3, <3>1, <1>4 DEF Cancelled
    <3>3. after[n] = CancelBy(ords[n], t + Latency)
      BY <1>1, <1>4, <1>5, <3>2 DEF OrdersPlaced
    <3>4. cur2[n[1]] # n[2]
      BY <2>3, <1>4, PaperAssumption DEF CurrentPlaced, Time, OrderName
    <3>5. t + Latency \in Nat
      BY PaperAssumption DEF Time
    <3>6. QED  BY <1>4, <3>3, <3>4, <3>5, CancelByType
  <2>4. QED  BY <2>1, <2>2, <2>3
<1>6. DOMAIN after \subseteq OrderName
  BY <1>1, <1>2, <1>4
<1>7. cur2 \in [Side -> Time \cup {None}]
  BY DEF CurrentPlaced, Steered
<1>8. ASSUME NEW n \in DOMAIN after
      PROVE  /\ after[n] \in PaperOrder
             /\ n[2] <= t
             /\ after[n].live = n[2] + Latency
             /\ IF cur2[n[1]] = n[2] THEN after[n].cancel = Never
                ELSE after[n].cancel <= t + Latency
  <2>1. CASE n \in sent
    BY <2>1, <1>2, <1>3 DEF Time
  <2>2. CASE n \in DOMAIN ords
    BY <2>2, <1>4, <1>5 DEF Time, OrderName
  <2>3. QED  BY <1>1, <1>8, <2>1, <2>2
<1>9. ASSUME NEW m \in DOMAIN after, NEW n \in DOMAIN after, m[1] = n[1], m[2] < n[2]
      PROVE  after[m].cancel <= after[n].live
  <2>1. CASE n \in sent
    <3>1. m \in DOMAIN ords
      BY <1>1, <1>2, <1>9, <2>1 DEF Time
    <3>2. cur2[m[1]] # m[2]
      BY <1>5, <1>9, <2>1, <3>1
    <3>3. QED  BY <1>3, <1>5, <2>1, <3>1, <3>2
  <2>2. CASE n \in DOMAIN ords
    <3>1. m \in DOMAIN ords
      BY <1>1, <1>2, <1>4, <1>9, <2>2 DEF Time, OrderName
    <3>2. ords[m].cancel <= ords[n].live
      BY <1>9, <2>2, <3>1 DEF Steered
    <3>3. QED  BY <1>4, <1>5, <2>2, <3>1, <3>2 DEF PaperOrder
  <2>3. QED  BY <1>1, <1>9, <2>1, <2>2
<1>10. QED  BY <1>6, <1>7, <1>8, <1>9 DEF Steered

-----------------------------------------------------------------------------
(* The invariant. *)

\* An evaluation after a meek message steers what the message left.
LEMMA EvaluateSteers ==
    ASSUME MakerInv, NEW before, Meek(orders, before), Evaluate(before), UNCHANGED now
    PROVE  MakerInv'
<1>1. Steered(before, current, lastEval, lastEval + Latency)
  BY MeekIsSteered DEF MakerInv
<1>2. CASE lastEval' = lastEval /\ orders' = before /\ current' = current
  BY <1>1, <1>2 DEF MakerInv
<1>3. CASE /\ now - lastEval >= EvalMs
           /\ lastEval' = now
           /\ \E want \in Wants(position), room \in Rooms :
                LET quotes == Quoted(want, position, room)
                IN  /\ orders' = OrdersPlaced(before, current, quotes, now)
                    /\ current' = CurrentPlaced(before, current, quotes, now)
  <2>1. PICK want \in Wants(position), room \in Rooms :
            /\ orders' = OrdersPlaced(before, current, Quoted(want, position, room), now)
            /\ current' = CurrentPlaced(before, current, Quoted(want, position, room), now)
    BY <1>3
  <2>2. Quoted(want, position, room) \in [Side -> Tick \cup {None}]
    BY DEF Wants, Quoted
  <2>3. lastEval < now /\ now \in Time /\ lastEval \in Time
    BY <1>3, MakerAssumption DEF MakerInv, Time
  <2>4. Steered(orders', current', now, now + Latency)
    <3>1. lastEval + Latency \in Int /\ lastEval + Latency <= now + Latency
      BY <2>3, PaperAssumption DEF Time
    <3>2. QED  BY <1>1, <2>1, <2>2, <2>3, <3>1, PlaceSteers
  <2>5. now' = now /\ lastEval' = now
    BY <1>3
  <2>6. QED  BY <2>3, <2>4, <2>5 DEF MakerInv, Time
<1>4. QED  BY <1>2, <1>3 DEF Evaluate

\* A coin that has just started has no orders to lose.
LEMMA MakerInvInit == Init => MakerInv
<1> SUFFICES ASSUME Init PROVE MakerInv
  OBVIOUS
<1>1. DOMAIN orders = {} /\ current \in [Side -> Time \cup {None}]
  BY DEF Init
<1>2. now \in Time /\ lastEval \in Time /\ lastEval <= now
  BY PaperAssumption DEF Init, Time
<1>3. QED  BY <1>1, <1>2 DEF MakerInv, Steered

\* Every step of the maker keeps the invariant.
LEMMA MakerInvStep == MakerInv /\ [Next]_vars => MakerInv'
<1> SUFFICES ASSUME MakerInv, [Next]_vars PROVE MakerInv'
  OBVIOUS
<1>0. Typed(orders)
  BY DEF MakerInv, Steered, Typed
<1>1. CASE HearTop
  <2>1. PICK t \in BlockTimes, top \in Tops : Evaluate(AfterTop(orders, t, top))
    BY <1>1 DEF HearTop
  <2>2. UNCHANGED now
    BY <1>1 DEF HearTop
  <2>3. t \in Time
    BY DEF BlockTimes
  <2>4. Meek(orders, AfterTop(orders, t, top))
    BY <1>0, <2>3, TopIsMeek
  <2>5. QED  BY <2>1, <2>2, <2>4, EvaluateSteers
<1>2. CASE HearRef
  <2>1. Meek(orders, orders)
    BY <1>0, SameIsMeek
  <2>2. QED  BY <1>2, <2>1, EvaluateSteers DEF HearRef
<1>3. CASE HearDepth
  <2>1. PICK t \in BlockTimes, depth \in Depths : orders' = AfterDepth(orders, t, depth)
    BY <1>3 DEF HearDepth
  <2>2. Meek(orders, orders')
    BY <1>0, <2>1, DepthIsMeek DEF BlockTimes
  <2>3. Steered(orders', current, lastEval, lastEval + Latency)
    BY <2>2, MeekIsSteered DEF MakerInv
  <2>4. QED  BY <1>3, <2>3 DEF HearDepth, MakerInv
<1>4. CASE HearTrade
  <2>1. PICK t \in BlockTimes, trade \in Trades, seen \in SeenSizes :
            orders' = AfterTrade(orders, t, trade, seen)
    BY <1>4 DEF HearTrade
  <2>2. seen \in Size
    BY SeenIsSize
  <2>3. Meek(orders, orders')
    BY <1>0, <2>1, <2>2, TradeIsMeek DEF BlockTimes
  <2>4. Steered(orders', current, lastEval, lastEval + Latency)
    BY <2>3, MeekIsSteered DEF MakerInv
  <2>5. QED  BY <1>4, <2>4 DEF HearTrade, MakerInv
<1>5. CASE Wait
  <2>1. now' \in Time /\ lastEval <= now' /\ UNCHANGED <<lastEval, orders, current>>
    BY <1>5, PaperAssumption DEF Wait, maker, MakerInv, Time
  <2>2. QED  BY <2>1 DEF MakerInv
<1>6. CASE UNCHANGED vars
  BY <1>6 DEF vars, maker, MakerInv
<1>7. QED  BY <1>1, <1>2, <1>3, <1>4, <1>5, <1>6 DEF Next

\* The invariant holds always.
LEMMA MakerInvAlways == Spec => []MakerInv
BY MakerInvInit, MakerInvStep, PTL DEF Spec

-----------------------------------------------------------------------------
(* What follows from it. *)

\* Each order's times and sizes are those of a paper order: its size is a
\* part of what was sent, never nothing, and its name a side and a time.
THEOREM OrdersTypeCorrect == Spec => []OrdersType
<1>1. MakerInv => OrdersType
  BY DEF MakerInv, Steered, OrdersType
<1>2. QED  BY <1>1, MakerInvAlways, PTL

\* place() loses track of no order: each is the current one of its side or
\* leaves within a latency of the last decision.
THEOREM NoOrderStrays == Spec => []NoStrayOrder
<1>1. MakerInv => NoStrayOrder
  BY DEF MakerInv, Steered, NoStrayOrder
<1>2. QED  BY <1>1, MakerInvAlways, PTL

\* No two orders of a side are live at one block time.
THEOREM OneLivePerSideAlways == Spec => []OneLivePerSide
<1>1. MakerInv => OneLivePerSide
  BY DEF MakerInv, Steered, OneLivePerSide
<1>2. QED  BY <1>1, MakerInvAlways, PTL

\* Two orders a trade fills are on the side its taker hits and live at its
\* block time, so they are one.
LEMMA FilledIsUnique ==
    ASSUME NEW ords, NEW cur, NEW last, NEW gone, Steered(ords, cur, last, gone),
           NEW t \in Time, NEW trade \in Trades, NEW seen \in Size,
           NEW m \in DOMAIN ords, Filled(ords, m, t, trade, seen) > 0,
           NEW n \in DOMAIN ords, Filled(ords, n, t, trade, seen) > 0
    PROVE  m = n
<1>1. Meets(ords, m, t, trade) /\ Meets(ords, n, t, trade)
  BY DEF Filled
<1>2. m \in OrderName /\ n \in OrderName /\ ords[m] \in PaperOrder /\ ords[n] \in PaperOrder
  BY DEF Steered
<1>3. m[1] = n[1]
  BY <1>1, <1>2, MakerAssumption DEF Meets, OrderName, Side
<1>4. ords[m].live <= t /\ t < ords[m].cancel /\ ords[n].live <= t /\ t < ords[n].cancel
  BY <1>1 DEF Meets, LiveAt
<1>5. ~(m[2] < n[2]) /\ ~(n[2] < m[2])
  BY <1>2, <1>3, <1>4 DEF Steered, PaperOrder, Time
<1>6. QED  BY <1>2, <1>3, <1>5 DEF OrderName, Time

\* A trade of the real market fills at most one of a maker's orders.
THEOREM TradesFillOnce == Spec => []TradeFillsOnce
<1>1. Init => TradeFillsOnce
  BY FS_EmptySet DEF Init, TradeFillsOnce
<1>2. MakerInv /\ TradeFillsOnce /\ [Next]_vars => TradeFillsOnce'
  <2> SUFFICES ASSUME MakerInv, TradeFillsOnce, [Next]_vars PROVE TradeFillsOnce'
    OBVIOUS
  <2>1. CASE fills' = {}
    BY <2>1, FS_EmptySet DEF TradeFillsOnce
  <2>2. CASE HearTrade
    <3>1. PICK t \in BlockTimes, trade \in Trades, seen \in SeenSizes :
              fills' = FillsOf(orders, t, trade, seen)
      BY <2>2 DEF HearTrade
    <3>2. t \in Time /\ seen \in Size
      BY SeenIsSize DEF BlockTimes
    <3>3. \A f, g \in fills' : f = g
      BY <3>1, <3>2, FilledIsUnique DEF FillsOf, MakerInv
    <3>4. fills' = {} \/ \E f : fills' = {f}
      <4>1. ASSUME NEW f \in fills'
            PROVE  fills' = {f}
        BY <3>3, <4>1
      <4>2. QED  BY <4>1
    <3>5. Cardinality({}) = 0 /\ \A f : Cardinality({f}) = 1
      BY FS_EmptySet, FS_Singleton
    <3>6. CASE fills' = {}
      BY <3>5, <3>6 DEF TradeFillsOnce
    <3>7. ASSUME NEW f, fills' = {f} PROVE TradeFillsOnce'
      BY <3>5, <3>7 DEF TradeFillsOnce
    <3>8. QED  BY <3>4, <3>6, <3>7
  <2>3. CASE UNCHANGED fills
    BY <2>3 DEF TradeFillsOnce
  <2>4. QED
    BY <2>1, <2>2, <2>3 DEF Next, HearTop, HearRef, HearDepth, Wait, maker, vars
<1>3. QED  BY <1>1, <1>2, MakerInvAlways, PTL DEF Spec

-----------------------------------------------------------------------------
(* An order only shrinks. *)

\* A decision cancels or keeps; the orders it sends bear names of their own.
LEMMA PlaceShrinks ==
    ASSUME NEW ords, NEW cur, NEW last, NEW gone, Steered(ords, cur, last, gone),
           NEW before, Meek(ords, before), NEW quotes, last \in Time,
           NEW t \in Time, last < t, NEW n \in DOMAIN ords,
           n \in DOMAIN OrdersPlaced(before, cur, quotes, t)
    PROVE  Less(OrdersPlaced(before, cur, quotes, t)[n], ords[n])
<1>1. n \notin Sent(before, cur, quotes, t)
  BY DEF Sent, Steered, Time, OrderName
<1>2. n \in DOMAIN before
  BY <1>1 DEF OrdersPlaced
<1>3. /\ ords[n] \in PaperOrder /\ before[n] \in PaperOrder
      /\ Less(before[n], ords[n])
  BY <1>2 DEF Meek, Steered
<1>4. CASE OrdersPlaced(before, cur, quotes, t)[n] = before[n]
  BY <1>3, <1>4
<1>5. CASE OrdersPlaced(before, cur, quotes, t)[n] = CancelBy(before[n], t + Latency)
  <2>1. t + Latency \in Nat
    BY PaperAssumption DEF Time
  <2>2. PICK o : o = CancelBy(before[n], t + Latency)
    OBVIOUS
  <2>3. o \in PaperOrder /\ Less(o, before[n])
    BY <1>3, <2>1, <2>2, CancelByType
  <2>4. Less(o, ords[n])
    BY <1>3, <2>3, PaperAssumption DEF Less, PaperOrder, Size
  <2>5. QED  BY <1>5, <2>2, <2>4
<1>6. QED  BY <1>1, <1>2, <1>4, <1>5 DEF OrdersPlaced

\* An evaluation after a meek message.
LEMMA EvaluateShrinks ==
    ASSUME MakerInv, NEW before, Meek(orders, before), Evaluate(before),
           NEW n \in DOMAIN orders, n \in DOMAIN orders'
    PROVE  Less(orders'[n], orders[n])
<1>1. CASE orders' = before
  BY <1>1 DEF Meek
<1>2. CASE /\ now - lastEval >= EvalMs
           /\ \E want \in Wants(position), room \in Rooms :
                orders' = OrdersPlaced(before, current, Quoted(want, position, room), now)
  <2>1. PICK want \in Wants(position), room \in Rooms :
            orders' = OrdersPlaced(before, current, Quoted(want, position, room), now)
    BY <1>2
  <2>2. lastEval < now /\ now \in Time /\ lastEval \in Time
    BY <1>2, MakerAssumption DEF MakerInv, Time
  <2>3. Steered(orders, current, lastEval, lastEval + Latency)
    BY DEF MakerInv
  <2>4. QED  BY <2>1, <2>2, <2>3, PlaceShrinks
<1>3. QED  BY <1>1, <1>2 DEF Evaluate

\* Its size, its time and, once it has joined one, its queue never grow
\* (see_level, match, cancel).
THEOREM OrdersShrink == Spec => OrdersOnlyShrink
<1>1. MakerInv /\ [Next]_vars =>
        [\A n \in DOMAIN orders \cap DOMAIN orders' : Less(orders'[n], orders[n])]_vars
  <2> SUFFICES ASSUME MakerInv, Next,
                      NEW n \in DOMAIN orders, n \in DOMAIN orders'
               PROVE  Less(orders'[n], orders[n])
    OBVIOUS
  <2>0. Typed(orders)
    BY DEF MakerInv, Steered, Typed
  <2>1. CASE HearTop
    <3>1. PICK t \in BlockTimes, top \in Tops : Evaluate(AfterTop(orders, t, top))
      BY <2>1 DEF HearTop
    <3>2. Meek(orders, AfterTop(orders, t, top))
      BY <2>0, TopIsMeek DEF BlockTimes
    <3>3. QED  BY <3>1, <3>2, EvaluateShrinks
  <2>2. CASE HearRef
    BY <2>0, <2>2, SameIsMeek, EvaluateShrinks DEF HearRef
  <2>3. CASE HearDepth
    <3>1. Meek(orders, orders')
      BY <2>0, <2>3, DepthIsMeek DEF HearDepth, BlockTimes
    <3>2. QED  BY <3>1 DEF Meek
  <2>4. CASE HearTrade
    <3>1. Meek(orders, orders')
      BY <2>0, <2>4, SeenIsSize, TradeIsMeek DEF HearTrade, BlockTimes
    <3>2. QED  BY <3>1 DEF Meek
  <2>5. CASE Wait
    <3>1. Meek(orders, orders')
      BY <2>0, <2>5, SameIsMeek DEF Wait, maker
    <3>2. QED  BY <3>1 DEF Meek
  <2>6. QED  BY <2>1, <2>2, <2>3, <2>4, <2>5 DEF Next
<1>2. MakerInv /\ [Next]_vars =>
        [\A n \in DOMAIN orders \cap DOMAIN orders' :
            /\ orders'[n].qty <= orders[n].qty
            /\ orders'[n].cancel <= orders[n].cancel
            /\ orders[n].queue # None => /\ orders'[n].queue # None
                                         /\ orders'[n].queue <= orders[n].queue]_vars
  BY <1>1 DEF Less
<1>3. QED  BY <1>2, MakerInvAlways, PTL DEF Spec, OrdersOnlyShrink

-----------------------------------------------------------------------------
(* What a trade adds to the position. *)

\* The sum over one element is the element's (MapThenSumSet, unfolded once).
LEMMA BoughtOfOne ==
    ASSUME NEW f, f.order[1] * f.qty \in Int
    PROVE  Bought({f}) = f.order[1] * f.qty
<1> DEFINE W(x) == x.order[1] * x.qty
           Adds(j) == j = [s \in SUBSET {f} |->
                            IF s = {} THEN 0
                            ELSE LET x == CHOOSE x \in s : TRUE IN W(x) + j[s \ {x}]]
           j0 == [s \in SUBSET {f} |-> IF s = {} THEN 0 ELSE W(f)]
           j1 == CHOOSE j : Adds(j)
<1>1. Bought({f}) = j1[{f}]
  BY DEF Bought, MapThenSumSet, MapThenFoldSet
<1>2. \A s \in SUBSET {f} : s = {} \/ s = {f}
  OBVIOUS
<1>3. (CHOOSE x \in {f} : TRUE) = f
  OBVIOUS
<1> HIDE DEF W
<1>4. Adds(j0)
  <2>1. W(f) + 0 = W(f)
    BY DEF W
  <2>2. ASSUME NEW s \in SUBSET {f}
        PROVE  j0[s] = IF s = {} THEN 0
                       ELSE LET x == CHOOSE x \in s : TRUE IN W(x) + j0[s \ {x}]
    <3>1. CASE s = {}
      BY <3>1
    <3>2. CASE s = {f}
      <4>1. j0[{f} \ {f}] = 0
        OBVIOUS
      <4> HIDE DEF j0
      <4>2. (CHOOSE x \in s : TRUE) = f
        BY <1>3, <3>2
      <4>3. j0[s] = W(f)
        BY <3>2 DEF j0
      <4>4. QED  BY <2>1, <3>2, <4>1, <4>2, <4>3
    <3>3. QED  BY <1>2, <3>1, <3>2
  <2>3. QED  BY <2>2
<1>5. Adds(j1)
  <2> HIDE DEF Adds, j0
  <2>1. QED  BY <1>4
<1> HIDE DEF j1
<1>6. j1[{}] = 0
  BY <1>5
<1>7. j1[{f}] = W(f) + j1[{}]
  <2>1. j1[{f}] = LET x == CHOOSE x \in {f} : TRUE IN W(x) + j1[{f} \ {x}]
    BY <1>5
  <2>2. {f} \ {f} = {}
    OBVIOUS
  <2>3. QED  BY <1>3, <2>1, <2>2
<1>8. QED  BY <1>1, <1>6, <1>7 DEF W

\* The whole of what a trade fills is at most one order's.
FillsOne(ords, n, t, trade, seen) ==
    /\ n \in DOMAIN ords
    /\ Filled(ords, n, t, trade, seen) \in 1 .. ords[n].qty
    /\ Bought(FillsOf(ords, t, trade, seen)) = n[1] * Filled(ords, n, t, trade, seen)

LEMMA TradeFillsOne ==
    ASSUME NEW ords, NEW cur, NEW last, NEW gone, Steered(ords, cur, last, gone),
           NEW t \in Time, NEW trade \in Trades, NEW seen \in Size
    PROVE  \/ Bought(FillsOf(ords, t, trade, seen)) = 0
           \/ \E n \in DOMAIN ords : FillsOne(ords, n, t, trade, seen)
<1> DEFINE fs == FillsOf(ords, t, trade, seen)
<1>0. Typed(ords)
  BY DEF Steered, Typed
<1>1. CASE fs = {}
  <2>1. Bought({}) = 0
    <3>1. \A s \in SUBSET {} : s = {}
      OBVIOUS
    <3>2. QED  BY <3>1 DEF Bought, MapThenSumSet, MapThenFoldSet
  <2>2. QED  BY <1>1, <2>1
<1>2. ASSUME NEW f \in fs PROVE \E n \in DOMAIN ords : FillsOne(ords, n, t, trade, seen)
  <2>1. PICK n \in DOMAIN ords :
            /\ Filled(ords, n, t, trade, seen) > 0
            /\ f = [order |-> n, qty |-> Filled(ords, n, t, trade, seen), at |-> t]
    BY <1>2 DEF FillsOf
  <2>2. \A g \in fs : g = f
    <3>1. SUFFICES ASSUME NEW m \in DOMAIN ords, Filled(ords, m, t, trade, seen) > 0
                   PROVE  m = n
      BY <2>1 DEF FillsOf
    <3>2. QED  BY <2>1, <3>1, FilledIsUnique
  <2>3. fs = {f}
    BY <1>2, <2>2
  <2>4. ords[n] \in PaperOrder /\ ords[n].qty \in Int /\ n[1] \in Int
    BY <1>0, PaperAssumption DEF Typed, PaperOrder, OrderName, Side
  <2>5. Filled(ords, n, t, trade, seen) \in 0 .. ords[n].qty
    BY <1>0, FilledType
  <2>6. f.order[1] = n[1] /\ f.qty = Filled(ords, n, t, trade, seen)
    BY <2>1
  <2>7. f.qty \in Int
    BY <2>4, <2>5, <2>6
  <2>8. f.order[1] * f.qty \in Int
    BY <2>4, <2>6, <2>7
  <2>9. Bought({f}) = f.order[1] * f.qty
    BY <2>8, BoughtOfOne
  <2> HIDE DEF fs
  <2>10. Bought(fs) = n[1] * Filled(ords, n, t, trade, seen)
    BY <2>3, <2>6, <2>9
  <2>11. Filled(ords, n, t, trade, seen) \in 1 .. ords[n].qty
    BY <2>1, <2>4, <2>5
  <2>12. QED  BY <2>10, <2>11 DEF FillsOne, fs
<1>3. QED  BY <1>1, <1>2

\* So the position stays a number.
LEMMA BoughtType ==
    ASSUME NEW ords, NEW cur, NEW last, NEW gone, Steered(ords, cur, last, gone),
           NEW t \in Time, NEW trade \in Trades, NEW seen \in Size
    PROVE  Bought(FillsOf(ords, t, trade, seen)) \in Int
<1>1. ASSUME NEW n \in DOMAIN ords, FillsOne(ords, n, t, trade, seen)
      PROVE  Bought(FillsOf(ords, t, trade, seen)) \in Int
  <2>1. n[1] \in Int /\ ords[n].qty \in Int
    BY PaperAssumption DEF Steered, OrderName, Side, PaperOrder
  <2>2. PICK k \in Int : k = Filled(ords, n, t, trade, seen)
    BY <1>1, <2>1 DEF FillsOne
  <2>3. n[1] * k \in Int
    BY <2>1
  <2>4. QED  BY <1>1, <2>2, <2>3 DEF FillsOne
<1>2. QED  BY <1>1, TradeFillsOne

-----------------------------------------------------------------------------
(* How far fills can carry the position. *)

\* The orders of side s that may still fill at block time t or later, and
\* what they can fill.
Out(ords, s, t) == {n \in DOMAIN ords : n[1] = s /\ ords[n].cancel > t}
Amount(ords) == [n \in DOMAIN ords |-> ords[n].qty]
MayFill(ords, s, t) == SumOver(Amount(ords), Out(ords, s, t))

\* Orders of a side are sent one evaluation apart.
Spaced(ords) ==
    \A m, n \in DOMAIN ords : m[1] = n[1] /\ m[2] < n[2] => m[2] + EvalMs <= n[2]

\* The position, and what may still come to it, stay within the bound.
BoundInv ==
    /\ position \in Int
    /\ Spaced(orders)
    /\ \A s \in Side :
        s * position + MayFill(orders, s, now - Lag) <= Limit + InFlight * Qty

\* The limits are numbers, and no quote that is sent can pass them alone.
LEMMA LimitType ==
    /\ Limit \in Nat /\ InFlight \in Nat
    /\ \A room \in Rooms : Limit >= room \/ Limit = MaxPosition + Qty - 1
    /\ Limit >= Qty \/ Limit = MaxPosition + Qty - 1
<1> DEFINE R == Rooms \cup {Qty}
           most == CHOOSE x \in R : \A y \in R : x >= y
<1>1. Qty \in Nat \ {0} /\ MaxPosition \in Nat /\ R \subseteq Nat
  BY PaperAssumption, MakerAssumption
<1>2. \E x \in R : \A y \in R : x >= y
  BY <1>1, MakerAssumption
<1>3. most \in R /\ \A y \in R : most >= y
  BY <1>2
<1>4. Max(R) = most
  BY DEF Max
<1>5. Qty \in R /\ Rooms \subseteq R
  OBVIOUS
<1> HIDE DEF R, most
<1>6. most \in Nat /\ most >= Qty /\ \A room \in Rooms : most >= room
  BY <1>1, <1>3, <1>5
<1>7. Limit = IF most < MaxPosition + Qty - 1 THEN most ELSE MaxPosition + Qty - 1
  BY <1>4 DEF Limit, R
<1>8. Limit \in Nat
  BY <1>1, <1>6, <1>7
<1>9. InFlight \in Nat
  <2>1. PICK a \in Int : a = Latency + Lag - 1 /\ a >= 0 - 1
    BY PaperAssumption, MakerAssumption
  <2>2. EvalMs \in Nat \ {0}
    BY MakerAssumption
  <2>3. PICK d \in Int : d = a \div EvalMs /\ a < EvalMs * d + EvalMs
    BY <2>1, <2>2, Quotient
  <2>4. d >= 0 - 1
    <3>1. SUFFICES ASSUME d + 1 <= 0 - 1 PROVE FALSE
      BY <2>3
    <3>2. EvalMs * (d + 1) <= 0 - EvalMs
      BY <2>2, <3>1
    <3>3. EvalMs * (d + 1) = EvalMs * d + EvalMs
      BY <2>2
    <3>4. QED  BY <2>1, <2>2, <2>3, <3>2, <3>3
  <2>5. QED  BY <2>1, <2>3, <2>4 DEF InFlight
<1>10. QED  BY <1>1, <1>6, <1>7, <1>8, <1>9

\* What may fill is a finite sum of sizes.
LEMMA MayFillType ==
    ASSUME NEW ords, DOMAIN ords \subseteq OrderName,
           \A n \in DOMAIN ords : ords[n] \in PaperOrder, NEW s, NEW t
    PROVE  /\ IsFiniteSet(Out(ords, s, t))
           /\ \A n \in Out(ords, s, t) : Amount(ords)[n] \in Nat /\ Amount(ords)[n] <= Qty
           /\ SumTakes(Amount(ords), Out(ords, s, t))
           /\ MayFill(ords, s, t) \in Nat
<1>1. IsFiniteSet(Side) /\ IsFiniteSet(Time)
  <2>1. IsFiniteSet(Side)
    <3>1. IsFiniteSet({1}) /\ IsFiniteSet({1} \cup {-1})
      BY FS_Singleton, FS_AddElement
    <3>2. QED  BY <3>1 DEF Side
  <2>2. QED  BY <2>1, PaperAssumption, FS_Interval DEF Time
<1>2. IsFiniteSet(OrderName)
  BY <1>1, FS_Product DEF OrderName
<1>3. Out(ords, s, t) \subseteq OrderName
  BY DEF Out
<1>4. IsFiniteSet(Out(ords, s, t))
  BY <1>2, <1>3, FS_Subset
<1>5. \A n \in Out(ords, s, t) : Amount(ords)[n] \in Nat /\ Amount(ords)[n] <= Qty
  BY PaperAssumption DEF Out, Amount, PaperOrder
<1>6. SumTakes(Amount(ords), Out(ords, s, t))
  BY <1>4, <1>5, SumOverTake
<1>7. MayFill(ords, s, t) \in Int
  BY <1>6 DEF SumTakes, MayFill
<1>8. MayFill(ords, s, t) >= 0
  <2>1. PICK S : S = Out(ords, s, t)
    OBVIOUS
  <2>2. PICK F : F = Amount(ords)
    OBVIOUS
  <2>3. PICK Z : Z = {}
    OBVIOUS
  <2>4. SumOver(F, Z) <= SumOver(F, S)
    BY <1>4, <1>5, <2>1, <2>2, <2>3, SumMono
  <2>5. SumOver(F, Z) = 0
    BY <2>3, FS_EmptySet, SumOverTake DEF SumTakes
  <2>6. QED  BY <2>1, <2>2, <2>4, <2>5 DEF MayFill
<1>9. QED  BY <1>4, <1>5, <1>6, <1>7, <1>8

\* Fewer, smaller or shorter orders may fill no more.
LEMMA FewerMayFill ==
    ASSUME NEW ords, DOMAIN ords \subseteq OrderName,
           \A n \in DOMAIN ords : ords[n] \in PaperOrder,
           NEW ords2, NEW s, NEW t \in Int, NEW t2 \in Int, t <= t2,
           \A n \in DOMAIN ords2 : n[1] = s =>
                /\ n \in DOMAIN ords /\ ords2[n] \in PaperOrder
                /\ ords2[n].qty <= ords[n].qty /\ ords2[n].cancel <= ords[n].cancel
    PROVE  MayFill(ords2, s, t2) <= MayFill(ords, s, t)
<1>1. PICK S, F : S = Out(ords, s, t) /\ F = Amount(ords)
  OBVIOUS
<1>2. PICK S2, F2 : S2 = Out(ords2, s, t2) /\ F2 = Amount(ords2)
  OBVIOUS
<1>3. IsFiniteSet(S) /\ \A n \in S : F[n] \in Nat
  BY <1>1, MayFillType
<1>4. ASSUME NEW n \in S2 PROVE n \in S /\ F2[n] \in Int /\ F2[n] <= F[n]
  <2>1. n \in DOMAIN ords2 /\ n[1] = s /\ ords2[n].cancel > t2
    BY <1>2, <1>4 DEF Out
  <2>2. /\ n \in DOMAIN ords /\ ords2[n] \in PaperOrder /\ ords[n] \in PaperOrder
        /\ ords2[n].qty <= ords[n].qty /\ ords2[n].cancel <= ords[n].cancel
    BY <2>1
  <2>3. ords[n].cancel > t
    BY <2>1, <2>2 DEF PaperOrder
  <2>4. F2[n] = ords2[n].qty /\ F[n] = ords[n].qty
    BY <1>1, <1>2, <2>1, <2>2 DEF Amount
  <2>5. QED  BY <1>1, <2>1, <2>2, <2>3, <2>4, PaperAssumption DEF Out, PaperOrder
<1>5. SumOver(F2, S2) <= SumOver(F, S)
  BY <1>3, <1>4, SumMono
<1>6. QED  BY <1>1, <1>2, <1>5 DEF MayFill

\* A set of naturals has a least one.
LEMMA LeastOfNats ==
    ASSUME NEW T, T \subseteq Nat, T # {}
    PROVE  \E m \in T : \A n \in T : m <= n
<1> DEFINE Below == OpToRel(<, Nat)
<1>1. IsWellFoundedOn(Below, Nat)
  BY NatLessThanWellFounded
<1>2. PICK m \in T : \A n \in T : <<n, m>> \notin Below
  <2> HIDE DEF Below
  <2>1. QED  BY <1>1, WFMin
<1>3. \A n \in T : ~(n < m)
  BY <1>2 DEF OpToRel
<1>4. ASSUME NEW n \in T PROVE m <= n
  <2>1. m \in Int /\ n \in Int /\ ~(n < m)
    BY <1>3
  <2>2. QED  BY <2>1
<1>5. QED  BY <1>4

\* Of a side's orders only so many have not left for sure: all but the
\* earliest were sent after the block time it leaves at less the latency.
LEMMA FewOut ==
    ASSUME NEW ords, NEW cur, NEW t \in Time, NEW gone, Steered(ords, cur, t, gone),
           Spaced(ords), NEW s \in Side
    PROVE  Cardinality(Out(ords, s, t - Lag)) <= InFlight + 1
<1> DEFINE L == Latency + Lag
<1>0. PICK S : S = Out(ords, s, t - Lag)
  OBVIOUS
<1>1. /\ \A n \in S : n \in DOMAIN ords /\ n[1] = s /\ ords[n].cancel > t - Lag
      /\ \A n \in DOMAIN ords :
            n \in OrderName /\ n[2] \in Nat /\ n[2] <= t /\ ords[n] \in PaperOrder
  BY <1>0 DEF Out, Steered, OrderName, Time
<1>2. IsFiniteSet(S) /\ Cardinality(S) \in Nat
  BY <1>0, <1>1, MayFillType, FS_CardinalityType DEF Steered
<1>3. L \in Nat /\ EvalMs \in Nat \ {0} /\ Lag \in Nat /\ Latency \in Nat /\ t \in Nat
  BY PaperAssumption, MakerAssumption DEF Time
<1>4. InFlight \in Nat
  BY LimitType
<1>5. CASE S = {}
  BY <1>0, <1>4, <1>5, FS_EmptySet
<1>6. CASE S # {}
  <2>1. PICK e \in S : \A n \in S : e[2] <= n[2]
    <3>1. {n[2] : n \in S} \subseteq Nat /\ {n[2] : n \in S} # {}
      BY <1>1, <1>6
    <3>2. PICK k \in {n[2] : n \in S} : \A j \in {n[2] : n \in S} : k <= j
      BY <3>1, LeastOfNats
    <3>3. QED  BY <3>2
  <2>2. PICK R : R = S \ {e}
    OBVIOUS
  <2>3. IsFiniteSet(R) /\ Cardinality(R) \in Nat /\ Cardinality(S) = Cardinality(R) + 1
    <3>1. S \in SUBSET S
      OBVIOUS
    <3>2. R \in SUBSET S
      BY <2>2
    <3>3. IsFiniteSet(R) /\ Cardinality(R) \in Nat
      BY <1>2, <3>2, FS_Subset, FS_CardinalityType
    <3>4. Cardinality(S) \in Nat /\ Cardinality(R) = Cardinality(S) - 1
      BY <1>2, <2>1, <2>2, <3>1, SmallerSet
    <3>5. QED  BY <3>3, <3>4
  <2>4. ASSUME NEW n \in R
        PROVE  /\ n \in DOMAIN ords /\ n[1] = s /\ n \in OrderName
               /\ n[2] \in Nat /\ t - n[2] \in 0 .. L - 1
    <3>1. n \in S /\ n # e /\ n[1] = e[1] /\ n \in OrderName /\ e \in OrderName
      BY <1>1, <2>1, <2>2
    <3>2. e[2] < n[2]
      BY <1>1, <2>1, <3>1 DEF OrderName, Time
    <3>3. ords[e].cancel <= n[2] + Latency
      BY <1>1, <2>1, <3>1, <3>2 DEF Steered
    <3>4. ords[e].cancel > t - Lag /\ ords[e].cancel \in Int
      BY <1>1, <2>1 DEF PaperOrder
    <3>5. n[2] \in Nat /\ n[2] <= t
      BY <1>1, <3>1
    <3>6. QED  BY <1>1, <1>3, <3>1, <3>3, <3>4, <3>5
  <2>5. Cardinality(R) <= InFlight
    <3> DEFINE f == [n \in R |-> (t - n[2]) \div EvalMs]
    <3>1. IsFiniteSet(0 .. InFlight - 1) /\ Cardinality(0 .. InFlight - 1) = InFlight
      BY <1>4, FS_Interval
    <3>2. ASSUME NEW n \in R PROVE f[n] \in 0 .. InFlight - 1
      <4>1. PICK d \in Int : d = t - n[2] /\ d >= 0 /\ d <= L - 1
        BY <1>3, <2>4
      <4>2. PICK b \in Int : b = L - 1
        BY <1>3
      <4>3. PICK q \in Int : q = d \div EvalMs /\ EvalMs * q <= d /\ d < EvalMs * q + EvalMs
        BY <1>3, Quotient
      <4>4. PICK k \in Int : k = b \div EvalMs /\ EvalMs * k <= b /\ b < EvalMs * k + EvalMs
        BY <1>3, Quotient
      <4>5. q >= 0
        <5>1. SUFFICES ASSUME q + 1 <= 0 PROVE FALSE
          BY <4>3
        <5>2. EvalMs * (q + 1) <= 0
          BY <1>3, <5>1
        <5>3. EvalMs * (q + 1) = EvalMs * q + EvalMs
          BY <1>3
        <5>4. QED  BY <1>3, <4>1, <4>3, <5>2, <5>3
      <4>6. q <= k
        <5>1. SUFFICES ASSUME k + 1 <= q PROVE FALSE
          BY <4>3, <4>4
        <5>2. EvalMs * (k + 1) <= EvalMs * q
          BY <1>3, <5>1
        <5>3. EvalMs * (k + 1) = EvalMs * k + EvalMs
          BY <1>3
        <5>4. EvalMs * k \in Int /\ EvalMs * q \in Int
          BY <1>3
        <5>5. QED  BY <1>3, <4>1, <4>2, <4>3, <4>4, <5>2, <5>3, <5>4
      <4>7. InFlight = k + 1
        <5>1. k = (Latency + Lag - 1) \div EvalMs
          BY <1>3, <4>2, <4>4
        <5>2. QED  BY <5>1 DEF InFlight
      <4>8. f[n] = q
        BY <4>1, <4>3
      <4> HIDE DEF f
      <4>9. QED  BY <4>5, <4>6, <4>7, <4>8
    <3>3. ASSUME NEW m \in R, NEW n \in R, f[m] = f[n], m[2] < n[2] PROVE FALSE
      <4>1. m[2] + EvalMs <= n[2]
        BY <2>4, <3>3 DEF Spaced
      <4>2. PICK a \in Int : a = t - n[2]
        BY <1>3, <2>4
      <4>3. PICK c \in Int : c = t - m[2] /\ c >= a + EvalMs
        BY <1>3, <2>4, <4>1, <4>2
      <4>4. PICK q \in Int : q = a \div EvalMs /\ EvalMs * q <= a /\ a < EvalMs * q + EvalMs
        BY <1>3, Quotient
      <4>5. PICK k \in Int : k = c \div EvalMs /\ EvalMs * k <= c /\ c < EvalMs * k + EvalMs
        BY <1>3, Quotient
      <4>6. k = q
        BY <3>3, <4>2, <4>3, <4>4, <4>5
      <4> HIDE DEF f
      <4>7. EvalMs * q \in Int
        BY <1>3
      <4>8. QED  BY <1>3, <4>3, <4>4, <4>5, <4>6, <4>7
    <3> HIDE DEF f
    <3>4. ASSUME NEW m \in R, NEW n \in R, f[m] = f[n] PROVE m = n
      <4>1. ~(m[2] < n[2]) /\ ~(n[2] < m[2])
        BY <3>3, <3>4
      <4>2. m[1] = n[1] /\ m[2] = n[2] /\ m \in OrderName /\ n \in OrderName
        BY <2>4, <4>1
      <4>3. QED  BY <4>2 DEF OrderName
    <3>5. f \in [R -> 0 .. InFlight - 1]
      <4>1. f = [n \in R |-> f[n]]
        BY DEF f
      <4>2. QED  BY <3>2, <4>1
    <3>6. SUFFICES ASSUME InFlight < Cardinality(R) PROVE FALSE
      BY <1>4, <2>3
    <3>7. \E x, y \in R : x # y /\ f[x] = f[y]
      BY <2>3, <3>1, <3>5, <3>6, FS_PigeonHole
    <3>8. QED  BY <3>4, <3>7
  <2>6. QED  BY <1>0, <1>4, <2>3, <2>5
<1>7. QED  BY <1>5, <1>6

\* What is on its way on a side at once is a number of lots.
LEMMA FewMayFill ==
    ASSUME NEW ords, NEW cur, NEW t \in Time, NEW gone, Steered(ords, cur, t, gone),
           Spaced(ords), NEW s \in Side
    PROVE  MayFill(ords, s, t - Lag) <= (InFlight + 1) * Qty
<1>1. PICK S : S = Out(ords, s, t - Lag)
  OBVIOUS
<1>2. PICK F : F = Amount(ords)
  OBVIOUS
<1>3. Qty \in Nat /\ InFlight \in Nat
  BY LimitType, PaperAssumption
<1>4. IsFiniteSet(S) /\ \A n \in S : F[n] \in Int /\ F[n] <= Qty
  BY <1>1, <1>2, MayFillType DEF Steered
<1>5. SumOver(F, S) <= Cardinality(S) * Qty
  BY <1>3, <1>4, SumBound
<1>6. Cardinality(S) <= InFlight + 1
  BY <1>1, FewOut
<1>7. PICK c \in Nat : c = Cardinality(S)
  BY <1>4, FS_CardinalityType
<1>8. c * Qty <= (InFlight + 1) * Qty
  <2>1. c <= InFlight + 1
    BY <1>6, <1>7
  <2>2. QED  BY <1>3, <2>1, SMTT(30)
<1>9. MayFill(ords, s, t - Lag) \in Int /\ c * Qty \in Int /\ (InFlight + 1) * Qty \in Int
  BY <1>3, MayFillType DEF Steered
<1>10. MayFill(ords, s, t - Lag) <= c * Qty
  BY <1>1, <1>2, <1>5, <1>7 DEF MayFill
<1>11. QED  BY <1>8, <1>9, <1>10

\* Orders that only lost size, in less time, may fill no more.
LEMMA MeekMayFill ==
    ASSUME NEW ords, Typed(ords), NEW after, Meek(ords, after), NEW s,
           NEW t \in Int, NEW t2 \in Int, t <= t2
    PROVE  MayFill(after, s, t2) <= MayFill(ords, s, t)
BY FewerMayFill DEF Typed, Meek, Less

\* A decision comes one evaluation after every order sent before.
LEMMA PlaceSpaced ==
    ASSUME NEW ords, NEW cur, NEW last \in Time, NEW t \in Time, last + EvalMs <= t,
           NEW gone, Steered(ords, cur, last, gone), Spaced(ords),
           NEW before, Meek(ords, before), NEW quotes
    PROVE  Spaced(OrdersPlaced(before, cur, quotes, t))
<1> DEFINE after == OrdersPlaced(before, cur, quotes, t)
<1>1. \A n \in DOMAIN ords : n \in OrderName /\ n[2] \in Nat /\ n[2] <= last
  BY DEF Steered, OrderName, Time
<1>2. \A n \in DOMAIN after : n \in DOMAIN ords \/ n = <<n[1], t>>
  BY DEF OrdersPlaced, Sent, Meek
<1>3. t \in Nat /\ last \in Nat /\ EvalMs \in Nat \ {0}
  BY MakerAssumption DEF Time
<1> HIDE DEF after
<1>4. ASSUME NEW m \in DOMAIN after, NEW n \in DOMAIN after, m[1] = n[1], m[2] < n[2]
      PROVE  m[2] + EvalMs <= n[2]
  <2>1. n[2] <= t
    <3>1. CASE n = <<n[1], t>>
      <4>1. n[2] = t
        BY <3>1
      <4>2. QED  BY <1>3, <4>1
    <3>2. CASE n \in DOMAIN ords
      BY <1>1, <1>3, <3>2
    <3>3. QED  BY <1>2, <3>1, <3>2
  <2>2. m \in DOMAIN ords
    <3>1. CASE m = <<m[1], t>>
      <4>1. m[2] = t
        BY <3>1
      <4>2. n[2] \in Int
        BY <1>1, <1>2, <1>3
      <4>3. QED  BY <1>3, <1>4, <2>1, <4>1, <4>2
    <3>2. QED  BY <1>2, <3>1
  <2>3. m[2] \in Nat /\ m[2] <= last
    BY <1>1, <2>2
  <2>4. CASE n \in DOMAIN ords
    BY <1>4, <2>2, <2>4 DEF Spaced
  <2>5. CASE n = <<n[1], t>>
    <3>1. n[2] = t
      BY <2>5
    <3>2. QED  BY <1>3, <2>3, <3>1
  <2>6. QED  BY <1>2, <2>4, <2>5
<1>5. QED  BY <1>4 DEF Spaced, after

\* A decision that sends nothing on a side lets no more fill there.
LEMMA PlaceMayFill ==
    ASSUME NEW ords, NEW cur, NEW last \in Time, NEW t \in Time, last < t,
           NEW gone, Steered(ords, cur, last, gone), NEW before, Meek(ords, before),
           NEW quotes, NEW s, quotes[s] = None, NEW since \in Int,
           Typed(OrdersPlaced(before, cur, quotes, t))
    PROVE  MayFill(OrdersPlaced(before, cur, quotes, t), s, since) <= MayFill(ords, s, since)
<1> DEFINE after == OrdersPlaced(before, cur, quotes, t)
<1>1. ASSUME NEW n \in DOMAIN after, n[1] = s
      PROVE  n \in DOMAIN ords /\ after[n] \in PaperOrder /\ Less(after[n], ords[n])
  <2>1. n \notin Sent(before, cur, quotes, t)
    BY <1>1 DEF Sent
  <2>2. n \in DOMAIN before
    BY <1>1, <2>1 DEF OrdersPlaced
  <2>3. n \in DOMAIN ords
    BY <2>2 DEF Meek
  <2>4. Less(after[n], ords[n])
    BY <1>1, <2>3, PlaceShrinks
  <2>5. QED  BY <1>1, <2>3, <2>4 DEF Typed
<1>2. DOMAIN ords \subseteq OrderName /\ \A n \in DOMAIN ords : ords[n] \in PaperOrder
  BY DEF Steered
<1>3. since <= since
  OBVIOUS
<1> HIDE DEF after
<1>4. MayFill(after, s, since) <= MayFill(ords, s, since)
  BY <1>1, <1>2, <1>3, FewerMayFill DEF Less
<1>5. QED  BY <1>4 DEF after

\* What a trade adds to a position it takes from what may fill.
LEMMA TradeMoves ==
    ASSUME NEW ords, NEW cur, NEW last, NEW gone, Steered(ords, cur, last, gone),
           NEW t \in Time, NEW trade \in Trades, NEW seen \in Size,
           NEW T0 \in Int, T0 <= t, NEW s \in Side, NEW held \in Int
    PROVE  s * (held + Bought(FillsOf(ords, t, trade, seen)))
                + MayFill(AfterTrade(ords, t, trade, seen), s, T0)
            <= s * held + MayFill(ords, s, T0)
<1> DEFINE after == AfterTrade(ords, t, trade, seen)
           bought == Bought(FillsOf(ords, t, trade, seen))
           sum == s * held + MayFill(ords, s, T0)
<1>1. Typed(ords)
  BY DEF Steered, Typed
<1>4. Meek(ords, after)
  BY <1>1, TradeIsMeek
<1>5. DOMAIN ords \subseteq OrderName /\ \A n \in DOMAIN ords : ords[n] \in PaperOrder
  BY <1>1 DEF Typed
<1>8. DOMAIN after \subseteq OrderName /\ \A n \in DOMAIN after : after[n] \in PaperOrder
  BY <1>4, <1>5 DEF Meek
<1>9. bought \in Int
  BY BoughtType
<1>11. \A n \in DOMAIN after :
        n \in DOMAIN ords /\ after[n].qty = ords[n].qty - Filled(ords, n, t, trade, seen)
  BY DEF AfterTrade, Surviving, Matched
<1> HIDE DEF after, bought
<1>12. MayFill(after, s, T0) \in Nat /\ MayFill(ords, s, T0) \in Nat
  BY <1>5, <1>8, MayFillType
<1>13. MayFill(after, s, T0) <= MayFill(ords, s, T0)
  <2>1. T0 <= T0
    OBVIOUS
  <2>2. QED  BY <1>1, <1>4, <2>1, MeekMayFill
<1>14. s \in {1, 0 - 1}
  BY DEF Side
<1>15. PICK p \in Int : p = s * held
  BY <1>14
<1>16. CASE bought = 0
  <2>1. s * (held + bought) = p
    BY <1>14, <1>15, <1>16
  <2>2. QED  BY <1>12, <1>13, <1>15, <2>1 DEF after, bought
<1>17. ASSUME NEW n \in DOMAIN ords, FillsOne(ords, n, t, trade, seen)
       PROVE  s * (held + bought) + MayFill(after, s, T0) <= sum
  <2>1. n[1] \in {1, 0 - 1} /\ ords[n].qty \in Nat
    BY <1>5, PaperAssumption DEF OrderName, Side, PaperOrder
  <2>2. PICK f \in Nat : f = Filled(ords, n, t, trade, seen) /\ 1 <= f /\ f <= ords[n].qty
    BY <1>17, <2>1 DEF FillsOne
  <2>3. bought = n[1] * f
    BY <1>17, <2>2 DEF FillsOne, bought
  <2>4. CASE n[1] # s
    <3>1. s * (held + bought) = p - f
      <4>1. \A x, y \in Int : /\ 1 * (x + (0 - 1) * y) = 1 * x - y
                              /\ (0 - 1) * (x + 1 * y) = (0 - 1) * x - y
        OBVIOUS
      <4>2. n[1] = 0 - s
        BY <1>14, <2>1, <2>4
      <4>3. s * (held + n[1] * f) = s * held - f
        BY <1>14, <2>2, <4>1, <4>2
      <4>4. QED  BY <1>15, <2>3, <4>3
    <3>2. QED  BY <1>12, <1>13, <1>15, <2>2, <3>1
  <2>5. CASE n[1] = s
    <3>1. s * (held + bought) = p + f
      BY <1>14, <1>15, <2>1, <2>2, <2>3, <2>5
    <3>3. PICK S : S = Out(ords, s, T0)
      OBVIOUS
    <3>4. PICK F : F = Amount(ords)
      OBVIOUS
    <3>5. IsFiniteSet(S) /\ SumTakes(F, S) /\ \A m \in S : F[m] \in Nat
      BY <1>5, <3>3, <3>4, MayFillType
    <3>6. n \in S /\ F[n] = ords[n].qty
      <4>1. Meets(ords, n, t, trade)
        BY <2>2 DEF Filled
      <4>2. t < ords[n].cancel /\ ords[n].cancel \in Int /\ t \in Int
        BY <1>5, <4>1 DEF Meets, LiveAt, PaperOrder, Time
      <4>3. T0 < ords[n].cancel
        BY <4>2
      <4>4. QED  BY <2>5, <3>3, <3>4, <4>3 DEF Out, Amount
    <3>7. PICK G : G = [m \in S |-> IF m = n THEN F[m] - f ELSE F[m]]
      OBVIOUS
    <3>8. \A m \in S : G[m] \in Nat
      BY <2>1, <2>2, <3>5, <3>6, <3>7
    <3>9. SumTakes(G, S)
      BY <3>5, <3>8, SumOverTake
    <3>10. PICK R : R = S \ {n}
      OBVIOUS
    <3>11. SumOver(G, R) = SumOver(F, R)
      <4>1. IsFiniteSet(R)
        BY <3>5, <3>10, FS_Subset
      <4>2. \A m \in R : F[m] \in Int /\ G[m] = F[m]
        BY <3>5, <3>7, <3>10
      <4>3. QED  BY <4>1, <4>2, SumOverSame
    <3>12. SumOver(G, S) + f = SumOver(F, S)
      <4>1. SumOver(G, S) = G[n] + SumOver(G, R) /\ SumOver(F, S) = F[n] + SumOver(F, R)
        BY <3>5, <3>6, <3>9, <3>10 DEF SumTakes
      <4>2. G[n] = F[n] - f /\ F[n] \in Int
        BY <3>5, <3>6, <3>7
      <4>3. SumOver(F, R) \in Int
        <5>1. IsFiniteSet(R) /\ \A m \in R : F[m] \in Int
          BY <3>5, <3>10, FS_Subset
        <5>2. QED  BY <5>1, SumOverTake DEF SumTakes
      <4>4. QED  BY <2>2, <3>11, <4>1, <4>2, <4>3
    <3>13. PICK S2 : S2 = Out(after, s, T0)
      OBVIOUS
    <3>14. PICK F2 : F2 = Amount(after)
      OBVIOUS
    <3>15. ASSUME NEW m \in S2 PROVE m \in S /\ F2[m] \in Int /\ F2[m] <= G[m]
      <4>1. m \in DOMAIN after /\ m[1] = s /\ after[m].cancel > T0
        BY <3>13, <3>15 DEF Out
      <4>2. /\ m \in DOMAIN ords /\ after[m] \in PaperOrder
            /\ after[m].cancel = ords[m].cancel /\ after[m].qty <= ords[m].qty
        BY <1>4, <4>1 DEF Meek, Less
      <4>3. m \in S /\ F[m] = ords[m].qty
        BY <3>3, <3>4, <4>1, <4>2 DEF Out, Amount
      <4>4. F2[m] = after[m].qty /\ after[m].qty \in Int
        BY <3>14, <4>1, <4>2, PaperAssumption DEF Amount, PaperOrder
      <4>5. CASE m # n
        BY <3>7, <4>2, <4>3, <4>4, <4>5
      <4>6. CASE m = n
        <5>1. after[n].qty = ords[n].qty - f
          BY <1>11, <2>2, <4>1, <4>6
        <5>2. QED  BY <3>7, <4>3, <4>4, <4>6, <5>1
      <4>7. QED  BY <4>5, <4>6
    <3>16. SumOver(F2, S2) <= SumOver(G, S)
      BY <3>5, <3>8, <3>15, SumMono
    <3>17. SumOver(G, S) \in Int
      BY <3>9 DEF SumTakes
    <3>18. MayFill(after, s, T0) = SumOver(F2, S2) /\ MayFill(ords, s, T0) = SumOver(F, S)
      BY <3>3, <3>4, <3>13, <3>14 DEF MayFill
    <3>19. MayFill(after, s, T0) + f <= MayFill(ords, s, T0)
      BY <1>12, <2>2, <3>12, <3>16, <3>17, <3>18
    <3>20. QED  BY <1>12, <1>15, <2>2, <3>1, <3>19
  <2>6. QED  BY <2>4, <2>5
<1>18. QED  BY <1>16, <1>17, TradeFillsOne DEF bought, after

\* To wait, to hear a depth: what only shrinks stays within the bound.
LEMMA MeekIsBounded ==
    ASSUME MakerInv, BoundInv, MakerInv', Meek(orders, orders'), position' = position,
           now' >= now
    PROVE  BoundInv'
<1>1. Spaced(orders')
  BY DEF BoundInv, Meek, Spaced
<1>2. DOMAIN orders \subseteq OrderName /\ \A n \in DOMAIN orders : orders[n] \in PaperOrder
  BY DEF MakerInv, Steered
<1>3. now - Lag \in Int /\ now' - Lag \in Int /\ now - Lag <= now' - Lag
  <2>1. now \in Int /\ now' \in Int /\ Lag \in Int
    BY MakerAssumption DEF MakerInv, Time
  <2>2. PICK a, b \in Int : a = now /\ b = now'
    BY <2>1
  <2>3. a <= b
    BY <2>2
  <2>4. PICK c \in Int : c = Lag
    BY <2>1
  <2>5. a - c \in Int /\ b - c \in Int /\ a - c <= b - c
    BY <2>3
  <2>6. QED  BY <2>2, <2>4, <2>5
<1>4. ASSUME NEW s \in Side
      PROVE  s * position' + MayFill(orders', s, now' - Lag) <= Limit + InFlight * Qty
  <2>1. MayFill(orders', s, now' - Lag) <= MayFill(orders, s, now - Lag)
    BY <1>2, <1>3, FewerMayFill DEF Meek, Less
  <2>2. MayFill(orders', s, now' - Lag) \in Nat /\ MayFill(orders, s, now - Lag) \in Nat
    BY MayFillType DEF MakerInv, Steered
  <2>3. s * position + MayFill(orders, s, now - Lag) <= Limit + InFlight * Qty
    BY DEF BoundInv
  <2>4. PICK p \in Int : p = s * position
    BY DEF Side, BoundInv
  <2>5. PICK k \in Int : k = Limit + InFlight * Qty
    BY LimitType, PaperAssumption
  <2>6. s * position' = p
    BY <2>4
  <2>7. QED  BY <2>1, <2>2, <2>3, <2>4, <2>5, <2>6
<1>5. QED  BY <1>1, <1>4 DEF BoundInv

\* A decision that sends an order finds the position within the limits, and
\* the others that have not left are few; one that sends none only cancels.
LEMMA EvaluateBounded ==
    ASSUME MakerInv, BoundInv, MakerInv', NEW before, Meek(orders, before),
           Evaluate(before), UNCHANGED <<now, position>>
    PROVE  BoundInv'
<1>1. CASE orders' = before
  <2>1. now' >= now
    BY DEF MakerInv, Time
  <2>2. QED  BY <1>1, <2>1, MeekIsBounded
<1>2. CASE /\ now - lastEval >= EvalMs
           /\ lastEval' = now
           /\ \E want \in Wants(position), room \in Rooms :
                orders' = OrdersPlaced(before, current, Quoted(want, position, room), now)
  <2>1. PICK want \in Wants(position), room \in Rooms :
            orders' = OrdersPlaced(before, current, Quoted(want, position, room), now)
    BY <1>2
  <2>2. PICK quotes : quotes = Quoted(want, position, room)
    OBVIOUS
  <2>3. /\ now \in Nat /\ lastEval \in Nat /\ EvalMs \in Nat \ {0} /\ lastEval < now
        /\ lastEval + EvalMs <= now /\ now \in Time /\ lastEval \in Time /\ now - Lag \in Int
    BY <1>2, MakerAssumption DEF MakerInv, Time
  <2>4. Steered(orders, current, lastEval, lastEval + Latency) /\ Spaced(orders)
    BY DEF MakerInv, BoundInv
  <2>5. Spaced(orders')
    BY <2>1, <2>3, <2>4, PlaceSpaced
  <2>6. Steered(orders', current', now, now + Latency)
    BY <1>2 DEF MakerInv
  <2>7. ASSUME NEW s \in Side
        PROVE  s * position + MayFill(orders', s, now - Lag) <= Limit + InFlight * Qty
    <3>1. PICK p \in Int : p = s * position
      BY DEF Side, BoundInv
    <3>2. Limit \in Nat /\ InFlight \in Nat /\ Qty \in Nat \ {0} /\ MaxPosition \in Nat
      BY LimitType, PaperAssumption, MakerAssumption
    <3>3. PICK i \in Int : i = InFlight * Qty
      BY <3>2
    <3>4. MayFill(orders', s, now - Lag) \in Nat /\ MayFill(orders, s, now - Lag) \in Nat
      BY MayFillType DEF MakerInv, Steered
    <3>5. CASE quotes[s] = None
      <4>1. Typed(OrdersPlaced(before, current, quotes, now))
        BY <2>1, <2>2, <2>6 DEF Steered, Typed
      <4>2. MayFill(orders', s, now - Lag) <= MayFill(orders, s, now - Lag)
        BY <2>1, <2>2, <2>3, <2>4, <3>5, <4>1, PlaceMayFill
      <4>3. s * position + MayFill(orders, s, now - Lag) <= Limit + InFlight * Qty
        BY DEF BoundInv
      <4>4. QED  BY <3>1, <3>2, <3>3, <3>4, <4>2, <4>3
    <3>6. CASE quotes[s] # None
      <4>1. p + Qty <= Limit
        <5>1. want[s] # None /\ ~Dropped(s, position, room)
          BY <2>2, <3>6 DEF Quoted
        <5>2. p < MaxPosition
          BY <3>1, <5>1 DEF Wants
        <5>3. p < 0 \/ p + Qty <= room
          BY <3>1, <5>1, <3>2, MakerAssumption DEF Dropped
        <5>4. room \in Nat
          BY MakerAssumption
        <5>5. (Limit >= room /\ Limit >= Qty) \/ Limit = MaxPosition + Qty - 1
          BY LimitType
        <5>6. QED  BY <3>2, <5>2, <5>3, <5>4, <5>5
      <4>2. MayFill(orders', s, now - Lag) <= (InFlight + 1) * Qty
        BY <2>3, <2>5, <2>6, FewMayFill
      <4>3. (InFlight + 1) * Qty = i + Qty
        BY <3>2, <3>3
      <4>4. QED  BY <3>1, <3>2, <3>3, <3>4, <4>1, <4>2, <4>3
    <3>7. QED  BY <3>5, <3>6
  <2>8. position' \in Int /\ position' = position /\ now' = now
    BY DEF BoundInv
  <2>9. QED  BY <2>5, <2>7, <2>8 DEF BoundInv
<1>3. QED  BY <1>1, <1>2 DEF Evaluate

\* What a trade adds to the position it takes from what may fill.
LEMMA TradeBounded ==
    ASSUME MakerInv, BoundInv, HearTrade
    PROVE  BoundInv'
<1>1. PICK t \in BlockTimes, trade \in Trades, seen \in SeenSizes :
        /\ fills' = FillsOf(orders, t, trade, seen)
        /\ orders' = AfterTrade(orders, t, trade, seen)
        /\ position' = position + Bought(fills')
  BY DEF HearTrade
<1>2. t \in Time /\ seen \in Size /\ now - Lag <= t
  BY SeenIsSize DEF BlockTimes
<1>3. Steered(orders, current, lastEval, lastEval + Latency) /\ Typed(orders)
  BY DEF MakerInv, Steered, Typed
<1>4. Meek(orders, orders')
  BY <1>1, <1>2, <1>3, TradeIsMeek
<1>5. Spaced(orders')
  BY <1>4 DEF BoundInv, Meek, Spaced
<1>6. position' \in Int
  <2>1. Bought(FillsOf(orders, t, trade, seen)) \in Int
    BY <1>2, <1>3, BoughtType
  <2>2. QED  BY <1>1, <2>1 DEF BoundInv
<1>7. ASSUME NEW s \in Side
      PROVE  s * position' + MayFill(orders', s, now - Lag) <= Limit + InFlight * Qty
  <2>1. s * position + MayFill(orders, s, now - Lag) <= Limit + InFlight * Qty
    BY DEF BoundInv
  <2>2. now - Lag \in Int /\ position \in Int
    BY MakerAssumption DEF BoundInv, MakerInv, Time
  <2>3. s * position' + MayFill(orders', s, now - Lag) <= s * position + MayFill(orders, s, now - Lag)
    BY <1>1, <1>2, <1>3, <2>2, TradeMoves
  <2>4. MayFill(orders', s, now - Lag) \in Nat /\ MayFill(orders, s, now - Lag) \in Nat
    BY <1>3, <1>4, MayFillType DEF Typed, Meek
  <2>5. PICK p \in Int : p = s * position
    BY <2>2 DEF Side
  <2>8. PICK p2 \in Int : p2 = s * position'
    <3>1. PICK q \in Int : q = position'
      BY <1>6
    <3>2. s * q \in Int
      BY DEF Side
    <3>3. QED  BY <3>1, <3>2
  <2>6. PICK k \in Int : k = Limit + InFlight * Qty
    BY LimitType, PaperAssumption
  <2>7. QED  BY <2>1, <2>3, <2>4, <2>5, <2>6, <2>8
<1>8. now' = now
  BY DEF HearTrade
<1>9. QED  BY <1>5, <1>6, <1>7, <1>8 DEF BoundInv

\* With no orders and no position the bound is a number of lots.
LEMMA BoundInvInit == Init => BoundInv
<1> SUFFICES ASSUME Init PROVE BoundInv
  OBVIOUS
<1>1. position = 0 /\ DOMAIN orders = {} /\ Spaced(orders)
  BY DEF Init, Spaced
<1>2. ASSUME NEW s \in Side
      PROVE  s * position + MayFill(orders, s, now - Lag) <= Limit + InFlight * Qty
  <2>1. PICK S : S = Out(orders, s, now - Lag)
    OBVIOUS
  <2>2. S = {}
    BY <1>1, <2>1 DEF Out
  <2>3. SumTakes(Amount(orders), S)
    BY <1>1, <2>1, MayFillType
  <2>4. MayFill(orders, s, now - Lag) = 0
    BY <2>1, <2>2, <2>3 DEF MayFill, SumTakes
  <2>5. s * position = 0
    BY <1>1 DEF Side
  <2>6. PICK i \in Nat : i = InFlight * Qty
    BY LimitType, PaperAssumption
  <2>7. Limit \in Nat
    BY LimitType
  <2>8. QED  BY <2>4, <2>5, <2>6, <2>7
<1>3. QED  BY <1>1, <1>2 DEF BoundInv

\* Every step keeps the position bounded.
LEMMA BoundInvStep == MakerInv /\ MakerInv' /\ BoundInv /\ [Next]_vars => BoundInv'
<1> SUFFICES ASSUME MakerInv, MakerInv', BoundInv, [Next]_vars PROVE BoundInv'
  OBVIOUS
<1>0. Typed(orders) /\ Meek(orders, orders)
  BY SameIsMeek DEF MakerInv, Steered, Typed
<1>1. CASE HearTop
  <2>1. PICK t \in BlockTimes, top \in Tops : Evaluate(AfterTop(orders, t, top))
    BY <1>1 DEF HearTop
  <2>2. Meek(orders, AfterTop(orders, t, top))
    BY <1>0, TopIsMeek DEF BlockTimes
  <2>3. QED  BY <1>1, <2>1, <2>2, EvaluateBounded DEF HearTop
<1>2. CASE HearRef
  BY <1>0, <1>2, EvaluateBounded DEF HearRef
<1>3. CASE HearDepth
  <2>1. Meek(orders, orders')
    BY <1>0, <1>3, DepthIsMeek DEF HearDepth, BlockTimes
  <2>2. now' >= now /\ position' = position
    BY <1>3 DEF HearDepth, MakerInv, Time
  <2>3. QED  BY <2>1, <2>2, MeekIsBounded
<1>4. CASE HearTrade
  BY <1>4, TradeBounded
<1>5. CASE Wait
  <2>1. orders' = orders /\ position' = position /\ now' >= now
    BY <1>5 DEF Wait, maker, MakerInv, Time
  <2>2. Meek(orders, orders')
    BY <1>0, <2>1
  <2>3. QED  BY <2>1, <2>2, MeekIsBounded
<1>6. CASE UNCHANGED vars
  <2>1. orders' = orders /\ position' = position /\ now' >= now
    BY <1>6 DEF vars, maker, MakerInv, Time
  <2>2. Meek(orders, orders')
    BY <1>0, <2>1
  <2>3. QED  BY <2>1, <2>2, MeekIsBounded
<1>7. QED  BY <1>1, <1>2, <1>3, <1>4, <1>5, <1>6 DEF Next

\* The position may pass the limits by the orders that can be on their way
\* at once, and by no more (Maker.max_position, Engine.room).
THEOREM PositionsAreBounded == Spec => []PositionBounded
<1>1. BoundInv /\ MakerInv => PositionBounded
  <2> SUFFICES ASSUME BoundInv, MakerInv, NEW s \in Side
               PROVE  s * position <= Limit + InFlight * Qty
    BY DEF PositionBounded
  <2>1. MayFill(orders, s, now - Lag) \in Nat
    BY MayFillType DEF MakerInv, Steered
  <2>2. s * position + MayFill(orders, s, now - Lag) <= Limit + InFlight * Qty
    BY DEF BoundInv
  <2>3. PICK p \in Int : p = s * position
    BY DEF BoundInv, Side
  <2>4. PICK k \in Int : k = Limit + InFlight * Qty
    BY LimitType, PaperAssumption
  <2>5. QED  BY <2>1, <2>2, <2>3, <2>4
<1>2. Spec => []BoundInv
  BY BoundInvInit, BoundInvStep, MakerInvAlways, PTL DEF Spec
<1>3. QED  BY <1>1, <1>2, MakerInvAlways, PTL

-----------------------------------------------------------------------------
(* The market maker. *)

\* The latest time at which an order that is no longer steered leaves.
Gone(last, t) == IF last + Latency >= t THEN last + Latency ELSE t

RiskInv ==
    /\ now \in Time
    /\ lastEval \in Time /\ lastEval <= now
    /\ coolUntil \in Nat /\ pausedUntil \in Nat
    /\ Steered(orders, current, lastEval, Gone(lastEval, now))
    /\ QuotesGoBeforeExit
    /\ QuietPeriods

-----------------------------------------------------------------------------
(* Orders that only shrink. *)

\* Fewer orders with the same times keep what is said of the times.
LEMMA MeekIsQuiet ==
    ASSUME RiskInv, NEW after, Meek(orders, after)
    PROVE  /\ Steered(after, current, lastEval, Gone(lastEval, now))
           /\ \A n \in DOMAIN after :
                /\ n \in OrderName /\ n[2] <= lastEval
                /\ ~(pausedUntil - Pause < n[2] /\ n[2] < pausedUntil)
                /\ ~(coolUntil - Cool <= n[2] /\ n[2] < coolUntil)
           /\ pending # NoExit =>
                \A n \in DOMAIN after : current[n[1]] # n[2] /\ after[n].cancel <= pending.due
<1>1. Steered(after, current, lastEval, Gone(lastEval, now))
  BY MeekIsSteered DEF RiskInv
<1>2. DOMAIN after \subseteq DOMAIN orders /\ \A n \in DOMAIN after : after[n].cancel = orders[n].cancel
  BY DEF Meek
<1>3. QED  BY <1>1, <1>2 DEF RiskInv, Steered, QuietPeriods, QuotesGoBeforeExit

\* What leaves by Gone leaves no later than a decision taken now would have it.
LEMMA GoneByNow ==
    ASSUME NEW t \in Time, NEW last \in Time, last <= t
    PROVE  Gone(last, t) \in Int /\ Gone(last, t) <= t + Latency
BY PaperAssumption DEF Gone, Time

\* With nothing steered and nothing wanted a decision changes nothing.
LEMMA NothingToCancel ==
    ASSUME NEW ords, NEW cur, NEW t, DOMAIN ords \subseteq OrderName,
           \A n \in DOMAIN ords : cur[n[1]] # n[2]
    PROVE  LET after == OrdersPlaced(ords, cur, [s \in Side |-> None], t)
           IN  DOMAIN after = DOMAIN ords /\ \A n \in DOMAIN ords : after[n] = ords[n]
<1> DEFINE quotes == [s \in Side |-> None]
<1>1. Sent(ords, cur, quotes, t) = {}
  BY DEF Sent
<1>2. \A s \in Side : ~Open(ords, cur, s)
  BY DEF Open
<1>3. Cancelled(ords, cur, quotes) = {}
  BY <1>2 DEF Cancelled
<1> HIDE DEF quotes
<1>4. QED  BY <1>1, <1>3 DEF OrdersPlaced, quotes

-----------------------------------------------------------------------------
(* A decision. *)

\* A decision taken on what a message has left of the orders and the exit.
LEMMA DecideKeeps ==
    ASSUME RiskInv, NEW before, Meek(orders, before),
           NEW exit, exit = pending \/ exit = NoExit,
           now - lastEval >= EvalMs, lastEval' = now, UNCHANGED <<now, pausedUntil>>,
           Decide(before, exit)
    PROVE  RiskInv'
<1> DEFINE idle == [s \in Side |-> None]
<1>1. PICK stopped \in BOOLEAN :
        LET why == ExitReason(position', opened', exit, stopped)
            closing == [side |-> IF position' > 0 THEN -1 ELSE 1,
                        due |-> now + Latency, why |-> why]
        IN  /\ pending' = IF why = None THEN exit ELSE closing
            /\ coolUntil' = IF why = "stop" THEN now + Cool ELSE coolUntil
            /\ \E want \in Wants(position'), room \in Rooms :
                LET quotes == IF Blocked(pending', coolUntil', heard')
                              THEN idle
                              ELSE Quoted(want, position', room)
                IN  /\ orders' = OrdersPlaced(before, current, quotes, now)
                    /\ current' = CurrentPlaced(before, current, quotes, now)
  BY DEF Decide
<1>2. PICK quotes \in [Side -> Tick \cup {None}] :
        /\ Blocked(pending', coolUntil', heard') => quotes = idle
        /\ orders' = OrdersPlaced(before, current, quotes, now)
        /\ current' = CurrentPlaced(before, current, quotes, now)
  <2>1. PICK want \in Wants(position'), room \in Rooms :
                LET quotes == IF Blocked(pending', coolUntil', heard')
                              THEN idle
                              ELSE Quoted(want, position', room)
                IN  /\ orders' = OrdersPlaced(before, current, quotes, now)
                    /\ current' = CurrentPlaced(before, current, quotes, now)
    BY <1>1
  <2>2. Quoted(want, position', room) \in [Side -> Tick \cup {None}]
    BY DEF Wants, Quoted
  <2>3. idle \in [Side -> Tick \cup {None}]
    OBVIOUS
  <2>4. CASE Blocked(pending', coolUntil', heard')
    BY <2>1, <2>3, <2>4
  <2>5. CASE ~Blocked(pending', coolUntil', heard')
    BY <2>1, <2>2, <2>5
  <2>6. QED  BY <2>4, <2>5
<1> HIDE DEF idle
<1>3. /\ now \in Time /\ lastEval \in Time /\ lastEval < now /\ lastEval <= now
      /\ now' = now /\ lastEval' = now /\ pausedUntil' = pausedUntil
  BY MakerAssumption DEF RiskInv, Time
<1>4. Steered(before, current, lastEval, Gone(lastEval, now))
  BY MeekIsQuiet
<1>5. Gone(lastEval, now) \in Int /\ Gone(lastEval, now) <= now + Latency
  BY <1>3, GoneByNow
<1>6. Steered(orders', current', now, now + Latency)
  BY <1>2, <1>3, <1>4, <1>5, PlaceSteers
<1>7. Steered(orders', current', lastEval', Gone(lastEval', now'))
  <2>1. Gone(now, now) = now + Latency
    BY <1>3, PaperAssumption DEF Gone, Time
  <2>2. QED  BY <1>3, <1>6, <2>1
<1>8. \A n \in DOMAIN orders' : n \in DOMAIN before \/ (n[2] = now /\ quotes[n[1]] # None)
  BY <1>2 DEF OrdersPlaced, Sent
<1>9. \A n \in DOMAIN before : n[1] \in Side /\ n[2] \in Time /\ n[2] <= lastEval
  BY MeekIsQuiet DEF OrderName
<1>10. \A n \in DOMAIN orders' : n[1] \in Side /\ n[2] \in Time /\ n[2] <= now
  BY <1>6 DEF Steered, OrderName
<1>11. coolUntil' \in Nat /\ (coolUntil' = coolUntil \/ coolUntil' - Cool = now)
  <2>1. coolUntil' = coolUntil \/ coolUntil' = now + Cool
    BY <1>1
  <2>2. now \in Nat /\ Cool \in Nat
    BY <1>3, RiskAssumption DEF Time
  <2>3. QED  BY <2>1, <2>2 DEF RiskInv
<1>12. QuotesGoBeforeExit'
  <2> SUFFICES ASSUME pending' # NoExit
               PROVE  \A n \in DOMAIN orders' :
                        current'[n[1]] # n[2] /\ orders'[n].cancel <= pending'.due
    BY DEF QuotesGoBeforeExit
  <2>1. quotes = idle
    BY <1>2 DEF Blocked
  <2>2. \A s \in Side : current'[s] = None
    BY <1>2, <2>1 DEF CurrentPlaced, Keeps, idle
  <2>3. \A n \in DOMAIN orders' : current'[n[1]] # n[2]
    BY <1>10, <2>2, PaperAssumption DEF Time
  <2>4. CASE pending' = exit
    <3>1. exit = pending /\ pending # NoExit /\ pending' = pending
      BY <2>4
    <3>2. \A n \in DOMAIN before : current[n[1]] # n[2] /\ before[n].cancel <= pending.due
      BY <3>1, MeekIsQuiet
    <3>3. DOMAIN before \subseteq OrderName
      BY <1>4 DEF Steered
    <3>4. DOMAIN orders' = DOMAIN before /\ \A n \in DOMAIN before : orders'[n] = before[n]
      BY <1>2, <2>1, <3>2, <3>3, NothingToCancel DEF idle
    <3>5. QED  BY <2>3, <3>1, <3>2, <3>4
  <2>5. CASE pending'.due = now + Latency
    <3>1. \A n \in DOMAIN orders' : orders'[n].cancel <= now + Latency
      BY <1>6, <2>3 DEF Steered
    <3>2. QED  BY <2>3, <2>5, <3>1
  <2>6. pending' = exit \/ pending'.due = now + Latency
    BY <1>1
  <2>7. QED  BY <2>4, <2>5, <2>6
<1>13. QuietPeriods'
  <2> SUFFICES ASSUME NEW n \in DOMAIN orders'
               PROVE  /\ ~(pausedUntil - Pause < n[2] /\ n[2] < pausedUntil)
                      /\ ~(coolUntil' - Cool <= n[2] /\ n[2] < coolUntil')
    BY <1>3 DEF QuietPeriods
  <2>1. CASE n \in DOMAIN before
    <3>1. /\ ~(pausedUntil - Pause < n[2] /\ n[2] < pausedUntil)
          /\ ~(coolUntil - Cool <= n[2] /\ n[2] < coolUntil)
      BY <2>1, MeekIsQuiet
    <3>2. CASE coolUntil' - Cool = now
      BY <1>3, <1>9, <2>1, <3>1, <3>2 DEF Time
    <3>3. QED  BY <1>11, <3>1, <3>2
  <2>2. CASE n[2] = now /\ quotes[n[1]] # None
    <3>1. ~Blocked(pending', coolUntil', heard')
      BY <1>2, <1>10, <2>2 DEF idle
    <3>2. ~(now < pausedUntil) /\ ~(now < coolUntil')
      BY <1>3, <3>1 DEF Blocked, Paused
    <3>3. QED  BY <2>2, <3>2
  <2>3. QED  BY <1>8, <2>1, <2>2
<1>14. now' \in Time /\ lastEval' \in Time /\ lastEval' <= now' /\ pausedUntil' \in Nat
  BY <1>3 DEF RiskInv, Time
<1>15. QED  BY <1>7, <1>11, <1>12, <1>13, <1>14 DEF RiskInv

\* An evaluation, skipped or not, after a message.
LEMMA EvaluationKeeps ==
    ASSUME RiskInv, NEW before, Meek(orders, before),
           NEW exit, exit = pending \/ exit = NoExit,
           UNCHANGED <<now, pausedUntil>>, EvaluateRisk(before, exit)
    PROVE  RiskInv'
<1>1. CASE /\ orders' = before
           /\ pending' = exit
           /\ UNCHANGED <<lastEval, current, coolUntil>>
  <2>1. Steered(orders', current', lastEval', Gone(lastEval', now'))
    BY <1>1, MeekIsQuiet
  <2>2. QuotesGoBeforeExit'
    BY <1>1, MeekIsQuiet DEF QuotesGoBeforeExit
  <2>3. QuietPeriods'
    BY <1>1, MeekIsQuiet DEF QuietPeriods
  <2>4. QED  BY <1>1, <2>1, <2>2, <2>3 DEF RiskInv
<1>2. CASE now - lastEval >= EvalMs /\ lastEval' = now /\ Decide(before, exit)
  BY <1>2, DecideKeeps
<1>3. QED  BY <1>1, <1>2 DEF EvaluateRisk

-----------------------------------------------------------------------------
(* The invariant. *)

\* A coin that has just started has no orders and no exit.
LEMMA RiskInvInit == MMInit => RiskInv
<1> SUFFICES ASSUME MMInit PROVE RiskInv
  OBVIOUS
<1>1. DOMAIN orders = {} /\ current \in [Side -> Time \cup {None}]
  BY DEF MMInit, Init
<1>2. now \in Time /\ lastEval \in Time /\ lastEval <= now
  BY PaperAssumption DEF MMInit, Init, Time
<1>3. coolUntil \in Nat /\ pausedUntil \in Nat
  BY DEF MMInit
<1>4. QED  BY <1>1, <1>2, <1>3 DEF RiskInv, Steered, QuotesGoBeforeExit, QuietPeriods

\* Meek messages that decide nothing.
LEMMA MessageKeeps ==
    ASSUME RiskInv, Meek(orders, orders'),
           UNCHANGED <<now, lastEval, current, pending, coolUntil, pausedUntil>>
    PROVE  RiskInv'
<1>1. Steered(orders', current', lastEval', Gone(lastEval', now'))
  <2>1. Steered(orders', current, lastEval, Gone(lastEval, now))
    BY MeekIsQuiet
  <2>2. QED  BY <2>1
<1>2. QuotesGoBeforeExit'
  BY MeekIsQuiet DEF QuotesGoBeforeExit
<1>3. QuietPeriods'
  BY MeekIsQuiet DEF QuietPeriods
<1>4. QED  BY <1>1, <1>2, <1>3 DEF RiskInv

\* A tick: a pause that begins now is later than every order; pulled orders
\* leave now.
LEMMA TickKeeps == RiskInv /\ Tick100 => RiskInv'
<1> SUFFICES ASSUME RiskInv, Tick100 PROVE RiskInv'
  OBVIOUS
<1>1. /\ now \in Time /\ now' = now
      /\ lastEval \in Time /\ lastEval' = lastEval /\ lastEval <= now
      /\ coolUntil' = coolUntil /\ pending' = pending
  BY DEF RiskInv, Tick100
<1>2. Gone(lastEval, now) \in Int /\ now <= Gone(lastEval, now)
  BY <1>1, PaperAssumption DEF Gone, Time
<1>3. /\ DOMAIN orders' = DOMAIN orders
      /\ DOMAIN orders \subseteq OrderName
      /\ \A n \in DOMAIN orders : n[1] \in Side /\ n[2] \in Time /\ n[2] <= lastEval
  BY DEF Tick100, OrdersPulled, RiskInv, Steered, OrderName
<1>4. ASSUME UNCHANGED <<orders, current>>
      PROVE  Steered(orders', current', lastEval', Gone(lastEval', now')) /\ QuotesGoBeforeExit'
  <2>1. Steered(orders', current', lastEval', Gone(lastEval', now'))
    BY <1>1, <1>4 DEF RiskInv
  <2>2. QuotesGoBeforeExit'
    BY <1>1, <1>4 DEF RiskInv, QuotesGoBeforeExit
  <2>3. QED  BY <2>1, <2>2
<1>5. ASSUME orders' = OrdersPulled, current' = [s \in Side |-> None]
      PROVE  Steered(orders', current', lastEval', Gone(lastEval', now')) /\ QuotesGoBeforeExit'
  <2>1. ASSUME NEW n \in DOMAIN orders
        PROVE  /\ orders'[n] \in PaperOrder
               /\ orders'[n].live = orders[n].live
               /\ orders'[n].cancel <= orders[n].cancel
               /\ orders'[n].cancel <= Gone(lastEval, now)
    <3>1. orders[n] \in PaperOrder /\ orders[n].cancel \in Nat
      BY DEF RiskInv, Steered, PaperOrder
    <3>2. CASE current[n[1]] = n[2]
      <4>1. orders'[n] = CancelBy(orders[n], now)
        BY <1>5, <3>2 DEF OrdersPulled
      <4>2. now \in Nat
        BY <1>1 DEF Time
      <4>3. orders'[n].cancel <= now /\ orders'[n].cancel \in Nat
        BY <3>1, <4>1, <4>2, CancelByType DEF PaperOrder
      <4>4. QED  BY <1>2, <3>1, <4>1, <4>2, <4>3, CancelByType
    <3>3. CASE current[n[1]] # n[2]
      <4>1. orders'[n] = orders[n]
        BY <1>5, <3>3 DEF OrdersPulled
      <4>2. QED  BY <3>1, <3>3, <4>1 DEF RiskInv, Steered
    <3>4. QED  BY <3>2, <3>3
  <2>2. \A n \in DOMAIN orders' : current'[n[1]] # n[2]
    BY <1>3, <1>5, PaperAssumption DEF Time
  <2>3. current' \in [Side -> Time \cup {None}]
    BY <1>5
  <2>4. ASSUME NEW m \in DOMAIN orders, NEW n \in DOMAIN orders, m[1] = n[1], m[2] < n[2]
        PROVE  orders'[m].cancel <= orders'[n].live
    <3>1. orders[m].cancel <= orders[n].live
      BY <2>4 DEF RiskInv, Steered
    <3>2. orders'[m].cancel <= orders[m].cancel /\ orders'[n].live = orders[n].live
      BY <2>1
    <3>3. /\ orders[m].cancel \in Nat /\ orders[n].live \in Nat
          /\ orders'[m].cancel \in Nat
      BY <2>1 DEF RiskInv, Steered, PaperOrder
    <3>4. QED  BY <3>1, <3>2, <3>3
  <2>5. Steered(orders', current', lastEval, Gone(lastEval, now))
    <3>1. \A n \in DOMAIN orders : orders[n].live = n[2] + Latency
      BY DEF RiskInv, Steered
    <3>2. QED  BY <1>3, <2>1, <2>2, <2>3, <2>4, <3>1 DEF Steered
  <2>6. QuotesGoBeforeExit'
    <3> SUFFICES ASSUME pending # NoExit, NEW n \in DOMAIN orders
                 PROVE  orders'[n].cancel <= pending.due
      BY <1>1, <1>3, <2>2 DEF QuotesGoBeforeExit
    <3>1. orders'[n] = orders[n]
      BY <1>5 DEF OrdersPulled, RiskInv, QuotesGoBeforeExit
    <3>2. QED  BY <3>1 DEF RiskInv, QuotesGoBeforeExit
  <2>7. QED  BY <1>1, <2>5, <2>6
<1>6. Steered(orders', current', lastEval', Gone(lastEval', now')) /\ QuotesGoBeforeExit'
  BY <1>4, <1>5 DEF Tick100
<1>7. pausedUntil' \in Nat /\ QuietPeriods'
  <2>1. pausedUntil' = pausedUntil \/ pausedUntil' = now + Pause
    BY DEF Tick100
  <2>2. pausedUntil' \in Nat
    BY <1>1, <2>1, RiskAssumption DEF RiskInv, Time
  <2>3. QED
    BY <1>1, <1>3, <2>1, <2>2, RiskAssumption DEF RiskInv, QuietPeriods, Time
<1>8. QED  BY <1>1, <1>6, <1>7 DEF RiskInv

\* Every step keeps the invariant.
LEMMA RiskInvStep == RiskInv /\ [MMNext]_mmVars => RiskInv'
<1> SUFFICES ASSUME RiskInv, [MMNext]_mmVars PROVE RiskInv'
  OBVIOUS
<1>0. Typed(orders)
  BY DEF RiskInv, Steered, Typed
<1>1. CASE MMHearTop
  <2>1. PICK t \in BlockTimes, top \in Tops :
            EvaluateRisk(AfterTop(orders, t, top), IF Lands(t) THEN NoExit ELSE pending)
    BY <1>1 DEF MMHearTop
  <2>2. UNCHANGED <<now, pausedUntil>>
    BY <1>1 DEF MMHearTop
  <2>3. Meek(orders, AfterTop(orders, t, top))
    BY <1>0, TopIsMeek DEF BlockTimes
  <2>4. QED  BY <2>1, <2>2, <2>3, EvaluationKeeps
<1>2. CASE MMHearRef
  <2>1. EvaluateRisk(orders, pending) /\ UNCHANGED <<now, pausedUntil>>
    BY <1>2 DEF MMHearRef
  <2>2. Meek(orders, orders)
    BY <1>0, SameIsMeek
  <2>3. QED  BY <2>1, <2>2, EvaluationKeeps
<1>3. CASE MMHearDepth
  <2>1. PICK t \in BlockTimes, depth \in Depths : orders' = AfterDepth(orders, t, depth)
    BY <1>3 DEF MMHearDepth, HearDepth
  <2>2. Meek(orders, orders')
    BY <1>0, <2>1, DepthIsMeek DEF BlockTimes
  <2>3. QED  BY <1>3, <2>2, MessageKeeps DEF MMHearDepth, HearDepth
<1>4. CASE MMHearTrade
  <2>1. PICK t \in BlockTimes, trade \in Trades, seen \in SeenSizes :
            orders' = AfterTrade(orders, t, trade, seen)
    BY <1>4 DEF MMHearTrade
  <2>2. Meek(orders, orders')
    BY <1>0, <2>1, SeenIsSize, TradeIsMeek DEF BlockTimes
  <2>3. QED  BY <1>4, <2>2, MessageKeeps DEF MMHearTrade
<1>5. CASE Tick100
  BY <1>5, TickKeeps
<1>6. CASE MMWait
  <2>1. /\ now' = now + 1 /\ now' \in Time /\ now \in Time
        /\ UNCHANGED <<lastEval, orders, current, pending, coolUntil, pausedUntil>>
    BY <1>6, PaperAssumption DEF MMWait, Wait, maker, risk, RiskInv, Time
  <2>2. Gone(lastEval, now) <= Gone(lastEval', now') /\ Gone(lastEval, now) \in Int
        /\ Gone(lastEval', now') \in Int
    BY <2>1, PaperAssumption DEF Gone, RiskInv, Time
  <2>3. Steered(orders', current', lastEval', Gone(lastEval', now'))
    <3>1. \A n \in DOMAIN orders : orders[n].cancel \in Nat
      BY DEF RiskInv, Steered, PaperOrder
    <3>2. QED  BY <2>1, <2>2, <3>1 DEF RiskInv, Steered
  <2>4. QuotesGoBeforeExit' /\ QuietPeriods'
    BY <2>1 DEF RiskInv, QuotesGoBeforeExit, QuietPeriods
  <2>5. lastEval' \in Time /\ lastEval' <= now' /\ coolUntil' \in Nat /\ pausedUntil' \in Nat
    BY <2>1 DEF RiskInv, Time
  <2>6. QED  BY <2>1, <2>3, <2>4, <2>5 DEF RiskInv
<1>7. CASE UNCHANGED mmVars
  <2>1. UNCHANGED <<now, lastEval, orders, current, pending, coolUntil, pausedUntil>>
    BY <1>7 DEF mmVars, vars, maker, risk
  <2>2. Meek(orders, orders')
    BY <1>0, <2>1, SameIsMeek
  <2>3. QED  BY <2>1, <2>2, MessageKeeps
<1>8. QED
  BY <1>1, <1>2, <1>3, <1>4, <1>5, <1>6, <1>7 DEF MMNext

\* The invariant holds always.
LEMMA RiskInvAlways == MMSpec => []RiskInv
BY RiskInvInit, RiskInvStep, PTL DEF MMSpec

-----------------------------------------------------------------------------
(* What follows from it. *)

\* No order is lost, whatever exits, pauses and pulls do to the quotes.
THEOREM NoOrderStraysWithPulls == MMSpec => []NoStrayWithPulls
<1>1. RiskInv => NoStrayWithPulls
  <2> SUFFICES ASSUME RiskInv, NEW n \in DOMAIN orders
               PROVE  IF current[n[1]] = n[2] THEN orders[n].cancel = Never
                      ELSE orders[n].cancel <= lastEval + Latency \/ orders[n].cancel <= now
    BY DEF NoStrayWithPulls
  <2>1. QED  BY DEF RiskInv, Steered, Gone
<1>2. QED  BY <1>1, RiskInvAlways, PTL

\* Pulled and blocked quotes included, no two orders of a side are live at
\* one block time.
THEOREM OneLiveWithPulls == MMSpec => []OneLivePerSide
<1>1. RiskInv => OneLivePerSide
  BY DEF RiskInv, Steered, OneLivePerSide
<1>2. QED  BY <1>1, RiskInvAlways, PTL

\* An exit lands on no quote of its maker.
THEOREM ExitsMeetNoQuote == MMSpec => []QuotesGoBeforeExit
<1>1. RiskInv => QuotesGoBeforeExit
  BY DEF RiskInv
<1>2. QED  BY <1>1, RiskInvAlways, PTL

\* A pause and a cool-off are quiet from their first instant.
THEOREM PausesAreQuiet == MMSpec => []QuietPeriods
<1>1. RiskInv => QuietPeriods
  BY DEF RiskInv
<1>2. QED  BY <1>1, RiskInvAlways, PTL

-----------------------------------------------------------------------------
(* The position. *)

\* The position, its timer and the exit that closes it.
HoldInv ==
    /\ position \in Int
    /\ pending \in Exit \cup {NoExit}
    /\ HeldSinceOpened

\* Through an evaluation the exit on its way stays until it lands, and is
\* replaced by none.
LEMMA EvaluationExits ==
    ASSUME RiskInv, UNCHANGED now, NEW before, NEW exit \in Exit \cup {NoExit},
           EvaluateRisk(before, exit)
    PROVE  /\ pending' \in Exit \cup {NoExit}
           /\ exit # NoExit => pending' = exit
<1>1. CASE pending' = exit
  BY <1>1
<1>2. ASSUME NEW stopped \in BOOLEAN,
             pending' = IF ExitReason(position', opened', exit, stopped) = None THEN exit
                        ELSE [side |-> IF position' > 0 THEN -1 ELSE 1, due |-> now + Latency,
                              why |-> ExitReason(position', opened', exit, stopped)]
      PROVE  /\ pending' \in Exit \cup {NoExit}
             /\ exit # NoExit => pending' = exit
  <2> DEFINE why == ExitReason(position', opened', exit, stopped)
  <2>1. why \in Reason \cup {None} /\ (exit # NoExit => why = None)
    BY DEF ExitReason, Reason
  <2> HIDE DEF why
  <2>2. now + Latency \in Nat
    BY PaperAssumption DEF RiskInv, Time
  <2>3. CASE why = None
    BY <1>2, <2>3 DEF why
  <2>4. CASE why \in Reason /\ why # None
    <3>1. [side |-> IF position' > 0 THEN -1 ELSE 1, due |-> now + Latency, why |-> why] \in Exit
      BY <2>2, <2>4 DEF Exit, Side
    <3>2. QED  BY <1>2, <2>1, <2>4, <3>1 DEF why
  <2>5. QED  BY <2>1, <2>3, <2>4
<1>3. QED  BY <1>1, <1>2 DEF EvaluateRisk, Decide

\* A position opens, closes and turns with its timer.
LEMMA HoldInvStep == RiskInv /\ HoldInv /\ [MMNext]_mmVars => HoldInv'
<1> SUFFICES ASSUME RiskInv, HoldInv, [MMNext]_mmVars PROVE HoldInv'
  OBVIOUS
<1>1. CASE MMHearTop
  <2>1. PICK t \in BlockTimes, top \in Tops :
            /\ position' = IF Closes(t) THEN 0 ELSE position
            /\ opened' = IF Closes(t) THEN None ELSE opened
            /\ EvaluateRisk(AfterTop(orders, t, top), IF Lands(t) THEN NoExit ELSE pending)
    BY <1>1 DEF MMHearTop
  <2>2. (IF Lands(t) THEN NoExit ELSE pending) \in Exit \cup {NoExit} /\ UNCHANGED now
    BY <1>1 DEF HoldInv, MMHearTop
  <2>3. pending' \in Exit \cup {NoExit}
    BY <2>1, <2>2, EvaluationExits
  <2>4. QED  BY <2>1, <2>3 DEF HoldInv, HeldSinceOpened
<1>2. CASE MMHearRef
  <2>1. pending' \in Exit \cup {NoExit}
    BY <1>2, EvaluationExits DEF MMHearRef, HoldInv
  <2>2. QED  BY <1>2, <2>1 DEF MMHearRef, HoldInv, HeldSinceOpened
<1>3. CASE MMHearTrade
  <2>1. PICK t \in BlockTimes, trade \in Trades, seen \in SeenSizes :
            /\ position' = position + Bought(FillsOf(orders, t, trade, seen))
            /\ opened' = OpenedAfter(position, position', t)
            /\ pending' = pending
    BY <1>3 DEF MMHearTrade
  <2>2. t \in Time /\ seen \in Size
    BY SeenIsSize DEF BlockTimes
  <2>3. position' \in Int
    BY <2>1, <2>2, BoughtType DEF HoldInv, RiskInv
  <2>4. CASE position' = 0
    BY <2>1, <2>3, <2>4 DEF HoldInv, HeldSinceOpened, OpenedAfter
  <2>5. CASE position' # 0 /\ position * position' <= 0
    BY <2>1, <2>2, <2>3, <2>5, PaperAssumption DEF HoldInv, HeldSinceOpened, OpenedAfter, Time
  <2>6. CASE position' # 0 /\ ~(position * position' <= 0)
    <3>1. position # 0
      <4> SUFFICES ASSUME position = 0 PROVE FALSE
        OBVIOUS
      <4>1. \A i \in Int : 0 * i = 0
        OBVIOUS
      <4>2. position * position' = 0
        BY <2>3, <4>1, Zenon
      <4>3. QED  BY <2>6, <4>2
    <3>2. opened' = opened
      BY <2>1, <2>6 DEF OpenedAfter
    <3>3. QED  BY <2>1, <2>3, <2>6, <3>1, <3>2 DEF HoldInv, HeldSinceOpened
  <2>7. QED  BY <2>4, <2>5, <2>6
<1>4. CASE UNCHANGED <<position, opened, pending>>
  BY <1>4 DEF HoldInv, HeldSinceOpened
<1>5. MMHearDepth \/ Tick100 \/ MMWait \/ UNCHANGED mmVars => UNCHANGED <<position, opened, pending>>
  BY DEF MMHearDepth, HearDepth, Tick100, MMWait, Wait, maker, vars, risk, mmVars
<1>6. QED  BY <1>1, <1>2, <1>3, <1>4, <1>5 DEF MMNext

\* A coin starts flat.
LEMMA HoldInvInit == MMInit => HoldInv
BY DEF MMInit, Init, HoldInv, HeldSinceOpened

\* The hold timer runs exactly while there is a position to close.
THEOREM TimerFollowsPosition == MMSpec => []HeldSinceOpened
<1>1. HoldInv => HeldSinceOpened
  BY DEF HoldInv
<1>2. QED
  BY <1>1, HoldInvInit, HoldInvStep, RiskInvAlways, PTL DEF MMSpec

\* An exit that lands leaves the coin flat, or leaves alone what maker fills
\* have turned over, and it finds no order from before it.
THEOREM ExitsEndFlat == MMSpec => ExitEndsFlat
<1> DEFINE Flat == pending # NoExit /\ pending' = NoExit =>
            /\ position' = 0 \/ (position' = position /\ pending.side * position > 0)
            /\ \A n \in DOMAIN orders' : n[2] = now
<1>1. RiskInv /\ HoldInv /\ [MMNext]_mmVars => [Flat]_mmVars
  <2> SUFFICES ASSUME RiskInv, HoldInv, MMNext, pending # NoExit, pending' = NoExit
               PROVE  /\ position' = 0 \/ (position' = position /\ pending.side * position > 0)
                      /\ \A n \in DOMAIN orders' : n[2] = now
    OBVIOUS
  <2>1. CASE MMHearTop
    <3>1. PICK t \in BlockTimes, top \in Tops :
              /\ position' = IF Closes(t) THEN 0 ELSE position
              /\ EvaluateRisk(AfterTop(orders, t, top), IF Lands(t) THEN NoExit ELSE pending)
      BY <2>1 DEF MMHearTop
    <3>2. Lands(t)
      <4> SUFFICES ASSUME ~Lands(t) PROVE FALSE
        OBVIOUS
      <4>1. EvaluateRisk(AfterTop(orders, t, top), pending) /\ UNCHANGED now
        BY <2>1, <3>1 DEF MMHearTop
      <4>2. QED  BY <4>1, EvaluationExits DEF HoldInv
    <3>3. position' = 0 \/ (position' = position /\ pending.side * position > 0)
      <4>1. pending.side \in {1, -1} /\ position \in Int
        BY DEF HoldInv, Exit, Side
      <4>2. QED  BY <3>1, <3>2, <4>1 DEF Closes
    <3>4. DOMAIN AfterTop(orders, t, top) = {}
      <4>1. \A n \in DOMAIN orders : orders[n].cancel <= pending.due /\ orders[n].cancel \in Nat
        BY DEF RiskInv, Steered, PaperOrder, QuotesGoBeforeExit
      <4>2. pending.due <= t /\ pending.due \in Nat /\ t \in Nat
        BY <3>2 DEF Lands, HoldInv, Exit, BlockTimes, Time
      <4>3. \A n \in DOMAIN orders : ~(orders[n].cancel > t)
        BY <4>1, <4>2
      <4>4. QED  BY <4>3 DEF AfterTop, Surviving
    <3>5. \A n \in DOMAIN orders' : n[2] = now
      <4>1. \A quotes : \A n \in DOMAIN OrdersPlaced(AfterTop(orders, t, top), current, quotes, now) :
                n[2] = now
        BY <3>4 DEF OrdersPlaced, Sent
      <4>2. QED  BY <3>1, <3>4, <4>1 DEF EvaluateRisk, Decide
    <3>6. QED  BY <3>3, <3>5
  <2>2. CASE MMHearRef
    BY <2>2, EvaluationExits DEF MMHearRef, HoldInv
  <2>3. CASE MMHearDepth \/ MMHearTrade \/ Tick100 \/ MMWait
    BY <2>3 DEF MMHearDepth, MMHearTrade, Tick100, MMWait, risk
  <2>4. QED  BY <2>1, <2>2, <2>3 DEF MMNext
<1>2. QED
  BY <1>1, HoldInvInit, HoldInvStep, RiskInvAlways, PTL DEF MMSpec, ExitEndsFlat, Flat
=============================================================================
