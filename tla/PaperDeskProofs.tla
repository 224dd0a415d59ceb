----------------------------- MODULE PaperDeskProofs -----------------------------
(***************************************************************************)
(* For every set of coins, budget, latency, feed delay and price set: each *)
(* coin of the desk is a maker whose rooms the others choose; and all that *)
(* the desk holds passes its budget by what its coins can have on their    *)
(* way at once, and no more.                                               *)
(*                                                                         *)
(* The gross exposure is not inductive: a coin may be over what the room   *)
(* says now, since the others have filled meanwhile.  What is, is the sum  *)
(* of what each coin holds and may still fill beyond what can be on its    *)
(* way at once (Excess): a trade only moves lots from the one to the       *)
(* other.  A decision adds to what its coin may hold only when one more    *)
(* order fits the room, and the room is short by what the others hold,     *)
(* hence by their excess; so the sum stays within the budget.              *)
(*                                                                         *)
(* What PaperMakerProofs shows of any orders is used here for each coin's. *)
(***************************************************************************)
EXTENDS PaperDesk, Sums, FiniteSetTheorems, TLAPS

P == INSTANCE PaperMakerProofs WITH
    Rooms <- 0 .. Budget, Stale <- 0, Pause <- 0, Cool <- 0, Hold <- 0,
    NoExit <- [side |-> 0], pending <- 0, opened <- 0, coolUntil <- 0,
    pausedUntil <- 0, heard <- 0

\* What can be on its way on a side of one coin at once.
OnTheWay == (P!InFlight + 1) * Qty

\* What a coin that holds "held" may come to hold on side s beyond that.
Beyond(s, held, ords, t) == s * held + P!MayFill(ords, s, t) - OnTheWay

Excess(held, ords, t) ==
    LET long == Beyond(1, held, ords, t)
        short == Beyond(-1, held, ords, t)
    IN  IF long >= short /\ long >= 0 THEN long
        ELSE IF short >= 0 THEN short
        ELSE 0

Excesses == [c \in Coin |-> Excess(position[c], orders[c], now - Lag)]

CoinInv(c) ==
    /\ lastEval[c] \in P!Time /\ lastEval[c] <= now
    /\ P!Steered(orders[c], current[c], lastEval[c], lastEval[c] + Latency)
    /\ P!Spaced(orders[c])
    /\ position[c] \in Int

Idle(c) == position[c] = 0 /\ DOMAIN orders[c] = {}

\* A budget below one order's size is never quoted into.
ExcessInv ==
    /\ Budget >= Qty => SumOver(Excesses, Coin) <= Budget - Qty
    /\ Budget < Qty => \A c \in Coin : Idle(c)

PerCoin(f) == DOMAIN f = Coin

DeskInv ==
    /\ now \in P!Time
    /\ PerCoin(lastEval) /\ PerCoin(orders) /\ PerCoin(current)
    /\ PerCoin(position) /\ PerCoin(fills)
    /\ \A c \in Coin : CoinInv(c)

-----------------------------------------------------------------------------
(* The desk's makers. *)

\* The makers' assumptions, with the desk's rooms and no risk layer.
LEMMA MakersAssumed ==
    /\ MaxPosition \in Nat
    /\ 0 .. Budget \subseteq Nat
    /\ \E most \in (0 .. Budget) \cup {Qty} : \A room \in 0 .. Budget : room <= most
    /\ EvalMs \in Nat \ {0}
    /\ Lag \in Nat
    /\ Tops \subseteq [px : [P!Side -> Tick], size : [P!Side -> P!Size]]
    /\ \A d \in Depths : \A s \in P!Side : \A p \in DOMAIN d[s] :
            p \in Tick /\ d[s][p] \in P!Size
    /\ Trades \subseteq [px : Tick, sz : P!Size, taker : P!Side]
BY DeskAssumption DEF P!Side, P!Size, Side, Size

LEMMA NoRiskAssumed ==
    /\ {0, 0, 0, 0} \subseteq Nat
    /\ [side |-> 0] \notin P!Exit
<1>1. DOMAIN [side |-> 0] = {"side"}
  OBVIOUS
<1>2. ASSUME NEW e \in P!Exit PROVE "due" \in DOMAIN e
  BY DEF P!Exit
<1>3. QED  BY <1>1, <1>2

\* What PaperOrders defines, the proofs about makers call by another name.
LEMMA SameOrders ==
    ASSUME NEW ords, NEW cur, NEW quotes, NEW t
    PROVE  /\ P!OrdersPlaced(ords, cur, quotes, t) = OrdersPlaced(ords, cur, quotes, t)
           /\ P!CurrentPlaced(ords, cur, quotes, t) = CurrentPlaced(ords, cur, quotes, t)
<1>1. P!OrdersPlaced(ords, cur, quotes, t) = OrdersPlaced(ords, cur, quotes, t)
  BY DEF P!OrdersPlaced, OrdersPlaced, P!Sent, Sent, P!Cancelled, Cancelled,
     P!Keeps, Keeps, P!Open, Open, P!CancelBy, CancelBy, P!NewOrder, NewOrder,
     P!Least, Least, P!Side, Side
<1>2. P!CurrentPlaced(ords, cur, quotes, t) = CurrentPlaced(ords, cur, quotes, t)
  BY DEF P!CurrentPlaced, CurrentPlaced, P!Keeps, Keeps, P!Open, Open, P!Side, Side
<1>3. QED  BY <1>1, <1>2

LEMMA SameQuotes ==
    ASSUME NEW want, NEW held, NEW room
    PROVE  P!Quoted(want, held, room) = Quoted(want, held, room)
BY DEF P!Quoted, Quoted, P!Dropped, Dropped, P!Side, Side

LEMMA SameMessages ==
    ASSUME NEW ords, NEW t, NEW top, NEW depth
    PROVE  /\ P!AfterTop(ords, t, top) = AfterTop(ords, t, top)
           /\ P!AfterDepth(ords, t, depth) = AfterDepth(ords, t, depth)
<1>1. P!AfterTop(ords, t, top) = AfterTop(ords, t, top)
  BY DEF P!AfterTop, AfterTop, P!Surviving, Surviving, P!SeeLevel, SeeLevel,
     P!TopShows, TopShows, P!Least, Least
<1>2. P!AfterDepth(ords, t, depth) = AfterDepth(ords, t, depth)
  BY DEF P!AfterDepth, AfterDepth, P!SeeLevel, SeeLevel, P!DepthShows, DepthShows,
     P!Least, Least
<1>3. QED  BY <1>1, <1>2

LEMMA SameTrades ==
    ASSUME NEW ords, NEW t, NEW trade, NEW seen
    PROVE  /\ P!AfterTrade(ords, t, trade, seen) = AfterTrade(ords, t, trade, seen)
           /\ P!Bought(P!FillsOf(ords, t, trade, seen)) = Bought(FillsOf(ords, t, trade, seen))
<1>1. P!AfterTrade(ords, t, trade, seen) = AfterTrade(ords, t, trade, seen)
  BY DEF P!AfterTrade, AfterTrade, P!Surviving, Surviving, P!Matched, Matched,
     P!Filled, Filled, P!Meets, Meets, P!LiveAt, LiveAt, P!Ahead, Ahead,
     P!NotBelow0, NotBelow0, P!Least, Least
<1>2. P!FillsOf(ords, t, trade, seen) = FillsOf(ords, t, trade, seen)
  BY DEF P!FillsOf, FillsOf, P!Filled, Filled, P!Meets, Meets, P!LiveAt, LiveAt,
     P!Ahead, Ahead, P!NotBelow0, NotBelow0, P!Least, Least
<1>3. \A f : P!Bought(f) = Bought(f)
  BY DEF P!Bought, Bought, P!MapThenSumSet, MapThenSumSet, P!MapThenFoldSet, MapThenFoldSet
<1>4. QED  BY <1>1, <1>2, <1>3

-----------------------------------------------------------------------------
(* The excess of one coin. *)

\* The numbers it is made of.
LEMMA Numbers ==
    /\ OnTheWay \in Nat /\ OnTheWay >= Qty /\ Qty \in Nat \ {0}
    /\ P!InFlight \in Nat
    /\ \A t \in P!Time : t \in Nat /\ t - Lag \in Int
<1>1. P!InFlight \in Nat
  BY P!LimitType, PaperAssumption, MakersAssumed, NoRiskAssumed
<1>2. Qty \in Nat \ {0} /\ Lag \in Nat
  BY PaperAssumption, MakersAssumed
<1>3. PICK k \in Nat : k = P!InFlight
  BY <1>1
<1>4. (k + 1) * Qty = k * Qty + Qty /\ k * Qty \in Nat
  BY <1>2
<1>5. OnTheWay \in Nat /\ OnTheWay >= Qty
  BY <1>2, <1>3, <1>4 DEF OnTheWay
<1>6. \A t \in P!Time : t \in Nat /\ t - Lag \in Int
  BY <1>2 DEF P!Time
<1>7. QED  BY <1>1, <1>2, <1>5, <1>6

\* Paper orders may fill a number of lots.
LEMMA MayFillIsNat ==
    ASSUME NEW ords, P!Typed(ords), NEW s, NEW t
    PROVE  P!MayFill(ords, s, t) \in Nat
BY P!MayFillType, PaperAssumption, MakersAssumed, NoRiskAssumed DEF P!Typed

\* The excess is the larger side's, if that is any.
LEMMA ExcessIs ==
    ASSUME NEW held \in Int, NEW ords, P!Typed(ords), NEW t
    PROVE  /\ Excess(held, ords, t) \in Nat
           /\ \A s \in P!Side : s * held + P!MayFill(ords, s, t) - OnTheWay <= Excess(held, ords, t)
           /\ \/ Excess(held, ords, t) = 0
              \/ \E s \in P!Side :
                    Excess(held, ords, t) = s * held + P!MayFill(ords, s, t) - OnTheWay
<1>1. PICK long \in Int : long = Beyond(1, held, ords, t)
  <2>1. P!MayFill(ords, 1, t) \in Nat
    BY MayFillIsNat
  <2>2. QED  BY <2>1, Numbers DEF Beyond
<1>2. PICK short \in Int : short = Beyond(-1, held, ords, t)
  <2>1. P!MayFill(ords, -1, t) \in Nat
    BY MayFillIsNat
  <2>2. QED  BY <2>1, Numbers DEF Beyond
<1>3. Excess(held, ords, t) = IF long >= short /\ long >= 0 THEN long
                              ELSE IF short >= 0 THEN short ELSE 0
  BY <1>1, <1>2 DEF Excess
<1>4. PICK e : e = Excess(held, ords, t)
  OBVIOUS
<1>5. e \in Nat /\ long <= e /\ short <= e /\ (e = 0 \/ e = long \/ e = short)
  BY <1>3, <1>4
<1>6. \A s \in P!Side : s = 1 \/ s = -1
  BY DEF P!Side
<1>7. 1 \in P!Side /\ -1 \in P!Side
  BY DEF P!Side
<1>8. \A s \in P!Side : s * held + P!MayFill(ords, s, t) - OnTheWay <= e
  BY <1>1, <1>2, <1>5, <1>6 DEF Beyond
<1>9. e = 0 \/ \E s \in P!Side : e = s * held + P!MayFill(ords, s, t) - OnTheWay
  BY <1>1, <1>2, <1>5, <1>7 DEF Beyond
<1>10. QED  BY <1>4, <1>5, <1>8, <1>9

\* What moves no side's sum up does not move the excess up.
LEMMA ExcessShrinks ==
    ASSUME NEW held \in Int, NEW ords, P!Typed(ords), NEW t,
           NEW held2 \in Int, NEW ords2, P!Typed(ords2), NEW t2,
           \A s \in P!Side : s * held2 + P!MayFill(ords2, s, t2) <= s * held + P!MayFill(ords, s, t)
    PROVE  Excess(held2, ords2, t2) <= Excess(held, ords, t)
<1>1. PICK e \in Nat : e = Excess(held, ords, t)
  BY ExcessIs
<1>2. PICK e2 \in Nat : e2 = Excess(held2, ords2, t2)
  BY ExcessIs
<1>3. CASE e2 = 0
  BY <1>1, <1>2, <1>3
<1>4. ASSUME NEW s \in P!Side, e2 = s * held2 + P!MayFill(ords2, s, t2) - OnTheWay
      PROVE  e2 <= e
  <2>1. s * held + P!MayFill(ords, s, t) - OnTheWay <= e
    BY <1>1, ExcessIs
  <2>2. PICK m \in Nat : m = P!MayFill(ords, s, t)
    BY MayFillIsNat
  <2>3. PICK m2 \in Nat : m2 = P!MayFill(ords2, s, t2)
    BY MayFillIsNat
  <2>4. s \in {1, 0 - 1}
    BY DEF P!Side
  <2>5. PICK p \in Int : p = s * held
    BY <2>4
  <2>6. PICK p2 \in Int : p2 = s * held2
    BY <2>4
  <2>7. p2 + m2 <= p + m
    BY <2>2, <2>3, <2>5, <2>6
  <2>8. e2 = p2 + m2 - OnTheWay /\ p + m - OnTheWay <= e
    BY <1>4, <2>1, <2>2, <2>3, <2>5, <2>6
  <2>9. QED  BY <2>7, <2>8, Numbers
<1>5. QED  BY <1>1, <1>2, <1>3, <1>4, ExcessIs

\* A coin's excess is no more than it holds.
LEMMA ExcessIsHeld ==
    ASSUME NEW held \in Int, NEW ords, NEW cur, NEW last \in P!Time, NEW t \in P!Time,
           last <= t, NEW gone, P!Steered(ords, cur, last, gone), P!Spaced(ords)
    PROVE  Excess(held, ords, t - Lag) <= Abs(held)
<1>1. P!Typed(ords)
  BY DEF P!Steered, P!Typed
<1>2. P!Steered(ords, cur, t, gone)
  <2>1. \A n \in DOMAIN ords : n[2] <= last /\ n[2] \in Int
    BY DEF P!Steered, P!OrderName, P!Time
  <2>2. \A n \in DOMAIN ords : n[2] <= t
    BY <2>1, Numbers
  <2>3. QED  BY <2>2 DEF P!Steered
<1>3. ASSUME NEW s \in P!Side PROVE P!MayFill(ords, s, t - Lag) <= OnTheWay
  BY <1>2, P!FewMayFill, PaperAssumption, MakersAssumed, NoRiskAssumed DEF OnTheWay
<1>4. Abs(held) \in Nat /\ \A s \in P!Side : s * held <= Abs(held)
  BY DEF Abs, P!Side
<1>5. PICK e \in Nat : e = Excess(held, ords, t - Lag)
  BY <1>1, ExcessIs
<1>6. ASSUME NEW s \in P!Side, e = s * held + P!MayFill(ords, s, t - Lag) - OnTheWay
      PROVE  e <= Abs(held)
  <2>1. PICK m \in Nat : m = P!MayFill(ords, s, t - Lag)
    BY <1>1, MayFillIsNat
  <2>2. PICK p \in Int : p = s * held
    BY DEF P!Side
  <2>3. m <= OnTheWay /\ p <= Abs(held) /\ e = p + m - OnTheWay
    BY <1>3, <1>4, <1>6, <2>1, <2>2
  <2>4. QED  BY <1>4, <2>3, Numbers
<1>7. QED  BY <1>1, <1>4, <1>5, <1>6, ExcessIs

\* And it holds no more than its excess and what can be on its way.
LEMMA HeldIsExcess ==
    ASSUME NEW held \in Int, NEW ords, P!Typed(ords), NEW t
    PROVE  Abs(held) <= Excess(held, ords, t) + OnTheWay
<1>1. PICK e \in Nat : e = Excess(held, ords, t)
  BY ExcessIs
<1>2. ASSUME NEW s \in P!Side PROVE s * held <= e + OnTheWay
  <2>1. PICK m \in Nat : m = P!MayFill(ords, s, t)
    BY MayFillIsNat
  <2>2. PICK p \in Int : p = s * held
    BY DEF P!Side
  <2>3. p + m - OnTheWay <= e
    BY <1>1, <2>1, <2>2, ExcessIs
  <2>4. QED  BY <2>2, <2>3, Numbers
<1>3. \E s \in P!Side : Abs(held) = s * held
  <2>1. 1 \in P!Side /\ -1 \in P!Side
    BY DEF P!Side
  <2>2. Abs(held) = 1 * held \/ Abs(held) = (-1) * held
    BY DEF Abs
  <2>3. QED  BY <2>1, <2>2
<1>4. QED  BY <1>1, <1>2, <1>3

-----------------------------------------------------------------------------
(* A decision of one coin. *)

\* What a decision taken at t makes of a coin's orders.
Decided(ords, cur, last, t, held, room, after, cur2) ==
    /\ P!Steered(after, cur2, t, t + Latency)
    /\ P!Spaced(after)
    /\ \/ Excess(held, after, t - Lag) <= Excess(held, ords, t - Lag)
       \/ Excess(held, after, t - Lag) + Qty <= room
    /\ held = 0 /\ DOMAIN ords = {} /\ room < Qty => DOMAIN after = {}

\* A decision leaves the excess alone or within the room.
LEMMA DecisionIs ==
    ASSUME NEW ords, NEW cur, NEW last \in P!Time, NEW t \in P!Time, last + EvalMs <= t,
           P!Steered(ords, cur, last, last + Latency), P!Spaced(ords),
           NEW before, P!Meek(ords, before), NEW held \in Int, NEW room \in Nat,
           NEW want \in [P!Side -> Tick \cup {None}],
           NEW quotes, quotes = P!Quoted(want, held, room)
    PROVE  Decided(ords, cur, last, t, held, room,
                   P!OrdersPlaced(before, cur, quotes, t), P!CurrentPlaced(before, cur, quotes, t))
<1> DEFINE after == P!OrdersPlaced(before, cur, quotes, t)
           cur2 == P!CurrentPlaced(before, cur, quotes, t)
<1>1. /\ last < t /\ last \in Nat /\ t \in Nat /\ Latency \in Nat /\ t - Lag \in Int
      /\ last + Latency \in Int /\ last + Latency <= t + Latency
  BY PaperAssumption, MakersAssumed DEF P!Time
<1>2. quotes \in [P!Side -> Tick \cup {None}]
  BY DEF P!Quoted
<1>3. P!Typed(ords)
  BY DEF P!Steered, P!Typed
<1>4. P!Steered(before, cur, last, last + Latency)
  BY P!MeekIsSteered, PaperAssumption, MakersAssumed, NoRiskAssumed
<1>5. P!Steered(after, cur2, t, t + Latency)
  BY <1>1, <1>2, <1>4, P!PlaceSteers, PaperAssumption, MakersAssumed, NoRiskAssumed
<1>6. P!Spaced(after)
  BY P!PlaceSpaced, PaperAssumption, MakersAssumed, NoRiskAssumed
<1>7. P!Typed(after)
  BY <1>5 DEF P!Steered, P!Typed
<1>8. \A s \in P!Side :
        quotes[s] = None => P!MayFill(after, s, t - Lag) <= P!MayFill(ords, s, t - Lag)
  BY <1>1, <1>7, P!PlaceMayFill, PaperAssumption, MakersAssumed, NoRiskAssumed
<1>9. \A s \in P!Side : P!MayFill(after, s, t - Lag) <= OnTheWay
  BY <1>5, <1>6, P!FewMayFill, PaperAssumption, MakersAssumed, NoRiskAssumed DEF OnTheWay
<1>10. \A s \in P!Side : quotes[s] # None => s * held < 0 \/ s * held + Qty <= room
  <2>1. SUFFICES ASSUME NEW s \in P!Side, quotes[s] # None
                 PROVE  s * held < 0 \/ s * held + Qty <= room
    OBVIOUS
  <2>2. ~P!Dropped(s, held, room)
    BY <2>1 DEF P!Quoted
  <2>3. PICK p \in Int : p = s * held
    BY DEF P!Side
  <2>4. QED  BY <2>2, <2>3, Numbers DEF P!Dropped
<1>11. held = 0 /\ DOMAIN ords = {} /\ room < Qty => DOMAIN after = {}
  <2>1. SUFFICES ASSUME held = 0, DOMAIN ords = {}, room < Qty PROVE DOMAIN after = {}
    OBVIOUS
  <2>2. DOMAIN before = {}
    BY <2>1 DEF P!Meek
  <2>3. \A s \in P!Side : s * held = 0
    BY <2>1 DEF P!Side
  <2>4. \A s \in P!Side : quotes[s] = None
    BY <1>10, <2>1, <2>3, Numbers
  <2>5. P!Sent(before, cur, quotes, t) = {}
    BY <2>4 DEF P!Sent
  <2>6. QED  BY <2>2, <2>5 DEF P!OrdersPlaced
<1> HIDE DEF after, cur2
<1>12. \/ Excess(held, after, t - Lag) <= Excess(held, ords, t - Lag)
       \/ Excess(held, after, t - Lag) + Qty <= room
  <2>1. PICK e \in Nat : e = Excess(held, ords, t - Lag)
    BY <1>3, ExcessIs
  <2>2. PICK e2 \in Nat : e2 = Excess(held, after, t - Lag)
    BY <1>7, ExcessIs
  <2>3. ASSUME NEW s \in P!Side, e2 = s * held + P!MayFill(after, s, t - Lag) - OnTheWay
        PROVE  e2 <= e \/ e2 + Qty <= room
    <3>1. PICK p \in Int : p = s * held
      BY DEF P!Side
    <3>2. PICK m \in Nat : m = P!MayFill(ords, s, t - Lag)
      BY <1>3, MayFillIsNat
    <3>3. PICK m2 \in Nat : m2 = P!MayFill(after, s, t - Lag)
      BY <1>7, MayFillIsNat
    <3>4. CASE quotes[s] = None
      <4>1. m2 <= m
        BY <1>8, <3>2, <3>3, <3>4
      <4>2. p + m - OnTheWay <= e
        BY <1>3, <2>1, <3>1, <3>2, ExcessIs
      <4>3. QED  BY <2>3, <3>1, <3>3, <4>1, <4>2, Numbers
    <3>5. CASE quotes[s] # None
      <4>1. m2 <= OnTheWay /\ (p < 0 \/ p + Qty <= room)
        BY <1>9, <1>10, <3>1, <3>3, <3>5
      <4>2. QED  BY <2>3, <3>1, <3>3, <4>1, Numbers
    <3>6. QED  BY <3>4, <3>5
  <2>4. e2 = 0 \/ \E s \in P!Side : e2 = s * held + P!MayFill(after, s, t - Lag) - OnTheWay
    BY <1>7, <2>2, ExcessIs
  <2>5. QED  BY <2>1, <2>2, <2>3, <2>4
<1>13. QED  BY <1>5, <1>6, <1>11, <1>12 DEF Decided, after, cur2

-----------------------------------------------------------------------------
(* The room a coin has. *)

\* The exposure is the sum of what is held, long or short.
LEMMA ExposureIs ==
    ASSUME NEW held, IsFiniteSet(DOMAIN held), \A c \in DOMAIN held : held[c] \in Int,
           NEW F, F = [c \in DOMAIN held |-> Abs(held[c])]
    PROVE  Exposure(held) = SumOver(F, DOMAIN held)
<1> DEFINE S == DOMAIN held
           Adds(g) == g = [s \in SUBSET S |->
                            IF s = {} THEN 0 ELSE Abs(held[Some(s)]) + g[s \ {Some(s)}]]
           it == CHOOSE g : Adds(g)
<1>1. Exposure(held) = it[S]
  BY DEF Exposure, MapThenSumSet, MapThenFoldSet, Some
<1>2. \A x \in S : F[x] \in Int
  BY DEF Abs
<1>3. ASSUME NEW g PROVE Adds(g) <=> SumsOf(g, F, S)
  <2>1. ASSUME NEW s \in SUBSET S, s # {} PROVE F[Some(s)] = Abs(held[Some(s)])
    <3>1. Some(s) \in S
      BY <2>1, SomeIn
    <3>2. QED  BY <3>1
  <2>2. ASSUME NEW s \in SUBSET S
        PROVE  (IF s = {} THEN 0 ELSE Abs(held[Some(s)]) + g[s \ {Some(s)}])
                = (IF s = {} THEN 0 ELSE F[Some(s)] + g[s \ {Some(s)}])
    BY <2>1
  <2>3. QED  BY <2>2 DEF SumsOf
<1>4. PICK g : SumsOf(g, F, S)
  BY <1>2, SumsExist
<1>5. Adds(g)
  BY <1>3, <1>4
<1>6. Adds(it)
  <2> HIDE DEF Adds
  <2>1. QED  BY <1>5
<1>7. SumsOf(it, F, S)
  BY <1>3, <1>6
<1> HIDE DEF it
<1>8. QED  BY <1>1, <1>2, <1>7, SumOverIs

\* The excess of every coin is a number.
LEMMA ExcessesAre ==
    ASSUME DeskInv
    PROVE  \A c \in Coin : /\ Excesses[c] = Excess(position[c], orders[c], now - Lag)
                           /\ Excesses[c] \in Nat /\ Excesses[c] <= Abs(position[c])
                           /\ P!Typed(orders[c])
<1> SUFFICES ASSUME NEW c \in Coin
             PROVE  /\ Excesses[c] = Excess(position[c], orders[c], now - Lag)
                    /\ Excesses[c] \in Nat /\ Excesses[c] <= Abs(position[c])
                    /\ P!Typed(orders[c])
  OBVIOUS
<1>1. CoinInv(c) /\ now \in P!Time
  BY DEF DeskInv
<1>2. P!Typed(orders[c])
  BY <1>1 DEF CoinInv, P!Steered, P!Typed
<1>3. Excesses[c] = Excess(position[c], orders[c], now - Lag)
  BY DEF Excesses
<1>4. Excess(position[c], orders[c], now - Lag) \in Nat
  BY <1>1, <1>2, ExcessIs DEF CoinInv
<1>5. Excess(position[c], orders[c], now - Lag) <= Abs(position[c])
  BY <1>1, ExcessIsHeld DEF CoinInv
<1>6. QED  BY <1>2, <1>3, <1>4, <1>5

\* A room for an order is what the others, and so their excess, leave.
LEMMA RoomIs ==
    ASSUME DeskInv, NEW c \in Coin
    PROVE  /\ Room(c) \in Nat /\ Room(c) <= Budget
           /\ Room(c) >= Qty => SumOver(Excesses, Coin \ {c}) <= Budget - Room(c)
<1> DEFINE S == Coin \ {c}
           held == [d \in S |-> position[d]]
           F == [d \in S |-> Abs(held[d])]
<1>1. IsFiniteSet(S) /\ Budget \in Nat
  BY DeskAssumption, FS_Subset
<1>2. \A d \in S : position[d] \in Int
  BY DEF DeskInv, CoinInv
<1>3. \A d \in S : F[d] \in Nat /\ F[d] = Abs(position[d])
  BY <1>2 DEF Abs
<1>4. Exposure(held) = SumOver(F, S)
  <2>1. DOMAIN held = S /\ \A d \in S : held[d] \in Int
    BY <1>2
  <2> HIDE DEF held
  <2>2. F = [d \in DOMAIN held |-> Abs(held[d])]
    BY <2>1
  <2>3. QED  BY <1>1, <2>1, <2>2, ExposureIs
<1>5. Room(c) = NotBelow0(Budget - SumOver(F, S))
  BY <1>4 DEF Room
<1> HIDE DEF F
<1>6. SumOver(F, S) \in Nat
  <2>1. SumOver(F, S) \in Int
    BY <1>1, <1>3, SumOverTake DEF SumTakes
  <2>2. PICK Z : Z = {}
    OBVIOUS
  <2>3. SumOver(F, Z) <= SumOver(F, S)
    BY <1>1, <1>3, <2>2, SumMono
  <2>4. SumOver(F, Z) = 0
    BY <2>2, FS_EmptySet, SumOverTake DEF SumTakes
  <2>5. QED  BY <2>1, <2>3, <2>4
<1>7. SumOver(Excesses, S) <= SumOver(F, S)
  BY <1>1, <1>3, ExcessesAre, SumMono
<1>8. SumOver(Excesses, S) \in Int
  BY <1>1, ExcessesAre, SumOverTake DEF SumTakes
<1>9. PICK k \in Nat : k = SumOver(F, S)
  BY <1>6
<1>10. Room(c) = IF Budget - k >= 0 THEN Budget - k ELSE 0
  BY <1>1, <1>5, <1>9 DEF NotBelow0
<1>11. QED  BY <1>1, <1>7, <1>8, <1>9, <1>10, Numbers

-----------------------------------------------------------------------------
(* One coin moves. *)

\* A step of coin c alone.
Alone(c) ==
    /\ now' = now
    /\ PerCoin(lastEval') /\ PerCoin(orders') /\ PerCoin(current')
    /\ PerCoin(position') /\ PerCoin(fills')
    /\ \A d \in Coin \ {c} :
        /\ lastEval'[d] = lastEval[d] /\ orders'[d] = orders[d] /\ current'[d] = current[d]
        /\ position'[d] = position[d] /\ fills'[d] = fills[d]

\* What any message to coin c does.
CoinMoves(c) ==
    /\ Alone(c)
    /\ CoinInv(c)'
    /\ \/ Excess(position'[c], orders'[c], now - Lag) <= Excess(position[c], orders[c], now - Lag)
       \/ Excess(position'[c], orders'[c], now - Lag) + Qty <= Room(c)
    /\ Budget < Qty /\ Idle(c) => Idle(c)'

\* It keeps the desk's excess within the budget.
LEMMA OneCoinMoves ==
    ASSUME DeskInv, ExcessInv, NEW c \in Coin, CoinMoves(c)
    PROVE  DeskInv' /\ ExcessInv'
<1>1. DeskInv'
  <2>1. ASSUME NEW d \in Coin PROVE CoinInv(d)'
    <3>1. CASE d = c
      BY <3>1 DEF CoinMoves
    <3>2. CASE d # c
      BY <3>2 DEF CoinMoves, Alone, DeskInv, CoinInv
    <3>3. QED  BY <3>1, <3>2
  <2>2. QED  BY <2>1 DEF CoinMoves, Alone, DeskInv
<1>2. PICK S : S = Coin \ {c}
  OBVIOUS
<1>3. IsFiniteSet(Coin) /\ IsFiniteSet(S)
  BY <1>2, DeskAssumption, FS_Subset
<1>4. PICK E : E = Excesses
  OBVIOUS
<1>5. PICK E2 : E2 = Excesses'
  OBVIOUS
<1>6. \A d \in Coin : E[d] \in Nat /\ E[d] = Excess(position[d], orders[d], now - Lag)
  BY <1>4, ExcessesAre
<1>7. E2 = [d \in Coin |-> Excess(position'[d], orders'[d], now - Lag)]
  BY <1>5 DEF Excesses, CoinMoves, Alone
<1>8. \A d \in Coin : E2[d] \in Nat
  <2>1. SUFFICES ASSUME NEW d \in Coin PROVE E2[d] \in Nat
    OBVIOUS
  <2>2. position'[d] \in Int /\ P!Typed(orders'[d])
    BY <1>1 DEF DeskInv, CoinInv, P!Steered, P!Typed
  <2>3. Excess(position'[d], orders'[d], now - Lag) \in Nat
    BY <2>2, ExcessIs
  <2>4. QED  BY <1>7, <2>3
<1>9. \A d \in S : E2[d] = E[d]
  BY <1>2, <1>6, <1>7 DEF CoinMoves, Alone
<1>10. E2[c] <= E[c] \/ E2[c] + Qty <= Room(c)
  BY <1>6, <1>7 DEF CoinMoves
<1>11. CASE Budget >= Qty
  <2>1. SumOver(E, Coin) <= Budget - Qty
    BY <1>4, <1>11 DEF ExcessInv
  <2>2. SumOver(E2, Coin) = E2[c] + SumOver(E2, S) /\ SumOver(E, Coin) = E[c] + SumOver(E, S)
    <3>1. SumTakes(E, Coin)
      BY <1>3, <1>6, SumOverTake
    <3>2. SumTakes(E2, Coin)
      BY <1>3, <1>8, SumOverTake
    <3>3. QED  BY <1>2, <3>1, <3>2 DEF SumTakes
  <2>3. SumOver(E2, S) = SumOver(E, S)
    BY <1>2, <1>3, <1>6, <1>9, SumOverSame
  <2>4. SumOver(E, S) \in Int
    <3>1. \A d \in S : E[d] \in Int
      BY <1>2, <1>6
    <3>2. QED  BY <1>3, <3>1, SumOverTake DEF SumTakes
  <2>5. E[c] \in Nat /\ E2[c] \in Nat /\ Budget \in Nat /\ Qty \in Nat \ {0}
    BY <1>6, <1>8, DeskAssumption, PaperAssumption
  <2>6. CASE E2[c] <= E[c]
    <3>1. SumOver(E2, Coin) <= Budget - Qty
      BY <2>1, <2>2, <2>3, <2>4, <2>5, <2>6
    <3>2. QED  BY <1>1, <1>5, <1>11, <3>1, <2>5 DEF ExcessInv
  <2>7. CASE E2[c] + Qty <= Room(c)
    <3>1. Room(c) \in Nat /\ (Room(c) >= Qty => SumOver(E, S) <= Budget - Room(c))
      BY <1>2, <1>4, RoomIs
    <3>2. SumOver(E2, Coin) <= Budget - Qty
      BY <2>2, <2>3, <2>4, <2>5, <2>7, <3>1
    <3>3. QED  BY <1>1, <1>5, <1>11, <3>2, <2>5 DEF ExcessInv
  <2>8. QED  BY <1>10, <2>6, <2>7
<1>12. CASE Budget < Qty
  <2>1. Budget < Qty /\ ~(Budget >= Qty)
    BY <1>12, DeskAssumption, PaperAssumption
  <2>2. \A d \in Coin : Idle(d)
    BY <1>12 DEF ExcessInv
  <2>3. ASSUME NEW d \in Coin PROVE Idle(d)'
    <3>1. CASE d = c
      BY <2>1, <2>2, <3>1 DEF CoinMoves
    <3>2. CASE d # c
      BY <2>2, <3>2 DEF CoinMoves, Alone, Idle
    <3>3. QED  BY <3>1, <3>2
  <2>4. QED  BY <1>1, <2>1, <2>3 DEF ExcessInv
<1>13. Budget \in Nat /\ Qty \in Nat
  BY DeskAssumption, PaperAssumption
<1>14. QED  BY <1>11, <1>12, <1>13

\* A message that leaves the position and decides nothing.
LEMMA MeekMoves ==
    ASSUME DeskInv, NEW c \in Coin, Alone(c), P!Meek(orders[c], orders'[c]),
           lastEval'[c] = lastEval[c], current'[c] = current[c], position'[c] = position[c]
    PROVE  CoinMoves(c)
<1>1. CoinInv(c) /\ now \in P!Time /\ P!Typed(orders[c])
  BY ExcessesAre DEF DeskInv
<1>2. P!Steered(orders'[c], current[c], lastEval[c], lastEval[c] + Latency)
  BY <1>1, P!MeekIsSteered, PaperAssumption, MakersAssumed, NoRiskAssumed DEF CoinInv
<1>3. P!Spaced(orders'[c])
  BY <1>1 DEF CoinInv, P!Meek, P!Spaced
<1>4. CoinInv(c)'
  BY <1>1, <1>2, <1>3 DEF CoinInv, Alone
<1>5. P!Typed(orders'[c])
  BY <1>2 DEF P!Steered, P!Typed
<1>6. now - Lag \in Int /\ now - Lag <= now - Lag
  BY <1>1, Numbers
<1>7. ASSUME NEW s \in P!Side
      PROVE  s * position'[c] + P!MayFill(orders'[c], s, now - Lag)
                <= s * position[c] + P!MayFill(orders[c], s, now - Lag)
  <2>1. P!MayFill(orders'[c], s, now - Lag) <= P!MayFill(orders[c], s, now - Lag)
    BY <1>1, <1>6, P!MeekMayFill, PaperAssumption, MakersAssumed, NoRiskAssumed
  <2>2. P!MayFill(orders'[c], s, now - Lag) \in Nat /\ P!MayFill(orders[c], s, now - Lag) \in Nat
    BY <1>1, <1>5, MayFillIsNat
  <2>3. PICK p \in Int : p = s * position[c]
    BY <1>1 DEF CoinInv, P!Side
  <2>4. s * position'[c] = p
    BY <2>3
  <2>5. QED  BY <2>1, <2>2, <2>3, <2>4
<1>8. position[c] \in Int /\ position'[c] \in Int
  BY <1>1 DEF CoinInv
<1>9. Excess(position'[c], orders'[c], now - Lag) <= Excess(position[c], orders[c], now - Lag)
  BY <1>1, <1>5, <1>7, <1>8, ExcessShrinks
<1>10. Idle(c) => Idle(c)'
  BY DEF Idle, P!Meek
<1>11. QED  BY <1>4, <1>9, <1>10 DEF CoinMoves

\* An evaluation after a meek message.
LEMMA EvaluateMoves ==
    ASSUME DeskInv, NEW c \in Coin, NEW before, P!Meek(orders[c], before), Evaluate(c, before),
           fills' = [fills EXCEPT ![c] = {}], UNCHANGED <<now, position>>
    PROVE  CoinMoves(c)
<1>0. CoinInv(c) /\ now \in P!Time
  BY DEF DeskInv
<1>1. CASE /\ orders' = [orders EXCEPT ![c] = before]
           /\ UNCHANGED <<lastEval, current>>
  <2>1. Alone(c) /\ orders'[c] = before
    BY <1>1 DEF DeskInv, Alone, PerCoin
  <2>2. QED  BY <1>1, <2>1, MeekMoves
<1>2. CASE /\ now - lastEval[c] >= EvalMs
           /\ lastEval' = [lastEval EXCEPT ![c] = now]
           /\ \E want \in Maker(c)!Wants(position[c]) :
                LET quotes == Quoted(want, position[c], Room(c))
                IN  /\ orders' = [orders EXCEPT ![c] = OrdersPlaced(before, current[c], quotes, now)]
                    /\ current' = [current EXCEPT ![c] = CurrentPlaced(before, current[c], quotes, now)]
  <2>1. PICK want \in Maker(c)!Wants(position[c]) :
            LET quotes == Quoted(want, position[c], Room(c))
            IN  /\ orders' = [orders EXCEPT ![c] = OrdersPlaced(before, current[c], quotes, now)]
                /\ current' = [current EXCEPT ![c] = CurrentPlaced(before, current[c], quotes, now)]
    BY <1>2
  <2>2. want \in [P!Side -> Tick \cup {None}]
    BY DEF Maker!Wants, Maker!Side, P!Side
  <2>3. PICK quotes : quotes = P!Quoted(want, position[c], Room(c))
    OBVIOUS
  <2>4. /\ orders' = [orders EXCEPT ![c] = P!OrdersPlaced(before, current[c], quotes, now)]
        /\ current' = [current EXCEPT ![c] = P!CurrentPlaced(before, current[c], quotes, now)]
    <3>1. quotes = Quoted(want, position[c], Room(c))
      BY <2>3, SameQuotes
    <3>2. QED  BY <2>1, <3>1, SameOrders
  <2>5. /\ orders'[c] = P!OrdersPlaced(before, current[c], quotes, now)
        /\ current'[c] = P!CurrentPlaced(before, current[c], quotes, now)
        /\ lastEval'[c] = now /\ position'[c] = position[c]
    BY <1>2, <2>4 DEF DeskInv, PerCoin
  <2>6. Alone(c)
    BY <1>2, <2>4 DEF DeskInv, Alone, PerCoin
  <2>7. Room(c) \in Nat
    BY RoomIs
  <2>8. lastEval[c] + EvalMs <= now
    BY <1>0, <1>2, MakersAssumed, Numbers DEF CoinInv
  <2>9. Decided(orders[c], current[c], lastEval[c], now, position[c], Room(c), orders'[c], current'[c])
    BY <1>0, <2>2, <2>3, <2>5, <2>7, <2>8, DecisionIs DEF CoinInv
  <2>10. CoinInv(c)'
    <3>1. now' = now
      BY <2>6 DEF Alone
    <3>2. now <= now
      BY <1>0, Numbers
    <3>3. QED  BY <1>0, <2>5, <2>9, <3>1, <3>2 DEF CoinInv, Decided
  <2>11. Budget < Qty /\ Idle(c) => Idle(c)'
    <3>1. Room(c) <= Budget /\ Budget \in Nat /\ Qty \in Nat
      BY RoomIs, DeskAssumption, PaperAssumption
    <3>2. Budget < Qty => Room(c) < Qty
      BY <2>7, <3>1
    <3>3. QED  BY <2>5, <2>9, <3>2 DEF Idle, Decided
  <2>12. QED  BY <2>5, <2>6, <2>9, <2>10, <2>11 DEF CoinMoves, Decided
<1>3. QED  BY <1>1, <1>2 DEF Evaluate

\* A maker of the desk hears what PaperMaker hears.
LEMMA SameTimes ==
    ASSUME NEW c
    PROVE  Maker(c)!BlockTimes = P!BlockTimes /\ Maker(c)!SeenSizes = P!SeenSizes
<1>1. Maker(c)!BlockTimes = P!BlockTimes
  BY DEF Maker!BlockTimes, P!BlockTimes, Maker!Time, P!Time
<1>2. Maker(c)!SeenSizes = P!SeenSizes
  BY DEF Maker!SeenSizes, P!SeenSizes, Maker!Side, P!Side
<1>3. QED  BY <1>1, <1>2

\* A trade moves lots from what may fill to what is held.
LEMMA TradeMovesCoin ==
    ASSUME DeskInv, NEW c \in Coin, HearTrade(c)
    PROVE  CoinMoves(c)
<1>0. PICK t \in Maker(c)!BlockTimes, trade \in Trades, seen \in Maker(c)!SeenSizes :
        /\ fills' = [fills EXCEPT ![c] = FillsOf(orders[c], t, trade, seen)]
        /\ orders' = [orders EXCEPT ![c] = AfterTrade(orders[c], t, trade, seen)]
        /\ position' = [position EXCEPT ![c] = position[c] + Bought(fills'[c])]
        /\ UNCHANGED <<now, lastEval, current>>
  BY DEF HearTrade
<1>1. t \in P!BlockTimes /\ seen \in P!SeenSizes
  BY SameTimes
<1>2. CoinInv(c) /\ now \in P!Time /\ P!Typed(orders[c])
  BY ExcessesAre DEF DeskInv
<1>3. t \in P!Time /\ seen \in P!Size /\ now - Lag <= t
  BY <1>1, P!SeenIsSize, PaperAssumption, MakersAssumed, NoRiskAssumed DEF P!BlockTimes
<1>4. Alone(c)
  BY <1>0 DEF DeskInv, Alone, PerCoin
<1>5. /\ orders'[c] = P!AfterTrade(orders[c], t, trade, seen)
      /\ position'[c] = position[c] + P!Bought(P!FillsOf(orders[c], t, trade, seen))
      /\ lastEval'[c] = lastEval[c] /\ current'[c] = current[c]
  <2>1. /\ orders'[c] = AfterTrade(orders[c], t, trade, seen)
        /\ fills'[c] = FillsOf(orders[c], t, trade, seen)
        /\ position'[c] = position[c] + Bought(fills'[c])
        /\ lastEval'[c] = lastEval[c] /\ current'[c] = current[c]
    BY <1>0 DEF DeskInv, PerCoin
  <2>2. QED  BY <2>1, SameTrades
<1>6. PICK last : last = lastEval[c]
  OBVIOUS
<1>7. P!Steered(orders[c], current[c], last, last + Latency)
  BY <1>2, <1>6 DEF CoinInv
<1>8. PICK bought \in Int : bought = P!Bought(P!FillsOf(orders[c], t, trade, seen))
  BY <1>3, <1>7, P!BoughtType, PaperAssumption, MakersAssumed, NoRiskAssumed
<1>9. P!Meek(orders[c], orders'[c])
  BY <1>2, <1>3, <1>5, P!TradeIsMeek, PaperAssumption, MakersAssumed, NoRiskAssumed
<1>10. P!Steered(orders'[c], current[c], last, last + Latency)
  BY <1>7, <1>9, P!MeekIsSteered, PaperAssumption, MakersAssumed, NoRiskAssumed
<1>11. P!Spaced(orders'[c])
  BY <1>2, <1>9 DEF CoinInv, P!Meek, P!Spaced
<1>12. position[c] \in Int /\ position'[c] \in Int
  BY <1>2, <1>5, <1>8 DEF CoinInv
<1>13. CoinInv(c)'
  BY <1>2, <1>4, <1>5, <1>6, <1>10, <1>11, <1>12 DEF CoinInv, Alone
<1>14. P!Typed(orders'[c])
  BY <1>10 DEF P!Steered, P!Typed
<1>15. \A s \in P!Side :
        s * position'[c] + P!MayFill(orders'[c], s, now - Lag)
            <= s * position[c] + P!MayFill(orders[c], s, now - Lag)
  <2>1. now - Lag \in Int
    BY <1>2, Numbers
  <2>2. QED
    BY <1>3, <1>5, <1>7, <1>12, <2>1, P!TradeMoves, PaperAssumption, MakersAssumed, NoRiskAssumed
<1>16. Excess(position'[c], orders'[c], now - Lag) <= Excess(position[c], orders[c], now - Lag)
  BY <1>2, <1>12, <1>14, <1>15, ExcessShrinks
<1>17. Idle(c) => Idle(c)'
  <2>1. SUFFICES ASSUME Idle(c) PROVE Idle(c)'
    OBVIOUS
  <2>2. DOMAIN orders'[c] = {}
    BY <1>9, <2>1 DEF Idle, P!Meek
  <2>3. P!Bought(P!FillsOf(orders[c], t, trade, seen)) = 0
    BY <1>3, <1>7, <2>1, P!TradeFillsOne, PaperAssumption, MakersAssumed, NoRiskAssumed DEF Idle
  <2>4. position'[c] = 0
    BY <1>5, <2>1, <2>3 DEF Idle
  <2>5. QED  BY <2>2, <2>4 DEF Idle
<1>18. QED  BY <1>4, <1>13, <1>16, <1>17 DEF CoinMoves

\* Every message of one coin.
LEMMA CoinHears ==
    ASSUME DeskInv, NEW c \in Coin, HearTop(c) \/ HearRef(c) \/ HearDepth(c) \/ HearTrade(c)
    PROVE  CoinMoves(c)
<1>0. P!Typed(orders[c])
  BY ExcessesAre
<1>1. CASE HearTop(c)
  <2>1. PICK t \in P!BlockTimes, top \in Tops : Evaluate(c, AfterTop(orders[c], t, top))
    BY <1>1, SameTimes DEF HearTop
  <2>2. P!Meek(orders[c], P!AfterTop(orders[c], t, top))
    BY <1>0, P!TopIsMeek, PaperAssumption, MakersAssumed, NoRiskAssumed DEF P!BlockTimes
  <2>3. P!Meek(orders[c], AfterTop(orders[c], t, top))
    BY <2>2, SameMessages
  <2>4. QED  BY <1>1, <2>1, <2>3, EvaluateMoves DEF HearTop
<1>2. CASE HearRef(c)
  <2>1. P!Meek(orders[c], orders[c])
    BY <1>0, P!SameIsMeek, PaperAssumption, MakersAssumed, NoRiskAssumed
  <2>2. QED  BY <1>2, <2>1, EvaluateMoves DEF HearRef
<1>3. CASE HearDepth(c)
  <2>1. PICK t \in P!BlockTimes, depth \in Depths :
            orders' = [orders EXCEPT ![c] = AfterDepth(@, t, depth)]
    BY <1>3, SameTimes DEF HearDepth
  <2>2. P!Meek(orders[c], P!AfterDepth(orders[c], t, depth))
    BY <1>0, P!DepthIsMeek, PaperAssumption, MakersAssumed, NoRiskAssumed DEF P!BlockTimes
  <2>3. orders'[c] = AfterDepth(orders[c], t, depth)
    BY <2>1 DEF DeskInv, PerCoin
  <2>4. P!Meek(orders[c], orders'[c])
    BY <2>2, <2>3, SameMessages
  <2>5. Alone(c) /\ UNCHANGED <<lastEval, current, position>>
    BY <1>3, <2>1 DEF HearDepth, DeskInv, Alone, PerCoin
  <2>6. QED  BY <2>4, <2>5, MeekMoves
<1>4. CASE HearTrade(c)
  BY <1>4, TradeMovesCoin
<1>5. QED  BY <1>1, <1>2, <1>3, <1>4

-----------------------------------------------------------------------------
(* The desk. *)

\* Time only takes from what may fill.
LEMMA TimeMoves ==
    ASSUME DeskInv, ExcessInv, UNCHANGED coins, now' \in P!Time, now' >= now
    PROVE  DeskInv' /\ ExcessInv'
<1>0. now \in Nat /\ now' \in Nat /\ now - Lag \in Int /\ now' - Lag \in Int /\ Lag \in Nat
  BY Numbers, MakersAssumed DEF DeskInv
<1>1. DeskInv'
  <2>1. ASSUME NEW c \in Coin PROVE CoinInv(c)'
    <3>1. CoinInv(c)
      BY DEF DeskInv
    <3>2. lastEval[c] <= now'
      <4>1. lastEval[c] \in Nat /\ lastEval[c] <= now
        BY <3>1, Numbers DEF CoinInv
      <4>2. QED  BY <1>0, <4>1
    <3>3. QED  BY <3>1, <3>2 DEF CoinInv, coins
  <2>2. QED  BY <2>1 DEF DeskInv, coins
<1>2. now - Lag <= now' - Lag
  <2>1. \A a, b, l \in Nat : b >= a => a - l <= b - l
    OBVIOUS
  <2>2. QED  BY <1>0, <2>1
<1>3. ASSUME NEW c \in Coin
      PROVE  /\ Excesses'[c] \in Nat /\ Excesses[c] \in Nat /\ Excesses'[c] <= Excesses[c]
  <2>1. P!Typed(orders[c]) /\ position[c] \in Int
    BY ExcessesAre DEF DeskInv, CoinInv
  <2>2. P!Meek(orders[c], orders[c])
    BY <2>1, P!SameIsMeek, PaperAssumption, MakersAssumed, NoRiskAssumed
  <2>3. ASSUME NEW s \in P!Side
        PROVE  s * position[c] + P!MayFill(orders[c], s, now' - Lag)
                <= s * position[c] + P!MayFill(orders[c], s, now - Lag)
    <3>1. P!MayFill(orders[c], s, now' - Lag) <= P!MayFill(orders[c], s, now - Lag)
      BY <1>0, <1>2, <2>1, <2>2, P!MeekMayFill, PaperAssumption, MakersAssumed, NoRiskAssumed
    <3>2. /\ P!MayFill(orders[c], s, now' - Lag) \in Nat
          /\ P!MayFill(orders[c], s, now - Lag) \in Nat
      BY <2>1, MayFillIsNat
    <3>3. PICK p \in Int : p = s * position[c]
      BY <2>1 DEF P!Side
    <3>4. QED  BY <3>1, <3>2, <3>3
  <2>4. Excess(position[c], orders[c], now' - Lag) <= Excess(position[c], orders[c], now - Lag)
    BY <2>1, <2>3, ExcessShrinks
  <2>5. Excess(position[c], orders[c], now' - Lag) \in Nat
        /\ Excess(position[c], orders[c], now - Lag) \in Nat
    BY <2>1, ExcessIs
  <2>6. Excesses'[c] = Excess(position[c], orders[c], now' - Lag)
    BY DEF Excesses, coins
  <2>7. Excesses[c] = Excess(position[c], orders[c], now - Lag)
    BY DEF Excesses
  <2>8. QED  BY <2>4, <2>5, <2>6, <2>7
<1>4. PICK E : E = Excesses
  OBVIOUS
<1>5. PICK E2 : E2 = Excesses'
  OBVIOUS
<1>6. IsFiniteSet(Coin) /\ Budget \in Nat /\ Qty \in Nat
  BY DeskAssumption, PaperAssumption
<1>7. \A c \in Coin : E2[c] \in Nat /\ E[c] \in Nat /\ E2[c] <= E[c]
  BY <1>3, <1>4, <1>5
<1>8. SumOver(E2, Coin) <= SumOver(E, Coin)
  BY <1>6, <1>7, SumMono
<1>9. SumOver(E2, Coin) \in Int /\ SumOver(E, Coin) \in Int
  <2>1. (\A c \in Coin : E2[c] \in Int) /\ (\A c \in Coin : E[c] \in Int)
    BY <1>7
  <2>2. QED  BY <1>6, <2>1, SumOverTake DEF SumTakes
<1>10. Budget >= Qty => SumOver(Excesses', Coin) <= Budget - Qty
  BY <1>4, <1>5, <1>6, <1>8, <1>9 DEF ExcessInv
<1>11. Budget < Qty => \A c \in Coin : Idle(c)'
  BY DEF ExcessInv, Idle, coins
<1>12. QED  BY <1>1, <1>10, <1>11 DEF ExcessInv

\* At first every coin is flat and has no orders.
LEMMA DeskInvInit == Init => DeskInv /\ ExcessInv
<1> SUFFICES ASSUME Init PROVE DeskInv /\ ExcessInv
  OBVIOUS
<1>1. now \in P!Time /\ now = 0
  BY PaperAssumption DEF Init, P!Time
<1>2. ASSUME NEW c \in Coin PROVE CoinInv(c) /\ Idle(c)
  <2>1. /\ lastEval[c] = 0 /\ DOMAIN orders[c] = {} /\ position[c] = 0
        /\ current[c] = [s \in Side |-> None]
    BY DEF Init
  <2>2. P!Steered(orders[c], current[c], 0, 0 + Latency)
    BY <2>1 DEF P!Steered, P!Side, Side
  <2>3. P!Spaced(orders[c])
    BY <2>1 DEF P!Spaced
  <2>4. QED  BY <1>1, <2>1, <2>2, <2>3 DEF CoinInv, Idle
<1>3. DeskInv
  BY <1>1, <1>2 DEF Init, DeskInv, PerCoin
<1>4. PICK E : E = Excesses
  OBVIOUS
<1>5. IsFiniteSet(Coin) /\ Budget \in Nat /\ Qty \in Nat
  BY DeskAssumption, PaperAssumption
<1>6. ASSUME NEW c \in Coin PROVE E[c] \in Nat /\ E[c] <= 0
  <2>1. Excesses[c] \in Nat /\ Excesses[c] <= Abs(position[c])
    BY <1>3, ExcessesAre
  <2>2. Abs(position[c]) = 0
    BY <1>2 DEF Idle, Abs
  <2>3. QED  BY <1>4, <2>1, <2>2
<1>7. SumOver(E, Coin) <= Cardinality(Coin) * 0
  BY <1>5, <1>6, SumBound
<1>8. SumOver(E, Coin) \in Int /\ Cardinality(Coin) \in Nat
  BY <1>5, <1>6, SumOverTake, FS_CardinalityType DEF SumTakes
<1>9. Budget >= Qty => SumOver(E, Coin) <= Budget - Qty
  BY <1>5, <1>7, <1>8
<1>10. QED  BY <1>2, <1>3, <1>4, <1>9 DEF ExcessInv

\* Every step keeps the desk's excess within the budget.
LEMMA DeskInvStep == DeskInv /\ ExcessInv /\ [Next]_vars => DeskInv' /\ ExcessInv'
<1> SUFFICES ASSUME DeskInv, ExcessInv, [Next]_vars PROVE DeskInv' /\ ExcessInv'
  OBVIOUS
<1>1. ASSUME NEW c \in Coin, HearTop(c) \/ HearRef(c) \/ HearDepth(c) \/ HearTrade(c)
      PROVE  DeskInv' /\ ExcessInv'
  <2>1. CoinMoves(c)
    BY <1>1, CoinHears
  <2>2. QED  BY <2>1, OneCoinMoves
<1>2. CASE Wait
  <2>1. now' \in P!Time /\ now' >= now
    BY <1>2, PaperAssumption DEF Wait, DeskInv, P!Time
  <2>2. QED  BY <1>2, <2>1, TimeMoves DEF Wait
<1>3. CASE UNCHANGED vars
  <2>1. UNCHANGED coins /\ now' = now
    BY <1>3 DEF vars
  <2>2. now' \in P!Time /\ now' >= now
    BY <2>1, Numbers DEF DeskInv
  <2>3. QED  BY <2>1, <2>2, TimeMoves
<1>4. QED  BY <1>1, <1>2, <1>3 DEF Next

\* The invariant holds always.
LEMMA DeskInvAlways == Spec => [](DeskInv /\ ExcessInv)
BY DeskInvInit, DeskInvStep, PTL DEF Spec

\* What is held is the excess of each coin and, for each, what can be on
\* its way.
LEMMA GrossIs ==
    ASSUME DeskInv, ExcessInv, NEW c \in Coin
    PROVE  Gross <= Budget - Qty + Cardinality(Coin) * OnTheWay
<1>1. PICK F : F = [d \in Coin |-> Abs(position[d])]
  OBVIOUS
<1>2. PICK E : E = Excesses
  OBVIOUS
<1>3. IsFiniteSet(Coin) /\ Budget \in Nat
  BY DeskAssumption
<1>4. \A d \in Coin : position[d] \in Int /\ DOMAIN position = Coin
  BY DEF DeskInv, CoinInv, PerCoin
<1>5. Gross = SumOver(F, Coin)
  <2>1. DOMAIN position = Coin /\ \A d \in DOMAIN position : position[d] \in Int
    BY <1>4 DEF DeskInv, PerCoin
  <2>2. F = [d \in DOMAIN position |-> Abs(position[d])]
    BY <1>1, <2>1
  <2>3. Exposure(position) = SumOver(F, DOMAIN position)
    BY <1>3, <2>1, <2>2, ExposureIs
  <2>4. QED  BY <2>1, <2>3 DEF Gross
<1>6. ASSUME NEW d \in Coin
      PROVE  E[d] \in Int /\ F[d] \in Int /\ F[d] <= E[d] + OnTheWay
  <2>1. E[d] = Excess(position[d], orders[d], now - Lag) /\ E[d] \in Nat /\ P!Typed(orders[d])
    BY <1>2, ExcessesAre
  <2>2. F[d] = Abs(position[d]) /\ Abs(position[d]) \in Int
    BY <1>1, <1>4 DEF Abs
  <2>3. Abs(position[d]) <= Excess(position[d], orders[d], now - Lag) + OnTheWay
    BY <1>4, <2>1, HeldIsExcess
  <2>4. QED  BY <2>1, <2>2, <2>3
<1>7. SumOver(F, Coin) <= SumOver(E, Coin) + Cardinality(Coin) * OnTheWay
  BY <1>3, <1>6, Numbers, SumGap
<1>8. SumOver(F, Coin) \in Int /\ SumOver(E, Coin) \in Int
  <2>1. (\A d \in Coin : F[d] \in Int) /\ (\A d \in Coin : E[d] \in Int)
    BY <1>6
  <2>2. QED  BY <1>3, <2>1, SumOverTake DEF SumTakes
<1>9. PICK n \in Nat : n = Cardinality(Coin) /\ n >= 1
  <2>1. Cardinality(Coin) \in Nat /\ Coin # {}
    BY <1>3, FS_CardinalityType
  <2>2. Cardinality(Coin) # 0
    BY <1>3, <2>1, FS_EmptySet
  <2>3. QED  BY <2>1, <2>2
<1>10. PICK k \in Nat : k = n * OnTheWay /\ k >= Qty
  <2>1. OnTheWay \in Nat /\ OnTheWay >= Qty /\ Qty \in Nat
    BY Numbers
  <2>2. n * OnTheWay >= OnTheWay /\ n * OnTheWay \in Nat
    BY <1>9, <2>1, SMTT(30)
  <2>3. QED  BY <2>1, <2>2
<1>11. CASE Budget >= Qty
  <2>1. SumOver(E, Coin) <= Budget - Qty
    BY <1>2, <1>11 DEF ExcessInv
  <2>2. QED  BY <1>3, <1>5, <1>7, <1>8, <1>9, <1>10, <2>1, Numbers
<1>12. CASE Budget < Qty
  <2>1. \A d \in Coin : F[d] \in Int /\ F[d] <= 0
    BY <1>1, <1>12 DEF ExcessInv, Idle, Abs
  <2>2. SumOver(F, Coin) <= Cardinality(Coin) * 0
    BY <1>3, <2>1, SumBound
  <2>3. SumOver(F, Coin) <= 0
    BY <1>8, <1>9, <2>2
  <2>4. QED  BY <1>3, <1>5, <1>8, <1>9, <1>10, <2>3, Numbers
<1>13. QED  BY <1>3, <1>11, <1>12, Numbers

\* The desk passes its budget by what its coins can have on their way at
\* once, and by no more (Engine.room).
THEOREM GrossIsBounded == Spec => []GrossBounded
<1>1. DeskInv /\ ExcessInv => GrossBounded
  <2> SUFFICES ASSUME DeskInv, ExcessInv, NEW c \in Coin
               PROVE  Gross <= Budget - Qty + Cardinality(Coin) * (Maker(c)!InFlight + 1) * Qty
    BY DEF GrossBounded
  <2>1. PICK i \in Nat : i = P!InFlight
    BY Numbers
  <2>2. Maker(c)!InFlight = i
    BY <2>1 DEF Maker!InFlight, P!InFlight
  <2>3. PICK n \in Nat : n = Cardinality(Coin)
    BY DeskAssumption, FS_CardinalityType
  <2>4. n * OnTheWay = n * (i + 1) * Qty
    <3>1. OnTheWay = (i + 1) * Qty
      BY <2>1 DEF OnTheWay
    <3>2. \A a, b, q \in Nat : a * (b * q) = a * b * q
      BY SMTT(30)
    <3>3. i + 1 \in Nat /\ Qty \in Nat
      BY Numbers
    <3>4. QED  BY <3>1, <3>2, <3>3
  <2>5. Gross <= Budget - Qty + n * OnTheWay
    BY <2>3, GrossIs
  <2>6. QED  BY <2>2, <2>3, <2>4, <2>5
<1>2. QED  BY <1>1, DeskInvAlways, PTL

-----------------------------------------------------------------------------
(* The coins are makers. *)

\* What PaperOrders defines, each maker calls by a name of its own.
LEMMA MakersOrders ==
    ASSUME NEW c, NEW ords, NEW cur, NEW quotes, NEW t, NEW want, NEW held, NEW room
    PROVE  /\ Maker(c)!OrdersPlaced(ords, cur, quotes, t) = OrdersPlaced(ords, cur, quotes, t)
           /\ Maker(c)!CurrentPlaced(ords, cur, quotes, t) = CurrentPlaced(ords, cur, quotes, t)
           /\ Maker(c)!Quoted(want, held, room) = Quoted(want, held, room)
<1>1. Maker(c)!OrdersPlaced(ords, cur, quotes, t) = OrdersPlaced(ords, cur, quotes, t)
  BY DEF Maker!OrdersPlaced, OrdersPlaced, Maker!Sent, Sent, Maker!Cancelled, Cancelled,
     Maker!Keeps, Keeps, Maker!Open, Open, Maker!CancelBy, CancelBy,
     Maker!NewOrder, NewOrder, Maker!Least, Least, Maker!Side, Side
<1>2. Maker(c)!CurrentPlaced(ords, cur, quotes, t) = CurrentPlaced(ords, cur, quotes, t)
  BY DEF Maker!CurrentPlaced, CurrentPlaced, Maker!Keeps, Keeps, Maker!Open, Open,
     Maker!Side, Side
<1>3. Maker(c)!Quoted(want, held, room) = Quoted(want, held, room)
  BY DEF Maker!Quoted, Quoted, Maker!Dropped, Dropped, Maker!Side, Side
<1>4. QED  BY <1>1, <1>2, <1>3

LEMMA MakersMessages ==
    ASSUME NEW c, NEW ords, NEW t, NEW top, NEW depth, NEW trade, NEW seen
    PROVE  /\ Maker(c)!AfterTop(ords, t, top) = AfterTop(ords, t, top)
           /\ Maker(c)!AfterDepth(ords, t, depth) = AfterDepth(ords, t, depth)
           /\ Maker(c)!AfterTrade(ords, t, trade, seen) = AfterTrade(ords, t, trade, seen)
           /\ Maker(c)!FillsOf(ords, t, trade, seen) = FillsOf(ords, t, trade, seen)
<1>1. Maker(c)!AfterTop(ords, t, top) = AfterTop(ords, t, top)
  BY DEF Maker!AfterTop, AfterTop, Maker!Surviving, Surviving, Maker!SeeLevel, SeeLevel,
     Maker!TopShows, TopShows, Maker!Least, Least
<1>2. Maker(c)!AfterDepth(ords, t, depth) = AfterDepth(ords, t, depth)
  BY DEF Maker!AfterDepth, AfterDepth, Maker!SeeLevel, SeeLevel,
     Maker!DepthShows, DepthShows, Maker!Least, Least
<1>3. Maker(c)!AfterTrade(ords, t, trade, seen) = AfterTrade(ords, t, trade, seen)
  BY DEF Maker!AfterTrade, AfterTrade, Maker!Surviving, Surviving, Maker!Matched, Matched,
     Maker!Filled, Filled, Maker!Meets, Meets, Maker!LiveAt, LiveAt, Maker!Ahead, Ahead,
     Maker!NotBelow0, NotBelow0, Maker!Least, Least
<1>4. Maker(c)!FillsOf(ords, t, trade, seen) = FillsOf(ords, t, trade, seen)
  BY DEF Maker!FillsOf, FillsOf, Maker!Filled, Filled, Maker!Meets, Meets,
     Maker!LiveAt, LiveAt, Maker!Ahead, Ahead, Maker!NotBelow0, NotBelow0,
     Maker!Least, Least
<1>5. QED  BY <1>1, <1>2, <1>3, <1>4

LEMMA MakersBought ==
    ASSUME NEW c, NEW f
    PROVE  Maker(c)!Bought(f) = Bought(f)
BY DEF Maker!Bought, Bought, Maker!MapThenSumSet, MapThenSumSet,
   Maker!MapThenFoldSet, MapThenFoldSet

\* A coin's evaluation is its maker's, with the coin's room.
LEMMA MakerEvaluates ==
    ASSUME DeskInv, NEW c \in Coin, NEW before, Evaluate(c, before)
    PROVE  Maker(c)!Evaluate(before)
<1>0. c \in DOMAIN orders /\ c \in DOMAIN current /\ c \in DOMAIN lastEval
  BY DEF DeskInv, PerCoin
<1>1. CASE /\ now - lastEval[c] < EvalMs
           /\ orders' = [orders EXCEPT ![c] = before]
           /\ UNCHANGED <<lastEval, current>>
  BY <1>0, <1>1 DEF Maker!Evaluate
<1>2. CASE /\ now - lastEval[c] >= EvalMs
           /\ lastEval' = [lastEval EXCEPT ![c] = now]
           /\ \E want \in Maker(c)!Wants(position[c]) :
                LET quotes == Quoted(want, position[c], Room(c))
                IN  /\ orders' = [orders EXCEPT ![c] = OrdersPlaced(before, current[c], quotes, now)]
                    /\ current' = [current EXCEPT ![c] = CurrentPlaced(before, current[c], quotes, now)]
  <2>1. PICK want \in Maker(c)!Wants(position[c]) :
            LET quotes == Quoted(want, position[c], Room(c))
            IN  /\ orders' = [orders EXCEPT ![c] = OrdersPlaced(before, current[c], quotes, now)]
                /\ current' = [current EXCEPT ![c] = CurrentPlaced(before, current[c], quotes, now)]
    BY <1>2
  <2>2. PICK room : room = Room(c)
    OBVIOUS
  <2>3. room \in 0 .. Budget
    <3>1. room \in Nat /\ room <= Budget
      BY <2>2, RoomIs
    <3>2. QED  BY <3>1, DeskAssumption
  <2>4. /\ orders'[c] = Maker(c)!OrdersPlaced(before, current[c],
                            Maker(c)!Quoted(want, position[c], room), now)
        /\ current'[c] = Maker(c)!CurrentPlaced(before, current[c],
                            Maker(c)!Quoted(want, position[c], room), now)
    BY <1>0, <2>1, <2>2, MakersOrders
  <2>5. lastEval'[c] = now
    BY <1>0, <1>2
  <2>6. QED  BY <1>2, <2>3, <2>4, <2>5 DEF Maker!Evaluate
<1>3. QED  BY <1>1, <1>2 DEF Evaluate

\* A message to a coin is a message to its maker.
LEMMA MakerHears ==
    ASSUME DeskInv, NEW c \in Coin, HearTop(c) \/ HearRef(c) \/ HearDepth(c) \/ HearTrade(c)
    PROVE  Maker(c)!Next
<1>0. /\ c \in DOMAIN orders /\ c \in DOMAIN current /\ c \in DOMAIN lastEval
      /\ c \in DOMAIN position /\ c \in DOMAIN fills
  BY DEF DeskInv, PerCoin
<1>1. CASE HearTop(c)
  <2>1. PICK t \in Maker(c)!BlockTimes, top \in Tops :
            /\ Evaluate(c, AfterTop(orders[c], t, top))
            /\ fills' = [fills EXCEPT ![c] = {}]
            /\ UNCHANGED <<now, position>>
    BY <1>1 DEF HearTop
  <2>2. Maker(c)!Evaluate(AfterTop(orders[c], t, top))
    BY <2>1, MakerEvaluates
  <2>3. Maker(c)!Evaluate(Maker(c)!AfterTop(orders[c], t, top))
    BY <2>2, MakersMessages
  <2>4. fills'[c] = {} /\ UNCHANGED <<now, position[c]>>
    BY <1>0, <2>1
  <2>5. Maker(c)!HearTop
    BY <2>3, <2>4 DEF Maker!HearTop
  <2>6. QED  BY <2>5 DEF Maker!Next
<1>2. CASE HearRef(c)
  <2>1. Maker(c)!Evaluate(orders[c])
    BY <1>2, MakerEvaluates DEF HearRef
  <2>2. fills'[c] = {} /\ UNCHANGED <<now, position[c]>>
    BY <1>0, <1>2 DEF HearRef
  <2>3. Maker(c)!HearRef
    BY <2>1, <2>2 DEF Maker!HearRef
  <2>4. QED  BY <2>3 DEF Maker!Next
<1>3. CASE HearDepth(c)
  <2>1. PICK t \in Maker(c)!BlockTimes, depth \in Depths :
            /\ orders' = [orders EXCEPT ![c] = AfterDepth(orders[c], t, depth)]
            /\ fills' = [fills EXCEPT ![c] = {}]
            /\ UNCHANGED <<now, lastEval, current, position>>
    BY <1>3 DEF HearDepth
  <2>2. orders'[c] = Maker(c)!AfterDepth(orders[c], t, depth)
    BY <1>0, <2>1, MakersMessages
  <2>3. fills'[c] = {} /\ UNCHANGED <<now, lastEval[c], current[c], position[c]>>
    BY <1>0, <2>1
  <2>4. Maker(c)!HearDepth
    BY <2>2, <2>3 DEF Maker!HearDepth
  <2>5. QED  BY <2>4 DEF Maker!Next
<1>4. CASE HearTrade(c)
  <2>1. PICK t \in Maker(c)!BlockTimes, trade \in Trades, seen \in Maker(c)!SeenSizes :
            /\ fills' = [fills EXCEPT ![c] = FillsOf(orders[c], t, trade, seen)]
            /\ orders' = [orders EXCEPT ![c] = AfterTrade(orders[c], t, trade, seen)]
            /\ position' = [position EXCEPT ![c] = position[c] + Bought(fills'[c])]
            /\ UNCHANGED <<now, lastEval, current>>
    BY <1>4 DEF HearTrade
  <2>2. /\ fills'[c] = Maker(c)!FillsOf(orders[c], t, trade, seen)
        /\ orders'[c] = Maker(c)!AfterTrade(orders[c], t, trade, seen)
    BY <1>0, <2>1, MakersMessages
  <2>3. position'[c] = position[c] + Maker(c)!Bought(fills'[c])
    BY <1>0, <2>1, MakersBought
  <2>4. UNCHANGED <<now, lastEval[c], current[c]>>
    BY <2>1
  <2>5. Maker(c)!HearTrade
    BY <2>2, <2>3, <2>4 DEF Maker!HearTrade
  <2>6. QED  BY <2>5 DEF Maker!Next
<1>5. QED  BY <1>1, <1>2, <1>3, <1>4

\* Each coin of the desk is a maker whose rooms the other coins choose
\* (Engine.evaluate, Engine.room): what PaperMakerProofs shows of a maker for
\* every room holds of it.
THEOREM DeskOfMakers == Spec => CoinsAreMakers
<1>1. Init => \A c \in Coin : Maker(c)!Init
  <2> SUFFICES ASSUME Init, NEW c \in Coin PROVE Maker(c)!Init
    OBVIOUS
  <2>1. /\ now = 0 /\ lastEval[c] = 0 /\ orders[c] = [n \in {} |-> None]
        /\ current[c] = [s \in Side |-> None] /\ position[c] = 0 /\ fills[c] = {}
    BY DEF Init
  <2>2. QED  BY <2>1 DEF Maker!Init, Maker!Side, Side
<1>2. DeskInv /\ [Next]_vars =>
        [\A c \in Coin : Maker(c)!Next \/ UNCHANGED Maker(c)!vars]_vars
  <2> SUFFICES ASSUME DeskInv, Next, NEW c \in Coin
               PROVE  Maker(c)!Next \/ UNCHANGED Maker(c)!vars
    OBVIOUS
  <2>1. ASSUME NEW d \in Coin, HearTop(d) \/ HearRef(d) \/ HearDepth(d) \/ HearTrade(d)
        PROVE  Maker(c)!Next \/ UNCHANGED Maker(c)!vars
    <3>1. CASE d = c
      BY <2>1, <3>1, MakerHears
    <3>2. CASE d # c
      <4>1. Alone(d)
        BY <2>1, CoinHears DEF CoinMoves
      <4>2. QED  BY <3>2, <4>1 DEF Alone, Maker!vars, Maker!maker
    <3>3. QED  BY <3>1, <3>2
  <2>2. CASE Wait
    <3>1. Maker(c)!Wait
      BY <2>2 DEF Wait, coins, Maker!Wait, Maker!maker
    <3>2. QED  BY <3>1 DEF Maker!Next
  <2>3. QED  BY <2>1, <2>2 DEF Next
<1>3. QED  BY <1>1, <1>2, DeskInvAlways, PTL DEF Spec, CoinsAreMakers
=============================================================================
