--------------------------- MODULE BatchEngineProofs ---------------------------
(***************************************************************************)
(* First the book by itself, called in any way: its type, and the order of *)
(* its queues, by lemmas about its three changes.  And its promise: what   *)
(* price-time priority assigns is read off a book, its queues and a taker, *)
(* and each turn of the loop leaves that result alone.  A maker that gives *)
(* all it has leaves to each other maker what it would have been left      *)
(* (OffLeft, OffMet), so the rest of the loop is the take of a smaller     *)
(* taker on a smaller book; one that gives less is the last (PartMet); and *)
(* the maker in turn is the first on its list of the report (FirstInTurn). *)
(*                                                                         *)
(* Then, for every menu of actions and every batch: the engine keeps the   *)
(* book well typed, its queues in order and its sides apart, and a cancel  *)
(* beats every taker of its batch.                                         *)
(*                                                                         *)
(* The strengthening says where a batch stands: the taker in hand is the   *)
(* action whose turn it is and is not on the book itself; no taker has     *)
(* rested before its turn, so a "Resting" status is never overwritten; and *)
(* an order a cancel named is gone once that cancel had its turn, unless a *)
(* later taker of the batch rested under the same id.                      *)
(*                                                                         *)
(* The report accounts for every lot.  Of the makers (ReportInv): an       *)
(* action that waits for its turn has the status the buffers are reset to, *)
(* so each report adds its lots to the sums once, and each turn of the     *)
(* matching loop adds a fill of what its maker loses.  Of the takers       *)
(* (TakerInv): the fills that name an action are the lots of its status;   *)
(* those of the taker in hand, which has none yet, are what it has taken.  *)
(***************************************************************************)
EXTENDS BatchEngine, OrderBookPromise, Sums

-----------------------------------------------------------------------------
(* The book. *)

LEMMA KeyInt ==
    ASSUME NEW side, NEW tick \in Tick
    PROVE  Key(side, tick) \in Int
BY BookAssumption DEF Key

\* An order put at the back of its level keeps the book well typed.
LEMMA InsertType ==
    ASSUME BookType, NEW oid \in Oid, NEW order \in Order, Insert(oid, order)
    PROVE  BookType'
<1>1. Live' = Live \cup {oid} /\ resting' \in [Live' -> Order]
  BY DEF Insert, BookType, Live
<1>2. ahead' \subseteq Oid \X Oid
  BY DEF Insert, BookType, AtLevel, OnSide
<1>3. QED  BY <1>1, <1>2 DEF BookType

\* So does taking one off.
LEMMA WithdrawType ==
    ASSUME BookType, NEW oid \in Live, Withdraw(oid)
    PROVE  BookType'
<1>1. Live' = Live \ {oid} /\ resting' \in [Live' -> Order]
  BY DEF Withdraw, BookType, Live
<1>2. ahead' \subseteq Oid \X Oid
  BY DEF Withdraw, BookType
<1>3. QED  BY <1>1, <1>2 DEF BookType

\* And so does leaving one fewer lots.
LEMMA ShrinkType ==
    ASSUME BookType, NEW oid \in Live, NEW lots \in Lots, Shrink(oid, lots)
    PROVE  BookType'
<1>1. Live' = Live
  BY DEF Shrink, BookType, Live
<1>2. [resting[oid] EXCEPT !.lots = lots] \in Order
  BY DEF BookType, Order
<1>3. QED  BY <1>1, <1>2 DEF Shrink, BookType

-----------------------------------------------------------------------------

\* An order inserted at the back of its level keeps the queues queues.
LEMMA InsertQueue ==
    ASSUME BookType, QueueOrder, NEW oid \in Oid \ Live, NEW order \in Order,
           Insert(oid, order)
    PROVE  QueueOrder'
<1>1. Live' = Live \cup {oid}
  BY DEF Insert, Live
<1>2. \A o \in Live' : resting'[o] = IF o = oid THEN order ELSE resting[o]
  BY <1>1 DEF Insert, Live
<1>3. \A o, p \in Oid : <<o, p>> \in ahead' <=>
          \/ <<o, p>> \in ahead
          \/ p = oid /\ o \in Live /\ resting[o].side = order.side
                     /\ resting[o].tick = order.tick
  BY DEF Insert, AtLevel, OnSide
<1>4. \A o, p \in Oid : <<o, p>> \in ahead => o # oid /\ p # oid
  BY DEF QueueOrder, QueuesAreLevels
<1>5. QueuesAreLevels'
  BY <1>1, <1>2, <1>3 DEF QueueOrder, QueuesAreLevels, BookType
<1>6. QueuesAreTotal'
  BY <1>1, <1>2, <1>3, <1>4 DEF QueueOrder, QueuesAreTotal, BookType
<1>7. QueuesAreTransitive'
  BY <1>3, <1>4 DEF QueueOrder, QueuesAreTransitive, QueuesAreLevels
<1>8. QED  BY <1>5, <1>6, <1>7 DEF QueueOrder

\* An order taken off, from the head, the middle or the tail, closes the gap.
LEMMA WithdrawQueue ==
    ASSUME BookType, QueueOrder, NEW oid \in Live, Withdraw(oid)
    PROVE  QueueOrder'
<1>1. Live' = Live \ {oid} /\ \A o \in Live' : resting'[o] = resting[o]
  BY DEF Withdraw, Live
<1>2. \A o, p : <<o, p>> \in ahead' <=> <<o, p>> \in ahead /\ o # oid /\ p # oid
  BY DEF Withdraw
<1>3. QueuesAreLevels'
  BY <1>1, <1>2 DEF QueueOrder, QueuesAreLevels
<1>4. QueuesAreTotal'
  BY <1>1, <1>2 DEF QueueOrder, QueuesAreTotal
<1>5. QueuesAreTransitive'
  BY <1>2 DEF QueueOrder, QueuesAreTransitive
<1>6. QED  BY <1>3, <1>4, <1>5 DEF QueueOrder

\* A smaller order stays where it is.
LEMMA ShrinkQueue ==
    ASSUME BookType, QueueOrder, NEW oid \in Live, NEW lots \in Lots,
           Shrink(oid, lots)
    PROVE  QueueOrder'
<1>1. Live' = Live /\ ahead' = ahead
  BY DEF Shrink, BookType, Live
<1>2. \A o \in Live : /\ resting'[o].side = resting[o].side
                      /\ resting'[o].tick = resting[o].tick
  BY DEF Shrink, BookType, Live, Order
<1>3. QED
  BY <1>1, <1>2 DEF QueueOrder, QueuesAreLevels, QueuesAreTotal, QueuesAreTransitive

-----------------------------------------------------------------------------

\* One turn of the matching loop keeps the book and the call well typed and
\* the queues in order.
LEMMA MeetInv ==
    ASSUME TypeOK, QueueOrder, NEW o \in Live, Meet(o)
    PROVE  TypeOK' /\ QueueOrder'
<1> USE DEF TypeOK
<1>1. taker \in Taker /\ o \in Oid /\ resting[o] \in Order /\ resting[o].lots \in Lots
  BY DEF Meet, ExpireOwn, FillWhole, FillPart, Reaches, CallType, BookType, Order
<1>2. CASE ExpireOwn(o)
  <2>1. BookType' /\ QueueOrder'
    BY <1>2, WithdrawType, WithdrawQueue DEF ExpireOwn
  <2>2. CallType'
    BY <1>1, <1>2 DEF ExpireOwn, CallType
  <2>3. QED  BY <2>1, <2>2
<1>3. CASE FillWhole(o)
  <2>1. BookType' /\ QueueOrder'
    BY <1>3, WithdrawType, WithdrawQueue DEF FillWhole
  <2>2. FillOf(o, resting[o].lots) \in Fill
    BY <1>1 DEF FillOf, Fill, Order, Taker
  <2>3. taker' \in Taker
    BY <1>1, <1>3, BookAssumption DEF FillWhole, Taker, Lots
  <2>4. QED  BY <1>3, <2>1, <2>2, <2>3 DEF FillWhole, CallType
<1>4. CASE FillPart(o)
  <2>1. taker.left \in Lots /\ resting[o].lots - taker.left \in Lots
    BY <1>1, <1>4, BookAssumption DEF FillPart, Reaches, Taker, Lots
  <2>2. BookType' /\ QueueOrder'
    BY <1>4, <2>1, ShrinkType, ShrinkQueue DEF FillPart
  <2>3. FillOf(o, taker.left) \in Fill
    BY <1>1, <2>1 DEF FillOf, Fill, Order, Taker
  <2>4. taker' \in Taker
    BY <1>1, <1>4, BookAssumption DEF FillPart, Taker
  <2>5. QED  BY <1>4, <2>2, <2>3, <2>4 DEF FillPart, CallType
<1>5. QED  BY <1>2, <1>3, <1>4 DEF Meet

BookInv == TypeOK /\ QueueOrder

LEMMA BookInvStep == BookInv /\ [Next]_vars => BookInv'
<1> SUFFICES ASSUME BookInv, [Next]_vars PROVE BookInv'
  OBVIOUS
<1> USE DEF BookInv
<1>1. ASSUME NEW oid \in Oid, NEW order \in Order, Add(oid, order) PROVE BookInv'
  <2>1. BookType' /\ QueueOrder'
    BY <1>1, InsertType, InsertQueue DEF Add, TypeOK
  <2>2. CallType'
    BY <1>1 DEF Add, TypeOK, CallType, matched
  <2>3. QED  BY <2>1, <2>2 DEF TypeOK
<1>2. ASSUME NEW oid \in Oid, Cancel(oid) PROVE BookInv'
  <2>1. BookType' /\ QueueOrder'
    BY <1>2, WithdrawType, WithdrawQueue DEF Cancel, TypeOK
  <2>2. CallType'
    BY <1>2 DEF Cancel, TypeOK, CallType, matched
  <2>3. QED  BY <2>1, <2>2 DEF TypeOK
<1>3. ASSUME NEW oid \in Oid, NEW lots \in 0 .. MaxLots, Reduce(oid, lots)
      PROVE  BookInv'
  <2>1. oid \in Live /\ (lots = 0 \/ lots \in Lots)
    BY <1>3, BookAssumption DEF Reduce, Lots
  <2>2. BookType' /\ QueueOrder'
    BY <1>3, <2>1, WithdrawType, WithdrawQueue, ShrinkType, ShrinkQueue
       DEF Reduce, TypeOK
  <2>3. CallType'
    BY <1>3 DEF Reduce, TypeOK, CallType, matched
  <2>4. QED  BY <2>2, <2>3 DEF TypeOK
<1>4. ASSUME NEW oid \in Oid, NEW user \in User, NEW side \in Side,
             NEW limit \in Tick, NEW lots \in Lots, NEW stp \in Stp,
             Take(oid, user, side, limit, lots, stp)
      PROVE  BookInv'
  <2>1. taker' \in Taker
    BY <1>4, BookAssumption DEF Take, StartTake, Taker, Lots
  <2>2. QED
    BY <1>4, <2>1 DEF Take, StartTake, TypeOK, CallType, BookType, QueueOrder,
       QueuesAreLevels, QueuesAreTotal, QueuesAreTransitive, Live, book
<1>5. ASSUME NEW o \in Live, Meet(o) PROVE BookInv'
  BY <1>5, MeetInv
<1>6. CASE Return
  BY <1>6 DEF Return, TypeOK, CallType, BookType, QueueOrder,
     QueuesAreLevels, QueuesAreTotal, QueuesAreTransitive, Live, book
<1>7. CASE UNCHANGED vars
  BY <1>7 DEF vars, TypeOK, CallType, BookType, QueueOrder,
     QueuesAreLevels, QueuesAreTotal, QueuesAreTransitive, Live
<1>8. QED  BY <1>1, <1>2, <1>3, <1>4, <1>5, <1>6, <1>7 DEF Next

LEMMA BookInvInit == Init => BookInv
BY DEF Init, BookInv, TypeOK, BookType, CallType, Live, QueueOrder,
   QueuesAreLevels, QueuesAreTotal, QueuesAreTransitive

\* Sizes stay positive, and neither a maker nor a taker is overdrawn, for any
\* number of orders and any sizes (book.rs:238-295).
THEOREM BookTypeCorrect == Spec => []TypeOK
BY BookInvInit, BookInvStep, PTL DEF Spec, BookInv

\* Every level stays a queue through any sequence of additions, cancels from
\* the middle, reductions in place and matching.
THEOREM QueuesStayOrdered == Spec => []QueueOrder
BY BookInvInit, BookInvStep, PTL DEF Spec, BookInv

-----------------------------------------------------------------------------

\* The step of PositionsKept.
PlacesKept ==
    \A o, p \in Live : (o \in Live' /\ p \in Live') =>
        (<<o, p>> \in ahead' <=> <<o, p>> \in ahead)

\* An order that is added, taken off or made smaller moves no other.
LEMMA ChangesKeepPlaces ==
    ASSUME NEW oid, NEW order, NEW lots,
           (oid \notin Live /\ Insert(oid, order)) \/ Withdraw(oid) \/ Shrink(oid, lots)
    PROVE  PlacesKept
<1>1. CASE oid \notin Live /\ Insert(oid, order)
  BY <1>1 DEF Insert, PlacesKept
<1>2. CASE Withdraw(oid)
  <2>1. oid \notin Live'
    BY <1>2 DEF Withdraw, Live
  <2>2. QED  BY <1>2, <2>1 DEF Withdraw, PlacesKept
<1>3. CASE Shrink(oid, lots)
  BY <1>3 DEF Shrink, PlacesKept
<1>4. QED  BY <1>1, <1>2, <1>3

\* No order gains a place from one that stays, by any call and inside any take,
\* on any book.
THEOREM PlacesAreKept == Spec => PositionsKept
<1>1. [Next]_vars => PlacesKept
  <2> SUFFICES ASSUME [Next]_vars PROVE PlacesKept
    OBVIOUS
  <2>1. ASSUME NEW oid, NEW order, Add(oid, order) PROVE PlacesKept
    BY <2>1, ChangesKeepPlaces DEF Add
  <2>2. ASSUME NEW oid, Cancel(oid) PROVE PlacesKept
    BY <2>2, ChangesKeepPlaces DEF Cancel
  <2>3. ASSUME NEW oid, NEW lots, Reduce(oid, lots) PROVE PlacesKept
    BY <2>3, ChangesKeepPlaces DEF Reduce
  <2>4. ASSUME NEW o, Meet(o) PROVE PlacesKept
    BY <2>4, ChangesKeepPlaces DEF Meet, ExpireOwn, FillWhole, FillPart
  <2>5. CASE UNCHANGED book
    BY <2>5 DEF book, PlacesKept
  <2>6. QED
    BY <2>1, <2>2, <2>3, <2>4, <2>5 DEF Next, Take, StartTake, Return, vars, book
<1>2. QED  BY <1>1, PTL DEF Spec, PositionsKept, PlacesKept

-----------------------------------------------------------------------------
(* Price-time priority, of any book, queue and taker. *)

\* A book and its queues.
Sound(bk, q) ==
    /\ IsFiniteSet(DOMAIN bk)
    /\ bk \in [DOMAIN bk -> Order]
    /\ q \subseteq (DOMAIN bk) \X (DOMAIN bk)
    /\ \A o, p \in DOMAIN bk : <<o, p>> \in q =>
            o # p /\ bk[o].side = bk[p].side /\ bk[o].tick = bk[p].tick
    /\ \A o, p \in DOMAIN bk :
            (o # p /\ bk[o].side = bk[p].side /\ bk[o].tick = bk[p].tick)
            => (<<o, p>> \in q <=> <<p, o>> \notin q)
    /\ \A o, p, r \in DOMAIN bk :
            (<<o, p>> \in q /\ <<p, r>> \in q) => <<o, r>> \in q

\* o is the maker that tk reaches.
Reached(bk, q, tk, o) ==
    /\ tk \in Taker /\ tk.left > 0
    /\ o \in Settled!Eligible(bk, tk)
    /\ \A p \in DOMAIN bk \ {o} : bk[p].side = bk[o].side =>
            Key(bk[p].side, bk[p].tick) < Key(bk[o].side, bk[o].tick) \/ <<o, p>> \in q

\* What stands before o, and counts.
Before(bk, q, tk, o) ==
    {p \in Settled!Eligible(bk, tk) :
        Settled!Precedes(bk, q, p, o) /\ ~Settled!Own(bk, tk, p)}

Sizes(bk) == [p \in DOMAIN bk |-> bk[p].lots]

\* The orders of a book have sizes and prices.
LEMMA RestingOrder ==
    ASSUME NEW bk, NEW q, Sound(bk, q), NEW o \in DOMAIN bk
    PROVE  /\ bk[o] \in Order
           /\ bk[o].lots \in Nat /\ bk[o].lots \in Int /\ bk[o].lots > 0
           /\ Key(bk[o].side, bk[o].tick) \in Int
           /\ <<o, o>> \notin q
<1>1. bk[o] \in Order
  BY DEF Sound
<1>2. QED  BY <1>1, KeyInt, BookAssumption DEF Sound, Order, Lots

\* A taker meets orders of the other side.
LEMMA EligibleRest ==
    ASSUME NEW bk, NEW tk
    PROVE  /\ Settled!Eligible(bk, tk) \subseteq DOMAIN bk
           /\ \A o \in Settled!Eligible(bk, tk) : bk[o].side = Opposite(tk.side)
BY DEF Settled!Eligible, Settled!Opposite, Opposite

\* The sum that the promise takes is the sum of the sizes.
LEMMA LeftIs ==
    ASSUME NEW bk, NEW q, Sound(bk, q), NEW tk, NEW o
    PROVE  Settled!LeftAt(bk, q, tk, o) = tk.left - SumOver(Sizes(bk), Before(bk, q, tk, o))
<1> DEFINE T == Before(bk, q, tk, o)
           F == Sizes(bk)
<1>1. T \subseteq DOMAIN bk
  BY EligibleRest DEF Before
<1>2. \A p \in T : F[p] = bk[p].lots
  BY <1>1 DEF Sizes
<1>4. IsFiniteSet(T) /\ \A p \in T : F[p] \in Int
  <2>1. IsFiniteSet(T)
    BY <1>1, FS_Subset DEF Sound
  <2>2. \A p \in T : bk[p].lots \in Nat
    BY <1>1, RestingOrder
  <2>3. QED  BY <1>2, <2>1, <2>2
<1>5. PICK g : SumsOf(g, F, T)
  BY <1>4, SumsExist
<1>6. SumOver(F, T) = g[T]
  BY <1>4, <1>5, SumOverIs
<1> DEFINE Adds(j) == j = [s \in SUBSET T |->
                            IF s = {} THEN 0
                            ELSE LET x == CHOOSE x \in s : TRUE IN bk[x].lots + j[s \ {x}]]
           j1 == CHOOSE j : Adds(j)
<1>7. Settled!LeftAt(bk, q, tk, o) = tk.left - j1[T]
  BY DEF Settled!LeftAt, Settled!MapThenSumSet, Settled!MapThenFoldSet, Before
<1>8. \A j : Adds(j) <=> SumsOf(j, F, T)
  BY <1>2 DEF SumsOf, Some
<1>9. SumsOf(j1, F, T)
  <2> HIDE DEF Adds, T, F
  <2>1. QED  BY <1>5, <1>8
<1>10. SumOver(F, T) = j1[T]
  <2> HIDE DEF j1, T, F
  <2>1. QED  BY <1>4, <1>9, SumOverIs
<1>11. QED  BY <1>7, <1>10

\* The maker in turn comes before all others, and none before it.
LEMMA TurnFirst ==
    ASSUME NEW bk, NEW q, Sound(bk, q), NEW tk, NEW o, Reached(bk, q, tk, o)
    PROVE  /\ o \in DOMAIN bk
           /\ \A p \in Settled!Eligible(bk, tk) \ {o} :
                 Settled!Precedes(bk, q, o, p) /\ ~Settled!Precedes(bk, q, p, o)
           /\ ~Settled!Precedes(bk, q, o, o)
<1>1. o \in DOMAIN bk
  BY EligibleRest DEF Reached
<1>2. ~Settled!Precedes(bk, q, o, o)
  BY <1>1, RestingOrder DEF Settled!Precedes, Settled!Key, Key
<1>3. ASSUME NEW p \in Settled!Eligible(bk, tk) \ {o}
      PROVE  Settled!Precedes(bk, q, o, p) /\ ~Settled!Precedes(bk, q, p, o)
  <2>1. p \in DOMAIN bk /\ bk[p].side = bk[o].side
    BY EligibleRest DEF Reached
  <2>2. Key(bk[p].side, bk[p].tick) < Key(bk[o].side, bk[o].tick) \/ <<o, p>> \in q
    BY <2>1 DEF Reached
  <2>3. Key(bk[p].side, bk[p].tick) \in Int /\ Key(bk[o].side, bk[o].tick) \in Int
    BY <1>1, <2>1, RestingOrder
  <2>4. <<o, p>> \in q => <<p, o>> \notin q /\ bk[o].tick = bk[p].tick
    BY <1>1, <2>1 DEF Sound
  <2>5. <<p, o>> \in q => bk[o].tick = bk[p].tick
    BY <1>1, <2>1 DEF Sound
  <2>6. QED
    BY <2>1, <2>2, <2>3, <2>4, <2>5 DEF Settled!Precedes, Settled!Key, Key
<1>4. QED  BY <1>1, <1>2, <1>3

\* All of the taker is left when its turn comes to the first.
LEMMA FirstLeft ==
    ASSUME NEW bk, NEW q, Sound(bk, q), NEW tk, NEW o, Reached(bk, q, tk, o)
    PROVE  Settled!LeftAt(bk, q, tk, o) = tk.left
<1>1. Before(bk, q, tk, o) = {}
  BY TurnFirst DEF Before
<1>2. SumOver(Sizes(bk), {}) = 0
  BY FS_EmptySet, SumOverTake DEF SumTakes
<1>3. tk.left \in Int
  BY BookAssumption DEF Reached, Taker
<1>4. QED  BY <1>1, <1>2, <1>3, LeftIs

\* What stands before an order counts for a natural number of lots.
LEMMA BeforeSum ==
    ASSUME NEW bk, NEW q, Sound(bk, q), NEW tk, NEW o
    PROVE  /\ IsFiniteSet(Before(bk, q, tk, o))
           /\ \A p \in Before(bk, q, tk, o) :
                 Sizes(bk)[p] \in Nat /\ Sizes(bk)[p] = bk[p].lots /\ Sizes(bk)[p] > 0
           /\ SumOver(Sizes(bk), Before(bk, q, tk, o)) \in Nat
<1> DEFINE T == Before(bk, q, tk, o)
           F == Sizes(bk)
<1>1. T \subseteq DOMAIN bk
  BY EligibleRest DEF Before
<1>2. \A p \in T : F[p] \in Nat /\ F[p] = bk[p].lots /\ F[p] > 0
  BY <1>1, RestingOrder DEF Sizes
<1>3. IsFiniteSet(T)
  BY <1>1, FS_Subset DEF Sound
<1>4. SumOver(F, T) \in Int /\ SumOver(F, {}) = 0
  BY <1>2, <1>3, FS_EmptySet, SumOverTake DEF SumTakes
<1>5. SumOver(F, {}) <= SumOver(F, T)
  BY <1>2, <1>3, SumMono
<1>6. QED  BY <1>2, <1>3, <1>4, <1>5

-----------------------------------------------------------------------------
(* A maker that leaves the book in its turn. *)

\* The book, the queues and the taker that o leaves behind.
Off(bk, o) == [p \in DOMAIN bk \ {o} |-> bk[p]]
Unlinked(q, o) == {pair \in q : pair[1] # o /\ pair[2] # o}
RestOf(bk, tk, o) ==
    [tk EXCEPT !.left = @ - (IF Settled!Own(bk, tk, o) THEN 0 ELSE bk[o].lots)]

\* The turn of a maker that gives all it has.
WholeTurn(bk, q, tk, o) ==
    /\ Sound(bk, q) /\ Reached(bk, q, tk, o)
    /\ Settled!Own(bk, tk, o) \/ bk[o].lots <= tk.left

\* What is left is a book and its queues.
LEMMA OffSound ==
    ASSUME NEW bk, NEW q, Sound(bk, q), NEW o
    PROVE  /\ Sound(Off(bk, o), Unlinked(q, o))
           /\ DOMAIN Off(bk, o) = DOMAIN bk \ {o}
           /\ \A p \in DOMAIN bk \ {o} : Off(bk, o)[p] = bk[p]
           /\ \A p, r \in DOMAIN bk \ {o} : <<p, r>> \in Unlinked(q, o) <=> <<p, r>> \in q
<1>1. DOMAIN Off(bk, o) = DOMAIN bk \ {o} /\ \A p \in DOMAIN bk \ {o} : Off(bk, o)[p] = bk[p]
  BY DEF Off
<1>2. IsFiniteSet(DOMAIN bk \ {o})
  BY FS_Subset DEF Sound
<1>3. Off(bk, o) \in [DOMAIN bk \ {o} -> Order]
  BY DEF Off, Sound
<1>4. \A p, r \in DOMAIN bk \ {o} : <<p, r>> \in Unlinked(q, o) <=> <<p, r>> \in q
  BY DEF Unlinked
<1>5. Unlinked(q, o) \subseteq (DOMAIN bk \ {o}) \X (DOMAIN bk \ {o})
  <2>1. q \subseteq (DOMAIN bk) \X (DOMAIN bk)
    BY DEF Sound
  <2> DEFINE D == DOMAIN bk
  <2> HIDE DEF D
  <2>2. q \subseteq D \X D
    BY <2>1 DEF D
  <2>3. Unlinked(q, o) \subseteq (D \ {o}) \X (D \ {o})
    BY <2>2 DEF Unlinked
  <2>4. QED  BY <2>3 DEF D
<1>6. \A a, p \in DOMAIN bk \ {o} : <<a, p>> \in Unlinked(q, o) =>
            a # p /\ Off(bk, o)[a].side = Off(bk, o)[p].side
                  /\ Off(bk, o)[a].tick = Off(bk, o)[p].tick
  BY <1>1, <1>4 DEF Sound
<1>7. \A a, p \in DOMAIN bk \ {o} :
            (a # p /\ Off(bk, o)[a].side = Off(bk, o)[p].side
                   /\ Off(bk, o)[a].tick = Off(bk, o)[p].tick)
            => (<<a, p>> \in Unlinked(q, o) <=> <<p, a>> \notin Unlinked(q, o))
  BY <1>1, <1>4 DEF Sound
<1>8. \A a, p, r \in DOMAIN bk \ {o} :
            (<<a, p>> \in Unlinked(q, o) /\ <<p, r>> \in Unlinked(q, o))
            => <<a, r>> \in Unlinked(q, o)
  BY <1>4 DEF Sound
<1>9. Sound(Off(bk, o), Unlinked(q, o))
  <2> DEFINE b == Off(bk, o)
             u == Unlinked(q, o)
             D == DOMAIN bk \ {o}
  <2> HIDE DEF b, u, D
  <2>1. DOMAIN b = D
    BY <1>1 DEF b, D
  <2>2. IsFiniteSet(D) /\ b \in [D -> Order] /\ u \subseteq D \X D
    BY <1>2, <1>3, <1>5 DEF b, u, D
  <2>3. /\ \A a, p \in D : <<a, p>> \in u =>
                a # p /\ b[a].side = b[p].side /\ b[a].tick = b[p].tick
        /\ \A a, p \in D : (a # p /\ b[a].side = b[p].side /\ b[a].tick = b[p].tick)
                => (<<a, p>> \in u <=> <<p, a>> \notin u)
        /\ \A a, p, r \in D : (<<a, p>> \in u /\ <<p, r>> \in u) => <<a, r>> \in u
    BY <1>6, <1>7, <1>8 DEF b, u, D
  <2>4. Sound(b, u)
    BY <2>1, <2>2, <2>3 DEF Sound
  <2>5. QED  BY <2>4 DEF b, u
<1>10. QED  BY <1>1, <1>4, <1>9

\* What the others are is as it was.
LEMMA OffOthers ==
    ASSUME NEW bk, NEW q, NEW tk, NEW o, WholeTurn(bk, q, tk, o)
    PROVE  LET bk2 == Off(bk, o)
               q2 == Unlinked(q, o)
               tk2 == RestOf(bk, tk, o)
           IN  /\ tk2.side = tk.side /\ tk2.oid = tk.oid
               /\ Settled!Eligible(bk2, tk2) = Settled!Eligible(bk, tk) \ {o}
               /\ \A p, r \in Settled!Eligible(bk, tk) \ {o} :
                    Settled!Precedes(bk2, q2, p, r) <=> Settled!Precedes(bk, q, p, r)
               /\ \A p \in Settled!Eligible(bk, tk) \ {o} :
                    Settled!Own(bk2, tk2, p) <=> Settled!Own(bk, tk, p)
<1> DEFINE bk2 == Off(bk, o)
           q2 == Unlinked(q, o)
           tk2 == RestOf(bk, tk, o)
<1>1. /\ DOMAIN bk2 = DOMAIN bk \ {o} /\ \A p \in DOMAIN bk \ {o} : bk2[p] = bk[p]
      /\ \A p, r \in DOMAIN bk \ {o} : <<p, r>> \in q2 <=> <<p, r>> \in q
  BY OffSound DEF WholeTurn
<1>2. /\ tk2.side = tk.side /\ tk2.limit = tk.limit /\ tk2.user = tk.user
      /\ tk2.stp = tk.stp /\ tk2.oid = tk.oid
  BY DEF RestOf, WholeTurn, Reached, Taker
<1> HIDE DEF bk2, q2, tk2
<1>3. Settled!Eligible(bk2, tk2) = Settled!Eligible(bk, tk) \ {o}
  BY <1>1, <1>2 DEF Settled!Eligible
<1>4. \A p, r \in Settled!Eligible(bk, tk) \ {o} :
        Settled!Precedes(bk2, q2, p, r) <=> Settled!Precedes(bk, q, p, r)
  BY <1>1, EligibleRest DEF Settled!Precedes
<1>5. \A p \in Settled!Eligible(bk, tk) \ {o} :
        Settled!Own(bk2, tk2, p) <=> Settled!Own(bk, tk, p)
  BY <1>1, <1>2, EligibleRest DEF Settled!Own
<1>6. QED  BY <1>2, <1>3, <1>4, <1>5 DEF bk2, q2, tk2

\* Each of the others is left what it would have been.
LEMMA OffLeft ==
    ASSUME NEW bk, NEW q, NEW tk, NEW o, WholeTurn(bk, q, tk, o),
           NEW p \in Settled!Eligible(bk, tk) \ {o}
    PROVE  /\ Settled!LeftAt(Off(bk, o), Unlinked(q, o), RestOf(bk, tk, o), p)
                = Settled!LeftAt(bk, q, tk, p)
           /\ Settled!LeftAt(bk, q, tk, p) \in Int
<1> DEFINE bk2 == Off(bk, o)
           q2 == Unlinked(q, o)
           tk2 == RestOf(bk, tk, o)
           T == Before(bk, q, tk, p)
           T2 == Before(bk2, q2, tk2, p)
<1>1. /\ Sound(bk2, q2) /\ Sound(bk, q)
      /\ DOMAIN bk2 = DOMAIN bk \ {o} /\ \A r \in DOMAIN bk \ {o} : bk2[r] = bk[r]
  BY OffSound DEF WholeTurn
<1>2. /\ Settled!Eligible(bk2, tk2) = Settled!Eligible(bk, tk) \ {o}
      /\ \A r \in Settled!Eligible(bk, tk) \ {o} :
            /\ Settled!Precedes(bk2, q2, r, p) <=> Settled!Precedes(bk, q, r, p)
            /\ Settled!Own(bk2, tk2, r) <=> Settled!Own(bk, tk, r)
  BY OffOthers
<1>3. o \in DOMAIN bk /\ Settled!Precedes(bk, q, o, p) /\ o \in Settled!Eligible(bk, tk)
  BY TurnFirst DEF WholeTurn, Reached
<1>4. tk.left \in Int /\ bk[o].lots \in Int
  <2>1. tk.left \in Int
    BY BookAssumption DEF WholeTurn, Reached, Taker
  <2>2. Sound(bk, q)
    BY DEF WholeTurn
  <2>3. QED  BY <1>3, <2>1, <2>2, RestingOrder
<1>5. tk2.left = tk.left - (IF Settled!Own(bk, tk, o) THEN 0 ELSE bk[o].lots)
  BY DEF RestOf, WholeTurn, Reached, Taker
<1> HIDE DEF bk2, q2, tk2
<1>6. T2 = T \ {o} /\ (o \in T <=> ~Settled!Own(bk, tk, o))
  BY <1>2, <1>3 DEF Before
<1>7. T \subseteq DOMAIN bk
  BY EligibleRest DEF Before
<1>8. /\ IsFiniteSet(T) /\ \A r \in T : Sizes(bk)[r] \in Int /\ Sizes(bk)[r] = bk[r].lots
      /\ SumOver(Sizes(bk), T) \in Int
  BY <1>1, BeforeSum
<1>9. IsFiniteSet(T2) /\ \A r \in T2 : Sizes(bk2)[r] = bk[r].lots
  <2>1. IsFiniteSet(T2)
    BY <1>1, BeforeSum
  <2>2. \A r \in T2 : r \in DOMAIN bk2 /\ bk2[r] = bk[r]
    BY <1>1, <1>6, <1>7
  <2>3. QED  BY <2>1, <2>2 DEF Sizes
<1> HIDE DEF T, T2
<1>10. SumOver(Sizes(bk2), T2) = SumOver(Sizes(bk), T2)
  <2>1. \A r \in T2 : Sizes(bk2)[r] \in Int /\ Sizes(bk)[r] = Sizes(bk2)[r]
    BY <1>6, <1>8, <1>9
  <2>2. QED  BY <1>9, <2>1, SumOverSame
<1>11. SumOver(Sizes(bk), T2) = SumOver(Sizes(bk), T)
            - (IF Settled!Own(bk, tk, o) THEN 0 ELSE bk[o].lots)
  <2>1. CASE o \in T
    <3>1. SumOver(Sizes(bk), T) = bk[o].lots + SumOver(Sizes(bk), T \ {o})
      <4>1. SumTakes(Sizes(bk), T)
        BY <1>8, SumOverTake
      <4>2. SumOver(Sizes(bk), T) = Sizes(bk)[o] + SumOver(Sizes(bk), T \ {o})
        BY <2>1, <4>1 DEF SumTakes
      <4>3. QED  BY <1>8, <2>1, <4>2
    <3>2. SumOver(Sizes(bk), T \ {o}) \in Int
      <4>1. IsFiniteSet(T \ {o})
        BY <1>8, FS_Subset
      <4>2. QED  BY <1>8, <4>1, SumOverTake DEF SumTakes
    <3>3. ~Settled!Own(bk, tk, o) /\ T2 = T \ {o}
      BY <1>6, <2>1
    <3> DEFINE whole == SumOver(Sizes(bk), T)
               others == SumOver(Sizes(bk), T \ {o})
               own == Settled!Own(bk, tk, o)
    <3> HIDE DEF whole, others, own
    <3>4. whole = bk[o].lots + others /\ others \in Int /\ ~own
      BY <3>1, <3>2, <3>3 DEF whole, others, own
    <3>5. others = whole - (IF own THEN 0 ELSE bk[o].lots)
      BY <1>4, <3>4
    <3>6. QED  BY <3>3, <3>5 DEF whole, others, own
  <2>2. CASE o \notin T
    <3>1. T2 = T
      BY <1>6, <2>2
    <3>2. Settled!Own(bk, tk, o) /\ SumOver(Sizes(bk), T) \in Int
      BY <1>6, <1>8, <2>2
    <3>3. QED  BY <3>1, <3>2
  <2>3. QED  BY <2>1, <2>2
<1>12. Settled!LeftAt(bk2, q2, tk2, p) = tk2.left - SumOver(Sizes(bk2), T2)
  BY <1>1, LeftIs DEF T2
<1>13. Settled!LeftAt(bk, q, tk, p) = tk.left - SumOver(Sizes(bk), T)
  BY <1>1, LeftIs DEF T
<1>14. Settled!LeftAt(bk2, q2, tk2, p) = Settled!LeftAt(bk, q, tk, p)
  BY <1>4, <1>5, <1>8, <1>10, <1>11, <1>12, <1>13
<1>15. QED  BY <1>4, <1>8, <1>13, <1>14 DEF bk2, q2, tk2

\* The smaller of two.
LEMMA MinOfTwo ==
    ASSUME NEW a \in Int, NEW b \in Int
    PROVE  Settled!Min({a, b}) = IF a <= b THEN a ELSE b
BY DEF Settled!Min

\* The maker in turn gives all it has, and the others what they would have.
LEMMA OffMet ==
    ASSUME NEW bk, NEW q, NEW tk, NEW o, WholeTurn(bk, q, tk, o)
    PROVE  LET bk2 == Off(bk, o)
               q2 == Unlinked(q, o)
               tk2 == RestOf(bk, tk, o)
           IN  /\ o \in Settled!Met(bk, q, tk)
               /\ Settled!Given(bk, q, tk, o) = bk[o].lots
               /\ Settled!Met(bk2, q2, tk2) = Settled!Met(bk, q, tk) \ {o}
               /\ \A p \in Settled!Met(bk, q, tk) \ {o} :
                    Settled!Given(bk2, q2, tk2, p) = Settled!Given(bk, q, tk, p)
<1> DEFINE bk2 == Off(bk, o)
           q2 == Unlinked(q, o)
           tk2 == RestOf(bk, tk, o)
<1>1. Settled!LeftAt(bk, q, tk, o) = tk.left /\ tk.left \in Int /\ tk.left > 0
  BY FirstLeft, BookAssumption DEF WholeTurn, Reached, Taker
<1>2. o \in Settled!Eligible(bk, tk)
  BY DEF WholeTurn, Reached
<1>3. Settled!Given(bk, q, tk, o) = bk[o].lots
  <2>1. bk[o].lots \in Int
    <3>1. Sound(bk, q) /\ o \in DOMAIN bk
      BY TurnFirst DEF WholeTurn
    <3>2. QED  BY <3>1, RestingOrder
  <2>2. QED  BY <1>1, <2>1, MinOfTwo DEF Settled!Given, WholeTurn
<1>4. \A p \in Settled!Eligible(bk, tk) \ {o} :
        /\ Settled!LeftAt(bk2, q2, tk2, p) = Settled!LeftAt(bk, q, tk, p)
        /\ Settled!Own(bk2, tk2, p) <=> Settled!Own(bk, tk, p)
        /\ bk2[p] = bk[p]
  <2>1. ASSUME NEW p \in Settled!Eligible(bk, tk) \ {o} PROVE bk2[p] = bk[p]
    BY EligibleRest DEF Off
  <2>2. QED  BY <2>1, OffLeft, OffOthers
<1>5. Settled!Eligible(bk2, tk2) = Settled!Eligible(bk, tk) \ {o}
  BY OffOthers
<1> HIDE DEF bk2, q2, tk2
<1>6. Settled!Met(bk2, q2, tk2) = Settled!Met(bk, q, tk) \ {o}
  BY <1>4, <1>5 DEF Settled!Met
<1>7. \A p \in Settled!Met(bk, q, tk) \ {o} :
        Settled!Given(bk2, q2, tk2, p) = Settled!Given(bk, q, tk, p)
  BY <1>4 DEF Settled!Met, Settled!Given
<1>8. o \in Settled!Met(bk, q, tk)
  BY <1>1, <1>2 DEF Settled!Met
<1>9. QED  BY <1>3, <1>6, <1>7, <1>8 DEF bk2, q2, tk2

\* So the book and the queues that the take leaves are the same.
LEMMA OffBook ==
    ASSUME NEW bk, NEW q, NEW tk, NEW o, WholeTurn(bk, q, tk, o)
    PROVE  LET bk2 == Off(bk, o)
               q2 == Unlinked(q, o)
               tk2 == RestOf(bk, tk, o)
           IN  /\ Settled!BookAfter(bk2, q2, tk2) = Settled!BookAfter(bk, q, tk)
               /\ Settled!QueueAfter(bk2, q2, tk2) = Settled!QueueAfter(bk, q, tk)
<1> DEFINE bk2 == Off(bk, o)
           q2 == Unlinked(q, o)
           tk2 == RestOf(bk, tk, o)
           met == Settled!Met(bk, q, tk)
           met2 == Settled!Met(bk2, q2, tk2)
           out == {p \in met : Settled!Given(bk, q, tk, p) = bk[p].lots}
           out2 == {p \in met2 : Settled!Given(bk2, q2, tk2, p) = bk2[p].lots}
<1>1. /\ o \in met /\ Settled!Given(bk, q, tk, o) = bk[o].lots
      /\ met2 = met \ {o}
      /\ \A p \in met \ {o} : Settled!Given(bk2, q2, tk2, p) = Settled!Given(bk, q, tk, p)
  BY OffMet
<1>2. /\ DOMAIN bk2 = DOMAIN bk \ {o} /\ \A p \in DOMAIN bk \ {o} : bk2[p] = bk[p]
      /\ \A p, r \in DOMAIN bk \ {o} : <<p, r>> \in q2 <=> <<p, r>> \in q
  BY OffSound DEF WholeTurn
<1>3. met \subseteq DOMAIN bk
  BY EligibleRest DEF Settled!Met
<1>4. Settled!BookAfter(bk, q, tk) =
        [p \in DOMAIN bk \ out |->
            IF p \in met THEN [bk[p] EXCEPT !.lots = @ - Settled!Given(bk, q, tk, p)]
            ELSE bk[p]]
  BY DEF Settled!BookAfter
<1>5. Settled!BookAfter(bk2, q2, tk2) =
        [p \in DOMAIN bk2 \ out2 |->
            IF p \in met2 THEN [bk2[p] EXCEPT !.lots = @ - Settled!Given(bk2, q2, tk2, p)]
            ELSE bk2[p]]
  BY DEF Settled!BookAfter
<1> HIDE DEF bk2, q2, tk2, met, met2
<1>6. DOMAIN bk2 \ out2 = DOMAIN bk \ out
  BY <1>1, <1>2, <1>3
<1>7. \A p \in DOMAIN bk \ out :
        /\ p # o
        /\ bk2[p] = bk[p] /\ (p \in met2 <=> p \in met)
        /\ p \in met => Settled!Given(bk2, q2, tk2, p) = Settled!Given(bk, q, tk, p)
  BY <1>1, <1>2, <1>3
<1> HIDE DEF out, out2
<1>8. Settled!BookAfter(bk2, q2, tk2) = Settled!BookAfter(bk, q, tk)
  BY <1>4, <1>5, <1>6, <1>7
<1>9. DOMAIN Settled!BookAfter(bk, q, tk) \subseteq DOMAIN bk \ {o}
  BY <1>4, <1>7
<1>10. q2 \subseteq q
  BY DEF q2, Unlinked
<1>11. Settled!QueueAfter(bk2, q2, tk2) = Settled!QueueAfter(bk, q, tk)
  <2>1. \A pair \in q : pair[1] \in DOMAIN bk \ {o} /\ pair[2] \in DOMAIN bk \ {o} =>
            pair \in q2
    BY DEF q2, Unlinked
  <2>2. QED  BY <1>8, <1>9, <1>10, <2>1 DEF Settled!QueueAfter
<1>12. QED  BY <1>8, <1>11 DEF bk2, q2, tk2

-----------------------------------------------------------------------------
(* The order of the report. *)

\* One count for both modules.
LEMMA SameCount == \A S : Settled!Cardinality(S) = Cardinality(S)
BY DEF Settled!Cardinality, Settled!IsFiniteSet, Cardinality, IsFiniteSet

\* The place that those before it give an order of S.
Place(bk, q, S, p) == Settled!Cardinality({r \in S : Settled!Precedes(bk, q, r, p)})

\* The turns are a list as long as there are orders.
LEMMA TurnsAreList ==
    ASSUME NEW bk, NEW q, NEW S
    PROVE  Settled!InTurn(bk, q, S) = [i \in 1 .. Cardinality(S) |-> Settled!InTurn(bk, q, S)[i]]
<1> DEFINE At(i) == CHOOSE p \in S : Place(bk, q, S, p) = i - 1
           T == Settled!InTurn(bk, q, S)
<1>1. T = [i \in 1 .. Settled!Cardinality(S) |-> At(i)]
  BY DEF Settled!InTurn, Place
<1> HIDE DEF At, T
<1>2. T = [i \in 1 .. Settled!Cardinality(S) |-> T[i]]
  BY <1>1
<1>3. Settled!Cardinality(S) = Cardinality(S)
  BY SameCount
<1>4. T = [i \in 1 .. Cardinality(S) |-> T[i]]
  BY <1>2, <1>3
<1>5. QED  BY <1>4 DEF T

\* It takes the queues of S to know the order of S.
LEMMA TurnsSame ==
    ASSUME NEW bk, NEW q, NEW bk2, NEW q2, NEW S,
           \A p, r \in S : Settled!Precedes(bk2, q2, p, r) <=> Settled!Precedes(bk, q, p, r)
    PROVE  Settled!InTurn(bk2, q2, S) = Settled!InTurn(bk, q, S)
<1>1. \A p \in S : {r \in S : Settled!Precedes(bk2, q2, r, p)}
                 = {r \in S : Settled!Precedes(bk, q, r, p)}
  OBVIOUS
<1>2. \A p \in S : Place(bk2, q2, S, p) = Place(bk, q, S, p)
  BY <1>1 DEF Place
<1> DEFINE At(i) == CHOOSE p \in S : Place(bk, q, S, p) = i - 1
           At2(i) == CHOOSE p \in S : Place(bk2, q2, S, p) = i - 1
<1>3. ASSUME NEW i PROVE At2(i) = At(i)
  <2>1. \A p : (p \in S /\ Place(bk2, q2, S, p) = i - 1) <=> (p \in S /\ Place(bk, q, S, p) = i - 1)
    BY <1>2
  <2>2. QED  BY <2>1
<1>4. /\ Settled!InTurn(bk, q, S) = [i \in 1 .. Settled!Cardinality(S) |-> At(i)]
      /\ Settled!InTurn(bk2, q2, S) = [i \in 1 .. Settled!Cardinality(S) |-> At2(i)]
  BY DEF Settled!InTurn, Place
<1> HIDE DEF At, At2
<1>5. QED  BY <1>3, <1>4

\* Who comes before all others is first, and the others follow as by themselves.
LEMMA FirstInTurn ==
    ASSUME NEW bk, NEW q, NEW S, IsFiniteSet(S), NEW o \in S,
           ~Settled!Precedes(bk, q, o, o),
           \A p \in S \ {o} : Settled!Precedes(bk, q, o, p) /\ ~Settled!Precedes(bk, q, p, o)
    PROVE  LET all == Settled!InTurn(bk, q, S)
               others == Settled!InTurn(bk, q, S \ {o})
               n == Cardinality(S \ {o})
           IN  /\ n \in Nat
               /\ DOMAIN all = 1 .. n + 1 /\ DOMAIN others = 1 .. n
               /\ all[1] = o
               /\ \A i \in 1 .. n : all[i + 1] = others[i]
<1> DEFINE R == S \ {o}
           n == Cardinality(R)
           At(i) == CHOOSE p \in S : Place(bk, q, S, p) = i - 1
           Then(i) == CHOOSE p \in R : Place(bk, q, R, p) = i - 1
<1>1. IsFiniteSet(R) /\ n \in Nat /\ Cardinality(S) = n + 1
  <2>1. IsFiniteSet(R)
    BY FS_Subset
  <2>2. Cardinality(S) \in Nat \ {0} /\ Cardinality(R) = Cardinality(S) - 1
    BY SmallerSet
  <2>3. QED  BY <2>1, <2>2
<1>2. /\ Settled!InTurn(bk, q, S) = [i \in 1 .. n + 1 |-> At(i)]
      /\ Settled!InTurn(bk, q, R) = [i \in 1 .. n |-> Then(i)]
  <2>1. /\ Settled!InTurn(bk, q, S) = [i \in 1 .. Settled!Cardinality(S) |-> At(i)]
        /\ Settled!InTurn(bk, q, R) = [i \in 1 .. Settled!Cardinality(R) |-> Then(i)]
    BY DEF Settled!InTurn, Place
  <2>2. Settled!Cardinality(S) = n + 1 /\ Settled!Cardinality(R) = n
    BY <1>1, SameCount
  <2>3. QED  BY <2>1, <2>2
<1>3. Place(bk, q, S, o) = 0
  <2>1. {r \in S : Settled!Precedes(bk, q, r, o)} = {}
    OBVIOUS
  <2>2. QED  BY <2>1, FS_EmptySet, SameCount DEF Place
<1>4. ASSUME NEW p \in R
      PROVE  Place(bk, q, R, p) \in Nat /\ Place(bk, q, S, p) = Place(bk, q, R, p) + 1
  <2> DEFINE A == {r \in S : Settled!Precedes(bk, q, r, p)}
             B == {r \in R : Settled!Precedes(bk, q, r, p)}
  <2>1. A = B \cup {o} /\ o \notin B
    OBVIOUS
  <2>2. IsFiniteSet(B)
    BY <1>1, FS_Subset
  <2> HIDE DEF A, B
  <2>3. Cardinality(A) = Cardinality(B) + 1 /\ Cardinality(B) \in Nat
    BY <2>1, <2>2, FS_AddElement, FS_CardinalityType
  <2>4. QED  BY <2>3, SameCount DEF Place, A, B
<1> HIDE DEF n
<1>5. At(1) = o
  <2>1. \A p : (p \in S /\ Place(bk, q, S, p) = 1 - 1) <=> p = o
    BY <1>3, <1>4
  <2>2. QED  BY <2>1
<1>6. ASSUME NEW i \in 1 .. n PROVE At(i + 1) = Then(i)
  <2>1. \A p : (p \in S /\ Place(bk, q, S, p) = (i + 1) - 1)
                <=> (p \in R /\ Place(bk, q, R, p) = i - 1)
    BY <1>1, <1>3, <1>4
  <2>2. QED  BY <2>1
<1> HIDE DEF At, Then
<1> DEFINE all == Settled!InTurn(bk, q, S)
           others == Settled!InTurn(bk, q, R)
<1>7. DOMAIN all = 1 .. n + 1 /\ DOMAIN others = 1 .. n
  BY <1>2
<1>8. all[1] = o
  <2>1. 1 \in 1 .. n + 1
    BY <1>1
  <2>2. QED  BY <1>2, <1>5, <2>1
<1>9. ASSUME NEW i \in 1 .. n PROVE all[i + 1] = others[i]
  <2>1. i + 1 \in 1 .. n + 1
    BY <1>1
  <2>2. all[i + 1] = At(i + 1) /\ others[i] = Then(i)
    BY <1>2, <2>1
  <2>3. QED  BY <1>6, <2>2
<1> HIDE DEF all, others
<1>10. QED  BY <1>1, <1>7, <1>8, <1>9 DEF n, all, others

\* Price first, then time, orders the makers of a side.
LEMMA PrecedesOrders ==
    ASSUME NEW bk, NEW q, Sound(bk, q), NEW tk,
           NEW o \in Settled!Eligible(bk, tk), NEW p \in Settled!Eligible(bk, tk)
    PROVE  /\ ~Settled!Precedes(bk, q, o, o)
           /\ o # p => (Settled!Precedes(bk, q, o, p) <=> ~Settled!Precedes(bk, q, p, o))
           /\ \A r \in Settled!Eligible(bk, tk) :
                Settled!Precedes(bk, q, o, p) /\ Settled!Precedes(bk, q, p, r)
                => Settled!Precedes(bk, q, o, r)
<1> DEFINE K(x) == Key(bk[x].side, bk[x].tick)
<1>1. \A x \in Settled!Eligible(bk, tk) : x \in DOMAIN bk /\ bk[x].side = Opposite(tk.side)
  BY EligibleRest
<1>2. \A x \in Settled!Eligible(bk, tk) : K(x) \in Int /\ bk[x].tick \in Int
  <2> SUFFICES ASSUME NEW x \in Settled!Eligible(bk, tk)
               PROVE  K(x) \in Int /\ bk[x].tick \in Int
    OBVIOUS
  <2>1. bk[x] \in Order /\ K(x) \in Int
    BY <1>1, RestingOrder
  <2>2. QED  BY <2>1, BookAssumption DEF Order
<1>3. \A x, y \in Settled!Eligible(bk, tk) : K(x) = K(y) <=> bk[x].tick = bk[y].tick
  BY <1>1, <1>2 DEF Key
<1>4. \A x, y : Settled!Precedes(bk, q, x, y) <=> K(x) > K(y) \/ <<x, y>> \in q
  BY DEF Settled!Precedes, Settled!Key, Key
<1> HIDE DEF K
<1>5. \A x, y \in Settled!Eligible(bk, tk) : <<x, y>> \in q => x # y /\ K(x) = K(y)
  BY <1>1, <1>3 DEF Sound
<1>6. \A x, y \in Settled!Eligible(bk, tk) :
        x # y /\ K(x) = K(y) => (<<x, y>> \in q <=> <<y, x>> \notin q)
  BY <1>1, <1>3 DEF Sound
<1>7. \A x, y, z \in Settled!Eligible(bk, tk) :
        <<x, y>> \in q /\ <<y, z>> \in q => <<x, z>> \in q
  BY <1>1 DEF Sound
<1>8. ~Settled!Precedes(bk, q, o, o)
  <2>1. <<o, o>> \notin q /\ ~(K(o) > K(o))
    BY <1>2, <1>5
  <2>2. QED  BY <1>4, <2>1
<1>9. o # p => (Settled!Precedes(bk, q, o, p) <=> ~Settled!Precedes(bk, q, p, o))
  <2> SUFFICES ASSUME o # p
               PROVE  (K(o) > K(p) \/ <<o, p>> \in q) <=> ~(K(p) > K(o) \/ <<p, o>> \in q)
    BY <1>4
  <2>1. K(o) \in Int /\ K(p) \in Int
    BY <1>2
  <2>2. (<<o, p>> \in q \/ <<p, o>> \in q) => K(o) = K(p)
    BY <1>5
  <2>3. K(o) = K(p) => (<<o, p>> \in q <=> <<p, o>> \notin q)
    BY <1>6
  <2>4. QED  BY <2>1, <2>2, <2>3
<1>10. ASSUME NEW r \in Settled!Eligible(bk, tk),
              Settled!Precedes(bk, q, o, p), Settled!Precedes(bk, q, p, r)
       PROVE  Settled!Precedes(bk, q, o, r)
  <2>1. (K(o) > K(p) \/ <<o, p>> \in q) /\ (K(p) > K(r) \/ <<p, r>> \in q)
    BY <1>4, <1>10
  <2>2. K(o) \in Int /\ K(p) \in Int /\ K(r) \in Int
    BY <1>2
  <2>3. (<<o, p>> \in q => K(o) = K(p)) /\ (<<p, r>> \in q => K(p) = K(r))
    BY <1>5
  <2>4. <<o, p>> \in q /\ <<p, r>> \in q => <<o, r>> \in q
    BY <1>7
  <2>5. K(o) > K(r) \/ <<o, r>> \in q
    BY <2>1, <2>2, <2>3, <2>4
  <2>6. QED  BY <1>4, <2>5
<1>11. QED  BY <1>8, <1>9, <1>10

\* o precedes all others of S.
FirstOf(bk, q, S, o) ==
    \A p \in S \ {o} : Settled!Precedes(bk, q, o, p) /\ ~Settled!Precedes(bk, q, p, o)

\* So some maker is the first of any.
LEMMA SomeFirst ==
    ASSUME NEW bk, NEW q, Sound(bk, q), NEW tk, NEW S \in SUBSET Settled!Eligible(bk, tk)
    PROVE  S # {} => \E o \in S : FirstOf(bk, q, S, o)
<1> DEFINE E == Settled!Eligible(bk, tk)
           P == {T \in SUBSET E : T # {} => \E o \in T : FirstOf(bk, q, T, o)}
<1>1. IsFiniteSet(E)
  BY EligibleRest, FS_Subset DEF Sound
<1>2. {} \in P
  OBVIOUS
<1>3. ASSUME NEW T \in SUBSET E, NEW x \in T, T \ {x} \in P PROVE T \in P
  <2>1. CASE T \ {x} = {}
    BY <2>1 DEF FirstOf
  <2>2. CASE T \ {x} # {}
    <3>1. PICK o \in T \ {x} : FirstOf(bk, q, T \ {x}, o)
      BY <1>3, <2>2
    <3>2. CASE Settled!Precedes(bk, q, o, x)
      <4>1. ~Settled!Precedes(bk, q, x, o)
        BY <3>1, <3>2, PrecedesOrders
      <4>2. FirstOf(bk, q, T, o)
        BY <3>1, <3>2, <4>1 DEF FirstOf
      <4>3. QED  BY <4>2
    <3>3. CASE ~Settled!Precedes(bk, q, o, x)
      <4>1. Settled!Precedes(bk, q, x, o)
        BY <3>1, <3>3, PrecedesOrders
      <4>2. ASSUME NEW p \in T \ {x}
            PROVE  Settled!Precedes(bk, q, x, p) /\ ~Settled!Precedes(bk, q, p, x)
        <5>1. Settled!Precedes(bk, q, x, p)
          <6>1. CASE p = o
            BY <4>1, <6>1
          <6>2. CASE p # o
            <7>1. Settled!Precedes(bk, q, o, p)
              BY <3>1, <6>2 DEF FirstOf
            <7>2. QED  BY <3>1, <4>1, <7>1, PrecedesOrders
          <6>3. QED  BY <6>1, <6>2
        <5>2. QED  BY <5>1, PrecedesOrders
      <4>3. FirstOf(bk, q, T, x)
        BY <4>2 DEF FirstOf
      <4>4. QED  BY <4>3
    <3>4. QED  BY <3>2, <3>3
  <2>3. QED  BY <2>1, <2>2
<1> HIDE DEF P, E
<1>4. \A T \in SUBSET E : T \in P
  <2>1. \A T \in SUBSET E : (\E x \in T : T \ {x} \in P) => T \in P
    BY <1>3
  <2>2. QED  BY <1>1, <1>2, <2>1, SubsetInduction
<1>5. QED  BY <1>4 DEF P, E

\* And each place has its maker.
LEMMA TurnsAreOf ==
    ASSUME NEW bk, NEW q, Sound(bk, q), NEW tk, NEW S \in SUBSET Settled!Eligible(bk, tk)
    PROVE  \A i \in 1 .. Cardinality(S) : Settled!InTurn(bk, q, S)[i] \in S
<1> DEFINE E == Settled!Eligible(bk, tk)
           P == {n \in Nat : \A T \in SUBSET E : Cardinality(T) = n =>
                    \A i \in 1 .. n : Settled!InTurn(bk, q, T)[i] \in T}
<1>1. IsFiniteSet(E)
  BY EligibleRest, FS_Subset DEF Sound
<1>2. 0 \in P
  OBVIOUS
<1>3. ASSUME NEW n \in Nat, n \in P PROVE n + 1 \in P
  <2> SUFFICES ASSUME NEW T \in SUBSET E, Cardinality(T) = n + 1, NEW i \in 1 .. n + 1
               PROVE  Settled!InTurn(bk, q, T)[i] \in T
    OBVIOUS
  <2>1. IsFiniteSet(T) /\ T # {}
    BY <1>1, FS_Subset, FS_EmptySet
  <2>2. PICK o \in T : FirstOf(bk, q, T, o)
    BY <2>1, SomeFirst
  <2>3. ~Settled!Precedes(bk, q, o, o)
    BY PrecedesOrders
  <2>4. Cardinality(T \ {o}) = n
    BY <2>1, SmallerSet
  <2>5. /\ Settled!InTurn(bk, q, T)[1] = o
        /\ \A j \in 1 .. n : Settled!InTurn(bk, q, T)[j + 1]
                                = Settled!InTurn(bk, q, T \ {o})[j]
    <3>1. \A p \in T \ {o} : Settled!Precedes(bk, q, o, p) /\ ~Settled!Precedes(bk, q, p, o)
      BY <2>2 DEF FirstOf
    <3>2. QED  BY <2>1, <2>3, <2>4, <3>1, FirstInTurn
  <2>6. CASE i = 1
    BY <2>5, <2>6
  <2>7. CASE i # 1
    <3>1. i - 1 \in 1 .. n /\ i = (i - 1) + 1
      BY <2>7
    <3>2. Settled!InTurn(bk, q, T \ {o})[i - 1] \in T \ {o}
      BY <1>3, <2>4, <3>1
    <3>3. QED  BY <2>5, <3>1, <3>2
  <2>8. QED  BY <2>6, <2>7
<1> HIDE DEF P
<1>4. \A n \in Nat : n \in P
  BY <1>2, <1>3, NatSetInduction
<1>5. Cardinality(S) \in Nat
  BY <1>1, FS_Subset, FS_CardinalityType
<1>6. QED  BY <1>4, <1>5 DEF P

\* A report that starts with x and goes on as another.
Starts(all, x, others, n) ==
    /\ n \in Nat
    /\ all = [i \in 1 .. n + 1 |-> all[i]] /\ others = [i \in 1 .. n |-> others[i]]
    /\ all[1] = x
    /\ \A i \in 1 .. n : all[i + 1] = others[i]

\* It is the same to report x first.
LEMMA ReportedFirst ==
    ASSUME NEW X, NEW s \in Seq(X), NEW x, NEW n, NEW all, NEW others, Starts(all, x, others, n)
    PROVE  s \o all = Append(s, x) \o others
<1> DEFINE Y == X \cup {x} \cup {others[i] : i \in 1 .. n}
<1>1. s \in Seq(Y) /\ Append(s, x) \in Seq(Y) /\ Len(s) \in Nat
  OBVIOUS
<1>2. others \in Seq(Y) /\ Len(others) = n
  <2>1. others \in [1 .. n -> Y]
    BY DEF Starts
  <2>2. n \in Nat
    BY DEF Starts
  <2> HIDE DEF Y
  <2>3. QED  BY <2>1, <2>2
<1>3. all \in Seq(Y) /\ Len(all) = n + 1
  <2>1. ASSUME NEW i \in 1 .. n + 1 PROVE all[i] \in Y
    <3>1. CASE i = 1
      BY <3>1 DEF Starts
    <3>2. CASE i # 1
      <4>1. i - 1 \in 1 .. n /\ i = (i - 1) + 1
        BY <3>2 DEF Starts
      <4>2. all[i] = others[i - 1]
        BY <4>1 DEF Starts
      <4>3. others[i - 1] \in Y
        BY <4>1
      <4>4. QED  BY <4>2, <4>3
    <3>3. QED  BY <3>1, <3>2
  <2>2. all \in [1 .. n + 1 -> Y]
    BY <2>1 DEF Starts
  <2>3. QED  BY <2>2 DEF Starts
<1>4. \A i \in 1 .. n + 1 : all[i] = IF i = 1 THEN x ELSE others[i - 1]
  <2> SUFFICES ASSUME NEW i \in 1 .. n + 1, i # 1 PROVE all[i] = others[i - 1]
    BY DEF Starts
  <2>1. i - 1 \in 1 .. n /\ i = (i - 1) + 1
    BY DEF Starts
  <2>2. QED  BY <2>1 DEF Starts
<1> HIDE DEF Y
<1> DEFINE a == s \o all
           b == Append(s, x) \o others
<1>5. n \in Nat
  BY DEF Starts
<1>6. a \in Seq(Y) /\ b \in Seq(Y) /\ Len(a) = Len(s) + n + 1 /\ Len(b) = Len(s) + n + 1
  BY <1>1, <1>2, <1>3, <1>5
<1>7. ASSUME NEW i \in 1 .. Len(s) + n + 1 PROVE a[i] = b[i]
  <2>1. CASE i <= Len(s)
    <3>1. a[i] = s[i]
      BY <1>1, <1>3, <1>5, <2>1
    <3>2. Len(Append(s, x)) = Len(s) + 1 /\ Append(s, x)[i] = s[i]
      BY <1>1, <2>1
    <3>3. b[i] = Append(s, x)[i]
      BY <1>1, <1>2, <1>5, <2>1, <3>2
    <3>4. QED  BY <3>1, <3>2, <3>3
  <2>2. CASE i = Len(s) + 1
    <3>1. b[i] = x
      BY <1>1, <1>2, <1>5, <2>2
    <3>2. a[i] = all[1]
      BY <1>1, <1>3, <1>5, <2>2
    <3>3. QED  BY <3>1, <3>2 DEF Starts
  <2>3. CASE i > Len(s) + 1
    <3>1. a[i] = all[i - Len(s)] /\ b[i] = others[i - (Len(s) + 1)]
      BY <1>1, <1>2, <1>3, <1>5, <2>3
    <3>2. i - Len(s) \in 1 .. n + 1 /\ i - Len(s) # 1
          /\ (i - Len(s)) - 1 = i - (Len(s) + 1)
      BY <1>1, <1>5, <2>3
    <3>3. QED  BY <1>4, <3>1, <3>2
  <2>4. i <= Len(s) \/ i = Len(s) + 1 \/ i > Len(s) + 1
    BY <1>1, <1>5
  <2> HIDE DEF a, b
  <2>5. QED  BY <2>1, <2>2, <2>3, <2>4
<1> HIDE DEF a, b
<1>8. a = b
  <2> DEFINE k == Len(s) + n + 1
  <2>1. k \in Nat /\ Len(a) = k /\ Len(b) = k
    BY <1>1, <1>5, <1>6
  <2>2. \A i \in 1 .. k : a[i] = b[i]
    BY <1>7
  <2> HIDE DEF k
  <2>3. a = [i \in 1 .. k |-> a[i]]
    BY <1>6, <2>1
  <2>4. b = [i \in 1 .. k |-> b[i]]
    BY <1>6, <2>1
  <2>5. QED  BY <2>2, <2>3, <2>4
<1>9. QED  BY <1>8 DEF a, b

\* The same for a set of orders in turn, when o is the first.
LEMMA TurnStarts ==
    ASSUME NEW bk, NEW q, NEW S, IsFiniteSet(S), NEW o \in S,
           ~Settled!Precedes(bk, q, o, o),
           \A p \in S \ {o} : Settled!Precedes(bk, q, o, p) /\ ~Settled!Precedes(bk, q, p, o)
    PROVE  Starts(Settled!InTurn(bk, q, S), o, Settled!InTurn(bk, q, S \ {o}),
                  Cardinality(S \ {o}))
<1>1. \A T : Settled!InTurn(bk, q, T) =
            [i \in 1 .. Cardinality(T) |-> Settled!InTurn(bk, q, T)[i]]
  BY TurnsAreList
<1> DEFINE all == Settled!InTurn(bk, q, S)
           others == Settled!InTurn(bk, q, S \ {o})
           n == Cardinality(S \ {o})
<1>2. /\ n \in Nat /\ DOMAIN all = 1 .. n + 1 /\ DOMAIN others = 1 .. n
      /\ all[1] = o /\ \A i \in 1 .. n : all[i + 1] = others[i]
  BY FirstInTurn
<1>3. /\ all = [i \in DOMAIN all |-> all[i]]
      /\ others = [i \in DOMAIN others |-> others[i]]
  BY <1>1
<1> HIDE DEF all, others, n
<1>4. all = [i \in 1 .. n + 1 |-> all[i]] /\ others = [i \in 1 .. n |-> others[i]]
  BY <1>2, <1>3
<1>5. Starts(all, o, others, n)
  BY <1>2, <1>4 DEF Starts
<1>6. QED  BY <1>5 DEF all, others, n

\* Who is met and trades, and who is met and expires.
Trading(bk, q, tk) == {p \in Settled!Met(bk, q, tk) : ~Settled!Own(bk, tk, p)}
Expiring(bk, q, tk) == {p \in Settled!Met(bk, q, tk) : Settled!Own(bk, tk, p)}

\* A maker that leaves in its turn is taken from its list, and nothing else changes.
LEMMA OffLists ==
    ASSUME NEW bk, NEW q, NEW tk, NEW o, WholeTurn(bk, q, tk, o)
    PROVE  LET bk2 == Off(bk, o)
               q2 == Unlinked(q, o)
               tk2 == RestOf(bk, tk, o)
           IN  /\ Trading(bk2, q2, tk2) = Trading(bk, q, tk) \ {o}
               /\ Expiring(bk2, q2, tk2) = Expiring(bk, q, tk) \ {o}
               /\ \A S \in SUBSET (Settled!Met(bk, q, tk) \ {o}) :
                    Settled!InTurn(bk2, q2, S) = Settled!InTurn(bk, q, S)
<1> DEFINE bk2 == Off(bk, o)
           q2 == Unlinked(q, o)
           tk2 == RestOf(bk, tk, o)
<1>1. Settled!Met(bk2, q2, tk2) = Settled!Met(bk, q, tk) \ {o}
  BY OffMet
<1>2. Settled!Met(bk, q, tk) \subseteq Settled!Eligible(bk, tk)
  BY DEF Settled!Met
<1>3. /\ \A p \in Settled!Eligible(bk, tk) \ {o} :
            Settled!Own(bk2, tk2, p) <=> Settled!Own(bk, tk, p)
      /\ \A p, r \in Settled!Eligible(bk, tk) \ {o} :
            Settled!Precedes(bk2, q2, p, r) <=> Settled!Precedes(bk, q, p, r)
  BY OffOthers
<1> HIDE DEF bk2, q2, tk2
<1>4. ASSUME NEW S \in SUBSET (Settled!Met(bk, q, tk) \ {o})
      PROVE  Settled!InTurn(bk2, q2, S) = Settled!InTurn(bk, q, S)
  BY <1>2, <1>3, TurnsSame
<1>5. /\ Trading(bk2, q2, tk2) = Trading(bk, q, tk) \ {o}
      /\ Expiring(bk2, q2, tk2) = Expiring(bk, q, tk) \ {o}
  BY <1>1, <1>2, <1>3 DEF Trading, Expiring
<1>6. QED  BY <1>4, <1>5 DEF bk2, q2, tk2

\* The maker in turn is the first of any list it is on.
LEMMA MetFirst ==
    ASSUME NEW bk, NEW q, NEW tk, NEW o, WholeTurn(bk, q, tk, o),
           NEW S \in SUBSET Settled!Met(bk, q, tk), o \in S
    PROVE  Starts(Settled!InTurn(bk, q, S), o, Settled!InTurn(bk, q, S \ {o}),
                  Cardinality(S \ {o}))
<1>1. S \subseteq Settled!Eligible(bk, tk) /\ S \subseteq DOMAIN bk
  BY EligibleRest DEF Settled!Met
<1>2. IsFiniteSet(S)
  BY <1>1, FS_Subset DEF WholeTurn, Sound
<1>3. /\ ~Settled!Precedes(bk, q, o, o)
      /\ \A p \in S \ {o} : Settled!Precedes(bk, q, o, p) /\ ~Settled!Precedes(bk, q, p, o)
  BY <1>1, TurnFirst DEF WholeTurn
<1>4. QED  BY <1>2, <1>3, TurnStarts

-----------------------------------------------------------------------------
(* What the take reports. *)

\* The report of one trade.
FillBy(bk, tk, o, lots) ==
    [maker |-> o, taker |-> tk.oid, tick |-> bk[o].tick, lots |-> lots]

\* The report, by the order of turns.
LEMMA ReportsAre ==
    ASSUME NEW bk, NEW q, NEW tk
    PROVE  /\ Settled!FillsFor(bk, q, tk) =
                [i \in DOMAIN Settled!InTurn(bk, q, Trading(bk, q, tk)) |->
                    FillBy(bk, tk, Settled!InTurn(bk, q, Trading(bk, q, tk))[i],
                           Settled!Given(bk, q, tk, Settled!InTurn(bk, q, Trading(bk, q, tk))[i]))]
           /\ Settled!ExpiredFor(bk, q, tk) = Settled!InTurn(bk, q, Expiring(bk, q, tk))
BY DEF Settled!FillsFor, Settled!ExpiredFor, FillBy, Trading, Expiring

\* After a maker that trades has left, the rest of the fills is to be reported.
LEMMA OffFills ==
    ASSUME NEW bk, NEW q, NEW tk, NEW o, WholeTurn(bk, q, tk, o), ~Settled!Own(bk, tk, o),
           NEW said \in Seq(Fill)
    PROVE  said \o Settled!FillsFor(bk, q, tk) =
             Append(said, FillBy(bk, tk, o, bk[o].lots))
                \o Settled!FillsFor(Off(bk, o), Unlinked(q, o), RestOf(bk, tk, o))
<1> DEFINE bk2 == Off(bk, o)
           q2 == Unlinked(q, o)
           tk2 == RestOf(bk, tk, o)
           S == Trading(bk, q, tk)
           turn == Settled!InTurn(bk, q, S)
           next == Settled!InTurn(bk, q, S \ {o})
           n == Cardinality(S \ {o})
           given(p) == Settled!Given(bk, q, tk, p)
           given2(p) == Settled!Given(bk2, q2, tk2, p)
           all == Settled!FillsFor(bk, q, tk)
           others == Settled!FillsFor(bk2, q2, tk2)
<1>1. /\ o \in Settled!Met(bk, q, tk) /\ given(o) = bk[o].lots
      /\ \A p \in Settled!Met(bk, q, tk) \ {o} : given2(p) = given(p)
  BY OffMet
<1>2. S \subseteq Settled!Met(bk, q, tk) /\ o \in S
  BY <1>1 DEF Trading
<1>3. Starts(turn, o, next, n)
  BY <1>2, MetFirst
<1>4. Trading(bk2, q2, tk2) = S \ {o} /\ Settled!InTurn(bk2, q2, S \ {o}) = next
  BY <1>2, OffLists
<1>5. all = [i \in DOMAIN turn |-> FillBy(bk, tk, turn[i], given(turn[i]))]
  BY ReportsAre
<1>6. others = [i \in DOMAIN next |-> FillBy(bk2, tk2, next[i], given2(next[i]))]
  <2> DEFINE turn2 == Settled!InTurn(bk2, q2, Trading(bk2, q2, tk2))
  <2>1. others = [i \in DOMAIN turn2 |-> FillBy(bk2, tk2, turn2[i], given2(turn2[i]))]
    BY ReportsAre
  <2>2. turn2 = next
    BY <1>4
  <2> HIDE DEF turn2, next, others, given2
  <2>3. QED  BY <2>1, <2>2
<1>7. \A i \in 1 .. n : next[i] \in S \ {o}
  <2>1. S \ {o} \in SUBSET Settled!Eligible(bk, tk)
    BY <1>2 DEF Settled!Met
  <2>2. Sound(bk, q)
    BY DEF WholeTurn
  <2>3. QED  BY <2>1, <2>2, TurnsAreOf
<1>8. \A p \in S \ {o} : bk2[p] = bk[p]
  BY <1>2, EligibleRest DEF Settled!Met, Off
<1>9. tk2.oid = tk.oid
  BY OffOthers
<1> HIDE DEF bk2, q2, tk2, S, turn, next, n, given, given2, all, others
<1>10. DOMAIN turn = 1 .. n + 1 /\ DOMAIN next = 1 .. n /\ n \in Nat
  BY <1>3 DEF Starts
<1>11. all = [i \in 1 .. n + 1 |-> all[i]] /\ others = [i \in 1 .. n |-> others[i]]
  BY <1>5, <1>6, <1>10
<1>12. all[1] = FillBy(bk, tk, o, bk[o].lots)
  <2>1. 1 \in 1 .. n + 1 /\ turn[1] = o
    BY <1>3, <1>10 DEF Starts
  <2>2. QED  BY <1>1, <1>5, <1>10, <2>1
<1>13. ASSUME NEW i \in 1 .. n PROVE all[i + 1] = others[i]
  <2>1. i + 1 \in 1 .. n + 1 /\ turn[i + 1] = next[i]
    <3>1. i + 1 \in 1 .. n + 1
      BY <1>10
    <3>2. QED  BY <1>3, <3>1 DEF Starts
  <2>2. all[i + 1] = FillBy(bk, tk, next[i], given(next[i]))
    BY <1>5, <1>10, <2>1
  <2>3. others[i] = FillBy(bk2, tk2, next[i], given2(next[i]))
    BY <1>6, <1>10
  <2>4. next[i] \in Settled!Met(bk, q, tk) \ {o} /\ bk2[next[i]] = bk[next[i]]
    BY <1>2, <1>7, <1>8
  <2>5. QED  BY <1>1, <1>9, <2>2, <2>3, <2>4 DEF FillBy
<1>14. Starts(all, FillBy(bk, tk, o, bk[o].lots), others, n)
  BY <1>10, <1>11, <1>12, <1>13 DEF Starts
<1>15. said \o all = Append(said, FillBy(bk, tk, o, bk[o].lots)) \o others
  BY <1>14, ReportedFirst
<1>16. QED  BY <1>15 DEF all, others, bk2, q2, tk2

\* And one that expires leaves the fills alone.
LEMMA OwnFills ==
    ASSUME NEW bk, NEW q, NEW tk, NEW o, WholeTurn(bk, q, tk, o), Settled!Own(bk, tk, o)
    PROVE  Settled!FillsFor(Off(bk, o), Unlinked(q, o), RestOf(bk, tk, o))
             = Settled!FillsFor(bk, q, tk)
<1> DEFINE bk2 == Off(bk, o)
           q2 == Unlinked(q, o)
           tk2 == RestOf(bk, tk, o)
           S == Trading(bk, q, tk)
           turn == Settled!InTurn(bk, q, S)
           given(p) == Settled!Given(bk, q, tk, p)
           given2(p) == Settled!Given(bk2, q2, tk2, p)
<1>1. S \subseteq Settled!Met(bk, q, tk) \ {o}
  BY DEF Trading
<1>2. Trading(bk2, q2, tk2) = S /\ Settled!InTurn(bk2, q2, S) = turn
  <2>1. Trading(bk2, q2, tk2) = S
    BY <1>1, OffLists
  <2>2. QED  BY <1>1, <2>1, OffLists
<1>3. /\ Settled!FillsFor(bk, q, tk) =
            [i \in DOMAIN turn |-> FillBy(bk, tk, turn[i], given(turn[i]))]
      /\ Settled!FillsFor(bk2, q2, tk2) =
            [i \in DOMAIN turn |-> FillBy(bk2, tk2, turn[i], given2(turn[i]))]
  BY <1>2, ReportsAre
<1>4. DOMAIN turn = 1 .. Cardinality(S) /\ \A i \in 1 .. Cardinality(S) : turn[i] \in S
  <2>1. S \in SUBSET Settled!Eligible(bk, tk)
    BY <1>1 DEF Settled!Met
  <2>2. Sound(bk, q)
    BY DEF WholeTurn
  <2>3. DOMAIN turn = 1 .. Cardinality(S)
    BY SameCount DEF Settled!InTurn
  <2>4. QED  BY <2>1, <2>2, <2>3, TurnsAreOf
<1>5. \A p \in S : bk2[p] = bk[p] /\ given2(p) = given(p)
  <2>1. \A p \in S : bk2[p] = bk[p]
    BY <1>1, EligibleRest DEF Settled!Met, Off
  <2>2. \A p \in S : given2(p) = given(p)
    BY <1>1, OffMet
  <2>3. QED  BY <2>1, <2>2
<1>6. tk2.oid = tk.oid
  BY OffOthers
<1> HIDE DEF bk2, q2, tk2, S, turn, given, given2
<1>7. \A i \in DOMAIN turn : FillBy(bk2, tk2, turn[i], given2(turn[i]))
                           = FillBy(bk, tk, turn[i], given(turn[i]))
  BY <1>4, <1>5, <1>6 DEF FillBy
<1>8. Settled!FillsFor(bk2, q2, tk2) = Settled!FillsFor(bk, q, tk)
  BY <1>3, <1>7
<1>9. QED  BY <1>8 DEF bk2, q2, tk2

\* Likewise of those that expire.
LEMMA OffExpired ==
    ASSUME NEW bk, NEW q, NEW tk, NEW o, WholeTurn(bk, q, tk, o),
           NEW said \in Seq(Oid)
    PROVE  LET gone == Settled!ExpiredFor(Off(bk, o), Unlinked(q, o), RestOf(bk, tk, o))
           IN  /\ Settled!Own(bk, tk, o) =>
                    said \o Settled!ExpiredFor(bk, q, tk) = Append(said, o) \o gone
               /\ ~Settled!Own(bk, tk, o) => gone = Settled!ExpiredFor(bk, q, tk)
<1> DEFINE bk2 == Off(bk, o)
           q2 == Unlinked(q, o)
           tk2 == RestOf(bk, tk, o)
           S == Expiring(bk, q, tk)
<1>1. S \ {o} \subseteq Settled!Met(bk, q, tk) \ {o}
  BY DEF Expiring
<1>2. Expiring(bk2, q2, tk2) = S \ {o}
      /\ Settled!InTurn(bk2, q2, S \ {o}) = Settled!InTurn(bk, q, S \ {o})
  BY <1>1, OffLists
<1>3. /\ Settled!ExpiredFor(bk, q, tk) = Settled!InTurn(bk, q, S)
      /\ Settled!ExpiredFor(bk2, q2, tk2) = Settled!InTurn(bk, q, S \ {o})
  BY <1>2, ReportsAre
<1>4. CASE Settled!Own(bk, tk, o)
  <2>1. S \in SUBSET Settled!Met(bk, q, tk) /\ o \in S
    BY <1>4, OffMet DEF Expiring
  <2>2. Starts(Settled!InTurn(bk, q, S), o, Settled!InTurn(bk, q, S \ {o}),
               Cardinality(S \ {o}))
    BY <2>1, MetFirst
  <2>3. said \o Settled!InTurn(bk, q, S) = Append(said, o) \o Settled!InTurn(bk, q, S \ {o})
    <3> DEFINE all == Settled!InTurn(bk, q, S)
               others == Settled!InTurn(bk, q, S \ {o})
               n == Cardinality(S \ {o})
    <3> HIDE DEF all, others, n
    <3>1. Starts(all, o, others, n)
      BY <2>2 DEF all, others, n
    <3>2. said \o all = Append(said, o) \o others
      BY <3>1, ReportedFirst
    <3>3. QED  BY <3>2 DEF all, others
  <2>4. QED  BY <1>3, <1>4, <2>3
<1>5. CASE ~Settled!Own(bk, tk, o)
  <2>1. S \ {o} = S
    BY <1>5 DEF Expiring
  <2>2. QED  BY <1>3, <1>5, <2>1
<1>6. QED  BY <1>4, <1>5

-----------------------------------------------------------------------------
(* A taker that is used up. *)

\* What stands before an order takes from what is left.
LEMMA LeftFalls ==
    ASSUME NEW bk, NEW q, Sound(bk, q), NEW tk, tk.left \in Int, NEW o
    PROVE  /\ Settled!LeftAt(bk, q, tk, o) \in Int /\ Settled!LeftAt(bk, q, tk, o) <= tk.left
           /\ \A p \in Before(bk, q, tk, o) :
                Settled!LeftAt(bk, q, tk, o) <= tk.left - bk[p].lots
<1> DEFINE T == Before(bk, q, tk, o)
           F == Sizes(bk)
<1>1. /\ IsFiniteSet(T) /\ SumOver(F, T) \in Nat
      /\ \A p \in T : F[p] \in Nat /\ F[p] = bk[p].lots
  BY BeforeSum
<1>2. Settled!LeftAt(bk, q, tk, o) = tk.left - SumOver(F, T)
  BY LeftIs
<1> HIDE DEF T, F
<1>3. ASSUME NEW p \in T PROVE bk[p].lots \in Int /\ bk[p].lots <= SumOver(F, T)
  <2>1. SumOver(F, T) = F[p] + SumOver(F, T \ {p})
    BY <1>1, SumOverTake DEF SumTakes
  <2>2. SumOver(F, {}) <= SumOver(F, T \ {p})
    <3>1. IsFiniteSet(T \ {p}) /\ \A x \in T \ {p} : F[x] \in Nat
      BY <1>1, FS_Subset
    <3>2. QED  BY <3>1, SumMono
  <2>3. SumOver(F, {}) = 0 /\ SumOver(F, T \ {p}) \in Int
    <3>1. IsFiniteSet(T \ {p}) /\ \A x \in T \ {p} : F[x] \in Int
      BY <1>1, FS_Subset
    <3>2. QED  BY <3>1, FS_EmptySet, SumOverTake DEF SumTakes
  <2>4. F[p] \in Nat /\ F[p] = bk[p].lots
    BY <1>1
  <2>5. QED  BY <2>1, <2>2, <2>3, <2>4
<1>4. Settled!LeftAt(bk, q, tk, o) \in Int /\ Settled!LeftAt(bk, q, tk, o) <= tk.left
  BY <1>1, <1>2
<1>5. \A p \in T : Settled!LeftAt(bk, q, tk, o) <= tk.left - bk[p].lots
  BY <1>1, <1>2, <1>3
<1>6. QED  BY <1>4, <1>5 DEF T

\* No turn is left, and so nothing to do.
LEMMA NoTurns ==
    ASSUME NEW bk, NEW q
    PROVE  Settled!InTurn(bk, q, {}) = << >>
<1>1. Settled!Cardinality({}) = 0
  BY SameCount, FS_EmptySet
<1>2. DOMAIN Settled!InTurn(bk, q, {}) = 1 .. 0
  BY <1>1 DEF Settled!InTurn
<1>3. QED  BY <1>1 DEF Settled!InTurn

\* Where nothing is met, the take leaves everything as it is.
LEMMA NothingMet ==
    ASSUME NEW bk, NEW q, Sound(bk, q), NEW tk, Settled!Met(bk, q, tk) = {}
    PROVE  /\ Settled!BookAfter(bk, q, tk) = bk
           /\ Settled!QueueAfter(bk, q, tk) = q
           /\ Settled!FillsFor(bk, q, tk) = << >>
           /\ Settled!ExpiredFor(bk, q, tk) = << >>
<1>1. Settled!BookAfter(bk, q, tk) = bk
  <2>1. Settled!BookAfter(bk, q, tk) = [p \in DOMAIN bk |-> bk[p]]
    BY DEF Settled!BookAfter
  <2>2. QED  BY <2>1 DEF Sound
<1>2. Settled!QueueAfter(bk, q, tk) = q
  <2>1. \A pair \in q : pair[1] \in DOMAIN bk /\ pair[2] \in DOMAIN bk
    BY DEF Sound
  <2>2. QED  BY <1>1, <2>1 DEF Settled!QueueAfter
<1>3. Trading(bk, q, tk) = {} /\ Expiring(bk, q, tk) = {}
  BY DEF Trading, Expiring
<1>4. Settled!ExpiredFor(bk, q, tk) = << >>
  BY <1>3, ReportsAre, NoTurns
<1>5. Settled!FillsFor(bk, q, tk) = << >>
  <2> DEFINE turn == Settled!InTurn(bk, q, Trading(bk, q, tk))
  <2>1. Settled!FillsFor(bk, q, tk) =
            [i \in DOMAIN turn |-> FillBy(bk, tk, turn[i], Settled!Given(bk, q, tk, turn[i]))]
    BY ReportsAre
  <2>2. turn = << >>
    BY <1>3, NoTurns
  <2>3. DOMAIN turn = {}
    BY <2>2
  <2> HIDE DEF turn
  <2>4. QED  BY <2>1, <2>3
<1>6. QED  BY <1>1, <1>2, <1>4, <1>5

\* A taker that is used up, or finds no maker, meets none.
LEMMA NothingLeft ==
    ASSUME NEW bk, NEW q, Sound(bk, q), NEW tk, tk.left \in Int,
           tk.left = 0 \/ Settled!Eligible(bk, tk) = {}
    PROVE  Settled!Met(bk, q, tk) = {}
<1>1. CASE Settled!Eligible(bk, tk) = {}
  BY <1>1 DEF Settled!Met
<1>2. CASE tk.left = 0
  <2>1. \A o : Settled!LeftAt(bk, q, tk, o) \in Int /\ Settled!LeftAt(bk, q, tk, o) <= 0
    BY <1>2, LeftFalls
  <2>2. \A o : ~(Settled!LeftAt(bk, q, tk, o) > 0)
    BY <2>1
  <2>3. QED  BY <2>2 DEF Settled!Met
<1>3. QED  BY <1>1, <1>2

\* The turn of a maker that gives what is left of the taker.
PartTurn(bk, q, tk, o) ==
    /\ Sound(bk, q) /\ Reached(bk, q, tk, o)
    /\ ~Settled!Own(bk, tk, o) /\ bk[o].lots > tk.left

Smaller(bk, o, lots) == [bk EXCEPT ![o] = [@ EXCEPT !.lots = bk[o].lots - lots]]

\* It is the last that is met.
LEMMA PartMet ==
    ASSUME NEW bk, NEW q, NEW tk, NEW o, PartTurn(bk, q, tk, o)
    PROVE  /\ Settled!Met(bk, q, tk) = {o}
           /\ Settled!Given(bk, q, tk, o) = tk.left
           /\ tk.left \in Int /\ tk.left > 0 /\ bk[o].lots \in Int /\ o \in DOMAIN bk
<1>1. tk.left \in Int /\ tk.left > 0 /\ Settled!LeftAt(bk, q, tk, o) = tk.left
  BY FirstLeft, BookAssumption DEF PartTurn, Reached, Taker
<1>2. o \in Settled!Eligible(bk, tk) /\ o \in DOMAIN bk /\ Sound(bk, q)
  BY EligibleRest DEF PartTurn, Reached
<1>3. bk[o].lots \in Int
  BY <1>2, RestingOrder
<1>4. ASSUME NEW p \in Settled!Eligible(bk, tk) \ {o} PROVE ~(Settled!LeftAt(bk, q, tk, p) > 0)
  <2>1. o \in Before(bk, q, tk, p)
    BY <1>2, TurnFirst DEF Before, PartTurn
  <2>2. /\ Settled!LeftAt(bk, q, tk, p) \in Int
        /\ Settled!LeftAt(bk, q, tk, p) <= tk.left - bk[o].lots
    BY <1>1, <1>2, <2>1, LeftFalls
  <2>3. bk[o].lots > tk.left
    BY DEF PartTurn
  <2>4. QED  BY <1>1, <1>3, <2>2, <2>3
<1>5. Settled!Met(bk, q, tk) = {o}
  BY <1>1, <1>2, <1>4 DEF Settled!Met
<1>6. Settled!Given(bk, q, tk, o) = tk.left
  BY <1>1, <1>3, MinOfTwo DEF Settled!Given, PartTurn
<1>7. QED  BY <1>1, <1>2, <1>3, <1>5, <1>6

\* What remains is then what the take leaves.
LEMMA PartResult ==
    ASSUME NEW bk, NEW q, NEW tk, NEW o, PartTurn(bk, q, tk, o)
    PROVE  LET bk2 == Smaller(bk, o, tk.left)
               tk2 == [tk EXCEPT !.left = 0]
           IN  /\ Sound(bk2, q)
               /\ Settled!BookAfter(bk, q, tk) = bk2
               /\ Settled!QueueAfter(bk, q, tk) = q
               /\ Settled!Met(bk2, q, tk2) = {}
<1> DEFINE bk2 == Smaller(bk, o, tk.left)
           tk2 == [tk EXCEPT !.left = 0]
<1>1. /\ Settled!Met(bk, q, tk) = {o} /\ Settled!Given(bk, q, tk, o) = tk.left
      /\ tk.left \in Int /\ tk.left > 0 /\ bk[o].lots \in Int /\ o \in DOMAIN bk
  BY PartMet
<1>2. Sound(bk, q) /\ bk[o] \in Order /\ bk[o].lots > tk.left
  BY <1>1, RestingOrder DEF PartTurn
<1>3. bk \in [DOMAIN bk -> Order]
  BY <1>2 DEF Sound
<1>4. [bk[o] EXCEPT !.lots = bk[o].lots - tk.left] \in Order
  BY <1>1, <1>2, BookAssumption DEF Order, Lots
<1>5. bk2 \in [DOMAIN bk -> Order]
  BY <1>3, <1>4 DEF Smaller
<1>6. \A p \in DOMAIN bk : bk2[p].side = bk[p].side /\ bk2[p].tick = bk[p].tick
  <2> SUFFICES ASSUME NEW p \in DOMAIN bk
               PROVE  bk2[p].side = bk[p].side /\ bk2[p].tick = bk[p].tick
    OBVIOUS
  <2>1. CASE p = o
    BY <1>2, <1>3, <2>1 DEF Smaller, Order
  <2>2. CASE p # o
    BY <1>3, <2>2 DEF Smaller
  <2>3. QED  BY <2>1, <2>2
<1>7. Settled!BookAfter(bk, q, tk) = bk2
  <2>1. {p \in {o} : Settled!Given(bk, q, tk, p) = bk[p].lots} = {}
    BY <1>1, <1>2
  <2>2. Settled!BookAfter(bk, q, tk) =
          [p \in DOMAIN bk |->
            IF p \in {o} THEN [bk[p] EXCEPT !.lots = @ - Settled!Given(bk, q, tk, p)]
            ELSE bk[p]]
    BY <1>1, <2>1 DEF Settled!BookAfter
  <2>3. QED  BY <1>1, <1>3, <2>2 DEF Smaller
<1> HIDE DEF bk2
<1>8. Sound(bk2, q)
  <2>1. DOMAIN bk2 = DOMAIN bk
    BY <1>5
  <2>2. QED  BY <1>2, <1>5, <1>6, <2>1 DEF Sound
<1>9. Settled!QueueAfter(bk, q, tk) = q
  <2>1. \A pair \in q : pair[1] \in DOMAIN bk2 /\ pair[2] \in DOMAIN bk2
    BY <1>8 DEF Sound
  <2>2. QED  BY <1>7, <2>1 DEF Settled!QueueAfter
<1>10. tk2.left = 0
  BY DEF PartTurn, Reached, Taker
<1>11. Settled!Met(bk2, q, tk2) = {}
  <2> HIDE DEF tk2
  <2>1. QED  BY <1>8, <1>10, NothingLeft
<1>12. QED  BY <1>7, <1>8, <1>9, <1>11 DEF bk2

\* And its fill is the last, with nothing expired.
LEMMA PartReport ==
    ASSUME NEW bk, NEW q, NEW tk, NEW o, PartTurn(bk, q, tk, o), NEW said \in Seq(Fill)
    PROVE  /\ said \o Settled!FillsFor(bk, q, tk)
                = Append(said, FillBy(bk, tk, o, tk.left)) \o << >>
           /\ Settled!ExpiredFor(bk, q, tk) = << >>
<1>1. Settled!Met(bk, q, tk) = {o} /\ Settled!Given(bk, q, tk, o) = tk.left
  BY PartMet
<1>2. Trading(bk, q, tk) = {o} /\ Expiring(bk, q, tk) = {}
  BY <1>1 DEF Trading, Expiring, PartTurn
<1>3. Settled!ExpiredFor(bk, q, tk) = << >>
  BY <1>2, ReportsAre, NoTurns
<1> DEFINE turn == Settled!InTurn(bk, q, Trading(bk, q, tk))
           all == Settled!FillsFor(bk, q, tk)
           given(p) == Settled!Given(bk, q, tk, p)
<1>4. all = [i \in DOMAIN turn |-> FillBy(bk, tk, turn[i], given(turn[i]))]
  BY ReportsAre
<1>5. Starts(turn, o, << >>, 0)
  <2>1. {o} \ {o} = {} /\ IsFiniteSet({o}) /\ Cardinality({}) = 0
    BY FS_Singleton, FS_EmptySet
  <2>2. ~Settled!Precedes(bk, q, o, o)
    BY TurnFirst DEF PartTurn
  <2>3. Starts(Settled!InTurn(bk, q, {o}), o, Settled!InTurn(bk, q, {o} \ {o}),
               Cardinality({o} \ {o}))
    BY <2>1, <2>2, TurnStarts
  <2>4. QED  BY <1>2, <2>1, <2>3, NoTurns
<1> HIDE DEF turn, all, given
<1>6. DOMAIN turn = 1 .. 1 /\ turn[1] = o
  BY <1>5 DEF Starts
<1>7. all = [i \in 1 .. 1 |-> all[i]] /\ all[1] = FillBy(bk, tk, o, tk.left)
  <2>1. 1 \in 1 .. 1 /\ given(o) = tk.left
    BY <1>1 DEF given
  <2>2. QED  BY <1>4, <1>6, <2>1
<1>8. Starts(all, FillBy(bk, tk, o, tk.left), << >>, 0)
  BY <1>7 DEF Starts
<1>9. said \o all = Append(said, FillBy(bk, tk, o, tk.left)) \o << >>
  BY <1>8, ReportedFirst
<1>10. QED  BY <1>3, <1>9 DEF all

-----------------------------------------------------------------------------
(* The book keeps its promise. *)

\* Between calls nothing is left to report, and the book is finite.
PromiseInv ==
    /\ BookInv
    /\ IsFiniteSet(Live)
    /\ taker = Idle => fills = << >> /\ expired = << >>

\* It holds at first,
LEMMA PromiseInvInit == Init => PromiseInv
BY BookInvInit, FS_EmptySet DEF Init, PromiseInv, Live

\* and every step keeps it.
LEMMA PromiseInvStep == PromiseInv /\ [Next]_vars => PromiseInv'
<1> SUFFICES ASSUME PromiseInv, [Next]_vars PROVE PromiseInv'
  OBVIOUS
<1>1. BookInv'
  BY BookInvStep DEF PromiseInv
<1>2. IsFiniteSet(Live')
  <2>1. ASSUME NEW oid PROVE IsFiniteSet(Live \cup {oid}) /\ IsFiniteSet(Live \ {oid})
    BY FS_AddElement, FS_Subset DEF PromiseInv
  <2>2. ASSUME NEW oid, Withdraw(oid) PROVE IsFiniteSet(Live')
    <3>1. Live' = Live \ {oid}
      BY <2>2 DEF Withdraw, Live
    <3>2. QED  BY <2>1, <3>1
  <2>3. ASSUME NEW oid, NEW lots, Shrink(oid, lots) PROVE Live' = Live
    BY <2>3 DEF Shrink, Live
  <2>4. ASSUME NEW oid, NEW order, Insert(oid, order) PROVE IsFiniteSet(Live')
    <3>1. Live' = Live \cup {oid}
      BY <2>4 DEF Insert, Live
    <3>2. QED  BY <2>1, <3>1
  <2>5. \/ Live' = Live
        \/ \E oid : Withdraw(oid) \/ \E lots : Shrink(oid, lots)
                    \/ \E order : Insert(oid, order)
    BY DEF Next, vars, Live, book, Add, Cancel, Reduce, Take, StartTake, Meet,
       ExpireOwn, FillWhole, FillPart, Return
  <2>6. QED  BY <2>2, <2>3, <2>4, <2>5 DEF PromiseInv
<1>3. taker' = Idle => fills' = << >> /\ expired' = << >>
  <2> SUFFICES ASSUME taker' = Idle PROVE fills' = << >> /\ expired' = << >>
    OBVIOUS
  <2>1. \/ taker' # Idle
        \/ UNCHANGED <<taker, fills, expired>>
        \/ fills' = << >> /\ expired' = << >>
    <3>1. ASSUME NEW o \in Live, Meet(o) PROVE taker' # Idle
      <4>1. taker \in Taker /\ resting[o] \in Order
        BY <3>1 DEF PromiseInv, BookInv, TypeOK, BookType, CallType, Meet, ExpireOwn,
           FillWhole, FillPart, Reaches, Live
      <4>2. CASE ExpireOwn(o)
        BY <4>1, <4>2, BookAssumption DEF ExpireOwn
      <4>3. CASE FillWhole(o)
        <5>1. /\ taker' = [taker EXCEPT !.left = taker.left - resting[o].lots]
              /\ resting[o].lots <= taker.left /\ resting[o].lots \in Lots
          BY <4>1, <4>3 DEF FillWhole, Taker, Order
        <5>2. taker.left \in 0 .. MaxLots /\ MaxLots \in Nat
          BY <4>1, BookAssumption DEF Taker
        <5>3. taker.left - resting[o].lots \in 0 .. MaxLots
          BY <5>1, <5>2 DEF Lots
        <5>4. taker' \in Taker
          BY <4>1, <5>1, <5>3 DEF Taker
        <5>5. QED  BY <5>4, BookAssumption
      <4>4. CASE FillPart(o)
        <5>1. taker' \in Taker
          BY <4>1, <4>4, BookAssumption DEF FillPart, Taker
        <5>2. QED  BY <5>1, BookAssumption
      <4>5. QED  BY <3>1, <4>2, <4>3, <4>4 DEF Meet
    <3>2. ASSUME NEW oid \in Oid, NEW user \in User, NEW side \in Side, NEW limit \in Tick,
                 NEW lots \in Lots, NEW stp \in Stp, Take(oid, user, side, limit, lots, stp)
          PROVE  taker' # Idle
      <4>1. taker' \in Taker
        BY <3>2, BookAssumption DEF Take, StartTake, Taker, Lots
      <4>2. QED  BY <4>1, BookAssumption
    <3>3. QED
      BY <3>1, <3>2 DEF Next, vars, Add, Cancel, Reduce, Return, matched
  <2>2. QED  BY <2>1 DEF PromiseInv
<1>4. QED  BY <1>1, <1>2, <1>3 DEF PromiseInv, Live

\* Between calls and in one, the book is a book of the promise.
LEMMA BookIsSound == PromiseInv => Sound(resting, ahead)
<1> SUFFICES ASSUME PromiseInv PROVE Sound(resting, ahead)
  OBVIOUS
<1>1. Live \subseteq Oid /\ resting \in [Live -> Order] /\ IsFiniteSet(Live)
  BY DEF PromiseInv, BookInv, TypeOK, BookType
<1>2. QueuesAreLevels /\ QueuesAreTotal /\ QueuesAreTransitive /\ ahead \subseteq Oid \X Oid
  BY DEF PromiseInv, BookInv, QueueOrder, TypeOK, BookType
<1>3. ahead \subseteq Live \X Live
  BY <1>2 DEF QueuesAreLevels
<1>4. QED  BY <1>1, <1>2, <1>3 DEF Sound, Live, QueuesAreLevels, QueuesAreTotal,
              QueuesAreTransitive

\* The promise's reading of a book does not depend on what the promise is read from.
LEMMA SamePromise ==
    ASSUME NEW bk, NEW q, NEW tk
    PROVE  /\ Promise!BookAfter(bk, q, tk) = Settled!BookAfter(bk, q, tk)
           /\ Promise!QueueAfter(bk, q, tk) = Settled!QueueAfter(bk, q, tk)
           /\ Promise!FillsFor(bk, q, tk) = Settled!FillsFor(bk, q, tk)
           /\ Promise!ExpiredFor(bk, q, tk) = Settled!ExpiredFor(bk, q, tk)
<1>1. \A o : Promise!Own(bk, tk, o) <=> Settled!Own(bk, tk, o)
  BY DEF Promise!Own, Settled!Own
<1>2. \A p, o : Promise!Precedes(bk, q, p, o) <=> Settled!Precedes(bk, q, p, o)
  BY DEF Promise!Precedes, Settled!Precedes, Promise!Key, Settled!Key
<1>3. Promise!Eligible(bk, tk) = Settled!Eligible(bk, tk)
  BY DEF Promise!Eligible, Settled!Eligible, Promise!Opposite, Settled!Opposite,
     Promise!Key, Settled!Key
<1>4. ASSUME NEW o PROVE Promise!LeftAt(bk, q, tk, o) = Settled!LeftAt(bk, q, tk, o)
  BY DEF Promise!LeftAt, Settled!LeftAt, Promise!Eligible, Settled!Eligible,
     Promise!Opposite, Settled!Opposite, Promise!Key, Settled!Key,
     Promise!Precedes, Settled!Precedes, Promise!Own, Settled!Own,
     Promise!MapThenSumSet, Settled!MapThenSumSet,
     Promise!MapThenFoldSet, Settled!MapThenFoldSet
<1>5. Promise!Met(bk, q, tk) = Settled!Met(bk, q, tk)
  BY <1>3, <1>4 DEF Promise!Met, Settled!Met
<1>6. ASSUME NEW o PROVE Promise!Given(bk, q, tk, o) = Settled!Given(bk, q, tk, o)
  <2>1. \A S : Promise!Min(S) = Settled!Min(S)
    BY DEF Promise!Min, Settled!Min
  <2>2. Promise!LeftAt(bk, q, tk, o) = Settled!LeftAt(bk, q, tk, o)
    BY <1>4
  <2>3. QED  BY <1>1, <2>1, <2>2 DEF Promise!Given, Settled!Given
<1>7. Promise!BookAfter(bk, q, tk) = Settled!BookAfter(bk, q, tk)
  BY <1>5, <1>6 DEF Promise!BookAfter, Settled!BookAfter
<1>8. Promise!QueueAfter(bk, q, tk) = Settled!QueueAfter(bk, q, tk)
  BY <1>7 DEF Promise!QueueAfter, Settled!QueueAfter
<1>9. ASSUME NEW S PROVE Promise!InTurn(bk, q, S) = Settled!InTurn(bk, q, S)
  BY DEF Promise!InTurn, Settled!InTurn, Promise!Precedes, Settled!Precedes,
     Promise!Key, Settled!Key, Promise!Cardinality, Settled!Cardinality,
     Promise!IsFiniteSet, Settled!IsFiniteSet
<1>10. Promise!ExpiredFor(bk, q, tk) = Settled!ExpiredFor(bk, q, tk)
  BY <1>1, <1>5, <1>9 DEF Promise!ExpiredFor, Settled!ExpiredFor
<1>11. Promise!FillsFor(bk, q, tk) = Settled!FillsFor(bk, q, tk)
  BY <1>1, <1>5, <1>6, <1>9 DEF Promise!FillsFor, Settled!FillsFor
<1>12. QED  BY <1>7, <1>8, <1>10, <1>11

\* A list after nothing is the list.
LEMMA NothingFirst ==
    ASSUME NEW n \in Nat, NEW s, s = [i \in 1 .. n |-> s[i]]
    PROVE  << >> \o s = s
<1> DEFINE Y == {s[i] : i \in 1 .. n}
<1>1. s \in [1 .. n -> Y]
  OBVIOUS
<1> HIDE DEF Y
<1>2. s \in Seq(Y) /\ Len(s) = n
  BY <1>1
<1>3. QED  BY <1>2

\* A turn of the loop leaves the promised result alone.
LEMMA MeetPromised ==
    ASSUME PromiseInv, NEW o \in Live, Meet(o)
    PROVE  UNCHANGED <<PromisedBook, PromisedQueue, PromisedTaker,
                       PromisedFills, PromisedExpired>>
<1>1. taker \in Taker /\ taker # Idle /\ fills \in Seq(Fill) /\ expired \in Seq(Oid)
  BY BookAssumption DEF PromiseInv, BookInv, TypeOK, CallType, Meet, ExpireOwn, FillWhole,
     FillPart, Reaches
<1>2. Sound(resting, ahead) /\ Reached(resting, ahead, taker, o)
  <2>1. Reaches(o)
    BY DEF Meet, ExpireOwn, FillWhole, FillPart
  <2>2. o \in Settled!Eligible(resting, taker)
    BY <2>1 DEF Reaches, OnSide, KeyOf, Live, Settled!Eligible, Settled!Opposite, Opposite,
       Settled!Key, Key
  <2>3. \A p \in DOMAIN resting \ {o} : resting[p].side = resting[o].side =>
            \/ Key(resting[p].side, resting[p].tick) < Key(resting[o].side, resting[o].tick)
            \/ <<o, p>> \in ahead
    BY <2>1 DEF Reaches, First, OnSide, KeyOf, Live
  <2>4. QED  BY <1>1, <2>1, <2>2, <2>3, BookIsSound DEF Reached, Reaches
<1>3. Settled!Own(resting, taker, o) <=> SelfTrade(o)
  BY DEF Settled!Own, SelfTrade
<1>4. resting[o].lots \in Int /\ taker.left \in Int
  <2>1. taker.left \in Int
    BY <1>1, BookAssumption DEF Taker
  <2>2. o \in DOMAIN resting
    BY DEF Live
  <2>3. QED  BY <1>2, <2>1, <2>2, RestingOrder
<1>5. ASSUME Withdraw(o), taker' = RestOf(resting, taker, o),
             SelfTrade(o) \/ resting[o].lots <= taker.left,
             SelfTrade(o) => fills' = fills /\ expired' = Append(expired, o),
             ~SelfTrade(o) =>
                /\ fills' = Append(fills, FillBy(resting, taker, o, resting[o].lots))
                /\ expired' = expired
      PROVE  UNCHANGED <<PromisedBook, PromisedQueue, PromisedTaker,
                         PromisedFills, PromisedExpired>>
  <2>1. WholeTurn(resting, ahead, taker, o)
    BY <1>2, <1>3, <1>5 DEF WholeTurn
  <2>2. resting' = Off(resting, o) /\ ahead' = Unlinked(ahead, o)
    BY <1>5 DEF Withdraw, Off, Unlinked, Live
  <2>3. taker' # Idle /\ [taker' EXCEPT !.left = 0] = [taker EXCEPT !.left = 0]
    <3>1. taker' \in Taker
      <4> DEFINE left == taker.left - (IF SelfTrade(o) THEN 0 ELSE resting[o].lots)
      <4>1. resting[o].lots > 0
        BY <1>2, RestingOrder DEF Live
      <4>2. taker.left \in 0 .. MaxLots /\ MaxLots \in Int
        BY <1>1, BookAssumption DEF Taker
      <4>3. left \in 0 .. MaxLots
        BY <1>4, <1>5, <4>1, <4>2
      <4>4. taker' = [taker EXCEPT !.left = left]
        BY <1>3, <1>5 DEF RestOf
      <4> HIDE DEF left
      <4>5. QED  BY <1>1, <4>3, <4>4 DEF Taker
    <3>2. [taker' EXCEPT !.left = 0] = [taker EXCEPT !.left = 0]
      BY <1>1, <1>5 DEF RestOf, Taker
    <3>3. QED  BY <3>1, <3>2, BookAssumption
  <2>4. UNCHANGED <<PromisedBook, PromisedQueue>>
    BY <1>1, <1>5, <2>1, <2>2, <2>3, OffBook DEF PromisedBook, PromisedQueue
  <2>5. fills' \o Settled!FillsFor(resting', ahead', taker')
            = fills \o Settled!FillsFor(resting, ahead, taker)
    <3>1. CASE SelfTrade(o)
      BY <1>3, <1>5, <2>1, <2>2, <3>1, OwnFills
    <3>2. CASE ~SelfTrade(o)
      <4>1. fills \o Settled!FillsFor(resting, ahead, taker)
              = Append(fills, FillBy(resting, taker, o, resting[o].lots))
                  \o Settled!FillsFor(Off(resting, o), Unlinked(ahead, o),
                                      RestOf(resting, taker, o))
        <5>1. ~Settled!Own(resting, taker, o) /\ fills \in Seq(Fill)
          BY <1>1, <1>3, <3>2
        <5>2. QED  BY <2>1, <5>1, OffFills, SMTT(30)
      <4>2. QED  BY <1>5, <2>2, <3>2, <4>1
    <3>3. QED  BY <3>1, <3>2
  <2>6. expired' \o Settled!ExpiredFor(resting', ahead', taker')
            = expired \o Settled!ExpiredFor(resting, ahead, taker)
    <3> DEFINE gone == Settled!ExpiredFor(Off(resting, o), Unlinked(ahead, o),
                                          RestOf(resting, taker, o))
    <3>1. /\ SelfTrade(o) => expired \o Settled!ExpiredFor(resting, ahead, taker)
                                = Append(expired, o) \o gone
          /\ ~SelfTrade(o) => gone = Settled!ExpiredFor(resting, ahead, taker)
      BY <1>1, <1>3, <2>1, OffExpired
    <3>2. gone = Settled!ExpiredFor(resting', ahead', taker')
      BY <1>5, <2>2
    <3> HIDE DEF gone
    <3>3. QED  BY <1>5, <3>1, <3>2
  <2>7. UNCHANGED <<PromisedTaker, PromisedFills, PromisedExpired>>
    BY <1>1, <2>3, <2>5, <2>6 DEF PromisedTaker, PromisedFills, PromisedExpired
  <2>8. QED  BY <2>4, <2>7
<1>6. CASE ExpireOwn(o)
  <2>1. taker' = RestOf(resting, taker, o)
    BY <1>1, <1>3, <1>4, <1>6 DEF ExpireOwn, RestOf, Taker
  <2>2. QED  BY <1>5, <1>6, <2>1 DEF ExpireOwn
<1>7. CASE FillWhole(o)
  <2>1. taker' = RestOf(resting, taker, o)
    BY <1>1, <1>3, <1>7 DEF FillWhole, RestOf, Taker
  <2>2. QED  BY <1>5, <1>7, <2>1 DEF FillWhole, FillOf, FillBy
<1>8. CASE FillPart(o)
  <2>1. PartTurn(resting, ahead, taker, o)
    BY <1>2, <1>3, <1>8 DEF FillPart, PartTurn
  <2>2. /\ resting' = Smaller(resting, o, taker.left) /\ ahead' = ahead
        /\ taker' = [taker EXCEPT !.left = 0]
        /\ fills' = Append(fills, FillBy(resting, taker, o, taker.left))
        /\ expired' = expired
    BY <1>8 DEF FillPart, Shrink, Smaller, FillOf, FillBy
  <2>3. taker' \in Taker /\ taker' # Idle /\ [taker' EXCEPT !.left = 0] = taker'
    <3>1. 0 \in 0 .. MaxLots
      BY BookAssumption
    <3>2. taker' \in Taker /\ [taker' EXCEPT !.left = 0] = taker'
      BY <1>1, <2>2, <3>1 DEF Taker
    <3>3. QED  BY <3>2, BookAssumption
  <2>4. /\ Sound(resting', ahead') /\ Settled!Met(resting', ahead', taker') = {}
        /\ Settled!BookAfter(resting, ahead, taker) = resting'
        /\ Settled!QueueAfter(resting, ahead, taker) = ahead'
    BY <2>1, <2>2, PartResult
  <2>5. /\ Settled!BookAfter(resting', ahead', taker') = resting'
        /\ Settled!QueueAfter(resting', ahead', taker') = ahead'
        /\ Settled!FillsFor(resting', ahead', taker') = << >>
        /\ Settled!ExpiredFor(resting', ahead', taker') = << >>
    BY <2>4, NothingMet
  <2>6. /\ fills \o Settled!FillsFor(resting, ahead, taker) = fills' \o << >>
        /\ Settled!ExpiredFor(resting, ahead, taker) = << >>
    BY <1>1, <2>1, <2>2, PartReport
  <2>7. UNCHANGED <<PromisedBook, PromisedQueue>>
    BY <1>1, <2>3, <2>4, <2>5 DEF PromisedBook, PromisedQueue
  <2>8. UNCHANGED <<PromisedTaker, PromisedFills, PromisedExpired>>
    BY <1>1, <2>2, <2>3, <2>5, <2>6 DEF PromisedTaker, PromisedFills, PromisedExpired
  <2>9. QED  BY <2>7, <2>8
<1>9. QED  BY <1>6, <1>7, <1>8 DEF Meet

\* Between calls the promised book is the book.
LEMMA IdlePromised ==
    taker = Idle => /\ PromisedBook = resting /\ PromisedQueue = ahead
                    /\ PromisedTaker = Idle
                    /\ PromisedFills = fills /\ PromisedExpired = expired
BY DEF PromisedBook, PromisedQueue, PromisedTaker, PromisedFills, PromisedExpired

\* A call that adds, cancels or reduces is the promise's.
LEMMA CallPromised ==
    ASSUME taker = Idle, taker' = Idle
    PROVE  /\ \A oid, order : Add(oid, order) => Promise!Add(oid, order)
           /\ \A oid : Cancel(oid) => Promise!Cancel(oid)
           /\ \A oid, lots : Reduce(oid, lots) => Promise!Reduce(oid, lots)
<1>1. /\ PromisedBook = resting /\ PromisedQueue = ahead /\ PromisedTaker = Idle
      /\ PromisedFills = fills /\ PromisedExpired = expired
  BY IdlePromised
<1>2. /\ PromisedBook' = resting' /\ PromisedQueue' = ahead' /\ PromisedTaker' = Idle
      /\ PromisedFills' = fills' /\ PromisedExpired' = expired'
  BY DEF PromisedBook, PromisedQueue, PromisedTaker, PromisedFills, PromisedExpired
<1>3. ASSUME NEW oid, NEW order, Add(oid, order) PROVE Promise!Add(oid, order)
  BY <1>1, <1>2, <1>3 DEF Add, Promise!Add, matched, Promise!matched, Insert, Promise!Insert,
     Live, Promise!Live, AtLevel, Promise!AtLevel, OnSide, Promise!OnSide
<1>4. ASSUME NEW oid, Cancel(oid) PROVE Promise!Cancel(oid)
  BY <1>1, <1>2, <1>4 DEF Cancel, Promise!Cancel, matched, Promise!matched,
     Withdraw, Promise!Withdraw, Live, Promise!Live
<1>5. ASSUME NEW oid, NEW lots, Reduce(oid, lots) PROVE Promise!Reduce(oid, lots)
  BY <1>1, <1>2, <1>5 DEF Reduce, Promise!Reduce, matched, Promise!matched,
     Withdraw, Promise!Withdraw, Shrink, Promise!Shrink, Live, Promise!Live
<1>6. QED  BY <1>3, <1>4, <1>5

\* Starting a take is the whole of it.
LEMMA TakePromised ==
    ASSUME PromiseInv, NEW oid \in Oid, NEW user \in User, NEW side \in Side,
           NEW limit \in Tick, NEW lots \in Lots, NEW stp \in Stp,
           Take(oid, user, side, limit, lots, stp)
    PROVE  \E tk \in Promise!Taker : Promise!TakeAtOnce(tk)
<1>1. taker' \in Taker /\ taker' # Idle
  BY BookAssumption DEF Take, StartTake, Taker, Lots
<1>2. Taker = Promise!Taker
  BY DEF Taker, Promise!Taker, Side, Promise!Side, Stp, Promise!Stp
<1>3. /\ taker = Idle /\ resting' = resting /\ ahead' = ahead
      /\ fills' = << >> /\ expired' = << >>
  BY DEF Take, StartTake, book, PromiseInv
<1>4. /\ PromisedBook = resting /\ PromisedQueue = ahead /\ PromisedTaker = Idle
  BY <1>3, IdlePromised
<1>5. PromisedTaker' = [taker' EXCEPT !.left = 0]
  BY <1>1 DEF PromisedTaker
<1>6. /\ PromisedBook' = Settled!BookAfter(resting, ahead, taker')
      /\ PromisedQueue' = Settled!QueueAfter(resting, ahead, taker')
  BY <1>1, <1>3 DEF PromisedBook, PromisedQueue
<1>7. /\ PromisedFills' = << >> \o Settled!FillsFor(resting, ahead, taker')
      /\ PromisedExpired' = << >> \o Settled!ExpiredFor(resting, ahead, taker')
  BY <1>1, <1>3 DEF PromisedFills, PromisedExpired
<1>8. /\ PromisedFills' = Settled!FillsFor(resting, ahead, taker')
      /\ PromisedExpired' = Settled!ExpiredFor(resting, ahead, taker')
  <2> DEFINE tk == taker'
  <2> HIDE DEF tk
  <2>1. Sound(resting, ahead)
    BY BookIsSound
  <2>2. \A S \in SUBSET Settled!Met(resting, ahead, tk) :
            Cardinality(S) \in Nat
            /\ Settled!InTurn(resting, ahead, S) =
                 [i \in 1 .. Cardinality(S) |-> Settled!InTurn(resting, ahead, S)[i]]
    <3> SUFFICES ASSUME NEW S \in SUBSET Settled!Met(resting, ahead, tk)
                 PROVE  Cardinality(S) \in Nat
                        /\ Settled!InTurn(resting, ahead, S) =
                             [i \in 1 .. Cardinality(S) |-> Settled!InTurn(resting, ahead, S)[i]]
      OBVIOUS
    <3>1. S \subseteq DOMAIN resting
      BY EligibleRest DEF Settled!Met
    <3>2. Cardinality(S) \in Nat
      BY <2>1, <3>1, FS_Subset, FS_CardinalityType DEF Sound
    <3>3. QED  BY <3>2, TurnsAreList
  <2>3. << >> \o Settled!ExpiredFor(resting, ahead, tk) = Settled!ExpiredFor(resting, ahead, tk)
    <3>1. Expiring(resting, ahead, tk) \in SUBSET Settled!Met(resting, ahead, tk)
      BY DEF Expiring
    <3>2. QED  BY <2>2, <3>1, ReportsAre, NothingFirst
  <2>4. << >> \o Settled!FillsFor(resting, ahead, tk) = Settled!FillsFor(resting, ahead, tk)
    <3> DEFINE S == Trading(resting, ahead, tk)
               all == Settled!FillsFor(resting, ahead, tk)
    <3>1. S \in SUBSET Settled!Met(resting, ahead, tk)
      BY DEF Trading
    <3>2. DOMAIN Settled!InTurn(resting, ahead, S) = 1 .. Cardinality(S)
          /\ Cardinality(S) \in Nat
      BY <2>2, <3>1
    <3>3. all = [i \in DOMAIN Settled!InTurn(resting, ahead, S) |-> all[i]]
      BY ReportsAre
    <3> HIDE DEF S, all
    <3>4. all = [i \in 1 .. Cardinality(S) |-> all[i]]
      BY <3>2, <3>3
    <3>5. << >> \o all = all
      BY <3>2, <3>4, NothingFirst
    <3>6. QED  BY <3>5 DEF all
  <2>5. QED  BY <1>7, <2>3, <2>4 DEF tk
<1>9. Promise!TakeAtOnce(taker')
  BY <1>3, <1>4, <1>5, <1>6, <1>8, SamePromise DEF Promise!TakeAtOnce
<1>10. QED  BY <1>1, <1>2, <1>9

\* A call that returns has done all that was promised.
LEMMA ReturnPromised ==
    ASSUME PromiseInv, Return
    PROVE  Promise!HandBack
<1>1. taker \in Taker /\ taker # Idle
  BY DEF PromiseInv, BookInv, TypeOK, CallType, Return, Exhausted
<1>2. Sound(resting, ahead)
  BY BookIsSound
<1>3. taker.left = 0 \/ Settled!Eligible(resting, taker) = {}
  BY DEF Return, Exhausted, Crosses, OnSide, KeyOf, Live, Settled!Eligible,
     Settled!Opposite, Opposite, Settled!Key, Key
<1>4. taker.left \in Int
  BY <1>1, BookAssumption DEF Taker
<1>5. /\ Settled!BookAfter(resting, ahead, taker) = resting
      /\ Settled!QueueAfter(resting, ahead, taker) = ahead
  BY <1>2, <1>3, <1>4, NothingLeft, NothingMet
<1>6. PromisedBook = resting /\ PromisedQueue = ahead
  BY <1>5 DEF PromisedBook, PromisedQueue
<1>7. PromisedTaker # Idle
  <2>1. 0 \in 0 .. MaxLots
    BY BookAssumption
  <2>2. [taker EXCEPT !.left = 0] \in Taker
    BY <1>1, <2>1 DEF Taker
  <2>3. QED  BY <1>1, <2>2, BookAssumption DEF PromisedTaker
<1>8. taker' = Idle /\ fills' = << >> /\ expired' = << >> /\ resting' = resting /\ ahead' = ahead
  BY DEF Return, book
<1>9. /\ PromisedTaker' = Idle /\ PromisedFills' = << >> /\ PromisedExpired' = << >>
      /\ PromisedBook' = resting /\ PromisedQueue' = ahead
  BY <1>8 DEF PromisedTaker, PromisedFills, PromisedExpired, PromisedBook, PromisedQueue
<1>10. QED  BY <1>6, <1>7, <1>9 DEF Promise!HandBack, Promise!book

\* For any number of orders and wallets, any prices and any sizes, the loop of
\* Book::take trades what price-time priority assigns, lot for lot and in that
\* order (book.rs:231-295, tests/proptest_book.rs).
THEOREM TakesKeepPriority == Spec => PriceTimePriority
<1>1. Init => Promise!Init
  BY IdlePromised DEF Init, Promise!Init
<1>2. PromiseInv /\ [Next]_vars => [Promise!PromisedNext]_(Promise!vars)
  <2> SUFFICES ASSUME PromiseInv, [Next]_vars
               PROVE  Promise!PromisedNext \/ UNCHANGED Promise!vars
    OBVIOUS
  <2>1. ASSUME NEW oid \in Oid, NEW order \in Order, Add(oid, order)
        PROVE  Promise!PromisedNext
    <3>1. Promise!Add(oid, order)
      BY <2>1, CallPromised DEF Add
    <3>2. order \in Promise!Order
      BY DEF Order, Promise!Order, Side, Promise!Side, Lots, Promise!Lots
    <3>3. QED  BY <3>1, <3>2 DEF Promise!PromisedNext
  <2>2. ASSUME NEW oid \in Oid, Cancel(oid) PROVE Promise!PromisedNext
    BY <2>2, CallPromised DEF Cancel, Promise!PromisedNext
  <2>3. ASSUME NEW oid \in Oid, NEW lots \in 0 .. MaxLots, Reduce(oid, lots)
        PROVE  Promise!PromisedNext
    BY <2>3, CallPromised DEF Reduce, Promise!PromisedNext
  <2>4. ASSUME NEW oid \in Oid, NEW user \in User, NEW side \in Side, NEW limit \in Tick,
               NEW lots \in Lots, NEW stp \in Stp, Take(oid, user, side, limit, lots, stp)
        PROVE  Promise!PromisedNext
    BY <2>4, TakePromised DEF Promise!PromisedNext
  <2>5. ASSUME NEW o \in Live, Meet(o) PROVE UNCHANGED Promise!vars
    BY <2>5, MeetPromised DEF Promise!vars
  <2>6. CASE Return
    BY <2>6, ReturnPromised DEF Promise!PromisedNext
  <2>7. CASE UNCHANGED vars
    BY <2>7 DEF vars, Promise!vars, PromisedBook, PromisedQueue, PromisedTaker,
       PromisedFills, PromisedExpired
  <2>8. QED  BY <2>1, <2>2, <2>3, <2>4, <2>5, <2>6, <2>7 DEF Next
<1>3. QED
  BY <1>1, <1>2, PromiseInvInit, PromiseInvStep, PTL
     DEF Spec, PriceTimePriority, Promise!PromisedSpec

-----------------------------------------------------------------------------
(* The engine. *)

\* The taker in hand is the action whose turn it is.
InHand(i) ==
    /\ Turn(i)
    /\ pass = "Taker"
    /\ batch[i].op = "Order"
    /\ taker.oid = batch[i].oid
    /\ taker.side = batch[i].side
    /\ taker.limit = batch[i].tick
    /\ taker.left <= batch[i].lots
    /\ taker.oid \notin Live

TakerInHand == taker # Idle => \E i \in DOMAIN batch : InHand(i)

NotYetRested ==
    \A j \in DOMAIN batch :
        /\ Cls(batch[j]) = "Taker"
        /\ pass \in {"PostOnly", "Cancel"} \/ (pass = "Taker" /\ j >= pos)
        => statuses[j].kind # "Resting"

FillsAreTakers == (pass \in {"PostOnly", "Cancel"} \/ batch = <<>>) => fills = <<>>

CancelsApplied ==
    \A i \in DOMAIN batch : batch[i].op = "Cancel" =>
        /\ pass = "Cancel" /\ i < pos => batch[i].oid \notin Live
        /\ pass \in {"Taker", "Done"} /\ batch[i].oid \in Live
               => RestedByTaker(batch[i].oid)

AtStart == pass = "Done" => pos = 1

EngineInv ==
    /\ EngineType /\ AtStart /\ QueueOrder /\ NeverCrossed /\ TakerInHand
    /\ NotYetRested /\ FillsAreTakers /\ CancelsApplied /\ CancelBeatsTaker

-----------------------------------------------------------------------------
(* The sides stay apart. *)

\* An order that does not cross can be added to a book that is not crossed.
LEMMA InsertUncrossed ==
    ASSUME BookType, NeverCrossed, NEW oid \in Oid, NEW order \in Order,
           Insert(oid, order), ~Crosses(order.side, order.tick)
    PROVE  NeverCrossed'
<1>1. Live' = Live \cup {oid}
  BY DEF Insert, Live
<1>2. \A o \in Live' : resting'[o] = IF o = oid THEN order ELSE resting[o]
  BY <1>1 DEF Insert, Live
<1>3. \A o \in Live : resting[o].tick \in Int /\ resting[o].side \in Side
  BY BookAssumption DEF BookType, Order
<1>4. order.tick \in Int /\ order.side \in Side
  BY BookAssumption DEF Order
<1>5. \A o \in Live : resting[o].side = Opposite(order.side)
          => IF order.side = "Bid" THEN order.tick < resting[o].tick
             ELSE resting[o].tick < order.tick
  BY <1>3, <1>4 DEF Crosses, OnSide, Opposite, Key, KeyOf, Side
<1>6. SUFFICES ASSUME NEW b \in OnSide("Bid")', NEW a \in OnSide("Ask")'
               PROVE  resting'[b].tick < resting'[a].tick
  BY DEF NeverCrossed
<1>7. CASE b # oid /\ a # oid
  BY <1>1, <1>2, <1>7 DEF NeverCrossed, OnSide
<1>8. CASE b = oid
  <2>1. order.side = "Bid" /\ a # oid /\ a \in Live /\ resting[a].side = "Ask"
    BY <1>1, <1>2, <1>8 DEF OnSide
  <2>2. QED  BY <1>2, <1>5, <1>8, <2>1 DEF Opposite, OnSide
<1>9. CASE a = oid
  <2>1. order.side = "Ask" /\ b # oid /\ b \in Live /\ resting[b].side = "Bid"
    BY <1>1, <1>2, <1>9 DEF OnSide
  <2>2. QED  BY <1>2, <1>5, <1>9, <2>1 DEF Opposite, OnSide
<1>10. QED  BY <1>7, <1>8, <1>9

LEMMA WithdrawUncrossed ==
    ASSUME NeverCrossed, NEW oid \in Live, Withdraw(oid)
    PROVE  NeverCrossed'
BY DEF Withdraw, NeverCrossed, OnSide, Live

LEMMA ShrinkUncrossed ==
    ASSUME BookType, NeverCrossed, NEW oid \in Live, NEW lots \in Lots,
           Shrink(oid, lots)
    PROVE  NeverCrossed'
<1>1. Live' = Live
  BY DEF Shrink, BookType, Live
<1>2. \A o \in Live : /\ resting'[o].side = resting[o].side
                      /\ resting'[o].tick = resting[o].tick
  BY DEF Shrink, BookType, Live, Order
<1>3. QED  BY <1>1, <1>2 DEF NeverCrossed, OnSide

-----------------------------------------------------------------------------
(* Turns and reports. *)

LEMMA TurnUnique ==
    ASSUME batch \in Seq(Menu), pos \in Nat, NEW i, NEW j, Turn(i), Turn(j)
    PROVE  i = j
BY DEF Turn

\* A report is about one action, and moves the pass on.
LEMMA ReportType ==
    ASSUME batch \in Seq(Menu), statuses \in [DOMAIN batch -> Status],
           pass \in {"PostOnly", "Cancel", "Taker", "Done"},
           NEW i \in DOMAIN batch, NEW kind \in Kind, NEW lots \in 0 .. MaxLots,
           Report(i, kind, lots)
    PROVE  /\ batch' = batch /\ pass' = pass
           /\ statuses' \in [DOMAIN batch -> Status]
           /\ pos' = i + 1 /\ pos' \in 1 .. Len(batch') + 1
<1>1. batch' = batch /\ pass' = pass /\ pos' = i + 1
  BY DEF Report
<1>2. [kind |-> kind, lots |-> lots] \in Status
  BY DEF Status
<1>3. statuses' = [statuses EXCEPT ![i] = [kind |-> kind, lots |-> lots]]
  BY DEF Report
<1>4. statuses' \in [DOMAIN batch -> Status]
  BY <1>2, <1>3
<1>5. Len(batch) \in Nat /\ i \in 1 .. Len(batch)
  OBVIOUS
<1>6. QED  BY <1>1, <1>4, <1>5

\* It neither un-rests a taker that rested nor rests one that waits.
LEMMA ReportRested ==
    ASSUME batch \in Seq(Menu), statuses \in [DOMAIN batch -> Status],
           pos \in Nat, NotYetRested, NEW i \in DOMAIN batch, Turn(i),
           NEW kind \in Kind, NEW lots \in 0 .. MaxLots, Report(i, kind, lots),
           pass \in {"PostOnly", "Cancel", "Taker"}
    PROVE  /\ NotYetRested'
           /\ \A oid : RestedByTaker(oid) => RestedByTaker(oid)'
<1>1. batch' = batch /\ pass' = pass /\ pos' = i + 1 /\ pos <= i
      /\ Cls(batch[i]) = pass
  BY DEF Report, Turn
<1>2. \A j \in DOMAIN batch : j # i => statuses'[j] = statuses[j]
  BY DEF Report
<1>3. NotYetRested'
  BY <1>1, <1>2 DEF NotYetRested, Cls
<1>4. ASSUME NEW oid, RestedByTaker(oid) PROVE RestedByTaker(oid)'
  <2>1. PICK j \in DOMAIN batch : /\ Cls(batch[j]) = "Taker" /\ batch[j].oid = oid
                                  /\ statuses[j].kind = "Resting"
    BY <1>4 DEF RestedByTaker
  <2>2. j # i
    BY <1>1, <2>1 DEF NotYetRested
  <2>3. QED  BY <1>1, <1>2, <2>1, <2>2 DEF RestedByTaker, Cls
<1>5. QED  BY <1>3, <1>4
-----------------------------------------------------------------------------
(* The steps of the engine. *)

LEMMA ActionCases ==
    ASSUME batch \in Seq(Menu), NEW i \in DOMAIN batch
    PROVE  /\ batch[i] \in Action /\ batch[i].oid \in Oid
           /\ batch[i].op \in {"Order", "Cancel"}
           /\ batch[i].op = "Order" =>
                /\ batch[i].user \in User /\ batch[i].side \in Side
                /\ batch[i].tick \in Tick /\ batch[i].lots \in 0 .. MaxLots
                /\ batch[i].tif \in Tif
<1>1. batch[i] \in Action
  BY EngineAssumption
<1>2. QED  BY <1>1 DEF Action

\* A step that leaves the book and the call alone keeps what is said of them.
LEMMA SameBook ==
    ASSUME UNCHANGED vars
    PROVE  /\ TypeOK => TypeOK'
           /\ QueueOrder => QueueOrder'
           /\ NeverCrossed => NeverCrossed'
BY DEF vars, TypeOK, BookType, CallType, QueueOrder, QueuesAreLevels,
   QueuesAreTotal, QueuesAreTransitive, Live, NeverCrossed, OnSide

LEMMA NewBatchInv ==
    ASSUME EngineInv, NEW n \in 1 .. MaxBatch, NEW b \in [1 .. n -> Menu],
           NewBatch(b)
    PROVE  EngineInv'
<1>1. b \in Seq(Menu) /\ Len(b) = n /\ n \in Nat /\ DOMAIN b = 1 .. n
  BY EngineAssumption
<1>2. fills = <<>> /\ taker = Idle
  <2>1. taker = Idle
    BY DEF EngineInv, TakerInHand, InHand, NewBatch
  <2>2. QED  BY <2>1 DEF EngineInv, FillsAreTakers, NewBatch
<1>3. EngineType' /\ AtStart' /\ QueueOrder' /\ NeverCrossed'
  <2>1. [kind |-> "CancelMissing", lots |-> 0] \in Status
    BY BookAssumption DEF Status, Kind
  <2>2. statuses' \in [DOMAIN batch' -> Status]
    BY <2>1 DEF NewBatch
  <2>3. QED  BY <1>1, <2>2, SameBook DEF NewBatch, EngineInv, EngineType, AtStart
<1>4. TakerInHand' /\ FillsAreTakers' /\ CancelBeatsTaker'
  BY <1>2 DEF NewBatch, TakerInHand, FillsAreTakers, CancelBeatsTaker, vars
<1>5. NotYetRested' /\ CancelsApplied'
  BY DEF NewBatch, NotYetRested, CancelsApplied
<1>6. QED  BY <1>3, <1>4, <1>5 DEF EngineInv

LEMMA ReadReportInv == EngineInv /\ ReadReport => EngineInv'
<1> SUFFICES ASSUME EngineInv, ReadReport PROVE EngineInv'
  OBVIOUS
<1>1. taker = Idle
  BY DEF EngineInv, TakerInHand, InHand, ReadReport
<1>2. EngineType' /\ AtStart' /\ QueueOrder' /\ NeverCrossed'
  <2>1. TypeOK' /\ QueueOrder' /\ NeverCrossed'
    BY DEF ReadReport, EngineInv, EngineType, TypeOK, BookType, CallType, QueueOrder,
       QueuesAreLevels, QueuesAreTotal, QueuesAreTransitive, Live, NeverCrossed,
       OnSide, book
  <2>2. batch' \in Seq(Menu) /\ Len(batch') = 0 /\ DOMAIN batch' = {}
    BY DEF ReadReport
  <2>3. statuses' \in [DOMAIN batch' -> Status]
    BY <2>2 DEF ReadReport
  <2>4. pass' = "Done" /\ pos' = 1
    BY DEF ReadReport, EngineInv, AtStart
  <2>5. QED  BY <2>1, <2>2, <2>3, <2>4 DEF EngineType, AtStart
<1>3. TakerInHand' /\ FillsAreTakers' /\ CancelBeatsTaker'
  BY <1>1 DEF ReadReport, TakerInHand, FillsAreTakers, CancelBeatsTaker
<1>4. NotYetRested' /\ CancelsApplied'
  BY DEF ReadReport, NotYetRested, CancelsApplied
<1>5. QED  BY <1>2, <1>3, <1>4 DEF EngineInv

LEMMA NextPassInv == EngineInv /\ NextPass => EngineInv'
<1> SUFFICES ASSUME EngineInv, NextPass PROVE EngineInv'
  OBVIOUS
<1> USE DEF EngineInv, EngineType
<1>1. /\ pass \in {"PostOnly", "Cancel", "Taker"} /\ pos' = 1
      /\ batch' = batch /\ statuses' = statuses /\ UNCHANGED vars
      /\ pass = "PostOnly" => pass' = "Cancel"
      /\ pass = "Cancel" => pass' = "Taker"
      /\ pass = "Taker" => pass' = "Done"
  BY DEF NextPass, PassAfter
<1>2. taker = Idle
  BY DEF NextPass, TakerInHand, InHand, Turn
<1>3. EngineType' /\ AtStart' /\ QueueOrder' /\ NeverCrossed'
  BY <1>1, SameBook DEF AtStart
<1>4. TakerInHand' /\ FillsAreTakers'
  BY <1>1, <1>2 DEF TakerInHand, FillsAreTakers, vars
<1>5. \A oid : RestedByTaker(oid)' <=> RestedByTaker(oid)
  BY <1>1 DEF RestedByTaker, Cls
<1>6. CancelBeatsTaker'
  BY <1>1, <1>5 DEF CancelBeatsTaker, vars
<1>7. NotYetRested'
  BY <1>1 DEF NotYetRested, Cls
<1>8. CancelsApplied'
  <2>1. SUFFICES ASSUME NEW i \in DOMAIN batch, batch[i].op = "Cancel"
                 PROVE  /\ pass' = "Cancel" /\ i < pos' => batch[i].oid \notin Live
                        /\ pass' \in {"Taker", "Done"} /\ batch[i].oid \in Live
                               => RestedByTaker(batch[i].oid)
    BY <1>1, <1>5 DEF CancelsApplied, vars, Live
  <2>2. i \in 1 .. Len(batch) /\ Len(batch) \in Nat
    OBVIOUS
  <2>3. pass = "Cancel" => batch[i].oid \notin Live
    BY <2>1, <2>2 DEF NextPass, Cls, CancelsApplied
  <2>4. QED  BY <1>1, <2>1, <2>2, <2>3 DEF CancelsApplied
<1>9. QED  BY <1>3, <1>4, <1>6, <1>7, <1>8

\* What every reported action but a taker's match shares.
LEMMA ReportedInv ==
    ASSUME EngineInv, NEW i \in DOMAIN batch, Turn(i),
           NEW kind \in Kind, NEW lots \in 0 .. MaxLots, Report(i, kind, lots),
           TypeOK', QueueOrder', NeverCrossed', taker' = Idle, fills' = fills,
           Live' \subseteq Live \cup (IF pass = "Cancel" THEN {} ELSE {batch[i].oid}),
           (batch[i].oid \in Live' /\ pass = "Taker" /\ batch[i].oid \notin Live)
               => kind = "Resting",
           pass = "Cancel" => batch[i].oid \notin Live'
    PROVE  EngineInv'
<1> USE DEF EngineInv, EngineType
<1>1. /\ pass \in {"PostOnly", "Cancel", "Taker"} /\ Cls(batch[i]) = pass
      /\ pos \in Nat /\ i \in Nat /\ pos <= i /\ i \in 1 .. Len(batch)
      /\ \A j \in pos .. (i - 1) : Cls(batch[j]) # pass
  BY DEF Turn, Cls
<1>2. /\ batch' = batch /\ pass' = pass /\ pos' = i + 1
      /\ statuses' = [statuses EXCEPT ![i] = [kind |-> kind, lots |-> lots]]
  BY DEF Report
<1>3. EngineType' /\ AtStart'
  BY <1>1, <1>2, ReportType DEF AtStart
<1>4. TakerInHand' /\ FillsAreTakers'
  BY <1>2 DEF TakerInHand, FillsAreTakers
<1>5. NotYetRested' /\ \A oid : RestedByTaker(oid) => RestedByTaker(oid)'
  BY <1>1, ReportRested
<1>6. CancelBeatsTaker'
  BY <1>2, <1>5 DEF CancelBeatsTaker
<1>7. CancelsApplied'
  <2>1. SUFFICES ASSUME NEW j \in DOMAIN batch, batch[j].op = "Cancel"
                 PROVE  /\ pass = "Cancel" /\ j < i + 1 => batch[j].oid \notin Live'
                        /\ pass \in {"Taker", "Done"} /\ batch[j].oid \in Live'
                               => RestedByTaker(batch[j].oid)'
    BY <1>2 DEF CancelsApplied
  <2>2. j \in Nat /\ j \in 1 .. Len(batch) /\ Cls(batch[j]) = "Cancel"
    BY <2>1 DEF Cls
  <2>3. ASSUME pass = "Cancel", j < i + 1 PROVE batch[j].oid \notin Live'
    <3>1. j < pos \/ j = i
      BY <1>1, <2>2, <2>3
    <3>2. QED  BY <2>1, <2>3, <3>1 DEF CancelsApplied
  <2>4. ASSUME pass = "Taker", batch[j].oid \in Live'
        PROVE  RestedByTaker(batch[j].oid)'
    <3>1. CASE batch[j].oid \in Live
      <4>1. PICK oid : oid = batch[j].oid
        OBVIOUS
      <4>2. RestedByTaker(oid)
        BY <2>1, <2>4, <3>1, <4>1 DEF CancelsApplied
      <4>3. RestedByTaker(oid)' /\ batch'[j].oid = oid
        BY <1>2, <1>5, <4>1, <4>2
      <4>4. QED  BY <4>3 DEF RestedByTaker
    <3>2. CASE batch[j].oid \notin Live
      <4>1. batch[j].oid = batch[i].oid /\ kind = "Resting"
        BY <2>4, <3>2
      <4>2. Cls(batch'[i]) = "Taker" /\ batch'[i].oid = batch[j].oid
        BY <1>1, <1>2, <2>4, <4>1 DEF Cls
      <4>3. statuses'[i].kind = "Resting"
        BY <1>2, <4>1
      <4>4. batch'[j].oid = batch[j].oid
        BY <1>2
      <4>5. QED  BY <1>2, <4>2, <4>3, <4>4 DEF RestedByTaker, Cls
    <3>3. QED  BY <3>1, <3>2
  <2>5. QED  BY <1>1, <2>3, <2>4
<1>8. QED  BY <1>3, <1>4, <1>5, <1>6, <1>7

LEMMA CancelOrderInv ==
    ASSUME EngineInv, NEW i \in DOMAIN batch, CancelOrder(i)
    PROVE  EngineInv'
<1> USE DEF EngineInv, EngineType
<1>1. Turn(i) /\ pass = "Cancel" /\ batch[i].oid \in Oid
  BY ActionCases DEF CancelOrder, Turn, Cls
<1>2. taker = Idle
  BY <1>1 DEF TakerInHand, InHand
<1>3. CASE Cancel(batch[i].oid) /\ Report(i, "Canceled", resting[batch[i].oid].lots)
  <2>1. TypeOK' /\ QueueOrder' /\ NeverCrossed'
    BY <1>3, WithdrawType, WithdrawQueue, WithdrawUncrossed
       DEF Cancel, TypeOK, CallType, matched
  <2>2. resting[batch[i].oid].lots \in 0 .. MaxLots
    BY <1>3, BookAssumption DEF Cancel, TypeOK, BookType, Order, Lots
  <2>3. Live' = Live \ {batch[i].oid} /\ fills' = fills /\ taker' = Idle
    BY <1>2, <1>3 DEF Cancel, Withdraw, Live, matched
  <2>4. "Canceled" \in Kind
    BY DEF Kind
  <2>5. QED  BY <1>1, <1>3, <2>1, <2>2, <2>3, <2>4, ReportedInv
<1>4. CASE batch[i].oid \notin Live /\ Report(i, "CancelMissing", 0) /\ UNCHANGED vars
  <2>1. TypeOK' /\ QueueOrder' /\ NeverCrossed'
    BY <1>4, SameBook
  <2>2. "CancelMissing" \in Kind /\ 0 \in 0 .. MaxLots
    BY BookAssumption DEF Kind
  <2>3. Live' = Live /\ fills' = fills /\ taker' = Idle
    BY <1>2, <1>4 DEF vars, Live
  <2>4. QED  BY <1>1, <1>4, <2>1, <2>2, <2>3, ReportedInv
<1>5. QED  BY <1>3, <1>4 DEF CancelOrder

LEMMA RefuseOrderInv ==
    ASSUME EngineInv, NEW i \in DOMAIN batch, RefuseOrder(i)
    PROVE  EngineInv'
<1> USE DEF EngineInv, EngineType
<1>1. TypeOK' /\ QueueOrder' /\ NeverCrossed'
  BY SameBook DEF RefuseOrder
<1>2. Refusal(batch[i]) \in Kind /\ 0 \in 0 .. MaxLots
  BY BookAssumption DEF RefuseOrder, Refusal, Kind
<1>3. Live' = Live /\ fills' = fills /\ taker' = Idle /\ pass # "Cancel"
  BY DEF RefuseOrder, vars, Live, Turn, Cls
<1>4. QED  BY <1>1, <1>2, <1>3, ReportedInv DEF RefuseOrder

LEMMA RestPostOnlyInv ==
    ASSUME EngineInv, NEW i \in DOMAIN batch, RestPostOnly(i)
    PROVE  EngineInv'
<1> USE DEF EngineInv, EngineType
<1> DEFINE oid == batch[i].oid
           order == Placed(batch[i], batch[i].lots)
<1>1. batch[i].op = "Order" /\ batch[i].tif = "Alo" /\ batch[i].lots # 0
      /\ oid \notin Live /\ ~Crosses(batch[i].side, batch[i].tick)
  BY ActionCases DEF RestPostOnly, Turn, Cls, Refusal
<1>2. oid \in Oid /\ order \in Order
      /\ order.side = batch[i].side /\ order.tick = batch[i].tick
  BY <1>1, ActionCases, BookAssumption DEF Placed, Order, Lots
<1>3. Insert(oid, order) /\ taker = Idle /\ taker' = taker
      /\ fills' = fills /\ expired' = expired
  BY DEF RestPostOnly, Add, matched
<1>4. BookType' /\ QueueOrder' /\ NeverCrossed'
  BY <1>1, <1>2, <1>3, InsertType, InsertQueue, InsertUncrossed DEF TypeOK
<1>5. TypeOK'
  BY <1>3, <1>4 DEF TypeOK, CallType
<1>6. Live' = Live \cup {oid}
  BY <1>3 DEF Insert, Live
<1>7. "Resting" \in Kind /\ 0 \in 0 .. MaxLots
  BY BookAssumption DEF Kind
<1>8. QED
  BY <1>3, <1>4, <1>5, <1>6, <1>7, ReportedInv DEF RestPostOnly

LEMMA StartTakerInv ==
    ASSUME EngineInv, NEW i \in DOMAIN batch, StartTaker(i)
    PROVE  EngineInv'
<1> USE DEF EngineInv, EngineType
<1>1. batch[i].op = "Order" /\ batch[i].lots # 0 /\ batch[i].oid \notin Live
  BY ActionCases DEF StartTaker, Turn, Cls, Refusal
<1>2. /\ taker' = [oid |-> batch[i].oid, user |-> batch[i].user,
                   side |-> batch[i].side, limit |-> batch[i].tick,
                   left |-> batch[i].lots, stp |-> StpRule]
      /\ UNCHANGED <<resting, ahead, fills, expired>>
      /\ UNCHANGED <<batch, statuses, pass, pos, opening>>
  BY DEF StartTaker, StartTake, book, engine
<1>3. taker' \in Taker
  BY <1>1, <1>2, ActionCases, EngineAssumption DEF Taker
<1>4. TypeOK' /\ QueueOrder' /\ NeverCrossed'
  BY <1>2, <1>3 DEF TypeOK, BookType, CallType, QueueOrder, QueuesAreLevels,
     QueuesAreTotal, QueuesAreTransitive, Live, NeverCrossed, OnSide
<1>5. EngineType' /\ AtStart'
  BY <1>2, <1>4 DEF AtStart
<1>6. InHand(i)'
  <2>1. Turn(i)'
    BY <1>2 DEF StartTaker, Turn, Cls
  <2>2. taker'.left <= batch[i].lots
    BY <1>1, <1>2, ActionCases, BookAssumption
  <2>3. taker'.oid \notin Live'
    BY <1>1, <1>2 DEF Live
  <2>4. QED  BY <1>1, <1>2, <2>1, <2>2, <2>3 DEF InHand, StartTaker
<1>7. TakerInHand'
  BY <1>2, <1>6 DEF TakerInHand
<1>8. NotYetRested' /\ FillsAreTakers'
  BY <1>2 DEF NotYetRested, FillsAreTakers, Cls
<1>9. CancelsApplied' /\ CancelBeatsTaker'
  BY <1>2 DEF CancelsApplied, CancelBeatsTaker, RestedByTaker, Cls, Live
<1>10. QED  BY <1>4, <1>5, <1>7, <1>8, <1>9

LEMMA MeetMakerInv ==
    ASSUME EngineInv, NEW o \in Live, MeetMaker(o)
    PROVE  EngineInv'
<1> USE DEF EngineInv, EngineType
<1>1. Meet(o) /\ UNCHANGED <<batch, statuses, pass, pos, opening>>
  BY DEF MeetMaker, engine
<1>2. taker # Idle /\ taker \in Taker /\ taker.left > 0 /\ o \in Oid
  BY <1>1 DEF Meet, ExpireOwn, FillWhole, FillPart, Reaches, TypeOK, CallType, BookType
<1>3. PICK i \in DOMAIN batch : InHand(i)
  BY <1>2 DEF TakerInHand
<1>4. TypeOK' /\ QueueOrder'
  BY <1>1, MeetInv
<1>5. resting[o].lots \in Nat /\ taker.left \in Nat
  BY <1>2, BookAssumption DEF TypeOK, BookType, Order, Lots, Taker
<1>6. /\ NeverCrossed' /\ Live' \subseteq Live
      /\ taker' # Idle /\ taker'.oid = taker.oid /\ taker'.side = taker.side
      /\ taker'.limit = taker.limit /\ taker'.left \in Int /\ taker'.left <= taker.left
      /\ fills' = fills \/ \E fill \in Fill : fill.maker = o /\ fills' = Append(fills, fill)
  <2>1. CASE ExpireOwn(o)
    BY <1>2, <1>5, <2>1, WithdrawUncrossed DEF ExpireOwn, Withdraw, Live
  <2>2. CASE FillWhole(o)
    <3>1. taker' \in Taker
      <4>1. taker.left - resting[o].lots \in 0 .. MaxLots
        BY <1>2, <1>5, <2>2, BookAssumption DEF FillWhole, Taker
      <4>2. taker' = [taker EXCEPT !.left = taker.left - resting[o].lots]
        BY <2>2 DEF FillWhole
      <4>3. QED  BY <1>2, <4>1, <4>2 DEF Taker
    <3>2. NeverCrossed' /\ Live' \subseteq Live
      BY <2>2, WithdrawUncrossed DEF FillWhole, Withdraw, Live
    <3>3. FillOf(o, resting[o].lots) \in Fill /\ FillOf(o, resting[o].lots).maker = o
      <4>1. resting[o] \in Order /\ taker.oid \in Oid
        BY <1>2 DEF TypeOK, BookType, Taker
      <4>2. resting[o].tick \in Tick /\ resting[o].lots \in Lots
        BY <4>1 DEF Order
      <4>3. QED  BY <1>2, <4>1, <4>2 DEF FillOf, Fill
    <3>4. taker'.oid = taker.oid /\ taker'.side = taker.side
          /\ taker'.limit = taker.limit /\ taker'.left = taker.left - resting[o].lots
      BY <1>2, <2>2 DEF FillWhole, Taker
    <3>5. taker' # Idle
      BY <3>1, BookAssumption
    <3>6. QED  BY <1>5, <2>2, <3>2, <3>3, <3>4, <3>5 DEF FillWhole
  <2>3. CASE FillPart(o)
    <3>1. taker' \in Taker
      BY <1>2, <2>3, BookAssumption DEF FillPart, Taker
    <3>2. resting[o].lots - taker.left \in Lots /\ taker.left \in Lots
      BY <1>2, <1>5, <2>3, BookAssumption
         DEF FillPart, Lots, TypeOK, BookType, Order, Taker
    <3>3. NeverCrossed' /\ Live' = Live
      BY <2>3, <3>2, ShrinkUncrossed DEF FillPart, Shrink, Live, TypeOK, BookType
    <3>4. FillOf(o, taker.left) \in Fill /\ FillOf(o, taker.left).maker = o
      BY <1>2, <3>2 DEF FillOf, Fill, Order, Taker, TypeOK, BookType
    <3>5. taker'.oid = taker.oid /\ taker'.side = taker.side
          /\ taker'.limit = taker.limit /\ taker'.left = 0
      BY <1>2, <2>3 DEF FillPart, Taker
    <3>6. taker' # Idle
      BY <3>1, BookAssumption
    <3>7. QED  BY <1>5, <2>3, <3>3, <3>4, <3>5, <3>6 DEF FillPart
  <2>4. QED  BY <1>1, <2>1, <2>2, <2>3 DEF Meet
<1>7. EngineType' /\ AtStart'
  BY <1>1, <1>4 DEF AtStart
<1>8. TakerInHand'
  <2>1. Turn(i)'
    BY <1>1, <1>3 DEF InHand, Turn, Cls
  <2>2. taker'.left <= batch[i].lots
    BY <1>3, <1>5, <1>6, ActionCases, BookAssumption DEF InHand
  <2>3. InHand(i)'
    BY <1>1, <1>3, <1>6, <2>1, <2>2 DEF InHand
  <2>4. QED  BY <1>1, <2>3 DEF TakerInHand
<1>9. pass = "Taker" /\ batch # <<>>
  BY <1>3 DEF InHand
<1>10. NotYetRested' /\ FillsAreTakers'
  BY <1>1, <1>9 DEF NotYetRested, FillsAreTakers, Cls
<1>11. CancelsApplied'
  BY <1>1, <1>6 DEF CancelsApplied, RestedByTaker, Cls
<1>12. CancelBeatsTaker'
  <2>1. SUFFICES ASSUME NEW k \in DOMAIN fills', NEW j \in DOMAIN batch,
                        batch[j].op = "Cancel", batch[j].oid = fills'[k].maker
                 PROVE  RestedByTaker(fills'[k].maker)
    BY <1>1 DEF CancelBeatsTaker, RestedByTaker, Cls
  <2>2. CASE k \in DOMAIN fills /\ fills'[k] = fills[k]
    BY <2>1, <2>2 DEF CancelBeatsTaker
  <2>3. CASE fills'[k].maker = o
    BY <1>9, <2>1, <2>3 DEF CancelsApplied
  <2>4. fills \in Seq(Fill)
    BY DEF TypeOK, CallType
  <2>5. CASE fills' = fills
    BY <2>1, <2>2, <2>5
  <2>6. CASE \E fill \in Fill : fill.maker = o /\ fills' = Append(fills, fill)
    <3>1. PICK fill \in Fill : fill.maker = o /\ fills' = Append(fills, fill)
      BY <2>6
    <3>2. \/ k \in DOMAIN fills /\ fills'[k] = fills[k]
          \/ fills'[k] = fill
      BY <2>1, <2>4, <3>1
    <3>3. QED  BY <2>2, <2>3, <3>1, <3>2
  <2>7. QED  BY <1>6, <2>5, <2>6
<1>13. QED  BY <1>4, <1>6, <1>7, <1>8, <1>10, <1>11, <1>12

\* The end of a take: what its three outcomes share.
LEMMA FinishFacts ==
    ASSUME EngineInv, NEW i \in DOMAIN batch, Turn(i), Exhausted
    PROVE  /\ InHand(i) /\ taker \in Taker /\ batch[i].oid \in Oid
           /\ taker.left \in 0 .. MaxLots /\ Filled(i) \in 0 .. MaxLots
           /\ batch[i].oid \notin Live
<1> USE DEF EngineInv, EngineType
<1>1. taker # Idle /\ taker \in Taker
  BY DEF Exhausted, TypeOK, CallType
<1>2. PICK j \in DOMAIN batch : InHand(j)
  BY <1>1 DEF TakerInHand
<1>3. j = i
  BY <1>2, TurnUnique DEF InHand
<1>4. taker.left \in 0 .. MaxLots
  BY <1>1 DEF Taker
<1>5. Filled(i) \in 0 .. MaxLots
  BY <1>2, <1>3, <1>4, ActionCases, BookAssumption DEF InHand, Filled
<1>6. batch[i].oid \notin Live /\ batch[i].oid \in Oid
  BY <1>2, <1>3, ActionCases DEF InHand
<1>7. QED  BY <1>1, <1>2, <1>3, <1>4, <1>5, <1>6

LEMMA FinishWithoutRestInv ==
    ASSUME EngineInv, NEW i \in DOMAIN batch, FinishFilled(i) \/ DropRemainder(i)
    PROVE  EngineInv'
<1> USE DEF EngineInv, EngineType
<1>1. /\ Turn(i) /\ Exhausted /\ taker' = Idle
      /\ UNCHANGED <<resting, ahead, fills, expired>>
      /\ \E kind \in {"Filled", "IocCanceled"} : Report(i, kind, Filled(i))
  BY DEF FinishFilled, DropRemainder, book
<1>2. PICK kind \in {"Filled", "IocCanceled"} : Report(i, kind, Filled(i))
  BY <1>1
<1>3. kind \in Kind /\ Filled(i) \in 0 .. MaxLots /\ InHand(i)
  BY <1>1, FinishFacts DEF Kind
<1>4. TypeOK' /\ QueueOrder' /\ NeverCrossed'
  BY <1>1 DEF TypeOK, BookType, CallType, QueueOrder, QueuesAreLevels,
     QueuesAreTotal, QueuesAreTransitive, Live, NeverCrossed, OnSide
<1>5. Live' = Live /\ pass # "Cancel"
  BY <1>1, <1>3 DEF Live, InHand
<1>6. QED  BY <1>1, <1>2, <1>3, <1>4, <1>5, ReportedInv

\* A remainder rests only when nothing is left to execute against: this is why
\* the book stays uncrossed.
LEMMA RestRemainderInv ==
    ASSUME EngineInv, NEW i \in DOMAIN batch, RestRemainder(i)
    PROVE  EngineInv'
<1> USE DEF EngineInv, EngineType
<1> DEFINE oid == batch[i].oid
           order == Placed(batch[i], taker.left)
<1>1. /\ Turn(i) /\ Exhausted /\ taker.left > 0 /\ taker' = Idle
      /\ Insert(oid, order) /\ Report(i, "Resting", Filled(i))
      /\ fills' = fills /\ expired' = expired
  BY DEF RestRemainder
<1>2. /\ InHand(i) /\ oid \in Oid /\ taker.left \in 0 .. MaxLots
      /\ Filled(i) \in 0 .. MaxLots /\ oid \notin Live
  BY <1>1, FinishFacts
<1>3. taker.left \in Lots
  BY <1>1, <1>2, BookAssumption DEF Lots
<1>4. order \in Order /\ order.side = taker.side /\ order.tick = taker.limit
  BY <1>2, <1>3, ActionCases DEF Placed, Order, InHand
<1>5. ~Crosses(order.side, order.tick)
  BY <1>1, <1>2, <1>4 DEF Exhausted
<1>6. BookType' /\ QueueOrder' /\ NeverCrossed'
  BY <1>1, <1>2, <1>4, <1>5, InsertType, InsertQueue, InsertUncrossed DEF TypeOK
<1>7. TypeOK'
  BY <1>1, <1>6 DEF TypeOK, CallType
<1>8. Live' = Live \cup {oid} /\ pass # "Cancel"
  BY <1>1, <1>2 DEF Insert, Live, InHand
<1>9. "Resting" \in Kind
  BY DEF Kind
<1>10. QED
  BY <1>1, <1>2, <1>6, <1>7, <1>8, <1>9, ReportedInv

-----------------------------------------------------------------------------

LEMMA EngineInvInit == EngineInit => EngineInv
<1> SUFFICES ASSUME EngineInit PROVE EngineInv
  OBVIOUS
<1>1. TypeOK /\ QueueOrder
  BY BookInvInit DEF EngineInit, BookInv
<1>2. batch \in Seq(Menu) /\ Len(batch) = 0 /\ DOMAIN batch = {}
  BY DEF EngineInit
<1>3. statuses \in [DOMAIN batch -> Status] /\ pass = "Done" /\ pos = 1
  BY <1>2 DEF EngineInit
<1>4. Live = {} /\ taker = Idle /\ fills = <<>>
  BY DEF EngineInit, Init, Live
<1>5. QED
  BY <1>1, <1>2, <1>3, <1>4 DEF EngineInv, EngineType, AtStart, NeverCrossed, OnSide,
     TakerInHand, NotYetRested, FillsAreTakers, CancelsApplied, CancelBeatsTaker

LEMMA EngineInvStep == EngineInv /\ [EngineNext]_allVars => EngineInv'
<1> SUFFICES ASSUME EngineInv, [EngineNext]_allVars PROVE EngineInv'
  OBVIOUS
<1>1. ASSUME NEW n \in 1 .. MaxBatch, NEW b \in [1 .. n -> Menu], NewBatch(b)
      PROVE  EngineInv'
  BY <1>1, NewBatchInv
<1>2. ASSUME NEW i \in DOMAIN batch, Apply(i) PROVE EngineInv'
  BY <1>2, CancelOrderInv, RefuseOrderInv, RestPostOnlyInv, StartTakerInv,
     FinishWithoutRestInv, RestRemainderInv DEF Apply
<1>3. ASSUME NEW o \in Live, MeetMaker(o) PROVE EngineInv'
  BY <1>3, MeetMakerInv
<1>4. CASE NextPass
  BY <1>4, NextPassInv
<1>5. CASE ReadReport
  BY <1>5, ReadReportInv
<1>6. CASE UNCHANGED allVars
  <2>1. UNCHANGED vars /\ UNCHANGED <<batch, statuses, pass, pos, opening>>
    BY <1>6 DEF allVars, engine
  <2>2. EngineType' /\ AtStart' /\ QueueOrder' /\ NeverCrossed'
    BY <2>1, SameBook DEF EngineInv, EngineType, AtStart
  <2>3. TakerInHand' /\ NotYetRested' /\ FillsAreTakers'
    BY <2>1 DEF EngineInv, TakerInHand, InHand, Turn, NotYetRested, FillsAreTakers,
       Cls, vars, Live
  <2>4. CancelsApplied' /\ CancelBeatsTaker'
    BY <2>1 DEF EngineInv, CancelsApplied, CancelBeatsTaker, RestedByTaker, Cls,
       vars, Live
  <2>5. QED  BY <2>2, <2>3, <2>4 DEF EngineInv
<1>7. QED  BY <1>1, <1>2, <1>3, <1>4, <1>5, <1>6 DEF EngineNext, Run

\* No batch of any length, over any book, ever crosses the book.
THEOREM BookNeverCrossed == EngineSpec => []NeverCrossed
BY EngineInvInit, EngineInvStep, PTL DEF EngineSpec, EngineInv

\* A cancel beats every taker of its batch, wherever the proposer put the two.
THEOREM CancelsBeatTakers == EngineSpec => []CancelBeatsTaker
BY EngineInvInit, EngineInvStep, PTL DEF EngineSpec, EngineInv

\* The engine's own state and the book stay well typed under batches.
THEOREM EngineTypeCorrect == EngineSpec => []EngineType
BY EngineInvInit, EngineInvStep, PTL DEF EngineSpec, EngineInv

-----------------------------------------------------------------------------
(* The report, of the makers. *)

\* Action j has not had its turn.
Waiting(j) ==
    \/ pass = "PostOnly" /\ (Cls(batch[j]) # "PostOnly" \/ pos <= j)
    \/ pass = "Cancel" /\ (Cls(batch[j]) = "Taker" \/ (Cls(batch[j]) = "Cancel" /\ pos <= j))
    \/ pass = "Taker" /\ Cls(batch[j]) = "Taker" /\ pos <= j

\* What waits has the status the buffers are reset to.
WaitingUnreported ==
    \A j \in DOMAIN batch : Waiting(j) => statuses[j].kind = "CancelMissing"

OrdersRest ==
    \A j \in DOMAIN batch : statuses[j].kind = "Resting" => batch[j].op = "Order"

OpeningType == \A o \in Oid : LotsOf(opening, o) \in Int

ReportInv == WaitingUnreported /\ OrdersRest /\ OpeningType /\ MakersAccounted

\* What the report says of order o: the lots it rested with, those canceled
\* and those filled.
RestedLots(o) == [i \in Reported(o, "Resting") |-> batch[i].lots - statuses[i].lots]
CanceledLots(o) == [i \in Reported(o, "Canceled") |-> statuses[i].lots]
FilledLots(o) == [k \in FillsAgainst(o) |-> fills[k].lots]

Accounted(o) ==
    LotsOf(resting, o)
        = LotsOf(opening, o) + SumFunction(RestedLots(o)) - SumFunction(CanceledLots(o))
          - SumFunction(FilledLots(o))

\* Every order not expired is accounted for.
LEMMA AccountsAre ==
    MakersAccounted <=>
        \A o \in Oid : (\A k \in DOMAIN expired : expired[k] # o) => Accounted(o)
BY DEF MakersAccounted, Accounted, RestedLots, CanceledLots, FilledLots

\* The sums are over parts of the batch and of the fills, of numbers.
LEMMA AccountType ==
    ASSUME EngineInv, OrdersRest, NEW o
    PROVE  /\ IsFiniteSet(DOMAIN RestedLots(o)) /\ IsFiniteSet(DOMAIN CanceledLots(o))
           /\ IsFiniteSet(DOMAIN FilledLots(o))
           /\ \A i \in DOMAIN RestedLots(o) : RestedLots(o)[i] \in Int
           /\ \A i \in DOMAIN CanceledLots(o) : CanceledLots(o)[i] \in Int
           /\ \A k \in DOMAIN FilledLots(o) : FilledLots(o)[k] \in Int
           /\ SumFunction(RestedLots(o)) \in Int /\ SumFunction(CanceledLots(o)) \in Int
           /\ SumFunction(FilledLots(o)) \in Int
<1>1. /\ batch \in Seq(Menu) /\ fills \in Seq(Fill) /\ statuses \in [DOMAIN batch -> Status]
      /\ MaxLots \in Nat
  BY BookAssumption DEF EngineInv, EngineType, TypeOK, CallType
<1>2. IsFiniteSet(DOMAIN batch) /\ IsFiniteSet(DOMAIN fills)
  <2>1. DOMAIN batch = 1 .. Len(batch) /\ DOMAIN fills = 1 .. Len(fills)
        /\ Len(batch) \in Nat /\ Len(fills) \in Nat
    BY <1>1
  <2>2. QED  BY <2>1, FS_Interval
<1>3. /\ IsFiniteSet(DOMAIN RestedLots(o)) /\ IsFiniteSet(DOMAIN CanceledLots(o))
      /\ IsFiniteSet(DOMAIN FilledLots(o))
  BY <1>2, FS_Subset DEF RestedLots, CanceledLots, FilledLots, Reported, FillsAgainst
<1>4. \A i \in DOMAIN batch : statuses[i].lots \in Int
  BY <1>1 DEF Status
<1>5. ASSUME NEW i \in DOMAIN RestedLots(o) PROVE RestedLots(o)[i] \in Int
  <2>1. i \in DOMAIN batch /\ batch[i].op = "Order"
    BY <1>5 DEF RestedLots, Reported, OrdersRest
  <2>2. batch[i].lots \in Int
    BY <1>1, <2>1, ActionCases
  <2>3. QED  BY <1>4, <1>5, <2>1, <2>2 DEF RestedLots
<1>6. \A i \in DOMAIN CanceledLots(o) : CanceledLots(o)[i] \in Int
  BY <1>4 DEF CanceledLots, Reported
<1>7. ASSUME NEW k \in DOMAIN FilledLots(o) PROVE FilledLots(o)[k] \in Int
  <2>1. k \in DOMAIN fills
    BY <1>7 DEF FilledLots, FillsAgainst
  <2>2. fills[k] \in Fill
    BY <1>1, <2>1
  <2>3. fills[k].lots \in Int
    BY <1>1, <2>2 DEF Fill, Lots
  <2>4. QED  BY <1>7, <2>3 DEF FilledLots
<1>8. SumFunction(RestedLots(o)) \in Int
  BY <1>3, <1>5, SumFunctionIs, SumOverTake DEF SumTakes
<1>9. SumFunction(CanceledLots(o)) \in Int
  BY <1>3, <1>6, SumFunctionIs, SumOverTake DEF SumTakes
<1>10. SumFunction(FilledLots(o)) \in Int
  BY <1>3, <1>7, SumFunctionIs, SumOverTake DEF SumTakes
<1>11. QED  BY <1>3, <1>5, <1>6, <1>7, <1>8, <1>9, <1>10

\* A report adds its own lots to the account of its order.
LEMMA ReportAdds ==
    ASSUME EngineInv, ReportInv, NEW i \in DOMAIN batch, Turn(i),
           pass \in {"PostOnly", "Cancel", "Taker"},
           NEW kind \in Kind, NEW lots \in 0 .. MaxLots, Report(i, kind, lots),
           kind = "Resting" => batch[i].op = "Order"
    PROVE  /\ WaitingUnreported' /\ OrdersRest'
           /\ \A o : SumFunction(RestedLots(o))' = SumFunction(RestedLots(o)) +
                (IF kind = "Resting" /\ batch[i].oid = o THEN batch[i].lots - lots ELSE 0)
           /\ \A o : SumFunction(CanceledLots(o))' = SumFunction(CanceledLots(o)) +
                (IF kind = "Canceled" /\ batch[i].oid = o THEN lots ELSE 0)
<1>1. /\ batch \in Seq(Menu) /\ statuses \in [DOMAIN batch -> Status] /\ pos \in Nat
      /\ i \in Nat /\ pos <= i /\ Cls(batch[i]) = pass /\ lots \in Int
  BY BookAssumption DEF EngineInv, EngineType, Turn
<1>2. /\ batch' = batch /\ pass' = pass /\ pos' = i + 1
      /\ statuses' = [statuses EXCEPT ![i] = [kind |-> kind, lots |-> lots]]
  BY DEF Report
<1>3. statuses[i].kind = "CancelMissing"
  BY <1>1 DEF ReportInv, WaitingUnreported, Waiting
<1>4. /\ \A j \in DOMAIN batch : j # i => statuses'[j] = statuses[j]
      /\ statuses'[i].kind = kind /\ statuses'[i].lots = lots
  BY <1>1, <1>2
<1>5. WaitingUnreported'
  <2>1. SUFFICES ASSUME NEW j \in DOMAIN batch, Waiting(j)'
                 PROVE  statuses'[j].kind = "CancelMissing"
    BY <1>2 DEF WaitingUnreported
  <2>2. j \in Nat /\ Cls(batch[j]) \in {"PostOnly", "Cancel", "Taker"}
    BY <1>1 DEF Cls
  <2>3. Waiting(j) /\ j # i
    BY <1>1, <1>2, <2>1, <2>2 DEF Waiting, Cls
  <2>4. QED  BY <1>4, <2>3 DEF ReportInv, WaitingUnreported
<1>6. OrdersRest'
  BY <1>2, <1>4 DEF OrdersRest, ReportInv
<1>7. OrdersRest
  BY DEF ReportInv
<1>8. ASSUME NEW o
      PROVE  SumFunction(RestedLots(o))' = SumFunction(RestedLots(o)) +
                (IF kind = "Resting" /\ batch[i].oid = o THEN batch[i].lots - lots ELSE 0)
  <2>1. i \notin DOMAIN RestedLots(o)
    BY <1>3 DEF RestedLots, Reported
  <2>2. PICK F : F = RestedLots(o)
    OBVIOUS
  <2>3. PICK F2 : F2 = RestedLots(o)'
    OBVIOUS
  <2>4. /\ IsFiniteSet(DOMAIN F) /\ \A x \in DOMAIN F : F[x] \in Int
        /\ SumFunction(F) \in Int
    BY <1>7, <2>2, AccountType
  <2>5. \A x \in DOMAIN F : x \in DOMAIN F2 /\ F2[x] = F[x]
    BY <1>2, <1>3, <1>4, <2>2, <2>3 DEF RestedLots, Reported
  <2>6. CASE kind = "Resting" /\ batch[i].oid = o
    <3>1. DOMAIN F2 = DOMAIN F \cup {i}
      BY <1>2, <1>3, <1>4, <2>2, <2>3, <2>6 DEF RestedLots, Reported
    <3>2. batch[i].lots \in Int
      BY <1>1, <2>6, ActionCases
    <3>3. F2[i] = batch[i].lots - lots /\ F2[i] \in Int
      BY <1>1, <1>2, <1>4, <2>3, <2>6, <3>2 DEF RestedLots, Reported
    <3>4. SumFunction(F2) = SumFunction(F) + F2[i]
      BY <2>1, <2>2, <2>4, <2>5, <3>1, <3>3, SumOneMore
    <3>5. QED  BY <2>2, <2>3, <2>6, <3>3, <3>4
  <2>7. CASE ~(kind = "Resting" /\ batch[i].oid = o)
    <3>1. DOMAIN F2 = DOMAIN F
      BY <1>2, <1>3, <1>4, <2>2, <2>3, <2>7 DEF RestedLots, Reported
    <3>2. F2 = F
      <4>1. F2 = [x \in DOMAIN F2 |-> F2[x]] /\ F = [x \in DOMAIN F |-> F[x]]
        BY <2>2, <2>3 DEF RestedLots
      <4>2. QED  BY <2>5, <3>1, <4>1
    <3>3. QED  BY <2>2, <2>3, <2>4, <2>7, <3>2
  <2>8. QED  BY <2>6, <2>7
<1>9. ASSUME NEW o
      PROVE  SumFunction(CanceledLots(o))' = SumFunction(CanceledLots(o)) +
                (IF kind = "Canceled" /\ batch[i].oid = o THEN lots ELSE 0)
  <2>1. i \notin DOMAIN CanceledLots(o)
    BY <1>3 DEF CanceledLots, Reported
  <2>2. PICK F : F = CanceledLots(o)
    OBVIOUS
  <2>3. PICK F2 : F2 = CanceledLots(o)'
    OBVIOUS
  <2>4. /\ IsFiniteSet(DOMAIN F) /\ \A x \in DOMAIN F : F[x] \in Int
        /\ SumFunction(F) \in Int
    BY <1>7, <2>2, AccountType
  <2>5. \A x \in DOMAIN F : x \in DOMAIN F2 /\ F2[x] = F[x]
    BY <1>2, <1>3, <1>4, <2>2, <2>3 DEF CanceledLots, Reported
  <2>6. CASE kind = "Canceled" /\ batch[i].oid = o
    <3>1. DOMAIN F2 = DOMAIN F \cup {i}
      BY <1>2, <1>3, <1>4, <2>2, <2>3, <2>6 DEF CanceledLots, Reported
    <3>2. F2[i] = lots /\ F2[i] \in Int
      BY <1>1, <1>2, <1>4, <2>3, <2>6 DEF CanceledLots, Reported
    <3>3. SumFunction(F2) = SumFunction(F) + F2[i]
      <4>1. i \notin DOMAIN F /\ F2[i] \in Int /\ \A x \in DOMAIN F : F2[x] = F[x]
        BY <2>1, <2>2, <2>5, <3>2
      <4>2. QED  BY <2>4, <3>1, <4>1, SumOneMore
    <3>4. QED  BY <2>2, <2>3, <2>6, <3>2, <3>3
  <2>7. CASE ~(kind = "Canceled" /\ batch[i].oid = o)
    <3>1. DOMAIN F2 = DOMAIN F
      BY <1>2, <1>3, <1>4, <2>2, <2>3, <2>7 DEF CanceledLots, Reported
    <3>2. F2 = F
      <4>1. F2 = [x \in DOMAIN F2 |-> F2[x]] /\ F = [x \in DOMAIN F |-> F[x]]
        BY <2>2, <2>3 DEF CanceledLots
      <4>2. QED  BY <2>5, <3>1, <4>1
    <3>3. QED  BY <2>2, <2>3, <2>4, <2>7, <3>2
  <2>8. QED  BY <2>6, <2>7
<1>10. QED  BY <1>5, <1>6, <1>8, <1>9

\* A fill adds its lots to the account of its maker.
LEMMA FillAdds ==
    ASSUME EngineInv, OrdersRest, NEW fill \in Fill, fills' = Append(fills, fill), NEW o
    PROVE  SumFunction(FilledLots(o))' = SumFunction(FilledLots(o)) +
                (IF fill.maker = o THEN fill.lots ELSE 0)
<1>1. fills \in Seq(Fill) /\ Len(fills) \in Nat /\ fill.lots \in Int
  BY BookAssumption DEF EngineInv, EngineType, TypeOK, CallType, Fill, Lots
<1>2. PICK n : n = Len(fills) + 1
  OBVIOUS
<1>3. /\ DOMAIN fills' = DOMAIN fills \cup {n} /\ n \notin DOMAIN fills
      /\ \A k \in DOMAIN fills : fills'[k] = fills[k]
      /\ fills'[n] = fill
  BY <1>1, <1>2
<1>4. PICK F : F = FilledLots(o)
  OBVIOUS
<1>5. PICK F2 : F2 = FilledLots(o)'
  OBVIOUS
<1>6. /\ IsFiniteSet(DOMAIN F) /\ \A x \in DOMAIN F : F[x] \in Int /\ SumFunction(F) \in Int
  BY <1>4, AccountType
<1>7. n \notin DOMAIN F /\ \A x \in DOMAIN F : x \in DOMAIN F2 /\ F2[x] = F[x]
  BY <1>3, <1>4, <1>5 DEF FilledLots, FillsAgainst
<1>8. CASE fill.maker = o
  <2>1. DOMAIN F2 = DOMAIN F \cup {n} /\ F2[n] = fill.lots
    BY <1>3, <1>4, <1>5, <1>8 DEF FilledLots, FillsAgainst
  <2>2. SumFunction(F2) = SumFunction(F) + F2[n]
    BY <1>1, <1>6, <1>7, <2>1, SumOneMore
  <2>3. QED  BY <1>4, <1>5, <1>8, <2>1, <2>2
<1>9. CASE fill.maker # o
  <2>1. DOMAIN F2 = DOMAIN F
    BY <1>3, <1>4, <1>5, <1>9 DEF FilledLots, FillsAgainst
  <2>2. F2 = F
    <3>1. F2 = [x \in DOMAIN F2 |-> F2[x]] /\ F = [x \in DOMAIN F |-> F[x]]
      BY <1>4, <1>5 DEF FilledLots
    <3>2. QED  BY <1>7, <2>1, <3>1
  <2>3. SumFunction(FilledLots(o)) \in Int
    BY AccountType
  <2>4. QED  BY <1>4, <1>5, <1>9, <2>2, <2>3
<1>10. QED  BY <1>8, <1>9

\* The lots of an order before and after the three changes of the book.
LEMMA LotsAfter ==
    ASSUME BookType, NEW oid
    PROVE  /\ \A order \in Order : oid \notin Live /\ Insert(oid, order) =>
                \A o : LotsOf(resting', o) = LotsOf(resting, o) +
                            (IF o = oid THEN order.lots ELSE 0)
           /\ oid \in Live /\ Withdraw(oid) =>
                \A o : LotsOf(resting', o) = LotsOf(resting, o) -
                            (IF o = oid THEN resting[oid].lots ELSE 0)
           /\ \A lots \in Lots : oid \in Live /\ Shrink(oid, lots) =>
                \A o : LotsOf(resting', o) = IF o = oid THEN lots ELSE LotsOf(resting, o)
           /\ \A o : LotsOf(resting, o) \in Int
<1>1. \A o \in DOMAIN resting : resting[o] \in Order /\ resting[o].lots \in Int
  BY BookAssumption DEF BookType, Order, Lots, Live
<1>2. \A o : LotsOf(resting, o) \in Int
  BY <1>1 DEF LotsOf
<1>3. ASSUME NEW order \in Order, oid \notin Live, Insert(oid, order), NEW o
      PROVE  LotsOf(resting', o) = LotsOf(resting, o) + (IF o = oid THEN order.lots ELSE 0)
  <2>1. order.lots \in Int
    BY BookAssumption DEF Order, Lots
  <2>2. CASE o = oid
    BY <1>3, <2>1, <2>2 DEF Insert, LotsOf, Live
  <2>3. CASE o # oid
    <3>1. LotsOf(resting', o) = LotsOf(resting, o)
      BY <1>3, <2>3 DEF Insert, LotsOf, Live
    <3>2. QED  BY <1>2, <2>3, <3>1
  <2>4. QED  BY <2>2, <2>3
<1>4. ASSUME oid \in Live, Withdraw(oid), NEW o
      PROVE  LotsOf(resting', o) = LotsOf(resting, o) -
                (IF o = oid THEN resting[oid].lots ELSE 0)
  <2>1. CASE o = oid
    <3>1. LotsOf(resting', o) = 0 /\ LotsOf(resting, o) = resting[oid].lots
      BY <1>4, <2>1 DEF Withdraw, LotsOf, Live
    <3>2. QED  BY <1>2, <2>1, <3>1
  <2>2. CASE o # oid
    <3>1. LotsOf(resting', o) = LotsOf(resting, o)
      BY <1>4, <2>2 DEF Withdraw, LotsOf, Live
    <3>2. QED  BY <1>2, <2>2, <3>1
  <2>3. QED  BY <2>1, <2>2
<1>5. ASSUME NEW lots \in Lots, oid \in Live, Shrink(oid, lots), NEW o
      PROVE  LotsOf(resting', o) = IF o = oid THEN lots ELSE LotsOf(resting, o)
  BY <1>1, <1>5 DEF Shrink, LotsOf, Live, Order
<1>6. QED  BY <1>2, <1>3, <1>4, <1>5

\* A turn that changes the lots of its order as it reports keeps the accounts.
LEMMA TurnAccounted ==
    ASSUME EngineInv, ReportInv, NEW i \in DOMAIN batch, Turn(i),
           pass \in {"PostOnly", "Cancel", "Taker"},
           NEW kind \in Kind, NEW lots \in 0 .. MaxLots, Report(i, kind, lots),
           kind = "Resting" => batch[i].op = "Order",
           fills' = fills, expired' = expired,
           \A o : LotsOf(resting', o) = LotsOf(resting, o) +
                (IF batch[i].oid # o THEN 0
                 ELSE IF kind = "Resting" THEN batch[i].lots - lots
                 ELSE IF kind = "Canceled" THEN 0 - lots
                 ELSE 0)
    PROVE  ReportInv'
<1>1. WaitingUnreported' /\ OrdersRest' /\ OrdersRest
  BY ReportAdds DEF ReportInv
<1>2. ASSUME NEW o \in Oid, \A k \in DOMAIN expired : expired[k] # o
      PROVE  Accounted(o)'
  <2>1. Accounted(o)
    BY <1>2, AccountsAre DEF ReportInv
  <2>2. LotsOf(opening, o)' = LotsOf(opening, o)
    BY DEF Report, LotsOf
  <2>3. SumFunction(FilledLots(o))' = SumFunction(FilledLots(o))
    BY DEF FilledLots, FillsAgainst
  <2>4. PICK r \in Int : r = SumFunction(RestedLots(o))
    BY <1>1, AccountType
  <2>5. PICK c \in Int : c = SumFunction(CanceledLots(o))
    BY <1>1, AccountType
  <2>6. PICK f \in Int : f = SumFunction(FilledLots(o))
    BY <1>1, AccountType
  <2>7. PICK q : q = LotsOf(opening, o)
    OBVIOUS
  <2>8. PICK l \in Int : l = LotsOf(resting, o)
    BY LotsAfter DEF EngineInv, EngineType, TypeOK
  <2>9. l = q + r - c - f
    BY <2>1, <2>4, <2>5, <2>6, <2>7, <2>8 DEF Accounted
  <2>10. lots \in Int
    BY BookAssumption
  <2>11. kind = "Resting" => batch[i].lots \in Int
    BY ActionCases DEF EngineInv, EngineType
  <2>12. SumFunction(RestedLots(o))' =
            r + (IF kind = "Resting" /\ batch[i].oid = o THEN batch[i].lots - lots ELSE 0)
    BY <2>4, ReportAdds
  <2>13. SumFunction(CanceledLots(o))' =
            c + (IF kind = "Canceled" /\ batch[i].oid = o THEN lots ELSE 0)
    BY <2>5, ReportAdds
  <2>14. LotsOf(resting', o) = l +
                (IF batch[i].oid # o THEN 0
                 ELSE IF kind = "Resting" THEN batch[i].lots - lots
                 ELSE IF kind = "Canceled" THEN 0 - lots
                 ELSE 0)
    BY <2>8
  <2>15. SUFFICES LotsOf(resting', o) =
            q + SumFunction(RestedLots(o))' - SumFunction(CanceledLots(o))' - f
    BY <2>2, <2>3, <2>6, <2>7 DEF Accounted, LotsOf
  <2>16. q \in Int
    BY <1>2, <2>7 DEF ReportInv, OpeningType
  <2>17. CASE batch[i].oid # o
    BY <2>9, <2>12, <2>13, <2>14, <2>16, <2>17
  <2>18. CASE batch[i].oid = o /\ kind = "Resting"
    BY <2>9, <2>10, <2>11, <2>12, <2>13, <2>14, <2>16, <2>18
  <2>19. CASE batch[i].oid = o /\ kind = "Canceled"
    BY <2>9, <2>10, <2>12, <2>13, <2>14, <2>16, <2>19
  <2>20. CASE batch[i].oid = o /\ kind \notin {"Resting", "Canceled"}
    BY <2>9, <2>12, <2>13, <2>14, <2>16, <2>20
  <2>21. QED  BY <2>17, <2>18, <2>19, <2>20
<1>3. MakersAccounted'
  <2>1. \A o \in Oid : (\A k \in DOMAIN expired' : expired'[k] # o) => Accounted(o)'
    BY <1>2
  <2>2. QED
    BY <2>1 DEF MakersAccounted, Accounted, RestedLots, CanceledLots, FilledLots
<1>4. OpeningType'
  BY DEF OpeningType, ReportInv, Report, LotsOf
<1>5. QED  BY <1>1, <1>3, <1>4 DEF ReportInv

\* A cancel reports the lots it takes off the book.
LEMMA CancelAccounted ==
    ASSUME EngineInv, ReportInv, NEW i \in DOMAIN batch, CancelOrder(i)
    PROVE  ReportInv'
<1>1. Turn(i) /\ pass = "Cancel" /\ batch[i].oid \in Oid /\ MaxLots \in Nat
      /\ BookType
  BY ActionCases, BookAssumption
     DEF CancelOrder, Turn, Cls, EngineInv, EngineType, TypeOK
<1>2. "Canceled" \in Kind /\ "CancelMissing" \in Kind
  BY DEF Kind
<1>3. PICK oid : oid = batch[i].oid
  OBVIOUS
<1>4. CASE Cancel(oid) /\ Report(i, "Canceled", resting[oid].lots)
  <2>1. resting[oid].lots \in 0 .. MaxLots
    BY <1>1, <1>4 DEF Cancel, BookType, Order, Lots, Live
  <2>2. oid \in Live /\ Withdraw(oid) /\ fills' = fills /\ expired' = expired
    BY <1>4 DEF Cancel, matched
  <2>3. \A o : LotsOf(resting', o) = LotsOf(resting, o) -
                (IF o = oid THEN resting[oid].lots ELSE 0)
    BY <1>1, <2>2, LotsAfter
  <2>4. \A o : LotsOf(resting, o) \in Int
    BY <1>1, LotsAfter
  <2>5. PICK lots \in 0 .. MaxLots : lots = resting[oid].lots
    BY <2>1
  <2>6. \A o : LotsOf(resting', o) = LotsOf(resting, o) +
                (IF batch[i].oid # o THEN 0
                 ELSE IF "Canceled" = "Resting" THEN batch[i].lots - lots
                 ELSE IF "Canceled" = "Canceled" THEN 0 - lots
                 ELSE 0)
    BY <1>1, <1>3, <2>3, <2>4, <2>5
  <2>7. Report(i, "Canceled", lots)
    BY <1>4, <2>5
  <2>8. QED  BY <1>1, <1>2, <2>2, <2>6, <2>7, TurnAccounted
<1>5. CASE Report(i, "CancelMissing", 0) /\ UNCHANGED vars
  <2>1. \A o : LotsOf(resting, o) \in Int
    BY <1>1, LotsAfter
  <2>2. /\ fills' = fills /\ expired' = expired /\ resting' = resting
        /\ 0 \in 0 .. MaxLots
    BY <1>1, <1>5 DEF vars
  <2>3. QED  BY <1>1, <1>2, <1>5, <2>1, <2>2, TurnAccounted
<1>6. QED  BY <1>3, <1>4, <1>5 DEF CancelOrder

\* A report that neither rests nor cancels, on a book left alone.
LEMMA NoChangeAccounted ==
    ASSUME EngineInv, ReportInv, NEW i \in DOMAIN batch, Turn(i),
           pass \in {"PostOnly", "Taker"},
           NEW kind \in Kind \ {"Resting", "Canceled"}, NEW lots \in 0 .. MaxLots,
           Report(i, kind, lots),
           resting' = resting, fills' = fills, expired' = expired
    PROVE  ReportInv'
<1>1. \A o : LotsOf(resting, o) \in Int
  BY LotsAfter DEF EngineInv, EngineType, TypeOK
<1>2. QED  BY <1>1, TurnAccounted

\* A refused order changes no lots.
LEMMA RefuseAccounted ==
    ASSUME EngineInv, ReportInv, NEW i \in DOMAIN batch, RefuseOrder(i)
    PROVE  ReportInv'
<1>1. Turn(i) /\ batch[i].op = "Order" /\ UNCHANGED vars
      /\ Report(i, Refusal(batch[i]), 0) /\ Refusal(batch[i]) # "None"
  BY DEF RefuseOrder
<1>2. Refusal(batch[i]) \in Kind \ {"Resting", "Canceled"} /\ 0 \in 0 .. MaxLots
  BY <1>1, BookAssumption DEF Refusal, Kind
<1>3. pass \in {"PostOnly", "Taker"}
  BY <1>1 DEF Turn, Cls
<1>4. QED  BY <1>1, <1>2, <1>3, NoChangeAccounted DEF vars

\* An order rests with what it has not filled.
LEMMA RestAccounted ==
    ASSUME EngineInv, ReportInv, NEW i \in DOMAIN batch,
           RestPostOnly(i) \/ RestRemainder(i)
    PROVE  ReportInv'
<1>0. BookType /\ batch \in Seq(Menu) /\ MaxLots \in Nat
  BY BookAssumption DEF EngineInv, EngineType, TypeOK
<1>1. PICK oid : oid = batch[i].oid
  OBVIOUS
<1>2. \E left \in Lots, lots \in 0 .. MaxLots :
        /\ Turn(i) /\ pass \in {"PostOnly", "Taker"} /\ batch[i].op = "Order"
        /\ left = batch[i].lots - lots /\ batch[i].lots \in Int
        /\ oid \notin Live /\ Insert(oid, Placed(batch[i], left))
        /\ Placed(batch[i], left) \in Order
        /\ Report(i, "Resting", lots) /\ fills' = fills /\ expired' = expired
  <2>1. CASE RestPostOnly(i)
    <3>1. /\ Turn(i) /\ pass = "PostOnly" /\ batch[i].op = "Order"
          /\ batch[i].lots # 0 /\ oid \notin Live
      BY <1>0, <1>1, <2>1, ActionCases DEF RestPostOnly, Turn, Cls, Refusal
    <3>2. batch[i].lots \in Lots /\ batch[i].lots = batch[i].lots - 0
          /\ 0 \in 0 .. MaxLots /\ batch[i].lots \in Int
      BY <1>0, <3>1, ActionCases DEF Lots
    <3>3. Placed(batch[i], batch[i].lots) \in Order
      BY <1>0, <3>1, <3>2, ActionCases DEF Placed, Order
    <3>4. /\ Insert(oid, Placed(batch[i], batch[i].lots))
          /\ Report(i, "Resting", 0) /\ fills' = fills /\ expired' = expired
      BY <1>1, <2>1 DEF RestPostOnly, Add, matched
    <3>5. QED  BY <3>1, <3>2, <3>3, <3>4
  <2>2. CASE RestRemainder(i)
    <3>1. /\ Turn(i) /\ Exhausted /\ taker.left > 0 /\ Report(i, "Resting", Filled(i))
          /\ Insert(oid, Placed(batch[i], taker.left))
          /\ fills' = fills /\ expired' = expired
      BY <1>1, <2>2 DEF RestRemainder
    <3>2. /\ InHand(i) /\ taker.left \in 0 .. MaxLots /\ Filled(i) \in 0 .. MaxLots
          /\ oid \notin Live
      BY <1>1, <3>1, FinishFacts
    <3>3. taker.left \in Lots /\ batch[i].op = "Order" /\ pass = "Taker"
      BY <1>0, <3>1, <3>2 DEF Lots, InHand
    <3>4. batch[i].lots \in Int
      BY <1>0, <3>3, ActionCases
    <3>5. taker.left = batch[i].lots - Filled(i)
      BY <1>0, <3>2, <3>4 DEF Filled
    <3>6. Placed(batch[i], taker.left) \in Order
      BY <1>0, <3>3, ActionCases DEF Placed, Order
    <3>7. QED  BY <3>1, <3>2, <3>3, <3>4, <3>5, <3>6
  <2>3. QED  BY <2>1, <2>2
<1>3. PICK left \in Lots, lots \in 0 .. MaxLots :
        /\ Turn(i) /\ pass \in {"PostOnly", "Taker"} /\ batch[i].op = "Order"
        /\ left = batch[i].lots - lots /\ batch[i].lots \in Int
        /\ oid \notin Live /\ Insert(oid, Placed(batch[i], left))
        /\ Placed(batch[i], left) \in Order
        /\ Report(i, "Resting", lots) /\ fills' = fills /\ expired' = expired
  BY <1>2
<1>4. Placed(batch[i], left).lots = batch[i].lots - lots
  BY <1>3 DEF Placed
<1>5. PICK order \in Order : order = Placed(batch[i], left)
  BY <1>3
<1>6. \A o : LotsOf(resting', o) = LotsOf(resting, o) +
                (IF o = oid THEN order.lots ELSE 0)
  BY <1>0, <1>3, <1>5, LotsAfter
<1>7. \A o : LotsOf(resting', o) = LotsOf(resting, o) +
                (IF batch[i].oid # o THEN 0
                 ELSE IF "Resting" = "Resting" THEN batch[i].lots - lots
                 ELSE IF "Resting" = "Canceled" THEN 0 - lots
                 ELSE 0)
  BY <1>1, <1>4, <1>5, <1>6
<1>8. "Resting" \in Kind
  BY DEF Kind
<1>9. QED  BY <1>3, <1>7, <1>8, TurnAccounted

\* An order that ends filled or dropped has nothing on the book.
LEMMA FinishAccounted ==
    ASSUME EngineInv, ReportInv, NEW i \in DOMAIN batch,
           FinishFilled(i) \/ DropRemainder(i)
    PROVE  ReportInv'
<1>1. /\ Turn(i) /\ Exhausted
      /\ resting' = resting /\ fills' = fills /\ expired' = expired
      /\ \E kind \in {"Filled", "IocCanceled"} : Report(i, kind, Filled(i))
  BY DEF FinishFilled, DropRemainder, book
<1>2. PICK kind \in {"Filled", "IocCanceled"} : Report(i, kind, Filled(i))
  BY <1>1
<1>3. Filled(i) \in 0 .. MaxLots /\ pass = "Taker"
  BY <1>1, FinishFacts DEF InHand
<1>4. kind \in Kind \ {"Resting", "Canceled"}
  BY DEF Kind
<1>5. QED  BY <1>1, <1>2, <1>3, <1>4, NoChangeAccounted

\* The reports stay as they are when neither they nor the pass change.
LEMMA SameReports ==
    ASSUME ReportInv, UNCHANGED <<batch, statuses, pass, pos, opening>>
    PROVE  /\ WaitingUnreported' /\ OrdersRest' /\ OpeningType'
           /\ \A o : /\ SumFunction(RestedLots(o))' = SumFunction(RestedLots(o))
                    /\ SumFunction(CanceledLots(o))' = SumFunction(CanceledLots(o))
                    /\ LotsOf(opening, o)' = LotsOf(opening, o)
<1>1. WaitingUnreported' /\ OrdersRest' /\ OpeningType'
  BY DEF ReportInv, WaitingUnreported, OrdersRest, OpeningType, Waiting, Cls, LotsOf
<1>2. \A o : /\ SumFunction(RestedLots(o))' = SumFunction(RestedLots(o))
            /\ SumFunction(CanceledLots(o))' = SumFunction(CanceledLots(o))
  BY DEF RestedLots, CanceledLots, Reported
<1>3. QED  BY <1>1, <1>2 DEF LotsOf

\* What a maker loses in a turn of the loop is in the fill reported for it.
LEMMA MeetAccounted ==
    ASSUME EngineInv, ReportInv, NEW m \in Live, MeetMaker(m)
    PROVE  ReportInv'
<1>1. Meet(m) /\ UNCHANGED <<batch, statuses, pass, pos, opening>>
  BY DEF MeetMaker, engine
<1>2. BookType /\ MaxLots \in Nat /\ taker \in Taker /\ m \in Oid
      /\ resting[m] \in Order /\ expired \in Seq(Oid) /\ taker.left > 0
  BY <1>1, BookAssumption
     DEF EngineInv, EngineType, TypeOK, BookType, CallType, Meet, ExpireOwn, FillWhole,
         FillPart, Reaches
<1>3. /\ resting[m].lots \in Nat /\ resting[m].lots \in Lots /\ taker.left \in Nat
      /\ \A o : LotsOf(resting, o) \in Int
      /\ LotsOf(resting, m) = resting[m].lots
  BY <1>2, LotsAfter DEF Order, Lots, Taker, LotsOf, Live
<1>4. OrdersRest
  BY DEF ReportInv
<1>5. CASE ExpireOwn(m)
  <2>1. Withdraw(m) /\ expired' = Append(expired, m) /\ fills' = fills
    BY <1>5 DEF ExpireOwn
  <2>2. ASSUME NEW o \in Oid, \A k \in DOMAIN expired' : expired'[k] # o
        PROVE  Accounted(o)'
    <3>1. Len(expired) \in Nat /\ Len(expired) + 1 \in DOMAIN expired'
          /\ expired'[Len(expired) + 1] = m
      BY <1>2, <2>1
    <3>2. o # m
      BY <2>2, <3>1
    <3>3. \A k \in DOMAIN expired : k \in DOMAIN expired' /\ expired'[k] = expired[k]
      BY <1>2, <2>1
    <3>4. Accounted(o)
      BY <2>2, <3>3, AccountsAre DEF ReportInv
    <3>5. LotsOf(resting', o) = LotsOf(resting, o)
      BY <2>1, <3>2 DEF Withdraw, LotsOf, Live
    <3>6. SumFunction(FilledLots(o))' = SumFunction(FilledLots(o))
      BY <2>1 DEF FilledLots, FillsAgainst
    <3>7. LotsOf(resting, o)' = LotsOf(resting, o)
      BY <3>5 DEF LotsOf
    <3>8. QED  BY <1>1, <3>4, <3>6, <3>7, SameReports DEF Accounted
  <2>3. MakersAccounted'
    BY <2>2 DEF MakersAccounted, Accounted, RestedLots, CanceledLots, FilledLots
  <2>4. QED  BY <1>1, <2>3, SameReports DEF ReportInv
<1>6. CASE \E lots \in Lots :
        /\ fills' = Append(fills, FillOf(m, lots)) /\ expired' = expired
        /\ \A o : LotsOf(resting', o) = LotsOf(resting, o) - (IF o = m THEN lots ELSE 0)
  <2>1. PICK lots \in Lots :
        /\ fills' = Append(fills, FillOf(m, lots)) /\ expired' = expired
        /\ \A o : LotsOf(resting', o) = LotsOf(resting, o) - (IF o = m THEN lots ELSE 0)
    BY <1>6
  <2>2. FillOf(m, lots) \in Fill /\ FillOf(m, lots).maker = m
        /\ FillOf(m, lots).lots = lots
    BY <1>2 DEF FillOf, Fill, Taker, Order
  <2>3. PICK fill \in Fill : fill = FillOf(m, lots)
    BY <2>2
  <2>4. ASSUME NEW o \in Oid, \A k \in DOMAIN expired' : expired'[k] # o
        PROVE  Accounted(o)'
    <3>1. Accounted(o)
      BY <2>1, <2>4, AccountsAre DEF ReportInv
    <3>2. SumFunction(FilledLots(o))' = SumFunction(FilledLots(o)) +
                (IF fill.maker = o THEN fill.lots ELSE 0)
      BY <1>4, <2>1, <2>3, FillAdds
    <3>3. PICK r \in Int : r = SumFunction(RestedLots(o))
      BY <1>4, AccountType
    <3>4. PICK c \in Int : c = SumFunction(CanceledLots(o))
      BY <1>4, AccountType
    <3>5. PICK f \in Int : f = SumFunction(FilledLots(o))
      BY <1>4, AccountType
    <3>6. PICK q \in Int : q = LotsOf(opening, o)
      BY DEF ReportInv, OpeningType
    <3>7. PICK l \in Int : l = LotsOf(resting, o)
      BY <1>3
    <3>8. PICK d \in Int : d = IF o = m THEN lots ELSE 0
      BY <1>2 DEF Lots
    <3>9. l = q + r - c - f
      BY <3>1, <3>3, <3>4, <3>5, <3>6, <3>7 DEF Accounted
    <3>10. SumFunction(FilledLots(o))' = f + d
      BY <2>2, <2>3, <3>2, <3>5, <3>8
    <3>11. LotsOf(resting, o)' = l - d
      <4>1. LotsOf(resting', o) = l - d
        BY <2>1, <3>7, <3>8
      <4>2. QED  BY <4>1 DEF LotsOf
    <3>12. /\ SumFunction(RestedLots(o))' = r /\ SumFunction(CanceledLots(o))' = c
           /\ LotsOf(opening, o)' = q
      BY <1>1, <3>3, <3>4, <3>6, SameReports
    <3>13. l - d = q + r - c - (f + d)
      BY <3>9
    <3>14. QED  BY <3>10, <3>11, <3>12, <3>13 DEF Accounted
  <2>5. MakersAccounted'
    BY <2>4 DEF MakersAccounted, Accounted, RestedLots, CanceledLots, FilledLots
  <2>6. QED  BY <1>1, <2>5, SameReports DEF ReportInv
<1>7. CASE FillWhole(m)
  <2>1. Withdraw(m) /\ expired' = expired /\ fills' = Append(fills, FillOf(m, resting[m].lots))
    BY <1>7 DEF FillWhole
  <2>2. \A o : LotsOf(resting', o) = LotsOf(resting, o) -
                (IF o = m THEN resting[m].lots ELSE 0)
    BY <1>2, <2>1, LotsAfter
  <2>3. QED  BY <1>3, <1>6, <2>1, <2>2
<1>8. CASE FillPart(m)
  <2>1. /\ Shrink(m, resting[m].lots - taker.left) /\ expired' = expired
        /\ fills' = Append(fills, FillOf(m, taker.left)) /\ resting[m].lots > taker.left
    BY <1>8 DEF FillPart
  <2>2. resting[m].lots - taker.left \in Lots /\ taker.left \in Lots
    BY <1>2, <1>3, <2>1, SMTT(30) DEF Lots
  <2>3. PICK lots \in Lots : lots = resting[m].lots - taker.left
    BY <2>2
  <2>4. \A o : LotsOf(resting', o) = IF o = m THEN lots ELSE LotsOf(resting, o)
    BY <1>2, <2>1, <2>3, LotsAfter
  <2>5. \A o : LotsOf(resting', o) = LotsOf(resting, o) - (IF o = m THEN taker.left ELSE 0)
    BY <1>3, <2>3, <2>4
  <2>6. QED  BY <1>6, <2>1, <2>2, <2>5
<1>9. QED  BY <1>1, <1>5, <1>7, <1>8 DEF Meet

\* A batch that arrives, or is forgotten, finds the accounts even.
LEMMA EvenAccounts ==
    ASSUME fills' = <<>>, opening' = resting', OpeningType',
           \A i \in DOMAIN batch' : statuses'[i].kind = "CancelMissing"
    PROVE  ReportInv'
<1>1. WaitingUnreported' /\ OrdersRest'
  BY DEF WaitingUnreported, OrdersRest
<1>2. ASSUME NEW o \in Oid PROVE Accounted(o)'
  <2>1. /\ DOMAIN RestedLots(o)' = {} /\ DOMAIN CanceledLots(o)' = {}
        /\ DOMAIN FilledLots(o)' = {}
    BY DEF RestedLots, CanceledLots, FilledLots, Reported, FillsAgainst
  <2>2. PICK F, G, H : F = RestedLots(o)' /\ G = CanceledLots(o)' /\ H = FilledLots(o)'
    OBVIOUS
  <2>3. SumFunction(F) = 0 /\ SumFunction(G) = 0 /\ SumFunction(H) = 0
    BY <2>1, <2>2, SumOfNone
  <2>4. /\ SumFunction(RestedLots(o))' = 0 /\ SumFunction(CanceledLots(o))' = 0
        /\ SumFunction(FilledLots(o))' = 0
    BY <2>2, <2>3
  <2>5. PICK q \in Int : q = LotsOf(opening, o)'
    BY DEF OpeningType
  <2>6. LotsOf(resting, o)' = q
    BY <2>5 DEF LotsOf
  <2>7. q = q + 0 - 0 - 0
    OBVIOUS
  <2>8. QED  BY <2>4, <2>5, <2>6, <2>7 DEF Accounted
<1>3. MakersAccounted'
  BY <1>2 DEF MakersAccounted, Accounted, RestedLots, CanceledLots, FilledLots
<1>4. QED  BY <1>1, <1>3 DEF ReportInv

\* Nothing has been reported at the start.
LEMMA ReportInvInit == EngineInit => ReportInv
<1> SUFFICES ASSUME EngineInit PROVE ReportInv
  OBVIOUS
<1>1. DOMAIN batch = {} /\ fills = <<>> /\ opening = resting /\ DOMAIN resting = {}
  BY DEF EngineInit, Init
<1>2. WaitingUnreported /\ OrdersRest /\ OpeningType
  BY <1>1 DEF WaitingUnreported, OrdersRest, OpeningType, LotsOf
<1>3. ASSUME NEW o \in Oid PROVE Accounted(o)
  <2>1. /\ DOMAIN RestedLots(o) = {} /\ DOMAIN CanceledLots(o) = {}
        /\ DOMAIN FilledLots(o) = {}
    BY <1>1 DEF RestedLots, CanceledLots, FilledLots, Reported, FillsAgainst
  <2>2. /\ SumFunction(RestedLots(o)) = 0 /\ SumFunction(CanceledLots(o)) = 0
        /\ SumFunction(FilledLots(o)) = 0
    BY <2>1, SumOfNone
  <2>3. LotsOf(opening, o) = 0 /\ LotsOf(resting, o) = 0
    BY <1>1 DEF LotsOf
  <2>4. QED  BY <2>2, <2>3 DEF Accounted
<1>4. QED  BY <1>2, <1>3, AccountsAre DEF ReportInv

\* Every step of the engine keeps the accounts.
LEMMA ReportInvStep ==
    EngineInv /\ EngineInv' /\ ReportInv /\ [EngineNext]_allVars => ReportInv'
<1> SUFFICES ASSUME EngineInv, EngineInv', ReportInv, [EngineNext]_allVars
             PROVE  ReportInv'
  OBVIOUS
<1>0. \A o : LotsOf(resting, o) \in Int
  BY LotsAfter DEF EngineInv, EngineType, TypeOK
<1>1. ASSUME NEW n \in 1 .. MaxBatch, NEW b \in [1 .. n -> Menu], NewBatch(b)
      PROVE  ReportInv'
  <2>1. fills' = <<>> /\ opening' = resting' /\ resting' = resting
    BY <1>1 DEF NewBatch, EngineInv, FillsAreTakers, vars
  <2>2. \A i \in DOMAIN batch' : statuses'[i].kind = "CancelMissing"
    BY <1>1 DEF NewBatch
  <2>3. OpeningType'
    BY <1>0, <2>1 DEF OpeningType, LotsOf
  <2>4. QED  BY <2>1, <2>2, <2>3, EvenAccounts
<1>2. ASSUME NEW i \in DOMAIN batch, Apply(i) PROVE ReportInv'
  <2>1. CASE StartTaker(i)
    <3>1. /\ resting' = resting /\ fills' = fills /\ expired' = expired
          /\ UNCHANGED <<batch, statuses, pass, pos, opening>>
      BY <2>1 DEF StartTaker, StartTake, book, engine
    <3>2. MakersAccounted'
      BY <3>1 DEF ReportInv, MakersAccounted, LotsOf, Reported, FillsAgainst
    <3>3. QED  BY <3>1, <3>2, SameReports DEF ReportInv
  <2>2. QED
    BY <1>2, <2>1, CancelAccounted, RefuseAccounted, RestAccounted, FinishAccounted
       DEF Apply
<1>3. ASSUME NEW o \in Live, MeetMaker(o) PROVE ReportInv'
  BY <1>3, MeetAccounted
<1>4. CASE NextPass
  <2>1. /\ pass \in {"PostOnly", "Cancel", "Taker"} /\ pos' = 1 /\ UNCHANGED vars
        /\ batch' = batch /\ statuses' = statuses /\ opening' = opening
        /\ pass = "PostOnly" => pass' = "Cancel"
        /\ pass = "Cancel" => pass' = "Taker"
        /\ pass = "Taker" => pass' = "Done"
    BY <1>4 DEF NextPass, PassAfter, EngineInv, EngineType
  <2>2. \A j \in DOMAIN batch : Waiting(j)' => Waiting(j)
    <3>1. ASSUME NEW j \in DOMAIN batch, Waiting(j)' PROVE Waiting(j)
      <4>1. Cls(batch[j])' = Cls(batch[j])
        BY <2>1 DEF Cls
      <4>2. QED  BY <2>1, <3>1, <4>1 DEF Waiting
    <3>2. QED  BY <3>1
  <2>3. WaitingUnreported'
    BY <2>1, <2>2 DEF ReportInv, WaitingUnreported
  <2>4. OrdersRest' /\ OpeningType'
    BY <2>1 DEF ReportInv, OrdersRest, OpeningType, LotsOf
  <2>5. MakersAccounted'
    BY <2>1 DEF ReportInv, MakersAccounted, LotsOf, Reported, FillsAgainst, vars
  <2>6. QED  BY <2>3, <2>4, <2>5 DEF ReportInv
<1>5. CASE ReadReport
  <2>1. fills' = <<>> /\ opening' = resting' /\ resting' = resting /\ batch' = <<>>
    BY <1>5 DEF ReadReport, book
  <2>2. \A i \in DOMAIN batch' : statuses'[i].kind = "CancelMissing"
    BY <2>1
  <2>3. OpeningType'
    BY <1>0, <2>1 DEF OpeningType, LotsOf
  <2>4. QED  BY <2>1, <2>2, <2>3, EvenAccounts
<1>6. CASE UNCHANGED allVars
  <2>1. UNCHANGED vars /\ UNCHANGED <<batch, statuses, pass, pos, opening>>
    BY <1>6 DEF allVars, engine
  <2>2. MakersAccounted'
    BY <2>1 DEF ReportInv, MakersAccounted, LotsOf, Reported, FillsAgainst, vars
  <2>3. QED  BY <2>1, <2>2, SameReports DEF ReportInv
<1>7. QED  BY <1>1, <1>2, <1>3, <1>4, <1>5, <1>6 DEF EngineNext, Run

-----------------------------------------------------------------------------
(* The report, of the takers. *)

\* What the report says order o executed, and the fills of it as taker.
ExecutedLots(o) == [i \in Executing(o) |-> statuses[i].lots]
TakenLots(o) == [k \in FillsTaken(o) |-> fills[k].lots]

\* Between takes the two sums agree; within one the fills are ahead by what the
\* taker in hand has taken.
TakeInv ==
    \A o \in Oid :
        /\ taker = Idle \/ taker.oid # o =>
              SumFunction(TakenLots(o)) = SumFunction(ExecutedLots(o))
        /\ \A i \in DOMAIN batch :
              taker # Idle /\ taker.oid = o /\ InHand(i) =>
                  SumFunction(TakenLots(o))
                      = SumFunction(ExecutedLots(o)) + (batch[i].lots - taker.left)

SaidRight(i) ==
    /\ statuses[i].kind = "Filled" => statuses[i].lots = batch[i].lots
    /\ statuses[i].kind \in {"Resting", "IocCanceled"} => statuses[i].lots < batch[i].lots

TakerInv == TakeInv /\ \A i \in DOMAIN batch : SaidRight(i)

\* With no take under way the invariant is the property.
LEMMA TakersAre == TakerInv => TakersAccounted
BY DEF TakerInv, TakeInv, SaidRight, TakersAccounted, ExecutedLots, TakenLots

\* The sums are over parts of the batch and of the fills, of numbers.
LEMMA TakenType ==
    ASSUME EngineInv, NEW o
    PROVE  /\ IsFiniteSet(DOMAIN ExecutedLots(o)) /\ IsFiniteSet(DOMAIN TakenLots(o))
           /\ \A i \in DOMAIN ExecutedLots(o) : ExecutedLots(o)[i] \in Int
           /\ \A k \in DOMAIN TakenLots(o) : TakenLots(o)[k] \in Int
           /\ SumFunction(ExecutedLots(o)) \in Int /\ SumFunction(TakenLots(o)) \in Int
<1>1. /\ batch \in Seq(Menu) /\ fills \in Seq(Fill) /\ statuses \in [DOMAIN batch -> Status]
      /\ MaxLots \in Nat
  BY BookAssumption DEF EngineInv, EngineType, TypeOK, CallType
<1>2. IsFiniteSet(DOMAIN batch) /\ IsFiniteSet(DOMAIN fills)
  <2>1. DOMAIN batch = 1 .. Len(batch) /\ DOMAIN fills = 1 .. Len(fills)
        /\ Len(batch) \in Nat /\ Len(fills) \in Nat
    BY <1>1
  <2>2. QED  BY <2>1, FS_Interval
<1>3. IsFiniteSet(DOMAIN ExecutedLots(o)) /\ IsFiniteSet(DOMAIN TakenLots(o))
  BY <1>2, FS_Subset DEF ExecutedLots, TakenLots, Executing, FillsTaken
<1>4. \A i \in DOMAIN batch : statuses[i].lots \in Int
  BY <1>1 DEF Status
<1>5. \A i \in DOMAIN ExecutedLots(o) : ExecutedLots(o)[i] \in Int
  BY <1>4 DEF ExecutedLots, Executing
<1>6. ASSUME NEW k \in DOMAIN TakenLots(o) PROVE TakenLots(o)[k] \in Int
  <2>1. k \in DOMAIN fills
    BY <1>6 DEF TakenLots, FillsTaken
  <2>2. fills[k] \in Fill
    BY <1>1, <2>1
  <2>3. fills[k].lots \in Int
    BY <1>1, <2>2 DEF Fill, Lots
  <2>4. QED  BY <1>6, <2>3 DEF TakenLots
<1>7. SumFunction(ExecutedLots(o)) \in Int
  BY <1>3, <1>5, SumFunctionIs, SumOverTake DEF SumTakes
<1>8. SumFunction(TakenLots(o)) \in Int
  BY <1>3, <1>6, SumFunctionIs, SumOverTake DEF SumTakes
<1>9. QED  BY <1>3, <1>5, <1>6, <1>7, <1>8

\* A report of an execution adds its lots to those its order executed.
LEMMA ReportExecutes ==
    ASSUME EngineInv, ReportInv, NEW i \in DOMAIN batch, Turn(i),
           pass \in {"PostOnly", "Cancel", "Taker"},
           NEW kind \in Kind, NEW lots \in 0 .. MaxLots, Report(i, kind, lots), NEW o
    PROVE  SumFunction(ExecutedLots(o))' = SumFunction(ExecutedLots(o)) +
             (IF kind \in {"Resting", "Filled", "IocCanceled"} /\ batch[i].oid = o
              THEN lots ELSE 0)
<1>1. /\ batch \in Seq(Menu) /\ statuses \in [DOMAIN batch -> Status]
      /\ pos <= i /\ Cls(batch[i]) = pass /\ lots \in Int
  BY BookAssumption DEF EngineInv, EngineType, Turn
<1>2. /\ batch' = batch
      /\ statuses' = [statuses EXCEPT ![i] = [kind |-> kind, lots |-> lots]]
  BY DEF Report
<1>3. statuses[i].kind = "CancelMissing"
  BY <1>1 DEF ReportInv, WaitingUnreported, Waiting
<1>4. /\ \A j \in DOMAIN batch : j # i => statuses'[j] = statuses[j]
      /\ statuses'[i].kind = kind /\ statuses'[i].lots = lots
  BY <1>1, <1>2
<1>5. PICK F : F = ExecutedLots(o)
  OBVIOUS
<1>6. PICK F2 : F2 = ExecutedLots(o)'
  OBVIOUS
<1>7. /\ IsFiniteSet(DOMAIN F) /\ \A x \in DOMAIN F : F[x] \in Int
      /\ SumFunction(F) \in Int
  BY <1>5, TakenType
<1>8. i \notin DOMAIN F /\ \A x \in DOMAIN F : x \in DOMAIN F2 /\ F2[x] = F[x]
  BY <1>2, <1>3, <1>4, <1>5, <1>6 DEF ExecutedLots, Executing
<1>9. CASE kind \in {"Resting", "Filled", "IocCanceled"} /\ batch[i].oid = o
  <2>1. DOMAIN F2 = DOMAIN F \cup {i}
    BY <1>2, <1>4, <1>5, <1>6, <1>9 DEF ExecutedLots, Executing
  <2>2. F2[i] = lots /\ F2[i] \in Int
    BY <1>1, <1>2, <1>4, <1>6, <1>9 DEF ExecutedLots, Executing
  <2>3. SumFunction(F2) = SumFunction(F) + F2[i]
    BY <1>7, <1>8, <2>1, <2>2, SumOneMore
  <2>4. QED  BY <1>5, <1>6, <1>9, <2>2, <2>3
<1>10. CASE ~(kind \in {"Resting", "Filled", "IocCanceled"} /\ batch[i].oid = o)
  <2>1. DOMAIN F2 = DOMAIN F
    BY <1>2, <1>3, <1>4, <1>5, <1>6, <1>10 DEF ExecutedLots, Executing
  <2>2. F2 = F
    <3>1. F2 = [x \in DOMAIN F2 |-> F2[x]] /\ F = [x \in DOMAIN F |-> F[x]]
      BY <1>5, <1>6 DEF ExecutedLots
    <3>2. QED  BY <1>8, <2>1, <3>1
  <2>3. QED  BY <1>5, <1>6, <1>7, <1>10, <2>2
<1>11. QED  BY <1>9, <1>10

\* A fill adds its lots to those of its taker.
LEMMA FillTakes ==
    ASSUME EngineInv, NEW fill \in Fill, fills' = Append(fills, fill), NEW o
    PROVE  SumFunction(TakenLots(o))' = SumFunction(TakenLots(o)) +
                (IF fill.taker = o THEN fill.lots ELSE 0)
<1>1. fills \in Seq(Fill) /\ Len(fills) \in Nat /\ fill.lots \in Int
  BY BookAssumption DEF EngineInv, EngineType, TypeOK, CallType, Fill, Lots
<1>2. PICK n : n = Len(fills) + 1
  OBVIOUS
<1>3. /\ DOMAIN fills' = DOMAIN fills \cup {n} /\ n \notin DOMAIN fills
      /\ \A k \in DOMAIN fills : fills'[k] = fills[k]
      /\ fills'[n] = fill
  BY <1>1, <1>2
<1>4. PICK F : F = TakenLots(o)
  OBVIOUS
<1>5. PICK F2 : F2 = TakenLots(o)'
  OBVIOUS
<1>6. /\ IsFiniteSet(DOMAIN F) /\ \A x \in DOMAIN F : F[x] \in Int /\ SumFunction(F) \in Int
  BY <1>4, TakenType
<1>7. n \notin DOMAIN F /\ \A x \in DOMAIN F : x \in DOMAIN F2 /\ F2[x] = F[x]
  BY <1>3, <1>4, <1>5 DEF TakenLots, FillsTaken
<1>8. CASE fill.taker = o
  <2>1. DOMAIN F2 = DOMAIN F \cup {n} /\ F2[n] = fill.lots
    BY <1>3, <1>4, <1>5, <1>8 DEF TakenLots, FillsTaken
  <2>2. SumFunction(F2) = SumFunction(F) + F2[n]
    BY <1>1, <1>6, <1>7, <2>1, SumOneMore
  <2>3. QED  BY <1>4, <1>5, <1>8, <2>1, <2>2
<1>9. CASE fill.taker # o
  <2>1. DOMAIN F2 = DOMAIN F
    BY <1>3, <1>4, <1>5, <1>9 DEF TakenLots, FillsTaken
  <2>2. F2 = F
    <3>1. F2 = [x \in DOMAIN F2 |-> F2[x]] /\ F = [x \in DOMAIN F |-> F[x]]
      BY <1>4, <1>5 DEF TakenLots
    <3>2. QED  BY <1>7, <2>1, <3>1
  <2>3. SumFunction(TakenLots(o)) \in Int
    BY TakenType
  <2>4. QED  BY <1>4, <1>5, <1>9, <2>2, <2>3
<1>10. QED  BY <1>8, <1>9

\* A report that is no execution, or one of no lots, outside a take.
LEMMA NothingTaken ==
    ASSUME EngineInv, ReportInv, TakerInv, NEW i \in DOMAIN batch, Turn(i),
           pass \in {"PostOnly", "Cancel", "Taker"}, taker = Idle, taker' = Idle, fills' = fills,
           NEW kind \in Kind, NEW lots \in 0 .. MaxLots, Report(i, kind, lots),
           \/ kind \notin {"Resting", "Filled", "IocCanceled"}
           \/ kind = "Resting" /\ lots = 0 /\ 0 < batch[i].lots
    PROVE  TakerInv'
<1>1. ASSUME NEW o \in Oid
      PROVE  SumFunction(TakenLots(o))' = SumFunction(ExecutedLots(o))'
  <2>1. SumFunction(TakenLots(o)) = SumFunction(ExecutedLots(o))
    BY DEF TakerInv, TakeInv
  <2>2. SumFunction(TakenLots(o))' = SumFunction(TakenLots(o))
    BY DEF TakenLots, FillsTaken
  <2>3. SumFunction(ExecutedLots(o))' = SumFunction(ExecutedLots(o)) + 0
    BY ReportExecutes
  <2>4. SumFunction(ExecutedLots(o)) \in Int
    BY TakenType
  <2>5. QED  BY <2>1, <2>2, <2>3, <2>4
<1>2. TakeInv'
  BY <1>1 DEF TakeInv
<1>3. \A j \in DOMAIN batch' : SaidRight(j)'
  BY DEF Report, EngineInv, EngineType, TakerInv, SaidRight
<1>4. QED  BY <1>2, <1>3 DEF TakerInv

\* A take that ends reports what it took.
LEMMA TakeReported ==
    ASSUME EngineInv, ReportInv, TakerInv, NEW i \in DOMAIN batch, Turn(i), Exhausted,
           taker' = Idle, fills' = fills,
           NEW kind \in {"Resting", "Filled", "IocCanceled"}, Report(i, kind, Filled(i)),
           IF kind = "Filled" THEN taker.left = 0 ELSE taker.left > 0
    PROVE  TakerInv'
<1>1. /\ InHand(i) /\ Filled(i) \in 0 .. MaxLots /\ taker # Idle /\ taker.oid = batch[i].oid
      /\ pass = "Taker" /\ taker.left \in 0 .. MaxLots
  BY FinishFacts DEF InHand, Exhausted
<1>2. batch[i].lots \in Int /\ taker.left \in Int /\ MaxLots \in Nat
  BY <1>1, BookAssumption, ActionCases DEF EngineInv, EngineType, InHand
<1>3. Filled(i) = batch[i].lots - taker.left
  BY DEF Filled
<1>4. kind \in Kind
  BY DEF Kind
<1>5. ASSUME NEW o \in Oid
      PROVE  SumFunction(TakenLots(o))' = SumFunction(ExecutedLots(o))'
  <2>1. SumFunction(TakenLots(o))' = SumFunction(TakenLots(o))
    BY DEF TakenLots, FillsTaken
  <2>2. SumFunction(ExecutedLots(o)) \in Int
    BY TakenType
  <2>3. SumFunction(ExecutedLots(o))'
          = SumFunction(ExecutedLots(o)) + (IF batch[i].oid = o THEN Filled(i) ELSE 0)
    BY <1>1, <1>4, ReportExecutes
  <2>4. CASE batch[i].oid = o
    <3>1. SumFunction(TakenLots(o))
            = SumFunction(ExecutedLots(o)) + (batch[i].lots - taker.left)
      BY <1>1, <2>4 DEF TakerInv, TakeInv
    <3>2. QED  BY <1>3, <2>1, <2>3, <2>4, <3>1
  <2>5. CASE batch[i].oid # o
    <3>1. SumFunction(TakenLots(o)) = SumFunction(ExecutedLots(o))
      BY <1>1, <2>5 DEF TakerInv, TakeInv
    <3>2. QED  BY <2>1, <2>2, <2>3, <2>5, <3>1
  <2>6. QED  BY <2>4, <2>5
<1>6. TakeInv'
  BY <1>5 DEF TakeInv
<1>7. IF kind = "Filled" THEN Filled(i) = batch[i].lots ELSE Filled(i) < batch[i].lots
  BY <1>2, <1>3
<1>8. \A j \in DOMAIN batch' : SaidRight(j)'
  BY <1>7 DEF Report, EngineInv, EngineType, TakerInv, SaidRight
<1>9. QED  BY <1>6, <1>8 DEF TakerInv

\* Nothing but the call changes.
LEMMA SameTakes ==
    ASSUME UNCHANGED <<batch, statuses, fills>>
    PROVE  /\ \A o : /\ SumFunction(TakenLots(o))' = SumFunction(TakenLots(o))
                     /\ SumFunction(ExecutedLots(o))' = SumFunction(ExecutedLots(o))
           /\ (\A i \in DOMAIN batch : SaidRight(i)) => \A i \in DOMAIN batch' : SaidRight(i)'
BY DEF TakenLots, FillsTaken, ExecutedLots, Executing, SaidRight

\* A take begins with nothing taken.
LEMMA StartTaken ==
    ASSUME EngineInv, TakerInv, NEW i \in DOMAIN batch, StartTaker(i)
    PROVE  TakerInv'
<1>1. /\ Turn(i) /\ taker = Idle /\ taker'.oid = batch[i].oid /\ taker'.left = batch[i].lots
      /\ UNCHANGED <<batch, statuses, pass, pos, fills>> /\ pass = "Taker"
  BY DEF StartTaker, StartTake, engine
<1>2. batch[i].lots \in Int
  <2>1. batch[i].op = "Order"
    BY <1>1, ActionCases DEF EngineInv, EngineType, Turn, Cls
  <2>2. QED  BY <2>1, BookAssumption, ActionCases DEF EngineInv, EngineType
<1>3. \A o \in Oid : SumFunction(TakenLots(o))' = SumFunction(ExecutedLots(o))'
  BY <1>1, SameTakes DEF TakerInv, TakeInv
<1>4. ASSUME NEW j \in DOMAIN batch', InHand(j)' PROVE batch'[j].lots - taker'.left = 0
  <2>1. j = i
    BY <1>1, <1>4, TurnUnique DEF EngineInv, EngineType, InHand, Turn
  <2>2. QED  BY <1>1, <1>2, <2>1
<1>5. \A o \in Oid : SumFunction(ExecutedLots(o))' \in Int
  BY <1>1, SameTakes, TakenType
<1>6. TakeInv'
  BY <1>3, <1>4, <1>5 DEF TakeInv
<1>7. QED  BY <1>1, <1>6, SameTakes DEF TakerInv

\* What a turn of the loop fills, the taker has less to take.
LEMMA MeetTaken ==
    ASSUME EngineInv, EngineInv', TakerInv, NEW m \in Live, MeetMaker(m)
    PROVE  TakerInv'
<1>1. Meet(m) /\ UNCHANGED <<batch, statuses, pass, pos, opening>>
  BY DEF MeetMaker, engine
<1>2. /\ taker \in Taker /\ taker # Idle /\ m \in Oid /\ resting[m] \in Order /\ MaxLots \in Nat
  BY <1>1, BookAssumption
     DEF EngineInv, EngineType, TypeOK, BookType, CallType, Meet, ExpireOwn, FillWhole,
         FillPart, Reaches, Live
<1>3. resting[m].lots \in Lots /\ resting[m].lots \in Nat /\ taker.left \in Nat /\ taker.oid \in Oid
  BY <1>2 DEF Order, Lots, Taker
<1>4. ASSUME taker' = taker, fills' = fills PROVE TakerInv'
  <2>1. /\ \A o : /\ SumFunction(TakenLots(o))' = SumFunction(TakenLots(o))
                  /\ SumFunction(ExecutedLots(o))' = SumFunction(ExecutedLots(o))
        /\ \A i \in DOMAIN batch' : SaidRight(i)'
    BY <1>1, <1>4, SameTakes DEF TakerInv
  <2>2. PICK i \in DOMAIN batch : InHand(i)
    BY <1>2 DEF EngineInv, TakerInHand
  <2>3. \A j \in DOMAIN batch' : InHand(j)' => j = i
    BY <1>1, <2>2, TurnUnique DEF EngineInv, EngineType, InHand, Turn
  <2>4. TakeInv'
    BY <1>1, <1>4, <2>1, <2>2, <2>3 DEF TakerInv, TakeInv
  <2>5. QED  BY <2>1, <2>4 DEF TakerInv
<1>5. ASSUME NEW lots \in Lots, fills' = Append(fills, FillOf(m, lots)),
             taker' # Idle, taker'.oid = taker.oid, taker'.left = taker.left - lots
      PROVE  TakerInv'
  <2>1. PICK fill \in Fill : fill = FillOf(m, lots) /\ fill.taker = taker.oid /\ fill.lots = lots
    <3>1. FillOf(m, lots) \in Fill
      BY <1>2, <1>3 DEF FillOf, Fill, Order
    <3>2. FillOf(m, lots).taker = taker.oid /\ FillOf(m, lots).lots = lots
      BY DEF FillOf
    <3>3. QED  BY <3>1, <3>2
  <2>2. PICK i \in DOMAIN batch : InHand(i)
    BY <1>2 DEF EngineInv, TakerInHand
  <2>3. \A j \in DOMAIN batch' : InHand(j)' => j = i
    BY <1>1, <2>2, TurnUnique DEF EngineInv, EngineType, InHand, Turn
  <2>4. batch[i].lots \in Int /\ lots \in Int
    BY <1>2, <2>2, ActionCases DEF EngineInv, EngineType, InHand, Lots
  <2>5. ASSUME NEW o \in Oid
        PROVE  /\ SumFunction(TakenLots(o))' = SumFunction(TakenLots(o)) +
                        (IF taker.oid = o THEN lots ELSE 0)
               /\ SumFunction(ExecutedLots(o))' = SumFunction(ExecutedLots(o))
               /\ SumFunction(ExecutedLots(o)) \in Int /\ SumFunction(TakenLots(o)) \in Int
    <3>1. SumFunction(TakenLots(o))' = SumFunction(TakenLots(o)) +
                        (IF fill.taker = o THEN fill.lots ELSE 0)
      BY <1>5, <2>1, FillTakes
    <3>2. SumFunction(ExecutedLots(o))' = SumFunction(ExecutedLots(o))
      BY <1>1 DEF ExecutedLots, Executing
    <3>3. QED  BY <2>1, <3>1, <3>2, TakenType
  <2>6. ASSUME NEW o \in Oid, taker'.oid # o
        PROVE  SumFunction(TakenLots(o))' = SumFunction(ExecutedLots(o))'
    <3>1. SumFunction(TakenLots(o)) = SumFunction(ExecutedLots(o))
      BY <1>5, <2>6 DEF TakerInv, TakeInv
    <3>2. QED  BY <1>5, <2>5, <2>6, <3>1
  <2>7. ASSUME NEW o \in Oid, taker'.oid = o
        PROVE  SumFunction(TakenLots(o))'
                 = SumFunction(ExecutedLots(o))' + (batch'[i].lots - taker'.left)
    <3>1. SumFunction(TakenLots(o)) = SumFunction(ExecutedLots(o)) + (batch[i].lots - taker.left)
      BY <1>2, <1>5, <2>2, <2>7 DEF TakerInv, TakeInv
    <3>2. SumFunction(TakenLots(o))' = SumFunction(TakenLots(o)) + lots
      BY <1>5, <2>5, <2>7
    <3>3. QED  BY <1>1, <1>3, <1>5, <2>4, <2>5, <3>1, <3>2
  <2>8. TakeInv'
    BY <1>5, <2>3, <2>6, <2>7 DEF TakeInv
  <2>9. \A j \in DOMAIN batch' : SaidRight(j)'
    BY <1>1 DEF TakerInv, SaidRight
  <2>10. QED  BY <2>8, <2>9 DEF TakerInv
<1>6. CASE ExpireOwn(m)
  BY <1>4, <1>6 DEF ExpireOwn
<1>7. CASE FillWhole(m)
  <2>1. /\ fills' = Append(fills, FillOf(m, resting[m].lots))
        /\ taker' = [taker EXCEPT !.left = @ - resting[m].lots]
    BY <1>7 DEF FillWhole
  <2>2. taker'.oid = taker.oid /\ taker'.left = taker.left - resting[m].lots
    BY <1>2, <2>1 DEF Taker
  <2>4. taker.left - resting[m].lots \in 0 .. MaxLots
    BY <1>2, <1>3, <1>7 DEF FillWhole, Taker
  <2>5. taker' \in Taker
    BY <1>2, <2>1, <2>4 DEF Taker
  <2>6. taker' # Idle
    BY <2>5, BookAssumption
  <2>3. QED  BY <1>3, <1>5, <2>1, <2>2, <2>6
<1>8. CASE FillPart(m)
  <2>1. /\ fills' = Append(fills, FillOf(m, taker.left))
        /\ taker' = [taker EXCEPT !.left = 0]
        /\ taker.left > 0
    BY <1>8 DEF FillPart, Reaches
  <2>2. taker.left \in Lots
    BY <1>2, <1>3, <2>1 DEF Taker, Lots
  <2>3. taker'.oid = taker.oid /\ taker'.left = taker.left - taker.left
    BY <1>2, <1>3, <2>1 DEF Taker
  <2>4. taker' \in Taker
    BY <1>2, <2>1 DEF Taker
  <2>5. taker' # Idle
    BY <2>4, BookAssumption
  <2>6. QED  BY <1>5, <2>1, <2>2, <2>3, <2>5
<1>9. QED  BY <1>1, <1>6, <1>7, <1>8 DEF Meet

\* Nothing has been reported at the start, of a batch either.
LEMMA NothingReported ==
    ASSUME fills' = <<>>, taker' = Idle, \A i \in DOMAIN batch' : statuses'[i].kind = "CancelMissing"
    PROVE  TakerInv'
<1>1. ASSUME NEW o \in Oid
      PROVE  SumFunction(TakenLots(o))' = SumFunction(ExecutedLots(o))'
  <2>1. DOMAIN TakenLots(o)' = {} /\ DOMAIN ExecutedLots(o)' = {}
    BY DEF TakenLots, FillsTaken, ExecutedLots, Executing
  <2>2. PICK F, G : F = TakenLots(o)' /\ G = ExecutedLots(o)'
    OBVIOUS
  <2>3. SumFunction(F) = 0 /\ SumFunction(G) = 0
    BY <2>1, <2>2, SumOfNone
  <2>4. QED  BY <2>2, <2>3
<1>2. TakeInv'
  BY <1>1 DEF TakeInv
<1>3. QED  BY <1>2 DEF TakerInv, SaidRight

LEMMA TakerInvInit == EngineInit => TakerInv
<1> SUFFICES ASSUME EngineInit PROVE TakerInv
  OBVIOUS
<1>1. DOMAIN batch = {} /\ fills = <<>> /\ taker = Idle
  BY DEF EngineInit, Init
<1>2. ASSUME NEW o \in Oid PROVE SumFunction(TakenLots(o)) = SumFunction(ExecutedLots(o))
  <2>1. DOMAIN TakenLots(o) = {} /\ DOMAIN ExecutedLots(o) = {}
    BY <1>1 DEF TakenLots, FillsTaken, ExecutedLots, Executing
  <2>2. QED  BY <2>1, SumOfNone
<1>3. QED  BY <1>1, <1>2 DEF TakerInv, TakeInv

\* No take is under way outside the last pass, nor when a pass ends.
LEMMA NoTaker ==
    ASSUME EngineInv
    PROVE  /\ pass # "Taker" => taker = Idle
           /\ NextPass => taker = Idle
BY DEF EngineInv, TakerInHand, InHand, NextPass, Turn, EngineType

\* Every step of the engine keeps the takers' accounts.
LEMMA TakerInvStep ==
    EngineInv /\ EngineInv' /\ ReportInv /\ TakerInv /\ [EngineNext]_allVars => TakerInv'
<1> SUFFICES ASSUME EngineInv, EngineInv', ReportInv, TakerInv, [EngineNext]_allVars
             PROVE  TakerInv'
  OBVIOUS
<1>1. ASSUME NEW n \in 1 .. MaxBatch, NEW b \in [1 .. n -> Menu], NewBatch(b)
      PROVE  TakerInv'
  <2>1. fills' = <<>> /\ taker' = Idle
    BY <1>1, NoTaker DEF NewBatch, EngineInv, FillsAreTakers, vars
  <2>2. \A i \in DOMAIN batch' : statuses'[i].kind = "CancelMissing"
    BY <1>1 DEF NewBatch
  <2>3. QED  BY <2>1, <2>2, NothingReported
<1>2. ASSUME NEW i \in DOMAIN batch, CancelOrder(i) PROVE TakerInv'
  <2>1. pass = "Cancel" /\ Turn(i) /\ taker = Idle
    BY <1>2, NoTaker DEF CancelOrder, Turn, Cls
  <2>2. CASE batch[i].oid \notin Live
    <3>1. Report(i, "CancelMissing", 0) /\ UNCHANGED vars
      BY <1>2, <2>2 DEF CancelOrder, Cancel
    <3>2. "CancelMissing" \in Kind /\ 0 \in 0 .. MaxLots
      BY BookAssumption DEF Kind
    <3>3. QED  BY <2>1, <3>1, <3>2, NothingTaken DEF vars
  <2>3. CASE batch[i].oid \in Live
    <3>1. /\ Report(i, "Canceled", resting[batch[i].oid].lots) /\ Cancel(batch[i].oid)
      BY <1>2, <2>3 DEF CancelOrder
    <3>2. fills' = fills /\ taker' = Idle
      BY <2>1, <3>1 DEF Cancel, matched
    <3>3. resting[batch[i].oid].lots \in 0 .. MaxLots /\ "Canceled" \in Kind
      BY <2>3, BookAssumption DEF EngineInv, EngineType, TypeOK, BookType, Live, Order, Lots, Kind
    <3>4. QED  BY <2>1, <3>1, <3>2, <3>3, NothingTaken
  <2>4. QED  BY <2>2, <2>3
<1>3. ASSUME NEW i \in DOMAIN batch, RefuseOrder(i) PROVE TakerInv'
  <2>1. /\ Turn(i) /\ taker = Idle /\ Report(i, Refusal(batch[i]), 0) /\ UNCHANGED vars
        /\ Refusal(batch[i]) \in {"ZeroSize", "DuplicateOid", "AloRejected"}
        /\ batch[i].op = "Order"
    BY <1>3 DEF RefuseOrder, Refusal
  <2>2. Refusal(batch[i]) \in Kind /\ 0 \in 0 .. MaxLots
        /\ Refusal(batch[i]) \notin {"Resting", "Filled", "IocCanceled"}
    BY <2>1, BookAssumption DEF Kind
  <2>3. pass \in {"PostOnly", "Cancel", "Taker"} /\ taker' = Idle /\ fills' = fills
    BY <2>1 DEF Turn, Cls, vars
  <2>4. QED  BY <2>1, <2>2, <2>3, NothingTaken
<1>4. ASSUME NEW i \in DOMAIN batch, RestPostOnly(i) PROVE TakerInv'
  <2>1. /\ Turn(i) /\ pass = "PostOnly" /\ taker = Idle /\ taker' = Idle /\ fills' = fills
        /\ Report(i, "Resting", 0) /\ Refusal(batch[i]) = "None"
    BY <1>4, NoTaker DEF RestPostOnly, Add, matched
  <2>2. batch[i].lots # 0 /\ batch[i].op = "Order"
    BY <2>1, ActionCases DEF Refusal, Turn, Cls, EngineInv, EngineType
  <2>3. batch[i].lots \in Nat /\ "Resting" \in Kind /\ 0 \in 0 .. MaxLots
    BY <2>2, BookAssumption, ActionCases DEF EngineInv, EngineType, Kind
  <2>4. 0 < batch[i].lots
    BY <2>2, <2>3
  <2>5. QED  BY <2>1, <2>3, <2>4, NothingTaken
<1>5. ASSUME NEW i \in DOMAIN batch, StartTaker(i) PROVE TakerInv'
  BY <1>5, StartTaken
<1>6. ASSUME NEW i \in DOMAIN batch, FinishFilled(i) PROVE TakerInv'
  BY <1>6, TakeReported DEF FinishFilled
<1>7. ASSUME NEW i \in DOMAIN batch, RestRemainder(i) PROVE TakerInv'
  BY <1>7, TakeReported DEF RestRemainder
<1>8. ASSUME NEW i \in DOMAIN batch, DropRemainder(i) PROVE TakerInv'
  BY <1>8, TakeReported DEF DropRemainder
<1>9. ASSUME NEW o \in Live, MeetMaker(o) PROVE TakerInv'
  BY <1>9, MeetTaken
<1>10. CASE NextPass
  <2>1. taker = Idle /\ taker' = Idle /\ UNCHANGED <<batch, statuses, fills>>
    BY <1>10, NoTaker DEF NextPass, vars
  <2>2. QED  BY <2>1, SameTakes DEF TakerInv, TakeInv
<1>11. CASE ReadReport
  <2>1. fills' = <<>> /\ batch' = <<>> /\ taker' = Idle
    BY <1>11, NoTaker DEF ReadReport
  <2>2. QED  BY <2>1, NothingReported
<1>12. CASE UNCHANGED allVars
  <2>1. UNCHANGED <<batch, statuses, fills, taker, pass, pos, resting>>
    BY <1>12 DEF allVars, engine, vars, book
  <2>2. \A i : InHand(i)' = InHand(i)
    BY <2>1 DEF InHand, Turn, Cls, Live
  <2>3. QED  BY <2>1, <2>2, SameTakes DEF TakerInv, TakeInv
<1>13. QED
  BY <1>1, <1>2, <1>3, <1>4, <1>5, <1>6, <1>7, <1>8, <1>9, <1>10, <1>11, <1>12
     DEF EngineNext, Run, Apply

\* For any batch on any book: the statuses and fills, replayed on the book the
\* batch found, give the lots of every order that was not expired, and the lots
\* that an order's statuses say it executed are those of its fills as taker.
THEOREM ReportsAreComplete == EngineSpec => []ReportAccounts
<1>1. EngineSpec => []EngineInv
  BY EngineInvInit, EngineInvStep, PTL DEF EngineSpec
<1>2. EngineSpec => []ReportInv
  BY <1>1, ReportInvInit, ReportInvStep, PTL DEF EngineSpec
<1>3. EngineSpec => []TakerInv
  BY <1>1, <1>2, TakerInvInit, TakerInvStep, PTL DEF EngineSpec
<1>4. ReportInv /\ TakerInv => ReportAccounts
  BY TakersAre DEF ReportInv, ReportAccounts
<1>5. QED  BY <1>2, <1>3, <1>4, PTL
=============================================================================
