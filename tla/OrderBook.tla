------------------------------- MODULE OrderBook -------------------------------
(***************************************************************************)
(* The limit order book of crates/hl-replay/src/book.rs as its callers see *)
(* it: which orders rest, and who is ahead of whom in the queue of a price *)
(* level.  The slab, its free list and the linked queues that store this   *)
(* are the business of SlabBook, which implements this module.             *)
(*                                                                         *)
(* Book::take is a loop that meets one maker per turn; each turn is a step *)
(* here, so "taker" is the call in progress (Idle between calls).          *)
(***************************************************************************)
EXTENDS Integers, Sequences

CONSTANTS
    Oid,        \* order ids
    User,       \* wallets
    Tick,       \* prices, in ticks
    MaxLots,    \* the largest size an order may have
    Idle        \* no Book::take in progress

Side == {"Bid", "Ask"}
Stp == {"Off", "ExpireMaker"}
Lots == 1 .. MaxLots
Order == [user : User, side : Side, tick : Tick, lots : Lots]
Taker == [oid : Oid, user : User, side : Side, limit : Tick,
          left : 0 .. MaxLots, stp : Stp]
Fill == [maker : Oid, taker : Oid, tick : Tick, lots : Lots]

ASSUME BookAssumption ==
    /\ Tick \subseteq Int
    /\ MaxLots \in Nat \ {0}
    /\ Idle \notin Taker

VARIABLES
    resting,    \* the orders on the book, by id
    ahead,      \* <<p, o>>: p stands before o in the queue of their level
    taker,      \* the Book::take in progress
    fills,      \* MatchOut.fills
    expired     \* MatchOut.stp_canceled

book == <<resting, ahead>>
matched == <<fills, expired>>
vars == <<resting, ahead, taker, fills, expired>>

-----------------------------------------------------------------------------
(* Reading the book. *)

Opposite(side) == IF side = "Bid" THEN "Ask" ELSE "Bid"

\* Sorts a side worst to best; -tick - 1 is the two's complement !tick.
Key(side, tick) == IF side = "Bid" THEN tick ELSE -tick - 1

Live == DOMAIN resting
KeyOf(o) == Key(resting[o].side, resting[o].tick)
OnSide(side) == {o \in Live : resting[o].side = side}
AtLevel(side, tick) == {o \in OnSide(side) : resting[o].tick = tick}

\* Not the code: an equal price does not cross.
CrossesStrictly(side, tick) ==
    \E o \in OnSide(Opposite(side)) : KeyOf(o) > Key(Opposite(side), tick)

\* Would an order on "side" at "tick" execute against the other side?
Crosses(side, tick) ==
    \E o \in OnSide(Opposite(side)) : KeyOf(o) >= Key(Opposite(side), tick)

\* Not the code: any order of the best level may be met.
BestPriced(o) ==
    \A p \in OnSide(resting[o].side) : KeyOf(p) <= KeyOf(o)

\* o is the head of the best level of its side.
First(o) ==
    \A p \in OnSide(resting[o].side) \ {o} :
        KeyOf(p) < KeyOf(o) \/ <<o, p>> \in ahead

-----------------------------------------------------------------------------
(* Changing the book. *)

Insert(oid, order) ==
    /\ resting' = [o \in Live \cup {oid} |-> IF o = oid THEN order ELSE resting[o]]
    /\ ahead' = ahead \cup (AtLevel(order.side, order.tick) \X {oid})

\* Not the code: the links of an order that leaves are not cleared.
WithdrawLinked(oid) ==
    /\ resting' = [o \in Live \ {oid} |-> resting[o]]
    /\ UNCHANGED ahead

Withdraw(oid) ==
    /\ resting' = [o \in Live \ {oid} |-> resting[o]]
    /\ ahead' = {pair \in ahead : pair[1] # oid /\ pair[2] # oid}

\* Not the code: a reduced order goes to the back of its level.
ShrinkToBack(oid, lots) ==
    /\ resting' = [resting EXCEPT ![oid] = [@ EXCEPT !.lots = lots]]
    /\ LET others == AtLevel(resting[oid].side, resting[oid].tick) \ {oid}
       IN  ahead' = {pair \in ahead : pair[1] # oid} \cup (others \X {oid})

Shrink(oid, lots) ==
    /\ resting' = [resting EXCEPT ![oid] = [@ EXCEPT !.lots = lots]]
    /\ UNCHANGED ahead

-----------------------------------------------------------------------------
(* The public operations. *)

Add(oid, order) ==
    /\ taker = Idle
    /\ oid \notin Live
    /\ UNCHANGED taker
    /\ UNCHANGED matched
    /\ Insert(oid, order)

Cancel(oid) ==
    /\ taker = Idle
    /\ oid \in Live
    /\ UNCHANGED taker
    /\ UNCHANGED matched
    /\ Withdraw(oid)

\* Not the code: an order reduced to nothing stays.
ReduceInPlace(oid, lots) ==
    /\ taker = Idle
    /\ oid \in Live
    /\ lots \in 0 .. resting[oid].lots
    /\ UNCHANGED <<taker, fills, expired>>
    /\ Shrink(oid, lots)

\* Shrinking keeps the place in the queue; to zero, it is a cancel.
Reduce(oid, lots) ==
    /\ taker = Idle
    /\ oid \in Live
    /\ lots \in 0 .. resting[oid].lots
    /\ UNCHANGED taker
    /\ UNCHANGED matched
    /\ IF lots = 0 THEN Withdraw(oid) ELSE Shrink(oid, lots)

StartTake(oid, user, side, limit, lots, stp) ==
    /\ taker = Idle
    /\ taker' = [oid |-> oid, user |-> user, side |-> side, limit |-> limit,
                 left |-> lots, stp |-> stp]
    /\ UNCHANGED book

Take(oid, user, side, limit, lots, stp) ==
    /\ StartTake(oid, user, side, limit, lots, stp)
    /\ UNCHANGED <<fills, expired>>

-----------------------------------------------------------------------------
(* One turn of the matching loop, at the maker the taker reaches. *)

Reaches(o) ==
    /\ taker # Idle
    /\ taker.left > 0
    /\ o \in OnSide(Opposite(taker.side))
    /\ KeyOf(o) >= Key(Opposite(taker.side), taker.limit)
    /\ First(o)

SelfTrade(o) == taker.stp = "ExpireMaker" /\ resting[o].user = taker.user

FillOf(o, lots) ==
    [maker |-> o, taker |-> taker.oid, tick |-> resting[o].tick, lots |-> lots]

ExpireOwn(o) ==
    /\ Reaches(o)
    /\ SelfTrade(o)
    /\ expired' = Append(expired, o)
    /\ Withdraw(o)
    /\ UNCHANGED <<taker, fills>>

FillWhole(o) ==
    /\ Reaches(o)
    /\ ~SelfTrade(o)
    /\ resting[o].lots <= taker.left
    /\ fills' = Append(fills, FillOf(o, resting[o].lots))
    /\ taker' = [taker EXCEPT !.left = @ - resting[o].lots]
    /\ Withdraw(o)
    /\ UNCHANGED expired

\* The taker is used up inside this maker, which keeps its place.
FillPart(o) ==
    /\ Reaches(o)
    /\ ~SelfTrade(o)
    /\ resting[o].lots > taker.left
    /\ fills' = Append(fills, FillOf(o, taker.left))
    /\ taker' = [taker EXCEPT !.left = 0]
    /\ Shrink(o, resting[o].lots - taker.left)
    /\ UNCHANGED expired

Meet(o) == ExpireOwn(o) \/ FillWhole(o) \/ FillPart(o)

Exhausted ==
    /\ taker # Idle
    /\ taker.left = 0 \/ ~Crosses(taker.side, taker.limit)

\* The caller reads its MatchOut and clears it for the next call.
Return ==
    /\ Exhausted
    /\ taker' = Idle
    /\ fills' = <<>>
    /\ expired' = <<>>
    /\ UNCHANGED book

-----------------------------------------------------------------------------

Init ==
    /\ resting = [o \in {} |-> o]
    /\ ahead = {}
    /\ taker = Idle
    /\ fills = <<>>
    /\ expired = <<>>

Next ==
    \/ \E oid \in Oid, order \in Order : Add(oid, order)
    \/ \E oid \in Oid : Cancel(oid)
    \/ \E oid \in Oid, lots \in 0 .. MaxLots : Reduce(oid, lots)
    \/ \E oid \in Oid, user \in User, side \in Side, limit \in Tick,
          lots \in Lots, stp \in Stp : Take(oid, user, side, limit, lots, stp)
    \/ \E o \in Live : Meet(o)
    \/ Return

Spec == Init /\ [][Next]_vars

-----------------------------------------------------------------------------

BookType ==
    /\ Live \subseteq Oid
    /\ resting \in [Live -> Order]
    /\ ahead \subseteq Oid \X Oid

CallType ==
    /\ taker \in Taker \cup {Idle}
    /\ fills \in Seq(Fill)
    /\ expired \in Seq(Oid)

\* The values the variables take: no resting order is empty, no fill is empty
\* and a taker never has less than nothing left (Lots is an unsigned type in
\* types.rs:12, so an underflow would wrap).
TypeOK == BookType /\ CallType

\* Queue positions relate live orders of one level only: no dead order keeps a
\* place, and no order stands before one of another price.
QueuesAreLevels ==
    \A o, p \in Oid : <<o, p>> \in ahead =>
        /\ o \in Live /\ p \in Live /\ o # p
        /\ resting[o].side = resting[p].side
        /\ resting[o].tick = resting[p].tick

\* Any two orders of one level are ordered, one way only.
QueuesAreTotal ==
    \A o, p \in Live :
        (o # p /\ resting[o].side = resting[p].side
               /\ resting[o].tick = resting[p].tick)
        => (<<o, p>> \in ahead <=> <<p, o>> \notin ahead)

\* Being ahead is transitive, so every level has exactly one head and the
\* matching loop can never find itself without a maker to meet.
QueuesAreTransitive ==
    \A o, p, q \in Oid :
        (<<o, p>> \in ahead /\ <<p, q>> \in ahead) => <<o, q>> \in ahead

\* Each level is a queue (book.rs:1-8, "A level is a FIFO queue"): the order in
\* which Book::take drains it is always determined, whatever was cancelled from
\* its middle or reduced in place before.
QueueOrder == QueuesAreLevels /\ QueuesAreTotal /\ QueuesAreTransitive

\* A queue position is never gained from an order that stays: two orders that
\* both survive a step keep their relative order ("keeping its queue position",
\* book.rs:207).
PositionsKept ==
    [][\A o, p \in Live : (o \in Live' /\ p \in Live') =>
          (<<o, p>> \in ahead' <=> <<o, p>> \in ahead)]_vars
=============================================================================
