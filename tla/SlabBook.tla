------------------------------- MODULE SlabBook -------------------------------
(***************************************************************************)
(* How crates/hl-replay/src/book.rs stores the book: a slab of nodes with  *)
(* a free list, one doubly linked queue per price level threaded through   *)
(* it, cached totals per level, and an index from order ids to slots.      *)
(* Every operation does the pointer work of the code; a freed slot keeps   *)
(* its stale contents until it is reused.  It implements OrderBook.        *)
(***************************************************************************)
EXTENDS Integers, Sequences, FiniteSetsExt

CONSTANTS
    Oid, User, Tick, MaxLots, Idle,     \* as in OrderBook
    Orders,     \* the orders that are added
    Takers      \* the calls of Book::take

VARIABLES
    nodes,      \* the slab; slots are numbered from 1
    free,       \* the stack of freed slots
    index,      \* the slot of every resting order
    levels,     \* by side, the levels by key
    taker,      \* the Book::take in progress
    fills,
    expired

store == <<nodes, free, index, levels>>
vars == <<nodes, free, index, levels, taker, fills, expired>>

NIL == 0
NoLevel == [total |-> 0, head |-> NIL, tail |-> NIL, count |-> 0]

\* Slot k of the queue of a level, counted from its head; NIL past its end.
Hop(level) ==
    LET hop[k \in 0 .. Len(nodes)] ==
            IF k = 0 THEN level.head
            ELSE IF hop[k - 1] = NIL THEN NIL ELSE nodes[hop[k - 1]].next
    IN  hop

\* The orders of a level front to back (level_orders, snapshot).
Queue(level) ==
    LET hop == Hop(level)
        reached == {k \in 0 .. Len(nodes) : hop[k] # NIL}
    IN  [i \in 1 .. Cardinality(reached) |-> hop[i - 1]]

Queues ==
    UNION {{Queue(levels[side][key]) : key \in DOMAIN levels[side]}
               : side \in DOMAIN levels}

Viewed(n) == [user |-> n.user, side |-> n.side, tick |-> n.tick, lots |-> n.lots]

\* Who stands before whom in a queue.
Ahead(q) ==
    {<<nodes[q[p[1]]].oid, nodes[q[p[2]]].oid>> :
        p \in {p \in (DOMAIN q) \X (DOMAIN q) : p[1] < p[2]}}

\* What the store stands for.
Resting == [o \in DOMAIN index |-> Viewed(nodes[index[o]])]
Before == UNION {Ahead(q) : q \in Queues}

OB == INSTANCE OrderBook WITH resting <- Resting, ahead <- Before

\* As in OrderBook; a take of nothing is turned away before it (engine.rs:119).
ASSUME SlabAssumption ==
    /\ Tick \subseteq Int
    /\ MaxLots \in Nat \ {0}
    /\ Idle \notin OB!Taker
    /\ Orders \subseteq OB!Order
    /\ Takers \subseteq {call \in OB!Taker : call.left > 0}

-----------------------------------------------------------------------------

Lvl(side, key) ==
    IF key \in DOMAIN levels[side] THEN levels[side][key] ELSE NoLevel

\* A level is filed under its key; an emptied one is removed from the map.
File(side, key, level) ==
    levels' = [levels EXCEPT ![side] =
        [k \in (DOMAIN @ \ {key}) \cup (IF level.count = 0 THEN {} ELSE {key}) |->
            IF k = key THEN level ELSE @[k]]]

\* Not the code: the slot freed first, while the last one is popped.
OldestSlot == IF free = <<>> THEN Len(nodes) + 1 ELSE free[1]

\* The slot an add uses: the last one freed, or a new one.
NextSlot == IF free = <<>> THEN Len(nodes) + 1 ELSE free[Len(free)]

Stored(slab, slot, node) ==
    IF slot > Len(slab) THEN Append(slab, node) ELSE [slab EXCEPT ![slot] = node]

\* Linking neighbours of a slab; NIL has no fields to set.
SetNext(slab, slot, to) ==
    IF slot = NIL THEN slab ELSE [slab EXCEPT ![slot].next = to]
SetPrev(slab, slot, to) ==
    IF slot = NIL THEN slab ELSE [slab EXCEPT ![slot].prev = to]

Unindexed(oid) == [o \in DOMAIN index \ {oid} |-> index[o]]

PushBack(oid, order) ==
    LET key  == OB!Key(order.side, order.tick)
        lvl  == Lvl(order.side, key)
        slot == NextSlot
        node == [oid |-> oid, user |-> order.user, lots |-> order.lots,
                 tick |-> order.tick, side |-> order.side,
                 prev |-> lvl.tail, next |-> NIL]
    IN  /\ nodes' = SetNext(Stored(nodes, slot, node), lvl.tail, slot)
        /\ free' = SubSeq(free, 1, Len(free) - 1)
        /\ index' = [o \in DOMAIN index \cup {oid} |->
                        IF o = oid THEN slot ELSE index[o]]
        /\ File(order.side, key,
                [total |-> lvl.total + order.lots,
                 head |-> IF lvl.tail = NIL THEN slot ELSE lvl.head,
                 tail |-> slot, count |-> lvl.count + 1])

Add(oid, order) ==
    /\ taker = Idle
    /\ oid \notin DOMAIN index
    /\ UNCHANGED <<taker, fills, expired>>
    /\ PushBack(oid, order)

\* From anywhere in its queue.
Unlink(slot) ==
    LET n   == nodes[slot]
        key == OB!Key(n.side, n.tick)
        lvl == levels[n.side][key]
    IN  /\ nodes' = SetPrev(SetNext(nodes, n.prev, n.next), n.next, n.prev)
        /\ free' = Append(free, slot)
        /\ index' = Unindexed(n.oid)
        /\ File(n.side, key,
                [total |-> lvl.total - n.lots,
                 head |-> IF n.prev = NIL THEN n.next ELSE lvl.head,
                 tail |-> IF n.next = NIL THEN n.prev ELSE lvl.tail,
                 count |-> lvl.count - 1])

Cancel(oid) ==
    /\ taker = Idle
    /\ oid \in DOMAIN index
    /\ Unlink(index[oid])
    /\ UNCHANGED <<taker, fills, expired>>

\* Not the code: the cached total of the level is not told.
ShrinkUncached(slot, lots) ==
    /\ nodes' = [nodes EXCEPT ![slot].lots = lots]
    /\ UNCHANGED <<free, index, levels>>

\* Leave "lots" of the order in a slot, in place.
ShrinkTo(slot, lots) ==
    LET n   == nodes[slot]
        key == OB!Key(n.side, n.tick)
        lvl == levels[n.side][key]
    IN  /\ nodes' = [nodes EXCEPT ![slot].lots = lots]
        /\ File(n.side, key, [lvl EXCEPT !.total = @ - (n.lots - lots)])
        /\ UNCHANGED <<free, index>>

Reduce(oid, lots) ==
    /\ taker = Idle
    /\ oid \in DOMAIN index
    /\ lots \in 0 .. nodes[index[oid]].lots
    /\ IF lots = 0 THEN Unlink(index[oid]) ELSE ShrinkTo(index[oid], lots)
    /\ UNCHANGED <<taker, fills, expired>>

Take(call) ==
    /\ taker = Idle
    /\ taker' = call
    /\ UNCHANGED <<store, fills, expired>>

-----------------------------------------------------------------------------
(* The matching loop: the head of the best level, while it is in reach. *)

MakerSide == OB!Opposite(taker.side)

\* Not the code: the wrong end of the level map.
WorstKey == Min(DOMAIN levels[MakerSide])

BestKey == Max(DOMAIN levels[MakerSide])
InReach ==
    /\ DOMAIN levels[MakerSide] # {}
    /\ BestKey >= OB!Key(MakerSide, taker.limit)
HeadSlot == levels[MakerSide][BestKey].head

\* Not the code: the new head still points back to the old one.
PopHeadLinked ==
    LET lvl == levels[MakerSide][BestKey]
        n   == nodes[lvl.head]
    IN  /\ UNCHANGED nodes
        /\ free' = Append(free, lvl.head)
        /\ index' = Unindexed(n.oid)
        /\ File(MakerSide, BestKey,
                [total |-> lvl.total - n.lots, head |-> n.next,
                 tail |-> IF n.next = NIL THEN NIL ELSE lvl.tail,
                 count |-> lvl.count - 1])

\* Pops the head without looking at its own prev, unlike Unlink.
PopHead ==
    LET lvl == levels[MakerSide][BestKey]
        n   == nodes[lvl.head]
    IN  /\ nodes' = SetPrev(nodes, n.next, NIL)
        /\ free' = Append(free, lvl.head)
        /\ index' = Unindexed(n.oid)
        /\ File(MakerSide, BestKey,
                [total |-> lvl.total - n.lots, head |-> n.next,
                 tail |-> IF n.next = NIL THEN NIL ELSE lvl.tail,
                 count |-> lvl.count - 1])

FillOf(n, lots) ==
    [maker |-> n.oid, taker |-> taker.oid, tick |-> n.tick, lots |-> lots]

Matching == taker # Idle /\ taker.left > 0 /\ InReach
OwnOrder(n) == taker.stp = "ExpireMaker" /\ n.user = taker.user

ExpireHead ==
    /\ Matching
    /\ OwnOrder(nodes[HeadSlot])
    /\ expired' = Append(expired, nodes[HeadSlot].oid)
    /\ PopHead
    /\ UNCHANGED <<taker, fills>>

FillHead ==
    LET n == nodes[HeadSlot]
        q == Min({n.lots, taker.left})
    IN  /\ Matching
        /\ ~OwnOrder(n)
        /\ fills' = Append(fills, FillOf(n, q))
        /\ taker' = [taker EXCEPT !.left = @ - q]
        /\ IF q < n.lots THEN ShrinkTo(HeadSlot, n.lots - q) ELSE PopHead
        /\ UNCHANGED expired

Return ==
    /\ taker # Idle
    /\ taker.left = 0 \/ ~InReach
    /\ taker' = Idle
    /\ fills' = <<>>
    /\ expired' = <<>>
    /\ UNCHANGED store

-----------------------------------------------------------------------------

Init ==
    /\ nodes = <<>>
    /\ free = <<>>
    /\ index = [o \in {} |-> o]
    /\ levels = [side \in OB!Side |-> [key \in {} |-> NoLevel]]
    /\ taker = Idle
    /\ fills = <<>>
    /\ expired = <<>>

Next ==
    \/ \E oid \in Oid, order \in Orders : Add(oid, order)
    \/ \E oid \in Oid : Cancel(oid)
    \/ \E oid \in Oid, lots \in 0 .. MaxLots : Reduce(oid, lots)
    \/ \E call \in Takers : Take(call)
    \/ ExpireHead
    \/ FillHead
    \/ Return

Spec == Init /\ [][Next]_vars

-----------------------------------------------------------------------------

\* The links of every level (check_invariants, book.rs:340): the queue is found
\* whole from its head, its tail is its last node, every node points back to the
\* one before it and lies on the side and price it is filed under.
LinksConsistent ==
    \A side \in OB!Side : \A key \in DOMAIN levels[side] :
        LET lvl == levels[side][key]
            q   == Queue(lvl)
        IN  /\ lvl.count = Len(q) /\ lvl.count > 0
            /\ lvl.tail = q[Len(q)]
            /\ \A i \in DOMAIN q :
                  /\ nodes[q[i]].prev = (IF i = 1 THEN NIL ELSE q[i - 1])
                  /\ nodes[q[i]].side = side
                  /\ OB!Key(side, nodes[q[i]].tick) = key

\* The cached size of a level is the size of its orders, none of them empty.
TotalsCached ==
    \A side \in OB!Side : \A key \in DOMAIN levels[side] :
        LET q == Queue(levels[side][key])
        IN  /\ levels[side][key].total =
                  MapThenSumSet(LAMBDA i : nodes[q[i]].lots, DOMAIN q)
            /\ \A i \in DOMAIN q : nodes[q[i]].lots > 0

\* Every slot is either resting, on exactly one level and found by its id, or
\* free, once: no slot leaks and none is handed out twice.
SlotsAccounted ==
    LET linked == UNION {{q[i] : i \in DOMAIN q} : q \in Queues}
        freed  == {free[i] : i \in DOMAIN free}
    IN  /\ linked = {index[o] : o \in DOMAIN index}
        /\ \A o \in DOMAIN index : nodes[index[o]].oid = o
        /\ linked \cap freed = {}
        /\ linked \cup freed = DOMAIN nodes
        /\ Len(free) = Cardinality(freed)
        /\ Cardinality(DOMAIN index) + Len(free) = Len(nodes)

\* The store implements the order book: whatever was cancelled from the middle,
\* reused or emptied, its queues are the ones arrival and priority dictate.
RefinesOrderBook == OB!Spec
=============================================================================
