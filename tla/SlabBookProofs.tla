---------------------------- MODULE SlabBookProofs ----------------------------
(***************************************************************************)
(* Proofs about SlabBook, for any ids, wallets, prices and sizes: the slab *)
(* is always in order, and it implements OrderBook.                        *)
(*                                                                         *)
(* The inductive invariant SlabInv says that there are queues qs, one for  *)
(* every side and key, with running totals ws along them, such that Good   *)
(* holds of them and the store: each level is the Chain of its queue (its  *)
(* head and tail are the ends, every node names its neighbours, no slot    *)
(* is there twice), Running totals end in the cached one, the index finds  *)
(* every order of a queue and only those, and the other slots are free,    *)
(* once.  Three lemmas say how a push at the back (GoodPush), a cut from   *)
(* anywhere (GoodCut) and a smaller order in place (GoodShrink) keep it;   *)
(* they are stated for two stores given by their parts, so that they hold  *)
(* of the store before and after a step.  Every operation of book.rs is    *)
(* one of the three.  What the links are followed to find (Queue) is then  *)
(* the queue (ChainIsFound), from which the properties follow.             *)
(***************************************************************************)
EXTENDS SlabBook, Sums

\* Integers that have a bound have a greatest.
LEMMA MaxOfBounded ==
    ASSUME NEW S, S # {}, NEW high \in Int, \A x \in S : x \in Int /\ x <= high
    PROVE  Max(S) \in S /\ \A x \in S : x <= Max(S)
<1> DEFINE T == {n \in Nat : high - n \in S}
           Below == OpToRel(<, Nat)
<1>1. T # {}
  <2>1. PICK x \in S : TRUE
    OBVIOUS
  <2>2. high - x \in Nat /\ high - (high - x) \in S
    BY <2>1
  <2>3. QED  BY <2>2
<1>2. PICK n \in T : \A m \in T : <<m, n>> \notin Below
  <2>1. IsWellFoundedOn(Below, Nat)
    BY NatLessThanWellFounded
  <2>2. T \subseteq Nat
    OBVIOUS
  <2> HIDE DEF Below, T
  <2>3. QED  BY <1>1, <2>1, <2>2, WFMin
<1>3. high - n \in S
  OBVIOUS
<1>4. \A x \in S : high - n >= x
  <2> SUFFICES ASSUME NEW x \in S, ~(high - n >= x) PROVE FALSE
    OBVIOUS
  <2>1. high - x \in Nat /\ high - (high - x) = x /\ high - x < n
    OBVIOUS
  <2>2. high - x \in T
    BY <2>1
  <2>3. <<high - x, n>> \in Below
    BY <2>1 DEF OpToRel
  <2>4. QED  BY <1>2, <2>2, <2>3
<1>5. \E m \in S : \A x \in S : m >= x
  BY <1>3, <1>4
<1>6. Max(S) \in S /\ \A x \in S : Max(S) >= x
  BY <1>5 DEF Max
<1>7. QED  BY <1>6

-----------------------------------------------------------------------------
\* The values of a slot and of a level.
Node == [oid : Oid, user : User, lots : OB!Lots, tick : Tick, side : OB!Side,
         prev : Nat, next : Nat]
Level == [total : Int, head : Nat, tail : Nat, count : Nat]

\* The i-th of a queue of n slots, NIL beyond its ends.
At(q, n, i) == IF i \in 1 .. n THEN q[i] ELSE NIL

\* A level is the doubly linked queue q of slots of its side and key.
Chain(nds, lvl, q, side, key) ==
    /\ lvl \in Level
    /\ q \in [1 .. lvl.count -> DOMAIN nds]
    /\ \A i, j \in 1 .. lvl.count : q[i] = q[j] => i = j
    /\ lvl.head = At(q, lvl.count, 1)
    /\ lvl.tail = At(q, lvl.count, lvl.count)
    /\ \A i \in 1 .. lvl.count :
          /\ nds[q[i]].prev = At(q, lvl.count, i - 1)
          /\ nds[q[i]].next = At(q, lvl.count, i + 1)
          /\ nds[q[i]].side = side
          /\ OB!Key(side, nds[q[i]].tick) = key

\* Hop and Queue of SlabBook, with the slab as an argument.
HopIn(nds, level) ==
    LET hop[k \in 0 .. Len(nds)] ==
            IF k = 0 THEN level.head
            ELSE IF hop[k - 1] = NIL THEN NIL ELSE nds[hop[k - 1]].next
    IN  hop
QueueIn(nds, level) ==
    LET hop == HopIn(nds, level)
        reached == {k \in 0 .. Len(nds) : hop[k] # NIL}
    IN  [i \in 1 .. Cardinality(reached) |-> hop[i - 1]]

\* What the reader of a level finds (level_orders) is a matter of the nodes and the level.
LEMMA QueueInIs == \A level : Queue(level) = QueueIn(nodes, level)
  BY DEF Queue, QueueIn, Hop, HopIn

\* The slots of a queue and the steps along it are as many as its count.
LEMMA CountOfInterval ==
    ASSUME NEW n \in Nat
    PROVE  /\ IsFiniteSet(1 .. n) /\ Cardinality(1 .. n) = n
           /\ Cardinality(0 .. n - 1) = n
<1>1. IsFiniteSet(1 .. n) /\ Cardinality(1 .. n) = IF 1 > n THEN 0 ELSE n - 1 + 1
  <2>1. 1 \in Int /\ n \in Int
    OBVIOUS
  <2>2. QED  BY <2>1, FS_Interval
<1>2. Cardinality(0 .. n - 1) = IF 0 > n - 1 THEN 0 ELSE (n - 1) - 0 + 1
  <2>1. 0 \in Int /\ n - 1 \in Int
    OBVIOUS
  <2>2. QED  BY <2>1, FS_Interval
<1>3. QED  BY <1>1, <1>2

\* A chain is no longer than the slab.
LEMMA ChainFits ==
    ASSUME NEW nds \in Seq(Node), NEW lvl, NEW q, NEW side, NEW key,
           Chain(nds, lvl, q, side, key)
    PROVE  lvl.count <= Len(nds)
<1>1. lvl.count \in Nat /\ Len(nds) \in Nat /\ DOMAIN nds = 1 .. Len(nds)
  BY DEF Chain, Level
<1>2. q \in Injection(1 .. lvl.count, 1 .. Len(nds))
  BY <1>1 DEF Chain, Injection, IsInjective
<1>3. /\ IsFiniteSet(1 .. Len(nds)) /\ Cardinality(1 .. Len(nds)) = Len(nds)
      /\ Cardinality(1 .. lvl.count) = lvl.count
  BY <1>1, CountOfInterval
<1>4. Cardinality(1 .. lvl.count) <= Cardinality(1 .. Len(nds))
  BY <1>2, <1>3, FS_Injection
<1>5. QED  BY <1>3, <1>4

\* Following a chain finds its slots, in order, and no more.
LEMMA ChainIsFound ==
    ASSUME NEW nds \in Seq(Node), NEW lvl, NEW q, NEW side, NEW key,
           Chain(nds, lvl, q, side, key)
    PROVE  QueueIn(nds, lvl) = q
<1> DEFINE N == Len(nds)
           c == lvl.count
           Links(hop) == hop = [k \in 0 .. N |->
                                  IF k = 0 THEN lvl.head
                                  ELSE IF hop[k - 1] = NIL THEN NIL
                                  ELSE nds[hop[k - 1]].next]
           h == [k \in 0 .. N |-> At(q, c, k + 1)]
           found == HopIn(nds, lvl)
<1>1. c \in Nat /\ N \in Nat /\ DOMAIN nds = 1 .. N /\ c <= N
  <2>1. c \in Nat /\ N \in Nat /\ DOMAIN nds = 1 .. N
    BY DEF Chain, Level
  <2>2. c <= N
    BY ChainFits
  <2>3. QED  BY <2>1, <2>2
<1>2. \A i \in 1 .. c : q[i] \in 1 .. N /\ q[i] # NIL
  <2>1. q \in [1 .. c -> 1 .. N]
    BY <1>1 DEF Chain
  <2>2. QED  BY <2>1 DEF NIL
<1>3. Links(h)
  <2>1. ASSUME NEW k \in 0 .. N
        PROVE  h[k] = IF k = 0 THEN lvl.head
                      ELSE IF h[k - 1] = NIL THEN NIL ELSE nds[h[k - 1]].next
    <3>1. CASE k = 0
      BY <3>1, <1>1 DEF Chain
    <3>2. CASE k # 0
      <4>1. k - 1 \in 0 .. N /\ h[k - 1] = At(q, c, k) /\ h[k] = At(q, c, k + 1)
        BY <3>2, <1>1
      <4> HIDE DEF h
      <4>2. CASE k \in 1 .. c
        <5>1. h[k - 1] = q[k] /\ q[k] # NIL
          BY <4>1, <4>2, <1>2 DEF At
        <5>2. nds[q[k]].next = At(q, c, k + 1)
          BY <4>2 DEF Chain
        <5>3. QED  BY <3>2, <4>1, <5>1, <5>2
      <4>3. CASE k \notin 1 .. c
        <5>1. k + 1 \notin 1 .. c
          BY <3>2, <4>3, <1>1
        <5>2. h[k - 1] = NIL /\ h[k] = NIL
          BY <4>1, <4>3, <5>1 DEF At
        <5>3. QED  BY <3>2, <5>2
      <4>4. QED  BY <4>2, <4>3
    <3>3. QED  BY <3>1, <3>2
  <2>2. QED  BY <2>1
<1>4. Links(found)
  <2>1. found = CHOOSE hop : Links(hop)
    BY DEF HopIn
  <2> HIDE DEF Links, h, found
  <2>2. QED  BY <1>3, <2>1
<1>5. \A k \in 0 .. N : found[k] = h[k]
  <2> DEFINE P == {k \in Nat : k <= N => found[k] = h[k]}
  <2> HIDE DEF found, h
  <2>1. 0 \in P
    BY <1>1, <1>3, <1>4
  <2>2. ASSUME NEW n \in Nat, n \in P PROVE n + 1 \in P
    <3>1. SUFFICES ASSUME n + 1 <= N PROVE found[n + 1] = h[n + 1]
      OBVIOUS
    <3>2. n + 1 \in 0 .. N /\ n + 1 # 0 /\ (n + 1) - 1 = n /\ found[n] = h[n]
      BY <3>1, <2>2, <1>1
    <3> HIDE DEF P
    <3>3. QED  BY <1>3, <1>4, <3>2
  <2>3. \A n \in Nat : n \in P
    <3> HIDE DEF P
    <3>1. QED  BY <2>1, <2>2, NatSetInduction
  <2>4. QED  BY <2>3, <1>1
<1>6. {k \in 0 .. N : found[k] # NIL} = 0 .. c - 1
  <2>1. \A k \in 0 .. N : found[k] # NIL <=> k + 1 \in 1 .. c
    <3> HIDE DEF found
    <3>1. QED  BY <1>2, <1>5 DEF At
  <2> HIDE DEF found, h
  <2>2. \A k \in 0 .. N : k + 1 \in 1 .. c <=> k \in 0 .. c - 1
    BY <1>1
  <2>3. 0 .. c - 1 \subseteq 0 .. N
    BY <1>1
  <2>4. QED  BY <2>1, <2>2, <2>3
<1>7. Cardinality(0 .. c - 1) = c
  BY <1>1, CountOfInterval
<1>8. QueueIn(nds, lvl) = [i \in 1 .. c |-> found[i - 1]]
  <2> HIDE DEF found
  <2>1. QED  BY <1>6, <1>7 DEF QueueIn, found
<1>9. \A i \in 1 .. c : found[i - 1] = q[i]
  <2> SUFFICES ASSUME NEW i \in 1 .. c PROVE found[i - 1] = q[i]
    OBVIOUS
  <2>1. i - 1 \in 0 .. N /\ (i - 1) + 1 = i
    BY <1>1
  <2> HIDE DEF found
  <2>2. QED  BY <1>5, <2>1 DEF At
<1>10. q = [i \in 1 .. c |-> q[i]]
  BY DEF Chain
<1> HIDE DEF found
<1>11. QED  BY <1>8, <1>9, <1>10

-----------------------------------------------------------------------------
(* Setting the links of a node. *)

\* The same order, wherever it is linked.
Same(n, m) ==
    /\ n.oid = m.oid /\ n.user = m.user /\ n.side = m.side /\ n.tick = m.tick
    /\ n.lots = m.lots

\* Linking sets one field of one node.
LEMMA SetNextIs ==
    ASSUME NEW nds \in Seq(Node), NEW x \in DOMAIN nds \cup {NIL}, NEW to \in Nat
    PROVE  /\ SetNext(nds, x, to) \in Seq(Node)
           /\ DOMAIN SetNext(nds, x, to) = DOMAIN nds
           /\ x # NIL => /\ Same(SetNext(nds, x, to)[x], nds[x])
                         /\ SetNext(nds, x, to)[x].next = to
                         /\ SetNext(nds, x, to)[x].prev = nds[x].prev
           /\ \A y \in DOMAIN nds : y # x => SetNext(nds, x, to)[y] = nds[y]
<1>1. NIL \notin DOMAIN nds
  BY DEF NIL
<1>2. CASE x = NIL
  BY <1>1, <1>2 DEF SetNext
<1>3. CASE x \in DOMAIN nds
  <2>1. nds[x] \in Node
    BY <1>3
  <2> DEFINE n == [nds[x] EXCEPT !.next = to]
  <2>2. n \in Node /\ Same(n, nds[x]) /\ n.next = to /\ n.prev = nds[x].prev
    BY <2>1 DEF Node, Same
  <2>3. SetNext(nds, x, to) = [nds EXCEPT ![x] = n]
    BY <1>1, <1>3 DEF SetNext
  <2> HIDE DEF n
  <2>4. QED  BY <1>1, <1>3, <2>2, <2>3
<1>4. QED  BY <1>2, <1>3

\* As SetNextIs, for the other link.
LEMMA SetPrevIs ==
    ASSUME NEW nds \in Seq(Node), NEW x \in DOMAIN nds \cup {NIL}, NEW to \in Nat
    PROVE  /\ SetPrev(nds, x, to) \in Seq(Node)
           /\ DOMAIN SetPrev(nds, x, to) = DOMAIN nds
           /\ x # NIL => /\ Same(SetPrev(nds, x, to)[x], nds[x])
                         /\ SetPrev(nds, x, to)[x].prev = to
                         /\ SetPrev(nds, x, to)[x].next = nds[x].next
           /\ \A y \in DOMAIN nds : y # x => SetPrev(nds, x, to)[y] = nds[y]
<1>1. NIL \notin DOMAIN nds
  BY DEF NIL
<1>2. CASE x = NIL
  BY <1>1, <1>2 DEF SetPrev
<1>3. CASE x \in DOMAIN nds
  <2>1. nds[x] \in Node
    BY <1>3
  <2> DEFINE n == [nds[x] EXCEPT !.prev = to]
  <2>2. n \in Node /\ Same(n, nds[x]) /\ n.prev = to /\ n.next = nds[x].next
    BY <2>1 DEF Node, Same
  <2>3. SetPrev(nds, x, to) = [nds EXCEPT ![x] = n]
    BY <1>1, <1>3 DEF SetPrev
  <2> HIDE DEF n
  <2>4. QED  BY <1>1, <1>3, <2>2, <2>3
<1>4. QED  BY <1>2, <1>3

\* A node stored in a slot of the slab, or behind it, leaves the others alone.
LEMMA StoredIs ==
    ASSUME NEW nds \in Seq(Node), NEW x \in 1 .. Len(nds) + 1, NEW node \in Node
    PROVE  /\ Stored(nds, x, node) \in Seq(Node)
           /\ DOMAIN Stored(nds, x, node) = DOMAIN nds \cup {x}
           /\ Stored(nds, x, node)[x] = node
           /\ \A y \in DOMAIN nds : y # x => Stored(nds, x, node)[y] = nds[y]
<1>1. CASE x > Len(nds)
  <2>1. x = Len(nds) + 1
    BY <1>1
  <2>2. Stored(nds, x, node) = Append(nds, node)
    BY <1>1 DEF Stored
  <2>3. /\ DOMAIN Append(nds, node) = DOMAIN nds \cup {x}
        /\ Append(nds, node) \in Seq(Node)
        /\ Append(nds, node)[x] = node
        /\ \A y \in DOMAIN nds : Append(nds, node)[y] = nds[y] /\ y # x
    BY <2>1
  <2>4. QED  BY <2>2, <2>3
<1>2. CASE ~(x > Len(nds))
  <2>1. x \in DOMAIN nds
    BY <1>2
  <2>2. Stored(nds, x, node) = [nds EXCEPT ![x] = node]
    BY <1>2 DEF Stored
  <2>3. [nds EXCEPT ![x] = node] \in Seq(Node)
    BY <2>1
  <2>4. QED  BY <2>1, <2>2, <2>3
<1>3. QED  BY <1>1, <1>2

-----------------------------------------------------------------------------
(* One level: its chain and the running totals along it. *)

\* w are the running totals of a queue; the last one is cached in its level.
Running(nds, lvl, q, w) ==
    /\ w \in [0 .. lvl.count -> Int]
    /\ w[0] = 0
    /\ \A i \in 1 .. lvl.count : w[i] = w[i - 1] + nds[q[i]].lots
    /\ w[lvl.count] = lvl.total

\* A level none of whose nodes changed is as it was.
LEMMA ChainFrame ==
    ASSUME NEW nds, NEW nds2, NEW lvl, NEW q, NEW side, NEW key,
           Chain(nds, lvl, q, side, key), DOMAIN nds \subseteq DOMAIN nds2,
           \A i \in 1 .. lvl.count :
              /\ nds2[q[i]].prev = nds[q[i]].prev /\ nds2[q[i]].next = nds[q[i]].next
              /\ nds2[q[i]].side = nds[q[i]].side /\ nds2[q[i]].tick = nds[q[i]].tick
    PROVE  Chain(nds2, lvl, q, side, key)
  BY DEF Chain

\* A level none of whose sizes changed has the totals it had.
LEMMA RunningFrame ==
    ASSUME NEW nds, NEW nds2, NEW lvl, NEW q, NEW w, Running(nds, lvl, q, w),
           \A i \in 1 .. lvl.count : nds2[q[i]].lots = nds[q[i]].lots
    PROVE  Running(nds2, lvl, q, w)
  BY DEF Running

\* A queue, its totals and its level with one more slot at the end.
Pushed(q, n, slot) == [i \in 1 .. n + 1 |-> IF i = n + 1 THEN slot ELSE q[i]]
PushedSum(w, n, lots) == [i \in 0 .. n + 1 |-> IF i = n + 1 THEN w[n] + lots ELSE w[i]]

\* A node stored in a slot and linked behind the tail.
Pushes(nds, nds2, slot, node, tail) ==
    /\ nds2 \in Seq(Node)
    /\ DOMAIN nds2 = DOMAIN nds \cup {slot}
    /\ nds2[slot] = node
    /\ tail # NIL => /\ Same(nds2[tail], nds[tail])
                     /\ nds2[tail].next = slot /\ nds2[tail].prev = nds[tail].prev
    /\ \A y \in DOMAIN nds : y # slot /\ y # tail => nds2[y] = nds[y]

\* An add stores the node and links the old tail to it; no other link is set.
LEMMA StoredAndLinked ==
    ASSUME NEW nds \in Seq(Node), NEW slot \in 1 .. Len(nds) + 1, NEW node \in Node,
           NEW tail \in DOMAIN nds \cup {NIL}, tail # slot
    PROVE  Pushes(nds, SetNext(Stored(nds, slot, node), tail, slot), slot, node, tail)
<1> DEFINE mid == Stored(nds, slot, node)
           nds2 == SetNext(mid, tail, slot)
<1>1. mid \in Seq(Node) /\ DOMAIN mid = DOMAIN nds \cup {slot}
  BY StoredIs
<1>2. mid[slot] = node
  BY StoredIs
<1>3. \A y \in DOMAIN nds : y # slot => mid[y] = nds[y]
  BY StoredIs
<1>4. slot \in Nat /\ tail \in DOMAIN mid \cup {NIL}
  BY <1>1
<1> HIDE DEF mid
<1>6. nds2 \in Seq(Node) /\ DOMAIN nds2 = DOMAIN mid
  BY <1>1, <1>4, SetNextIs
<1>7. \A y \in DOMAIN mid : y # tail => nds2[y] = mid[y]
  BY <1>1, <1>4, SetNextIs
<1>8. tail # NIL => /\ Same(nds2[tail], mid[tail])
                    /\ nds2[tail].next = slot /\ nds2[tail].prev = mid[tail].prev
  BY <1>1, <1>4, SetNextIs
<1> HIDE DEF nds2
<1>10. nds2[slot] = node
  BY <1>1, <1>2, <1>7
<1>11. tail # NIL => tail \in DOMAIN nds
  OBVIOUS
<1>12. Pushes(nds, nds2, slot, node, tail)
  BY <1>1, <1>3, <1>6, <1>7, <1>8, <1>10, <1>11 DEF Pushes
<1>13. QED  BY <1>12 DEF nds2, mid

\* Only the links of these slots may have changed, and only they.
OthersKept(nds, nds2, q, n, slot) ==
    \A y \in DOMAIN nds : y # slot =>
        /\ Same(nds2[y], nds[y])
        /\ (\A i \in 1 .. n : q[i] # y) => nds2[y] = nds[y]

\* What the level becomes.
Extends(lvl, lvl2, slot, lots) ==
    lvl2 = [total |-> lvl.total + lots,
            head |-> IF lvl.tail = NIL THEN slot ELSE lvl.head,
            tail |-> slot, count |-> lvl.count + 1]

\* Stored in a slot of no chain, it ends the chain of its level.
LEMMA ChainPush ==
    ASSUME NEW nds \in Seq(Node), NEW lvl, NEW q, NEW side, NEW key,
           Chain(nds, lvl, q, side, key),
           NEW slot \in 1 .. Len(nds) + 1, \A i \in 1 .. lvl.count : q[i] # slot,
           NEW node \in Node, node.prev = lvl.tail, node.next = NIL,
           node.side = side, OB!Key(side, node.tick) = key,
           NEW nds2, Pushes(nds, nds2, slot, node, lvl.tail),
           NEW lots \in Int, NEW lvl2, Extends(lvl, lvl2, slot, lots)
    PROVE  /\ OthersKept(nds, nds2, q, lvl.count, slot)
           /\ Chain(nds2, lvl2, Pushed(q, lvl.count, slot), side, key)
<1> DEFINE c == lvl.count
           q2 == Pushed(q, c, slot)
<1>1. /\ c \in Nat /\ Len(nds) \in Nat /\ DOMAIN nds = 1 .. Len(nds)
      /\ q \in [1 .. c -> 1 .. Len(nds)] /\ lvl \in Level /\ slot \in Nat /\ slot # NIL
  BY DEF Chain, Level, NIL
<1>2. lvl.tail = At(q, c, c) /\ lvl.head = At(q, c, 1)
  BY DEF Chain
<1>3. IF c = 0 THEN lvl.tail = NIL ELSE lvl.tail = q[c] /\ lvl.tail \in DOMAIN nds
                                        /\ lvl.tail # slot /\ lvl.tail # NIL
  BY <1>1, <1>2 DEF At, NIL
<1>4. lvl.tail \in DOMAIN nds \cup {NIL} /\ lvl.tail # slot
  BY <1>1, <1>3
<1>6. nds2 \in Seq(Node) /\ DOMAIN nds2 = DOMAIN nds \cup {slot} /\ nds2[slot] = node
  BY DEF Pushes
<1>7. /\ lvl.tail # NIL => /\ Same(nds2[lvl.tail], nds[lvl.tail])
                           /\ nds2[lvl.tail].next = slot
                           /\ nds2[lvl.tail].prev = nds[lvl.tail].prev
      /\ \A y \in DOMAIN nds : y # slot /\ y # lvl.tail => nds2[y] = nds[y]
  BY DEF Pushes
<1>10. ASSUME NEW y \in DOMAIN nds, y # slot
       PROVE  /\ Same(nds2[y], nds[y])
              /\ (\A i \in 1 .. c : q[i] # y) => nds2[y] = nds[y]
  <2>1. y = lvl.tail => lvl.tail # NIL
    BY DEF NIL
  <2>2. Same(nds2[y], nds[y])
    BY <1>7, <1>10, <2>1 DEF Same
  <2>3. (\A i \in 1 .. c : q[i] # y) => y # lvl.tail
    <3>1. c # 0 => c \in 1 .. c
      BY <1>1
    <3>2. QED  BY <1>3, <2>1, <3>1
  <2>4. QED  BY <1>7, <1>10, <2>2, <2>3
<1>11. Chain(nds2, lvl2, q2, side, key)
  <2>1. lvl2 \in Level /\ lvl2.count = c + 1 /\ lvl2.tail = slot
    BY <1>1 DEF Level, Extends
  <2>2. q2 \in [1 .. c + 1 -> DOMAIN nds2]
    <3>1. slot \in DOMAIN nds2 /\ \A i \in 1 .. c : q[i] \in DOMAIN nds2
      BY <1>1, <1>6
    <3>2. \A i \in 1 .. c + 1 : i = c + 1 \/ i \in 1 .. c
      <4>1. c \in Nat
        BY <1>1
      <4> HIDE DEF c
      <4>2. QED  BY <4>1
    <3>3. QED  BY <3>1, <3>2 DEF Pushed
  <2>3. \A i \in 1 .. c : q2[i] = q[i] /\ q2[i] # slot
    BY <1>1 DEF Pushed
  <2>4. q2[c + 1] = slot
    BY <1>1 DEF Pushed
  <2>5. \A i, j \in 1 .. c + 1 : q2[i] = q2[j] => i = j
    <3>1. \A i \in 1 .. c + 1 : i \in 1 .. c \/ i = c + 1
      <4>1. c \in Nat
        BY <1>1
      <4> HIDE DEF c
      <4>2. QED  BY <4>1
    <3>2. \A i, j \in 1 .. c : q[i] = q[j] => i = j
      BY DEF Chain
    <3> HIDE DEF q2
    <3>3. QED  BY <2>3, <2>4, <3>1, <3>2
  <2>6. lvl2.head = At(q2, c + 1, 1) /\ lvl2.tail = At(q2, c + 1, c + 1)
    <3> HIDE DEF q2
    <3>1. 1 \in 1 .. c + 1 /\ c + 1 \in 1 .. c + 1
      BY <1>1
    <3>2. CASE c = 0
      BY <1>3, <2>1, <2>4, <3>1, <3>2 DEF At, Extends
    <3>3. CASE c # 0
      <4>1. 1 \in 1 .. c
        BY <1>1, <3>3
      <4>2. lvl2.head = q[1]
        BY <1>2, <1>3, <3>3, <4>1 DEF At, Extends
      <4>3. QED  BY <2>1, <2>3, <2>4, <3>1, <4>1, <4>2 DEF At
    <3>4. QED  BY <3>2, <3>3
  <2>7. ASSUME NEW i \in 1 .. c + 1
        PROVE  /\ nds2[q2[i]].prev = At(q2, c + 1, i - 1)
               /\ nds2[q2[i]].next = At(q2, c + 1, i + 1)
               /\ nds2[q2[i]].side = side
               /\ OB!Key(side, nds2[q2[i]].tick) = key
    <3> HIDE DEF q2
    <3>1. CASE i = c + 1
      <4>1. nds2[q2[i]] = node
        BY <1>6, <2>4, <3>1
      <4>2. At(q2, c + 1, i + 1) = NIL
        BY <1>1, <3>1 DEF At
      <4>3. At(q2, c + 1, i - 1) = At(q, c, c)
        BY <1>1, <2>3, <3>1 DEF At
      <4>4. QED  BY <1>2, <4>1, <4>2, <4>3
    <3>2. CASE i \in 1 .. c
      <4>1. q2[i] = q[i] /\ q[i] \in DOMAIN nds /\ q[i] # slot
        BY <1>1, <2>3, <3>2
      <4>2. At(q2, c + 1, i - 1) = At(q, c, i - 1)
        BY <1>1, <2>3, <3>2 DEF At
      <4>3. /\ nds[q[i]].prev = At(q, c, i - 1) /\ nds[q[i]].next = At(q, c, i + 1)
            /\ nds[q[i]].side = side /\ OB!Key(side, nds[q[i]].tick) = key
        BY <3>2 DEF Chain
      <4>5. CASE i = c
        <5>1. q[i] = lvl.tail /\ lvl.tail # NIL
          BY <1>1, <1>3, <3>2, <4>5
        <5>2. At(q2, c + 1, i + 1) = slot
          BY <1>1, <2>4, <4>5 DEF At
        <5>3. QED  BY <1>7, <4>1, <4>2, <4>3, <5>1, <5>2 DEF Same
      <4>6. CASE i # c
        <5>1. q[i] # lvl.tail
          <6>1. c \in 1 .. c
            BY <1>1, <3>2
          <6>2. q[i] # q[c]
            BY <3>2, <4>6, <6>1 DEF Chain
          <6>3. QED  BY <1>1, <1>3, <3>2, <6>2
        <5>2. nds2[q[i]] = nds[q[i]]
          BY <1>7, <4>1, <5>1
        <5>3. At(q2, c + 1, i + 1) = At(q, c, i + 1)
          BY <1>1, <2>3, <3>2, <4>6 DEF At
        <5>4. QED  BY <4>1, <4>2, <4>3, <5>2, <5>3
      <4>7. QED  BY <4>5, <4>6
    <3>3. QED  BY <1>1, <3>1, <3>2
  <2> HIDE DEF q2
  <2>8. QED  BY <2>1, <2>2, <2>5, <2>6, <2>7 DEF Chain
<1> HIDE DEF q2
<1>12. QED  BY <1>10, <1>11 DEF q2, OthersKept

\* No stored order is empty.
LEMMA LotsType == \A n \in Node : n.lots \in Int /\ n.lots > 0
  BY SlabAssumption DEF Node, OB!Lots

\* The cached total grows by the size of the order pushed.
LEMMA RunningPush ==
    ASSUME NEW nds, NEW nds2, NEW lvl \in Level, NEW q, NEW w, NEW slot, NEW lvl2,
           Running(nds, lvl, q, w), lvl2.count = lvl.count + 1,
           nds2[slot].lots \in Int, lvl2.total = lvl.total + nds2[slot].lots,
           \A i \in 1 .. lvl.count : nds2[q[i]].lots = nds[q[i]].lots
    PROVE  Running(nds2, lvl2, Pushed(q, lvl.count, slot),
                   PushedSum(w, lvl.count, nds2[slot].lots))
<1> DEFINE c == lvl.count
           q2 == Pushed(q, c, slot)
           lots == nds2[slot].lots
           w2 == PushedSum(w, c, lots)
<1>1. c \in Nat /\ lots \in Int /\ w \in [0 .. c -> Int] /\ w[0] = 0 /\ w[c] = lvl.total
  BY DEF Level, Running
<1>2. w2 \in [0 .. c + 1 -> Int] /\ w2[0] = 0 /\ w2[c + 1] = lvl2.total
  <2> HIDE DEF lots
  <2>1. lvl2.total = w[c] + lots
    BY <1>1 DEF lots
  <2>2. QED  BY <1>1, <2>1 DEF PushedSum
<1>3. ASSUME NEW i \in 1 .. c + 1
      PROVE  w2[i] = w2[i - 1] + nds2[q2[i]].lots
  <2>1. CASE i = c + 1
    <3>1. q2[i] = slot /\ w2[i] = w[c] + lots /\ w2[i - 1] = w[c]
      BY <1>1, <2>1 DEF Pushed, PushedSum
    <3>2. QED  BY <3>1
  <2>2. CASE i \in 1 .. c
    <3>1. q2[i] = q[i] /\ w2[i] = w[i] /\ w2[i - 1] = w[i - 1]
      BY <1>1, <2>2 DEF Pushed, PushedSum
    <3>2. w[i] = w[i - 1] + nds[q[i]].lots
      BY <2>2 DEF Running
    <3>3. QED  BY <2>2, <3>1, <3>2
  <2>3. QED  BY <1>1, <2>1, <2>2
<1> HIDE DEF q2, w2
<1>4. QED  BY <1>2, <1>3 DEF Running, q2, w2

-----------------------------------------------------------------------------
(* Taking a node out of its chain. *)

\* A node's neighbours linked to each other.
Cuts(nds, nds2, prev, next) ==
    /\ nds2 \in Seq(Node)
    /\ DOMAIN nds2 = DOMAIN nds
    /\ \A y \in DOMAIN nds :
          /\ Same(nds2[y], nds[y])
          /\ nds2[y].next = IF y = prev THEN next ELSE nds[y].next
          /\ nds2[y].prev = IF y = next THEN prev ELSE nds[y].prev
          /\ y # prev /\ y # next => nds2[y] = nds[y]

\* unlink sets the links of the two neighbours and of no one else.
LEMMA LinkedAround ==
    ASSUME NEW nds \in Seq(Node),
           NEW prev \in DOMAIN nds \cup {NIL}, NEW next \in DOMAIN nds \cup {NIL}
    PROVE  Cuts(nds, SetPrev(SetNext(nds, prev, next), next, prev), prev, next)
<1> DEFINE mid == SetNext(nds, prev, next)
           nds2 == SetPrev(mid, next, prev)
<1>1. prev \in Nat /\ next \in Nat /\ NIL \notin DOMAIN nds
  BY DEF NIL
<1>2. mid \in Seq(Node) /\ DOMAIN mid = DOMAIN nds
  BY <1>1, SetNextIs
<1>3. prev # NIL => /\ Same(mid[prev], nds[prev])
                    /\ mid[prev].next = next /\ mid[prev].prev = nds[prev].prev
  BY <1>1, SetNextIs
<1>4. \A y \in DOMAIN nds : y # prev => mid[y] = nds[y]
  BY <1>1, SetNextIs
<1> HIDE DEF mid
<1>5. next \in DOMAIN mid \cup {NIL}
  BY <1>2
<1>6. nds2 \in Seq(Node) /\ DOMAIN nds2 = DOMAIN mid
  BY <1>1, <1>2, <1>5, SetPrevIs
<1>7. next # NIL => /\ Same(nds2[next], mid[next])
                    /\ nds2[next].prev = prev /\ nds2[next].next = mid[next].next
  <2>1. next # NIL => Same(nds2[next], mid[next])
    BY <1>1, <1>2, <1>5, SetPrevIs
  <2>2. next # NIL => nds2[next].prev = prev
    BY <1>1, <1>2, <1>5, SetPrevIs
  <2>3. next # NIL => nds2[next].next = mid[next].next
    BY <1>1, <1>2, <1>5, SetPrevIs
  <2>4. QED  BY <2>1, <2>2, <2>3
<1>8. \A y \in DOMAIN mid : y # next => nds2[y] = mid[y]
  BY <1>1, <1>2, <1>5, SetPrevIs
<1> HIDE DEF nds2
<1>9. ASSUME NEW y \in DOMAIN nds
      PROVE  /\ Same(nds2[y], nds[y])
             /\ nds2[y].next = IF y = prev THEN next ELSE nds[y].next
             /\ nds2[y].prev = IF y = next THEN prev ELSE nds[y].prev
             /\ y # prev /\ y # next => nds2[y] = nds[y]
  <2>1. /\ Same(mid[y], nds[y]) /\ mid[y].prev = nds[y].prev
        /\ mid[y].next = IF y = prev THEN next ELSE nds[y].next
        /\ y # prev => mid[y] = nds[y]
    BY <1>1, <1>3, <1>4 DEF Same
  <2>2. /\ Same(nds2[y], mid[y]) /\ nds2[y].next = mid[y].next
        /\ nds2[y].prev = IF y = next THEN prev ELSE mid[y].prev
        /\ y # next => nds2[y] = mid[y]
    BY <1>1, <1>2, <1>7, <1>8 DEF Same
  <2>3. QED  BY <2>1, <2>2 DEF Same
<1>10. Cuts(nds, nds2, prev, next)
  BY <1>2, <1>6, <1>9 DEF Cuts
<1>11. QED  BY <1>10 DEF nds2, mid

\* A queue, its totals and its level without the i-th slot.
Cut(q, n, i) == [j \in 1 .. n - 1 |-> IF j < i THEN q[j] ELSE q[j + 1]]
CutSum(w, n, i, lots) == [j \in 0 .. n - 1 |-> IF j < i THEN w[j] ELSE w[j + 1] - lots]

\* Neighbours in a queue with one place cut out.
LEMMA AtCut ==
    ASSUME NEW n \in Nat, NEW i \in 1 .. n, NEW q, NEW j \in Nat
    PROVE  At(Cut(q, n, i), n - 1, j) = At(q, n, IF j < i THEN j ELSE j + 1)
  BY DEF At, Cut

\* What the level becomes.
Shortens(lvl, lvl2, prev, next, lots) ==
    lvl2 = [total |-> lvl.total - lots,
            head |-> IF prev = NIL THEN next ELSE lvl.head,
            tail |-> IF next = NIL THEN prev ELSE lvl.tail,
            count |-> lvl.count - 1]

\* With one of its slots unlinked, a level is the chain of the others.
LEMMA ChainCut ==
    ASSUME NEW nds \in Seq(Node), NEW lvl, NEW q, NEW side, NEW key,
           Chain(nds, lvl, q, side, key),
           NEW i \in 1 .. lvl.count,
           NEW nds2, Cuts(nds, nds2, nds[q[i]].prev, nds[q[i]].next),
           NEW lots \in Int, NEW lvl2,
           Shortens(lvl, lvl2, nds[q[i]].prev, nds[q[i]].next, lots)
    PROVE  Chain(nds2, lvl2, Cut(q, lvl.count, i), side, key)
<1> DEFINE c == lvl.count
           q2 == Cut(q, c, i)
           p == nds[q[i]].prev
           x == nds[q[i]].next
<1>1. /\ c \in Nat /\ DOMAIN nds = 1 .. Len(nds) /\ Len(nds) \in Nat
      /\ q \in [1 .. c -> 1 .. Len(nds)] /\ lvl \in Level /\ i \in 1 .. c /\ c - 1 \in Nat
  BY DEF Chain, Level
<1>2. lvl.tail = At(q, c, c) /\ lvl.head = At(q, c, 1)
  BY DEF Chain
<1>3. p = At(q, c, i - 1) /\ x = At(q, c, i + 1)
  BY DEF Chain
<1>4. \A k \in 1 .. c : q[k] # NIL /\ q[k] \in DOMAIN nds
  BY <1>1 DEF NIL
<1>5. \A k, l \in 1 .. c : q[k] = q[l] => k = l
  BY DEF Chain
<1>6. lvl.head \in Nat /\ lvl.tail \in Nat /\ p \in Nat /\ x \in Nat
  <2>1. At(q, c, i - 1) \in Nat /\ At(q, c, i + 1) \in Nat
    BY <1>1 DEF At, NIL
  <2>2. lvl.head \in Nat /\ lvl.tail \in Nat
    BY <1>1 DEF Level
  <2>3. QED  BY <1>3, <2>1, <2>2
<1>7. p = NIL <=> i = 1
  BY <1>1, <1>3, <1>4 DEF At
<1>8. x = NIL <=> i = c
  BY <1>1, <1>3, <1>4 DEF At
<1>9. \A j \in Nat : At(q2, c - 1, j) = At(q, c, IF j < i THEN j ELSE j + 1)
  BY <1>1, AtCut
<1>10. /\ lvl2.head = IF p = NIL THEN x ELSE lvl.head
       /\ lvl2.tail = IF x = NIL THEN p ELSE lvl.tail
       /\ lvl2 \in Level /\ lvl2.count = c - 1
  <2>1. lvl2.head = IF p = NIL THEN x ELSE lvl.head
    BY DEF Shortens
  <2>2. lvl2.tail = IF x = NIL THEN p ELSE lvl.tail
    BY DEF Shortens
  <2>3. lvl2.count = c - 1
    BY DEF Shortens
  <2>4. lvl2 \in Level
    BY <1>1, <1>6 DEF Level, Shortens
  <2>5. QED  BY <2>1, <2>2, <2>3, <2>4
<1>11. \A j \in 1 .. c - 1 : q2[j] = q[IF j < i THEN j ELSE j + 1]
  BY <1>1 DEF Cut
<1>12. q2 \in [1 .. c - 1 -> DOMAIN nds2]
  BY <1>1 DEF Cut, Cuts
<1> HIDE DEF q2, p, x
<1>13. \A j, k \in 1 .. c - 1 : q2[j] = q2[k] => j = k
  <2> SUFFICES ASSUME NEW j \in 1 .. c - 1, NEW k \in 1 .. c - 1, q2[j] = q2[k]
               PROVE  j = k
    OBVIOUS
  <2>1. (IF j < i THEN j ELSE j + 1) \in 1 .. c /\ (IF k < i THEN k ELSE k + 1) \in 1 .. c
    BY <1>1
  <2>2. (IF j < i THEN j ELSE j + 1) = (IF k < i THEN k ELSE k + 1)
    BY <1>5, <1>11, <2>1
  <2>3. QED  BY <1>1, <2>2
<1>14. lvl2.head = At(q2, c - 1, 1)
  <2>1. At(q2, c - 1, 1) = At(q, c, IF 1 < i THEN 1 ELSE 2)
    BY <1>9
  <2>2. QED  BY <1>1, <1>2, <1>3, <1>7, <1>10, <2>1
<1>15. lvl2.tail = At(q2, c - 1, c - 1)
  <2>1. At(q2, c - 1, c - 1) = At(q, c, IF c - 1 < i THEN c - 1 ELSE c)
    <3>1. c - 1 \in Nat /\ (c - 1) + 1 = c
      BY <1>1
    <3> HIDE DEF c
    <3>2. QED  BY <1>9, <3>1
  <2>2. QED  BY <1>1, <1>2, <1>3, <1>8, <1>10, <2>1
<1>16. ASSUME NEW j \in 1 .. c - 1
       PROVE  /\ nds2[q2[j]].prev = At(q2, c - 1, j - 1)
              /\ nds2[q2[j]].next = At(q2, c - 1, j + 1)
              /\ nds2[q2[j]].side = side
              /\ OB!Key(side, nds2[q2[j]].tick) = key
  <2>1. PICK k \in 1 .. c : k = (IF j < i THEN j ELSE j + 1)
    BY <1>1
  <2>2. k # i /\ q2[j] = q[k] /\ q[k] \in DOMAIN nds
    BY <1>1, <1>4, <1>11, <2>1
  <2>3. /\ nds[q[k]].prev = At(q, c, k - 1) /\ nds[q[k]].next = At(q, c, k + 1)
        /\ nds[q[k]].side = side /\ OB!Key(side, nds[q[k]].tick) = key
    BY DEF Chain
  <2>4. /\ Same(nds2[q[k]], nds[q[k]])
        /\ nds2[q[k]].next = IF q[k] = p THEN x ELSE nds[q[k]].next
        /\ nds2[q[k]].prev = IF q[k] = x THEN p ELSE nds[q[k]].prev
    BY <2>2 DEF Cuts, p, x
  <2>5. q[k] = x <=> k = i + 1
    <3>1. CASE i + 1 \in 1 .. c
      BY <1>3, <1>5, <3>1 DEF At
    <3>2. CASE i + 1 \notin 1 .. c
      BY <1>1, <1>3, <1>4, <3>2 DEF At
    <3>3. QED  BY <3>1, <3>2
  <2>6. q[k] = p <=> k = i - 1
    <3>1. CASE i - 1 \in 1 .. c
      BY <1>3, <1>5, <3>1 DEF At
    <3>2. CASE i - 1 \notin 1 .. c
      BY <1>1, <1>3, <1>4, <3>2 DEF At
    <3>3. QED  BY <3>1, <3>2
  <2>7. nds2[q[k]].prev = At(q2, c - 1, j - 1)
    <3>1. At(q2, c - 1, j - 1) = At(q, c, IF j - 1 < i THEN j - 1 ELSE j)
      <4>1. j - 1 \in Nat /\ (j - 1) + 1 = j
        OBVIOUS
      <4>2. QED  BY <1>9, <4>1
    <3>2. CASE k = i + 1
      <4>1. j = i
        BY <1>1, <2>1, <3>2
      <4>2. QED  BY <1>1, <1>3, <2>4, <2>5, <3>1, <3>2, <4>1
    <3>3. CASE k # i + 1
      <4>1. (IF j - 1 < i THEN j - 1 ELSE j) = k - 1
        BY <1>1, <2>1, <3>3
      <4>2. QED  BY <2>3, <2>4, <2>5, <3>1, <3>3, <4>1
    <3>4. QED  BY <3>2, <3>3
  <2>8. nds2[q[k]].next = At(q2, c - 1, j + 1)
    <3>1. At(q2, c - 1, j + 1) = At(q, c, IF j + 1 < i THEN j + 1 ELSE j + 2)
      <4>1. j + 1 \in Nat /\ (j + 1) + 1 = j + 2
        OBVIOUS
      <4>2. QED  BY <1>9, <4>1
    <3>2. CASE k = i - 1
      <4>1. j = i - 1
        BY <1>1, <2>1, <3>2
      <4>2. (IF j + 1 < i THEN j + 1 ELSE j + 2) = i + 1
        BY <1>1, <4>1
      <4>3. QED  BY <1>3, <2>4, <2>6, <3>1, <3>2, <4>2
    <3>3. CASE k # i - 1
      <4>1. (IF j + 1 < i THEN j + 1 ELSE j + 2) = k + 1
        BY <1>1, <2>1, <3>3
      <4>2. QED  BY <2>3, <2>4, <2>6, <3>1, <3>3, <4>1
    <3>4. QED  BY <3>2, <3>3
  <2>9. QED  BY <2>2, <2>3, <2>4, <2>7, <2>8 DEF Same
<1>17. QED  BY <1>10, <1>12, <1>13, <1>14, <1>15, <1>16 DEF Chain, q2

\* The cached total falls by the size of the order unlinked.
LEMMA RunningCut ==
    ASSUME NEW nds \in Seq(Node), NEW nds2, NEW lvl \in Level, NEW q, NEW w, NEW lvl2,
           Running(nds, lvl, q, w), NEW i \in 1 .. lvl.count,
           q \in [1 .. lvl.count -> DOMAIN nds],
           lvl2.count = lvl.count - 1, lvl2.total = lvl.total - nds[q[i]].lots,
           \A j \in 1 .. lvl.count : nds2[q[j]].lots = nds[q[j]].lots
    PROVE  Running(nds2, lvl2, Cut(q, lvl.count, i), CutSum(w, lvl.count, i, nds[q[i]].lots))
<1> DEFINE c == lvl.count
           q2 == Cut(q, c, i)
           lots == nds[q[i]].lots
           w2 == CutSum(w, c, i, lots)
<1>1. /\ c \in Nat /\ w \in [0 .. c -> Int] /\ w[0] = 0 /\ w[c] = lvl.total
      /\ i \in 1 .. c /\ c - 1 \in Nat
  BY DEF Level, Running
<1>2. lots \in Int /\ w[i] = w[i - 1] + lots
  <2>1. nds[q[i]] \in Node
    BY <1>1
  <2>2. QED  BY <2>1, LotsType DEF Running
<1> HIDE DEF lots
<1>3. w2 \in [0 .. c - 1 -> Int]
  BY <1>1, <1>2 DEF CutSum
<1>4. w2[0] = 0
  BY <1>1, <1>2 DEF CutSum
<1>5. w2[c - 1] = lvl2.total
  <2>1. lvl2.total = w[c] - lots
    BY <1>1 DEF lots
  <2>2. QED  BY <1>1, <1>2, <2>1 DEF CutSum
<1>6. ASSUME NEW j \in 1 .. c - 1
      PROVE  w2[j] = w2[j - 1] + nds2[q2[j]].lots
  <2>1. j \in 1 .. c /\ j + 1 \in 1 .. c /\ j - 1 \in 0 .. c - 1 /\ j \in 0 .. c - 1
    BY <1>1
  <2>2. /\ w[j] = w[j - 1] + nds[q[j]].lots /\ w[j + 1] = w[j] + nds[q[j + 1]].lots
        /\ nds2[q[j]].lots = nds[q[j]].lots /\ nds2[q[j + 1]].lots = nds[q[j + 1]].lots
    <3>1. (j + 1) - 1 = j
      OBVIOUS
    <3>2. QED  BY <2>1, <3>1 DEF Running
  <2>3. w[j] \in Int /\ w[j + 1] \in Int /\ w[j - 1] \in Int
    <3>1. j \in 0 .. c /\ j + 1 \in 0 .. c /\ j - 1 \in 0 .. c
      BY <1>1
    <3>2. QED  BY <1>1, <3>1
  <2>4. /\ nds[q[j]].lots \in Int /\ nds[q[j + 1]].lots \in Int
    <3>1. nds[q[j]] \in Node /\ nds[q[j + 1]] \in Node
      BY <2>1
    <3>2. QED  BY <3>1, LotsType
  <2>5. CASE j < i
    <3>1. q2[j] = q[j] /\ w2[j] = w[j] /\ w2[j - 1] = w[j - 1]
      BY <1>1, <2>1, <2>5 DEF Cut, CutSum
    <3>2. QED  BY <2>2, <3>1
  <2>6. CASE j = i
    <3>1. q2[j] = q[j + 1] /\ w2[j] = w[j + 1] - lots /\ w2[j - 1] = w[j - 1]
      BY <1>1, <2>1, <2>6 DEF Cut, CutSum
    <3>2. QED  BY <1>2, <2>2, <2>3, <2>4, <2>6, <3>1 DEF lots
  <2>7. CASE j > i
    <3>1. q2[j] = q[j + 1] /\ w2[j] = w[j + 1] - lots /\ w2[j - 1] = w[j] - lots
      BY <1>1, <2>1, <2>7 DEF Cut, CutSum
    <3>2. w[j + 1] = w[j] + nds[q[j + 1]].lots /\ nds2[q[j + 1]].lots = nds[q[j + 1]].lots
      BY <2>2
    <3> HIDE DEF w2, q2
    <3>3. QED  BY <1>2, <2>3, <2>4, <3>1, <3>2
  <2>8. QED  BY <1>1, <2>5, <2>6, <2>7
<1> HIDE DEF w2, q2
<1>7. QED  BY <1>3, <1>4, <1>5, <1>6 DEF Running, w2, q2, lots

-----------------------------------------------------------------------------
(* The whole store. *)

\* The level of a key, an empty one if there is none.
LevelOf(lvls, side, key) == IF key \in DOMAIN lvls[side] THEN lvls[side][key] ELSE NoLevel

\* qs holds the queue of every side and key, ws the running totals along it and
\* high a bound on the keys.
Typed(nds, fr, idx, lvls, high) ==
    /\ nds \in Seq(Node)
    /\ fr \in Seq(DOMAIN nds)
    /\ DOMAIN idx \subseteq Oid
    /\ \A o \in DOMAIN idx : idx[o] \in DOMAIN nds
    /\ DOMAIN lvls = OB!Side
    /\ high \in Int
    /\ \A s \in OB!Side : \A k \in DOMAIN lvls[s] :
          k \in Int /\ k <= high /\ lvls[s][k].count > 0

\* Every level is the chain of its queue, with its running totals.
Linked(nds, lvls, qs) ==
    \A s \in OB!Side, k \in Int : Chain(nds, LevelOf(lvls, s, k), qs[s][k], s, k)

Counted(nds, lvls, qs, ws) ==
    \A s \in OB!Side, k \in Int : Running(nds, LevelOf(lvls, s, k), qs[s][k], ws[s][k])

\* A slot is in the queue of its order's side and price.
InPlace(n, slot, lvls, qs) ==
    LET key == OB!Key(n.side, n.tick)
    IN  \E i \in 1 .. LevelOf(lvls, n.side, key).count : qs[n.side][key][i] = slot

\* The index finds every order of a queue, and none but those.
Indexed(nds, idx, lvls, qs) ==
    /\ \A o \in DOMAIN idx :
          nds[idx[o]].oid = o /\ InPlace(nds[idx[o]], idx[o], lvls, qs)
    /\ \A s \in OB!Side, k \in Int : \A i \in 1 .. LevelOf(lvls, s, k).count :
          LET o == nds[qs[s][k][i]].oid
          IN  o \in DOMAIN idx /\ idx[o] = qs[s][k][i]

\* Every other slot is free, once.
Freed(nds, fr, idx) ==
    /\ \A i, j \in DOMAIN fr : fr[i] = fr[j] => i = j
    /\ \A i \in DOMAIN fr, o \in DOMAIN idx : fr[i] # idx[o]
    /\ \A slot \in DOMAIN nds :
          (\E i \in DOMAIN fr : fr[i] = slot) \/ (\E o \in DOMAIN idx : idx[o] = slot)

Good(nds, fr, idx, lvls, qs, ws, high) ==
    /\ Typed(nds, fr, idx, lvls, high)
    /\ Linked(nds, lvls, qs)
    /\ Counted(nds, lvls, qs, ws)
    /\ Indexed(nds, idx, lvls, qs)
    /\ Freed(nds, fr, idx)

\* The invariant: there are such queues.
SlabInv == \E qs, ws, high : Good(nodes, free, index, levels, qs, ws, high)

\* Of a level filed, and of a table with one new entry.
Files(lvls, lvls2, side, key, level) ==
    /\ DOMAIN lvls2 = OB!Side
    /\ \A s \in OB!Side, k \in Int :
          /\ s # side \/ k # key => LevelOf(lvls2, s, k) = LevelOf(lvls, s, k)
    /\ LevelOf(lvls2, side, key) = IF level.count = 0 THEN NoLevel ELSE level
    /\ \A s \in OB!Side : \A k :
          k \in DOMAIN lvls2[s] => \/ s = side /\ k = key /\ level.count # 0
                                   \/ k \in DOMAIN lvls[s] /\ lvls2[s][k] = lvls[s][k]

Puts(f, f2, side, key, v) ==
    /\ f2[side][key] = v
    /\ \A s \in OB!Side, k \in Int : s # side \/ k # key => f2[s][k] = f[s][k]

\* A table of queues with one entry changed.
LEMMA PutExists ==
    ASSUME NEW f, NEW side \in OB!Side, NEW key \in Int, NEW v
    PROVE  \E f2 : Puts(f, f2, side, key, v)
<1> DEFINE f2 == [s \in OB!Side |->
                    [k \in Int |-> IF s = side /\ k = key THEN v ELSE f[s][k]]]
<1>1. f2[side][key] = v
  OBVIOUS
<1>2. \A s \in OB!Side, k \in Int : s # side \/ k # key => f2[s][k] = f[s][k]
  OBVIOUS
<1> HIDE DEF f2
<1>3. Puts(f, f2, side, key, v)
  BY <1>1, <1>2 DEF Puts
<1>4. QED  BY <1>3

\* Filing a level changes one entry, or removes it when the level is empty.
LEMMA FileFiles ==
    ASSUME DOMAIN levels = OB!Side, NEW side \in OB!Side, NEW key \in Int, NEW level,
           File(side, key, level)
    PROVE  Files(levels, levels', side, key, level)
<1> DEFINE keys == (DOMAIN levels[side] \ {key})
                      \cup (IF level.count = 0 THEN {} ELSE {key})
           new == [k \in keys |-> IF k = key THEN level ELSE levels[side][k]]
<1>1. levels' = [levels EXCEPT ![side] = new]
  BY DEF File
<1>2. /\ DOMAIN levels' = OB!Side
      /\ levels'[side] = new
      /\ \A s \in OB!Side : s # side => levels'[s] = levels[s]
  <2> HIDE DEF new
  <2>1. QED  BY <1>1
<1>3. /\ DOMAIN new = keys
      /\ \A k \in keys : new[k] = IF k = key THEN level ELSE levels[side][k]
  OBVIOUS
<1>4. /\ key \in keys <=> level.count # 0
      /\ \A k : k # key => (k \in keys <=> k \in DOMAIN levels[side])
  OBVIOUS
<1> HIDE DEF new, keys
<1>5. LevelOf(levels', side, key) = IF level.count = 0 THEN NoLevel ELSE level
  BY <1>2, <1>3, <1>4 DEF LevelOf
<1>6. ASSUME NEW s \in OB!Side, NEW k \in Int, s # side \/ k # key
      PROVE  LevelOf(levels', s, k) = LevelOf(levels, s, k)
  <2>1. CASE s # side
    BY <1>2, <2>1 DEF LevelOf
  <2>2. CASE s = side /\ k # key
    BY <1>2, <1>3, <1>4, <2>2 DEF LevelOf
  <2>3. QED  BY <1>6, <2>1, <2>2
<1>7. ASSUME NEW s \in OB!Side, NEW k, k \in DOMAIN levels'[s]
      PROVE  \/ s = side /\ k = key /\ level.count # 0
             \/ k \in DOMAIN levels[s] /\ levels'[s][k] = levels[s][k]
  <2>1. CASE s # side
    BY <1>2, <1>7, <2>1
  <2>2. CASE s = side
    BY <1>2, <1>3, <1>4, <1>7, <2>2
  <2>3. QED  BY <2>1, <2>2
<1>8. QED  BY <1>2, <1>5, <1>6, <1>7 DEF Files

\* A sort key is an integer.
LEMMA KeyType == \A s \in OB!Side, t \in Tick : OB!Key(s, t) \in Int
  BY SlabAssumption DEF OB!Key

\* A slot is in one place of one queue.
LEMMA OnePlace ==
    ASSUME NEW nds, NEW lvls, NEW qs, Linked(nds, lvls, qs),
           NEW s \in OB!Side, NEW k \in Int, NEW s2 \in OB!Side, NEW k2 \in Int,
           NEW i \in 1 .. LevelOf(lvls, s, k).count,
           NEW j \in 1 .. LevelOf(lvls, s2, k2).count,
           qs[s][k][i] = qs[s2][k2][j]
    PROVE  s = s2 /\ k = k2 /\ i = j
<1>1. /\ Chain(nds, LevelOf(lvls, s, k), qs[s][k], s, k)
      /\ Chain(nds, LevelOf(lvls, s2, k2), qs[s2][k2], s2, k2)
  BY DEF Linked
<1>2. s = s2
  BY <1>1 DEF Chain
<1>3. k = k2
  <2>1. OB!Key(s, nds[qs[s][k][i]].tick) = k
    BY <1>1 DEF Chain
  <2>2. OB!Key(s2, nds[qs[s2][k2][j]].tick) = k2
    BY <1>1 DEF Chain
  <2>3. QED  BY <1>2, <2>1, <2>2
<1>4. QED  BY <1>1, <1>2, <1>3 DEF Chain

-----------------------------------------------------------------------------
(* The three ways the store changes keep it in order. *)

\* The node, the free list, the index and the level of an order that joins.
Joins(lvls, node, key, lvl) ==
    /\ key = OB!Key(node.side, node.tick)
    /\ lvl = LevelOf(lvls, node.side, key)
    /\ node.prev = lvl.tail /\ node.next = NIL
IsNext(nds, fr, slot) == slot = IF fr = <<>> THEN Len(nds) + 1 ELSE fr[Len(fr)]
Pops(fr, fr2) == fr2 = SubSeq(fr, 1, Len(fr) - 1)
Enters(idx, idx2, oid, slot) ==
    /\ DOMAIN idx2 = DOMAIN idx \cup {oid} /\ idx2[oid] = slot
    /\ \A o \in DOMAIN idx : idx2[o] = idx[o]

\* And of one that leaves.
Frees(fr, fr2, slot) == fr2 = Append(fr, slot)
Leaves(idx, idx2, oid) ==
    /\ DOMAIN idx2 = DOMAIN idx \ {oid}
    /\ \A o \in DOMAIN idx : o # oid => idx2[o] = idx[o]
IsAt(slot, i, n, q) == i \in 1 .. n /\ slot = q[i]
IsLevel(lvls, side, key, lvl) == lvl = LevelOf(lvls, side, key)

\* What a pop of the free list leaves.
LEMMA PopOf ==
    ASSUME NEW S, NEW fr \in Seq(S), NEW fr2, Pops(fr, fr2)
    PROVE  /\ DOMAIN fr2 = 1 .. Len(fr) - 1 /\ fr2 \in Seq(S)
           /\ \A i \in DOMAIN fr2 : i \in DOMAIN fr /\ fr2[i] = fr[i] /\ i # Len(fr)
<1>1. CASE fr = <<>>
  BY <1>1 DEF Pops
<1>2. CASE fr # <<>>
  BY <1>2 DEF Pops
<1>3. QED  BY <1>1, <1>2

\* The slot an add uses holds no order and is in no queue.
LEMMA FreshSlot ==
    ASSUME NEW nds, NEW fr, NEW idx, NEW lvls, NEW qs, NEW ws, NEW high,
           Good(nds, fr, idx, lvls, qs, ws, high), NEW slot, IsNext(nds, fr, slot)
    PROVE  /\ slot \in 1 .. Len(nds) + 1
           /\ slot \in DOMAIN nds =>
                 fr # <<>> /\ Len(fr) \in DOMAIN fr /\ slot = fr[Len(fr)]
           /\ \A o \in DOMAIN idx : idx[o] # slot
           /\ \A s \in OB!Side, k \in Int : \A i \in 1 .. LevelOf(lvls, s, k).count :
                 qs[s][k][i] # slot
<1>1. /\ nds \in Seq(Node) /\ fr \in Seq(DOMAIN nds) /\ Len(nds) \in Nat
      /\ DOMAIN nds = 1 .. Len(nds)
  BY DEF Good, Typed
<1>2. slot \in 1 .. Len(nds) + 1
  BY <1>1 DEF IsNext
<1>3. slot \in DOMAIN nds => fr # <<>> /\ Len(fr) \in DOMAIN fr /\ slot = fr[Len(fr)]
  BY <1>1 DEF IsNext
<1>4. \A o \in DOMAIN idx : idx[o] # slot
  BY <1>3 DEF Good, Typed, Freed
<1>5. \A s \in OB!Side, k \in Int : \A i \in 1 .. LevelOf(lvls, s, k).count :
         qs[s][k][i] # slot
  BY <1>4 DEF Good, Indexed
<1>6. QED  BY <1>2, <1>3, <1>4, <1>5

\* All that a push does to the store.
Push(nds, nds2, fr, fr2, idx, idx2, lvls, lvls2, qs, qs2, ws, ws2,
     node, slot, key, lvl, lvl2) ==
    /\ node \in Node /\ node.oid \notin DOMAIN idx
    /\ Joins(lvls, node, key, lvl)
    /\ IsNext(nds, fr, slot)
    /\ Pushes(nds, nds2, slot, node, lvl.tail)
    /\ Pops(fr, fr2)
    /\ Enters(idx, idx2, node.oid, slot)
    /\ Extends(lvl, lvl2, slot, node.lots)
    /\ Files(lvls, lvls2, node.side, key, lvl2)
    /\ Puts(qs, qs2, node.side, key, Pushed(qs[node.side][key], lvl.count, slot))
    /\ Puts(ws, ws2, node.side, key, PushedSum(ws[node.side][key], lvl.count, node.lots))

\* A push at the back keeps the store in order.
LEMMA GoodPush ==
    ASSUME NEW nds, NEW fr, NEW idx, NEW lvls, NEW qs, NEW ws, NEW high,
           Good(nds, fr, idx, lvls, qs, ws, high),
           NEW node, NEW key, NEW lvl, NEW slot, NEW lvl2,
           NEW nds2, NEW fr2, NEW idx2, NEW lvls2, NEW qs2, NEW ws2,
           Push(nds, nds2, fr, fr2, idx, idx2, lvls, lvls2, qs, qs2, ws, ws2,
                node, slot, key, lvl, lvl2),
           NEW high2 \in Int, high <= high2, key <= high2
    PROVE  /\ slot \in Nat /\ \A o \in DOMAIN idx : idx[o] # slot
           /\ \A y \in DOMAIN nds : y # slot => Same(nds2[y], nds[y])
           /\ Good(nds2, fr2, idx2, lvls2, qs2, ws2, high2)
<1> DEFINE side == node.side
           q == qs[side][key]
           w == ws[side][key]
           c == lvl.count
           oid == node.oid
<1> SUFFICES ASSUME node \in Node,
                    node.oid \notin DOMAIN idx,
                    Joins(lvls, node, key, lvl),
                    IsNext(nds, fr, slot),
                    Pushes(nds, nds2, slot, node, lvl.tail),
                    Pops(fr, fr2),
                    Enters(idx, idx2, node.oid, slot),
                    Extends(lvl, lvl2, slot, node.lots),
                    Files(lvls, lvls2, node.side, key, lvl2),
                    Puts(qs, qs2, node.side, key,
                         Pushed(qs[node.side][key], lvl.count, slot)),
                    Puts(ws, ws2, node.side, key,
                         PushedSum(ws[node.side][key], lvl.count, node.lots))
             PROVE  /\ slot \in Nat /\ \A o \in DOMAIN idx : idx[o] # slot
                    /\ \A y \in DOMAIN nds : y # slot => Same(nds2[y], nds[y])
                    /\ Good(nds2, fr2, idx2, lvls2, qs2, ws2, high2)
  BY DEF Push
<1>1. /\ side \in OB!Side /\ node.tick \in Tick /\ key \in Int
      /\ oid \in Oid /\ node.lots \in Int /\ key = OB!Key(side, node.tick)
  <2>1. side \in OB!Side /\ node.tick \in Tick /\ oid \in Oid
    BY DEF Node
  <2>2. node.lots \in Int
    BY LotsType
  <2>3. key = OB!Key(side, node.tick)
    BY DEF Joins
  <2>4. QED  BY <2>1, <2>2, <2>3, KeyType
<1>2. /\ Chain(nds, lvl, q, side, key) /\ Running(nds, lvl, q, w)
      /\ nds \in Seq(Node)
  BY <1>1 DEF Good, Typed, Linked, Counted, Joins
<1>20. fr \in Seq(DOMAIN nds) /\ Len(nds) \in Nat /\ DOMAIN nds = 1 .. Len(nds)
  BY <1>2 DEF Good, Typed
<1>3. lvl \in Level /\ c \in Nat /\ lvl.total \in Int /\ q \in [1 .. c -> DOMAIN nds]
  BY <1>2 DEF Chain, Level
<1>22. lvl = LevelOf(lvls, side, key)
  BY DEF Joins
<1>4. slot \in 1 .. Len(nds) + 1
  BY FreshSlot
<1>21. slot \in DOMAIN nds => fr # <<>> /\ Len(fr) \in DOMAIN fr /\ slot = fr[Len(fr)]
  BY FreshSlot
<1>5. \A o \in DOMAIN idx : idx[o] # slot
  BY FreshSlot
<1>6. \A s \in OB!Side, k \in Int : \A i \in 1 .. LevelOf(lvls, s, k).count :
         qs[s][k][i] # slot
  BY FreshSlot
<1>7. \A i \in 1 .. c : q[i] # slot
  BY <1>1, <1>6, <1>22
<1> HIDE DEF side, q, w, c, oid
<1>8. /\ nds2 \in Seq(Node) /\ DOMAIN nds2 = DOMAIN nds \cup {slot} /\ nds2[slot] = node
      /\ \A y \in DOMAIN nds : y # slot =>
            /\ Same(nds2[y], nds[y])
            /\ (\A i \in 1 .. c : q[i] # y) => nds2[y] = nds[y]
      /\ Chain(nds2, lvl2, Pushed(q, c, slot), side, key)
  <2>1. /\ \A i \in 1 .. lvl.count : q[i] # slot
        /\ node.side = side /\ OB!Key(side, node.tick) = key
        /\ node.prev = lvl.tail /\ node.next = NIL
    BY <1>1, <1>7 DEF c, side, Joins
  <2>2. Chain(nds2, lvl2, Pushed(q, lvl.count, slot), side, key)
    BY <1>1, <1>2, <1>4, <2>1, ChainPush
  <2>3. nds2 \in Seq(Node) /\ DOMAIN nds2 = DOMAIN nds \cup {slot} /\ nds2[slot] = node
    BY DEF Pushes
  <2>4. OthersKept(nds, nds2, q, lvl.count, slot)
    BY <1>1, <1>2, <1>4, <2>1, ChainPush
  <2>5. QED  BY <2>2, <2>3, <2>4 DEF c, OthersKept
<1>9. Running(nds2, lvl2, Pushed(q, c, slot), PushedSum(w, c, node.lots))
  <2>1. \A i \in 1 .. c : nds2[q[i]].lots = nds[q[i]].lots
    BY <1>3, <1>7, <1>8 DEF Same
  <2>2. /\ lvl2.count = c + 1 /\ lvl2.total = lvl.total + nds2[slot].lots
        /\ nds2[slot].lots \in Int
    BY <1>1, <1>8 DEF c, Extends
  <2>3. Running(nds2, lvl2, Pushed(q, c, slot), PushedSum(w, c, nds2[slot].lots))
    BY <1>2, <1>3, <2>1, <2>2, RunningPush DEF c
  <2>4. QED  BY <1>8, <2>3
<1>10. /\ LevelOf(lvls2, side, key) = lvl2 /\ lvl2.count = c + 1
       /\ qs2[side][key] = Pushed(q, c, slot)
       /\ ws2[side][key] = PushedSum(w, c, node.lots)
  <2>1. lvl2.count = c + 1 /\ lvl2.count # 0
    BY <1>3 DEF Extends, c
  <2>2. QED  BY <2>1 DEF Files, Puts, side, q, w, c
<1>11. \A s \in OB!Side, k \in Int : s # side \/ k # key =>
           /\ LevelOf(lvls2, s, k) = LevelOf(lvls, s, k)
           /\ qs2[s][k] = qs[s][k] /\ ws2[s][k] = ws[s][k]
  BY DEF Files, Puts, side
<1>12. ASSUME NEW s \in OB!Side, NEW k \in Int, s # side \/ k # key,
              NEW i \in 1 .. LevelOf(lvls, s, k).count
       PROVE  qs[s][k][i] \in DOMAIN nds /\ nds2[qs[s][k][i]] = nds[qs[s][k][i]]
  <2>1. Linked(nds, lvls, qs) /\ Chain(nds, LevelOf(lvls, s, k), qs[s][k], s, k)
    BY DEF Good, Linked
  <2>2. qs[s][k][i] \in DOMAIN nds
    BY <2>1 DEF Chain
  <2>3. \A j \in 1 .. c : q[j] # qs[s][k][i]
    <3>1. \A j \in 1 .. LevelOf(lvls, side, key).count : qs[side][key][j] # qs[s][k][i]
      BY <1>1, <1>12, <2>1, OnePlace
    <3>2. QED  BY <1>22, <3>1 DEF q, c, side
  <2>4. QED  BY <1>6, <1>8, <2>2, <2>3
<1>13. Linked(nds2, lvls2, qs2)
  <2> SUFFICES ASSUME NEW s \in OB!Side, NEW k \in Int
               PROVE  Chain(nds2, LevelOf(lvls2, s, k), qs2[s][k], s, k)
    BY DEF Linked
  <2>1. CASE s = side /\ k = key
    BY <1>8, <1>10, <2>1
  <2>2. CASE s # side \/ k # key
    <3>1. Chain(nds, LevelOf(lvls, s, k), qs[s][k], s, k)
      BY DEF Good, Linked
    <3>2. DOMAIN nds \subseteq DOMAIN nds2
      BY <1>8
    <3>3. Chain(nds2, LevelOf(lvls, s, k), qs[s][k], s, k)
      BY <1>12, <2>2, <3>1, <3>2, ChainFrame
    <3>4. QED  BY <1>11, <2>2, <3>3
  <2>3. QED  BY <2>1, <2>2
<1>14. Counted(nds2, lvls2, qs2, ws2)
  <2> SUFFICES ASSUME NEW s \in OB!Side, NEW k \in Int
               PROVE  Running(nds2, LevelOf(lvls2, s, k), qs2[s][k], ws2[s][k])
    BY DEF Counted
  <2>1. CASE s = side /\ k = key
    BY <1>9, <1>10, <2>1
  <2>2. CASE s # side \/ k # key
    <3>1. Running(nds, LevelOf(lvls, s, k), qs[s][k], ws[s][k])
      BY DEF Good, Counted
    <3>2. Running(nds2, LevelOf(lvls, s, k), qs[s][k], ws[s][k])
      BY <1>12, <2>2, <3>1, RunningFrame
    <3>3. QED  BY <1>11, <2>2, <3>2
  <2>3. QED  BY <2>1, <2>2
<1>15. Indexed(nds2, idx2, lvls2, qs2)
  <2>1. \A i \in 1 .. c : Pushed(q, c, slot)[i] = q[i]
    BY <1>3 DEF Pushed
  <2>2. Pushed(q, c, slot)[c + 1] = slot /\ c + 1 \in 1 .. c + 1
    BY <1>3 DEF Pushed
  <2>3. 1 .. c \subseteq 1 .. c + 1 /\ \A i \in 1 .. c + 1 : i \in 1 .. c \/ i = c + 1
    BY <1>3
  <2>4. ASSUME NEW o \in DOMAIN idx2
        PROVE  nds2[idx2[o]].oid = o /\ InPlace(nds2[idx2[o]], idx2[o], lvls2, qs2)
    <3>1. CASE o = oid
      <4>1. idx2[o] = slot
        BY <3>1 DEF oid, Enters
      <4>2. InPlace(node, slot, lvls2, qs2)
        BY <1>1, <1>10, <2>2 DEF InPlace, side
      <4>3. QED  BY <1>8, <3>1, <4>1, <4>2 DEF oid
    <3>2. CASE o # oid
      <4>1. o \in DOMAIN idx /\ idx2[o] = idx[o] /\ idx[o] # slot
        BY <1>5, <3>2 DEF oid, Enters
      <4>2. /\ nds[idx[o]].oid = o /\ InPlace(nds[idx[o]], idx[o], lvls, qs)
            /\ idx[o] \in DOMAIN nds
        BY <4>1 DEF Good, Indexed, Typed
      <4>3. Same(nds2[idx[o]], nds[idx[o]])
        BY <1>8, <4>1, <4>2
      <4>4. PICK n : n = nds[idx[o]]
        OBVIOUS
      <4>5. n \in Node
        BY <1>2, <4>2, <4>4
      <4>6. n.side \in OB!Side /\ OB!Key(n.side, n.tick) \in Int
        BY <4>5, KeyType DEF Node
      <4>7. PICK i \in 1 .. LevelOf(lvls, n.side, OB!Key(n.side, n.tick)).count :
                qs[n.side][OB!Key(n.side, n.tick)][i] = idx[o]
        BY <4>2, <4>4 DEF InPlace
      <4>8. \E j \in 1 .. LevelOf(lvls2, n.side, OB!Key(n.side, n.tick)).count :
                qs2[n.side][OB!Key(n.side, n.tick)][j] = idx[o]
        <5>1. CASE n.side = side /\ OB!Key(n.side, n.tick) = key
          <6>1. i \in 1 .. c /\ q[i] = idx[o]
            BY <1>22, <4>7, <5>1 DEF c, q, side
          <6>2. QED  BY <1>10, <2>1, <2>3, <5>1, <6>1
        <5>2. CASE n.side # side \/ OB!Key(n.side, n.tick) # key
          BY <1>11, <4>6, <4>7, <5>2
        <5>3. QED  BY <5>1, <5>2
      <4>9. InPlace(nds2[idx[o]], idx[o], lvls2, qs2)
        BY <4>3, <4>4, <4>8 DEF InPlace, Same
      <4>10. QED  BY <4>1, <4>2, <4>3, <4>9 DEF Same
    <3>3. QED  BY <3>1, <3>2
  <2>5. ASSUME NEW s \in OB!Side, NEW k \in Int, NEW i \in 1 .. LevelOf(lvls2, s, k).count
        PROVE  /\ nds2[qs2[s][k][i]].oid \in DOMAIN idx2
               /\ idx2[nds2[qs2[s][k][i]].oid] = qs2[s][k][i]
    <3>1. CASE s = side /\ k = key /\ i = c + 1
      BY <1>8, <1>10, <2>2, <3>1 DEF oid, Enters
    <3>2. CASE s = side /\ k = key /\ i \in 1 .. c
      <4>1. qs2[s][k][i] = q[i] /\ q[i] \in DOMAIN nds
        BY <1>3, <1>10, <2>1, <3>2
      <4>2. nds[q[i]].oid \in DOMAIN idx /\ idx[nds[q[i]].oid] = q[i]
        BY <1>1, <1>22, <3>2 DEF Good, Indexed, q, c, side
      <4>3. nds2[q[i]].oid = nds[q[i]].oid
        BY <1>7, <1>8, <3>2, <4>1 DEF Same
      <4>4. QED  BY <4>1, <4>2, <4>3 DEF Enters
    <3>3. CASE s # side \/ k # key
      <4>1. qs2[s][k][i] = qs[s][k][i] /\ i \in 1 .. LevelOf(lvls, s, k).count
        BY <1>11, <3>3
      <4>2. nds2[qs[s][k][i]] = nds[qs[s][k][i]]
        BY <1>12, <3>3, <4>1
      <4>3. nds[qs[s][k][i]].oid \in DOMAIN idx /\ idx[nds[qs[s][k][i]].oid] = qs[s][k][i]
        BY <4>1 DEF Good, Indexed
      <4>4. QED  BY <4>1, <4>2, <4>3 DEF Enters
    <3>4. QED  BY <1>10, <2>3, <3>1, <3>2, <3>3
  <2>6. QED  BY <2>4, <2>5 DEF Indexed
<1>16. /\ DOMAIN fr2 = 1 .. Len(fr) - 1 /\ fr2 \in Seq(DOMAIN nds)
       /\ \A i \in DOMAIN fr2 : i \in DOMAIN fr /\ fr2[i] = fr[i] /\ i # Len(fr)
  BY <1>20, PopOf
<1>17. Freed(nds2, fr2, idx2)
  <2>1. \A i, j \in DOMAIN fr2 : fr2[i] = fr2[j] => i = j
    BY <1>16 DEF Good, Freed
  <2>2. ASSUME NEW i \in DOMAIN fr2, NEW o \in DOMAIN idx2 PROVE fr2[i] # idx2[o]
    <3>1. fr[i] = slot => FALSE
      <4>1. fr # <<>> /\ fr[i] \in DOMAIN nds /\ Len(fr) \in DOMAIN fr
        BY <1>20, <1>16
      <4>2. slot = fr[Len(fr)]
        BY <4>1 DEF IsNext
      <4>3. QED  BY <1>16, <4>1, <4>2 DEF Good, Freed
    <3>2. o # oid => o \in DOMAIN idx /\ idx2[o] = idx[o]
      BY DEF oid, Enters
    <3>3. QED  BY <1>16, <3>1, <3>2 DEF Good, Freed, oid, Enters
  <2>3. ASSUME NEW y \in DOMAIN nds2
        PROVE  (\E i \in DOMAIN fr2 : fr2[i] = y) \/ (\E o \in DOMAIN idx2 : idx2[o] = y)
    <3>1. CASE y = slot
      BY <3>1 DEF oid, Enters
    <3>2. CASE y \in DOMAIN nds /\ y # slot
      <4>1. CASE \E o \in DOMAIN idx : idx[o] = y
        BY <4>1 DEF Enters
      <4>2. CASE \E i \in DOMAIN fr : fr[i] = y
        <5>1. PICK i \in DOMAIN fr : fr[i] = y
          BY <4>2
        <5>2. i # Len(fr)
          BY <1>20, <3>2, <5>1 DEF IsNext
        <5>3. i \in DOMAIN fr2
          BY <1>20, <1>16, <5>2
        <5>4. QED  BY <1>16, <5>1, <5>3
      <4>3. QED  BY <3>2, <4>1, <4>2 DEF Good, Freed
    <3>3. QED  BY <1>8, <3>1, <3>2
  <2>4. QED  BY <2>1, <2>2, <2>3 DEF Freed
<1>18. Typed(nds2, fr2, idx2, lvls2, high2)
  <2>1. fr2 \in Seq(DOMAIN nds2)
    BY <1>8, <1>16
  <2>2. DOMAIN idx2 \subseteq Oid /\ \A o \in DOMAIN idx2 : idx2[o] \in DOMAIN nds2
    BY <1>1, <1>8 DEF Good, Typed, oid, Enters
  <2>3. DOMAIN lvls2 = OB!Side
    BY DEF Files
  <2>4. ASSUME NEW s \in OB!Side, NEW k \in DOMAIN lvls2[s]
        PROVE  k \in Int /\ k <= high2 /\ lvls2[s][k].count > 0
    <3>1. CASE s = side /\ k = key
      <4>1. lvls2[s][k] = lvl2
        BY <1>10, <3>1 DEF LevelOf
      <4>2. c + 1 > 0
        BY <1>3
      <4>3. QED  BY <1>1, <1>10, <3>1, <4>1, <4>2
    <3>2. CASE s # side \/ k # key
      <4>1. k \in DOMAIN lvls[s] /\ lvls2[s][k] = lvls[s][k]
        BY <3>2 DEF Files, side
      <4>2. k \in Int /\ k <= high /\ lvls[s][k].count > 0 /\ high \in Int
        BY <4>1 DEF Good, Typed
      <4>3. QED  BY <4>1, <4>2
    <3>3. QED  BY <3>1, <3>2
  <2>5. QED  BY <1>8, <2>1, <2>2, <2>3, <2>4 DEF Typed
<1>19. QED  BY <1>4, <1>5, <1>8, <1>13, <1>14, <1>15, <1>17, <1>18 DEF Good

\* All that taking out the i-th slot of a queue does to the store.
Pull(nds, nds2, fr, fr2, idx, idx2, lvls, lvls2, qs, qs2, ws, ws2,
     side, key, i, slot, lvl, lvl2) ==
    /\ IsLevel(lvls, side, key, lvl)
    /\ IsAt(slot, i, lvl.count, qs[side][key])
    /\ Cuts(nds, nds2, nds[slot].prev, nds[slot].next)
    /\ Frees(fr, fr2, slot)
    /\ Leaves(idx, idx2, nds[slot].oid)
    /\ Shortens(lvl, lvl2, nds[slot].prev, nds[slot].next, nds[slot].lots)
    /\ Files(lvls, lvls2, side, key, lvl2)
    /\ Puts(qs, qs2, side, key, Cut(qs[side][key], lvl.count, i))
    /\ Puts(ws, ws2, side, key, CutSum(ws[side][key], lvl.count, i, nds[slot].lots))

\* A cut from anywhere in a queue keeps the store in order.
LEMMA GoodCut ==
    ASSUME NEW nds, NEW fr, NEW idx, NEW lvls, NEW qs, NEW ws, NEW high,
           Good(nds, fr, idx, lvls, qs, ws, high),
           NEW side \in OB!Side, NEW key \in Int, NEW i, NEW slot, NEW lvl, NEW lvl2,
           NEW nds2, NEW fr2, NEW idx2, NEW lvls2, NEW qs2, NEW ws2,
           Pull(nds, nds2, fr, fr2, idx, idx2, lvls, lvls2, qs, qs2, ws, ws2,
                side, key, i, slot, lvl, lvl2)
    PROVE  /\ \A y \in DOMAIN nds : Same(nds2[y], nds[y])
           /\ LevelOf(lvls2, side, key).count = lvl.count - 1
           /\ Good(nds2, fr2, idx2, lvls2, qs2, ws2, high)
<1> DEFINE q == qs[side][key]
           w == ws[side][key]
           c == lvl.count
           n == nds[slot]
           cut == Cut(q, c, i)
<1> SUFFICES ASSUME IsLevel(lvls, side, key, lvl),
                    IsAt(slot, i, lvl.count, qs[side][key]),
                    Cuts(nds, nds2, nds[slot].prev, nds[slot].next),
                    Frees(fr, fr2, slot),
                    Leaves(idx, idx2, nds[slot].oid),
                    Shortens(lvl, lvl2, nds[slot].prev, nds[slot].next, nds[slot].lots),
                    Files(lvls, lvls2, side, key, lvl2),
                    Puts(qs, qs2, side, key, Cut(qs[side][key], lvl.count, i)),
                    Puts(ws, ws2, side, key,
                         CutSum(ws[side][key], lvl.count, i, nds[slot].lots))
             PROVE  /\ \A y \in DOMAIN nds : Same(nds2[y], nds[y])
                    /\ LevelOf(lvls2, side, key).count = lvl.count - 1
                    /\ Good(nds2, fr2, idx2, lvls2, qs2, ws2, high)
  BY DEF Pull
<1>1. /\ Chain(nds, lvl, q, side, key) /\ Running(nds, lvl, q, w) /\ nds \in Seq(Node)
      /\ lvl = LevelOf(lvls, side, key)
  BY DEF Good, Typed, Linked, Counted, IsLevel
<1>2. lvl \in Level /\ c \in Nat /\ lvl.total \in Int /\ q \in [1 .. c -> DOMAIN nds]
  BY <1>1 DEF Chain, Level
<1>26. i \in 1 .. c /\ slot = q[i]
  BY DEF IsAt
<1>3. slot \in DOMAIN nds /\ n \in Node /\ slot = q[i]
  BY <1>1, <1>2, <1>26
<1>4. n.lots \in Int
  BY <1>3, LotsType
<1>5. nds2 \in Seq(Node) /\ DOMAIN nds2 = DOMAIN nds
  BY DEF Cuts
<1>6. \A y \in DOMAIN nds : Same(nds2[y], nds[y])
  BY DEF Cuts
<1>7. lvl2.count = c - 1 /\ lvl2.total = lvl.total - n.lots
  BY DEF Shortens
<1> HIDE DEF q, w, c, n, cut
<1>8. Chain(nds2, lvl2, cut, side, key)
  <2>1. /\ Cuts(nds, nds2, nds[q[i]].prev, nds[q[i]].next)
        /\ Shortens(lvl, lvl2, nds[q[i]].prev, nds[q[i]].next, n.lots)
    BY <1>3 DEF n
  <2>2. QED  BY <1>1, <1>26, <1>4, <2>1, ChainCut DEF cut, c
<1>9. Running(nds2, lvl2, cut, CutSum(w, c, i, n.lots))
  <2>1. \A j \in 1 .. c : nds2[q[j]].lots = nds[q[j]].lots
    BY <1>2, <1>6 DEF Same
  <2>2. /\ lvl2.count = lvl.count - 1 /\ lvl2.total = lvl.total - nds[q[i]].lots
        /\ nds[q[i]].lots = n.lots
    BY <1>3, <1>7 DEF c, n
  <2>3. Running(nds2, lvl2, Cut(q, lvl.count, i), CutSum(w, lvl.count, i, nds[q[i]].lots))
    BY <1>1, <1>26, <1>2, <2>1, <2>2, RunningCut DEF c
  <2>4. QED  BY <2>2, <2>3 DEF c, cut
<1>10. LevelOf(lvls2, side, key) = lvl2
  <2>1. CASE lvl2.count # 0
    BY <2>1 DEF Files
  <2>2. CASE lvl2.count = 0
    <3>1. lvl2 = [total |-> lvl2.total, head |-> lvl2.head,
                  tail |-> lvl2.tail, count |-> lvl2.count]
      BY DEF Shortens
    <3>2. lvl2.head = NIL /\ lvl2.tail = NIL
      BY <1>8, <2>2 DEF Chain, At
    <3>3. lvl2.total = 0
      BY <1>9, <2>2 DEF Running
    <3>4. lvl2 = NoLevel
      BY <2>2, <3>1, <3>2, <3>3 DEF NoLevel
    <3>5. QED  BY <2>2, <3>4 DEF Files
  <2>3. QED  BY <2>1, <2>2
<1>11. qs2[side][key] = cut /\ ws2[side][key] = CutSum(w, c, i, n.lots)
  BY DEF Puts, cut, q, w, c, n
<1>12. \A s \in OB!Side, k \in Int : s # side \/ k # key =>
           /\ LevelOf(lvls2, s, k) = LevelOf(lvls, s, k)
           /\ qs2[s][k] = qs[s][k] /\ ws2[s][k] = ws[s][k]
  BY DEF Files, Puts
<1>13. nds[slot].prev = At(q, c, i - 1) /\ nds[slot].next = At(q, c, i + 1)
  BY <1>1, <1>26, <1>3 DEF Chain, c
<1>14. ASSUME NEW s \in OB!Side, NEW k \in Int, s # side \/ k # key,
              NEW j \in 1 .. LevelOf(lvls, s, k).count
       PROVE  qs[s][k][j] \in DOMAIN nds /\ nds2[qs[s][k][j]] = nds[qs[s][k][j]]
  <2>1. Linked(nds, lvls, qs) /\ Chain(nds, LevelOf(lvls, s, k), qs[s][k], s, k)
    BY DEF Good, Linked
  <2>2. qs[s][k][j] \in DOMAIN nds
    BY <2>1 DEF Chain
  <2>3. \A l \in 1 .. c : q[l] # qs[s][k][j]
    <3>1. \A l \in 1 .. LevelOf(lvls, side, key).count : qs[side][key][l] # qs[s][k][j]
      BY <1>14, <2>1, OnePlace
    <3>2. QED  BY <1>1, <3>1 DEF q, c
  <2>4. qs[s][k][j] # nds[slot].prev /\ qs[s][k][j] # nds[slot].next
    <3>1. NIL \notin DOMAIN nds
      BY <1>1 DEF NIL
    <3>2. QED  BY <1>13, <2>2, <2>3, <3>1 DEF At
  <2>5. QED  BY <2>2, <2>4 DEF Cuts
<1>15. Linked(nds2, lvls2, qs2)
  <2> SUFFICES ASSUME NEW s \in OB!Side, NEW k \in Int
               PROVE  Chain(nds2, LevelOf(lvls2, s, k), qs2[s][k], s, k)
    BY DEF Linked
  <2>1. CASE s = side /\ k = key
    BY <1>8, <1>10, <1>11, <2>1
  <2>2. CASE s # side \/ k # key
    <3>1. Chain(nds, LevelOf(lvls, s, k), qs[s][k], s, k)
      BY DEF Good, Linked
    <3>2. DOMAIN nds \subseteq DOMAIN nds2
      BY <1>5
    <3>3. Chain(nds2, LevelOf(lvls, s, k), qs[s][k], s, k)
      BY <1>14, <2>2, <3>1, <3>2, ChainFrame
    <3>4. QED  BY <1>12, <2>2, <3>3
  <2>3. QED  BY <2>1, <2>2
<1>16. Counted(nds2, lvls2, qs2, ws2)
  <2> SUFFICES ASSUME NEW s \in OB!Side, NEW k \in Int
               PROVE  Running(nds2, LevelOf(lvls2, s, k), qs2[s][k], ws2[s][k])
    BY DEF Counted
  <2>1. CASE s = side /\ k = key
    BY <1>9, <1>10, <1>11, <2>1
  <2>2. CASE s # side \/ k # key
    <3>1. Running(nds, LevelOf(lvls, s, k), qs[s][k], ws[s][k])
      BY DEF Good, Counted
    <3>2. Running(nds2, LevelOf(lvls, s, k), qs[s][k], ws[s][k])
      BY <1>14, <2>2, <3>1, RunningFrame
    <3>3. QED  BY <1>12, <2>2, <3>2
  <2>3. QED  BY <2>1, <2>2
<1>17. n.oid \in DOMAIN idx /\ idx[n.oid] = slot
  BY <1>1, <1>26, <1>3 DEF Good, Indexed, q, c, n
<1>18. \A o \in DOMAIN idx2 :
          o \in DOMAIN idx /\ o # n.oid /\ idx2[o] = idx[o] /\ idx[o] # slot
  <2>1. \A o \in DOMAIN idx : nds[idx[o]].oid = o
    BY DEF Good, Indexed
  <2>2. QED  BY <2>1 DEF Leaves, n
<1>27. /\ \A l \in 1 .. c - 1 : l < i => cut[l] = q[l]
       /\ \A l \in 1 .. c - 1 : ~(l < i) => cut[l] = q[l + 1]
  BY DEF cut, Cut
<1>19. \A j \in 1 .. c : j # i => \E l \in 1 .. c - 1 : cut[l] = q[j]
  <2> SUFFICES ASSUME NEW j \in 1 .. c, j # i
               PROVE  \E l \in 1 .. c - 1 : cut[l] = q[j]
    OBVIOUS
  <2>1. CASE j < i
    <3>1. j \in 1 .. c - 1
      BY <1>2, <1>26, <2>1
    <3>2. QED  BY <1>27, <2>1, <3>1
  <2>2. CASE j > i
    <3>1. j - 1 \in 1 .. c - 1 /\ ~(j - 1 < i) /\ (j - 1) + 1 = j
      BY <1>2, <1>26, <2>2
    <3>2. QED  BY <1>27, <3>1
  <2>3. QED  BY <1>2, <1>26, <2>1, <2>2
<1>20. \A l \in 1 .. c - 1 : \E j \in 1 .. c : j # i /\ cut[l] = q[j]
  <2> SUFFICES ASSUME NEW l \in 1 .. c - 1
               PROVE  \E j \in 1 .. c : j # i /\ cut[l] = q[j]
    OBVIOUS
  <2>1. CASE l < i
    <3>1. l \in 1 .. c /\ l # i
      BY <1>2, <1>26, <2>1
    <3>2. QED  BY <1>27, <2>1, <3>1
  <2>2. CASE ~(l < i)
    <3>1. l + 1 \in 1 .. c /\ l + 1 # i
      BY <1>2, <1>26, <2>2
    <3>2. QED  BY <1>27, <2>2, <3>1
  <2>3. QED  BY <2>1, <2>2
<1>21. Indexed(nds2, idx2, lvls2, qs2)
  <2>1. ASSUME NEW o \in DOMAIN idx2
        PROVE  nds2[idx2[o]].oid = o /\ InPlace(nds2[idx2[o]], idx2[o], lvls2, qs2)
    <3>1. /\ o \in DOMAIN idx /\ idx2[o] = idx[o] /\ idx[o] # slot
          /\ nds[idx[o]].oid = o /\ InPlace(nds[idx[o]], idx[o], lvls, qs)
          /\ idx[o] \in DOMAIN nds
      BY <1>18 DEF Good, Indexed, Typed
    <3>2. Same(nds2[idx[o]], nds[idx[o]])
      BY <1>6, <3>1
    <3>3. PICK m : m = nds[idx[o]]
      OBVIOUS
    <3>4. m.side \in OB!Side /\ OB!Key(m.side, m.tick) \in Int
      <4>1. m \in Node
        BY <1>1, <3>1, <3>3
      <4>2. QED  BY <4>1, KeyType DEF Node
    <3>5. PICK j \in 1 .. LevelOf(lvls, m.side, OB!Key(m.side, m.tick)).count :
              qs[m.side][OB!Key(m.side, m.tick)][j] = idx[o]
      BY <3>1, <3>3 DEF InPlace
    <3>6. \E l \in 1 .. LevelOf(lvls2, m.side, OB!Key(m.side, m.tick)).count :
              qs2[m.side][OB!Key(m.side, m.tick)][l] = idx[o]
      <4>1. CASE m.side = side /\ OB!Key(m.side, m.tick) = key
        <5>1. j \in 1 .. c /\ q[j] = idx[o] /\ j # i
          BY <1>1, <1>3, <3>1, <3>5, <4>1 DEF c, q
        <5>2. PICK l \in 1 .. c - 1 : cut[l] = q[j]
          BY <1>19, <5>1
        <5>3. QED  BY <1>7, <1>10, <1>11, <4>1, <5>1, <5>2
      <4>2. CASE m.side # side \/ OB!Key(m.side, m.tick) # key
        BY <1>12, <3>4, <3>5, <4>2
      <4>3. QED  BY <4>1, <4>2
    <3>7. InPlace(nds2[idx[o]], idx[o], lvls2, qs2)
      BY <3>2, <3>3, <3>6 DEF InPlace, Same
    <3>8. QED  BY <3>1, <3>2, <3>7 DEF Same
  <2>2. ASSUME NEW s \in OB!Side, NEW k \in Int, NEW l \in 1 .. LevelOf(lvls2, s, k).count
        PROVE  /\ nds2[qs2[s][k][l]].oid \in DOMAIN idx2
               /\ idx2[nds2[qs2[s][k][l]].oid] = qs2[s][k][l]
    <3>1. PICK y : y = qs2[s][k][l]
      OBVIOUS
    <3>2. /\ y \in DOMAIN nds /\ y # slot
          /\ nds[y].oid \in DOMAIN idx /\ idx[nds[y].oid] = y
      <4>1. CASE s = side /\ k = key
        <5>1. PICK j \in 1 .. c : j # i /\ cut[l] = q[j]
          BY <1>7, <1>10, <1>20, <4>1
        <5>2. y = q[j]
          BY <1>11, <3>1, <4>1, <5>1
        <5>3. q[j] # q[i]
          BY <1>1, <1>26, <5>1 DEF Chain, c
        <5>4. nds[q[j]].oid \in DOMAIN idx /\ idx[nds[q[j]].oid] = q[j]
          BY <1>1 DEF Good, Indexed, q, c
        <5>5. QED  BY <1>2, <1>3, <5>2, <5>3, <5>4
      <4>2. CASE s # side \/ k # key
        <5>1. y = qs[s][k][l] /\ l \in 1 .. LevelOf(lvls, s, k).count
          BY <1>12, <3>1, <4>2
        <5>2. y \in DOMAIN nds
          BY <1>14, <4>2, <5>1
        <5>3. y # slot
          <6>1. Linked(nds, lvls, qs)
            BY DEF Good
          <6>2. i \in 1 .. LevelOf(lvls, side, key).count /\ qs[side][key][i] = slot
            BY <1>1, <1>26 DEF c, q
          <6>3. qs[s][k][l] # qs[side][key][i]
            BY <4>2, <5>1, <6>1, <6>2, OnePlace
          <6>4. QED  BY <5>1, <6>2, <6>3
        <5>4. nds[y].oid \in DOMAIN idx /\ idx[nds[y].oid] = y
          BY <5>1 DEF Good, Indexed
        <5>5. QED  BY <5>2, <5>3, <5>4
      <4>3. QED  BY <4>1, <4>2
    <3>3. nds2[y].oid = nds[y].oid
      BY <1>6, <3>2 DEF Same
    <3>4. nds[y].oid # n.oid
      BY <1>17, <3>2
    <3>5. QED  BY <3>1, <3>2, <3>3, <3>4 DEF Leaves, n
  <2>3. QED  BY <2>1, <2>2 DEF Indexed
<1>22. /\ fr2 \in Seq(DOMAIN nds) /\ DOMAIN fr2 = DOMAIN fr \cup {Len(fr) + 1}
       /\ Len(fr) + 1 \notin DOMAIN fr
       /\ fr2[Len(fr) + 1] = slot /\ \A j \in DOMAIN fr : fr2[j] = fr[j]
  <2>1. fr \in Seq(DOMAIN nds)
    BY DEF Good, Typed
  <2>2. QED  BY <1>3, <2>1 DEF Frees
<1>23. Freed(nds2, fr2, idx2)
  <2>1. \A j \in DOMAIN fr : fr[j] # slot
    BY <1>17 DEF Good, Freed
  <2>2. \A j, l \in DOMAIN fr2 : fr2[j] = fr2[l] => j = l
    BY <1>22, <2>1 DEF Good, Freed
  <2>3. \A j \in DOMAIN fr2, o \in DOMAIN idx2 : fr2[j] # idx2[o]
    BY <1>18, <1>22 DEF Good, Freed
  <2>4. ASSUME NEW y \in DOMAIN nds2
        PROVE  (\E j \in DOMAIN fr2 : fr2[j] = y) \/ (\E o \in DOMAIN idx2 : idx2[o] = y)
    <3>1. CASE \E j \in DOMAIN fr : fr[j] = y
      BY <1>22, <3>1
    <3>2. CASE \E o \in DOMAIN idx : idx[o] = y
      <4>1. PICK o \in DOMAIN idx : idx[o] = y
        BY <3>2
      <4>2. CASE o = n.oid
        BY <1>17, <1>22, <4>1, <4>2
      <4>3. CASE o # n.oid
        BY <4>1, <4>3 DEF Leaves, n
      <4>4. QED  BY <4>2, <4>3
    <3>3. QED  BY <1>5, <3>1, <3>2 DEF Good, Freed
  <2>5. QED  BY <2>2, <2>3, <2>4 DEF Freed
<1>24. Typed(nds2, fr2, idx2, lvls2, high)
  <2>1. DOMAIN idx2 \subseteq Oid /\ \A o \in DOMAIN idx2 : idx2[o] \in DOMAIN nds2
    BY <1>5, <1>18 DEF Good, Typed
  <2>2. DOMAIN lvls2 = OB!Side /\ high \in Int
    BY DEF Files, Good, Typed
  <2>3. ASSUME NEW s \in OB!Side, NEW k \in DOMAIN lvls2[s]
        PROVE  k \in Int /\ k <= high /\ lvls2[s][k].count > 0
    <3>1. CASE k \in DOMAIN lvls[s] /\ lvls2[s][k] = lvls[s][k]
      BY <3>1 DEF Good, Typed
    <3>2. CASE s = side /\ k = key /\ lvl2.count # 0
      <4>1. lvls2[s][k] = lvl2
        BY <1>10, <3>2 DEF LevelOf
      <4>2. key \in DOMAIN lvls[side]
        <5>1. lvl.count # 0
          BY <1>2, <1>26 DEF c
        <5>2. NoLevel.count = 0
          BY DEF NoLevel
        <5>3. QED  BY <1>1, <5>1, <5>2 DEF LevelOf
      <4>3. k \in Int /\ k <= high
        BY <3>2, <4>2 DEF Good, Typed
      <4>4. lvl2.count > 0
        BY <1>2, <1>26, <1>7, <3>2 DEF c
      <4>5. QED  BY <4>1, <4>3, <4>4
    <3>3. QED  BY <3>1, <3>2 DEF Files
  <2>4. QED  BY <1>5, <1>22, <2>1, <2>2, <2>3 DEF Typed
<1>25. QED  BY <1>6, <1>7, <1>10, <1>15, <1>16, <1>21, <1>23, <1>24 DEF Good, c

\* An order with other lots in its slot, and what its totals and level become.
Shrinks(nds, nds2, slot, lots) ==
    /\ nds2 \in Seq(Node) /\ DOMAIN nds2 = DOMAIN nds
    /\ \A y \in DOMAIN nds : y # slot => nds2[y] = nds[y]
    /\ nds2[slot].lots = lots
    /\ nds2[slot].oid = nds[slot].oid /\ nds2[slot].user = nds[slot].user
    /\ nds2[slot].side = nds[slot].side /\ nds2[slot].tick = nds[slot].tick
    /\ nds2[slot].prev = nds[slot].prev /\ nds2[slot].next = nds[slot].next
ShrunkSum(w, n, i, less) == [j \in 0 .. n |-> IF j < i THEN w[j] ELSE w[j] - less]
Lessens(lvl, lvl2, less) == lvl2 = [lvl EXCEPT !.total = @ - less]

\* The cached total falls by what an order shrunk in place lost.
LEMMA RunningShrink ==
    ASSUME NEW nds \in Seq(Node), NEW nds2, NEW lvl \in Level, NEW q, NEW w, NEW lvl2,
           Running(nds, lvl, q, w), NEW i \in 1 .. lvl.count,
           q \in [1 .. lvl.count -> DOMAIN nds],
           \A j, k \in 1 .. lvl.count : q[j] = q[k] => j = k,
           NEW lots \in Int, Shrinks(nds, nds2, q[i], lots),
           lvl2.count = lvl.count, lvl2.total = lvl.total - (nds[q[i]].lots - lots)
    PROVE  Running(nds2, lvl2, q, ShrunkSum(w, lvl.count, i, nds[q[i]].lots - lots))
<1> DEFINE c == lvl.count
           less == nds[q[i]].lots - lots
           w2 == ShrunkSum(w, c, i, less)
<1>1. c \in Nat /\ w \in [0 .. c -> Int] /\ w[0] = 0 /\ w[c] = lvl.total /\ i \in 1 .. c
  BY DEF Level, Running
<1>2. \A j \in 1 .. c : nds[q[j]].lots \in Int /\ q[j] \in DOMAIN nds
  BY LotsType
<1>3. less \in Int
  BY <1>2
<1>4. lvl2.total = w[c] - less /\ lvl2.count = c
  BY <1>1
<1> HIDE DEF c, less
<1>5. w2 \in [0 .. c -> Int] /\ w2[0] = 0 /\ w2[c] = lvl2.total
  BY <1>1, <1>3, <1>4 DEF ShrunkSum
<1>6. ASSUME NEW j \in 1 .. c
      PROVE  w2[j] = w2[j - 1] + nds2[q[j]].lots
  <2>1. j \in 0 .. c /\ j - 1 \in 0 .. c
    BY <1>1
  <2>2. w[j] \in Int /\ w[j - 1] \in Int /\ w[j] = w[j - 1] + nds[q[j]].lots
    BY <1>1, <2>1 DEF Running, c
  <2>3. /\ w2[j] = IF j < i THEN w[j] ELSE w[j] - less
        /\ w2[j - 1] = IF j - 1 < i THEN w[j - 1] ELSE w[j - 1] - less
    BY <2>1 DEF ShrunkSum
  <2> HIDE DEF w2
  <2>4. CASE j = i
    <3>1. nds2[q[j]].lots = lots /\ less = nds[q[j]].lots - lots
      BY <2>4 DEF Shrinks, less
    <3>2. w2[j] = w[j] - less /\ w2[j - 1] = w[j - 1]
      BY <1>1, <2>3, <2>4
    <3>3. nds[q[j]].lots \in Int /\ lots \in Int /\ w[j - 1] \in Int
      BY <1>2, <2>2
    <3>4. w2[j] = (w[j - 1] + nds[q[j]].lots) - (nds[q[j]].lots - lots)
      BY <2>2, <3>1, <3>2
    <3>5. \A x, y, z \in Int : (x + y) - (y - z) = x + z
      OBVIOUS
    <3>6. w2[j] = w[j - 1] + lots
      BY <3>3, <3>4, <3>5
    <3>7. QED  BY <3>1, <3>2, <3>6
  <2>5. CASE j # i
    <3>1. nds2[q[j]] = nds[q[j]]
      BY <1>1, <1>2, <2>5 DEF Shrinks, c
    <3>2. j < i => w2[j] = w[j] /\ w2[j - 1] = w[j - 1]
      BY <1>1, <2>3
    <3>3. ~(j < i) => w2[j] = w[j] - less /\ w2[j - 1] = w[j - 1] - less
      BY <1>1, <2>3, <2>5
    <3>4. QED  BY <1>2, <1>3, <2>2, <3>1, <3>2, <3>3
  <2>6. QED  BY <2>4, <2>5
<1> HIDE DEF w2
<1>7. Running(nds2, lvl2, q, w2)
  BY <1>4, <1>5, <1>6 DEF Running
<1>8. QED  BY <1>7 DEF w2, less, c

\* All that shrinking in place does to the store.
Lessen(nds, nds2, lvls, lvls2, qs, ws, ws2, side, key, i, slot, lots, lvl, lvl2) ==
    /\ IsLevel(lvls, side, key, lvl)
    /\ IsAt(slot, i, lvl.count, qs[side][key])
    /\ Shrinks(nds, nds2, slot, lots)
    /\ Lessens(lvl, lvl2, nds[slot].lots - lots)
    /\ Files(lvls, lvls2, side, key, lvl2)
    /\ Puts(ws, ws2, side, key,
            ShrunkSum(ws[side][key], lvl.count, i, nds[slot].lots - lots))

\* A smaller order in place keeps the store in order.
LEMMA GoodShrink ==
    ASSUME NEW nds, NEW fr, NEW idx, NEW lvls, NEW qs, NEW ws, NEW high,
           Good(nds, fr, idx, lvls, qs, ws, high),
           NEW side \in OB!Side, NEW key \in Int, NEW i, NEW slot, NEW lots \in Int,
           NEW lvl, NEW lvl2, NEW nds2, NEW lvls2, NEW ws2,
           Lessen(nds, nds2, lvls, lvls2, qs, ws, ws2, side, key, i, slot, lots, lvl, lvl2)
    PROVE  Good(nds2, fr, idx, lvls2, qs, ws2, high)
<1> DEFINE q == qs[side][key]
           w == ws[side][key]
           c == lvl.count
           less == nds[slot].lots - lots
<1> SUFFICES ASSUME IsLevel(lvls, side, key, lvl),
                    IsAt(slot, i, lvl.count, qs[side][key]),
                    Shrinks(nds, nds2, slot, lots),
                    Lessens(lvl, lvl2, nds[slot].lots - lots),
                    Files(lvls, lvls2, side, key, lvl2),
                    Puts(ws, ws2, side, key,
                         ShrunkSum(ws[side][key], lvl.count, i, nds[slot].lots - lots))
             PROVE  Good(nds2, fr, idx, lvls2, qs, ws2, high)
  BY DEF Lessen
<1>1. /\ Chain(nds, lvl, q, side, key) /\ Running(nds, lvl, q, w) /\ nds \in Seq(Node)
      /\ lvl = LevelOf(lvls, side, key)
  BY DEF Good, Typed, Linked, Counted, IsLevel
<1>2. lvl \in Level /\ c \in Nat /\ lvl.total \in Int /\ q \in [1 .. c -> DOMAIN nds]
  BY <1>1 DEF Chain, Level
<1>0. i \in 1 .. c /\ slot = q[i]
  BY DEF IsAt
<1>3. slot \in DOMAIN nds /\ nds[slot] \in Node /\ slot = q[i] /\ i \in 1 .. c
  BY <1>0, <1>1, <1>2
<1>4. less \in Int
  BY <1>3, LotsType
<1>5. nds2 \in Seq(Node) /\ DOMAIN nds2 = DOMAIN nds
  BY DEF Shrinks
<1>6. \A y \in DOMAIN nds : /\ nds2[y].oid = nds[y].oid
                            /\ nds2[y].side = nds[y].side /\ nds2[y].tick = nds[y].tick
                            /\ nds2[y].prev = nds[y].prev /\ nds2[y].next = nds[y].next
                            /\ y # slot => nds2[y] = nds[y]
  BY DEF Shrinks
<1> HIDE DEF less
<1>7. /\ lvl2.count = c /\ lvl2.total = lvl.total - less /\ lvl2 \in Level
      /\ lvl2.head = lvl.head /\ lvl2.tail = lvl.tail
  BY <1>2, <1>4 DEF Lessens, Level, less
<1> HIDE DEF q, w, c
<1>8. Chain(nds2, lvl2, q, side, key)
  <2>1. Chain(nds2, lvl, q, side, key)
    <3>1. \A j \in 1 .. lvl.count : q[j] \in DOMAIN nds
      BY <1>2 DEF c
    <3>2. DOMAIN nds \subseteq DOMAIN nds2
      BY <1>5
    <3>3. QED  BY <1>1, <1>6, <3>1, <3>2, ChainFrame
  <2>2. QED  BY <1>7, <2>1 DEF Chain, c
<1>9. Running(nds2, lvl2, q, ShrunkSum(w, c, i, less))
  <2>1. \A j, k \in 1 .. lvl.count : q[j] = q[k] => j = k
    BY <1>1 DEF Chain
  <2>2. /\ Shrinks(nds, nds2, q[i], lots) /\ lvl2.count = lvl.count
        /\ lvl2.total = lvl.total - (nds[q[i]].lots - lots)
        /\ less = nds[q[i]].lots - lots /\ q \in [1 .. lvl.count -> DOMAIN nds]
    BY <1>2, <1>3, <1>7 DEF c, less
  <2>3. Running(nds2, lvl2, q, ShrunkSum(w, lvl.count, i, nds[q[i]].lots - lots))
    BY <1>0, <1>1, <1>2, <2>1, <2>2, RunningShrink
  <2>4. QED  BY <2>2, <2>3 DEF c
<1>10. LevelOf(lvls2, side, key) = lvl2 /\ lvl2.count > 0
  <2>1. lvl2.count > 0
    BY <1>2, <1>3, <1>7
  <2>2. lvl2.count # 0
    BY <1>2, <1>3, <1>7
  <2>3. QED  BY <2>1, <2>2 DEF Files
<1>11. ws2[side][key] = ShrunkSum(w, c, i, less)
  BY DEF Puts, w, c, less
<1>12. \A s \in OB!Side, k \in Int : s # side \/ k # key =>
           LevelOf(lvls2, s, k) = LevelOf(lvls, s, k) /\ ws2[s][k] = ws[s][k]
  BY DEF Files, Puts
<1>13. \A s \in OB!Side, k \in Int : LevelOf(lvls2, s, k).count = LevelOf(lvls, s, k).count
  BY <1>1, <1>7, <1>10, <1>12 DEF c
<1>14. ASSUME NEW s \in OB!Side, NEW k \in Int, NEW j \in 1 .. LevelOf(lvls, s, k).count
       PROVE  /\ qs[s][k][j] \in DOMAIN nds
              /\ s # side \/ k # key => nds2[qs[s][k][j]] = nds[qs[s][k][j]]
  <2>1. Linked(nds, lvls, qs) /\ Chain(nds, LevelOf(lvls, s, k), qs[s][k], s, k)
    BY DEF Good, Linked
  <2>2. qs[s][k][j] \in DOMAIN nds
    BY <2>1 DEF Chain
  <2>3. ASSUME s # side \/ k # key, qs[s][k][j] = slot PROVE FALSE
    <3>1. i \in 1 .. LevelOf(lvls, side, key).count /\ qs[side][key][i] = qs[s][k][j]
      BY <1>1, <1>3, <2>3 DEF q, c
    <3>2. s = side /\ k = key
      BY <2>1, <3>1, OnePlace
    <3>3. QED  BY <2>3, <3>2
  <2>4. QED  BY <1>6, <2>2, <2>3
<1>15. Linked(nds2, lvls2, qs)
  <2> SUFFICES ASSUME NEW s \in OB!Side, NEW k \in Int
               PROVE  Chain(nds2, LevelOf(lvls2, s, k), qs[s][k], s, k)
    BY DEF Linked
  <2>1. CASE s = side /\ k = key
    BY <1>8, <1>10, <2>1 DEF q
  <2>2. CASE s # side \/ k # key
    <3>1. Chain(nds, LevelOf(lvls, s, k), qs[s][k], s, k)
      BY DEF Good, Linked
    <3>2. DOMAIN nds \subseteq DOMAIN nds2
      BY <1>5
    <3>3. Chain(nds2, LevelOf(lvls, s, k), qs[s][k], s, k)
      BY <1>14, <2>2, <3>1, <3>2, ChainFrame
    <3>4. QED  BY <1>12, <2>2, <3>3
  <2>3. QED  BY <2>1, <2>2
<1>16. Counted(nds2, lvls2, qs, ws2)
  <2> SUFFICES ASSUME NEW s \in OB!Side, NEW k \in Int
               PROVE  Running(nds2, LevelOf(lvls2, s, k), qs[s][k], ws2[s][k])
    BY DEF Counted
  <2>1. CASE s = side /\ k = key
    BY <1>9, <1>10, <1>11, <2>1 DEF q
  <2>2. CASE s # side \/ k # key
    <3>1. Running(nds, LevelOf(lvls, s, k), qs[s][k], ws[s][k])
      BY DEF Good, Counted
    <3>2. Running(nds2, LevelOf(lvls, s, k), qs[s][k], ws[s][k])
      BY <1>14, <2>2, <3>1, RunningFrame
    <3>3. QED  BY <1>12, <2>2, <3>2
  <2>3. QED  BY <2>1, <2>2
<1>17. Indexed(nds2, idx, lvls2, qs)
  <2>1. ASSUME NEW o \in DOMAIN idx
        PROVE  nds2[idx[o]].oid = o /\ InPlace(nds2[idx[o]], idx[o], lvls2, qs)
    <3>1. /\ nds[idx[o]].oid = o /\ InPlace(nds[idx[o]], idx[o], lvls, qs)
          /\ idx[o] \in DOMAIN nds
      BY DEF Good, Indexed, Typed
    <3>2. /\ nds2[idx[o]].oid = o /\ nds2[idx[o]].side = nds[idx[o]].side
          /\ nds2[idx[o]].tick = nds[idx[o]].tick
      BY <1>6, <3>1
    <3>3. nds[idx[o]].side \in OB!Side /\ OB!Key(nds[idx[o]].side, nds[idx[o]].tick) \in Int
      <4>1. nds[idx[o]] \in Node
        BY <1>1, <3>1
      <4>2. QED  BY <4>1, KeyType DEF Node
    <3>4. InPlace(nds2[idx[o]], idx[o], lvls2, qs)
      BY <1>13, <3>1, <3>2, <3>3 DEF InPlace
    <3>5. QED  BY <3>2, <3>4
  <2>2. ASSUME NEW s \in OB!Side, NEW k \in Int, NEW j \in 1 .. LevelOf(lvls2, s, k).count
        PROVE  /\ nds2[qs[s][k][j]].oid \in DOMAIN idx
               /\ idx[nds2[qs[s][k][j]].oid] = qs[s][k][j]
    <3>1. j \in 1 .. LevelOf(lvls, s, k).count
      BY <1>13
    <3>2. qs[s][k][j] \in DOMAIN nds /\ nds2[qs[s][k][j]].oid = nds[qs[s][k][j]].oid
      BY <1>6, <1>14, <3>1
    <3>3. QED  BY <3>1, <3>2 DEF Good, Indexed
  <2>3. QED  BY <2>1, <2>2 DEF Indexed
<1>18. Freed(nds2, fr, idx)
  BY <1>5 DEF Good, Freed
<1>19. Typed(nds2, fr, idx, lvls2, high)
  <2>1. /\ fr \in Seq(DOMAIN nds2) /\ DOMAIN idx \subseteq Oid /\ high \in Int
        /\ \A o \in DOMAIN idx : idx[o] \in DOMAIN nds2
    BY <1>5 DEF Good, Typed
  <2>2. DOMAIN lvls2 = OB!Side
    BY DEF Files
  <2>3. ASSUME NEW s \in OB!Side, NEW k \in DOMAIN lvls2[s]
        PROVE  k \in Int /\ k <= high /\ lvls2[s][k].count > 0
    <3>1. CASE k \in DOMAIN lvls[s] /\ lvls2[s][k] = lvls[s][k]
      BY <3>1 DEF Good, Typed
    <3>2. CASE s = side /\ k = key /\ lvl2.count # 0
      <4>1. lvls2[s][k] = lvl2
        BY <1>10, <3>2 DEF LevelOf
      <4>2. key \in DOMAIN lvls[side]
        <5>1. lvl # NoLevel
          BY <1>2, <1>3 DEF NoLevel, c
        <5>2. QED  BY <1>1, <5>1 DEF LevelOf
      <4>3. k \in Int /\ k <= high
        BY <3>2, <4>2 DEF Good, Typed
      <4>4. QED  BY <1>10, <4>1, <4>3
    <3>3. QED  BY <3>1, <3>2 DEF Files
  <2>4. QED  BY <1>5, <2>1, <2>2, <2>3 DEF Typed
<1>20. QED  BY <1>15, <1>16, <1>17, <1>18, <1>19 DEF Good

-----------------------------------------------------------------------------
(* The invariant. *)

\* The empty store is in order.
LEMMA InitGood == Init => SlabInv
<1> SUFFICES ASSUME Init PROVE SlabInv
  OBVIOUS
<1> DEFINE qs == [s \in OB!Side |-> [k \in Int |-> <<>>]]
           ws == [s \in OB!Side |-> [k \in Int |-> [i \in 0 .. 0 |-> 0]]]
<1>1. /\ nodes = <<>> /\ free = <<>> /\ DOMAIN index = {} /\ DOMAIN levels = OB!Side
      /\ \A s \in OB!Side : DOMAIN levels[s] = {}
  BY DEF Init
<1>2. \A s \in OB!Side, k \in Int : LevelOf(levels, s, k) = NoLevel
  BY <1>1 DEF LevelOf
<1>3. NoLevel \in Level /\ NoLevel.count = 0 /\ NoLevel.total = 0
      /\ NoLevel.head = NIL /\ NoLevel.tail = NIL
  BY DEF NoLevel, Level, NIL
<1>4. \A s \in OB!Side, k \in Int : qs[s][k] = <<>> /\ ws[s][k] = [i \in 0 .. 0 |-> 0]
  OBVIOUS
<1> HIDE DEF qs, ws
<1>5. \A s, k : Chain(nodes, NoLevel, <<>>, s, k)
  BY <1>1, <1>3 DEF Chain, At
<1>6. Running(nodes, NoLevel, <<>>, [i \in 0 .. 0 |-> 0])
  BY <1>3 DEF Running
<1>7. Linked(nodes, levels, qs)
  BY <1>2, <1>4, <1>5 DEF Linked
<1>8. Counted(nodes, levels, qs, ws)
  BY <1>2, <1>4, <1>6 DEF Counted
<1>9. Indexed(nodes, index, levels, qs)
  BY <1>1, <1>2, <1>3 DEF Indexed
<1>10. Freed(nodes, free, index)
  BY <1>1 DEF Freed
<1>11. Typed(nodes, free, index, levels, 0)
  BY <1>1 DEF Typed
<1>12. Good(nodes, free, index, levels, qs, ws, 0)
  BY <1>7, <1>8, <1>9, <1>10, <1>11 DEF Good
<1>13. QED  BY <1>12 DEF SlabInv

\* Who stands before whom.
Stands(nds, lvls, qs, a, b) ==
    \E s \in OB!Side, k \in Int : \E i, j \in 1 .. LevelOf(lvls, s, k).count :
        i < j /\ a = nds[qs[s][k][i]].oid /\ b = nds[qs[s][k][j]].oid

\* What a push, a cut and a shrink do, as the callers of the book see it.
Inserted(oid, order, qs, qs2) ==
    /\ DOMAIN index' = DOMAIN index \cup {oid}
    /\ Viewed(nodes'[index'[oid]]) = order
    /\ \A o \in DOMAIN index : Viewed(nodes'[index'[o]]) = Viewed(nodes[index[o]])
    /\ \A a, b : Stands(nodes', levels', qs2, a, b) <=>
          \/ Stands(nodes, levels, qs, a, b)
          \/ /\ b = oid /\ a \in DOMAIN index
             /\ nodes[index[a]].side = order.side /\ nodes[index[a]].tick = order.tick

Withdrawn(oid, qs, qs2) ==
    /\ DOMAIN index' = DOMAIN index \ {oid}
    /\ \A o \in DOMAIN index' : Viewed(nodes'[index'[o]]) = Viewed(nodes[index[o]])
    /\ \A a, b : Stands(nodes', levels', qs2, a, b) <=>
          Stands(nodes, levels, qs, a, b) /\ a # oid /\ b # oid

Shrunk(oid, lots, qs) ==
    /\ index' = index
    /\ Viewed(nodes'[index'[oid]]) = [Viewed(nodes[index[oid]]) EXCEPT !.lots = lots]
    /\ \A o \in DOMAIN index : o # oid =>
          Viewed(nodes'[index'[o]]) = Viewed(nodes[index[o]])
    /\ \A a, b : Stands(nodes', levels', qs, a, b) <=> Stands(nodes, levels, qs, a, b)

\* On one side a key is one price.
LEMMA OneKey ==
    \A s \in OB!Side, t, u \in Tick : OB!Key(s, t) = OB!Key(s, u) => t = u
<1>1. \A t \in Tick : t \in Int
  BY SlabAssumption
<1>2. QED  BY <1>1 DEF OB!Key

\* The orders of a level are the resting ones of its side and price.
LEMMA AtThisLevel ==
    ASSUME NEW nds, NEW fr, NEW idx, NEW lvls, NEW qs, NEW ws, NEW high,
           Good(nds, fr, idx, lvls, qs, ws, high),
           NEW side \in OB!Side, NEW tick \in Tick, NEW key, key = OB!Key(side, tick), NEW a
    PROVE  (\E i \in 1 .. LevelOf(lvls, side, key).count : a = nds[qs[side][key][i]].oid)
              <=> a \in DOMAIN idx /\ nds[idx[a]].side = side /\ nds[idx[a]].tick = tick
<1>1. key \in Int
  BY KeyType
<1>2. Chain(nds, LevelOf(lvls, side, key), qs[side][key], side, key) /\ nds \in Seq(Node)
  BY <1>1 DEF Good, Typed, Linked
<1>3. ASSUME NEW i \in 1 .. LevelOf(lvls, side, key).count, a = nds[qs[side][key][i]].oid
      PROVE  a \in DOMAIN idx /\ nds[idx[a]].side = side /\ nds[idx[a]].tick = tick
  <2>1. a \in DOMAIN idx /\ idx[a] = qs[side][key][i]
    BY <1>1, <1>3 DEF Good, Indexed
  <2>2. nds[idx[a]].side = side /\ OB!Key(side, nds[idx[a]].tick) = key
    BY <1>2, <2>1 DEF Chain
  <2>3. nds[idx[a]].tick \in Tick
    <3>1. idx[a] \in DOMAIN nds
      BY <2>1 DEF Good, Typed
    <3>2. nds[idx[a]] \in Node
      BY <1>2, <3>1
    <3>3. QED  BY <3>2 DEF Node
  <2>4. nds[idx[a]].tick = tick
    BY <2>2, <2>3, OneKey
  <2>5. QED  BY <2>1, <2>2, <2>4
<1>4. ASSUME a \in DOMAIN idx, nds[idx[a]].side = side, nds[idx[a]].tick = tick
      PROVE  \E i \in 1 .. LevelOf(lvls, side, key).count : a = nds[qs[side][key][i]].oid
  BY <1>4 DEF Good, Indexed, InPlace
<1>5. QED  BY <1>3, <1>4

\* A place of a queue holds a slot of the slab.
LEMMA PlaceIsSlot ==
    ASSUME NEW nds, NEW fr, NEW idx, NEW lvls, NEW qs, NEW ws, NEW high,
           Good(nds, fr, idx, lvls, qs, ws, high),
           NEW s \in OB!Side, NEW k \in Int, NEW i \in 1 .. LevelOf(lvls, s, k).count
    PROVE  qs[s][k][i] \in DOMAIN nds
<1>1. Chain(nds, LevelOf(lvls, s, k), qs[s][k], s, k)
  BY DEF Good, Linked
<1>2. QED  BY <1>1 DEF Chain

\* A pushed order stands behind those of its level; the others stand as before.
LEMMA StandsPush ==
    ASSUME NEW nds, NEW fr, NEW idx, NEW lvls, NEW qs, NEW ws, NEW high,
           Good(nds, fr, idx, lvls, qs, ws, high),
           NEW node, NEW key, NEW lvl, NEW slot, NEW lvl2,
           NEW nds2, NEW fr2, NEW idx2, NEW lvls2, NEW qs2, NEW ws2,
           Push(nds, nds2, fr, fr2, idx, idx2, lvls, lvls2, qs, qs2, ws, ws2,
                node, slot, key, lvl, lvl2),
           \A y \in DOMAIN nds : y # slot => Same(nds2[y], nds[y]),
           NEW a, NEW b
    PROVE  Stands(nds2, lvls2, qs2, a, b) <=>
              \/ Stands(nds, lvls, qs, a, b)
              \/ b = node.oid /\ \E i \in 1 .. LevelOf(lvls, node.side, key).count :
                    a = nds[qs[node.side][key][i]].oid
<1> DEFINE side == node.side
           c == lvl.count
           q == qs[side][key]
<1>1. /\ side \in OB!Side /\ node.tick \in Tick /\ key \in Int
      /\ lvl = LevelOf(lvls, side, key)
  <2>1. side \in OB!Side /\ node.tick \in Tick
    <3>1. node \in Node
      BY DEF Push
    <3>2. QED  BY <3>1 DEF Node
  <2>2. QED  BY <2>1, KeyType DEF Push, Joins
<1>2. c \in Nat /\ q \in [1 .. c -> DOMAIN nds]
  BY <1>1 DEF Good, Linked, Chain, Level
<1>3. LevelOf(lvls2, side, key).count = c + 1
  <2>1. lvl2.count = c + 1
    BY DEF Push, Extends
  <2>2. LevelOf(lvls2, side, key) = IF lvl2.count = 0 THEN NoLevel ELSE lvl2
    BY DEF Push, Files
  <2> HIDE DEF c
  <2>3. QED  BY <1>2, <2>1, <2>2
<1>4. \A s \in OB!Side, k \in Int : s # side \/ k # key =>
         LevelOf(lvls2, s, k) = LevelOf(lvls, s, k) /\ qs2[s][k] = qs[s][k]
  BY DEF Push, Files, Puts
<1>5. \A s \in OB!Side, k \in Int : \A i \in 1 .. LevelOf(lvls, s, k).count :
         nds2[qs[s][k][i]].oid = nds[qs[s][k][i]].oid
  <2>1. \A s \in OB!Side, k \in Int : \A i \in 1 .. LevelOf(lvls, s, k).count :
           qs[s][k][i] # slot
    BY FreshSlot DEF Push
  <2>2. ASSUME NEW s \in OB!Side, NEW k \in Int, NEW i \in 1 .. LevelOf(lvls, s, k).count
        PROVE  qs[s][k][i] \in DOMAIN nds
    BY PlaceIsSlot
  <2>3. QED  BY <2>1, <2>2 DEF Same
<1>6. \A i \in 1 .. c : qs2[side][key][i] = q[i]
  BY <1>2 DEF Push, Puts, Pushed
<1>7. nds2[qs2[side][key][c + 1]].oid = node.oid
  BY <1>2 DEF Push, Puts, Pushed, Pushes
<1> HIDE DEF c, q, side
<1>8. ASSUME Stands(nds2, lvls2, qs2, a, b)
      PROVE  \/ Stands(nds, lvls, qs, a, b)
             \/ b = node.oid /\ \E i \in 1 .. c : a = nds[q[i]].oid
  <2>1. PICK s \in OB!Side, k \in Int : \E i, j \in 1 .. LevelOf(lvls2, s, k).count :
           i < j /\ a = nds2[qs2[s][k][i]].oid /\ b = nds2[qs2[s][k][j]].oid
    BY <1>8 DEF Stands
  <2>2. PICK i \in 1 .. LevelOf(lvls2, s, k).count, j \in 1 .. LevelOf(lvls2, s, k).count :
           i < j /\ a = nds2[qs2[s][k][i]].oid /\ b = nds2[qs2[s][k][j]].oid
    BY <2>1
  <2>3. CASE s # side \/ k # key
    <3>1. i \in 1 .. LevelOf(lvls, s, k).count /\ j \in 1 .. LevelOf(lvls, s, k).count
      BY <1>4, <2>3
    <3>2. a = nds[qs[s][k][i]].oid /\ b = nds[qs[s][k][j]].oid
      BY <1>4, <1>5, <2>2, <2>3, <3>1
    <3>3. QED  BY <2>2, <3>1, <3>2 DEF Stands
  <2>4. CASE s = side /\ k = key
    <3>1. i \in 1 .. c /\ j \in 1 .. c + 1
      BY <1>2, <1>3, <2>2, <2>4
    <3>2. i \in 1 .. LevelOf(lvls, side, key).count /\ a = nds[q[i]].oid
      BY <1>1, <1>5, <1>6, <2>2, <2>4, <3>1 DEF c, q
    <3>3. CASE j = c + 1
      BY <1>7, <2>2, <2>4, <3>1, <3>2, <3>3
    <3>4. CASE j \in 1 .. c
      <4>1. j \in 1 .. LevelOf(lvls, side, key).count /\ b = nds[q[j]].oid
        BY <1>1, <1>5, <1>6, <2>2, <2>4, <3>4 DEF c, q
      <4>2. QED  BY <1>1, <2>2, <3>2, <4>1 DEF Stands, q
    <3>5. QED  BY <1>2, <3>1, <3>3, <3>4
  <2>5. QED  BY <2>3, <2>4
<1>9. ASSUME Stands(nds, lvls, qs, a, b) PROVE Stands(nds2, lvls2, qs2, a, b)
  <2>1. PICK s \in OB!Side, k \in Int : \E i, j \in 1 .. LevelOf(lvls, s, k).count :
           i < j /\ a = nds[qs[s][k][i]].oid /\ b = nds[qs[s][k][j]].oid
    BY <1>9 DEF Stands
  <2>2. PICK i \in 1 .. LevelOf(lvls, s, k).count, j \in 1 .. LevelOf(lvls, s, k).count :
           i < j /\ a = nds[qs[s][k][i]].oid /\ b = nds[qs[s][k][j]].oid
    BY <2>1
  <2>3. a = nds2[qs[s][k][i]].oid /\ b = nds2[qs[s][k][j]].oid
    BY <1>5, <2>2
  <2>4. CASE s # side \/ k # key
    BY <1>4, <2>2, <2>3, <2>4 DEF Stands
  <2>5. CASE s = side /\ k = key
    <3>1. i \in 1 .. c /\ j \in 1 .. c
      BY <1>1, <2>5 DEF c
    <3>2. i \in 1 .. c + 1 /\ j \in 1 .. c + 1
      BY <1>2, <3>1
    <3>3. QED  BY <1>1, <1>3, <1>6, <2>2, <2>3, <2>5, <3>1, <3>2 DEF Stands, q
  <2>6. QED  BY <2>4, <2>5
<1>10. ASSUME b = node.oid, NEW i \in 1 .. c, a = nds[q[i]].oid
       PROVE  Stands(nds2, lvls2, qs2, a, b)
  <2>1. a = nds2[qs2[side][key][i]].oid /\ b = nds2[qs2[side][key][c + 1]].oid
    BY <1>1, <1>5, <1>6, <1>7, <1>10 DEF c, q
  <2>2. i \in 1 .. c + 1 /\ c + 1 \in 1 .. c + 1 /\ i < c + 1
    BY <1>2
  <2>3. QED  BY <1>1, <1>3, <2>1, <2>2 DEF Stands
<1>11. QED  BY <1>1, <1>8, <1>9, <1>10 DEF c, q, side

\* An add (book.rs:141) keeps the store in order and inserts its order.
LEMMA PushBackKeeps ==
    ASSUME NEW qs, NEW ws, NEW high, Good(nodes, free, index, levels, qs, ws, high),
           NEW oid \in Oid, oid \notin DOMAIN index, NEW order \in OB!Order,
           PushBack(oid, order)
    PROVE  \E qs2, ws2, high2 :
              /\ Good(nodes', free', index', levels', qs2, ws2, high2)
              /\ Inserted(oid, order, qs, qs2)
<1> DEFINE side == order.side
           key == OB!Key(order.side, order.tick)
           lvl == Lvl(order.side, key)
           slot == NextSlot
           node == [oid |-> oid, user |-> order.user, lots |-> order.lots,
                    tick |-> order.tick, side |-> order.side,
                    prev |-> lvl.tail, next |-> NIL]
           lvl2 == [total |-> lvl.total + order.lots,
                    head |-> IF lvl.tail = NIL THEN slot ELSE lvl.head,
                    tail |-> slot, count |-> lvl.count + 1]
           q == qs[side][key]
           c == lvl.count
<1>1. /\ side \in OB!Side /\ order.tick \in Tick /\ order.user \in User
      /\ order.lots \in OB!Lots
  BY DEF OB!Order
<1>2. key \in Int
  BY <1>1, KeyType
<1>3. lvl = LevelOf(levels, side, key)
  BY DEF Lvl, LevelOf
<1>4. IsNext(nodes, free, slot)
  BY DEF IsNext, NextSlot
<1>5. /\ nodes' = SetNext(Stored(nodes, slot, node), lvl.tail, slot)
      /\ Pops(free, free')
      /\ Enters(index, index', oid, slot)
      /\ File(side, key, lvl2)
  BY DEF PushBack, Pops, Enters
<1> HIDE DEF slot
<1>6. Chain(nodes, lvl, q, side, key) /\ nodes \in Seq(Node) /\ DOMAIN levels = OB!Side
  <2> HIDE DEF lvl, key, side
  <2>1. QED  BY <1>1, <1>2, <1>3 DEF Good, Linked, Typed
<1>7. /\ slot \in 1 .. Len(nodes) + 1
      /\ \A o \in DOMAIN index : index[o] # slot
      /\ \A i \in 1 .. c : q[i] # slot
  <2> HIDE DEF lvl, key, side
  <2>1. slot \in 1 .. Len(nodes) + 1
    BY <1>4, FreshSlot
  <2>2. \A o \in DOMAIN index : index[o] # slot
    BY <1>4, FreshSlot
  <2>3. \A i \in 1 .. LevelOf(levels, side, key).count : qs[side][key][i] # slot
    BY <1>1, <1>2, <1>4, FreshSlot
  <2>4. QED  BY <1>3, <2>1, <2>2, <2>3
<1>8. c \in Nat /\ lvl.tail = At(q, c, c) /\ q \in [1 .. c -> DOMAIN nodes] /\ lvl \in Level
  <2> HIDE DEF lvl, key, side
  <2>1. QED  BY <1>6 DEF Chain, Level
<1>9. lvl.tail \in DOMAIN nodes \cup {NIL} /\ lvl.tail # slot /\ lvl.tail \in Nat
  <2> HIDE DEF lvl, key, side
  <2>1. lvl.tail \in Nat
    BY <1>8 DEF Level
  <2>2. slot # NIL
    BY <1>7 DEF NIL
  <2>3. QED  BY <1>7, <1>8, <2>1, <2>2 DEF At
<1>10. node \in Node
  <2> HIDE DEF lvl, key
  <2>1. QED  BY <1>1, <1>9 DEF Node, NIL
<1>11. /\ node.oid = oid /\ node.side = side /\ node.tick = order.tick
       /\ node.lots = order.lots /\ node.user = order.user
       /\ node.prev = lvl.tail /\ node.next = NIL
       /\ Viewed(node) = order
  <2>1. order = [user |-> order.user, side |-> order.side, tick |-> order.tick,
                 lots |-> order.lots]
    BY DEF OB!Order
  <2> HIDE DEF lvl, key
  <2>2. QED  BY <2>1 DEF Viewed
<1>12. Extends(lvl, lvl2, slot, node.lots)
  BY DEF Extends
<1> HIDE DEF node, lvl2, lvl, key, side, q, c
<1>13. Pushes(nodes, nodes', slot, node, lvl.tail)
  BY <1>5, <1>6, <1>7, <1>9, <1>10, StoredAndLinked
<1>14. Files(levels, levels', side, key, lvl2)
  BY <1>1, <1>2, <1>5, <1>6, FileFiles
<1>15. Joins(levels, node, key, lvl)
  BY <1>3, <1>11 DEF Joins, key, side
<1>16. PICK qs2 : Puts(qs, qs2, side, key, Pushed(q, c, slot))
  BY <1>1, <1>2, PutExists
<1>17. PICK ws2 : Puts(ws, ws2, side, key, PushedSum(ws[side][key], c, node.lots))
  BY <1>1, <1>2, PutExists
<1>18. PICK high2 \in Int : high <= high2 /\ key <= high2
  <2>1. high \in Int
    BY DEF Good, Typed
  <2>2. CASE high <= key
    BY <1>2, <2>1, <2>2
  <2>3. CASE ~(high <= key)
    BY <1>2, <2>1, <2>3
  <2>4. QED  BY <2>2, <2>3
<1>19. /\ \A y \in DOMAIN nodes : y # slot => Same(nodes'[y], nodes[y])
       /\ Good(nodes', free', index', levels', qs2, ws2, high2)
       /\ Push(nodes, nodes', free, free', index, index', levels, levels', qs, qs2, ws, ws2,
               node, slot, key, lvl, lvl2)
  <2>1. /\ Enters(index, index', node.oid, slot) /\ node.oid \notin DOMAIN index
        /\ Files(levels, levels', node.side, key, lvl2)
        /\ Puts(qs, qs2, node.side, key, Pushed(qs[node.side][key], lvl.count, slot))
        /\ Puts(ws, ws2, node.side, key,
                PushedSum(ws[node.side][key], lvl.count, node.lots))
    BY <1>5, <1>11, <1>14, <1>16, <1>17 DEF q, c
  <2>2. Push(nodes, nodes', free, free', index, index', levels, levels', qs, qs2, ws, ws2,
             node, slot, key, lvl, lvl2)
    BY <1>4, <1>5, <1>10, <1>12, <1>13, <1>15, <2>1 DEF Push
  <2>3. QED  BY <1>18, <2>2, GoodPush
<1>20. Inserted(oid, order, qs, qs2)
  <2>1. DOMAIN index' = DOMAIN index \cup {oid}
    BY <1>5 DEF Enters
  <2>2. Viewed(nodes'[index'[oid]]) = order
    BY <1>5, <1>11, <1>13 DEF Enters, Pushes
  <2>3. ASSUME NEW o \in DOMAIN index
        PROVE  Viewed(nodes'[index'[o]]) = Viewed(nodes[index[o]])
    <3>1. index'[o] = index[o] /\ index[o] # slot
      BY <1>5, <1>7 DEF Enters
    <3>2. index[o] \in DOMAIN nodes
      BY DEF Good, Typed
    <3>3. QED  BY <1>19, <3>1, <3>2 DEF Same, Viewed
  <2>4. ASSUME NEW a, NEW b
        PROVE  Stands(nodes', levels', qs2, a, b) <=>
                  \/ Stands(nodes, levels, qs, a, b)
                  \/ /\ b = oid /\ a \in DOMAIN index
                     /\ nodes[index[a]].side = order.side /\ nodes[index[a]].tick = order.tick
    <3>1. Stands(nodes', levels', qs2, a, b) <=>
             \/ Stands(nodes, levels, qs, a, b)
             \/ b = node.oid /\ \E i \in 1 .. LevelOf(levels, node.side, key).count :
                   a = nodes[qs[node.side][key][i]].oid
      BY <1>19, StandsPush
    <3>2. (\E i \in 1 .. LevelOf(levels, order.side, key).count :
              a = nodes[qs[order.side][key][i]].oid)
          <=> a \in DOMAIN index /\ nodes[index[a]].side = order.side
              /\ nodes[index[a]].tick = order.tick
      <4>1. order.side \in OB!Side /\ key = OB!Key(order.side, order.tick)
        BY <1>1 DEF side, key
      <4>2. QED  BY <1>1, <4>1, AtThisLevel
    <3>3. QED  BY <1>11, <3>1, <3>2 DEF side
  <2>5. QED  BY <2>1, <2>2, <2>3, <2>4 DEF Inserted
<1>21. QED  BY <1>19, <1>20

\* An order is in one place.
LEMMA OneSlot ==
    ASSUME NEW nds, NEW fr, NEW idx, NEW lvls, NEW qs, NEW ws, NEW high,
           Good(nds, fr, idx, lvls, qs, ws, high),
           NEW s \in OB!Side, NEW k \in Int, NEW s2 \in OB!Side, NEW k2 \in Int,
           NEW i \in 1 .. LevelOf(lvls, s, k).count,
           NEW j \in 1 .. LevelOf(lvls, s2, k2).count,
           nds[qs[s][k][i]].oid = nds[qs[s2][k2][j]].oid
    PROVE  s = s2 /\ k = k2 /\ i = j
<1>1. idx[nds[qs[s][k][i]].oid] = qs[s][k][i] /\ idx[nds[qs[s2][k2][j]].oid] = qs[s2][k2][j]
  BY DEF Good, Indexed
<1>2. qs[s][k][i] = qs[s2][k2][j] /\ Linked(nds, lvls, qs)
  BY <1>1 DEF Good
<1>3. QED  BY <1>2, OnePlace

\* An order taken out stands nowhere; the others stand as before.
LEMMA StandsCut ==
    ASSUME NEW nds, NEW fr, NEW idx, NEW lvls, NEW qs, NEW ws, NEW high,
           Good(nds, fr, idx, lvls, qs, ws, high),
           NEW side \in OB!Side, NEW key \in Int, NEW i, NEW slot, NEW lvl, NEW lvl2,
           NEW nds2, NEW fr2, NEW idx2, NEW lvls2, NEW qs2, NEW ws2,
           Pull(nds, nds2, fr, fr2, idx, idx2, lvls, lvls2, qs, qs2, ws, ws2,
                side, key, i, slot, lvl, lvl2),
           LevelOf(lvls2, side, key).count = lvl.count - 1,
           \A y \in DOMAIN nds : Same(nds2[y], nds[y]),
           NEW a, NEW b
    PROVE  Stands(nds2, lvls2, qs2, a, b) <=>
              Stands(nds, lvls, qs, a, b) /\ a # nds[slot].oid /\ b # nds[slot].oid
<1> DEFINE c == lvl.count
           q == qs[side][key]
<1>1. lvl = LevelOf(lvls, side, key) /\ i \in 1 .. c /\ slot = q[i]
  BY DEF Pull, IsLevel, IsAt
<1>2. c \in Nat
  BY <1>1 DEF Good, Linked, Chain, Level
<1>3. LevelOf(lvls2, side, key).count = c - 1
  OBVIOUS
<1>4. \A s \in OB!Side, k \in Int : s # side \/ k # key =>
         LevelOf(lvls2, s, k) = LevelOf(lvls, s, k) /\ qs2[s][k] = qs[s][k]
  BY DEF Pull, Files, Puts
<1>5. ASSUME NEW s \in OB!Side, NEW k \in Int, NEW j \in 1 .. LevelOf(lvls, s, k).count
      PROVE  nds2[qs[s][k][j]].oid = nds[qs[s][k][j]].oid
  BY PlaceIsSlot DEF Same
<1>6. \A j \in 1 .. c - 1 : qs2[side][key][j] = q[IF j < i THEN j ELSE j + 1]
  BY <1>1, <1>2 DEF Pull, Puts, Cut
<1>7. ASSUME NEW s \in OB!Side, NEW k \in Int, NEW j \in 1 .. LevelOf(lvls, s, k).count,
             s # side \/ k # key \/ j # i
      PROVE  nds[qs[s][k][j]].oid # nds[slot].oid
  <2>1. i \in 1 .. LevelOf(lvls, side, key).count /\ slot = qs[side][key][i]
    BY <1>1
  <2>2. QED  BY <1>7, <2>1, OneSlot
<1> HIDE DEF c, q
<1>8. ASSUME Stands(nds2, lvls2, qs2, a, b)
      PROVE  Stands(nds, lvls, qs, a, b) /\ a # nds[slot].oid /\ b # nds[slot].oid
  <2>1. PICK s \in OB!Side, k \in Int : \E l, j \in 1 .. LevelOf(lvls2, s, k).count :
           l < j /\ a = nds2[qs2[s][k][l]].oid /\ b = nds2[qs2[s][k][j]].oid
    BY <1>8 DEF Stands
  <2>2. PICK l \in 1 .. LevelOf(lvls2, s, k).count, j \in 1 .. LevelOf(lvls2, s, k).count :
           l < j /\ a = nds2[qs2[s][k][l]].oid /\ b = nds2[qs2[s][k][j]].oid
    BY <2>1
  <2>3. CASE s # side \/ k # key
    <3>1. l \in 1 .. LevelOf(lvls, s, k).count /\ j \in 1 .. LevelOf(lvls, s, k).count
      BY <1>4, <2>3
    <3>2. a = nds[qs[s][k][l]].oid /\ b = nds[qs[s][k][j]].oid
      BY <1>4, <1>5, <2>2, <2>3, <3>1
    <3>3. a # nds[slot].oid /\ b # nds[slot].oid
      BY <1>7, <2>3, <3>1, <3>2
    <3>4. QED  BY <2>2, <3>1, <3>2, <3>3 DEF Stands
  <2>4. CASE s = side /\ k = key
    <3>1. l \in 1 .. c - 1 /\ j \in 1 .. c - 1
      BY <1>3, <2>2, <2>4
    <3>2. PICK l2 \in 1 .. c : l2 = (IF l < i THEN l ELSE l + 1)
      BY <1>2, <3>1
    <3>3. PICK j2 \in 1 .. c : j2 = (IF j < i THEN j ELSE j + 1)
      BY <1>2, <3>1
    <3>4. l2 < j2 /\ l2 # i /\ j2 # i
      BY <1>1, <1>2, <2>2, <3>1, <3>2, <3>3
    <3>5. /\ l2 \in 1 .. LevelOf(lvls, side, key).count
          /\ j2 \in 1 .. LevelOf(lvls, side, key).count
      BY <1>1 DEF c
    <3>6. qs2[side][key][l] = qs[side][key][l2] /\ qs2[side][key][j] = qs[side][key][j2]
      BY <1>6, <3>1, <3>2, <3>3 DEF q
    <3>7. a = nds[qs[side][key][l2]].oid /\ b = nds[qs[side][key][j2]].oid
      BY <1>5, <2>2, <2>4, <3>5, <3>6
    <3>8. a # nds[slot].oid /\ b # nds[slot].oid
      BY <1>7, <3>4, <3>5, <3>7
    <3>9. QED  BY <3>4, <3>5, <3>7, <3>8 DEF Stands
  <2>5. QED  BY <2>3, <2>4
<1>9. ASSUME Stands(nds, lvls, qs, a, b), a # nds[slot].oid, b # nds[slot].oid
      PROVE  Stands(nds2, lvls2, qs2, a, b)
  <2>1. PICK s \in OB!Side, k \in Int : \E l, j \in 1 .. LevelOf(lvls, s, k).count :
           l < j /\ a = nds[qs[s][k][l]].oid /\ b = nds[qs[s][k][j]].oid
    BY <1>9 DEF Stands
  <2>2. PICK l \in 1 .. LevelOf(lvls, s, k).count, j \in 1 .. LevelOf(lvls, s, k).count :
           l < j /\ a = nds[qs[s][k][l]].oid /\ b = nds[qs[s][k][j]].oid
    BY <2>1
  <2>3. a = nds2[qs[s][k][l]].oid /\ b = nds2[qs[s][k][j]].oid
    BY <1>5, <2>2
  <2>4. CASE s # side \/ k # key
    BY <1>4, <2>2, <2>3, <2>4 DEF Stands
  <2>5. CASE s = side /\ k = key
    <3>1. l \in 1 .. c /\ j \in 1 .. c
      BY <1>1, <2>5 DEF c
    <3>2. l # i /\ j # i
      BY <1>1, <1>9, <2>2, <2>5 DEF q
    <3>3. PICK l2 \in 1 .. c - 1 : l = (IF l2 < i THEN l2 ELSE l2 + 1)
      <4>1. CASE l < i
        BY <1>1, <1>2, <3>1, <4>1
      <4>2. CASE l > i
        <5>1. l - 1 \in 1 .. c - 1 /\ l = (IF l - 1 < i THEN l - 1 ELSE (l - 1) + 1)
          BY <1>1, <1>2, <3>1, <4>2
        <5>2. QED  BY <5>1
      <4>3. QED  BY <1>1, <1>2, <3>1, <3>2, <4>1, <4>2
    <3>4. PICK j2 \in 1 .. c - 1 : j = (IF j2 < i THEN j2 ELSE j2 + 1)
      <4>1. CASE j < i
        BY <1>1, <1>2, <3>1, <4>1
      <4>2. CASE j > i
        <5>1. j - 1 \in 1 .. c - 1 /\ j = (IF j - 1 < i THEN j - 1 ELSE (j - 1) + 1)
          BY <1>1, <1>2, <3>1, <4>2
        <5>2. QED  BY <5>1
      <4>3. QED  BY <1>1, <1>2, <3>1, <3>2, <4>1, <4>2
    <3>5. l2 < j2
      BY <1>1, <1>2, <2>2, <3>1, <3>3, <3>4
    <3>6. qs2[side][key][l2] = qs[side][key][l] /\ qs2[side][key][j2] = qs[side][key][j]
      BY <1>6, <3>3, <3>4 DEF q
    <3>7. /\ l2 \in 1 .. LevelOf(lvls2, side, key).count
          /\ j2 \in 1 .. LevelOf(lvls2, side, key).count
      BY <1>3
    <3>8. QED  BY <2>3, <2>5, <3>5, <3>6, <3>7 DEF Stands
  <2>6. QED  BY <2>4, <2>5
<1>10. QED  BY <1>8, <1>9

\* Taking an order out of its queue keeps the store in order and withdraws it.
LEMMA UnlinkKeeps ==
    ASSUME NEW qs, NEW ws, NEW high, Good(nodes, free, index, levels, qs, ws, high),
           NEW oid \in DOMAIN index, Unlink(index[oid])
    PROVE  \E qs2, ws2 :
              /\ Good(nodes', free', index', levels', qs2, ws2, high)
              /\ Withdrawn(oid, qs, qs2)
<1> DEFINE slot == index[oid]
           n == nodes[slot]
           side == n.side
           key == OB!Key(n.side, n.tick)
           lvl == levels[n.side][key]
           lvl2 == [total |-> lvl.total - n.lots,
                    head |-> IF n.prev = NIL THEN n.next ELSE lvl.head,
                    tail |-> IF n.next = NIL THEN n.prev ELSE lvl.tail,
                    count |-> lvl.count - 1]
           q == qs[side][key]
           c == lvl.count
<1>1. /\ nodes \in Seq(Node) /\ slot \in DOMAIN nodes /\ n.oid = oid
      /\ DOMAIN levels = OB!Side
  <2>1. nodes \in Seq(Node) /\ slot \in DOMAIN nodes /\ DOMAIN levels = OB!Side
    BY DEF Good, Typed
  <2>2. n.oid = oid
    BY DEF Good, Indexed
  <2>3. QED  BY <2>1, <2>2
<1>2. n \in Node
  BY <1>1
<1>3. /\ nodes' = SetPrev(SetNext(nodes, n.prev, n.next), n.next, n.prev)
      /\ Frees(free, free', slot)
      /\ Leaves(index, index', n.oid)
      /\ File(side, key, lvl2)
  BY DEF Unlink, Unindexed, Frees, Leaves
<1>4. PICK i \in 1 .. LevelOf(levels, side, key).count : q[i] = slot
  BY DEF Good, Indexed, InPlace
<1> HIDE DEF slot
<1>5. side \in OB!Side /\ n.tick \in Tick
  BY <1>2 DEF Node
<1>6. key \in Int
  BY <1>5, KeyType
<1> HIDE DEF n, side, key, q
<1>7. lvl = LevelOf(levels, side, key)
  <2>1. CASE key \in DOMAIN levels[side]
    BY <2>1 DEF LevelOf, side
  <2>2. CASE key \notin DOMAIN levels[side]
    <3>1. LevelOf(levels, side, key).count = 0
      BY <2>2 DEF LevelOf, NoLevel
    <3>2. QED  BY <1>4, <3>1
  <2>3. QED  BY <2>1, <2>2
<1>8. Chain(nodes, lvl, q, side, key)
  BY <1>5, <1>6, <1>7 DEF Good, Linked, q
<1> HIDE DEF lvl
<1>9. c \in Nat /\ q \in [1 .. c -> DOMAIN nodes] /\ i \in 1 .. c
  BY <1>4, <1>7, <1>8 DEF Chain, Level
<1>10. n.prev = At(q, c, i - 1) /\ n.next = At(q, c, i + 1)
  BY <1>4, <1>8, <1>9 DEF Chain, n
<1>11. n.prev \in DOMAIN nodes \cup {NIL} /\ n.next \in DOMAIN nodes \cup {NIL}
  BY <1>9, <1>10 DEF At
<1>12. Cuts(nodes, nodes', nodes[slot].prev, nodes[slot].next)
  BY <1>1, <1>3, <1>11, LinkedAround DEF n
<1>13. Shortens(lvl, lvl2, nodes[slot].prev, nodes[slot].next, nodes[slot].lots)
  BY DEF Shortens, n
<1> HIDE DEF lvl2
<1>14. Files(levels, levels', side, key, lvl2)
  BY <1>1, <1>3, <1>5, <1>6, FileFiles
<1>15. PICK qs2 : Puts(qs, qs2, side, key, Cut(q, c, i))
  BY <1>5, <1>6, PutExists
<1>16. PICK ws2 : Puts(ws, ws2, side, key, CutSum(ws[side][key], c, i, nodes[slot].lots))
  BY <1>5, <1>6, PutExists
<1>17. Pull(nodes, nodes', free, free', index, index', levels, levels', qs, qs2, ws, ws2,
            side, key, i, slot, lvl, lvl2)
  <2>1. IsLevel(levels, side, key, lvl) /\ IsAt(slot, i, lvl.count, qs[side][key])
    BY <1>4, <1>7, <1>9 DEF IsLevel, IsAt, q
  <2>2. /\ Leaves(index, index', nodes[slot].oid) /\ Frees(free, free', slot)
        /\ Puts(qs, qs2, side, key, Cut(qs[side][key], lvl.count, i))
        /\ Puts(ws, ws2, side, key, CutSum(ws[side][key], lvl.count, i, nodes[slot].lots))
    BY <1>3, <1>15, <1>16 DEF n, q
  <2>3. QED  BY <1>12, <1>13, <1>14, <2>1, <2>2 DEF Pull
<1>18. /\ \A y \in DOMAIN nodes : Same(nodes'[y], nodes[y])
       /\ LevelOf(levels', side, key).count = lvl.count - 1
       /\ Good(nodes', free', index', levels', qs2, ws2, high)
  BY <1>5, <1>6, <1>17, GoodCut
<1>19. Withdrawn(oid, qs, qs2)
  <2>1. nodes[slot].oid = oid
    BY <1>1 DEF n
  <2>2. /\ DOMAIN index' = DOMAIN index \ {oid}
        /\ \A o \in DOMAIN index' : index'[o] = index[o]
    BY <1>3, <2>1 DEF Leaves, n
  <2>3. ASSUME NEW o \in DOMAIN index'
        PROVE  Viewed(nodes'[index'[o]]) = Viewed(nodes[index[o]])
    <3>1. index[o] \in DOMAIN nodes /\ index'[o] = index[o]
      BY <2>2 DEF Good, Typed
    <3>2. Same(nodes'[index[o]], nodes[index[o]])
      BY <1>18, <3>1
    <3>3. QED  BY <3>1, <3>2 DEF Same, Viewed
  <2>4. ASSUME NEW a, NEW b
        PROVE  Stands(nodes', levels', qs2, a, b) <=>
                  Stands(nodes, levels, qs, a, b) /\ a # oid /\ b # oid
    <3>1. Stands(nodes', levels', qs2, a, b) <=>
             Stands(nodes, levels, qs, a, b) /\ a # nodes[slot].oid /\ b # nodes[slot].oid
      BY <1>5, <1>6, <1>17, <1>18, StandsCut
    <3>2. QED  BY <2>1, <3>1
  <2>5. QED  BY <2>2, <2>3, <2>4 DEF Withdrawn
<1>20. QED  BY <1>18, <1>19

\* Where a resting order is.
LEMMA PlaceOf ==
    ASSUME NEW nds, NEW fr, NEW idx, NEW lvls, NEW qs, NEW ws, NEW high,
           Good(nds, fr, idx, lvls, qs, ws, high), NEW oid \in DOMAIN idx,
           NEW side, NEW key, side = nds[idx[oid]].side,
           key = OB!Key(side, nds[idx[oid]].tick)
    PROVE  /\ idx[oid] \in DOMAIN nds /\ nds[idx[oid]] \in Node
           /\ nds[idx[oid]].oid = oid
           /\ side \in OB!Side /\ key \in Int /\ key \in DOMAIN lvls[side]
           /\ lvls[side][key] = LevelOf(lvls, side, key)
           /\ \E i \in 1 .. LevelOf(lvls, side, key).count : qs[side][key][i] = idx[oid]
<1>1. idx[oid] \in DOMAIN nds /\ nds[idx[oid]] \in Node
  BY DEF Good, Typed
<1>2. side \in OB!Side /\ nds[idx[oid]].tick \in Tick
  BY <1>1 DEF Node
<1>3. key \in Int
  BY <1>2, KeyType
<1>4. nds[idx[oid]].oid = oid
  BY DEF Good, Indexed
<1>5. PICK i \in 1 .. LevelOf(lvls, side, key).count : qs[side][key][i] = idx[oid]
  BY DEF Good, Indexed, InPlace
<1>6. key \in DOMAIN lvls[side]
  <2>1. SUFFICES ASSUME key \notin DOMAIN lvls[side] PROVE FALSE
    OBVIOUS
  <2>2. LevelOf(lvls, side, key).count = 0
    BY <2>1 DEF LevelOf, NoLevel
  <2>3. QED  BY <1>5, <2>2
<1>7. lvls[side][key] = LevelOf(lvls, side, key)
  BY <1>6 DEF LevelOf
<1>8. QED  BY <1>1, <1>2, <1>3, <1>4, <1>5, <1>6, <1>7

\* What is left of an order in its slot.
LEMMA StoredLots ==
    ASSUME NEW nds \in Seq(Node), NEW slot \in DOMAIN nds, NEW lots \in OB!Lots,
           NEW nds2, nds2 = [nds EXCEPT ![slot].lots = lots]
    PROVE  Shrinks(nds, nds2, slot, lots)
<1> DEFINE n == [nds[slot] EXCEPT !.lots = lots]
<1>1. nds[slot] \in Node
  OBVIOUS
<1>2. /\ n \in Node /\ n.lots = lots /\ n.oid = nds[slot].oid /\ n.user = nds[slot].user
      /\ n.side = nds[slot].side /\ n.tick = nds[slot].tick
      /\ n.prev = nds[slot].prev /\ n.next = nds[slot].next
  BY <1>1 DEF Node
<1>3. nds2 = [nds EXCEPT ![slot] = n]
  OBVIOUS
<1> HIDE DEF n
<1>4. /\ nds2 \in Seq(Node) /\ DOMAIN nds2 = DOMAIN nds /\ nds2[slot] = n
      /\ \A y \in DOMAIN nds : y # slot => nds2[y] = nds[y]
  BY <1>2, <1>3
<1>5. QED  BY <1>2, <1>4 DEF Shrinks

\* Shrinking an order in place keeps the store in order, and every place in it.
LEMMA ShrinkKeeps ==
    ASSUME NEW qs, NEW ws, NEW high, Good(nodes, free, index, levels, qs, ws, high),
           NEW oid \in DOMAIN index, NEW lots \in OB!Lots, ShrinkTo(index[oid], lots)
    PROVE  \E ws2 : /\ Good(nodes', free', index', levels', qs, ws2, high)
                    /\ Shrunk(oid, lots, qs)
<1> DEFINE slot == index[oid]
           n == nodes[slot]
           side == n.side
           key == OB!Key(n.side, n.tick)
           lvl == levels[n.side][key]
           lvl2 == [lvl EXCEPT !.total = @ - (n.lots - lots)]
           c == lvl.count
<1>1. /\ slot \in DOMAIN nodes /\ n \in Node /\ n.oid = oid
      /\ side \in OB!Side /\ key \in Int /\ lvl = LevelOf(levels, side, key)
      /\ \E i \in 1 .. LevelOf(levels, side, key).count : qs[side][key][i] = slot
  BY PlaceOf
<1>2. nodes \in Seq(Node) /\ DOMAIN levels = OB!Side /\ lots \in Int
  BY SlabAssumption DEF Good, Typed, OB!Lots
<1>3. /\ nodes' = [nodes EXCEPT ![slot].lots = lots]
      /\ File(side, key, lvl2)
      /\ free' = free /\ index' = index
  BY DEF ShrinkTo
<1>4. Lessens(lvl, lvl2, nodes[slot].lots - lots)
  BY DEF Lessens
<1> HIDE DEF slot, n, side, key, lvl, lvl2
<1>5. PICK i \in 1 .. c : qs[side][key][i] = slot
  BY <1>1
<1>6. Shrinks(nodes, nodes', slot, lots)
  BY <1>1, <1>2, <1>3, StoredLots
<1>7. Files(levels, levels', side, key, lvl2)
  BY <1>1, <1>2, <1>3, FileFiles
<1>8. PICK ws2 : Puts(ws, ws2, side, key,
                      ShrunkSum(ws[side][key], c, i, nodes[slot].lots - lots))
  BY <1>1, PutExists
<1>9. Lessen(nodes, nodes', levels, levels', qs, ws, ws2,
             side, key, i, slot, lots, lvl, lvl2)
  <2>1. IsLevel(levels, side, key, lvl) /\ IsAt(slot, i, lvl.count, qs[side][key])
    BY <1>1, <1>5 DEF IsLevel, IsAt
  <2>2. QED  BY <1>4, <1>6, <1>7, <1>8, <2>1 DEF Lessen
<1>10. Good(nodes', free, index, levels', qs, ws2, high)
  BY <1>1, <1>2, <1>9, GoodShrink
<1>11. \A y \in DOMAIN nodes : nodes'[y].oid = nodes[y].oid
  BY <1>6 DEF Shrinks
<1>12. \A s \in OB!Side, k \in Int :
          LevelOf(levels', s, k).count = LevelOf(levels, s, k).count
  <2>1. SUFFICES ASSUME NEW s \in OB!Side, NEW k \in Int
                 PROVE  LevelOf(levels', s, k).count = LevelOf(levels, s, k).count
    OBVIOUS
  <2>2. CASE s # side \/ k # key
    BY <1>7, <2>2 DEF Files
  <2>3. CASE s = side /\ k = key
    <3>1. LevelOf(levels', side, key) = IF lvl2.count = 0 THEN NoLevel ELSE lvl2
      BY <1>7 DEF Files
    <3>2. lvl \in Level
      BY <1>1 DEF Good, Linked, Chain
    <3>3. lvl2.count = c /\ NoLevel.count = 0
      BY <3>2 DEF lvl2, Level, NoLevel
    <3>4. QED  BY <1>1, <2>3, <3>1, <3>3
  <2>4. QED  BY <2>2, <2>3
<1>13. Shrunk(oid, lots, qs)
  <2>1. Viewed(nodes'[index'[oid]]) = [Viewed(nodes[index[oid]]) EXCEPT !.lots = lots]
    BY <1>3, <1>6 DEF Viewed, Shrinks, slot
  <2>2. ASSUME NEW o \in DOMAIN index, o # oid
        PROVE  Viewed(nodes'[index'[o]]) = Viewed(nodes[index[o]])
    <3>1. index[o] \in DOMAIN nodes /\ nodes[index[o]].oid = o
      BY DEF Good, Typed, Indexed
    <3>2. index[o] # slot
      BY <1>1, <2>2, <3>1 DEF n
    <3>3. nodes'[index[o]] = nodes[index[o]]
      BY <1>6, <3>1, <3>2 DEF Shrinks
    <3>4. QED  BY <1>3, <3>3
  <2>3. ASSUME NEW a, NEW b
        PROVE  Stands(nodes', levels', qs, a, b) <=> Stands(nodes, levels, qs, a, b)
    <3>1. ASSUME NEW s \in OB!Side, NEW k \in Int,
                 NEW j \in 1 .. LevelOf(levels, s, k).count
          PROVE  nodes'[qs[s][k][j]].oid = nodes[qs[s][k][j]].oid
      BY <1>11, PlaceIsSlot
    <3>2. QED  BY <1>12, <3>1 DEF Stands
  <2>4. QED  BY <1>3, <2>1, <2>2, <2>3 DEF Shrunk
<1>14. QED  BY <1>3, <1>10, <1>13

\* The best level has a head, which is first in its queue.
LEMMA HeadIs ==
    ASSUME NEW qs, NEW ws, NEW high, Good(nodes, free, index, levels, qs, ws, high),
           taker.side \in OB!Side, InReach
    PROVE  /\ MakerSide \in OB!Side /\ BestKey \in Int
           /\ BestKey \in DOMAIN levels[MakerSide]
           /\ \A k \in DOMAIN levels[MakerSide] : k \in Int /\ k <= BestKey
           /\ LevelOf(levels, MakerSide, BestKey) = levels[MakerSide][BestKey]
           /\ LevelOf(levels, MakerSide, BestKey).count \in Nat \ {0}
           /\ HeadSlot = qs[MakerSide][BestKey][1]
           /\ HeadSlot \in DOMAIN nodes
           /\ nodes[HeadSlot].side = MakerSide /\ nodes[HeadSlot].prev = NIL
           /\ OB!Key(MakerSide, nodes[HeadSlot].tick) = BestKey
           /\ nodes[HeadSlot].oid \in DOMAIN index /\ index[nodes[HeadSlot].oid] = HeadSlot
<1> DEFINE side == MakerSide
           keys == DOMAIN levels[side]
           lvl == LevelOf(levels, side, BestKey)
           q == qs[side][BestKey]
<1>1. side \in OB!Side
  BY DEF MakerSide, OB!Opposite, OB!Side
<1>2. keys # {} /\ keys \subseteq Int /\ high \in Int /\ \A k \in keys : k <= high
  BY <1>1 DEF InReach, Good, Typed
<1>3. BestKey \in keys /\ \A k \in keys : BestKey >= k
  BY <1>2, MaxOfBounded DEF BestKey
<1>4. BestKey \in Int /\ \A k \in keys : k \in Int /\ k <= BestKey
  BY <1>2, <1>3
<1>5. lvl = levels[side][BestKey] /\ lvl.count > 0
  BY <1>1, <1>3 DEF LevelOf, Good, Typed
<1> HIDE DEF side, keys, lvl, q
<1>6. Chain(nodes, lvl, q, side, BestKey)
  BY <1>1, <1>4 DEF Good, Linked, lvl, q
<1>7. lvl.count \in Nat /\ 1 \in 1 .. lvl.count
  BY <1>5, <1>6 DEF Chain, Level
<1>8. HeadSlot = q[1]
  BY <1>5, <1>6, <1>7 DEF HeadSlot, Chain, At, side
<1>9. /\ q[1] \in DOMAIN nodes
      /\ nodes[q[1]].side = side /\ OB!Key(side, nodes[q[1]].tick) = BestKey
  BY <1>6, <1>7 DEF Chain
<1>10. nodes[q[1]].prev = NIL
  <2>1. nodes[q[1]].prev = At(q, lvl.count, 1 - 1)
    BY <1>6, <1>7 DEF Chain
  <2>2. QED  BY <2>1 DEF At
<1>11. nodes[q[1]].oid \in DOMAIN index /\ index[nodes[q[1]].oid] = q[1]
  BY <1>1, <1>4, <1>7 DEF Good, Indexed, lvl, q
<1>12. QED
  BY <1>1, <1>3, <1>4, <1>5, <1>7, <1>8, <1>9, <1>10, <1>11 DEF side, keys, lvl, q

\* Popping the head is taking it out of its queue.
LEMMA PopIsUnlink ==
    ASSUME NEW qs, NEW ws, NEW high, Good(nodes, free, index, levels, qs, ws, high),
           taker.side \in OB!Side, InReach, PopHead
    PROVE  Unlink(HeadSlot)
<1> DEFINE slot == HeadSlot
           n == nodes[slot]
           lvl == levels[MakerSide][BestKey]
<1>1. slot = lvl.head
  BY DEF HeadSlot
<1>2. n.side = MakerSide /\ OB!Key(n.side, n.tick) = BestKey /\ n.prev = NIL
  BY HeadIs
<1>3. /\ nodes' = SetPrev(nodes, n.next, NIL)
      /\ free' = Append(free, slot)
      /\ index' = Unindexed(n.oid)
      /\ File(MakerSide, BestKey,
              [total |-> lvl.total - n.lots, head |-> n.next,
               tail |-> IF n.next = NIL THEN NIL ELSE lvl.tail,
               count |-> lvl.count - 1])
  BY <1>1 DEF PopHead
<1>4. SetNext(nodes, n.prev, n.next) = nodes
  BY <1>2 DEF SetNext
<1> HIDE DEF slot, n
<1>5. QED  BY <1>2, <1>3, <1>4 DEF Unlink, n, slot

\* A take in progress is a call, with what it has left.
SlabCall == taker \in OB!Taker \cup {Idle}

\* The smaller of two sizes.
LEMMA MinOfTwo ==
    ASSUME NEW a \in Int, NEW b \in Int
    PROVE  Min({a, b}) = IF a <= b THEN a ELSE b
<1>1. CASE a <= b
  <2>1. \A m \in {a, b} : (\A y \in {a, b} : m <= y) => m = a
    BY <1>1
  <2>2. a \in {a, b} /\ \A y \in {a, b} : a <= y
    BY <1>1
  <2>3. QED  BY <1>1, <2>1, <2>2 DEF Min
<1>2. CASE ~(a <= b)
  <2>1. \A m \in {a, b} : (\A y \in {a, b} : m <= y) => m = b
    BY <1>2
  <2>2. b \in {a, b} /\ \A y \in {a, b} : b <= y
    BY <1>2
  <2>3. QED  BY <1>2, <2>1, <2>2 DEF Min
<1>3. QED  BY <1>1, <1>2

\* A turn at another's order takes it whole or leaves a part of it.
LEMMA FillIs ==
    ASSUME NEW qs, NEW ws, NEW high, Good(nodes, free, index, levels, qs, ws, high),
           SlabCall, FillHead, NEW n, n = nodes[HeadSlot]
    PROVE  \/ /\ n.lots <= taker.left /\ Unlink(HeadSlot)
              /\ fills' = Append(fills, FillOf(n, n.lots))
              /\ taker' = [taker EXCEPT !.left = @ - n.lots] /\ taker' \in OB!Taker
           \/ /\ n.lots > taker.left /\ n.lots - taker.left \in OB!Lots
              /\ ShrinkTo(HeadSlot, n.lots - taker.left)
              /\ fills' = Append(fills, FillOf(n, taker.left))
              /\ taker' = [taker EXCEPT !.left = 0] /\ taker' \in OB!Taker
<1>1. taker \in OB!Taker /\ taker.left > 0 /\ InReach
  BY DEF FillHead, Matching, SlabCall
<1>2. /\ taker.side \in OB!Side /\ taker.left \in 0 .. MaxLots
      /\ MaxLots \in Nat
  BY <1>1, SlabAssumption DEF OB!Taker
<1>3. n \in Node
  <2>1. HeadSlot \in DOMAIN nodes
    BY <1>1, <1>2, HeadIs
  <2>2. QED  BY <2>1 DEF Good, Typed
<1>4. n.lots \in 1 .. MaxLots
  BY <1>3 DEF Node, OB!Lots
<1> DEFINE q == Min({n.lots, taker.left})
<1>5. q = IF n.lots <= taker.left THEN n.lots ELSE taker.left
  BY <1>2, <1>4, MinOfTwo
<1>6. /\ fills' = Append(fills, FillOf(n, q))
      /\ taker' = [taker EXCEPT !.left = @ - q]
      /\ IF q < n.lots THEN ShrinkTo(HeadSlot, n.lots - q) ELSE PopHead
  BY DEF FillHead
<1> HIDE DEF q
<1>7. CASE n.lots <= taker.left
  <2>1. q = n.lots /\ ~(q < n.lots)
    BY <1>2, <1>4, <1>5, <1>7
  <2>2. Unlink(HeadSlot)
    BY <1>1, <1>2, <1>6, <2>1, PopIsUnlink
  <2>3. taker.left - n.lots \in 0 .. MaxLots
    BY <1>2, <1>4, <1>7
  <2>4. taker' = [taker EXCEPT !.left = taker.left - n.lots]
    BY <1>6, <2>1
  <2>5. taker' \in OB!Taker
    BY <1>1, <2>3, <2>4 DEF OB!Taker
  <2>6. QED  BY <1>6, <1>7, <2>1, <2>2, <2>5
<1>8. CASE n.lots > taker.left
  <2>1. q = taker.left /\ q < n.lots /\ taker.left - q = 0
    BY <1>2, <1>4, <1>5, <1>8
  <2>2. n.lots - taker.left \in OB!Lots
    BY <1>1, <1>2, <1>4, <1>8 DEF OB!Lots
  <2>3. taker' = [taker EXCEPT !.left = 0]
    BY <1>6, <2>1
  <2>4. taker' \in OB!Taker
    BY <1>1, <1>2, <2>3 DEF OB!Taker
  <2>5. QED  BY <1>6, <1>8, <2>1, <2>2, <2>3, <2>4
<1>9. QED  BY <1>2, <1>4, <1>7, <1>8

\* What is left by a reduction is an order's size.
LEMMA ReducedLots ==
    ASSUME NEW qs, NEW ws, NEW high, Good(nodes, free, index, levels, qs, ws, high),
           NEW oid \in DOMAIN index, NEW lots \in 0 .. nodes[index[oid]].lots, lots # 0
    PROVE  lots \in OB!Lots
<1>1. nodes[index[oid]] \in Node
  BY DEF Good, Typed
<1>2. nodes[index[oid]].lots \in 1 .. MaxLots /\ MaxLots \in Nat
  BY <1>1, SlabAssumption DEF Node, OB!Lots
<1>3. QED  BY <1>2 DEF OB!Lots

\* The store is in order in every reachable state, and a call in progress is one
\* that was made, with no less than nothing left.
THEOREM SlabInvariant == Spec => [](SlabInv /\ SlabCall)
<1>1. Init => SlabInv /\ SlabCall
  BY InitGood DEF Init, SlabCall
<1>2. SlabInv /\ SlabCall /\ [Next]_vars => (SlabInv /\ SlabCall)'
  <2> SUFFICES ASSUME SlabInv, SlabCall, [Next]_vars PROVE SlabInv' /\ SlabCall'
    OBVIOUS
  <2>1. PICK qs, ws, high : Good(nodes, free, index, levels, qs, ws, high)
    BY DEF SlabInv
  <2>2. ASSUME NEW oid \in Oid, NEW order \in Orders, Add(oid, order)
        PROVE  SlabInv' /\ SlabCall'
    <3>1. /\ oid \notin DOMAIN index /\ PushBack(oid, order) /\ order \in OB!Order
          /\ taker' = taker
      BY <2>2, SlabAssumption DEF Add
    <3>2. \E qs2, ws2, high2 : Good(nodes', free', index', levels', qs2, ws2, high2)
      BY <2>1, <3>1, PushBackKeeps
    <3>3. QED  BY <3>1, <3>2 DEF SlabInv, SlabCall
  <2>3. ASSUME NEW oid \in DOMAIN index, Unlink(index[oid])
        PROVE  SlabInv'
    <3>1. \E qs2, ws2 : Good(nodes', free', index', levels', qs2, ws2, high)
      BY <2>1, <2>3, UnlinkKeeps
    <3>2. QED  BY <3>1 DEF SlabInv
  <2>4. ASSUME NEW oid \in DOMAIN index, NEW lots \in OB!Lots, ShrinkTo(index[oid], lots)
        PROVE  SlabInv'
    <3>1. \E ws2 : Good(nodes', free', index', levels', qs, ws2, high)
      BY <2>1, <2>4, ShrinkKeeps
    <3>2. QED  BY <3>1 DEF SlabInv
  <2>5. ASSUME NEW oid \in Oid, Cancel(oid)
        PROVE  SlabInv' /\ SlabCall'
    BY <2>3, <2>5 DEF Cancel, SlabCall
  <2>6. ASSUME NEW oid \in Oid, NEW lots \in 0 .. MaxLots, Reduce(oid, lots)
        PROVE  SlabInv' /\ SlabCall'
    <3>1. oid \in DOMAIN index /\ lots \in 0 .. nodes[index[oid]].lots /\ taker' = taker
      BY <2>6 DEF Reduce
    <3>2. CASE lots = 0
      BY <2>3, <2>6, <3>1, <3>2 DEF Reduce, SlabCall
    <3>3. CASE lots # 0
      <4>1. lots \in OB!Lots
        BY <2>1, <3>1, <3>3, ReducedLots
      <4>2. ShrinkTo(index[oid], lots)
        BY <2>6, <3>3 DEF Reduce
      <4>3. QED  BY <2>4, <3>1, <4>1, <4>2 DEF SlabCall
    <3>4. QED  BY <3>2, <3>3
  <2>7. ASSUME NEW call \in Takers, Take(call)
        PROVE  SlabInv' /\ SlabCall'
    BY <2>7, SlabAssumption DEF Take, store, SlabInv, SlabCall
  <2>8. ASSUME Matching
        PROVE  /\ InReach /\ taker.side \in OB!Side
               /\ nodes[HeadSlot].oid \in DOMAIN index
               /\ index[nodes[HeadSlot].oid] = HeadSlot
    <3>1. InReach /\ taker.side \in OB!Side
      BY <2>8 DEF Matching, SlabCall, OB!Taker
    <3>2. QED  BY <2>1, <3>1, HeadIs
  <2>9. ASSUME ExpireHead PROVE SlabInv' /\ SlabCall'
    <3>1. Unlink(HeadSlot)
      BY <2>1, <2>8, <2>9, PopIsUnlink DEF ExpireHead
    <3>2. SlabInv'
      BY <2>3, <2>8, <2>9, <3>1 DEF ExpireHead
    <3>3. QED  BY <2>9, <3>2 DEF ExpireHead, SlabCall
  <2>10. ASSUME FillHead PROVE SlabInv' /\ SlabCall'
    <3>1. PICK n : n = nodes[HeadSlot]
      OBVIOUS
    <3>2. \/ Unlink(HeadSlot) /\ taker' \in OB!Taker
          \/ /\ n.lots - taker.left \in OB!Lots /\ ShrinkTo(HeadSlot, n.lots - taker.left)
             /\ taker' \in OB!Taker
      BY <2>1, <2>10, <3>1, FillIs
    <3>3. nodes[HeadSlot].oid \in DOMAIN index /\ index[nodes[HeadSlot].oid] = HeadSlot
      BY <2>8, <2>10 DEF FillHead
    <3>4. SlabInv'
      BY <2>3, <2>4, <3>2, <3>3
    <3>5. QED  BY <3>2, <3>4 DEF SlabCall
  <2>11. ASSUME Return PROVE SlabInv' /\ SlabCall'
    BY <2>11 DEF Return, store, SlabInv, SlabCall
  <2>12. CASE UNCHANGED vars
    BY <2>12 DEF vars, SlabInv, SlabCall
  <2>13. QED
    BY <2>2, <2>5, <2>6, <2>7, <2>9, <2>10, <2>11, <2>12 DEF Next
<1>3. QED  BY <1>1, <1>2, PTL DEF Spec

\* Every level the map holds is the chain of its queue, and found so.
LEMMA LevelIs ==
    ASSUME NEW nds, NEW fr, NEW idx, NEW lvls, NEW qs, NEW ws, NEW high,
           Good(nds, fr, idx, lvls, qs, ws, high),
           NEW s \in OB!Side, NEW k, k \in DOMAIN lvls[s]
    PROVE  /\ k \in Int /\ lvls[s][k].count > 0 /\ lvls[s][k] = LevelOf(lvls, s, k)
           /\ Chain(nds, lvls[s][k], qs[s][k], s, k)
           /\ Running(nds, lvls[s][k], qs[s][k], ws[s][k])
           /\ QueueIn(nds, lvls[s][k]) = qs[s][k]
           /\ lvls[s][k].count \in Nat
           /\ qs[s][k] \in [1 .. lvls[s][k].count -> DOMAIN nds]
           /\ Len(qs[s][k]) = lvls[s][k].count /\ qs[s][k] \in Seq(Int)
<1>1. /\ k \in Int /\ lvls[s][k].count > 0 /\ lvls[s][k] = LevelOf(lvls, s, k)
      /\ nds \in Seq(Node)
  BY DEF Good, Typed, LevelOf
<1>2. Chain(nds, lvls[s][k], qs[s][k], s, k) /\ Running(nds, lvls[s][k], qs[s][k], ws[s][k])
  BY <1>1 DEF Good, Linked, Counted
<1>3. QueueIn(nds, lvls[s][k]) = qs[s][k]
  BY <1>1, <1>2, ChainIsFound
<1>4. lvls[s][k].count \in Nat /\ qs[s][k] \in [1 .. lvls[s][k].count -> DOMAIN nds]
  BY <1>2 DEF Chain, Level
<1>5. ASSUME NEW c \in Nat, NEW q, q \in [1 .. c -> DOMAIN nds]
      PROVE  q \in Seq(Int) /\ Len(q) = c
  <2>1. q \in [1 .. c -> Int]
    BY <1>1, <1>5
  <2>2. QED  BY <2>1
<1>6. QED  BY <1>1, <1>2, <1>3, <1>4, <1>5

\* In every reachable state, and with any orders and calls, each level is a doubly
\* linked queue, found whole from its head (check_invariants, book.rs:340).
THEOREM LinksTheorem == Spec => []LinksConsistent
<1>1. SlabInv => LinksConsistent
  <2> SUFFICES ASSUME SlabInv, NEW side \in OB!Side, NEW key \in DOMAIN levels[side]
               PROVE  LET lvl == levels[side][key]
                          q   == Queue(lvl)
                      IN  /\ lvl.count = Len(q) /\ lvl.count > 0
                          /\ lvl.tail = q[Len(q)]
                          /\ \A i \in DOMAIN q :
                                /\ nodes[q[i]].prev = (IF i = 1 THEN NIL ELSE q[i - 1])
                                /\ nodes[q[i]].side = side
                                /\ OB!Key(side, nodes[q[i]].tick) = key
    BY DEF LinksConsistent
  <2> DEFINE lvl == levels[side][key]
             q   == Queue(lvl)
  <2>1. PICK qs, ws, high : Good(nodes, free, index, levels, qs, ws, high)
    BY DEF SlabInv
  <2>2. /\ Chain(nodes, lvl, qs[side][key], side, key)
        /\ QueueIn(nodes, lvl) = qs[side][key]
        /\ lvl.count \in Nat /\ lvl.count > 0 /\ Len(qs[side][key]) = lvl.count
        /\ DOMAIN qs[side][key] = 1 .. lvl.count
    BY <2>1, LevelIs
  <2> HIDE DEF lvl
  <2>3. q = qs[side][key]
    BY <2>2, QueueInIs
  <2> HIDE DEF q
  <2>4. Chain(nodes, lvl, q, side, key) /\ Len(q) = lvl.count /\ DOMAIN q = 1 .. lvl.count
    BY <2>2, <2>3
  <2>5. lvl.tail = q[Len(q)]
    <3>1. lvl.count \in 1 .. lvl.count
      BY <2>2
    <3>2. lvl.tail = At(q, lvl.count, lvl.count)
      BY <2>4 DEF Chain
    <3>3. QED  BY <2>4, <3>1, <3>2 DEF At
  <2>6. ASSUME NEW i \in DOMAIN q
        PROVE  /\ nodes[q[i]].prev = (IF i = 1 THEN NIL ELSE q[i - 1])
               /\ nodes[q[i]].side = side
               /\ OB!Key(side, nodes[q[i]].tick) = key
    <3>1. i \in 1 .. lvl.count
      BY <2>4
    <3>2. /\ nodes[q[i]].prev = At(q, lvl.count, i - 1)
          /\ nodes[q[i]].side = side /\ OB!Key(side, nodes[q[i]].tick) = key
      BY <2>4, <3>1 DEF Chain
    <3>3. QED  BY <2>2, <3>1, <3>2 DEF At
  <2>7. QED  BY <2>2, <2>4, <2>5, <2>6 DEF lvl, q
<1>2. QED  BY <1>1, SlabInvariant, PTL

\* The cached size: the running totals end in it.
SizeOf(nds, q) ==
    LET iter[s \in SUBSET DOMAIN q] ==
            IF s = {} THEN 0
            ELSE LET x == CHOOSE x \in s : TRUE IN nds[q[x]].lots + iter[s \ {x}]
    IN  iter[DOMAIN q]

\* w sums the lots of a queue from its front.
LotsSum(w, nds, q, c) ==
    w[0] = 0 /\ \A i \in 1 .. c : w[i] = w[i - 1] + nds[q[i]].lots

\* Added in whatever order, the sizes of a queue are its last running total.
LEMMA SizeOfRow ==
    ASSUME NEW nds, NEW c \in Nat, NEW q, DOMAIN q = 1 .. c,
           \A i \in 1 .. c : nds[q[i]].lots \in Int,
           NEW w, LotsSum(w, nds, q, c)
    PROVE  SizeOf(nds, q) = w[c]
<1> DEFINE S == 1 .. c
           F == [i \in S |-> nds[q[i]].lots]
           Eq(g) == g = [s \in SUBSET S |->
                            IF s = {} THEN 0
                            ELSE nds[q[Some(s)]].lots + g[s \ {Some(s)}]]
           it == CHOOSE g : Eq(g)
<1>1. IsFiniteSet(S)
  BY FS_Interval
<1>2. \A i \in S : F[i] = nds[q[i]].lots /\ F[i] \in Int
  OBVIOUS
<1> HIDE DEF S, F
<1>3. ASSUME NEW g PROVE SumsOf(g, F, S) <=> Eq(g)
  <2>1. \A s \in SUBSET S : s # {} => Some(s) \in S
    BY SomeIn
  <2>2. \A s \in SUBSET S :
           (IF s = {} THEN 0 ELSE F[Some(s)] + g[s \ {Some(s)}])
              = (IF s = {} THEN 0 ELSE nds[q[Some(s)]].lots + g[s \ {Some(s)}])
    BY <1>2, <2>1
  <2>3. [s \in SUBSET S |-> IF s = {} THEN 0 ELSE F[Some(s)] + g[s \ {Some(s)}]]
           = [s \in SUBSET S |-> IF s = {} THEN 0
                                 ELSE nds[q[Some(s)]].lots + g[s \ {Some(s)}]]
    BY <2>2
  <2>4. QED  BY <2>3 DEF SumsOf
<1>4. \E g : SumsOf(g, F, S)
  BY <1>1, <1>2, SumsExist
<1>5. SumsOf(it, F, S)
  <2>1. \E g : Eq(g)
    BY <1>3, <1>4
  <2> HIDE DEF Eq
  <2>2. Eq(it)
    BY <2>1
  <2>3. QED  BY <1>3, <2>2
<1>6. SizeOf(nds, q) = it[S]
  BY DEF SizeOf, S, Some
<1> HIDE DEF it
<1>7. SumOver(F, S) = it[S]
  BY <1>1, <1>2, <1>5, SumOverIs
<1>8. SumOver(F, 1 .. c) = w[c]
  <2>1. RowSums(w, F, c)
    BY <1>2 DEF S, RowSums, LotsSum
  <2>2. QED  BY <2>1, SumOfRow
<1>9. QED  BY <1>6, <1>7, <1>8 DEF S

\* In every reachable state the cached size of a level is the sum of its orders, the
\* size the snapshots and the depth report (book.rs:340).
THEOREM TotalsTheorem == Spec => []TotalsCached
<1>1. SlabInv => TotalsCached
  <2> SUFFICES ASSUME SlabInv, NEW side \in OB!Side, NEW key \in DOMAIN levels[side],
                      NEW q, q = Queue(levels[side][key])
               PROVE  /\ levels[side][key].total =
                            MapThenSumSet(LAMBDA i : nodes[q[i]].lots, DOMAIN q)
                      /\ \A i \in DOMAIN q : nodes[q[i]].lots > 0
    BY DEF TotalsCached
  <2>1. PICK qs, ws, high : Good(nodes, free, index, levels, qs, ws, high)
    BY DEF SlabInv
  <2>2. PICK lvl : lvl = levels[side][key]
    OBVIOUS
  <2>3. PICK w : w = ws[side][key]
    OBVIOUS
  <2>4. /\ Running(nodes, lvl, qs[side][key], w)
        /\ QueueIn(nodes, lvl) = qs[side][key]
        /\ lvl.count \in Nat /\ qs[side][key] \in [1 .. lvl.count -> DOMAIN nodes]
    BY <2>1, <2>2, <2>3, LevelIs
  <2>5. q = qs[side][key]
    BY <2>2, <2>4, QueueInIs
  <2>6. Running(nodes, lvl, q, w) /\ DOMAIN q = 1 .. lvl.count
        /\ q \in [1 .. lvl.count -> DOMAIN nodes]
    BY <2>4, <2>5
  <2>7. ASSUME NEW i \in 1 .. lvl.count
        PROVE  nodes[q[i]].lots \in Int /\ nodes[q[i]].lots > 0
    <3>1. nodes[q[i]] \in Node
      BY <2>1, <2>6 DEF Good, Typed
    <3>2. QED  BY <3>1, LotsType
  <2>8. SizeOf(nodes, q) = w[lvl.count]
    <3>1. LotsSum(w, nodes, q, lvl.count)
      BY <2>6 DEF Running, LotsSum
    <3>2. QED  BY <2>4, <2>6, <2>7, <3>1, SizeOfRow
  <2>9. levels[side][key].total = SizeOf(nodes, q)
    BY <2>2, <2>6, <2>8 DEF Running
  <2>10. MapThenSumSet(LAMBDA i : nodes[q[i]].lots, DOMAIN q) = SizeOf(nodes, q)
    BY DEF MapThenSumSet, MapThenFoldSet, SizeOf
  <2>11. \A i \in DOMAIN q : nodes[q[i]].lots > 0
    BY <2>6, <2>7
  <2> HIDE DEF SizeOf
  <2>12. QED  BY <2>9, <2>10, <2>11
<1>2. QED  BY <1>1, SlabInvariant, PTL

\* A one-to-one table of a finite set has as many values as entries.
LEMMA ImageCount ==
    ASSUME NEW S, IsFiniteSet(S), NEW f, \A x, y \in S : f[x] = f[y] => x = y
    PROVE  /\ IsFiniteSet({f[x] : x \in S})
           /\ Cardinality({f[x] : x \in S}) = Cardinality(S)
<1> DEFINE T == {f[x] : x \in S}
           g == [x \in S |-> f[x]]
<1>1. g \in Bijection(S, T)
  BY DEF Bijection, Injection, Surjection, IsInjective
<1>2. ExistsBijection(S, T)
  BY <1>1 DEF ExistsBijection
<1> HIDE DEF T
<1>3. IsFiniteSet(T) /\ Cardinality(T) = Cardinality(S)
  BY <1>2, FS_Bijection
<1>4. QED  BY <1>3 DEF T

\* The slots of the resting orders, and the members of a stack.
Slots(idx) == {idx[o] : o \in DOMAIN idx}
Members(fr) == {fr[i] : i \in DOMAIN fr}

\* Resting and free slots make up the slab.
LEMMA SlotsAre ==
    ASSUME NEW nds, NEW fr, NEW idx, NEW lvls, NEW qs, NEW ws, NEW high,
           Good(nds, fr, idx, lvls, qs, ws, high)
    PROVE  /\ Slots(idx) \cap Members(fr) = {}
           /\ Slots(idx) \cup Members(fr) = DOMAIN nds
           /\ Len(fr) = Cardinality(Members(fr))
           /\ Cardinality(DOMAIN idx) + Len(fr) = Len(nds)
<1>1. nds \in Seq(Node) /\ fr \in Seq(DOMAIN nds) /\ Len(nds) \in Nat /\ Len(fr) \in Nat
      /\ DOMAIN nds = 1 .. Len(nds) /\ DOMAIN fr = 1 .. Len(fr)
  BY DEF Good, Typed
<1>2. \A o \in DOMAIN idx : idx[o] \in DOMAIN nds /\ nds[idx[o]].oid = o
  BY DEF Good, Typed, Indexed
<1>3. Slots(idx) \cap Members(fr) = {}
  BY DEF Good, Freed, Slots, Members
<1>4. Slots(idx) \cup Members(fr) = DOMAIN nds
  <2>1. Slots(idx) \subseteq DOMAIN nds
    BY <1>2 DEF Slots
  <2>2. Members(fr) \subseteq DOMAIN nds
    <3>1. \A i \in 1 .. Len(fr) : fr[i] \in DOMAIN nds
      BY <1>1
    <3>2. QED  BY <1>1, <3>1 DEF Members
  <2>3. DOMAIN nds \subseteq Slots(idx) \cup Members(fr)
    BY DEF Good, Freed, Slots, Members
  <2>4. QED  BY <2>1, <2>2, <2>3
<1>5. IsFiniteSet(DOMAIN nds) /\ Cardinality(DOMAIN nds) = Len(nds)
      /\ IsFiniteSet(DOMAIN fr) /\ Cardinality(DOMAIN fr) = Len(fr)
  BY <1>1, CountOfInterval
<1>6. IsFiniteSet(Members(fr)) /\ Cardinality(Members(fr)) = Len(fr)
  <2>1. \A i, j \in DOMAIN fr : fr[i] = fr[j] => i = j
    BY DEF Good, Freed
  <2>2. QED  BY <1>5, <2>1, ImageCount DEF Members
<1>7. IsFiniteSet(Slots(idx)) /\ Cardinality(Slots(idx)) = Cardinality(DOMAIN idx)
  <2>1. IsFiniteSet(Slots(idx))
    <3>1. Slots(idx) \in SUBSET (DOMAIN nds)
      BY <1>4
    <3>2. QED  BY <1>5, <3>1, FS_Subset
  <2> DEFINE named == [x \in DOMAIN nds |-> nds[x].oid]
  <2>2. \A x \in Slots(idx) :
           x \in DOMAIN nds /\ idx[named[x]] = x /\ named[x] \in DOMAIN idx
    BY <1>2 DEF Slots
  <2>3. {named[x] : x \in Slots(idx)} = DOMAIN idx
    BY <1>2, <2>2 DEF Slots
  <2> HIDE DEF named
  <2>4. \A x, y \in Slots(idx) : named[x] = named[y] => x = y
    BY <2>2
  <2>5. Cardinality({named[x] : x \in Slots(idx)}) = Cardinality(Slots(idx))
    BY <2>1, <2>4, ImageCount
  <2>6. QED  BY <2>1, <2>3, <2>5
<1>8. Cardinality(Slots(idx) \cup Members(fr)) =
         Cardinality(Slots(idx)) + Cardinality(Members(fr))
            - Cardinality(Slots(idx) \cap Members(fr))
  BY <1>6, <1>7, FS_Union
<1>9. Cardinality(Slots(idx) \cap Members(fr)) = 0
  BY <1>3, FS_EmptySet
<1>10. Cardinality(DOMAIN idx) \in Nat
  BY <1>7, FS_CardinalityType
<1>11. Cardinality(DOMAIN idx) + Len(fr) = Len(nds)
  <2>1. Len(nds) = Cardinality(DOMAIN idx) + Len(fr) - 0
    BY <1>4, <1>5, <1>6, <1>7, <1>8, <1>9
  <2>2. \A c, l, n \in Nat : n = c + l - 0 => c + l = n
    OBVIOUS
  <2>3. QED  BY <1>1, <1>10, <2>1, <2>2
<1>12. QED  BY <1>3, <1>4, <1>6, <1>11

\* The slots found on the levels are the resting ones.
LEMMA LinkedAre ==
    ASSUME NEW qs, NEW ws, NEW high, Good(nodes, free, index, levels, qs, ws, high)
    PROVE  UNION {{q[i] : i \in DOMAIN q} : q \in Queues} = Slots(index)
<1>0. DOMAIN levels = OB!Side
  BY DEF Good, Typed
<1>1. ASSUME NEW x, x \in UNION {{q[i] : i \in DOMAIN q} : q \in Queues}
      PROVE  x \in Slots(index)
  <2>0. PICK q \in Queues : \E i \in DOMAIN q : x = q[i]
    BY <1>1
  <2>1. PICK i \in DOMAIN q : x = q[i]
    BY <2>0
  <2>5. PICK s \in OB!Side : \E k \in DOMAIN levels[s] : q = Queue(levels[s][k])
    BY <1>0 DEF Queues
  <2>2. PICK k \in DOMAIN levels[s] : q = Queue(levels[s][k])
    BY <2>5
  <2>3. /\ QueueIn(nodes, levels[s][k]) = qs[s][k] /\ k \in Int
        /\ levels[s][k] = LevelOf(levels, s, k)
        /\ DOMAIN qs[s][k] = 1 .. levels[s][k].count
    BY LevelIs
  <2>4. q = qs[s][k] /\ i \in 1 .. LevelOf(levels, s, k).count
    BY <2>1, <2>2, <2>3, QueueInIs
  <2>6. nodes[q[i]].oid \in DOMAIN index /\ index[nodes[q[i]].oid] = q[i]
    BY <2>3, <2>4 DEF Good, Indexed
  <2>7. QED  BY <2>1, <2>6 DEF Slots
<1>2. ASSUME NEW o \in DOMAIN index
      PROVE  index[o] \in UNION {{q[i] : i \in DOMAIN q} : q \in Queues}
  <2>1. PICK s, k : s = nodes[index[o]].side /\ k = OB!Key(s, nodes[index[o]].tick)
    OBVIOUS
  <2>2. /\ s \in OB!Side /\ k \in DOMAIN levels[s]
        /\ \E i \in 1 .. LevelOf(levels, s, k).count : qs[s][k][i] = index[o]
    BY <2>1, PlaceOf
  <2>3. PICK i \in 1 .. LevelOf(levels, s, k).count : qs[s][k][i] = index[o]
    BY <2>2
  <2>4. /\ QueueIn(nodes, levels[s][k]) = qs[s][k]
        /\ levels[s][k] = LevelOf(levels, s, k)
        /\ DOMAIN qs[s][k] = 1 .. levels[s][k].count
    BY <2>2, LevelIs
  <2>5. PICK q : q = Queue(levels[s][k])
    OBVIOUS
  <2>6. q \in Queues
    BY <1>0, <2>2, <2>5 DEF Queues
  <2>7. i \in DOMAIN q /\ q[i] = index[o]
    BY <2>3, <2>4, <2>5, QueueInIs
  <2>8. QED  BY <2>6, <2>7
<1>3. QED  BY <1>1, <1>2 DEF Slots

\* In every reachable state each slot rests on one level under its own id or is free,
\* once: no slot leaks and none is handed out twice.
THEOREM SlotsTheorem == Spec => []SlotsAccounted
<1>1. SlabInv => SlotsAccounted
  <2> SUFFICES ASSUME SlabInv PROVE SlotsAccounted
    OBVIOUS
  <2>1. PICK qs, ws, high : Good(nodes, free, index, levels, qs, ws, high)
    BY DEF SlabInv
  <2>2. UNION {{q[i] : i \in DOMAIN q} : q \in Queues} = Slots(index)
    BY <2>1, LinkedAre
  <2>3. /\ Slots(index) \cap Members(free) = {}
        /\ Slots(index) \cup Members(free) = DOMAIN nodes
        /\ Len(free) = Cardinality(Members(free))
        /\ Cardinality(DOMAIN index) + Len(free) = Len(nodes)
    BY <2>1, SlotsAre
  <2>4. \A o \in DOMAIN index : nodes[index[o]].oid = o
    BY <2>1 DEF Good, Indexed
  <2>5. QED  BY <2>2, <2>3, <2>4 DEF SlotsAccounted, Slots, Members
<1>2. QED  BY <1>1, SlabInvariant, PTL

\* Who stands before whom, read from the links of a store.
AheadIn(nds, q) ==
    {<<nds[q[p[1]]].oid, nds[q[p[2]]].oid>> :
        p \in {p \in (DOMAIN q) \X (DOMAIN q) : p[1] < p[2]}}
QueuesIn(nds, lvls) ==
    UNION {{QueueIn(nds, lvls[side][key]) : key \in DOMAIN lvls[side]}
               : side \in DOMAIN lvls}
BeforeIn(nds, lvls) == UNION {AheadIn(nds, q) : q \in QueuesIn(nds, lvls)}

\* The pairs read from the store are a matter of its nodes and levels,
LEMMA BeforeNow == Before = BeforeIn(nodes, levels)
  BY DEF Before, Ahead, Queues, Queue, Hop, BeforeIn, AheadIn, QueuesIn, QueueIn, HopIn

\* before a step and after it.
LEMMA BeforeNext == Before' = BeforeIn(nodes', levels')
  BY DEF Before, Ahead, Queues, Queue, Hop, BeforeIn, AheadIn, QueuesIn, QueueIn, HopIn

\* Read from the links, an order stands before another as its queue has them.
LEMMA BeforeIs ==
    ASSUME NEW nds, NEW fr, NEW idx, NEW lvls, NEW qs, NEW ws, NEW high,
           Good(nds, fr, idx, lvls, qs, ws, high), NEW pair
    PROVE  pair \in BeforeIn(nds, lvls) <=>
              \E a, b : pair = <<a, b>> /\ Stands(nds, lvls, qs, a, b)
<1>0. DOMAIN lvls = OB!Side
  BY DEF Good, Typed
<1>1. ASSUME pair \in BeforeIn(nds, lvls)
      PROVE  \E a, b : pair = <<a, b>> /\ Stands(nds, lvls, qs, a, b)
  <2>1. PICK q \in QueuesIn(nds, lvls) : pair \in AheadIn(nds, q)
    BY <1>1 DEF BeforeIn
  <2>2. PICK s \in OB!Side : \E k \in DOMAIN lvls[s] : q = QueueIn(nds, lvls[s][k])
    BY <1>0 DEF QueuesIn
  <2>3. PICK k \in DOMAIN lvls[s] : q = QueueIn(nds, lvls[s][k])
    BY <2>2
  <2>4. /\ k \in Int /\ q = qs[s][k] /\ lvls[s][k] = LevelOf(lvls, s, k)
        /\ DOMAIN qs[s][k] = 1 .. lvls[s][k].count
    BY <2>3, LevelIs
  <2>5. PICK p \in (DOMAIN q) \X (DOMAIN q) :
           p[1] < p[2] /\ pair = <<nds[q[p[1]]].oid, nds[q[p[2]]].oid>>
    BY <2>1 DEF AheadIn
  <2>6. PICK i \in DOMAIN q, j \in DOMAIN q :
           i < j /\ pair = <<nds[q[i]].oid, nds[q[j]].oid>>
    BY <2>5
  <2>7. i \in 1 .. LevelOf(lvls, s, k).count /\ j \in 1 .. LevelOf(lvls, s, k).count
    BY <2>4
  <2>8. Stands(nds, lvls, qs, nds[q[i]].oid, nds[q[j]].oid)
    BY <2>4, <2>6, <2>7 DEF Stands
  <2>9. QED  BY <2>6, <2>8
<1>2. ASSUME NEW a, NEW b, pair = <<a, b>>, Stands(nds, lvls, qs, a, b)
      PROVE  pair \in BeforeIn(nds, lvls)
  <2>1. PICK s \in OB!Side, k \in Int : \E i, j \in 1 .. LevelOf(lvls, s, k).count :
           i < j /\ a = nds[qs[s][k][i]].oid /\ b = nds[qs[s][k][j]].oid
    BY <1>2 DEF Stands
  <2>2. PICK i \in 1 .. LevelOf(lvls, s, k).count, j \in 1 .. LevelOf(lvls, s, k).count :
           i < j /\ a = nds[qs[s][k][i]].oid /\ b = nds[qs[s][k][j]].oid
    BY <2>1
  <2>3. k \in DOMAIN lvls[s]
    <3>1. SUFFICES ASSUME k \notin DOMAIN lvls[s] PROVE FALSE
      OBVIOUS
    <3>2. LevelOf(lvls, s, k).count = 0
      BY <3>1 DEF LevelOf, NoLevel
    <3>3. QED  BY <2>2, <3>2
  <2>4. /\ QueueIn(nds, lvls[s][k]) = qs[s][k] /\ lvls[s][k] = LevelOf(lvls, s, k)
        /\ DOMAIN qs[s][k] = 1 .. lvls[s][k].count
    BY <2>3, LevelIs
  <2>5. PICK q : q = qs[s][k]
    OBVIOUS
  <2>6. q \in QueuesIn(nds, lvls)
    BY <1>0, <2>3, <2>4, <2>5 DEF QueuesIn
  <2>7. i \in DOMAIN q /\ j \in DOMAIN q
    BY <2>2, <2>4, <2>5
  <2>8. pair \in AheadIn(nds, q)
    <3>1. <<i, j>> \in (DOMAIN q) \X (DOMAIN q) /\ <<i, j>>[1] = i /\ <<i, j>>[2] = j
      BY <2>7
    <3>2. pair = <<nds[q[i]].oid, nds[q[j]].oid>>
      BY <1>2, <2>2, <2>5
    <3>3. QED  BY <2>2, <3>1, <3>2 DEF AheadIn
  <2>9. QED  BY <2>6, <2>8 DEF BeforeIn
<1>3. QED  BY <1>1, <1>2

\* The resting orders, as the callers of the book see them.
LEMMA RestingNow ==
    /\ DOMAIN Resting = DOMAIN index
    /\ \A o \in DOMAIN index : Resting[o] = Viewed(nodes[index[o]])
  BY DEF Resting

\* The same after a step.
LEMMA RestingNext ==
    /\ Resting' = [o \in DOMAIN index' |-> Viewed(nodes'[index'[o]])]
  BY DEF Resting, Viewed

\* A push into the store is an insertion into the book.
LEMMA InsertStep ==
    ASSUME NEW qs, NEW ws, NEW high, Good(nodes, free, index, levels, qs, ws, high),
           NEW qs2, NEW ws2, NEW high2,
           Good(nodes', free', index', levels', qs2, ws2, high2),
           NEW oid, oid \notin DOMAIN index, NEW order, Inserted(oid, order, qs, qs2)
    PROVE  OB!Insert(oid, order)
<1>1. Resting' = [o \in DOMAIN index \cup {oid} |-> IF o = oid THEN order ELSE Resting[o]]
  <2>1. \A o \in DOMAIN index : o # oid /\ Viewed(nodes'[index'[o]]) = Resting[o]
    BY RestingNow DEF Inserted
  <2>2. Viewed(nodes'[index'[oid]]) = order /\ DOMAIN index' = DOMAIN index \cup {oid}
    BY DEF Inserted
  <2>3. QED  BY <2>1, <2>2, RestingNext
<1>2. ASSUME NEW pair
      PROVE  pair \in Before' <=>
                pair \in Before \/ pair \in OB!AtLevel(order.side, order.tick) \X {oid}
  <2>1. pair \in Before' <=>
           \E a, b : pair = <<a, b>> /\ Stands(nodes', levels', qs2, a, b)
    BY BeforeNext, BeforeIs
  <2>2. pair \in Before <=> \E a, b : pair = <<a, b>> /\ Stands(nodes, levels, qs, a, b)
    BY BeforeNow, BeforeIs
  <2>3. \A a : a \in OB!AtLevel(order.side, order.tick) <=>
           /\ a \in DOMAIN index
           /\ nodes[index[a]].side = order.side /\ nodes[index[a]].tick = order.tick
    BY RestingNow DEF OB!AtLevel, OB!OnSide, OB!Live, Viewed
  <2>4. pair \in OB!AtLevel(order.side, order.tick) \X {oid} <=>
           \E a, b : pair = <<a, b>> /\ b = oid /\ a \in OB!AtLevel(order.side, order.tick)
    OBVIOUS
  <2>5. QED  BY <2>1, <2>2, <2>3, <2>4 DEF Inserted
<1>3. Before' = Before \cup (OB!AtLevel(order.side, order.tick) \X {oid})
  BY <1>2
<1>4. QED  BY <1>1, <1>3, RestingNow DEF OB!Insert, OB!Live

\* Taking a slot out of its queue withdraws its order from the book.
LEMMA WithdrawStep ==
    ASSUME NEW qs, NEW ws, NEW high, Good(nodes, free, index, levels, qs, ws, high),
           NEW qs2, NEW ws2, NEW high2,
           Good(nodes', free', index', levels', qs2, ws2, high2),
           NEW oid, Withdrawn(oid, qs, qs2)
    PROVE  OB!Withdraw(oid)
<1>1. Resting' = [o \in DOMAIN index \ {oid} |-> Resting[o]]
  <2>1. \A o \in DOMAIN index' :
           o \in DOMAIN index /\ Viewed(nodes'[index'[o]]) = Resting[o]
    BY RestingNow DEF Withdrawn
  <2>2. DOMAIN index' = DOMAIN index \ {oid}
    BY DEF Withdrawn
  <2>3. QED  BY <2>1, <2>2, RestingNext
<1>2. ASSUME NEW pair
      PROVE  pair \in Before' <=> pair \in Before /\ pair[1] # oid /\ pair[2] # oid
  <2>1. pair \in Before' <=>
           \E a, b : pair = <<a, b>> /\ Stands(nodes', levels', qs2, a, b)
    BY BeforeNext, BeforeIs
  <2>2. pair \in Before <=> \E a, b : pair = <<a, b>> /\ Stands(nodes, levels, qs, a, b)
    BY BeforeNow, BeforeIs
  <2>3. \A a, b : Stands(nodes', levels', qs2, a, b) <=>
           Stands(nodes, levels, qs, a, b) /\ a # oid /\ b # oid
    BY DEF Withdrawn
  <2>4. \A a, b : pair = <<a, b>> => pair[1] = a /\ pair[2] = b
    OBVIOUS
  <2>5. QED  BY <2>1, <2>2, <2>3, <2>4
<1>3. Before' = {pair \in Before : pair[1] # oid /\ pair[2] # oid}
  BY <1>2
<1>4. QED  BY <1>1, <1>3, RestingNow DEF OB!Withdraw, OB!Live

\* Leaving less of an order shrinks it in the book; every place is kept.
LEMMA ShrinkStep ==
    ASSUME NEW qs, NEW ws, NEW high, Good(nodes, free, index, levels, qs, ws, high),
           NEW ws2, NEW high2,
           Good(nodes', free', index', levels', qs, ws2, high2),
           NEW oid, NEW lots, oid \in DOMAIN index, Shrunk(oid, lots, qs)
    PROVE  OB!Shrink(oid, lots)
<1>1. Resting' = [Resting EXCEPT ![oid] = [@ EXCEPT !.lots = lots]]
  <2>1. \A o \in DOMAIN index : o # oid => Viewed(nodes'[index'[o]]) = Resting[o]
    BY RestingNow DEF Shrunk
  <2>2. Viewed(nodes'[index'[oid]]) = [Resting[oid] EXCEPT !.lots = lots]
    BY RestingNow DEF Shrunk
  <2>3. DOMAIN index' = DOMAIN index
    BY DEF Shrunk
  <2>4. \A o \in DOMAIN index : Resting'[o] = Viewed(nodes'[index'[o]])
    BY <2>3, RestingNext
  <2>5. /\ DOMAIN Resting' = DOMAIN Resting
        /\ Resting' = [o \in DOMAIN Resting |-> Resting'[o]]
    BY <2>3, RestingNext, RestingNow
  <2>6. Resting = [o \in DOMAIN index |-> Resting[o]]
    BY DEF Resting
  <2>7. QED  BY <2>1, <2>2, <2>4, <2>5, <2>6, RestingNow
<1>2. ASSUME NEW pair PROVE pair \in Before' <=> pair \in Before
  <2>1. pair \in Before' <=>
           \E a, b : pair = <<a, b>> /\ Stands(nodes', levels', qs, a, b)
    BY BeforeNext, BeforeIs
  <2>2. pair \in Before <=> \E a, b : pair = <<a, b>> /\ Stands(nodes, levels, qs, a, b)
    BY BeforeNow, BeforeIs
  <2>3. QED  BY <2>1, <2>2 DEF Shrunk
<1>3. Before' = Before
  BY <1>2
<1>4. QED  BY <1>1, <1>3 DEF OB!Shrink

\* The loop is at the maker that price and arrival put first.
LEMMA HeadReached ==
    ASSUME NEW qs, NEW ws, NEW high, Good(nodes, free, index, levels, qs, ws, high),
           taker.side \in OB!Side, Matching, NEW n, n = nodes[HeadSlot]
    PROVE  OB!Reaches(n.oid) /\ n.oid \in DOMAIN Resting /\ Resting[n.oid] = Viewed(n)
<1>1. /\ MakerSide \in OB!Side /\ BestKey \in Int /\ BestKey \in DOMAIN levels[MakerSide]
      /\ \A k \in DOMAIN levels[MakerSide] : k \in Int /\ k <= BestKey
      /\ LevelOf(levels, MakerSide, BestKey).count \in Nat \ {0}
      /\ HeadSlot = qs[MakerSide][BestKey][1]
      /\ n.side = MakerSide /\ OB!Key(MakerSide, n.tick) = BestKey
      /\ n.oid \in DOMAIN index /\ index[n.oid] = HeadSlot
  BY HeadIs DEF Matching
<1>2. n.oid \in DOMAIN Resting /\ Resting[n.oid] = Viewed(n)
  BY <1>1, RestingNow
<1>3. Resting[n.oid].side = MakerSide /\ OB!KeyOf(n.oid) = BestKey
  BY <1>1, <1>2 DEF Viewed, OB!KeyOf
<1>4. n.oid \in OB!OnSide(MakerSide)
  BY <1>2, <1>3 DEF OB!OnSide, OB!Live
<1>5. BestKey >= OB!Key(MakerSide, taker.limit)
  BY DEF Matching, InReach
<1>6. ASSUME NEW p \in OB!OnSide(MakerSide) \ {n.oid}
      PROVE  OB!KeyOf(p) < BestKey \/ <<n.oid, p>> \in Before
  <2>1. /\ p \in DOMAIN index /\ p # n.oid /\ Resting[p] = Viewed(nodes[index[p]])
        /\ nodes[index[p]].side = MakerSide
    BY RestingNow DEF OB!OnSide, OB!Live, Viewed
  <2>2. PICK key : key = OB!Key(MakerSide, nodes[index[p]].tick)
    OBVIOUS
  <2>3. OB!KeyOf(p) = key
    BY <2>1, <2>2 DEF OB!KeyOf, Viewed
  <2>4. /\ key \in DOMAIN levels[MakerSide] /\ nodes[index[p]].oid = p
        /\ \E i \in 1 .. LevelOf(levels, MakerSide, key).count :
              qs[MakerSide][key][i] = index[p]
    BY <2>1, <2>2, PlaceOf
  <2>5. key \in Int /\ key <= BestKey
    BY <1>1, <2>4
  <2>6. CASE key = BestKey
    <3>1. PICK i \in 1 .. LevelOf(levels, MakerSide, BestKey).count :
             qs[MakerSide][BestKey][i] = index[p]
      BY <2>4, <2>6
    <3>2. i # 1
      BY <1>1, <2>1, <2>4, <3>1
    <3>3. 1 \in 1 .. LevelOf(levels, MakerSide, BestKey).count /\ 1 < i
      BY <1>1, <3>1, <3>2
    <3>4. n.oid = nodes[qs[MakerSide][BestKey][1]].oid
          /\ p = nodes[qs[MakerSide][BestKey][i]].oid
      BY <1>1, <2>4, <3>1
    <3>5. Stands(nodes, levels, qs, n.oid, p)
      BY <1>1, <3>1, <3>3, <3>4 DEF Stands
    <3>6. <<n.oid, p>> \in BeforeIn(nodes, levels)
      BY <3>5, BeforeIs
    <3>7. QED  BY <3>6, BeforeNow
  <2>7. CASE key # BestKey
    BY <1>1, <2>3, <2>5, <2>7
  <2>8. QED  BY <2>6, <2>7
<1>7. OB!First(n.oid)
  BY <1>3, <1>6 DEF OB!First
<1>8. QED
  BY <1>2, <1>3, <1>4, <1>5, <1>7 DEF OB!Reaches, Matching, MakerSide

\* No level in reach is no order to execute against.
LEMMA NoneInReach ==
    ASSUME NEW qs, NEW ws, NEW high, Good(nodes, free, index, levels, qs, ws, high),
           taker \in OB!Taker, ~InReach
    PROVE  ~OB!Crosses(taker.side, taker.limit)
<1>1. MakerSide \in OB!Side /\ OB!Opposite(taker.side) = MakerSide /\ taker.limit \in Tick
  BY DEF MakerSide, OB!Opposite, OB!Side, OB!Taker
<1>2. OB!Key(MakerSide, taker.limit) \in Int
  BY <1>1, KeyType
<1>3. SUFFICES ASSUME NEW p \in OB!OnSide(MakerSide),
                      OB!KeyOf(p) >= OB!Key(MakerSide, taker.limit)
               PROVE  FALSE
  BY <1>1 DEF OB!Crosses
<1>4. /\ p \in DOMAIN index /\ Resting[p] = Viewed(nodes[index[p]])
      /\ nodes[index[p]].side = MakerSide
  BY RestingNow DEF OB!OnSide, OB!Live, Viewed
<1>5. PICK key : key = OB!Key(MakerSide, nodes[index[p]].tick)
  OBVIOUS
<1>6. OB!KeyOf(p) = key
  BY <1>4, <1>5 DEF OB!KeyOf, Viewed
<1>7. key \in DOMAIN levels[MakerSide] /\ key \in Int
  BY <1>1, <1>4, <1>5, PlaceOf
<1>8. PICK keys : keys = DOMAIN levels[MakerSide]
  OBVIOUS
<1>9. keys # {} /\ high \in Int /\ \A k \in keys : k \in Int /\ k <= high
  BY <1>1, <1>7, <1>8 DEF Good, Typed
<1>10. BestKey \in keys /\ \A k \in keys : k <= BestKey
  BY <1>8, <1>9, MaxOfBounded DEF BestKey
<1>11. BestKey \in Int /\ key <= BestKey
  BY <1>7, <1>8, <1>9, <1>10
<1>12. BestKey >= OB!Key(MakerSide, taker.limit)
  BY <1>2, <1>3, <1>6, <1>7, <1>11
<1>13. QED  BY <1>8, <1>9, <1>12 DEF InReach

\* From anywhere in its queue, an order that leaves is withdrawn.
LEMMA UnlinkStep ==
    ASSUME SlabInv, NEW oid \in DOMAIN index, Unlink(index[oid])
    PROVE  OB!Withdraw(oid)
<1>1. PICK qs, ws, high : Good(nodes, free, index, levels, qs, ws, high)
  BY DEF SlabInv
<1>2. PICK qs2, ws2 : /\ Good(nodes', free', index', levels', qs2, ws2, high)
                      /\ Withdrawn(oid, qs, qs2)
  BY <1>1, UnlinkKeeps
<1>3. QED  BY <1>1, <1>2, WithdrawStep

\* An order left with less, in place, is shrunk.
LEMMA LessenStep ==
    ASSUME SlabInv, NEW oid \in DOMAIN index, NEW lots \in OB!Lots,
           ShrinkTo(index[oid], lots)
    PROVE  OB!Shrink(oid, lots)
<1>1. PICK qs, ws, high : Good(nodes, free, index, levels, qs, ws, high)
  BY DEF SlabInv
<1>2. PICK ws2 : /\ Good(nodes', free', index', levels', qs, ws2, high)
                 /\ Shrunk(oid, lots, qs)
  BY <1>1, ShrinkKeeps
<1>3. QED  BY <1>1, <1>2, ShrinkStep

\* One turn of the loop on the store is one turn of it on the book.
LEMMA MeetStep ==
    ASSUME SlabInv, SlabCall, ExpireHead \/ FillHead
    PROVE  \E o \in OB!Live : OB!Meet(o)
<1>1. PICK qs, ws, high : Good(nodes, free, index, levels, qs, ws, high)
  BY DEF SlabInv
<1>2. PICK n : n = nodes[HeadSlot]
  OBVIOUS
<1>3. Matching /\ taker \in OB!Taker /\ taker.side \in OB!Side /\ InReach
  BY DEF ExpireHead, FillHead, Matching, SlabCall, OB!Taker
<1>4. OB!Reaches(n.oid) /\ n.oid \in DOMAIN Resting /\ Resting[n.oid] = Viewed(n)
  BY <1>1, <1>2, <1>3, HeadReached
<1>5. n.oid \in DOMAIN index /\ index[n.oid] = HeadSlot
  BY <1>1, <1>2, <1>3, HeadIs
<1>6. OB!SelfTrade(n.oid) <=> OwnOrder(n)
  BY <1>4 DEF OB!SelfTrade, OwnOrder, Viewed
<1>7. Resting[n.oid].lots = n.lots /\ Resting[n.oid].tick = n.tick
  BY <1>4 DEF Viewed
<1>8. \A lots : OB!FillOf(n.oid, lots) = FillOf(n, lots)
  BY <1>7 DEF OB!FillOf, FillOf
<1>9. ASSUME ExpireHead PROVE OB!ExpireOwn(n.oid)
  <2>1. Unlink(index[n.oid])
    BY <1>1, <1>3, <1>5, <1>9, PopIsUnlink DEF ExpireHead
  <2>2. OB!Withdraw(n.oid)
    BY <1>5, <2>1, UnlinkStep
  <2>3. OwnOrder(n) /\ expired' = Append(expired, n.oid) /\ UNCHANGED <<taker, fills>>
    BY <1>2, <1>9 DEF ExpireHead
  <2>4. QED  BY <1>4, <1>6, <2>2, <2>3 DEF OB!ExpireOwn
<1>10. ASSUME FillHead PROVE OB!FillWhole(n.oid) \/ OB!FillPart(n.oid)
  <2>1. ~OwnOrder(n) /\ UNCHANGED expired
    BY <1>2, <1>10 DEF FillHead
  <2>2. \/ /\ n.lots <= taker.left /\ Unlink(HeadSlot)
           /\ fills' = Append(fills, FillOf(n, n.lots))
           /\ taker' = [taker EXCEPT !.left = @ - n.lots]
        \/ /\ n.lots > taker.left /\ n.lots - taker.left \in OB!Lots
           /\ ShrinkTo(HeadSlot, n.lots - taker.left)
           /\ fills' = Append(fills, FillOf(n, taker.left))
           /\ taker' = [taker EXCEPT !.left = 0]
    BY <1>1, <1>2, <1>10, FillIs
  <2>3. CASE /\ n.lots <= taker.left /\ Unlink(HeadSlot)
             /\ fills' = Append(fills, FillOf(n, n.lots))
             /\ taker' = [taker EXCEPT !.left = @ - n.lots]
    <3>1. OB!Withdraw(n.oid)
      BY <1>5, <2>3, UnlinkStep
    <3>2. QED  BY <1>4, <1>6, <1>7, <1>8, <2>1, <2>3, <3>1 DEF OB!FillWhole
  <2>4. CASE /\ n.lots > taker.left /\ n.lots - taker.left \in OB!Lots
             /\ ShrinkTo(HeadSlot, n.lots - taker.left)
             /\ fills' = Append(fills, FillOf(n, taker.left))
             /\ taker' = [taker EXCEPT !.left = 0]
    <3>1. OB!Shrink(n.oid, n.lots - taker.left)
      BY <1>5, <2>4, LessenStep
    <3>2. QED  BY <1>4, <1>6, <1>7, <1>8, <2>1, <2>4, <3>1 DEF OB!FillPart
  <2>5. QED  BY <2>2, <2>3, <2>4
<1>11. QED  BY <1>4, <1>9, <1>10 DEF OB!Meet, OB!Live

\* Every step of the store is a step of the book, or none.
LEMMA StoreStep ==
    ASSUME SlabInv, SlabCall, [Next]_vars
    PROVE  [OB!Next]_(OB!vars)
<1>1. PICK qs, ws, high : Good(nodes, free, index, levels, qs, ws, high)
  BY DEF SlabInv
<1>2. ASSUME UNCHANGED store PROVE Resting' = Resting /\ Before' = Before
  BY <1>2, BeforeNow, BeforeNext, RestingNow, RestingNext DEF store, Resting
<1>3. ASSUME NEW oid \in Oid, NEW order \in Orders, Add(oid, order)
      PROVE  OB!Next
  <2>1. /\ taker = Idle /\ oid \notin DOMAIN index /\ PushBack(oid, order)
        /\ UNCHANGED <<taker, fills, expired>> /\ order \in OB!Order
    BY <1>3, SlabAssumption DEF Add
  <2>2. PICK qs2, ws2, high2 :
           /\ Good(nodes', free', index', levels', qs2, ws2, high2)
           /\ Inserted(oid, order, qs, qs2)
    BY <1>1, <2>1, PushBackKeeps
  <2>3. OB!Insert(oid, order)
    BY <1>1, <2>1, <2>2, InsertStep
  <2>4. OB!Add(oid, order)
    BY <2>1, <2>3, RestingNow DEF OB!Add, OB!Live, OB!matched
  <2>5. QED  BY <2>1, <2>4 DEF OB!Next
<1>4. ASSUME NEW oid \in Oid, Cancel(oid)
      PROVE  OB!Next
  <2>1. /\ taker = Idle /\ oid \in DOMAIN index /\ Unlink(index[oid])
        /\ UNCHANGED <<taker, fills, expired>>
    BY <1>4 DEF Cancel
  <2>2. OB!Withdraw(oid)
    BY <2>1, UnlinkStep
  <2>3. OB!Cancel(oid)
    BY <2>1, <2>2, RestingNow DEF OB!Cancel, OB!Live, OB!matched
  <2>4. QED  BY <2>3 DEF OB!Next
<1>5. ASSUME NEW oid \in Oid, NEW lots \in 0 .. MaxLots, Reduce(oid, lots)
      PROVE  OB!Next
  <2>1. /\ taker = Idle /\ oid \in DOMAIN index /\ lots \in 0 .. nodes[index[oid]].lots
        /\ UNCHANGED <<taker, fills, expired>>
        /\ IF lots = 0 THEN Unlink(index[oid]) ELSE ShrinkTo(index[oid], lots)
    BY <1>5 DEF Reduce
  <2>2. lots \in 0 .. Resting[oid].lots /\ oid \in OB!Live
    BY <2>1, RestingNow DEF Viewed, OB!Live
  <2>3. IF lots = 0 THEN OB!Withdraw(oid) ELSE OB!Shrink(oid, lots)
    <3>1. CASE lots = 0
      BY <2>1, <3>1, UnlinkStep
    <3>2. CASE lots # 0
      <4>1. lots \in OB!Lots
        BY <1>1, <2>1, <3>2, ReducedLots
      <4>2. OB!Shrink(oid, lots)
        BY <2>1, <3>2, <4>1, LessenStep
      <4>3. QED  BY <3>2, <4>2
    <3>3. QED  BY <3>1, <3>2
  <2>4. OB!Reduce(oid, lots)
    BY <2>1, <2>2, <2>3 DEF OB!Reduce, OB!matched
  <2>5. QED  BY <2>4 DEF OB!Next
<1>6. ASSUME NEW call \in Takers, Take(call)
      PROVE  OB!Next
  <2>1. call \in OB!Taker /\ call.left > 0
    BY SlabAssumption
  <2>2. /\ call.oid \in Oid /\ call.user \in User /\ call.side \in OB!Side
        /\ call.limit \in Tick /\ call.left \in 0 .. MaxLots /\ call.stp \in OB!Stp
        /\ call = [oid |-> call.oid, user |-> call.user, side |-> call.side,
                   limit |-> call.limit, left |-> call.left, stp |-> call.stp]
    BY <2>1 DEF OB!Taker
  <2>3. call.left \in OB!Lots
    BY <2>1, <2>2, SlabAssumption DEF OB!Lots
  <2>4. taker = Idle /\ taker' = call /\ UNCHANGED <<fills, expired>>
        /\ Resting' = Resting /\ Before' = Before
    BY <1>2, <1>6 DEF Take
  <2>5. OB!Take(call.oid, call.user, call.side, call.limit, call.left, call.stp)
    BY <2>2, <2>4 DEF OB!Take, OB!StartTake, OB!book
  <2>6. QED  BY <2>2, <2>3, <2>5 DEF OB!Next
<1>7. ASSUME ExpireHead \/ FillHead
      PROVE  OB!Next
  BY <1>7, MeetStep DEF OB!Next
<1>8. ASSUME Return
      PROVE  OB!Next
  <2>1. /\ taker # Idle /\ taker' = Idle /\ fills' = <<>> /\ expired' = <<>>
        /\ taker.left = 0 \/ ~InReach
        /\ Resting' = Resting /\ Before' = Before
    BY <1>2, <1>8 DEF Return
  <2>2. taker \in OB!Taker
    BY <2>1 DEF SlabCall
  <2>3. taker.left = 0 \/ ~OB!Crosses(taker.side, taker.limit)
    BY <1>1, <2>1, <2>2, NoneInReach
  <2>4. QED  BY <2>1, <2>3 DEF OB!Next, OB!Return, OB!Exhausted, OB!book
<1>9. CASE UNCHANGED vars
  BY <1>2, <1>9 DEF vars, store, OB!vars
<1>10. QED
  BY <1>3, <1>4, <1>5, <1>6, <1>7, <1>8, <1>9 DEF Next

\* The store of book.rs implements the order book: each add, cancel, reduce and turn
\* of the matching loop is the step of OrderBook of that name, whatever slots,
\* links and totals it went through, and nothing else is.
THEOREM StoreIsBook == Spec => RefinesOrderBook
<1>1. Init => OB!Init
  <2> SUFFICES ASSUME Init PROVE OB!Init
    OBVIOUS
  <2>1. DOMAIN index = {} /\ DOMAIN levels = OB!Side
        /\ \A s \in OB!Side : DOMAIN levels[s] = {}
    BY DEF Init
  <2>2. Resting = [o \in {} |-> o]
    BY <2>1 DEF Resting
  <2>3. Before = {}
    <3>1. ASSUME NEW q \in Queues PROVE FALSE
      <4>1. PICK s \in OB!Side : \E k \in DOMAIN levels[s] : q = Queue(levels[s][k])
        BY <2>1 DEF Queues
      <4>2. QED  BY <2>1, <4>1
    <3>2. Queues = {}
      BY <3>1
    <3>3. QED  BY <3>2 DEF Before
  <2>4. QED  BY <2>2, <2>3 DEF Init, OB!Init
<1>2. SlabInv /\ SlabCall /\ [Next]_vars => [OB!Next]_(OB!vars)
  BY StoreStep
<1>3. QED  BY <1>1, <1>2, SlabInvariant, PTL DEF Spec, OB!Spec, RefinesOrderBook
=============================================================================
