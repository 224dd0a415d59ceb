--------------------------- MODULE MarketFeedProofs ---------------------------
(***************************************************************************)
(* For every run of trades and books the venue may print, every horizon,   *)
(* lag and window, and whatever is lost, late or sent again: a label is    *)
(* the mid at its fill's horizon, a trade counts once, a fill without a    *)
(* label on the tape still waits, and a score is made on a book of this    *)
(* connection that was out before the trade.                               *)
(*                                                                         *)
(* The argument for the labels: the mids kept are a stretch of those       *)
(* printed with none missing (BooksInv), and a fill that waits is due      *)
(* after the last of them (LabelInv), so the first that reaches it is the  *)
(* next printed.  A gap empties both.                                      *)
(* The argument for counting once: a trade that was counted is remembered  *)
(* or so old that the venue does not send it again, and any other trade    *)
(* is later than all that is remembered (SeenInv).  The memory forgets its *)
(* oldest only, when as many later trades as the venue repeats are left.   *)
(* The same holds of trades with a score (ScoreInv), so none gets another. *)
(***************************************************************************)
EXTENDS MarketFeed, Sums

-----------------------------------------------------------------------------
(* The invariant. *)

Fill == [id : Trade, mid : Int]
Tracker == [pending : Seq(Trade), mids : Seq(Nat), resolved : Seq(Fill), dropped : SUBSET Trade]

FeedType ==
    /\ now \in Nat /\ printed \subseteq 0 .. now
    /\ stalled \in BOOLEAN
    /\ books \in Seq(Nat) /\ trades \subseteq Printed
    /\ tracker \in Tracker
    /\ tape \in Seq(Fill) /\ seenOrder \in Seq(Trade)

\* The trades of some entries, and that each is the trade of one entry.
Ids(entries) == {entries[i].id : i \in DOMAIN entries}
OneEach(entries) == \A i, j \in DOMAIN entries : entries[i].id = entries[j].id => i = j

Counted == ToSet(tracker.pending) \cup Ids(tracker.resolved) \cup Ids(tape)

\* A trade so old that the venue no longer sends it to a new subscriber.
Old(t) == Cardinality(Since(t)) > Replayed

\* What a socket carries.
SocketInv ==
    /\ stalled => conn \in {"open", "closing"}
    /\ conn \notin {"open", "closing"} \/ stalled => books = <<>> /\ trades = {}
    /\ conn = "open" => \A t \in trades, u \in Printed : TradeTime[t] <= TradeTime[u] => u \in trades

InOrder(order) ==
    /\ ToSet(order) \subseteq Printed /\ IsInjective(order)
    /\ \A i, j \in DOMAIN order : i < j => TradeTime[order[i]] <= TradeTime[order[j]]

\* t is later than everything remembered.
News(t, order) == \A u \in ToSet(order) : TradeTime[u] < TradeTime[t]

SeenInv ==
    /\ InOrder(seenOrder)
    /\ \A t \in Counted : t \in Printed /\ (t \in ToSet(seenOrder) \/ Old(t))
    /\ \A t \in trades : t \in ToSet(seenOrder) \/ (t \notin Counted /\ News(t, seenOrder))
    /\ \A t \in Printed : t \in ToSet(seenOrder) \/ Old(t) \/ News(t, seenOrder)
    /\ conn = "open" /\ ~stalled
            => \A t \in Printed : t \in ToSet(seenOrder) \/ Old(t) \/ t \in trades

OnceInv ==
    /\ IsInjective(tracker.pending) /\ OneEach(tracker.resolved) /\ OneEach(tape)
    /\ ToSet(tracker.pending) \cap Ids(tracker.resolved) = {}

Increases(s) == \A i, j \in DOMAIN s : i < j => s[i] < s[j]

\* The mids kept are a stretch of those printed.
Stretch(mids) ==
    /\ Increases(mids) /\ ToSet(mids) \subseteq printed
    /\ \A p \in printed : mids # <<>> /\ mids[1] <= p /\ p <= Last(mids) => p \in ToSet(mids)

BooksInv ==
    /\ Stretch(tracker.mids)
    /\ coverageStart = NoMid \/ coverageStart \in Nat
    /\ ~hasBook => tracker.mids = <<>>
    /\ Increases(books) /\ ToSet(books) \subseteq printed
    /\ conn = "open" =>
        /\ coverageStart = NoMid <=> tracker.mids = <<>>
        /\ tracker.mids # <<>> => \A b \in ToSet(books) : Last(tracker.mids) < b
    /\ conn = "open" /\ ~stalled => \A p \in printed :
        /\ tracker.mids # <<>> /\ Last(tracker.mids) < p => p \in ToSet(books)
        /\ books # <<>> /\ Head(books) < p => p \in ToSet(books)

\* A label is right.
Right(fill) ==
    /\ fill.mid \in printed /\ fill.mid >= Due(fill.id)
    /\ \A p \in printed : p >= Due(fill.id) => p >= fill.mid
    /\ fill.mid - Due(fill.id) <= MaxLagMs

\* A fill that waits is due after the mids heard.
Waits(id, mids) == mids # <<>> => Last(mids) < Due(id)

LabelInv ==
    /\ \A id \in ToSet(tracker.pending) : Waits(id, tracker.mids)
    /\ \A i \in DOMAIN tracker.resolved : Right(tracker.resolved[i])

FeedInv ==
    /\ FeedType /\ SocketInv /\ SeenInv /\ OnceInv /\ BooksInv /\ LabelInv /\ NoOrphanOnTape

-----------------------------------------------------------------------------
(* Sequences whose entries are some of another's. *)

\* Different entries of t are different entries of s.
Thins(t, s) ==
    \E f \in [DOMAIN t -> DOMAIN s] : IsInjective(f) /\ \A i \in DOMAIN t : t[i] = s[f[i]]

\* What Only gives: the entries of s in S, each once.
Filters(t, s, S) ==
    /\ Thins(t, s)
    /\ ToSet(t) = ToSet(s) \cap S

\* The same of the first k entries of s.
FiltersTo(t, s, S, k) ==
    \E f \in [DOMAIN t -> 1 .. k] :
        /\ IsInjective(f)
        /\ \A i \in DOMAIN t : t[i] = s[f[i]] /\ t[i] \in S
        /\ \A j \in 1 .. k : s[j] \in S => \E i \in DOMAIN t : f[i] = j

\* One entry more is in S, and is kept, or is not.
LEMMA FiltersMore ==
    ASSUME NEW T, NEW s \in Seq(T), NEW S, NEW k \in 1 .. Len(s),
           NEW t \in Seq(T), FiltersTo(t, s, S, k - 1)
    PROVE  /\ s[k] \in S => Append(t, s[k]) \in Seq(T) /\ FiltersTo(Append(t, s[k]), s, S, k)
           /\ s[k] \notin S => FiltersTo(t, s, S, k)
<1>1. PICK f \in [DOMAIN t -> 1 .. k - 1] :
         /\ IsInjective(f)
         /\ \A i \in DOMAIN t : t[i] = s[f[i]] /\ t[i] \in S
         /\ \A j \in 1 .. k - 1 : s[j] \in S => \E i \in DOMAIN t : f[i] = j
  BY DEF FiltersTo
<1>2. k \in Nat /\ Len(t) \in Nat /\ DOMAIN t = 1 .. Len(t) /\ s[k] \in T
  OBVIOUS
<1>3. ASSUME s[k] \in S
      PROVE  Append(t, s[k]) \in Seq(T) /\ FiltersTo(Append(t, s[k]), s, S, k)
  <2> DEFINE u == Append(t, s[k])
             g == [i \in 1 .. Len(t) + 1 |-> IF i <= Len(t) THEN f[i] ELSE k]
  <2>1. /\ u \in Seq(T) /\ DOMAIN u = 1 .. Len(t) + 1
        /\ \A i \in 1 .. Len(t) : u[i] = t[i]
        /\ u[Len(t) + 1] = s[k]
    BY <1>2
  <2>2. /\ g \in [1 .. Len(t) + 1 -> 1 .. k]
        /\ \A i \in 1 .. Len(t) : g[i] = f[i]
        /\ g[Len(t) + 1] = k
    BY <1>2
  <2> HIDE DEF u, g
  <2>3. IsInjective(g)
    <3> SUFFICES ASSUME NEW i \in 1 .. Len(t) + 1, NEW j \in 1 .. Len(t) + 1, g[i] = g[j]
                 PROVE  i = j
      BY <2>2 DEF IsInjective
    <3>1. ASSUME NEW l \in 1 .. Len(t) PROVE g[l] = f[l] /\ f[l] \in 1 .. k - 1
      BY <1>2, <2>2
    <3>2. \A l \in 1 .. Len(t) + 1 : l \notin 1 .. Len(t) => l = Len(t) + 1
      BY <1>2
    <3>3. CASE i \in 1 .. Len(t) /\ j \in 1 .. Len(t)
      <4>1. f[i] = f[j]
        BY <3>1, <3>3
      <4>2. QED  BY <1>1, <1>2, <3>3, <4>1 DEF IsInjective
    <3>4. CASE i \notin 1 .. Len(t) /\ j \notin 1 .. Len(t)
      BY <3>2, <3>4
    <3>5. CASE i \in 1 .. Len(t) /\ j \notin 1 .. Len(t)
      <4>1. g[j] = k /\ g[i] \in 1 .. k - 1
        BY <2>2, <3>1, <3>2, <3>5
      <4>2. QED  BY <1>2, <4>1
    <3>6. CASE i \notin 1 .. Len(t) /\ j \in 1 .. Len(t)
      <4>1. g[i] = k /\ g[j] \in 1 .. k - 1
        BY <2>2, <3>1, <3>2, <3>6
      <4>2. QED  BY <1>2, <4>1
    <3>7. QED  BY <3>3, <3>4, <3>5, <3>6
  <2>4. \A i \in DOMAIN u : u[i] = s[g[i]] /\ u[i] \in S
    <3> SUFFICES ASSUME NEW i \in DOMAIN u PROVE u[i] = s[g[i]] /\ u[i] \in S
      OBVIOUS
    <3>1. CASE i \in 1 .. Len(t)
      BY <1>1, <1>2, <2>1, <2>2, <3>1
    <3>2. CASE i \notin 1 .. Len(t)
      <4>1. i = Len(t) + 1
        BY <1>2, <2>1, <3>2
      <4>2. QED  BY <1>3, <2>1, <2>2, <4>1
    <3>3. QED  BY <3>1, <3>2
  <2>5. \A j \in 1 .. k : s[j] \in S => \E i \in DOMAIN u : g[i] = j
    <3> SUFFICES ASSUME NEW j \in 1 .. k, s[j] \in S PROVE \E i \in DOMAIN u : g[i] = j
      OBVIOUS
    <3>1. CASE j = k
      <4>1. Len(t) + 1 \in DOMAIN u
        BY <1>2, <2>1
      <4>2. QED  BY <2>2, <3>1, <4>1
    <3>2. CASE j # k
      <4>1. j \in 1 .. k - 1
        BY <1>2, <3>2
      <4>2. PICK i \in DOMAIN t : f[i] = j
        BY <1>1, <4>1
      <4>3. i \in DOMAIN u /\ g[i] = j
        BY <1>2, <2>1, <2>2, <4>2
      <4>4. QED  BY <4>3
    <3>3. QED  BY <3>1, <3>2
  <2>6. g \in [DOMAIN u -> 1 .. k]
    BY <2>1, <2>2
  <2>7. FiltersTo(u, s, S, k)
    BY <2>3, <2>4, <2>5, <2>6 DEF FiltersTo
  <2>8. QED  BY <2>1, <2>7 DEF u
<1>4. ASSUME s[k] \notin S PROVE FiltersTo(t, s, S, k)
  <2>1. f \in [DOMAIN t -> 1 .. k]
    BY <1>2
  <2>2. \A j \in 1 .. k : s[j] \in S => \E i \in DOMAIN t : f[i] = j
    <3> SUFFICES ASSUME NEW j \in 1 .. k, s[j] \in S PROVE \E i \in DOMAIN t : f[i] = j
      OBVIOUS
    <3>1. j \in 1 .. k - 1
      BY <1>2, <1>4
    <3>2. QED  BY <1>1, <3>1
  <2>3. QED  BY <1>1, <2>1, <2>2 DEF FiltersTo
<1>5. QED  BY <1>3, <1>4

\* Only keeps the entries in S: by induction over the entries gone through.
LEMMA OnlyFilters ==
    ASSUME NEW T, NEW s \in Seq(T), NEW S
    PROVE  Only(s, S) \in Seq(T) /\ Filters(Only(s, S), s, S)
<1> DEFINE N == Len(s)
           Steps(g) == g = [k \in 0 .. N |->
                               IF k = 0 THEN <<>>
                               ELSE IF s[k] \in S THEN Append(g[k - 1], s[k]) ELSE g[k - 1]]
           Upto(g, n) ==
               /\ g[0] = <<>>
               /\ \A k \in 1 .. n : g[k] = IF s[k] \in S THEN Append(g[k - 1], s[k]) ELSE g[k - 1]
           P == {n \in Nat : n <= N => \E g : DOMAIN g = 0 .. n /\ Upto(g, n)}
<1>1. N \in Nat /\ DOMAIN s = 1 .. N
  OBVIOUS
<1>2. 0 \in P
  <2>1. DOMAIN [k \in 0 .. 0 |-> <<>>] = 0 .. 0 /\ Upto([k \in 0 .. 0 |-> <<>>], 0)
    OBVIOUS
  <2>2. QED  BY <2>1
<1>3. ASSUME NEW n \in Nat, n \in P PROVE n + 1 \in P
  <2> SUFFICES ASSUME n + 1 <= N PROVE \E g : DOMAIN g = 0 .. n + 1 /\ Upto(g, n + 1)
    OBVIOUS
  <2>1. PICK g : DOMAIN g = 0 .. n /\ Upto(g, n)
    BY <1>1, <1>3
  <2> DEFINE h == [k \in 0 .. n + 1 |-> IF k <= n THEN g[k]
                      ELSE IF s[k] \in S THEN Append(g[k - 1], s[k]) ELSE g[k - 1]]
  <2>2. h[0] = <<>>
    BY <2>1
  <2>3. ASSUME NEW k \in 1 .. n + 1
        PROVE  h[k] = IF s[k] \in S THEN Append(h[k - 1], s[k]) ELSE h[k - 1]
    <3>1. k \in 0 .. n + 1 /\ k - 1 \in 0 .. n + 1 /\ k - 1 <= n
      OBVIOUS
    <3>2. h[k - 1] = g[k - 1]
      BY <3>1
    <3>3. CASE k <= n
      <4>1. k \in 1 .. n /\ h[k] = g[k]
        BY <3>1, <3>3
      <4>2. QED  BY <2>1, <3>2, <4>1
    <3>4. CASE ~(k <= n)
      <4>1. h[k] = IF s[k] \in S THEN Append(g[k - 1], s[k]) ELSE g[k - 1]
        BY <3>1, <3>4
      <4>2. QED  BY <3>2, <4>1
    <3>5. QED  BY <3>3, <3>4
  <2>4. DOMAIN h = 0 .. n + 1
    OBVIOUS
  <2> HIDE DEF h
  <2>5. Upto(h, n + 1)
    BY <2>2, <2>3
  <2>6. QED  BY <2>4, <2>5
<1>4. PICK g : DOMAIN g = 0 .. N /\ Upto(g, N)
  <2> HIDE DEF P, Upto
  <2>1. \A n \in Nat : n \in P
    BY <1>2, <1>3, NatSetInduction
  <2>2. N \in P
    BY <1>1, <2>1
  <2>3. QED  BY <1>1, <2>2 DEF P
<1>5. \E h : Steps(h)
  <2> DEFINE h == [k \in 0 .. N |-> g[k]]
  <2>1. ASSUME NEW k \in 0 .. N
        PROVE  h[k] = IF k = 0 THEN <<>>
                      ELSE IF s[k] \in S THEN Append(h[k - 1], s[k]) ELSE h[k - 1]
    <3>1. CASE k = 0
      BY <1>4, <3>1
    <3>2. CASE k # 0
      <4>1. k \in 1 .. N /\ k - 1 \in 0 .. N /\ h[k] = g[k] /\ h[k - 1] = g[k - 1]
        BY <3>2
      <4>2. QED  BY <1>4, <3>2, <4>1
    <3>3. QED  BY <3>1, <3>2
  <2>2. h = [k \in 0 .. N |-> h[k]]
    OBVIOUS
  <2> HIDE DEF h
  <2>3. Steps(h)
    BY <2>1, <2>2
  <2>4. QED  BY <2>3
<1>6. PICK kept : Steps(kept) /\ Only(s, S) = kept[N]
  <2> DEFINE kept == CHOOSE h : Steps(h)
  <2>1. Only(s, S) = kept[N]
    BY DEF Only
  <2>2. Steps(kept)
    BY <1>5
  <2> HIDE DEF kept, Steps
  <2>3. QED  BY <2>1, <2>2
<1> DEFINE Q == {n \in Nat : n <= N => kept[n] \in Seq(T) /\ FiltersTo(kept[n], s, S, n)}
<1>7. 0 \in Q
  <2>1. kept[0] = <<>>
    BY <1>1, <1>6
  <2>2. FiltersTo(<<>>, s, S, 0)
    <3>1. PICK t : t = <<>> /\ DOMAIN t = {}
      OBVIOUS
    <3>2. PICK f : f = [i \in {} |-> 0]
      OBVIOUS
    <3>3. DOMAIN f = {} /\ f \in [DOMAIN t -> 1 .. 0]
      BY <3>1, <3>2
    <3>4. IsInjective(f) /\ \A j \in 1 .. 0 : FALSE
      BY <3>3 DEF IsInjective
    <3>5. FiltersTo(t, s, S, 0)
      BY <3>1, <3>3, <3>4 DEF FiltersTo
    <3>6. QED  BY <3>1, <3>5
  <2>3. <<>> \in Seq(T)
    OBVIOUS
  <2> HIDE DEF Steps
  <2>4. QED  BY <2>1, <2>2, <2>3
<1>8. ASSUME NEW n \in Nat, n \in Q PROVE n + 1 \in Q
  <2> SUFFICES ASSUME n + 1 <= N
               PROVE  kept[n + 1] \in Seq(T) /\ FiltersTo(kept[n + 1], s, S, n + 1)
    OBVIOUS
  <2>1. n + 1 \in 1 .. N /\ n + 1 \in 0 .. N /\ n + 1 # 0 /\ (n + 1) - 1 = n
    BY <1>1
  <2>2. kept[n + 1] = IF s[n + 1] \in S THEN Append(kept[n], s[n + 1]) ELSE kept[n]
    BY <1>6, <2>1
  <2>3. kept[n] \in Seq(T) /\ FiltersTo(kept[n], s, S, (n + 1) - 1)
    BY <1>1, <1>8, <2>1
  <2>4. /\ s[n + 1] \in S => /\ Append(kept[n], s[n + 1]) \in Seq(T)
                            /\ FiltersTo(Append(kept[n], s[n + 1]), s, S, n + 1)
        /\ s[n + 1] \notin S => FiltersTo(kept[n], s, S, n + 1)
    BY <2>1, <2>3, FiltersMore
  <2>5. QED  BY <2>2, <2>3, <2>4
<1>9. kept[N] \in Seq(T) /\ FiltersTo(kept[N], s, S, N)
  <2> HIDE DEF Q, Steps
  <2>1. \A n \in Nat : n \in Q
    BY <1>7, <1>8, NatSetInduction
  <2>2. N \in Q
    BY <1>1, <2>1
  <2>3. QED  BY <1>1, <2>2 DEF Q
<1>10. Filters(kept[N], s, S)
  <2>1. PICK t : t = kept[N]
    OBVIOUS
  <2>2. PICK f \in [DOMAIN t -> 1 .. N] :
         /\ IsInjective(f)
         /\ \A i \in DOMAIN t : t[i] = s[f[i]] /\ t[i] \in S
         /\ \A j \in 1 .. N : s[j] \in S => \E i \in DOMAIN t : f[i] = j
    BY <1>9, <2>1 DEF FiltersTo
  <2>3. Thins(t, s)
    BY <1>1, <2>2 DEF Thins
  <2>4. ToSet(t) \subseteq ToSet(s) \cap S
    BY <1>1, <2>2 DEF ToSet
  <2>5. ToSet(s) \cap S \subseteq ToSet(t)
    BY <1>1, <2>2 DEF ToSet
  <2>6. QED  BY <2>1, <2>3, <2>4, <2>5 DEF Filters
<1>11. QED  BY <1>6, <1>9, <1>10

\* What is injective, of one entry a trade, or some of another stays so when thinned.
LEMMA Thinned ==
    ASSUME NEW t, NEW s, Thins(t, s)
    PROVE  /\ ToSet(t) \subseteq ToSet(s) /\ Ids(t) \subseteq Ids(s)
           /\ \A i \in DOMAIN t : \E j \in DOMAIN s : t[i] = s[j]
           /\ IsInjective(s) => IsInjective(t)
           /\ OneEach(s) => OneEach(t)
  BY DEF Thins, ToSet, Ids, IsInjective, OneEach

\* No entries are some of any.
LEMMA NothingThins == \A s : Thins(<<>>, s)
<1> SUFFICES ASSUME NEW s PROVE Thins(<<>>, s)
  OBVIOUS
<1>1. PICK t : t = <<>> /\ DOMAIN t = {}
  OBVIOUS
<1>2. PICK f : f = [i \in {} |-> 0]
  OBVIOUS
<1>3. DOMAIN f = {} /\ f \in [DOMAIN t -> DOMAIN s]
  BY <1>1, <1>2
<1>4. Thins(t, s)
  BY <1>1, <1>3 DEF Thins, IsInjective
<1>5. QED  BY <1>1, <1>4

\* All the entries are some of them.
LEMMA ThinsItself == \A s : Thins(s, s)
<1> SUFFICES ASSUME NEW s PROVE Thins(s, s)
  OBVIOUS
<1>1. PICK f : f = [i \in DOMAIN s |-> i]
  OBVIOUS
<1>2. f \in [DOMAIN s -> DOMAIN s] /\ IsInjective(f) /\ \A i \in DOMAIN s : f[i] = i
  BY <1>1 DEF IsInjective
<1>3. QED  BY <1>2 DEF Thins

\* Some of some of the entries are some of them.
LEMMA ThinsAgain ==
    ASSUME NEW a, NEW b, NEW c, Thins(a, b), Thins(b, c)
    PROVE  Thins(a, c)
<1>1. PICK f \in [DOMAIN a -> DOMAIN b] : IsInjective(f) /\ \A i \in DOMAIN a : a[i] = b[f[i]]
  BY DEF Thins
<1>2. PICK g \in [DOMAIN b -> DOMAIN c] : IsInjective(g) /\ \A i \in DOMAIN b : b[i] = c[g[i]]
  BY DEF Thins
<1>3. PICK h : h = [i \in DOMAIN a |-> g[f[i]]]
  OBVIOUS
<1>4. h \in [DOMAIN a -> DOMAIN c] /\ (\A i \in DOMAIN a : a[i] = c[h[i]]) /\ IsInjective(h)
  BY <1>1, <1>2, <1>3 DEF IsInjective
<1>5. QED  BY <1>4 DEF Thins

\* A part of a sequence is some of its entries.
LEMMA SubSeqThins ==
    ASSUME NEW T, NEW s \in Seq(T), NEW m \in Nat \ {0}, NEW n \in Nat, n <= Len(s)
    PROVE  SubSeq(s, m, n) \in Seq(T) /\ Thins(SubSeq(s, m, n), s)
<1>1. Len(s) \in Nat /\ DOMAIN s = 1 .. Len(s)
  OBVIOUS
<1>2. CASE n < m
  <2>1. SubSeq(s, m, n) = <<>>
    BY <1>1, <1>2
  <2>2. QED  BY <2>1, NothingThins
<1>3. CASE ~(n < m)
  <2>1. PICK t : t = SubSeq(s, m, n)
    OBVIOUS
  <2>2. /\ t \in Seq(T) /\ DOMAIN t = 1 .. n - m + 1
        /\ \A i \in 1 .. n - m + 1 : t[i] = s[m + i - 1]
    BY <1>1, <1>3, <2>1
  <2>3. PICK f : f = [i \in 1 .. n - m + 1 |-> m + i - 1]
    OBVIOUS
  <2>4. f \in [DOMAIN t -> DOMAIN s] /\ IsInjective(f) /\ \A i \in DOMAIN t : f[i] = m + i - 1
    BY <1>1, <1>3, <2>2, <2>3 DEF IsInjective
  <2>5. \A i \in DOMAIN t : t[i] = s[f[i]]
    BY <2>2, <2>4
  <2>6. Thins(t, s)
    BY <2>4, <2>5 DEF Thins
  <2>7. QED  BY <2>1, <2>2, <2>6
<1>4. QED  BY <1>2, <1>3

\* A set of naturals has a least one, which Min gives.
LEMMA LeastOfNats ==
    ASSUME NEW S, S # {}, S \subseteq Nat
    PROVE  Min(S) \in S /\ \A x \in S : Min(S) <= x
<1> DEFINE Below == OpToRel(<, Nat)
<1>1. IsWellFoundedOn(Below, Nat)
  BY NatLessThanWellFounded
<1>2. PICK n \in S : \A m \in S : <<m, n>> \notin Below
  <2> HIDE DEF Below
  <2>1. QED  BY <1>1, WFMin
<1>3. \A m \in S : n <= m
  <2> SUFFICES ASSUME NEW m \in S, ~(n <= m) PROVE FALSE
    OBVIOUS
  <2>1. m \in Nat /\ n \in Nat /\ m < n
    OBVIOUS
  <2>2. <<m, n>> \in Below
    BY <2>1 DEF OpToRel
  <2>3. QED  BY <1>2, <2>2
<1>4. QED  BY <1>3 DEF Min

\* A bounded set of naturals has a greatest one, which Max gives.
LEMMA GreatestUpTo ==
    ASSUME NEW N \in Nat, NEW S, S # {}, S \subseteq 0 .. N
    PROVE  Max(S) \in S /\ \A x \in S : x <= Max(S)
<1>1. PICK R : R = {N - x : x \in S}
  OBVIOUS
<1>2. R # {} /\ R \subseteq Nat
  <2>1. R # {}
    BY <1>1
  <2>2. \A x \in S : x \in Int /\ x >= 0 /\ x <= N
    OBVIOUS
  <2>3. \A x \in S : N - x \in Nat
    BY <2>2
  <2>4. QED  BY <1>1, <2>1, <2>3
<1>3. Min(R) \in R /\ \A x \in R : Min(R) <= x
  BY <1>2, LeastOfNats
<1>4. PICK m \in S : Min(R) = N - m
  BY <1>1, <1>3
<1>5. \A x \in S : N - m <= N - x
  BY <1>1, <1>3, <1>4
<1>6. \A x \in S : x <= m
  BY <1>5
<1>7. QED  BY <1>6 DEF Max

\* x stands at place i of t, before and after it the entries of s.
Inserted(t, s, i, x) ==
    /\ DOMAIN t = 1 .. Len(s) + 1 /\ i \in DOMAIN t
    /\ \A j \in 1 .. Len(s) + 1 : t[j] = IF j < i THEN s[j] ELSE IF j = i THEN x ELSE s[j - 1]

\* What InsertAt gives.
LEMMA InsertAtIs ==
    ASSUME NEW T, NEW s \in Seq(T), NEW x \in T, NEW i \in 1 .. Len(s) + 1
    PROVE  InsertAt(s, i, x) \in Seq(T) /\ Inserted(InsertAt(s, i, x), s, i, x)
<1>1. Len(s) \in Nat /\ i \in Nat /\ 1 <= i /\ i <= Len(s) + 1
  OBVIOUS
<1>2. PICK a : a = SubSeq(s, 1, i - 1)
  OBVIOUS
<1>3. PICK b : b = SubSeq(s, i, Len(s))
  OBVIOUS
<1>4. a \in Seq(T) /\ Len(a) = i - 1 /\ \A j \in 1 .. i - 1 : a[j] = s[j]
  <2>1. CASE i = 1
    BY <1>1, <1>2, <2>1
  <2>2. CASE i # 1
    BY <1>1, <1>2, <2>2
  <2>3. QED  BY <2>1, <2>2
<1>5. b \in Seq(T) /\ Len(b) = Len(s) - i + 1 /\ \A j \in 1 .. Len(s) - i + 1 : b[j] = s[i + j - 1]
  <2>1. CASE i = Len(s) + 1
    BY <1>1, <1>3, <2>1
  <2>2. CASE i # Len(s) + 1
    BY <1>1, <1>3, <2>2
  <2>3. QED  BY <2>1, <2>2
<1>6. PICK c : c = a \o <<x>>
  OBVIOUS
<1>7. c \in Seq(T) /\ Len(c) = i /\ (\A j \in 1 .. i - 1 : c[j] = s[j]) /\ c[i] = x
  BY <1>1, <1>4, <1>6
<1>8. PICK t : t = c \o b
  OBVIOUS
<1>9. /\ t \in Seq(T) /\ Len(t) = Len(s) + 1 /\ DOMAIN t = 1 .. Len(s) + 1
      /\ \A j \in 1 .. Len(s) + 1 : t[j] = IF j <= i THEN c[j] ELSE b[j - i]
  BY <1>1, <1>5, <1>7, <1>8
<1>10. ASSUME NEW j \in 1 .. Len(s) + 1
       PROVE  t[j] = IF j < i THEN s[j] ELSE IF j = i THEN x ELSE s[j - 1]
  <2>1. CASE j < i
    BY <1>1, <1>7, <1>9, <2>1
  <2>2. CASE j = i
    BY <1>1, <1>7, <1>9, <2>2
  <2>3. CASE j > i
    <3>1. j - i \in 1 .. Len(s) - i + 1 /\ i + (j - i) - 1 = j - 1 /\ t[j] = b[j - i]
      BY <1>1, <1>9, <2>3
    <3>2. b[j - i] = s[i + (j - i) - 1]
      BY <1>5, <3>1
    <3>3. QED  BY <1>1, <2>3, <3>1, <3>2
  <2>4. QED  BY <1>1, <2>1, <2>2, <2>3
<1>11. Inserted(t, s, i, x)
  BY <1>9, <1>10 DEF Inserted
<1>12. t = InsertAt(s, i, x)
  BY <1>2, <1>3, <1>6, <1>8 DEF InsertAt
<1>13. QED  BY <1>9, <1>11, <1>12

\* The entries of a sequence in which x was put.
LEMMA InsertedFacts ==
    ASSUME NEW T, NEW s \in Seq(T), NEW t, NEW x, NEW i, Inserted(t, s, i, x)
    PROVE  /\ ToSet(t) = ToSet(s) \cup {x} /\ Ids(t) = Ids(s) \cup {x.id}
           /\ \A j \in DOMAIN t : t[j] = x \/ \E k \in DOMAIN s : t[j] = s[k]
           /\ IsInjective(s) /\ x \notin ToSet(s) => IsInjective(t)
           /\ OneEach(s) /\ x.id \notin Ids(s) => OneEach(t)
<1> DEFINE From1(j) == IF j < i THEN j ELSE j - 1
<1>1. Len(s) \in Nat /\ DOMAIN s = 1 .. Len(s) /\ DOMAIN t = 1 .. Len(s) + 1 /\ i \in 1 .. Len(s) + 1
  BY DEF Inserted
<1>2. t[i] = x
  BY <1>1 DEF Inserted
<1>3. ASSUME NEW j \in DOMAIN t, j # i
      PROVE  From1(j) \in DOMAIN s /\ t[j] = s[From1(j)]
  BY <1>1, <1>3 DEF Inserted
<1>4. ASSUME NEW k \in DOMAIN s PROVE \E j \in DOMAIN t : j # i /\ t[j] = s[k]
  <2>1. CASE k < i
    <3>1. k \in DOMAIN t /\ k # i /\ From1(k) = k
      BY <1>1, <2>1
    <3>2. QED  BY <1>3, <3>1
  <2>2. CASE ~(k < i)
    <3>1. k + 1 \in DOMAIN t /\ k + 1 # i /\ From1(k + 1) = k
      BY <1>1, <2>2
    <3>2. QED  BY <1>3, <3>1
  <2>3. QED  BY <2>1, <2>2
<1>5. ASSUME NEW j \in DOMAIN t, NEW k \in DOMAIN t, j # i, k # i, From1(j) = From1(k) PROVE j = k
  BY <1>1, <1>5
<1> HIDE DEF From1
<1>6. ToSet(t) = ToSet(s) \cup {x}
  <2>1. ToSet(t) \subseteq ToSet(s) \cup {x}
    BY <1>2, <1>3 DEF ToSet
  <2>2. ToSet(s) \cup {x} \subseteq ToSet(t)
    BY <1>1, <1>2, <1>4 DEF ToSet
  <2>3. QED  BY <2>1, <2>2
<1>7. Ids(t) = Ids(s) \cup {x.id}
  <2>1. Ids(t) \subseteq Ids(s) \cup {x.id}
    BY <1>2, <1>3 DEF Ids
  <2>2. Ids(s) \cup {x.id} \subseteq Ids(t)
    BY <1>1, <1>2, <1>4 DEF Ids
  <2>3. QED  BY <2>1, <2>2
<1>8. \A j \in DOMAIN t : t[j] = x \/ \E k \in DOMAIN s : t[j] = s[k]
  BY <1>2, <1>3
<1>9. ASSUME IsInjective(s), x \notin ToSet(s) PROVE IsInjective(t)
  <2> SUFFICES ASSUME NEW j \in DOMAIN t, NEW k \in DOMAIN t, t[j] = t[k] PROVE j = k
    BY DEF IsInjective
  <2>1. CASE j # i /\ k # i
    BY <1>3, <1>5, <1>9, <2>1 DEF IsInjective
  <2>2. CASE j = i \/ k = i
    BY <1>2, <1>3, <1>9, <2>2 DEF ToSet
  <2>3. QED  BY <2>1, <2>2
<1>10. ASSUME OneEach(s), x.id \notin Ids(s) PROVE OneEach(t)
  <2> SUFFICES ASSUME NEW j \in DOMAIN t, NEW k \in DOMAIN t, t[j].id = t[k].id PROVE j = k
    BY DEF OneEach
  <2>1. CASE j # i /\ k # i
    BY <1>3, <1>5, <1>10, <2>1 DEF OneEach
  <2>2. CASE j = i \/ k = i
    BY <1>2, <1>3, <1>10, <2>2 DEF Ids
  <2>3. QED  BY <2>1, <2>2
<1>11. QED  BY <1>6, <1>7, <1>8, <1>9, <1>10

\* u is s with t behind it.
Joins(u, s, t) ==
    /\ ToSet(u) = ToSet(s) \cup ToSet(t) /\ Ids(u) = Ids(s) \cup Ids(t)
    /\ \A i \in DOMAIN u : (\E j \in DOMAIN s : u[i] = s[j]) \/ (\E j \in DOMAIN t : u[i] = t[j])
    /\ OneEach(s) /\ OneEach(t) /\ Ids(s) \cap Ids(t) = {} => OneEach(u)
    /\ IsInjective(s) /\ IsInjective(t) /\ ToSet(s) \cap ToSet(t) = {} => IsInjective(u)

\* It holds the entries of both.
LEMMA Joined ==
    ASSUME NEW T, NEW s \in Seq(T), NEW t \in Seq(T)
    PROVE  s \o t \in Seq(T) /\ Joins(s \o t, s, t)
<1>1. PICK u : u = s \o t
  OBVIOUS
<1>2. /\ Len(s) \in Nat /\ DOMAIN s = 1 .. Len(s) /\ Len(t) \in Nat /\ DOMAIN t = 1 .. Len(t)
      /\ u \in Seq(T) /\ DOMAIN u = 1 .. Len(s) + Len(t)
      /\ \A i \in 1 .. Len(s) + Len(t) : u[i] = IF i <= Len(s) THEN s[i] ELSE t[i - Len(s)]
  BY <1>1
<1>3. ASSUME NEW i \in DOMAIN u
      PROVE  \/ i \in DOMAIN s /\ u[i] = s[i]
             \/ i \notin DOMAIN s /\ i - Len(s) \in DOMAIN t /\ u[i] = t[i - Len(s)]
  BY <1>2
<1>4. ASSUME NEW j \in DOMAIN s PROVE j \in DOMAIN u /\ u[j] = s[j]
  BY <1>2
<1>5. ASSUME NEW j \in DOMAIN t PROVE j + Len(s) \in DOMAIN u /\ u[j + Len(s)] = t[j]
  <2>1. j + Len(s) \in 1 .. Len(s) + Len(t) /\ ~(j + Len(s) <= Len(s)) /\ (j + Len(s)) - Len(s) = j
    BY <1>2
  <2>2. QED  BY <1>2, <2>1
<1>6. ToSet(u) = ToSet(s) \cup ToSet(t)
  <2>1. ToSet(u) \subseteq ToSet(s) \cup ToSet(t)
    BY <1>3 DEF ToSet
  <2>2. ToSet(s) \subseteq ToSet(u)
    BY <1>4 DEF ToSet
  <2>3. ToSet(t) \subseteq ToSet(u)
    BY <1>5 DEF ToSet
  <2>4. QED  BY <2>1, <2>2, <2>3
<1>7. Ids(u) = Ids(s) \cup Ids(t)
  <2>1. Ids(u) \subseteq Ids(s) \cup Ids(t)
    BY <1>3 DEF Ids
  <2>2. Ids(s) \subseteq Ids(u)
    BY <1>4 DEF Ids
  <2>3. Ids(t) \subseteq Ids(u)
    BY <1>5 DEF Ids
  <2>4. QED  BY <2>1, <2>2, <2>3
<1>8. \A i \in DOMAIN u : (\E j \in DOMAIN s : u[i] = s[j]) \/ (\E j \in DOMAIN t : u[i] = t[j])
  BY <1>3
<1>9. \A i, j \in DOMAIN u : i - Len(s) = j - Len(s) => i = j
  BY <1>2
<1>10. ASSUME OneEach(s), OneEach(t), Ids(s) \cap Ids(t) = {} PROVE OneEach(u)
  <2> SUFFICES ASSUME NEW i \in DOMAIN u, NEW j \in DOMAIN u, u[i].id = u[j].id PROVE i = j
    BY DEF OneEach
  <2>1. i \in DOMAIN s => u[i].id \in Ids(s)
    BY <1>4 DEF Ids
  <2>2. j \in DOMAIN s => u[j].id \in Ids(s)
    BY <1>4 DEF Ids
  <2>3. i \notin DOMAIN s => u[i].id \in Ids(t)
    BY <1>3 DEF Ids
  <2>4. j \notin DOMAIN s => u[j].id \in Ids(t)
    BY <1>3 DEF Ids
  <2>5. i \in DOMAIN s <=> j \in DOMAIN s
    BY <1>10, <2>1, <2>2, <2>3, <2>4
  <2>6. QED  BY <1>3, <1>9, <1>10, <2>5 DEF OneEach
<1>11. ASSUME IsInjective(s), IsInjective(t), ToSet(s) \cap ToSet(t) = {} PROVE IsInjective(u)
  <2> SUFFICES ASSUME NEW i \in DOMAIN u, NEW j \in DOMAIN u, u[i] = u[j] PROVE i = j
    BY DEF IsInjective
  <2>1. i \in DOMAIN s => u[i] \in ToSet(s)
    BY <1>4 DEF ToSet
  <2>2. j \in DOMAIN s => u[j] \in ToSet(s)
    BY <1>4 DEF ToSet
  <2>3. i \notin DOMAIN s => u[i] \in ToSet(t)
    BY <1>3 DEF ToSet
  <2>4. j \notin DOMAIN s => u[j] \in ToSet(t)
    BY <1>3 DEF ToSet
  <2>5. i \in DOMAIN s <=> j \in DOMAIN s
    BY <1>11, <2>1, <2>2, <2>3, <2>4
  <2>6. QED  BY <1>3, <1>9, <1>11, <2>5 DEF IsInjective
<1>12. Joins(u, s, t)
  BY <1>6, <1>7, <1>8, <1>10, <1>11 DEF Joins
<1>13. QED  BY <1>1, <1>2, <1>12

-----------------------------------------------------------------------------
(* The operators of RegretTracker. *)

\* The entries of a sequence.
LEMMA Entries ==
    ASSUME NEW T, NEW s \in Seq(T)
    PROVE  /\ Len(s) \in Nat /\ DOMAIN s = 1 .. Len(s)
           /\ \A i \in DOMAIN s : s[i] \in T /\ s[i] \in ToSet(s)
           /\ ToSet(s) \subseteq T
           /\ s # <<>> => Last(s) = s[Len(s)] /\ Len(s) \in DOMAIN s /\ 1 \in DOMAIN s
           /\ s = <<>> <=> DOMAIN s = {}
  BY DEF ToSet, Last

\* The entries not yet out of the window are some of the labelled.
LEMMA TrimIs ==
    ASSUME NEW trk \in Tracker, NEW cutoff \in Int
    PROVE  /\ Trim(trk, cutoff) \in Tracker
           /\ Trim(trk, cutoff).pending = trk.pending /\ Trim(trk, cutoff).mids = trk.mids
           /\ Trim(trk, cutoff).dropped = trk.dropped
           /\ Thins(Trim(trk, cutoff).resolved, trk.resolved)
<1> DEFINE s == trk.resolved
           ok == {i \in DOMAIN s : TradeTime[s[i].id] >= cutoff}
           left == From(s, LAMBDA fill : TradeTime[fill.id] >= cutoff)
<1>1. s \in Seq(Fill)
  BY DEF Tracker
<1>2. left = IF ok = {} THEN <<>> ELSE SubSeq(s, Min(ok), Len(s))
  BY DEF From
<1>3. left \in Seq(Fill) /\ Thins(left, s)
  <2> HIDE DEF left, s
  <2>1. CASE ok = {}
    BY <1>2, <2>1, NothingThins
  <2>2. CASE ok # {}
    <3>1. ok \subseteq Nat /\ DOMAIN s = 1 .. Len(s) /\ Len(s) \in Nat
      BY <1>1
    <3>2. Min(ok) \in ok
      BY <2>2, <3>1, LeastOfNats
    <3>3. Min(ok) \in Nat \ {0}
      BY <3>1, <3>2
    <3>4. Len(s) <= Len(s)
      BY <3>1
    <3> HIDE DEF ok
    <3>5. SubSeq(s, Min(ok), Len(s)) \in Seq(Fill) /\ Thins(SubSeq(s, Min(ok), Len(s)), s)
      BY <1>1, <3>1, <3>3, <3>4, SubSeqThins
    <3>6. QED  BY <1>2, <2>2, <3>5
  <2>3. QED  BY <2>1, <2>2
<1> HIDE DEF left
<1>4. Trim(trk, cutoff) = [trk EXCEPT !.resolved = left]
  BY DEF Trim, left
<1>5. QED  BY <1>3, <1>4 DEF Tracker

\* Where a fill joins the queue.
LEMMA PlaceIs ==
    ASSUME NEW T, NEW s \in Seq(T), NEW ok, ok \subseteq DOMAIN s
    PROVE  (IF ok = {} THEN 1 ELSE Max(ok) + 1) \in 1 .. Len(s) + 1
<1>1. Len(s) \in Nat /\ DOMAIN s = 1 .. Len(s)
  OBVIOUS
<1>2. CASE ok = {}
  BY <1>1, <1>2
<1>3. CASE ok # {}
  <2>1. ok \subseteq 0 .. Len(s)
    BY <1>1
  <2>2. Max(ok) \in ok
    BY <1>1, <1>3, <2>1, GreatestUpTo
  <2>3. Max(ok) \in 1 .. Len(s)
    BY <1>1, <2>2
  <2>4. QED  BY <1>1, <1>3, <2>3
<1>4. QED  BY <1>2, <1>3

\* A fill that arrives, by what became of it.
PendingNow(trk, id, r) ==
    /\ r.mid = NoMid /\ Waits(id, trk.mids)
    /\ r.tracker.resolved = trk.resolved
    /\ ToSet(r.tracker.pending) = ToSet(trk.pending) \cup {id}
    /\ IsInjective(trk.pending) /\ id \notin ToSet(trk.pending) => IsInjective(r.tracker.pending)
ResolvedNow(trk, id, r) ==
    /\ r.tracker.pending = trk.pending
    /\ Ids(r.tracker.resolved) = Ids(trk.resolved) \cup {id}
    /\ OneEach(trk.resolved) /\ id \notin Ids(trk.resolved) => OneEach(r.tracker.resolved)
    /\ r.mid # NoMid
    /\ \A i \in DOMAIN r.tracker.resolved :
          \/ r.tracker.resolved[i] = Labelled(id, r.mid)
          \/ \E j \in DOMAIN trk.resolved : r.tracker.resolved[i] = trk.resolved[j]
    /\ Stretch(trk.mids) => Right(Labelled(id, r.mid))
Arrived(trk, id, r) ==
    /\ r.tracker \in Tracker /\ r.mid \in Int
    /\ r.tracker.mids = trk.mids /\ r.tracker.dropped = trk.dropped
    /\ \/ r.outcome = "pending" /\ PendingNow(trk, id, r)
       \/ r.outcome = "unavailable" /\ r.tracker = trk
       \/ r.outcome = "resolved" /\ ResolvedNow(trk, id, r)

\* The cases of add. The mid a late fill gets is the first kept that is not before its
\* horizon; the one before that is, and the mids kept miss none that was printed.
LEMMA ArrivesIs ==
    ASSUME FeedType, NEW trk \in Tracker, NEW id \in Trade
    PROVE  Arrived(trk, id, Arrives(trk, id))
<1> DEFINE due   == Due(id)
           after == {i \in DOMAIN trk.mids : trk.mids[i] >= due}
           late  == trk.mids # <<>> /\ Last(trk.mids) >= due
           first == Min(after)
           mid   == trk.mids[first]
           covered == first > 1 \/ mid = due
           r == Arrives(trk, id)
<1>1. /\ trk.pending \in Seq(Trade) /\ trk.mids \in Seq(Nat) /\ trk.resolved \in Seq(Fill)
      /\ trk = [pending |-> trk.pending, mids |-> trk.mids, resolved |-> trk.resolved,
                dropped |-> trk.dropped]
      /\ due \in Nat
  BY TrackerAssumption DEF Tracker, Due
<1>2. CASE ~late
  <2> DEFINE ok == {i \in DOMAIN trk.pending : Due(trk.pending[i]) <= due}
             place == IF ok = {} THEN 1 ELSE Max(ok) + 1
             queue == InsertAt(trk.pending, place, id)
  <2>1. r = [outcome |-> "pending", mid |-> NoMid, tracker |-> [trk EXCEPT !.pending = queue]]
    BY <1>2 DEF Arrives, Behind
  <2>2. place \in 1 .. Len(trk.pending) + 1
    BY <1>1, PlaceIs
  <2> HIDE DEF place
  <2>3. queue \in Seq(Trade) /\ Inserted(queue, trk.pending, place, id)
    BY <1>1, <2>2, InsertAtIs
  <2> HIDE DEF queue
  <2>4. /\ ToSet(queue) = ToSet(trk.pending) \cup {id}
        /\ IsInjective(trk.pending) /\ id \notin ToSet(trk.pending) => IsInjective(queue)
    BY <1>1, <2>3, InsertedFacts
  <2>5. [trk EXCEPT !.pending = queue] \in Tracker
    BY <2>3 DEF Tracker
  <2>6. Waits(id, trk.mids)
    <3>1. trk.mids # <<>> => Last(trk.mids) \in Nat
      BY <1>1, Entries
    <3>2. QED  BY <1>1, <1>2, <3>1 DEF Waits
  <2>7. /\ r.outcome = "pending" /\ r.mid = NoMid /\ r.tracker = [trk EXCEPT !.pending = queue]
        /\ r.tracker.pending = queue /\ r.tracker.mids = trk.mids
        /\ r.tracker.resolved = trk.resolved /\ r.tracker.dropped = trk.dropped
    BY <1>1, <2>1
  <2> HIDE DEF r, late
  <2>8. PendingNow(trk, id, r)
    BY <2>4, <2>6, <2>7 DEF PendingNow
  <2>9. QED  BY <2>5, <2>7, <2>8 DEF Arrived, NoMid, r
<1>3. CASE late /\ (~covered \/ mid - due > MaxLagMs)
  <2>1. r = [outcome |-> "unavailable", mid |-> NoMid, tracker |-> trk]
    BY <1>3 DEF Arrives
  <2> HIDE DEF r, late, covered, mid
  <2>2. QED  BY <2>1 DEF Arrived, NoMid, r
<1>4. CASE late /\ covered /\ ~(mid - due > MaxLagMs)
  <2> DEFINE ok == {i \in DOMAIN trk.resolved : TradeTime[trk.resolved[i].id] <= TradeTime[id]}
             place == IF ok = {} THEN 1 ELSE Max(ok) + 1
             labelled == InsertAt(trk.resolved, place, Labelled(id, mid))
  <2>1. r = [outcome |-> "resolved", mid |-> mid, tracker |-> [trk EXCEPT !.resolved = labelled]]
    BY <1>4 DEF Arrives, Behind
  <2>2. place \in 1 .. Len(trk.resolved) + 1
    BY <1>1, PlaceIs
  <2> HIDE DEF place
  <2>3. after # {} /\ after \subseteq Nat
    BY <1>1, <1>4, Entries
  <2>4. first \in after /\ \A i \in after : first <= i
    BY <2>3, LeastOfNats
  <2> HIDE DEF first
  <2>5. mid \in Nat /\ mid >= due
    BY <1>1, <2>4
  <2>6. Labelled(id, mid) \in Fill /\ Labelled(id, mid).id = id /\ Labelled(id, mid).mid = mid
    BY <2>5 DEF Labelled, Fill
  <2>7. labelled \in Seq(Fill) /\ Inserted(labelled, trk.resolved, place, Labelled(id, mid))
    BY <1>1, <2>2, <2>6, InsertAtIs
  <2> HIDE DEF labelled
  <2>8. /\ Ids(labelled) = Ids(trk.resolved) \cup {id}
        /\ \A i \in DOMAIN labelled : \/ labelled[i] = Labelled(id, mid)
                                      \/ \E j \in DOMAIN trk.resolved : labelled[i] = trk.resolved[j]
        /\ OneEach(trk.resolved) /\ id \notin Ids(trk.resolved) => OneEach(labelled)
    BY <1>1, <2>6, <2>7, InsertedFacts
  <2>9. [trk EXCEPT !.resolved = labelled] \in Tracker
    BY <2>7 DEF Tracker
  <2>10. ASSUME Stretch(trk.mids) PROVE Right(Labelled(id, mid))
    <3>1. mid \in printed /\ printed \subseteq Nat
      BY <1>1, <2>4, <2>10, Entries DEF Stretch, FeedType
    <3>2. mid - due <= MaxLagMs
      BY <1>1, <1>4, <2>5, TrackerAssumption
    <3>3. ASSUME NEW p \in printed, p >= due, ~(p >= mid) PROVE FALSE
      <4>1. p \in Nat /\ p < mid
        BY <2>5, <3>1, <3>3
      <4>2. first > 1
        BY <1>4, <3>3, <4>1, <1>1, <2>5
      <4>3. /\ DOMAIN trk.mids = 1 .. Len(trk.mids) /\ Len(trk.mids) \in Nat
            /\ trk.mids # <<>> /\ Last(trk.mids) = trk.mids[Len(trk.mids)]
        BY <1>1, <1>4, Entries
      <4>4. first \in 1 .. Len(trk.mids) /\ 1 \in 1 .. Len(trk.mids)
        BY <2>4, <4>3
      <4>5. trk.mids[1] < due
        <5>1. 1 \notin after
          BY <2>4, <4>2, <4>4, <4>3
        <5>2. trk.mids[1] \in Nat
          BY <1>1, <4>3, <4>4
        <5>3. QED  BY <1>1, <4>3, <4>4, <5>1, <5>2
      <4>6. p <= Last(trk.mids) /\ trk.mids[1] <= p
        <5>1. trk.mids[1] \in Nat /\ Last(trk.mids) \in Nat
          BY <1>1, <4>3, <4>4
        <5>2. first = Len(trk.mids) \/ mid < Last(trk.mids)
          <6>1. first = Len(trk.mids) \/ first < Len(trk.mids)
            BY <4>3, <4>4
          <6>2. Len(trk.mids) \in DOMAIN trk.mids /\ first \in DOMAIN trk.mids
            BY <4>3, <4>4
          <6>3. QED  BY <2>10, <4>3, <6>1, <6>2 DEF Stretch, Increases
        <5>3. mid <= Last(trk.mids)
          BY <2>5, <4>3, <5>1, <5>2
        <5>4. QED  BY <1>1, <2>5, <3>3, <4>1, <4>5, <5>1, <5>3
      <4>7. p \in ToSet(trk.mids)
        BY <2>10, <3>3, <4>3, <4>6 DEF Stretch
      <4>8. PICK j \in DOMAIN trk.mids : trk.mids[j] = p
        BY <4>7 DEF ToSet
      <4>9. j \in after
        BY <3>3, <4>8
      <4>10. first = j \/ first < j
        BY <2>4, <4>3, <4>4, <4>8, <4>9
      <4>11. mid <= p
        BY <2>10, <2>5, <4>1, <4>3, <4>4, <4>8, <4>10 DEF Stretch, Increases
      <4>12. QED  BY <2>5, <4>1, <4>11
    <3>4. QED  BY <2>5, <2>6, <3>1, <3>2, <3>3 DEF Right
  <2> HIDE DEF r, late, mid, covered
  <2>11. /\ r.outcome = "resolved" /\ r.mid = mid /\ r.tracker = [trk EXCEPT !.resolved = labelled]
         /\ r.tracker.pending = trk.pending /\ r.tracker.mids = trk.mids
         /\ r.tracker.resolved = labelled /\ r.tracker.dropped = trk.dropped
    BY <1>1, <2>1
  <2>12. r.mid # NoMid
    BY <2>5, <2>11 DEF NoMid
  <2>13. ResolvedNow(trk, id, r)
    BY <2>8, <2>10, <2>11, <2>12 DEF ResolvedNow
  <2>14. QED  BY <2>5, <2>9, <2>11, <2>13 DEF Arrived, r
<1>5. QED  BY <1>2, <1>3, <1>4

\* A mid printed next lengthens the stretch.
LEMMA StretchMore ==
    ASSUME NEW mids \in Seq(Nat), Stretch(mids), NEW time \in printed, printed \subseteq Nat,
           mids # <<>> => Last(mids) < time /\ \A p \in printed : Last(mids) < p => time <= p
    PROVE  Append(mids, time) \in Seq(Nat) /\ Stretch(Append(mids, time))
<1>1. PICK m : m = Append(mids, time)
  OBVIOUS
<1>2. PICK n \in Nat : n = Len(mids)
  OBVIOUS
<1>3. /\ DOMAIN mids = 1 .. n /\ m \in Seq(Nat) /\ Len(m) = n + 1 /\ DOMAIN m = 1 .. n + 1
      /\ m # <<>> /\ m[n + 1] = time /\ time \in Nat
      /\ \A i \in 1 .. n : m[i] = mids[i] /\ mids[i] \in Nat
  BY <1>1, <1>2
<1>4. Last(m) = time /\ (mids # <<>> => Last(mids) = mids[n] /\ n \in 1 .. n) /\ (mids = <<>> <=> n = 0)
  BY <1>2, <1>3, Entries
<1>5. \A i, j \in 1 .. n : i < j => mids[i] < mids[j]
  BY <1>3 DEF Stretch, Increases
<1>6. \A i \in 1 .. n : mids[i] < time
  <2> SUFFICES ASSUME NEW i \in 1 .. n PROVE mids[i] < time
    OBVIOUS
  <2>1. mids # <<>> /\ n \in 1 .. n /\ Last(mids) = mids[n] /\ mids[n] < time
    BY <1>4
  <2>2. i = n \/ i < n
    BY <1>2
  <2>3. QED  BY <1>3, <1>5, <2>1, <2>2
<1>7. Increases(m)
  <2> SUFFICES ASSUME NEW i \in 1 .. n + 1, NEW j \in 1 .. n + 1, i < j PROVE m[i] < m[j]
    BY <1>3 DEF Increases
  <2>1. i \in 1 .. n
    BY <1>2
  <2>2. j \in 1 .. n \/ j = n + 1
    BY <1>2
  <2>3. QED  BY <1>3, <1>5, <1>6, <2>1, <2>2
<1>8. ToSet(m) \subseteq printed
  <2>1. \A i \in 1 .. n + 1 : i \in 1 .. n \/ i = n + 1
    BY <1>2
  <2>2. \A i \in 1 .. n : mids[i] \in printed
    BY <1>3 DEF Stretch, ToSet
  <2>3. QED  BY <1>3, <2>1, <2>2 DEF ToSet
<1>9. ASSUME NEW p \in printed, m[1] <= p, p <= Last(m) PROVE p \in ToSet(m)
  <2>0. time \in ToSet(m) /\ \A i \in 1 .. n : mids[i] \in ToSet(m)
    <3>1. n + 1 \in 1 .. n + 1 /\ \A i \in 1 .. n : i \in 1 .. n + 1
      BY <1>2
    <3>2. QED  BY <1>3, <3>1 DEF ToSet
  <2>1. CASE mids = <<>>
    <3>1. m[1] = time
      BY <1>3, <1>4, <2>1
    <3>2. p = time
      BY <1>3, <1>4, <1>9, <3>1
    <3>3. QED  BY <2>0, <3>2
  <2>2. CASE mids # <<>>
    <3>1. m[1] = mids[1] /\ 1 \in 1 .. n /\ n \in 1 .. n /\ Last(mids) = mids[n] /\ mids[n] \in Nat
      BY <1>2, <1>3, <1>4, <2>2
    <3>2. CASE p <= Last(mids)
      <4>1. p \in ToSet(mids)
        BY <1>9, <2>2, <3>1, <3>2 DEF Stretch
      <4>2. QED  BY <1>3, <2>0, <4>1 DEF ToSet
    <3>3. CASE ~(p <= Last(mids))
      <4>1. p \in Nat /\ Last(mids) < p
        BY <3>1, <3>3
      <4>2. time <= p
        BY <2>2, <4>1
      <4>3. p = time
        BY <1>3, <1>4, <1>9, <4>1, <4>2
      <4>4. QED  BY <2>0, <4>3
    <3>4. QED  BY <3>2, <3>3
  <2>3. QED  BY <2>1, <2>2
<1>10. Stretch(m)
  BY <1>7, <1>8, <1>9 DEF Stretch
<1>11. QED  BY <1>1, <1>3, <1>10

\* The last mids of a stretch are one.
LEMMA StretchSuffix ==
    ASSUME NEW m \in Seq(Nat), NEW k \in 1 .. Len(m)
    PROVE  /\ SubSeq(m, k, Len(m)) \in Seq(Nat) /\ SubSeq(m, k, Len(m)) # <<>>
           /\ Last(SubSeq(m, k, Len(m))) = Last(m)
           /\ Stretch(m) /\ printed \subseteq Nat => Stretch(SubSeq(m, k, Len(m)))
<1>1. PICK n \in Nat : n = Len(m)
  OBVIOUS
<1>2. DOMAIN m = 1 .. n /\ k \in 1 .. n /\ m # <<>> /\ \A i \in 1 .. n : m[i] \in Nat
  BY <1>1
<1>3. PICK s : s = SubSeq(m, k, n)
  OBVIOUS
<1>4. /\ s \in Seq(Nat) /\ Len(s) = n - k + 1 /\ DOMAIN s = 1 .. n - k + 1 /\ s # <<>>
      /\ \A i \in 1 .. n - k + 1 : s[i] = m[k + i - 1]
  <2>1. k \in Nat \ {0} /\ ~(n < k) /\ n <= Len(m)
    BY <1>1, <1>2
  <2>2. s \in Seq(Nat) /\ DOMAIN s = 1 .. n - k + 1
    BY <1>1, <1>2, <1>3, <2>1
  <2>3. \A i \in 1 .. n - k + 1 : s[i] = m[k + i - 1]
    BY <1>1, <1>2, <1>3, <2>1
  <2>4. Len(s) = n - k + 1 /\ s # <<>>
    <3>1. PICK l \in Nat \ {0} : l = n - k + 1
      BY <1>2, <2>1
    <3>2. s \in Seq(Nat) /\ DOMAIN s = 1 .. l
      BY <2>2, <3>1
    <3>3. Len(s) = l /\ s # <<>>
      BY <3>2
    <3>4. QED  BY <3>1, <3>3
  <2>5. QED  BY <2>2, <2>3, <2>4
<1>5. Last(s) = m[n] /\ Last(m) = m[n]
  <2>1. Last(s) = s[n - k + 1] /\ n - k + 1 \in 1 .. n - k + 1 /\ k + (n - k + 1) - 1 = n
    BY <1>2, <1>4, Entries
  <2>2. QED  BY <1>1, <1>2, <1>4, <2>1, Entries
<1>6. ASSUME Stretch(m), printed \subseteq Nat PROVE Stretch(s)
  <2>1. \A i, j \in 1 .. n : i < j => m[i] < m[j]
    BY <1>2, <1>6 DEF Stretch, Increases
  <2>2. \A i \in 1 .. n - k + 1 : k + i - 1 \in 1 .. n
    BY <1>2
  <2>3. Increases(s)
    <3> SUFFICES ASSUME NEW i \in 1 .. n - k + 1, NEW j \in 1 .. n - k + 1, i < j
                 PROVE  s[i] < s[j]
      BY <1>4 DEF Increases
    <3>1. k + i - 1 < k + j - 1
      BY <1>2
    <3>2. QED  BY <1>4, <2>1, <2>2, <3>1
  <2>4. ToSet(s) \subseteq printed
    BY <1>2, <1>4, <1>6, <2>2 DEF ToSet, Stretch
  <2>5. ASSUME NEW p \in printed, s[1] <= p, p <= Last(s) PROVE p \in ToSet(s)
    <3>1. s[1] = m[k] /\ m[k] \in Nat /\ m[1] \in Nat /\ p \in Nat
      <4>1. 1 \in 1 .. n - k + 1 /\ k + 1 - 1 = k /\ 1 \in 1 .. n
        BY <1>2
      <4>2. QED  BY <1>2, <1>4, <1>6, <4>1
    <3>2. m[1] <= m[k]
      <4>1. k = 1 \/ (1 < k /\ 1 \in 1 .. n)
        BY <1>2
      <4>2. QED  BY <1>2, <2>1, <3>1, <4>1
    <3>3. m[1] <= p
      BY <2>5, <3>1, <3>2
    <3>4. PICK j \in 1 .. n : m[j] = p
      BY <1>2, <1>5, <1>6, <2>5, <3>3 DEF Stretch, ToSet
    <3>5. ~(j < k)
      BY <1>2, <2>1, <2>5, <3>1, <3>4
    <3>6. j - k + 1 \in 1 .. n - k + 1 /\ k + (j - k + 1) - 1 = j
      BY <1>2, <3>5
    <3>7. s[j - k + 1] = p
      BY <1>4, <3>4, <3>6
    <3>8. QED  BY <1>4, <3>6, <3>7 DEF ToSet
  <2>6. QED  BY <2>3, <2>4, <2>5 DEF Stretch
<1>7. QED  BY <1>1, <1>3, <1>4, <1>5, <1>6

DueBy(trk, time) == {id \in ToSet(trk.pending) : Due(id) <= time}
LateBy(trk, time) == {id \in DueBy(trk, time) : time - Due(id) > MaxLagMs}

\* What onMid makes of the mids, and of the fills.
MidsNow(trk, time, h) ==
    /\ h.mids # <<>> /\ Last(h.mids) = time
    /\ Stretch(Append(trk.mids, time)) /\ printed \subseteq Nat => Stretch(h.mids)
FillsNow(trk, time, h) ==
    /\ h.dropped = trk.dropped \cup LateBy(trk, time)
    /\ ToSet(h.pending) = ToSet(trk.pending) \ DueBy(trk, time) /\ Thins(h.pending, trk.pending)
    /\ Ids(h.resolved) \subseteq Ids(trk.resolved) \cup (DueBy(trk, time) \ LateBy(trk, time))
    /\ IsInjective(trk.pending) /\ OneEach(trk.resolved)
       /\ ToSet(trk.pending) \cap Ids(trk.resolved) = {} => OneEach(h.resolved)
    /\ \A i \in DOMAIN h.resolved :
          \/ \E j \in DOMAIN trk.resolved : h.resolved[i] = trk.resolved[j]
          \/ \E id \in DueBy(trk, time) \ LateBy(trk, time) : h.resolved[i] = Labelled(id, time)

\* The cases of onMid.
LEMMA HearsMidIs ==
    ASSUME NEW trk \in Tracker, NEW time \in Nat
    PROVE  /\ HearsMid(trk, time) \in Tracker
           /\ MidsNow(trk, time, HearsMid(trk, time))
           /\ FillsNow(trk, time, HearsMid(trk, time))
<1> DEFINE mids == Append(trk.mids, time)
           old  == {i \in DOMAIN mids : mids[i] <= time - HorizonMs - MaxLagMs}
           due  == DueBy(trk, time)
           late == LateBy(trk, time)
           done == Only(trk.pending, due \ late)
           left == Only(trk.pending, ToSet(trk.pending) \ due)
           new  == [i \in DOMAIN done |-> Labelled(done[i], time)]
           stretch == SubSeq(mids, Max(old \union {1}), Len(mids))
           kept == [trk EXCEPT !.mids = stretch, !.pending = left]
           full == [kept EXCEPT !.dropped = @ \union late, !.resolved = @ \o new]
           h    == HearsMid(trk, time)
<1>1. /\ trk.pending \in Seq(Trade) /\ trk.mids \in Seq(Nat) /\ trk.resolved \in Seq(Fill)
      /\ trk.dropped \subseteq Trade
      /\ trk = [pending |-> trk.pending, mids |-> trk.mids, resolved |-> trk.resolved,
                dropped |-> trk.dropped]
  BY DEF Tracker
<1>2. h = IF due = {} THEN kept ELSE Trim(full, time - WindowMs)
  BY DEF HearsMid, DueBy, LateBy
<1>3. due \subseteq ToSet(trk.pending) /\ late \subseteq due /\ (due = {} => late = {})
  BY DEF DueBy, LateBy
<1>4. /\ stretch \in Seq(Nat) /\ stretch # <<>> /\ Last(stretch) = time
      /\ Stretch(mids) /\ printed \subseteq Nat => Stretch(stretch)
  <2>1. PICK n \in Nat : n = Len(mids) /\ n \in Nat \ {0} /\ DOMAIN mids = 1 .. n
    BY <1>1
  <2>2. mids \in Seq(Nat) /\ mids # <<>> /\ Last(mids) = time
    <3>1. PICK m : m = mids
      OBVIOUS
    <3>2. m \in Seq(Nat) /\ Len(m) = Len(trk.mids) + 1 /\ m[Len(trk.mids) + 1] = time /\ m # <<>>
      BY <1>1, <3>1
    <3>3. Last(m) = m[Len(m)]
      BY <3>2, Entries
    <3>4. QED  BY <3>1, <3>2, <3>3
  <2>3. Max(old \union {1}) \in 1 .. n
    <3>1. old \union {1} # {} /\ old \union {1} \subseteq 1 .. n /\ old \union {1} \subseteq 0 .. n
      BY <2>1
    <3>2. Max(old \union {1}) \in old \union {1}
      BY <2>1, <3>1, GreatestUpTo
    <3>3. QED  BY <3>1, <3>2
  <2> HIDE DEF mids, old
  <2>4. QED  BY <2>1, <2>2, <2>3, StretchSuffix
<1>5. left \in Seq(Trade) /\ Thins(left, trk.pending) /\ ToSet(left) = ToSet(trk.pending) \ due
  BY <1>1, OnlyFilters DEF Filters
<1>6. done \in Seq(Trade) /\ Thins(done, trk.pending) /\ ToSet(done) = due \ late
  BY <1>1, <1>3, OnlyFilters DEF Filters
<1>7. /\ new \in Seq(Fill) /\ DOMAIN new = DOMAIN done
      /\ \A i \in DOMAIN new : new[i] = Labelled(done[i], time) /\ new[i].id = done[i]
      /\ Ids(new) = due \ late
      /\ IsInjective(trk.pending) => OneEach(new)
  <2> HIDE DEF done
  <2>1. Len(done) \in Nat /\ DOMAIN done = 1 .. Len(done) /\ \A i \in DOMAIN done : done[i] \in Trade
    BY <1>6
  <2>2. /\ DOMAIN new = DOMAIN done
        /\ \A i \in DOMAIN new : new[i] = Labelled(done[i], time) /\ new[i].id = done[i] /\ new[i] \in Fill
    BY <2>1 DEF Labelled, Fill
  <2>3. new \in Seq(Fill)
    BY <2>1, <2>2
  <2> HIDE DEF new
  <2>4. Ids(new) = ToSet(done)
    BY <2>2 DEF Ids, ToSet
  <2>5. IsInjective(trk.pending) => IsInjective(done)
    BY <1>6, Thinned
  <2>6. IsInjective(done) => OneEach(new)
    BY <2>2 DEF IsInjective, OneEach
  <2>7. QED  BY <1>6, <2>2, <2>3, <2>4, <2>5, <2>6
<1>8. /\ kept \in Tracker /\ kept.mids = stretch /\ kept.pending = left
      /\ kept.resolved = trk.resolved /\ kept.dropped = trk.dropped
      /\ kept = [pending |-> left, mids |-> stretch, resolved |-> trk.resolved, dropped |-> trk.dropped]
  <2> HIDE DEF left, stretch
  <2>1. kept = [pending |-> left, mids |-> stretch, resolved |-> trk.resolved, dropped |-> trk.dropped]
    <3>1. PICK p, m, f, d : /\ trk = [pending |-> p, mids |-> m, resolved |-> f, dropped |-> d]
                            /\ f = trk.resolved /\ d = trk.dropped
      BY <1>1
    <3>2. PICK k : k = [pending |-> p, mids |-> m, resolved |-> f, dropped |-> d]
      BY <3>1
    <3>3. PICK a, b : a = left /\ b = stretch
      OBVIOUS
    <3>4. kept = [k EXCEPT !.mids = b, !.pending = a]
      BY <3>1, <3>2, <3>3
    <3> HIDE DEF kept
    <3>5. kept = [pending |-> a, mids |-> b, resolved |-> f, dropped |-> d]
      BY <3>2, <3>4
    <3>6. QED  BY <3>1, <3>3, <3>5
  <2> HIDE DEF kept
  <2>2. QED  BY <1>1, <1>4, <1>5, <2>1 DEF Tracker
<1> HIDE DEF kept, left, stretch, done, new, due, late, mids
<1>9. CASE due = {}
  <2>1. h = kept
    BY <1>2, <1>9
  <2>2. MidsNow(trk, time, kept)
    BY <1>4, <1>8 DEF MidsNow, mids
  <2>3. FillsNow(trk, time, kept)
    BY <1>3, <1>5, <1>8, <1>9 DEF FillsNow, due, late
  <2>4. QED  BY <1>8, <2>1, <2>2, <2>3
<1>10. CASE due # {}
  <2>1. PICK all : all = trk.resolved \o new
    OBVIOUS
  <2>2. /\ all \in Seq(Fill) /\ Ids(all) = Ids(trk.resolved) \cup (due \ late)
        /\ \A i \in DOMAIN all : (\E j \in DOMAIN trk.resolved : all[i] = trk.resolved[j])
                                 \/ (\E j \in DOMAIN new : all[i] = new[j])
        /\ OneEach(trk.resolved) /\ OneEach(new) /\ Ids(trk.resolved) \cap Ids(new) = {}
              => OneEach(all)
    <3>1. all \in Seq(Fill) /\ Joins(all, trk.resolved, new)
      BY <1>1, <1>7, <2>1, Joined
    <3>2. QED  BY <1>7, <3>1 DEF Joins
  <2>3. /\ full \in Tracker /\ full.mids = stretch /\ full.pending = left
        /\ full.resolved = all /\ full.dropped = trk.dropped \cup late
    <3>1. full = [pending |-> left, mids |-> stretch, resolved |-> all, dropped |-> trk.dropped \cup late]
      <4>1. PICK k : /\ k = kept
                     /\ k = [pending |-> left, mids |-> stretch, resolved |-> trk.resolved,
                             dropped |-> trk.dropped]
        BY <1>8
      <4>2. full = [k EXCEPT !.dropped = trk.dropped \cup late, !.resolved = all]
        BY <2>1, <4>1
      <4>3. PICK f, d : /\ f = trk.resolved /\ d = trk.dropped
                        /\ k = [pending |-> left, mids |-> stretch, resolved |-> f, dropped |-> d]
        BY <4>1
      <4> HIDE DEF full
      <4>4. QED  BY <4>2, <4>3
    <3>2. trk.dropped \cup late \subseteq Trade
      BY <1>1, <1>3, Entries
    <3>3. QED  BY <1>4, <1>5, <2>2, <3>1, <3>2 DEF Tracker
  <2> HIDE DEF full
  <2>4. h = Trim(full, time - WindowMs)
    BY <1>2, <1>10
  <2>5. /\ h \in Tracker /\ h.pending = left /\ h.mids = stretch
        /\ h.dropped = trk.dropped \cup late /\ Thins(h.resolved, all)
    <3>1. time - WindowMs \in Int
      BY TrackerAssumption
    <3>2. QED  BY <2>3, <2>4, <3>1, TrimIs
  <2> HIDE DEF h
  <2>6. /\ Ids(h.resolved) \subseteq Ids(all) /\ (OneEach(all) => OneEach(h.resolved))
        /\ \A i \in DOMAIN h.resolved : \E j \in DOMAIN all : h.resolved[i] = all[j]
    BY <2>5, Thinned
  <2>7. ASSUME IsInjective(trk.pending), OneEach(trk.resolved), ToSet(trk.pending) \cap Ids(trk.resolved) = {}
        PROVE  OneEach(h.resolved)
    <3>1. Ids(trk.resolved) \cap Ids(new) = {}
      BY <1>3, <1>7, <2>7
    <3>2. QED  BY <1>7, <2>2, <2>6, <2>7, <3>1
  <2>8. \A i \in DOMAIN h.resolved :
          \/ \E j \in DOMAIN trk.resolved : h.resolved[i] = trk.resolved[j]
          \/ \E id \in due \ late : h.resolved[i] = Labelled(id, time)
    <3>1. \A j \in DOMAIN new : new[j] = Labelled(done[j], time) /\ done[j] \in due \ late
      BY <1>6, <1>7 DEF ToSet
    <3>2. QED  BY <2>2, <2>6, <3>1
  <2>9. MidsNow(trk, time, h)
    BY <1>4, <2>5 DEF MidsNow, mids
  <2>10. FillsNow(trk, time, h)
    BY <1>5, <2>2, <2>5, <2>6, <2>7, <2>8 DEF FillsNow, due, late
  <2>11. QED  BY <2>5, <2>9, <2>10 DEF h
<1>11. QED  BY <1>9, <1>10

-----------------------------------------------------------------------------
(* A message of trades. *)

\* A message holds the oldest trades the socket carries, each once, in the order of their time.
Oldest(message) ==
    /\ message \in Seq(Trade) /\ IsInjective(message)
    /\ ToSet(message) \subseteq trades
    /\ \A i, j \in DOMAIN message : i < j => TradeTime[message[i]] <= TradeTime[message[j]]
    /\ \A t \in ToSet(message), u \in trades \ ToSet(message) : TradeTime[t] < TradeTime[u]

\* Every message is one.
LEMMA MessageIs ==
    ASSUME FeedType, NEW message \in Messages
    PROVE  Oldest(message)
<1>1. PICK last \in trades :
         message \in SetToSeqs({u \in trades : TradeTime[u] <= TradeTime[last]})
  BY DEF Messages
<1>2. \A i, j \in DOMAIN message : i < j => TradeTime[message[i]] <= TradeTime[message[j]]
  BY DEF Messages
<1>3. PICK B : B = {u \in trades : TradeTime[u] <= TradeTime[last]}
  OBVIOUS
<1>4. B \subseteq Trade /\ trades \subseteq Trade /\ last \in Trade
  BY <1>3 DEF FeedType, Printed
<1>5. IsFiniteSet(B)
  BY <1>4, TrackerAssumption, FS_Subset
<1>6. PICK n \in Nat : n = Cardinality(B)
  BY <1>5, FS_CardinalityType
<1>7. message \in [1 .. n -> B] /\ \A i, j \in 1 .. n : i # j => message[i] # message[j]
  <2>1. message \in SetToSeqs(B)
    BY <1>1, <1>3
  <2>2. QED  BY <1>6, <2>1 DEF SetToSeqs
<1>8. DOMAIN message = 1 .. n /\ message \in Seq(Trade) /\ IsInjective(message)
  BY <1>4, <1>7 DEF IsInjective
<1>9. B \subseteq ToSet(message)
  <2>1. message \in Injection(1 .. n, B)
    BY <1>7, <1>8 DEF Injection
  <2>2. IsFiniteSet(1 .. n) /\ Cardinality(1 .. n) = n
    <3>1. 0 \in Int /\ n \in Int /\ 1 \in Int
      OBVIOUS
    <3>2. /\ IsFiniteSet(1 .. n)
          /\ Cardinality(1 .. n) = IF 1 > n THEN 0 ELSE n - 1 + 1
      BY <3>1, FS_Interval
    <3>3. QED  BY <3>2
  <2>3. message \in Surjection(1 .. n, B)
    BY <1>5, <1>6, <2>1, <2>2, FS_Injection
  <2>4. QED  BY <1>8, <2>3 DEF Surjection, ToSet
<1>10. ToSet(message) = B
  BY <1>7, <1>8, <1>9 DEF ToSet
<1>11. \A t \in B, u \in trades \ B : TradeTime[t] < TradeTime[u]
  <2> SUFFICES ASSUME NEW t \in B, NEW u \in trades \ B PROVE TradeTime[t] < TradeTime[u]
    OBVIOUS
  <2>1. TradeTime[t] \in Nat /\ TradeTime[u] \in Nat /\ TradeTime[last] \in Nat
    BY <1>4, TrackerAssumption
  <2>2. TradeTime[t] <= TradeTime[last] /\ ~(TradeTime[u] <= TradeTime[last])
    BY <1>3
  <2>3. QED  BY <2>1, <2>2
<1>12. QED  BY <1>2, <1>3, <1>8, <1>10, <1>11 DEF Oldest

\* The ids remembered when t, no older than any of them, has been looked up: what is
\* forgotten has grown old.
Remembered(order, t, more) ==
    /\ more \in Seq(Trade) /\ InOrder(more)
    /\ ToSet(more) \subseteq ToSet(order) \cup {t} /\ t \in ToSet(more)
    /\ \A u \in ToSet(order) : u \in ToSet(more) \/ Old(u)

\* An entry among the oldest of a full memory has as many printed since as the rest of it.
LEMMA Ages ==
    ASSUME NEW t \in Printed, NEW s \in Seq(Trade), NEW i \in DOMAIN s,
           s[i] = t, InOrder(s), Len(s) > SeenLimit, i <= SeenBatch
    PROVE  Old(t)
<1>1. PICK n \in Nat : n = Len(s) /\ DOMAIN s = 1 .. n /\ i \in 1 .. n
  OBVIOUS
<1>2. PICK S : S = Since(t)
  OBVIOUS
<1>3. IsFiniteSet(S) /\ Cardinality(S) \in Nat
  <2>1. S \subseteq Trade
    BY <1>2 DEF Since, Printed
  <2>2. QED  BY <2>1, TrackerAssumption, FS_Subset, FS_CardinalityType
<1>4. ASSUME NEW j \in i .. n PROVE s[j] \in S
  <2>1. j \in 1 .. n /\ (i = j \/ i < j)
    BY <1>1
  <2>2. s[j] \in Printed /\ TradeTime[s[j]] \in Nat /\ TradeTime[t] \in Nat
    BY <1>1, <2>1, TrackerAssumption DEF InOrder, ToSet, Printed
  <2>3. TradeTime[s[j]] >= TradeTime[t]
    <3>1. i = j \/ TradeTime[s[i]] <= TradeTime[s[j]]
      BY <1>1, <2>1 DEF InOrder
    <3>2. QED  BY <2>2, <3>1
  <2>4. QED  BY <1>2, <2>2, <2>3 DEF Since
<1>5. PICK f : f = [j \in i .. n |-> s[j]]
  OBVIOUS
<1>6. f \in Injection(i .. n, S)
  <2>1. f \in [i .. n -> S]
    BY <1>4, <1>5
  <2>2. \A j \in i .. n : j \in 1 .. n /\ f[j] = s[j]
    BY <1>1, <1>5
  <2>3. IsInjective(f)
    BY <1>1, <2>1, <2>2 DEF IsInjective, InOrder
  <2>4. QED  BY <2>1, <2>3 DEF Injection
<1>7. Cardinality(i .. n) <= Cardinality(S)
  BY <1>3, <1>6, FS_Injection
<1>8. Cardinality(i .. n) = n - i + 1
  <2>1. i \in Int /\ n \in Int /\ ~(i > n)
    BY <1>1
  <2>2. Cardinality(i .. n) = IF i > n THEN 0 ELSE n - i + 1
    BY <2>1, FS_Interval
  <2>3. QED  BY <2>1, <2>2
<1>9. n - i + 1 > Replayed
  BY <1>1, FeedAssumption
<1>10. Cardinality(S) > Replayed
  <2>1. Replayed \in Int /\ n - i + 1 \in Int
    BY <1>1, FeedAssumption
  <2>2. QED  BY <1>3, <1>7, <1>8, <1>9, <2>1
<1>11. QED  BY <1>2, <1>10 DEF Old

\* What seen makes of the memory.
LEMMA RemembersIs ==
    ASSUME NEW order \in Seq(Trade), InOrder(order), NEW t \in Printed, t \notin ToSet(order),
           \A u \in ToSet(order) : TradeTime[u] <= TradeTime[t]
    PROVE  Remembered(order, t, Remembers(order, t))
<1>1. PICK n \in Nat : n = Len(order) /\ DOMAIN order = 1 .. n
  OBVIOUS
<1>2. PICK all : all = Append(order, t)
  OBVIOUS
<1>3. t \in Trade
  BY DEF Printed
<1>4. /\ all \in Seq(Trade) /\ Len(all) = n + 1 /\ DOMAIN all = 1 .. n + 1 /\ all[n + 1] = t
      /\ \A i \in 1 .. n : all[i] = order[i]
  BY <1>1, <1>2, <1>3
<1>5. \A i \in 1 .. n + 1 : i \in 1 .. n \/ i = n + 1
  BY <1>1
<1>6. ToSet(all) = ToSet(order) \cup {t} /\ n + 1 \in 1 .. n + 1
  <2>1. n + 1 \in 1 .. n + 1 /\ \A i \in 1 .. n : i \in 1 .. n + 1
    BY <1>1
  <2>2. QED  BY <1>1, <1>4, <1>5, <2>1 DEF ToSet
<1>7. InOrder(all)
  <2>1. ToSet(all) \subseteq Printed
    BY <1>6 DEF InOrder
  <2>2. IsInjective(all)
    <3> SUFFICES ASSUME NEW i \in 1 .. n + 1, NEW j \in 1 .. n + 1, all[i] = all[j] PROVE i = j
      BY <1>4 DEF IsInjective
    <3>1. \A k \in 1 .. n : order[k] \in ToSet(order) /\ order[k] # t
      BY <1>1 DEF ToSet
    <3>2. QED  BY <1>1, <1>4, <1>5, <3>1 DEF IsInjective, InOrder
  <2>3. \A i, j \in DOMAIN all : i < j => TradeTime[all[i]] <= TradeTime[all[j]]
    <3> SUFFICES ASSUME NEW i \in 1 .. n + 1, NEW j \in 1 .. n + 1, i < j
                 PROVE  TradeTime[all[i]] <= TradeTime[all[j]]
      BY <1>4
    <3>1. i \in 1 .. n
      BY <1>1
    <3>2. all[i] = order[i] /\ order[i] \in ToSet(order)
      BY <1>1, <1>4, <3>1 DEF ToSet
    <3>3. CASE j = n + 1
      BY <1>4, <3>2, <3>3
    <3>4. CASE j \in 1 .. n
      BY <1>1, <1>4, <3>1, <3>4 DEF InOrder
    <3>5. QED  BY <1>5, <3>3, <3>4
  <2>4. QED  BY <2>1, <2>2, <2>3 DEF InOrder
<1>8. ~Contains(order, t)
  BY <1>1 DEF Contains, ToSet
<1>9. PICK more : more = Remembers(order, t)
  OBVIOUS
<1>10. more = IF n + 1 > SeenLimit THEN SubSeq(all, SeenBatch + 1, n + 1) ELSE all
  BY <1>2, <1>4, <1>8, <1>9 DEF Remembers
<1>11. CASE ~(n + 1 > SeenLimit)
  BY <1>4, <1>6, <1>7, <1>9, <1>10, <1>11 DEF Remembered
<1>12. CASE n + 1 > SeenLimit
  <2>1. /\ SeenBatch + 1 \in Nat \ {0} /\ SeenBatch \in Nat /\ SeenLimit \in Nat
        /\ SeenBatch + 1 <= n + 1 /\ n + 1 \in Nat /\ n + 1 <= Len(all) /\ Len(all) > SeenLimit
    BY <1>4, <1>12, FeedAssumption
  <2>2. more = SubSeq(all, SeenBatch + 1, n + 1)
    BY <1>10, <1>12
  <2>3. more \in Seq(Trade) /\ Thins(more, all)
    BY <1>4, <2>1, <2>2, SubSeqThins
  <2>4. /\ DOMAIN more = 1 .. n + 1 - SeenBatch
        /\ \A i \in 1 .. n + 1 - SeenBatch : more[i] = all[SeenBatch + i]
    <3>1. PICK m \in Nat \ {0}, l \in Nat : m = SeenBatch + 1 /\ l = n + 1 /\ m <= l /\ l <= Len(all)
      BY <2>1
    <3>2. more = SubSeq(all, m, l)
      BY <2>2, <3>1
    <3>3. DOMAIN more = 1 .. l - m + 1 /\ \A i \in 1 .. l - m + 1 : more[i] = all[m + i - 1]
      BY <1>4, <3>1, <3>2
    <3>4. l - m + 1 = n + 1 - SeenBatch /\ \A i \in 1 .. n + 1 - SeenBatch : m + i - 1 = SeenBatch + i
      BY <2>1, <3>1
    <3>5. QED  BY <3>3, <3>4
  <2>5. ToSet(more) \subseteq ToSet(all) /\ IsInjective(more)
    BY <1>7, <2>3, Thinned DEF InOrder
  <2>6. \A i \in 1 .. n + 1 - SeenBatch : SeenBatch + i \in 1 .. n + 1
    BY <2>1
  <2>7. InOrder(more)
    <3>1. \A i, j \in DOMAIN more : i < j => TradeTime[more[i]] <= TradeTime[more[j]]
      <4> SUFFICES ASSUME NEW i \in 1 .. n + 1 - SeenBatch, NEW j \in 1 .. n + 1 - SeenBatch, i < j
                   PROVE  TradeTime[more[i]] <= TradeTime[more[j]]
        BY <2>4
      <4>1. SeenBatch + i < SeenBatch + j
        BY <2>1
      <4>2. SeenBatch + i \in 1 .. n + 1 /\ SeenBatch + j \in 1 .. n + 1
        BY <2>6
      <4>3. more[i] = all[SeenBatch + i] /\ more[j] = all[SeenBatch + j]
        BY <2>4
      <4>4. QED  BY <1>4, <1>7, <4>1, <4>2, <4>3 DEF InOrder
    <3>2. QED  BY <1>7, <2>5, <3>1 DEF InOrder
  <2>8. \A i \in 1 .. n + 1 : ~(i <= SeenBatch) => all[i] \in ToSet(more)
    <3> SUFFICES ASSUME NEW i \in 1 .. n + 1, ~(i <= SeenBatch) PROVE all[i] \in ToSet(more)
      OBVIOUS
    <3>1. i - SeenBatch \in 1 .. n + 1 - SeenBatch /\ SeenBatch + (i - SeenBatch) = i
      BY <2>1
    <3>2. QED  BY <2>4, <3>1 DEF ToSet
  <2>9. t \in ToSet(more)
    BY <1>4, <1>6, <2>1, <2>8
  <2>10. ASSUME NEW u \in ToSet(order), u \notin ToSet(more) PROVE Old(u)
    <3>1. PICK i \in 1 .. n + 1 : all[i] = u
      BY <1>4, <1>6 DEF ToSet
    <3>2. i <= SeenBatch
      BY <2>8, <2>10, <3>1
    <3>3. u \in Printed
      BY DEF InOrder
    <3>4. QED  BY <1>4, <1>7, <2>1, <3>1, <3>2, <3>3, Ages
  <2>11. QED  BY <1>6, <1>9, <2>3, <2>5, <2>7, <2>9, <2>10 DEF Remembered
<1>13. QED  BY <1>11, <1>12

\* What the loop of onTrades carries from trade to trade.
Carried == [tracker |-> tracker, order |-> seenOrder, scoredOn |-> scoredOn, added |-> <<>>]
Carries(after, message, able) ==
    /\ after[0] = Carried
    /\ \A k \in 1 .. Len(message) : after[k] = TakesTrade(after[k - 1], message[k], able)

\* The loop over the message: by induction over its trades.
LEMMA ToldIs ==
    ASSUME NEW message \in Seq(Trade), NEW able
    PROVE  \E after : /\ Carries(after, message, able)
                      /\ Told(message, able) = after[Len(message)]
<1> DEFINE N == Len(message)
           Steps(g) == g = [k \in 0 .. N |->
                               IF k = 0 THEN Carried ELSE TakesTrade(g[k - 1], message[k], able)]
           Upto(g, n) ==
               /\ g[0] = Carried
               /\ \A k \in 1 .. n : g[k] = TakesTrade(g[k - 1], message[k], able)
           P == {n \in Nat : n <= N => \E g : DOMAIN g = 0 .. n /\ Upto(g, n)}
<1>1. N \in Nat /\ DOMAIN message = 1 .. N
  OBVIOUS
<1>2. 0 \in P
  <2>1. DOMAIN [k \in 0 .. 0 |-> Carried] = 0 .. 0 /\ Upto([k \in 0 .. 0 |-> Carried], 0)
    OBVIOUS
  <2>2. QED  BY <2>1
<1>3. ASSUME NEW n \in Nat, n \in P PROVE n + 1 \in P
  <2> SUFFICES ASSUME n + 1 <= N PROVE \E g : DOMAIN g = 0 .. n + 1 /\ Upto(g, n + 1)
    OBVIOUS
  <2>1. PICK g : DOMAIN g = 0 .. n /\ Upto(g, n)
    BY <1>1, <1>3
  <2> DEFINE h == [k \in 0 .. n + 1 |->
                      IF k <= n THEN g[k] ELSE TakesTrade(g[k - 1], message[k], able)]
  <2>2. h[0] = Carried
    BY <2>1
  <2>3. ASSUME NEW k \in 1 .. n + 1
        PROVE  h[k] = TakesTrade(h[k - 1], message[k], able)
    <3>1. k \in 0 .. n + 1 /\ k - 1 \in 0 .. n + 1 /\ k - 1 <= n
      OBVIOUS
    <3>2. h[k - 1] = g[k - 1]
      BY <3>1
    <3>3. CASE k <= n
      <4>1. k \in 1 .. n /\ h[k] = g[k]
        BY <3>1, <3>3
      <4>2. QED  BY <2>1, <3>2, <4>1
    <3>4. CASE ~(k <= n)
      <4>1. h[k] = TakesTrade(g[k - 1], message[k], able)
        BY <3>1, <3>4
      <4>2. QED  BY <3>2, <4>1
    <3>5. QED  BY <3>3, <3>4
  <2>4. DOMAIN h = 0 .. n + 1
    OBVIOUS
  <2> HIDE DEF h
  <2>5. Upto(h, n + 1)
    BY <2>2, <2>3
  <2>6. QED  BY <2>4, <2>5
<1>4. PICK g : DOMAIN g = 0 .. N /\ Upto(g, N)
  <2> HIDE DEF P, Upto
  <2>1. \A n \in Nat : n \in P
    BY <1>2, <1>3, NatSetInduction
  <2>2. N \in P
    BY <1>1, <2>1
  <2>3. QED  BY <1>1, <2>2 DEF P
<1>5. \E h : Steps(h)
  <2> DEFINE h == [k \in 0 .. N |-> g[k]]
  <2>1. ASSUME NEW k \in 0 .. N
        PROVE  h[k] = IF k = 0 THEN Carried ELSE TakesTrade(h[k - 1], message[k], able)
    <3>1. CASE k = 0
      BY <1>4, <3>1
    <3>2. CASE k # 0
      <4>1. k \in 1 .. N /\ k - 1 \in 0 .. N /\ h[k] = g[k] /\ h[k - 1] = g[k - 1]
        BY <3>2
      <4>2. QED  BY <1>4, <3>2, <4>1
    <3>3. QED  BY <3>1, <3>2
  <2>2. h = [k \in 0 .. N |-> h[k]]
    OBVIOUS
  <2> HIDE DEF h
  <2>3. Steps(h)
    BY <2>1, <2>2
  <2>4. QED  BY <2>3
<1>6. PICK after : Steps(after) /\ Told(message, able) = after[N]
  <2> DEFINE after == CHOOSE h : Steps(h)
  <2>1. Told(message, able) = after[N]
    BY DEF Told, Carried
  <2>2. Steps(after)
    BY <1>5
  <2> HIDE DEF after, Steps
  <2>3. QED  BY <2>1, <2>2
<1>7. after[0] = Carried
  BY <1>1, <1>6
<1>8. ASSUME NEW k \in 1 .. N PROVE after[k] = TakesTrade(after[k - 1], message[k], able)
  <2>1. k \in 0 .. N /\ k # 0
    BY <1>1
  <2>2. QED  BY <1>6, <2>1
<1>9. Carries(after, message, able)
  BY <1>7, <1>8 DEF Carries
<1>10. QED  BY <1>6, <1>9

\* The fills once the trades S of the message have been taken, and what is remembered.
FillsGood(trk, added, S) ==
    /\ trk \in Tracker /\ trk.mids = tracker.mids /\ trk.dropped = tracker.dropped
    /\ added \in Seq(Fill)
    /\ ToSet(trk.pending) \cup Ids(trk.resolved) \subseteq Counted \cup S
    /\ Ids(added) \subseteq S \ Counted
    /\ IsInjective(trk.pending) /\ OneEach(trk.resolved) /\ OneEach(added)
    /\ ToSet(trk.pending) \cap Ids(trk.resolved) = {}
    /\ \A id \in ToSet(trk.pending) : Waits(id, tracker.mids)
    /\ \A i \in DOMAIN trk.resolved : Right(trk.resolved[i])
    /\ ToSet(tracker.pending) \subseteq ToSet(trk.pending)
    /\ \A i \in DOMAIN added : added[i].mid = NoMid => added[i].id \in ToSet(trk.pending)
OrderGood(order, S) ==
    /\ order \in Seq(Trade) /\ InOrder(order)
    /\ ToSet(order) \subseteq ToSet(seenOrder) \cup S
    /\ order = seenOrder \/ ToSet(seenOrder) \cap (trades \ S) = {}
    /\ \A t \in ToSet(seenOrder) \cup S : t \in ToSet(order) \/ Old(t)

\* A fill of a trade that was not counted.
LEMMA FillTaken ==
    ASSUME FeedType, Stretch(tracker.mids), NEW trk, NEW added, NEW S, FillsGood(trk, added, S),
           NEW id \in Trade, id \notin Counted, id \notin S, NEW r, r = Arrives(trk, id)
    PROVE  FillsGood(r.tracker,
                     IF r.outcome = "unavailable" THEN added ELSE <<Labelled(id, r.mid)>> \o added,
                     S \cup {id})
<1>1. Arrived(trk, id, r)
  BY ArrivesIs DEF FillsGood
<1>2. id \notin ToSet(trk.pending) /\ id \notin Ids(trk.resolved) /\ id \notin Ids(added)
  BY DEF FillsGood
<1>3. PICK one : one = <<Labelled(id, r.mid)>>
  OBVIOUS
<1>4. /\ one \in Seq(Fill) /\ DOMAIN one = {1} /\ one[1] = Labelled(id, r.mid)
      /\ one[1].id = id /\ one[1].mid = r.mid
  BY <1>1, <1>3 DEF Arrived, Labelled, Fill
<1>5. Ids(one) = {id} /\ OneEach(one)
  BY <1>4 DEF Ids, OneEach
<1>6. PICK more : more = one \o added
  OBVIOUS
<1>7. /\ more \in Seq(Fill) /\ Ids(more) = {id} \cup Ids(added) /\ OneEach(more)
      /\ \A i \in DOMAIN more : \/ more[i].id = id /\ more[i].mid = r.mid
                                \/ \E j \in DOMAIN added : more[i] = added[j]
  <2>1. added \in Seq(Fill) /\ OneEach(added)
    BY DEF FillsGood
  <2>2. /\ more \in Seq(Fill) /\ Ids(more) = Ids(one) \cup Ids(added)
        /\ OneEach(one) /\ OneEach(added) /\ Ids(one) \cap Ids(added) = {} => OneEach(more)
        /\ \A i \in DOMAIN more :
              (\E j \in DOMAIN one : more[i] = one[j]) \/ (\E j \in DOMAIN added : more[i] = added[j])
    <3>1. more \in Seq(Fill) /\ Joins(more, one, added)
      BY <1>4, <1>6, <2>1, Joined
    <3>2. QED  BY <3>1 DEF Joins
  <2>3. Ids(one) \cap Ids(added) = {}
    BY <1>2, <1>5
  <2>4. \A j \in DOMAIN one : one[j].id = id /\ one[j].mid = r.mid
    BY <1>4
  <2>5. QED  BY <1>5, <2>1, <2>2, <2>3, <2>4
<1>8. CASE r.outcome = "unavailable"
  <2>1. r.tracker = trk
    BY <1>1, <1>8 DEF Arrived
  <2>2. FillsGood(trk, added, S \cup {id})
    BY DEF FillsGood
  <2>3. QED  BY <1>8, <2>1, <2>2
<1>9. CASE r.outcome = "pending"
  <2>1. r.tracker \in Tracker /\ r.tracker.mids = trk.mids /\ r.tracker.dropped = trk.dropped
        /\ PendingNow(trk, id, r)
    BY <1>1, <1>9 DEF Arrived
  <2>2. FillsGood(r.tracker, more, S \cup {id})
    <3>1. PICK p, q : p = r.tracker.pending /\ q = r.tracker.resolved
      OBVIOUS
    <3>2. ToSet(p) = ToSet(trk.pending) \cup {id} /\ IsInjective(p) /\ q = trk.resolved
      BY <1>2, <2>1, <3>1 DEF PendingNow, FillsGood
    <3>3. \A t \in ToSet(p) : Waits(t, tracker.mids)
      BY <2>1, <3>2 DEF FillsGood, PendingNow
    <3>4. ToSet(p) \cap Ids(q) = {} /\ ToSet(p) \cup Ids(q) \subseteq Counted \cup (S \cup {id})
      BY <1>2, <3>2 DEF FillsGood
    <3>5. \A i \in DOMAIN more : more[i].mid = NoMid => more[i].id \in ToSet(p)
      BY <1>7, <3>2 DEF FillsGood
    <3>6. Ids(more) \subseteq (S \cup {id}) \ Counted
      BY <1>7 DEF FillsGood
    <3>7. OneEach(q) /\ (\A i \in DOMAIN q : Right(q[i])) /\ ToSet(tracker.pending) \subseteq ToSet(p)
      BY <3>2 DEF FillsGood
    <3>8. trk.mids = tracker.mids /\ trk.dropped = tracker.dropped
      BY DEF FillsGood
    <3>9. QED  BY <1>7, <2>1, <3>1, <3>2, <3>3, <3>4, <3>5, <3>6, <3>7, <3>8 DEF FillsGood
  <2>3. QED  BY <1>3, <1>6, <1>9, <2>2
<1>10. CASE r.outcome = "resolved"
  <2>1. r.tracker \in Tracker /\ r.tracker.mids = trk.mids /\ r.tracker.dropped = trk.dropped
        /\ ResolvedNow(trk, id, r)
    BY <1>1, <1>10 DEF Arrived
  <2>2. FillsGood(r.tracker, more, S \cup {id})
    <3>1. PICK p, q : p = r.tracker.pending /\ q = r.tracker.resolved
      OBVIOUS
    <3>2. p = trk.pending /\ Ids(q) = Ids(trk.resolved) \cup {id} /\ OneEach(q)
      BY <1>2, <2>1, <3>1 DEF ResolvedNow, FillsGood
    <3>3. \A i \in DOMAIN q : Right(q[i])
      <4>1. Right(Labelled(id, r.mid))
        BY <2>1 DEF ResolvedNow, FillsGood
      <4>2. \A i \in DOMAIN q : \/ q[i] = Labelled(id, r.mid)
                                \/ \E j \in DOMAIN trk.resolved : q[i] = trk.resolved[j]
        BY <2>1, <3>1 DEF ResolvedNow
      <4>3. QED  BY <4>1, <4>2 DEF FillsGood
    <3>4. ToSet(p) \cap Ids(q) = {} /\ ToSet(p) \cup Ids(q) \subseteq Counted \cup (S \cup {id})
      BY <1>2, <3>2 DEF FillsGood
    <3>5. \A i \in DOMAIN more : more[i].mid = NoMid => more[i].id \in ToSet(p)
      BY <1>7, <2>1, <3>2 DEF FillsGood, ResolvedNow
    <3>6. Ids(more) \subseteq (S \cup {id}) \ Counted
      BY <1>7 DEF FillsGood
    <3>7. /\ IsInjective(p) /\ (\A t \in ToSet(p) : Waits(t, tracker.mids))
          /\ ToSet(tracker.pending) \subseteq ToSet(p)
      BY <3>2 DEF FillsGood
    <3>8. trk.mids = tracker.mids /\ trk.dropped = tracker.dropped
      BY DEF FillsGood
    <3>9. QED  BY <1>7, <2>1, <3>1, <3>2, <3>3, <3>4, <3>5, <3>6, <3>7, <3>8 DEF FillsGood
  <2>3. QED  BY <1>3, <1>6, <1>10, <2>2
<1>11. QED  BY <1>1, <1>8, <1>9, <1>10 DEF Arrived

\* Looking up the next trade of the message.
LEMMA OrderTaken ==
    ASSUME FeedType, SeenInv, NEW order, NEW S, OrderGood(order, S), S \subseteq trades,
           NEW t \in trades \ S, \A u \in S : TradeTime[u] <= TradeTime[t],
           \A u \in trades \ S : TradeTime[t] <= TradeTime[u],
           t \notin ToSet(order)
    PROVE  /\ t \notin ToSet(seenOrder) /\ t \notin Counted
           /\ OrderGood(Remembers(order, t), S \cup {t})
<1>1. t \notin ToSet(seenOrder)
  BY DEF OrderGood
<1>2. t \notin Counted /\ \A u \in ToSet(seenOrder) : TradeTime[u] < TradeTime[t]
  BY <1>1 DEF SeenInv, News
<1>3. t \in Printed /\ trades \subseteq Trade /\ ToSet(seenOrder) \subseteq Trade
  BY Entries DEF FeedType, Printed
<1>4. \A u \in Trade : TradeTime[u] \in Nat
  BY TrackerAssumption
<1>5. \A u \in ToSet(order) : TradeTime[u] <= TradeTime[t]
  BY <1>2, <1>3, <1>4 DEF OrderGood
<1>6. Remembered(order, t, Remembers(order, t))
  BY <1>3, <1>5, RemembersIs DEF OrderGood
<1>7. PICK more : more = Remembers(order, t)
  OBVIOUS
<1>8. /\ more \in Seq(Trade) /\ InOrder(more)
      /\ ToSet(more) \subseteq ToSet(order) \cup {t} /\ t \in ToSet(more)
      /\ \A u \in ToSet(order) : u \in ToSet(more) \/ Old(u)
  BY <1>6, <1>7 DEF Remembered
<1>9. ToSet(seenOrder) \cap (trades \ (S \cup {t})) = {}
  <2> SUFFICES ASSUME NEW u \in ToSet(seenOrder), u \in trades \ S PROVE FALSE
    OBVIOUS
  <2>1. TradeTime[u] < TradeTime[t] /\ TradeTime[t] <= TradeTime[u]
    BY <1>2
  <2>2. QED  BY <1>3, <1>4, <2>1
<1>10. \A u \in ToSet(seenOrder) \cup (S \cup {t}) : u \in ToSet(more) \/ Old(u)
  BY <1>8 DEF OrderGood
<1>11. ToSet(more) \subseteq ToSet(seenOrder) \cup (S \cup {t})
  BY <1>8 DEF OrderGood
<1>12. OrderGood(more, S \cup {t})
  BY <1>8, <1>9, <1>10, <1>11 DEF OrderGood
<1>13. QED  BY <1>1, <1>2, <1>7, <1>12

Whole(acc) == \E t, o, c, a : acc = [tracker |-> t, order |-> o, scoredOn |-> c, added |-> a]

\* What one trade makes of what the loop carries: nothing when it was seen, otherwise
\* it is remembered and, unless the books start too late for it, becomes a fill.
Taken(acc, id, next) ==
    \/ id \in ToSet(acc.order) /\ next = acc
    \/ /\ id \notin ToSet(acc.order) /\ next.order = Remembers(acc.order, id)
       /\ \/ next.tracker = acc.tracker /\ next.added = acc.added
          \/ \E r : /\ r = Arrives(acc.tracker, id)
                    /\ next.tracker = r.tracker
                    /\ next.added = IF r.outcome = "unavailable" THEN acc.added
                                    ELSE <<Labelled(id, r.mid)>> \o acc.added

\* The cases of the loop over one trade.
LEMMA TakesIs ==
    ASSUME NEW acc, Whole(acc), acc.order \in Seq(Trade), NEW id, NEW able
    PROVE  Whole(TakesTrade(acc, id, able)) /\ Taken(acc, id, TakesTrade(acc, id, able))
<1>1. PICK t, o, c, a : acc = [tracker |-> t, order |-> o, scoredOn |-> c, added |-> a]
  BY DEF Whole
<1>2. acc.tracker = t /\ acc.order = o /\ acc.scoredOn = c /\ acc.added = a
  BY <1>1
<1>3. PICK next : next = TakesTrade(acc, id, able)
  OBVIOUS
<1>4. Contains(acc.order, id) <=> id \in ToSet(acc.order)
  BY DEF Contains, ToSet
<1>5. CASE Contains(acc.order, id)
  <2>1. next = acc
    BY <1>3, <1>5 DEF TakesTrade
  <2>2. QED  BY <1>3, <1>4, <1>5, <2>1 DEF Taken
<1>6. PICK more : more = Remembers(o, id)
  OBVIOUS
<1>7. CASE ~Contains(acc.order, id) /\ coverageStart # NoMid /\ Due(id) < coverageStart
  <2>1. next = [acc EXCEPT !.order = more]
    BY <1>2, <1>3, <1>6, <1>7 DEF TakesTrade
  <2>2. next = [tracker |-> t, order |-> more, scoredOn |-> c, added |-> a]
    BY <1>1, <2>1
  <2>3. Whole(next)
    BY <2>2 DEF Whole
  <2>4. next.order = more /\ next.tracker = t /\ next.added = a
    BY <2>2
  <2>5. QED  BY <1>2, <1>3, <1>4, <1>6, <1>7, <2>3, <2>4 DEF Taken
<1>8. CASE ~Contains(acc.order, id) /\ ~(coverageStart # NoMid /\ Due(id) < coverageStart)
  <2>1. PICK r : r = Arrives(t, id)
    OBVIOUS
  <2>2. PICK d : d = [c EXCEPT ![id] = ScoreBook(id, able)]
    OBVIOUS
  <2>3. PICK b : b = IF r.outcome = "unavailable" THEN a ELSE <<Labelled(id, r.mid)>> \o a
    OBVIOUS
  <2>4. next = [acc EXCEPT !.order = more, !.tracker = r.tracker, !.scoredOn = d, !.added = b]
    BY <1>2, <1>3, <1>6, <1>8, <2>1, <2>2, <2>3 DEF TakesTrade
  <2>5. next = [tracker |-> r.tracker, order |-> more, scoredOn |-> d, added |-> b]
    BY <1>1, <2>4
  <2>6. Whole(next)
    BY <2>5 DEF Whole
  <2>7. next.order = more /\ next.tracker = r.tracker /\ next.added = b
    BY <2>5
  <2>8. QED  BY <1>2, <1>3, <1>4, <1>6, <1>8, <2>1, <2>3, <2>6, <2>7 DEF Taken
<1>9. QED  BY <1>5, <1>7, <1>8

LoopGood(acc, S) ==
    Whole(acc) /\ FillsGood(acc.tracker, acc.added, S) /\ OrderGood(acc.order, S)

\* Before the first trade.
LEMMA LoopStarts ==
    ASSUME FeedType, SeenInv, OnceInv, BooksInv, LabelInv
    PROVE  LoopGood(Carried, {})
<1>1. PICK none : none = <<>>
  OBVIOUS
<1>2. none \in Seq(Fill) /\ DOMAIN none = {}
  BY <1>1
<1>3. Ids(none) = {} /\ OneEach(none)
  BY <1>2 DEF Ids, OneEach
<1>4. Carried.tracker = tracker /\ Carried.order = seenOrder /\ Carried.added = none /\ Whole(Carried)
  BY <1>1 DEF Carried, Whole
<1>5. FillsGood(tracker, none, {})
  BY <1>2, <1>3 DEF FillsGood, FeedType, OnceInv, LabelInv, Counted
<1>6. OrderGood(seenOrder, {})
  BY DEF OrderGood, FeedType, SeenInv
<1>7. QED  BY <1>4, <1>5, <1>6 DEF LoopGood

\* From trade to trade.
LEMMA LoopStep ==
    ASSUME FeedType, SeenInv, BooksInv, NEW acc, NEW S, LoopGood(acc, S), S \subseteq trades,
           NEW t \in trades \ S, \A u \in S : TradeTime[u] <= TradeTime[t],
           \A u \in trades \ S : TradeTime[t] <= TradeTime[u], NEW able
    PROVE  LoopGood(TakesTrade(acc, t, able), S \cup {t})
<1>1. PICK next : next = TakesTrade(acc, t, able)
  OBVIOUS
<1>2. Whole(next) /\ Taken(acc, t, next)
  BY <1>1, TakesIs DEF LoopGood, OrderGood
<1>3. FillsGood(acc.tracker, acc.added, S) /\ OrderGood(acc.order, S) /\ t \in Trade
  BY DEF LoopGood, FeedType, Printed
<1>4. CASE t \in ToSet(acc.order) /\ next = acc
  <2>1. FillsGood(acc.tracker, acc.added, S \cup {t})
    BY <1>3 DEF FillsGood
  <2>2. OrderGood(acc.order, S \cup {t})
    BY <1>3, <1>4 DEF OrderGood
  <2>3. QED  BY <1>1, <1>2, <1>4, <2>1, <2>2 DEF LoopGood
<1>5. CASE t \notin ToSet(acc.order)
  <2>1. t \notin Counted /\ OrderGood(Remembers(acc.order, t), S \cup {t})
    BY <1>3, <1>5, OrderTaken
  <2>2. next.order = Remembers(acc.order, t)
    BY <1>2, <1>5 DEF Taken
  <2>3. FillsGood(next.tracker, next.added, S \cup {t})
    <3>1. CASE next.tracker = acc.tracker /\ next.added = acc.added
      BY <1>3, <3>1 DEF FillsGood
    <3>2. ASSUME NEW r, r = Arrives(acc.tracker, t), next.tracker = r.tracker,
                 next.added = IF r.outcome = "unavailable" THEN acc.added
                              ELSE <<Labelled(t, r.mid)>> \o acc.added
          PROVE  FillsGood(next.tracker, next.added, S \cup {t})
      <4>1. Stretch(tracker.mids)
        BY DEF BooksInv
      <4>2. PICK added : added = IF r.outcome = "unavailable" THEN acc.added
                                 ELSE <<Labelled(t, r.mid)>> \o acc.added
        OBVIOUS
      <4>3. FillsGood(r.tracker, added, S \cup {t})
        BY <1>3, <2>1, <3>2, <4>1, <4>2, FillTaken
      <4>4. QED  BY <3>2, <4>2, <4>3
    <3>3. QED  BY <1>2, <1>5, <3>1, <3>2 DEF Taken
  <2>4. QED  BY <1>1, <1>2, <2>1, <2>2, <2>3 DEF LoopGood
<1>6. QED  BY <1>2, <1>4, <1>5 DEF Taken

\* The trades of the message that are taken first.
Firsts(message, k) == {message[i] : i \in 1 .. k}

\* The next one is a trade the socket still carries, between them and the others in time.
Follows(t, S) ==
    /\ S \subseteq trades /\ t \in trades \ S
    /\ \A u \in S : TradeTime[u] <= TradeTime[t]
    /\ \A u \in trades \ S : TradeTime[t] <= TradeTime[u]

\* The next trade of a message follows those taken first.
LEMMA NextTrade ==
    ASSUME FeedType, NEW message, Oldest(message), NEW k \in Nat, k + 1 <= Len(message)
    PROVE  /\ Firsts(message, k + 1) = Firsts(message, k) \cup {message[k + 1]}
           /\ Follows(message[k + 1], Firsts(message, k))
<1>1. PICK N \in Nat : N = Len(message) /\ DOMAIN message = 1 .. N /\ message \in Seq(Trade)
  BY DEF Oldest
<1>2. k + 1 \in 1 .. N /\ \A i \in 1 .. k : i \in 1 .. N /\ i < k + 1
  BY <1>1
<1>3. PICK t, S : t = message[k + 1] /\ S = Firsts(message, k)
  OBVIOUS
<1>4. S = {message[i] : i \in 1 .. k}
  BY <1>3 DEF Firsts
<1>5. Firsts(message, k + 1) = S \cup {t}
  <2>1. \A i \in 1 .. k + 1 : i \in 1 .. k \/ i = k + 1
    OBVIOUS
  <2>2. (\A i \in 1 .. k : i \in 1 .. k + 1) /\ k + 1 \in 1 .. k + 1
    OBVIOUS
  <2>3. QED  BY <1>3, <1>4, <2>1, <2>2 DEF Firsts
<1>6. S \subseteq trades
  BY <1>1, <1>2, <1>4 DEF Oldest, ToSet
<1>7. t \in trades /\ t \notin S
  <2>1. t \in trades
    BY <1>1, <1>2, <1>3 DEF Oldest, ToSet
  <2>2. ASSUME NEW i \in 1 .. k, message[i] = t PROVE FALSE
    BY <1>1, <1>2, <1>3, <2>2 DEF Oldest, IsInjective
  <2>3. QED  BY <1>4, <2>1, <2>2
<1>8. \A u \in S : TradeTime[u] <= TradeTime[t]
  BY <1>1, <1>2, <1>3, <1>4 DEF Oldest
<1>9. ASSUME NEW u \in trades, u \notin S PROVE TradeTime[t] <= TradeTime[u]
  <2>1. u \in Trade /\ t \in Trade /\ TradeTime[u] \in Nat /\ TradeTime[t] \in Nat
    BY <1>7, TrackerAssumption DEF FeedType, Printed
  <2>2. CASE u \notin ToSet(message)
    <3>1. t \in ToSet(message)
      BY <1>1, <1>2, <1>3 DEF ToSet
    <3>2. TradeTime[t] < TradeTime[u]
      BY <2>2, <3>1 DEF Oldest
    <3>3. QED  BY <2>1, <3>2
  <2>3. CASE u \in ToSet(message)
    <3>1. PICK j \in 1 .. N : message[j] = u
      BY <1>1, <2>3 DEF ToSet
    <3>2. j \notin 1 .. k
      BY <1>4, <1>9, <3>1
    <3>3. j = k + 1 \/ k + 1 < j
      BY <1>1, <3>2
    <3>4. CASE j = k + 1
      BY <1>3, <2>1, <3>1, <3>4
    <3>5. CASE k + 1 < j
      BY <1>1, <1>2, <1>3, <3>1, <3>5 DEF Oldest
    <3>6. QED  BY <3>3, <3>4, <3>5
  <2>4. QED  BY <2>2, <2>3
<1>10. QED  BY <1>3, <1>5, <1>6, <1>7, <1>8, <1>9 DEF Follows

\* In the middle of the message: by induction over its trades.
LEMMA TradesInTurn ==
    ASSUME FeedType, SeenInv, OnceInv, BooksInv, LabelInv, NEW message, Oldest(message),
           NEW able, NEW after, Carries(after, message, able)
    PROVE  \A k \in Nat : k <= Len(message) => LoopGood(after[k], Firsts(message, k))
<1>1. Len(message) \in Nat
  BY DEF Oldest
<1> DEFINE P == {k \in Nat : k <= Len(message) => LoopGood(after[k], Firsts(message, k))}
<1>2. 0 \in P
  <2>1. Firsts(message, 0) = {}
    BY DEF Firsts
  <2>2. QED  BY <2>1, LoopStarts DEF Carries
<1>3. ASSUME NEW k \in Nat, k \in P PROVE k + 1 \in P
  <2> SUFFICES ASSUME k + 1 <= Len(message) PROVE LoopGood(after[k + 1], Firsts(message, k + 1))
    OBVIOUS
  <2>1. k + 1 \in 1 .. Len(message) /\ (k + 1) - 1 = k /\ k <= Len(message)
    BY <1>1
  <2>2. PICK t, S : t = message[k + 1] /\ S = Firsts(message, k)
    OBVIOUS
  <2>3. Firsts(message, k + 1) = S \cup {t} /\ Follows(t, S)
    BY <2>2, NextTrade
  <2>4. after[k + 1] = TakesTrade(after[k], t, able)
    BY <2>1, <2>2 DEF Carries
  <2>5. LoopGood(after[k], S)
    BY <1>3, <2>1, <2>2
  <2>6. LoopGood(TakesTrade(after[k], t, able), S \cup {t})
    BY <2>3, <2>5, LoopStep DEF Follows
  <2>7. QED  BY <2>3, <2>4, <2>6
<1>4. \A k \in Nat : k \in P
  <2> HIDE DEF P
  <2>1. QED  BY <1>2, <1>3, NatSetInduction
<1>5. QED  BY <1>4

\* All of it.
LEMMA FirstsAreAll ==
    ASSUME NEW message \in Seq(Trade)
    PROVE  Firsts(message, Len(message)) = ToSet(message)
  BY DEF Firsts, ToSet

\* After the last trade.
LEMMA TradesTaken ==
    ASSUME FeedType, SeenInv, OnceInv, BooksInv, LabelInv,
           NEW message, Oldest(message), NEW able
    PROVE  LoopGood(Told(message, able), ToSet(message))
<1>1. message \in Seq(Trade) /\ Len(message) \in Nat
  BY DEF Oldest
<1>2. PICK after : Carries(after, message, able) /\ Told(message, able) = after[Len(message)]
  BY <1>1, ToldIs
<1>3. LoopGood(after[Len(message)], Firsts(message, Len(message)))
  BY <1>1, <1>2, TradesInTurn
<1>4. QED  BY <1>1, <1>2, <1>3, FirstsAreAll

-----------------------------------------------------------------------------
(* What the steps leave alone. *)

\* When no time passes, what is printed and what is old stay.
LEMMA VenueKept ==
    ASSUME now' = now
    PROVE  Printed' = Printed /\ \A t : Since(t)' = Since(t) /\ (Old(t)' <=> Old(t))
  BY DEF Printed, Since, Old

\* The memory stays right when counted and carried trades only get fewer.
LEMMA SeenKept ==
    ASSUME SeenInv, now' = now, seenOrder' = seenOrder, Counted' \subseteq Counted,
           trades' \subseteq trades,
           conn' = "open" /\ ~stalled' => conn = "open" /\ ~stalled /\ trades' = trades
    PROVE  SeenInv'
<1>1. Printed' = Printed /\ \A t : Old(t)' <=> Old(t)
  BY VenueKept
<1>2. InOrder(seenOrder)'
  BY <1>1 DEF SeenInv, InOrder
<1>3. \A t : News(t, seenOrder)' <=> News(t, seenOrder)
  BY DEF News
<1>4. \A t \in Counted' : t \in Printed' /\ (t \in ToSet(seenOrder') \/ Old(t)')
  BY <1>1 DEF SeenInv
<1>5. \A t \in trades' : t \in ToSet(seenOrder') \/ (t \notin Counted' /\ News(t, seenOrder)')
  BY <1>3 DEF SeenInv
<1>6. \A t \in Printed' : t \in ToSet(seenOrder') \/ Old(t)' \/ News(t, seenOrder)'
  BY <1>1, <1>3 DEF SeenInv
<1>7. conn' = "open" /\ ~stalled'
            => \A t \in Printed' : t \in ToSet(seenOrder') \/ Old(t)' \/ t \in trades'
  BY <1>1 DEF SeenInv
<1>8. QED  BY <1>2, <1>4, <1>5, <1>6, <1>7 DEF SeenInv

\* The mids and the books stay right when at most the books sent are lost.
LEMMA BooksKept ==
    ASSUME BooksInv, printed' = printed, tracker'.mids = tracker.mids,
           coverageStart' = coverageStart, hasBook' = hasBook, books' = books \/ books' = <<>>,
           conn' = "open" => conn = "open",
           conn' = "open" /\ ~stalled' => ~stalled /\ books' = books
    PROVE  BooksInv'
<1>1. Increases(books') /\ ToSet(books') \subseteq printed
      /\ \A b \in ToSet(books') : b \in ToSet(books)
  <2>1. CASE books' = books
    BY <2>1 DEF BooksInv
  <2>2. CASE books' = <<>>
    <3>1. PICK none : none = <<>> /\ DOMAIN none = {}
      OBVIOUS
    <3>2. QED  BY <2>2, <3>1 DEF Increases, ToSet
  <2>3. QED  BY <2>1, <2>2
<1>2. Stretch(tracker.mids)'
  BY DEF BooksInv, Stretch, Increases
<1>3. (Increases(books))' <=> Increases(books')
  BY DEF Increases
<1>4. QED  BY <1>1, <1>2, <1>3 DEF BooksInv

\* Some of the fills and labels, the same mids.
LEMMA LabelKept ==
    ASSUME LabelInv, printed' = printed, tracker'.mids = tracker.mids,
           ToSet(tracker'.pending) \subseteq ToSet(tracker.pending),
           \A i \in DOMAIN tracker'.resolved : \E j \in DOMAIN tracker.resolved :
              tracker'.resolved[i] = tracker.resolved[j]
    PROVE  LabelInv'
  BY DEF LabelInv, Right, Waits, Due

FeedVars ==
    <<now, printed, conn, stalled, books, trades, coverageStart, tracker, tape, seenOrder, hasBook>>

\* Nothing of the invariant changes.
LEMMA FeedKept ==
    ASSUME FeedInv, UNCHANGED FeedVars
    PROVE  FeedInv'
<1> USE DEF FeedInv, FeedVars
<1>1. Printed' = Printed
  BY VenueKept
<1>2. FeedType'
  BY <1>1 DEF FeedType
<1>3. SocketInv'
  BY <1>1 DEF SocketInv
<1>4. Counted' = Counted
  BY DEF Counted
<1>5. SeenInv'
  BY <1>4, SeenKept
<1>6. OnceInv' /\ NoOrphanOnTape'
  BY DEF OnceInv, NoOrphanOnTape
<1>7. BooksInv'
  BY BooksKept
<1>8. LabelInv'
  BY LabelKept
<1>9. QED  BY <1>2, <1>3, <1>5, <1>6, <1>7, <1>8

\* What is sent on the socket is lost with it; the windows stay.
LEMMA SocketLost ==
    ASSUME FeedInv, UNCHANGED <<venue, windows>>, books' = <<>>, trades' = {}, stalled' \in BOOLEAN,
           (conn' # "open" /\ ~stalled') \/ (conn' = "open" /\ conn = "open" /\ stalled')
    PROVE  FeedInv'
<1> USE DEF FeedInv, venue, windows
<1>1. Printed' = Printed
  BY VenueKept
<1>2. FeedType'
  BY <1>1 DEF FeedType
<1>3. SocketInv'
  BY DEF SocketInv
<1>4. Counted' = Counted
  BY DEF Counted
<1>5. SeenInv'
  BY <1>4, SeenKept
<1>6. OnceInv' /\ NoOrphanOnTape'
  BY DEF OnceInv, NoOrphanOnTape
<1>7. BooksInv'
  BY BooksKept
<1>8. LabelInv'
  BY LabelKept
<1>9. QED  BY <1>2, <1>3, <1>5, <1>6, <1>7, <1>8

\* The timer of a new connection.
LEMMA ReconnectKeeps == FeedInv /\ Reconnect => FeedInv'
<1> SUFFICES ASSUME FeedInv, Reconnect PROVE FeedInv'
  OBVIOUS
<1>1. books = <<>> /\ trades = {} /\ ~stalled
  BY DEF FeedInv, SocketInv, Reconnect
<1>2. stalled' \in BOOLEAN
  BY DEF FeedInv, FeedType, Reconnect
<1>3. UNCHANGED <<venue, windows>> /\ conn' = "connecting" /\ books' = <<>> /\ trades' = {} /\ ~stalled'
  BY <1>1 DEF Reconnect
<1>4. conn' # "open" /\ ~stalled'
  BY <1>3
<1>5. QED  BY <1>2, <1>3, <1>4, SocketLost

\* The socket stalls or breaks.
LEMMA LossesKeep == FeedInv /\ (Stall \/ Breaks \/ Closes) => FeedInv'
<1> SUFFICES ASSUME FeedInv, Stall \/ Breaks \/ Closes PROVE FeedInv'
  OBVIOUS
<1>1. CASE Stall
  BY <1>1, SocketLost DEF Stall
<1>2. CASE OnClose
  <2>1. UNCHANGED <<venue, windows>> /\ books' = <<>> /\ trades' = {}
    BY <1>2 DEF OnClose
  <2>2. stalled' \in BOOLEAN /\ conn' # "open" /\ ~stalled'
    BY <1>2 DEF OnClose
  <2>3. QED  BY <2>1, <2>2, SocketLost
<1>3. QED  BY <1>1, <1>2 DEF Breaks, Closes

\* The flags of the watchdog.
LEMMA AgesKeep == FeedInv /\ (Pong \/ BookAges \/ PingAges) => FeedInv'
<1> SUFFICES ASSUME FeedInv, Pong \/ BookAges \/ PingAges PROVE FeedInv'
  OBVIOUS
<1>1. UNCHANGED FeedVars
  BY DEF Pong, BookAges, PingAges, FeedVars, venue, windows
<1>2. QED  BY <1>1, FeedKept

\* The same tracker, but for labelled fills that have left the window.
Slimmer(s, t) ==
    /\ s \in Tracker /\ s.pending = t.pending /\ s.mids = t.mids /\ s.dropped = t.dropped
    /\ Thins(s.resolved, t.resolved)

\* Refreshing the statistics does no more than that.
LEMMA StatsSlims ==
    ASSUME FeedType, NEW trk \in Tracker, NEW ids
    PROVE  /\ Slimmer(trk, trk) /\ Slimmer(Stats(trk), trk)
           /\ Slimmer(Forgets(trk, ids), trk)
           /\ \A s \in Refreshed(trk) : Slimmer(s, trk)
<1>1. now - WindowMs \in Int
  BY TrackerAssumption DEF FeedType
<1>2. Slimmer(Stats(trk), trk)
  BY <1>1, TrimIs DEF Stats, Slimmer
<1>3. Slimmer(trk, trk)
  BY ThinsItself DEF Slimmer
<1>4. QED  BY <1>2, <1>3 DEF Forgets, Refreshed

\* The interval: the statistics are refreshed and the socket may be given up.
LEMMA EverySecondKeeps == FeedInv /\ EverySecond => FeedInv'
<1> SUFFICES ASSUME FeedInv, EverySecond PROVE FeedInv'
  OBVIOUS
<1> USE DEF FeedInv
<1>1. /\ UNCHANGED <<now, printed, stalled, books, trades, coverageStart, hasBook, tape, seenOrder>>
      /\ tracker' = Stats(tracker)
      /\ conn' = conn \/ (conn = "open" /\ conn' = "closing")
  BY DEF EverySecond, venue
<1>2. Slimmer(tracker', tracker)
  BY <1>1, StatsSlims DEF FeedType
<1>3. /\ tracker' \in Tracker /\ tracker'.pending = tracker.pending /\ tracker'.mids = tracker.mids
      /\ Thins(tracker'.resolved, tracker.resolved)
  BY <1>2 DEF Slimmer
<1>4. /\ Ids(tracker'.resolved) \subseteq Ids(tracker.resolved)
      /\ \A i \in DOMAIN tracker'.resolved : \E j \in DOMAIN tracker.resolved :
            tracker'.resolved[i] = tracker.resolved[j]
      /\ OneEach(tracker.resolved) => OneEach(tracker'.resolved)
  BY <1>3, Thinned
<1>5. Printed' = Printed
  BY <1>1, VenueKept
<1>6. FeedType'
  BY <1>1, <1>3, <1>5 DEF FeedType
<1>7. SocketInv'
  BY <1>1, <1>5 DEF SocketInv
<1>8. SeenInv'
  <2>1. Counted' \subseteq Counted
    BY <1>1, <1>3, <1>4 DEF Counted
  <2>2. conn' = "open" /\ ~stalled' => conn = "open" /\ ~stalled /\ trades' = trades
    BY <1>1
  <2>3. QED  BY <1>1, <2>1, <2>2, SeenKept
<1>9. OnceInv'
  BY <1>1, <1>3, <1>4 DEF OnceInv
<1>10. NoOrphanOnTape'
  BY <1>1, <1>3 DEF NoOrphanOnTape
<1>11. BooksInv'
  BY <1>1, <1>3, BooksKept
<1>12. LabelInv'
  BY <1>1, <1>3, <1>4, LabelKept
<1>13. QED  BY <1>6, <1>7, <1>8, <1>9, <1>10, <1>11, <1>12

\* More trades do not make an old one recent.
LEMMA OldStaysOld ==
    ASSUME FeedType, now' = now + 1, NEW t
    PROVE  Old(t) => Old(t)'
<1>1. PICK S, R : S = Since(t) /\ R = Since(t)'
  OBVIOUS
<1>2. S \subseteq R /\ R \subseteq Trade
  <2>1. Printed \subseteq Printed' /\ Printed' \subseteq Trade
    BY TrackerAssumption DEF Printed, FeedType
  <2>2. QED  BY <1>1, <2>1 DEF Since
<1>3. IsFiniteSet(R) /\ IsFiniteSet(S) /\ Cardinality(S) \in Nat /\ Cardinality(R) \in Nat
  BY <1>2, TrackerAssumption, FS_Subset, FS_CardinalityType
<1>4. Cardinality(S) <= Cardinality(R)
  BY <1>2, <1>3, FS_Subset
<1>5. Cardinality(S) > Replayed => Cardinality(R) > Replayed
  BY <1>3, <1>4, FeedAssumption
<1>6. QED  BY <1>1, <1>5 DEF Old

\* Time passes: the trades printed are news, and the book is later than every mid heard.
LEMMA AdvanceKeeps == FeedInv /\ (\E prints \in BOOLEAN : Advance(prints)) => FeedInv'
<1> SUFFICES ASSUME FeedInv, NEW prints \in BOOLEAN, Advance(prints) PROVE FeedInv'
  OBVIOUS
<1> USE DEF FeedInv
<1> DEFINE new == {t \in Trade : TradeTime[t] = now + 1}
           live == conn = "open" /\ ~stalled
<1>1. /\ now' = now + 1 /\ now \in Nat
      /\ UNCHANGED <<conn, stalled, coverageStart, hasBook, tracker, tape, seenOrder>>
      /\ printed' = printed \/ printed' = printed \cup {now + 1}
      /\ printed' = printed => books' = books
      /\ live => trades' = trades \cup new
      /\ ~live => trades' = trades /\ books' = books
      /\ live /\ printed' # printed => books' = Append(books, now + 1)
  BY DEF Advance, windows, FeedType
<1>2. Printed' = Printed \cup new /\ \A t \in Printed : t \in Trade /\ TradeTime[t] <= now
  BY <1>1, TrackerAssumption DEF Printed
<1>3. printed \subseteq Nat /\ (\A p \in printed : p <= now) /\ printed \subseteq printed'
      /\ \A p \in printed' : p \in printed \/ (p = now + 1 /\ printed' = printed \cup {now + 1})
  BY <1>1 DEF FeedType
<1>4. \A t \in Trade : Old(t) => Old(t)'
  BY <1>1, OldStaysOld
<1>5. \A t \in new : t \in Trade /\ TradeTime[t] = now + 1 /\ t \notin Printed
  BY <1>1, <1>2
<1> HIDE DEF new
<1>6. now' = now + 1 /\ now \in Nat
  BY <1>1
<1>7. /\ \A p \in printed : p \in Nat /\ p <= now
      /\ \A p \in printed' : p \in printed \/ p = now + 1
  BY <1>3
<1>8. books' \in Seq(Nat)
  <2>1. books \in Seq(Nat) /\ now + 1 \in Nat
    BY <1>6 DEF FeedType
  <2>2. Append(books, now + 1) \in Seq(Nat)
    BY <2>1
  <2>3. books' = books \/ books' = Append(books, now + 1)
    BY <1>1
  <2>4. QED  BY <2>1, <2>2, <2>3
<1>9. FeedType'
  <2>1. printed' \subseteq 0 .. now'
    BY <1>6, <1>3 DEF FeedType
  <2>2. trades' \subseteq Printed'
    BY <1>1, <1>2 DEF FeedType
  <2>3. QED  BY <1>1, <1>8, <2>1, <2>2 DEF FeedType
<1>10. SocketInv'
  <2>1. conn' \notin {"open", "closing"} \/ stalled' => books' = <<>> /\ trades' = {}
    BY <1>1 DEF SocketInv
  <2>2. ASSUME conn' = "open", NEW t \in trades', NEW u \in Printed', TradeTime[t] <= TradeTime[u]
        PROVE  u \in trades'
    <3>1. live
      BY <1>1, <2>1, <2>2
    <3>2. CASE u \in new
      BY <1>1, <3>1, <3>2
    <3>3. CASE u \in Printed
      <4>1. t \notin new
        BY <1>1, <1>2, <1>5, <2>2, <3>3, TrackerAssumption
      <4>2. t \in trades
        BY <1>1, <3>1, <4>1
      <4>3. u \in trades
        BY <2>2, <3>1, <3>3, <4>2 DEF SocketInv
      <4>4. QED  BY <1>1, <3>1, <4>3
    <3>4. QED  BY <1>2, <3>2, <3>3
  <2>3. stalled' => conn' \in {"open", "closing"}
    BY <1>1 DEF SocketInv
  <2>4. QED  BY <2>1, <2>2, <2>3 DEF SocketInv
<1>11. SeenInv'
  <2>1. InOrder(seenOrder)'
    BY <1>1, <1>2 DEF SeenInv, InOrder
  <2>2. Counted' = Counted /\ Counted \subseteq Printed /\ Printed \subseteq Trade
    BY <1>1, <1>2 DEF Counted, SeenInv
  <2>3. \A t \in Counted' : t \in Printed' /\ (t \in ToSet(seenOrder') \/ Old(t)')
    BY <1>1, <1>2, <1>4, <2>2 DEF SeenInv
  <2>4. ASSUME NEW t \in new PROVE News(t, seenOrder)'
    <3>1. \A u \in ToSet(seenOrder) : TradeTime[u] < TradeTime[t]
      <4> SUFFICES ASSUME NEW u \in ToSet(seenOrder) PROVE TradeTime[u] < TradeTime[t]
        OBVIOUS
      <4>1. u \in Printed
        BY DEF SeenInv, InOrder
      <4>2. u \in Trade /\ TradeTime[u] <= now /\ TradeTime[u] \in Nat /\ TradeTime[t] = now + 1
        BY <1>2, <1>5, <4>1, TrackerAssumption
      <4>3. QED  BY <1>1, <4>2
    <3>2. QED  BY <1>1, <3>1 DEF News
  <2>5. \A t : News(t, seenOrder)' <=> News(t, seenOrder)
    BY <1>1 DEF News
  <2>6. \A t \in trades' : t \in ToSet(seenOrder') \/ (t \notin Counted' /\ News(t, seenOrder)')
    <3> SUFFICES ASSUME NEW t \in trades'
                 PROVE  t \in ToSet(seenOrder') \/ (t \notin Counted' /\ News(t, seenOrder)')
      OBVIOUS
    <3>1. CASE t \in trades
      BY <1>1, <2>2, <2>5, <3>1 DEF SeenInv
    <3>2. CASE t \in new
      BY <1>5, <2>2, <2>4, <3>2
    <3>3. QED  BY <1>1, <3>1, <3>2
  <2>7. \A t \in Printed' : t \in ToSet(seenOrder') \/ Old(t)' \/ News(t, seenOrder)'
    <3> SUFFICES ASSUME NEW t \in Printed'
                 PROVE  t \in ToSet(seenOrder') \/ Old(t)' \/ News(t, seenOrder)'
      OBVIOUS
    <3>1. CASE t \in Printed
      BY <1>1, <1>4, <2>2, <2>5, <3>1 DEF SeenInv
    <3>2. CASE t \in new
      BY <2>4, <3>2
    <3>3. QED  BY <1>2, <3>1, <3>2
  <2>8. ASSUME conn' = "open", ~stalled', NEW t \in Printed'
        PROVE  t \in ToSet(seenOrder') \/ Old(t)' \/ t \in trades'
    <3>1. CASE t \in Printed
      BY <1>1, <1>4, <2>2, <2>8, <3>1 DEF SeenInv
    <3>2. CASE t \in new
      BY <1>1, <2>8, <3>2
    <3>3. QED  BY <1>2, <3>1, <3>2
  <2>9. QED  BY <2>1, <2>3, <2>6, <2>7, <2>8 DEF SeenInv
<1>12. OnceInv' /\ NoOrphanOnTape'
  BY <1>1 DEF OnceInv, NoOrphanOnTape
<1>13. BooksInv'
  <2>1. Stretch(tracker.mids)'
    <3>1. tracker.mids # <<>> => Last(tracker.mids) \in printed
      BY Entries DEF FeedType, Tracker, BooksInv, Stretch
    <3>2. ASSUME NEW p \in printed', tracker.mids # <<>>, tracker.mids[1] <= p,
                 p <= Last(tracker.mids)
          PROVE  p \in ToSet(tracker.mids)
      <4>1. p \in printed
        BY <1>6, <1>7, <3>1, <3>2
      <4>2. QED  BY <3>2, <4>1 DEF BooksInv, Stretch
    <3>3. Increases(tracker.mids) /\ ToSet(tracker.mids) \subseteq printed'
      BY <1>3 DEF BooksInv, Stretch
    <3>4. QED  BY <1>1, <3>2, <3>3 DEF Stretch, Increases
  <2>2. CASE books' = books
    <3>1. Increases(books)' /\ ToSet(books') \subseteq printed'
      BY <1>3, <2>2 DEF BooksInv, Increases
    <3>2. live => printed' = printed
      <4>1. books \in Seq(Nat)
        BY DEF FeedType
      <4>2. books # Append(books, now + 1)
        BY <1>1, <4>1
      <4>3. QED  BY <1>1, <2>2, <4>2
    <3>3. QED  BY <1>1, <2>1, <2>2, <3>1, <3>2 DEF BooksInv
  <2>3. CASE books' # books
    <3>1. live /\ printed' = printed \cup {now + 1} /\ books' = Append(books, now + 1)
      BY <1>1, <2>3
    <3>2. PICK b : b = books'
      OBVIOUS
    <3>3. PICK n \in Nat : n = Len(books)
      BY DEF FeedType
    <3>4. /\ DOMAIN books = 1 .. n /\ DOMAIN b = 1 .. n + 1 /\ b[n + 1] = now + 1 /\ b # <<>>
          /\ (\A i \in 1 .. n : b[i] = books[i]) /\ Head(b) = b[1]
          /\ (books = <<>> <=> n = 0) /\ (books # <<>> => Head(books) = books[1])
      BY <1>1, <3>1, <3>2, <3>3 DEF FeedType
    <3>5. \A i \in 1 .. n + 1 : i \in 1 .. n \/ i = n + 1
      BY <3>3
    <3>6. \A i \in 1 .. n : books[i] \in printed /\ books[i] \in Nat /\ books[i] < now + 1
      <4>1. \A i \in 1 .. n : books[i] \in printed
        BY <3>4 DEF BooksInv, ToSet
      <4>2. QED  BY <1>6, <1>7, <4>1
    <3>7. Increases(b)
      <4> SUFFICES ASSUME NEW i \in 1 .. n + 1, NEW j \in 1 .. n + 1, i < j PROVE b[i] < b[j]
        BY <3>4 DEF Increases
      <4>1. i \in 1 .. n
        BY <3>3
      <4>2. QED  BY <3>4, <3>5, <3>6, <4>1 DEF BooksInv, Increases
    <3>8. ToSet(b) = ToSet(books) \cup {now + 1}
      <4>1. n + 1 \in 1 .. n + 1 /\ \A i \in 1 .. n : i \in 1 .. n + 1
        BY <3>3
      <4>2. QED  BY <3>4, <3>5, <4>1 DEF ToSet
    <3>9. ToSet(b) \subseteq printed'
      BY <3>1, <3>8 DEF BooksInv
    <3>10. ASSUME tracker.mids # <<>>
           PROVE  (\A x \in ToSet(b) : Last(tracker.mids) < x)
                  /\ \A p \in printed' : Last(tracker.mids) < p => p \in ToSet(b)
      <4>1. Last(tracker.mids) \in printed
        BY <3>10, Entries DEF FeedType, Tracker, BooksInv, Stretch
      <4>2. Last(tracker.mids) < now + 1
        BY <1>6, <1>7, <4>1
      <4>3. QED  BY <3>1, <3>8, <3>10, <4>2 DEF BooksInv
    <3>11. ASSUME NEW p \in printed', Head(b) < p PROVE p \in ToSet(b)
      <4>1. CASE p = now + 1
        BY <3>8, <4>1
      <4>2. CASE p \in printed /\ books # <<>>
        <5>1. 1 \in 1 .. n
          BY <3>3, <3>4, <4>2
        <5>2. Head(books) < p
          BY <3>4, <3>11, <4>2, <5>1
        <5>3. QED  BY <3>1, <3>8, <4>2, <5>2 DEF BooksInv
      <4>3. CASE p \in printed /\ books = <<>>
        <5>1. Head(b) = now + 1 /\ p <= now /\ p \in Nat
          BY <1>3, <3>4, <4>3
        <5>2. QED  BY <1>1, <3>11, <5>1
      <4>4. QED  BY <3>1, <4>1, <4>2, <4>3
    <3>12. Increases(books)'
      BY <3>2, <3>7 DEF Increases
    <3>13. QED  BY <1>1, <2>1, <3>1, <3>2, <3>9, <3>10, <3>11, <3>12 DEF BooksInv
  <2>4. QED  BY <2>2, <2>3
<1>14. LabelInv'
  <2>1. \A i \in DOMAIN tracker.resolved : Right(tracker.resolved[i])'
    <3> SUFFICES ASSUME NEW i \in DOMAIN tracker.resolved PROVE Right(tracker.resolved[i])'
      OBVIOUS
    <3>1. PICK fill : fill = tracker.resolved[i] /\ fill \in Fill
      BY DEF FeedType, Tracker
    <3>2. fill.mid \in printed /\ Due(fill.id) \in Int /\ Right(fill)
      BY <3>1, TrackerAssumption DEF LabelInv, Right, Fill, Due
    <3>3. \A p \in printed' : p >= Due(fill.id) => p >= fill.mid
      <4> SUFFICES ASSUME NEW p \in printed', p >= Due(fill.id) PROVE p >= fill.mid
        OBVIOUS
      <4>1. CASE p \in printed
        BY <3>2, <4>1 DEF Right
      <4>2. CASE p = now + 1
        BY <1>6, <1>7, <3>2, <4>2
      <4>3. QED  BY <1>3, <4>1, <4>2
    <3>4. QED  BY <1>1, <1>3, <3>1, <3>2, <3>3 DEF Right, Due
  <2>2. QED  BY <1>1, <2>1 DEF LabelInv, Waits, Due
<1>15. QED  BY <1>9, <1>10, <1>11, <1>12, <1>13, <1>14

\* To wait is to be an entry of the queue.
LEMMA WaitsInQueue ==
    ASSUME NEW trk \in Tracker
    PROVE  \A x : Contains(trk.pending, x) <=> x \in ToSet(trk.pending)
  BY DEF Contains, ToSet, Tracker

\* What forget leaves of the tape.
LEMMA WithoutIs ==
    ASSUME NEW entries \in Seq(Fill), NEW ids
    PROVE  /\ Without(entries, ids) \in Seq(Fill) /\ Thins(Without(entries, ids), entries)
           /\ \A i \in DOMAIN Without(entries, ids) : Without(entries, ids)[i].id \notin ids
<1>1. PICK S : S = {e \in ToSet(entries) : e.id \notin ids}
  OBVIOUS
<1>2. PICK left : left = Without(entries, ids)
  OBVIOUS
<1>3. left = Only(entries, S)
  BY <1>1, <1>2 DEF Without
<1>4. left \in Seq(Fill) /\ Thins(left, entries) /\ ToSet(left) = ToSet(entries) \cap S
  BY <1>3, OnlyFilters DEF Filters
<1>5. \A i \in DOMAIN left : left[i].id \notin ids
  BY <1>1, <1>4 DEF ToSet
<1>6. QED  BY <1>2, <1>4, <1>5

\* A gap: the fills that wait leave the queue and the tape.
LEMMA GapForgets ==
    ASSUME FeedInv, ResetAfterGap
    PROVE  /\ tracker' \in Tracker /\ tracker'.mids = <<>> /\ coverageStart' = NoMid
           /\ tape' \in Seq(Fill) /\ Thins(tape', tape)
           /\ ToSet(tracker'.pending) \subseteq ToSet(tracker.pending)
           /\ IsInjective(tracker'.pending) /\ Thins(tracker'.resolved, tracker.resolved)
           /\ \A i \in DOMAIN tape' : tape'[i].mid = NoMid => tape'[i].id \in ToSet(tracker'.pending)
           /\ hasBook' = hasBook /\ seenOrder' = seenOrder
<1> USE DEF FeedInv
<1>1. PICK none : none = <<>>
  OBVIOUS
<1>2. DOMAIN none = {} /\ none \in Seq(Trade) /\ none \in Seq(Nat)
  BY <1>1
<1>3. /\ tracker \in Tracker /\ tape \in Seq(Fill)
      /\ \A i \in DOMAIN tape : tape[i].mid = NoMid => tape[i].id \in ToSet(tracker.pending)
  <2>1. \A x : Contains(tracker.pending, x) => x \in ToSet(tracker.pending)
    BY WaitsInQueue DEF FeedType
  <2>2. QED  BY <2>1 DEF FeedType, NoOrphanOnTape
<1>4. CASE ~hasBook
  <2>1. tracker' = tracker /\ tape' = tape
    BY <1>4 DEF ResetAfterGap
  <2>2. tracker.mids = <<>>
    BY <1>4 DEF BooksInv
  <2>3. QED  BY <1>3, <2>1, <2>2, ThinsItself DEF ResetAfterGap, OnceInv
<1>5. CASE hasBook
  <2>1. PICK trk : trk = DropsAll(tracker)
    OBVIOUS
  <2>2. trk = [pending |-> none, mids |-> none, resolved |-> tracker.resolved, dropped |-> tracker.dropped]
    <3>1. PICK p, m, f, d : /\ tracker = [pending |-> p, mids |-> m, resolved |-> f, dropped |-> d]
                            /\ f = tracker.resolved /\ d = tracker.dropped
      BY <1>3 DEF Tracker
    <3>2. PICK k : k = [pending |-> p, mids |-> m, resolved |-> f, dropped |-> d]
      OBVIOUS
    <3>3. trk = [k EXCEPT !.pending = none, !.mids = none]
      BY <1>1, <2>1, <3>1, <3>2 DEF DropsAll
    <3>4. trk = [pending |-> none, mids |-> none, resolved |-> f, dropped |-> d]
      BY <3>2, <3>3
    <3>5. QED  BY <3>1, <3>4
  <2>3. trk \in Tracker /\ trk.pending = none /\ trk.mids = none /\ trk.resolved = tracker.resolved
    BY <1>2, <1>3, <2>2 DEF Tracker
  <2>4. PICK ids : ids = ToSet(tracker.pending)
    OBVIOUS
  <2>5. tracker' = Forgets(trk, ids) /\ tape' = Without(tape, ids)
    BY <1>5, <2>1, <2>4 DEF ResetAfterGap
  <2>6. Slimmer(tracker', trk)
    BY <2>3, <2>5, StatsSlims
  <2>7. tape' \in Seq(Fill) /\ Thins(tape', tape) /\ \A i \in DOMAIN tape' : tape'[i].id \notin ids
    BY <1>3, <2>5, WithoutIs
  <2>8. \A i \in DOMAIN tape' : tape'[i].mid # NoMid
    <3>1. \A i \in DOMAIN tape' : \E j \in DOMAIN tape : tape'[i] = tape[j]
      BY <2>7, Thinned
    <3>2. QED  BY <1>3, <2>4, <2>7, <3>1
  <2>9. ToSet(none) = {} /\ IsInjective(none)
    BY <1>2 DEF ToSet, IsInjective
  <2>10. /\ tracker' \in Tracker /\ tracker'.pending = none /\ tracker'.mids = none
         /\ Thins(tracker'.resolved, tracker.resolved)
    BY <2>3, <2>6 DEF Slimmer
  <2>11. QED  BY <1>1, <2>7, <2>8, <2>9, <2>10 DEF ResetAfterGap
<1>6. QED  BY <1>4, <1>5

\* A new connection: what the venue sends again is recent, and so remembered or news.
LEMMA OpenKeeps == FeedInv /\ Open => FeedInv'
<1> SUFFICES ASSUME FeedInv, Open PROVE FeedInv'
  OBVIOUS
<1> USE DEF FeedInv
<1>1. /\ conn' = "open" /\ ResetAfterGap /\ trades' = Recent /\ ~stalled /\ ~stalled'
      /\ books' = IF printed = {} THEN <<>> ELSE <<Max(printed)>>
      /\ now' = now /\ printed' = printed /\ stalled' = stalled
  BY DEF Open, SocketInv, venue
<1>2. /\ tracker' \in Tracker /\ tracker'.mids = <<>> /\ coverageStart' = NoMid
      /\ tape' \in Seq(Fill) /\ Thins(tape', tape)
      /\ ToSet(tracker'.pending) \subseteq ToSet(tracker.pending)
      /\ IsInjective(tracker'.pending) /\ Thins(tracker'.resolved, tracker.resolved)
      /\ \A i \in DOMAIN tape' : tape'[i].mid = NoMid => tape'[i].id \in ToSet(tracker'.pending)
      /\ hasBook' = hasBook /\ seenOrder' = seenOrder
  BY <1>1, GapForgets
<1>3. /\ Ids(tape') \subseteq Ids(tape) /\ (OneEach(tape) => OneEach(tape'))
      /\ Ids(tracker'.resolved) \subseteq Ids(tracker.resolved)
      /\ (OneEach(tracker.resolved) => OneEach(tracker'.resolved))
      /\ \A i \in DOMAIN tracker'.resolved : \E j \in DOMAIN tracker.resolved :
            tracker'.resolved[i] = tracker.resolved[j]
  BY <1>2, Thinned
<1>4. Printed' = Printed /\ \A t : Old(t)' <=> Old(t)
  BY <1>1, VenueKept
<1>5. books' = <<>> \/ \E p \in printed : p \in Nat /\ books' = <<p>> /\ \A q \in printed : q <= p
  <2>1. CASE printed = {}
    BY <1>1, <2>1
  <2>2. CASE printed # {}
    <3>1. Max(printed) \in printed /\ \A q \in printed : q <= Max(printed)
      BY <2>2, GreatestUpTo DEF FeedType
    <3>2. PICK p : p = Max(printed)
      OBVIOUS
    <3>3. p \in Nat
      <4>1. \A q \in printed : q \in Nat
        BY DEF FeedType
      <4>2. p \in printed
        BY <3>1, <3>2
      <4>3. QED  BY <4>1, <4>2
    <3>4. QED  BY <1>1, <2>2, <3>1, <3>2, <3>3
  <2>3. QED  BY <2>1, <2>2
<1>6. \A t \in Printed : Old(t) \/ t \in Recent
  <2> SUFFICES ASSUME NEW t \in Printed, ~Old(t) PROVE t \in Recent
    OBVIOUS
  <2>1. PICK S : S = Since(t)
    OBVIOUS
  <2>2. S \subseteq Trade
    BY <2>1 DEF Since, Printed
  <2>3. Cardinality(S) \in Nat
    BY <2>2, TrackerAssumption, FS_Subset, FS_CardinalityType
  <2>4. Cardinality(S) <= Replayed
    BY <2>1, <2>3, FeedAssumption DEF Old
  <2>5. QED  BY <2>1, <2>4 DEF Recent
<1>7. \A t \in Recent : t \in Printed /\ ~Old(t)
  <2> SUFFICES ASSUME NEW t \in Recent PROVE t \in Printed /\ ~Old(t)
    OBVIOUS
  <2>1. PICK S : S = Since(t)
    OBVIOUS
  <2>2. t \in Printed /\ Cardinality(S) <= Replayed /\ S \subseteq Trade
    BY <2>1 DEF Recent, Since, Printed
  <2>3. Cardinality(S) \in Nat
    BY <2>2, TrackerAssumption, FS_Subset, FS_CardinalityType
  <2>4. ~(Cardinality(S) > Replayed)
    BY <2>2, <2>3, FeedAssumption
  <2>5. QED  BY <2>1, <2>2, <2>4 DEF Old
<1>8. ASSUME NEW t \in Recent, NEW u \in Printed, TradeTime[t] <= TradeTime[u] PROVE u \in Recent
  <2>1. PICK S, R : S = Since(t) /\ R = Since(u)
    OBVIOUS
  <2>2. t \in Trade /\ u \in Trade /\ \A w \in Trade : TradeTime[w] \in Nat
    BY <1>7, TrackerAssumption DEF Printed
  <2>3. R \subseteq S
    <3> SUFFICES ASSUME NEW w \in R PROVE w \in S
      OBVIOUS
    <3>1. w \in Printed /\ w \in Trade /\ TradeTime[w] >= TradeTime[u]
      BY <2>1 DEF Since, Printed
    <3>2. TradeTime[w] >= TradeTime[t]
      BY <1>8, <2>2, <3>1
    <3>3. QED  BY <2>1, <3>1, <3>2 DEF Since
  <2>4. S \subseteq Trade /\ Cardinality(S) <= Replayed
    BY <2>1 DEF Recent, Since, Printed
  <2>5. IsFiniteSet(S) /\ IsFiniteSet(R) /\ Cardinality(S) \in Nat /\ Cardinality(R) \in Nat
    BY <2>3, <2>4, TrackerAssumption, FS_Subset, FS_CardinalityType
  <2>6. Cardinality(R) <= Cardinality(S)
    BY <2>3, <2>5, FS_Subset
  <2>7. Cardinality(R) <= Replayed
    BY <2>4, <2>5, <2>6, FeedAssumption
  <2>8. QED  BY <2>1, <2>7 DEF Recent
<1>9. FeedType'
  <2>1. books' \in Seq(Nat)
    <3>1. \A p \in Nat : <<p>> \in Seq(Nat)
      OBVIOUS
    <3>2. <<>> \in Seq(Nat)
      OBVIOUS
    <3>3. QED  BY <1>5, <3>1, <3>2
  <2>2. trades' \subseteq Printed'
    BY <1>1, <1>4, <1>7
  <2>3. QED  BY <1>1, <1>2, <2>1, <2>2 DEF FeedType
<1>10. SocketInv'
  BY <1>1, <1>4, <1>8 DEF SocketInv
<1>11. Counted' \subseteq Counted
  BY <1>2, <1>3 DEF Counted
<1>12. SeenInv'
  <2>1. InOrder(seenOrder)'
    BY <1>2, <1>4 DEF SeenInv, InOrder
  <2>2. \A t : News(t, seenOrder)' <=> News(t, seenOrder)
    BY <1>2 DEF News
  <2>3. \A t \in Counted' : t \in Printed' /\ (t \in ToSet(seenOrder') \/ Old(t)')
    BY <1>2, <1>4, <1>11 DEF SeenInv
  <2>4. \A t \in trades' : t \in ToSet(seenOrder') \/ (t \notin Counted' /\ News(t, seenOrder)')
    BY <1>1, <1>2, <1>7, <1>11, <2>2 DEF SeenInv
  <2>5. \A t \in Printed' : t \in ToSet(seenOrder') \/ Old(t)' \/ News(t, seenOrder)'
    BY <1>2, <1>4, <2>2 DEF SeenInv
  <2>6. \A t \in Printed' : t \in ToSet(seenOrder') \/ Old(t)' \/ t \in trades'
    BY <1>1, <1>4, <1>6
  <2>7. QED  BY <2>1, <2>3, <2>4, <2>5, <2>6 DEF SeenInv
<1>13. OnceInv'
  BY <1>2, <1>3 DEF OnceInv
<1>14. NoOrphanOnTape'
  <2>1. \A x : Contains(tracker'.pending, x) <=> x \in ToSet(tracker'.pending)
    BY <1>2, WaitsInQueue
  <2>2. QED  BY <1>2, <2>1 DEF NoOrphanOnTape, Contains
<1>15. BooksInv'
  <2>1. PICK none : none = <<>> /\ DOMAIN none = {}
    OBVIOUS
  <2>2. Stretch(tracker.mids)'
    BY <1>2, <2>1 DEF Stretch, Increases, ToSet
  <2>3. CASE books' = <<>>
    <3>1. Increases(books)' /\ ToSet(books') = {}
      BY <2>1, <2>3 DEF Increases, ToSet
    <3>2. printed = {}
      BY <1>1, <2>3
    <3>3. QED  BY <1>1, <1>2, <2>2, <2>3, <3>1, <3>2 DEF BooksInv
  <2>4. ASSUME NEW p \in printed, p \in Nat, books' = <<p>>, \A q \in printed : q <= p
        PROVE  BooksInv'
    <3>1. PICK b : b = books' /\ b = <<p>>
      BY <2>4
    <3>2. DOMAIN b = {1} /\ b[1] = p /\ Head(b) = p /\ b # <<>>
      BY <3>1
    <3>3. Increases(b) /\ ToSet(b) = {p}
      BY <3>2 DEF Increases, ToSet
    <3>4. \A q \in printed : ~(p < q)
      BY <2>4 DEF FeedType
    <3>5. Increases(books)'
      BY <3>1, <3>3 DEF Increases
    <3>6. QED  BY <1>1, <1>2, <2>2, <3>1, <3>2, <3>3, <3>4, <3>5 DEF BooksInv
  <2>5. QED  BY <1>5, <2>3, <2>4
<1>16. LabelInv'
  <2>1. \A id : Waits(id, tracker.mids)'
    BY <1>2 DEF Waits
  <2>2. \A i \in DOMAIN tracker'.resolved : Right(tracker.resolved[i])'
    <3> SUFFICES ASSUME NEW i \in DOMAIN tracker'.resolved PROVE Right(tracker.resolved[i])'
      OBVIOUS
    <3>1. PICK j \in DOMAIN tracker.resolved : tracker'.resolved[i] = tracker.resolved[j]
      BY <1>3
    <3>2. QED  BY <1>1, <3>1 DEF LabelInv, Right, Due
  <2>3. QED  BY <2>1, <2>2 DEF LabelInv
<1>17. QED  BY <1>9, <1>10, <1>12, <1>13, <1>14, <1>15, <1>16

\* The newest entries of the tape.
LEMMA TapeCut ==
    ASSUME NEW s \in Seq(Fill)
    PROVE  /\ SubSeq(s, 1, Min({TapeLimit, Len(s)})) \in Seq(Fill)
           /\ Thins(SubSeq(s, 1, Min({TapeLimit, Len(s)})), s)
<1>1. PICK S : S = {TapeLimit, Len(s)}
  OBVIOUS
<1>2. S # {} /\ S \subseteq Nat /\ Len(s) \in S
  BY <1>1, FeedAssumption
<1>3. Min(S) \in S /\ Min(S) <= Len(s)
  BY <1>2, LeastOfNats
<1>4. PICK n : n = Min(S) /\ n \in Nat /\ n <= Len(s)
  BY <1>2, <1>3
<1>5. SubSeq(s, 1, n) \in Seq(Fill) /\ Thins(SubSeq(s, 1, n), s)
  BY <1>4, SubSeqThins
<1>6. QED  BY <1>1, <1>4, <1>5

\* A message of trades: what it adds was not counted, and what was seen is passed over.
LEMMA HearTradesKeeps ==
    ASSUME FeedInv, NEW message \in Messages, NEW able, HearTrades(message, able)
    PROVE  FeedInv'
<1> USE DEF FeedInv
<1>1. PICK acc : acc = Told(message, able)
  OBVIOUS
<1>2. PICK S : S = ToSet(message)
  OBVIOUS
<1>3. /\ conn = "open" /\ trades' = trades \ S /\ seenOrder' = acc.order
      /\ tracker' \in IF acc.added = <<>> THEN {acc.tracker} ELSE Refreshed(acc.tracker)
      /\ tape' = SubSeq(acc.added \o tape, 1, Min({TapeLimit, Len(acc.added \o tape)}))
      /\ UNCHANGED <<now, printed, conn, stalled, books, coverageStart, hasBook>>
  BY <1>1, <1>2 DEF HearTrades, venue
<1>4. Oldest(message)
  BY MessageIs
<1>5. S \subseteq trades /\ \A t \in S, u \in trades \ S : TradeTime[t] < TradeTime[u]
  BY <1>2, <1>4 DEF Oldest
<1>6. ~stalled
  <2>1. trades # {}
    BY DEF Messages
  <2>2. QED  BY <2>1 DEF SocketInv
<1>7. FillsGood(acc.tracker, acc.added, S) /\ OrderGood(acc.order, S)
  BY <1>1, <1>2, <1>4, TradesTaken DEF LoopGood
<1>8. /\ acc.tracker \in Tracker /\ acc.tracker.mids = tracker.mids /\ acc.added \in Seq(Fill)
      /\ ToSet(acc.tracker.pending) \cup Ids(acc.tracker.resolved) \subseteq Counted \cup S
      /\ Ids(acc.added) \subseteq S \ Counted
      /\ IsInjective(acc.tracker.pending) /\ OneEach(acc.tracker.resolved) /\ OneEach(acc.added)
      /\ ToSet(acc.tracker.pending) \cap Ids(acc.tracker.resolved) = {}
      /\ \A id \in ToSet(acc.tracker.pending) : Waits(id, tracker.mids)
      /\ \A i \in DOMAIN acc.tracker.resolved : Right(acc.tracker.resolved[i])
      /\ ToSet(tracker.pending) \subseteq ToSet(acc.tracker.pending)
      /\ \A i \in DOMAIN acc.added : acc.added[i].mid = NoMid => acc.added[i].id \in ToSet(acc.tracker.pending)
  BY <1>7 DEF FillsGood
<1>9. Slimmer(tracker', acc.tracker)
  <2>1. Slimmer(acc.tracker, acc.tracker) /\ \A s \in Refreshed(acc.tracker) : Slimmer(s, acc.tracker)
    BY <1>8, StatsSlims
  <2>2. tracker' = acc.tracker \/ tracker' \in Refreshed(acc.tracker)
    BY <1>3
  <2>3. QED  BY <2>1, <2>2
<1>10. /\ tracker' \in Tracker /\ tracker'.pending = acc.tracker.pending
       /\ tracker'.mids = acc.tracker.mids /\ Thins(tracker'.resolved, acc.tracker.resolved)
  BY <1>9 DEF Slimmer
<1>11. /\ Ids(tracker'.resolved) \subseteq Ids(acc.tracker.resolved)
       /\ (OneEach(acc.tracker.resolved) => OneEach(tracker'.resolved))
       /\ \A i \in DOMAIN tracker'.resolved : \E j \in DOMAIN acc.tracker.resolved :
             tracker'.resolved[i] = acc.tracker.resolved[j]
  BY <1>10, Thinned
<1>12. PICK shown : shown = acc.added \o tape
  OBVIOUS
<1>13. tape \in Seq(Fill) /\ Ids(tape) \subseteq Counted
  BY DEF FeedType, Counted
<1>14. /\ shown \in Seq(Fill) /\ Ids(shown) = Ids(acc.added) \cup Ids(tape) /\ OneEach(shown)
       /\ \A i \in DOMAIN shown : shown[i].mid = NoMid => shown[i].id \in ToSet(acc.tracker.pending)
  <2>1. shown \in Seq(Fill) /\ Joins(shown, acc.added, tape)
    BY <1>8, <1>12, <1>13, Joined
  <2>2. Ids(acc.added) \cap Ids(tape) = {} /\ OneEach(acc.added) /\ OneEach(tape)
    BY <1>8, <1>13 DEF OnceInv
  <2>3. \A i \in DOMAIN tape : tape[i].mid = NoMid => tape[i].id \in ToSet(tracker.pending)
    BY WaitsInQueue DEF NoOrphanOnTape, FeedType
  <2>4. \A i \in DOMAIN shown : shown[i].mid = NoMid => shown[i].id \in ToSet(acc.tracker.pending)
    BY <1>8, <2>1, <2>3 DEF Joins
  <2>5. QED  BY <2>1, <2>2, <2>4 DEF Joins
<1>15. tape' \in Seq(Fill) /\ Thins(tape', shown)
  BY <1>3, <1>12, <1>14, TapeCut
<1>16. /\ Ids(tape') \subseteq Ids(acc.added) \cup Ids(tape) /\ OneEach(tape')
       /\ \A i \in DOMAIN tape' : \E j \in DOMAIN shown : tape'[i] = shown[j]
  BY <1>14, <1>15, Thinned
<1>17. Printed' = Printed /\ \A t : Old(t)' <=> Old(t)
  BY <1>3, VenueKept
<1>18. /\ acc.order \in Seq(Trade) /\ InOrder(acc.order)
       /\ ToSet(acc.order) \subseteq ToSet(seenOrder) \cup S
       /\ acc.order = seenOrder \/ ToSet(seenOrder) \cap (trades \ S) = {}
       /\ \A t \in ToSet(seenOrder) \cup S : t \in ToSet(acc.order) \/ Old(t)
  BY <1>7 DEF OrderGood
<1>19. FeedType'
  BY <1>3, <1>10, <1>15, <1>17, <1>18 DEF FeedType
<1>20. SocketInv'
  <2>1. ASSUME NEW t \in trades \ S, NEW u \in Printed, TradeTime[t] <= TradeTime[u]
        PROVE  u \in trades \ S
    <3>1. u \in trades
      BY <1>3, <2>1 DEF SocketInv
    <3>2. t \in Trade /\ u \in Trade /\ TradeTime[t] \in Nat /\ TradeTime[u] \in Nat
      BY <2>1, TrackerAssumption DEF FeedType, Printed
    <3>3. ~(TradeTime[u] < TradeTime[t])
      BY <2>1, <3>2
    <3>4. QED  BY <1>5, <3>1, <3>3
  <2>2. QED  BY <1>3, <1>6, <1>17, <2>1 DEF SocketInv
<1>21. Counted' \subseteq Counted \cup S
  BY <1>8, <1>10, <1>11, <1>13, <1>16 DEF Counted
<1>22. SeenInv'
  <2>1. InOrder(seenOrder)'
    BY <1>3, <1>17, <1>18 DEF InOrder
  <2>2. \A t \in Counted' : t \in Printed' /\ (t \in ToSet(seenOrder') \/ Old(t)')
    <3> SUFFICES ASSUME NEW t \in Counted'
                 PROVE  t \in Printed /\ (t \in ToSet(acc.order) \/ Old(t))
      BY <1>3, <1>17
    <3>1. CASE t \in S
      BY <1>5, <1>18, <3>1 DEF FeedType
    <3>2. CASE t \in Counted
      BY <1>18, <3>2 DEF SeenInv
    <3>3. QED  BY <1>21, <3>1, <3>2
  <2>3. \A t : (\A u \in ToSet(acc.order) : TradeTime[u] < TradeTime[t]) => News(t, seenOrder)'
    BY <1>3 DEF News
  <2>4. ASSUME NEW t \in trades \ S, t \notin ToSet(acc.order)
        PROVE  t \notin Counted' /\ News(t, seenOrder)'
    <3>1. t \notin ToSet(seenOrder)
      BY <1>18, <2>4
    <3>2. t \notin Counted /\ News(t, seenOrder)
      BY <2>4, <3>1 DEF SeenInv
    <3>3. \A u \in ToSet(acc.order) : TradeTime[u] < TradeTime[t]
      BY <1>5, <1>18, <2>4, <3>2 DEF News
    <3>4. QED  BY <1>21, <2>3, <2>4, <3>2, <3>3
  <2>5. \A t \in trades' : t \in ToSet(seenOrder') \/ (t \notin Counted' /\ News(t, seenOrder)')
    BY <1>3, <2>4
  <2>6. ASSUME NEW t \in Printed, t \notin ToSet(acc.order), ~Old(t)
        PROVE  t \in trades \ S
    <3>1. t \notin ToSet(seenOrder) /\ t \notin S
      BY <1>18, <2>6
    <3>2. t \in trades
      BY <1>3, <1>6, <2>6, <3>1 DEF SeenInv
    <3>3. QED  BY <3>1, <3>2
  <2>7. \A t \in Printed' : t \in ToSet(seenOrder') \/ Old(t)' \/ News(t, seenOrder)'
    BY <1>3, <1>17, <2>4, <2>6
  <2>8. \A t \in Printed' : t \in ToSet(seenOrder') \/ Old(t)' \/ t \in trades'
    BY <1>3, <1>17, <2>6
  <2>9. QED  BY <2>1, <2>2, <2>5, <2>7, <2>8 DEF SeenInv
<1>23. OnceInv'
  BY <1>8, <1>10, <1>11, <1>16 DEF OnceInv
<1>24. NoOrphanOnTape'
  <2>1. \A i \in DOMAIN tape' : tape'[i].mid = NoMid => tape'[i].id \in ToSet(tracker'.pending)
    BY <1>10, <1>14, <1>16
  <2>2. \A x : Contains(tracker'.pending, x) <=> x \in ToSet(tracker'.pending)
    BY <1>10, WaitsInQueue
  <2>3. QED  BY <2>1, <2>2 DEF NoOrphanOnTape, Contains
<1>25. BooksInv'
  <2>1. tracker'.mids = tracker.mids
    BY <1>8, <1>10
  <2>2. QED  BY <1>3, <2>1, BooksKept
<1>26. LabelInv'
  <2>1. \A id \in ToSet(tracker'.pending) : Waits(id, tracker.mids)'
    BY <1>8, <1>10 DEF Waits, Due
  <2>2. \A i \in DOMAIN tracker'.resolved : Right(tracker.resolved[i])'
    <3> SUFFICES ASSUME NEW i \in DOMAIN tracker'.resolved PROVE Right(tracker.resolved[i])'
      OBVIOUS
    <3>1. PICK j \in DOMAIN acc.tracker.resolved : tracker'.resolved[i] = acc.tracker.resolved[j]
      BY <1>11
    <3>2. QED  BY <1>3, <1>8, <3>1 DEF Right, Due
  <2>3. QED  BY <2>1, <2>2 DEF LabelInv
<1>27. QED  BY <1>19, <1>20, <1>22, <1>23, <1>24, <1>25, <1>26

\* The fills that are due before the stream starts.
EarlyFor(trk, time) ==
    IF coverageStart = NoMid THEN {id \in ToSet(trk.pending) : Due(id) < time} ELSE {}

\* The tracker once they have left.
LEMMA EarlyLeave ==
    ASSUME FeedType, NEW time \in Nat, NEW early, early = EarlyFor(tracker, time), NEW kept,
           kept = Forgets(IF coverageStart = NoMid THEN DropsDueBefore(tracker, time) ELSE tracker, early)
    PROVE  /\ kept \in Tracker /\ kept.mids = tracker.mids
           /\ ToSet(kept.pending) = ToSet(tracker.pending) \ early
           /\ Thins(kept.pending, tracker.pending) /\ Thins(kept.resolved, tracker.resolved)
<1>1. tracker \in Tracker
  BY DEF FeedType
<1>2. CASE coverageStart # NoMid
  <2>1. early = {} /\ kept = Forgets(tracker, early)
    BY <1>2 DEF EarlyFor
  <2>2. Slimmer(kept, tracker)
    BY <1>1, <2>1, StatsSlims
  <2>3. QED  BY <2>1, <2>2, ThinsItself DEF Slimmer
<1>3. CASE coverageStart = NoMid
  <2>1. early = {id \in ToSet(tracker.pending) : Due(id) < time}
    BY <1>3 DEF EarlyFor
  <2>2. PICK S : S = {id \in ToSet(tracker.pending) : Due(id) >= time}
    OBVIOUS
  <2>3. PICK left : left = Only(tracker.pending, S)
    OBVIOUS
  <2>4. PICK trk : trk = DropsDueBefore(tracker, time)
    OBVIOUS
  <2>5. trk = [tracker EXCEPT !.pending = left]
    BY <2>2, <2>3, <2>4 DEF DropsDueBefore
  <2>6. tracker.pending \in Seq(Trade)
    BY <1>1 DEF Tracker
  <2>7. left \in Seq(Trade) /\ Thins(left, tracker.pending) /\ ToSet(left) = ToSet(tracker.pending) \cap S
    BY <2>3, <2>6, OnlyFilters DEF Filters
  <2>8. ToSet(tracker.pending) \cap S = ToSet(tracker.pending) \ early
    <3>1. \A id \in ToSet(tracker.pending) : Due(id) \in Int
      BY <2>6, Entries, TrackerAssumption DEF Due
    <3>2. \A id \in ToSet(tracker.pending) : id \in S <=> id \notin early
      BY <2>1, <2>2, <3>1
    <3>3. QED  BY <3>2
  <2>9. /\ trk \in Tracker /\ trk.pending = left /\ trk.mids = tracker.mids
        /\ trk.resolved = tracker.resolved
    BY <1>1, <2>5, <2>7 DEF Tracker
  <2>10. kept = Forgets(trk, early)
    BY <1>3, <2>4
  <2>11. Slimmer(kept, trk)
    BY <2>9, <2>10, StatsSlims
  <2>12. QED  BY <2>7, <2>8, <2>9, <2>11 DEF Slimmer
<1>4. QED  BY <1>2, <1>3

\* The socket's next book is the next the venue printed after the mids heard.
LEMMA BookIsNext ==
    ASSUME FeedInv, conn = "open", books # <<>>
    PROVE  /\ Head(books) \in printed /\ Head(books) \in Nat /\ ~stalled
           /\ Stretch(Append(tracker.mids, Head(books)))
           /\ \A p \in printed : tracker.mids # <<>> /\ Last(tracker.mids) < p => Head(books) <= p
<1> USE DEF FeedInv
<1>1. PICK n \in Nat : n = Len(books)
  BY DEF FeedType
<1>2. /\ DOMAIN books = 1 .. n /\ 1 \in 1 .. n /\ Head(books) = books[1]
      /\ \A i \in 1 .. n : books[i] \in Nat
  BY <1>1 DEF FeedType
<1>3. PICK time : time = Head(books)
  OBVIOUS
<1>4. time \in ToSet(books) /\ time \in printed /\ time \in Nat /\ ~stalled
  BY <1>2, <1>3 DEF ToSet, BooksInv, SocketInv
<1>5. \A b \in ToSet(books) : time <= b
  <2> SUFFICES ASSUME NEW i \in 1 .. n PROVE time <= books[i]
    BY <1>2 DEF ToSet
  <2>1. i = 1 \/ 1 < i
    BY <1>1
  <2>2. i = 1 \/ books[1] < books[i]
    BY <1>2, <2>1 DEF BooksInv, Increases
  <2>3. books[i] \in Nat /\ books[1] \in Nat /\ time = books[1]
    BY <1>2, <1>3
  <2>4. QED  BY <2>2, <2>3
<1>6. \A p \in printed : tracker.mids # <<>> /\ Last(tracker.mids) < p => time <= p
  BY <1>4, <1>5 DEF BooksInv
<1>7. tracker.mids # <<>> => Last(tracker.mids) < time
  BY <1>4 DEF BooksInv
<1>8. printed \subseteq Nat /\ tracker.mids \in Seq(Nat) /\ Stretch(tracker.mids)
  BY DEF FeedType, Tracker, BooksInv
<1>9. Stretch(Append(tracker.mids, time))
  BY <1>4, <1>6, <1>7, <1>8, StretchMore
<1>10. QED  BY <1>3, <1>4, <1>6, <1>9

\* The books left on the socket are later and miss none.
LEMMA BooksLeft ==
    ASSUME FeedInv, conn = "open", books # <<>>
    PROVE  /\ Tail(books) \in Seq(Nat) /\ Increases(Tail(books))
           /\ ToSet(Tail(books)) \subseteq printed
           /\ \A b \in ToSet(Tail(books)) : Head(books) < b
           /\ \A p \in printed : Head(books) < p => p \in ToSet(Tail(books))
           /\ Tail(books) # <<>> => Head(Tail(books)) \in ToSet(Tail(books))
<1> USE DEF FeedInv
<1>1. PICK n \in Nat : n = Len(books)
  BY DEF FeedType
<1>2. /\ DOMAIN books = 1 .. n /\ 1 \in 1 .. n /\ Head(books) = books[1] /\ n >= 1
      /\ \A i \in 1 .. n : books[i] \in Nat
  BY <1>1 DEF FeedType
<1>3. PICK rest : rest = Tail(books)
  OBVIOUS
<1>4. /\ rest \in Seq(Nat) /\ Len(rest) = n - 1 /\ DOMAIN rest = 1 .. n - 1
      /\ \A i \in 1 .. n - 1 : rest[i] = books[i + 1]
  BY <1>1, <1>2, <1>3 DEF FeedType
<1>5. \A i \in 1 .. n - 1 : i + 1 \in 1 .. n /\ 1 < i + 1
  BY <1>1
<1>6. \A i, j \in 1 .. n : i < j => books[i] < books[j]
  BY <1>2 DEF BooksInv, Increases
<1>7. Increases(rest)
  <2> SUFFICES ASSUME NEW i \in 1 .. n - 1, NEW j \in 1 .. n - 1, i < j PROVE rest[i] < rest[j]
    BY <1>4 DEF Increases
  <2>1. i + 1 < j + 1
    OBVIOUS
  <2>2. QED  BY <1>4, <1>5, <1>6, <2>1
<1>8. \A b \in ToSet(rest) : b \in printed /\ Head(books) < b
  <2> SUFFICES ASSUME NEW i \in 1 .. n - 1 PROVE rest[i] \in printed /\ Head(books) < rest[i]
    BY <1>4 DEF ToSet
  <2>1. books[i + 1] \in printed
    BY <1>2, <1>5 DEF BooksInv, ToSet
  <2>2. QED  BY <1>2, <1>4, <1>5, <1>6, <2>1
<1>9. ASSUME NEW p \in printed, Head(books) < p PROVE p \in ToSet(rest)
  <2>1. p \in ToSet(books)
    BY <1>9, BookIsNext DEF BooksInv
  <2>2. PICK i \in 1 .. n : books[i] = p
    BY <1>2, <2>1 DEF ToSet
  <2>3. i # 1
    BY <1>2, <1>9, <2>2
  <2>4. i - 1 \in 1 .. n - 1 /\ (i - 1) + 1 = i
    BY <1>1, <2>3
  <2>5. QED  BY <1>4, <2>2, <2>4 DEF ToSet
<1>10. rest # <<>> => Head(rest) \in ToSet(rest)
  <2>1. ASSUME rest # <<>> PROVE Head(rest) = rest[1] /\ 1 \in DOMAIN rest
    BY <1>4, <2>1
  <2>2. QED  BY <2>1 DEF ToSet
<1>11. QED  BY <1>3, <1>4, <1>7, <1>8, <1>9, <1>10

\* What a book makes of the windows: the fills that leave (gone), the ones it labels (done).
BookHeard(time, early, kept, heard, gone, done) ==
    /\ time = Head(books) /\ early = EarlyFor(tracker, time)
    /\ kept = Forgets(IF coverageStart = NoMid THEN DropsDueBefore(tracker, time) ELSE tracker, early)
    /\ heard = HearsMid(kept, time)
    /\ gone = early \cup heard.dropped
    /\ done = ToSet(kept.pending) \ (ToSet(heard.pending) \cup heard.dropped)

\* The windows after it.
BookTold(heard, gone, done, time) ==
    /\ tracker' \in Tracker /\ tracker'.pending = heard.pending /\ tracker'.mids = heard.mids
    /\ Thins(tracker'.resolved, heard.resolved)
    /\ tape' \in Seq(Fill) /\ Ids(tape') \subseteq Ids(tape) /\ OneEach(tape')
    /\ \A i \in DOMAIN tape' : tape'[i].mid = NoMid =>
          \E j \in DOMAIN tape : tape[j] = tape'[i] /\ tape'[i].id \notin gone \cup done

\* The tape after a book: a fill without a label has neither left nor been labelled.
LEMMA BookTells ==
    ASSUME FeedInv, HearBook, NEW time \in Nat, NEW early, NEW kept, NEW heard \in Tracker, NEW gone,
           NEW done, BookHeard(time, early, kept, heard, gone, done)
    PROVE  BookTold(heard, gone, done, time)
<1> USE DEF FeedInv
<1>1. PICK told, left :
        /\ told = Forgets(TakesDropped(heard), heard.dropped)
        /\ left = Without(tape, gone)
  OBVIOUS
<1>2. /\ tracker' \in IF done = {} THEN {told} ELSE Refreshed(told)
      /\ tape' = [i \in DOMAIN left |->
                     IF left[i].id \in done THEN Labelled(left[i].id, time) ELSE left[i]]
  <2>1. PICK e : e = IF coverageStart = NoMid
                     THEN {id \in ToSet(tracker.pending) : Due(id) < Head(books)} ELSE {}
    OBVIOUS
  <2>2. PICK k : k = Forgets(IF coverageStart = NoMid THEN DropsDueBefore(tracker, Head(books))
                             ELSE tracker, e)
    OBVIOUS
  <2>3. PICK h : h = HearsMid(k, Head(books))
    OBVIOUS
  <2>4. PICK d : d = ToSet(k.pending) \ (ToSet(h.pending) \cup h.dropped)
    OBVIOUS
  <2>5. PICK t, l : t = Forgets(TakesDropped(h), h.dropped) /\ l = Without(tape, e \cup h.dropped)
    OBVIOUS
  <2>6. /\ tracker' \in IF d = {} THEN {t} ELSE Refreshed(t)
        /\ tape' = [i \in DOMAIN l |->
                       IF l[i].id \in d THEN Labelled(l[i].id, Head(books)) ELSE l[i]]
    BY <2>1, <2>2, <2>3, <2>4, <2>5 DEF HearBook
  <2>7. time = Head(books) /\ early = e
    BY <2>1 DEF BookHeard, EarlyFor
  <2>8. k = kept /\ h = heard
    BY <2>2, <2>3, <2>7 DEF BookHeard
  <2>9. d = done /\ gone = e \cup h.dropped
    BY <2>4, <2>7, <2>8 DEF BookHeard
  <2>10. t = told /\ l = left
    BY <1>1, <2>5, <2>8, <2>9
  <2>11. QED  BY <2>6, <2>7, <2>9, <2>10
<1>3. PICK trk : trk = TakesDropped(heard)
  OBVIOUS
<1>4. /\ trk \in Tracker /\ trk.pending = heard.pending /\ trk.mids = heard.mids
      /\ trk.resolved = heard.resolved
  BY <1>3 DEF TakesDropped, Tracker
<1>5. Slimmer(told, trk)
  BY <1>1, <1>3, <1>4, StatsSlims
<1>6. Slimmer(tracker', told)
  <2>1. told \in Tracker
    BY <1>5 DEF Slimmer
  <2>2. Slimmer(told, told) /\ \A s \in Refreshed(told) : Slimmer(s, told)
    BY <2>1, StatsSlims
  <2>3. QED  BY <1>2, <2>2
<1>7. Thins(tracker'.resolved, heard.resolved)
  <2>1. PICK a, b, c : a = tracker'.resolved /\ b = told.resolved /\ c = heard.resolved
    OBVIOUS
  <2>2. Thins(a, b) /\ Thins(b, c)
    BY <1>4, <1>5, <1>6, <2>1 DEF Slimmer
  <2>3. Thins(a, c)
    BY <2>2, ThinsAgain
  <2>4. QED  BY <2>1, <2>3
<1>8. left \in Seq(Fill) /\ Thins(left, tape) /\ \A i \in DOMAIN left : left[i].id \notin gone
  BY <1>1, WithoutIs DEF FeedType
<1>9. /\ Ids(left) \subseteq Ids(tape) /\ OneEach(left)
      /\ \A i \in DOMAIN left : \E j \in DOMAIN tape : left[i] = tape[j]
  BY <1>8, Thinned DEF OnceInv
<1>10. PICK new : new = tape'
  OBVIOUS
<1>11. /\ DOMAIN new = DOMAIN left
       /\ \A i \in DOMAIN left : new[i] \in Fill /\ new[i].id = left[i].id
       /\ \A i \in DOMAIN left : left[i].id \in done => new[i].mid = time
       /\ \A i \in DOMAIN left : left[i].id \notin done => new[i] = left[i]
  <2>1. \A i \in DOMAIN left : left[i] \in Fill
    BY <1>8
  <2>2. DOMAIN new = DOMAIN left
    BY <1>2, <1>10
  <2>3. ASSUME NEW i \in DOMAIN left, left[i].id \in done
        PROVE  new[i] = [id |-> left[i].id, mid |-> time]
    BY <1>2, <1>10, <2>3 DEF Labelled
  <2>4. ASSUME NEW i \in DOMAIN left, left[i].id \notin done PROVE new[i] = left[i]
    BY <1>2, <1>10, <2>4
  <2>5. QED  BY <2>1, <2>2, <2>3, <2>4 DEF Fill
<1>12. new \in Seq(Fill)
  <2>1. Len(left) \in Nat /\ DOMAIN left = 1 .. Len(left)
    BY <1>8
  <2>2. new = [i \in 1 .. Len(left) |-> new[i]]
    BY <1>2, <1>10, <2>1
  <2>3. QED  BY <1>11, <2>1, <2>2
<1>13. Ids(new) = Ids(left) /\ OneEach(new)
  BY <1>9, <1>11 DEF Ids, OneEach
<1>14. ASSUME NEW i \in DOMAIN new, new[i].mid = NoMid
       PROVE  \E j \in DOMAIN tape : tape[j] = new[i] /\ new[i].id \notin gone \cup done
  <2>1. time # NoMid
    BY DEF NoMid
  <2>2. left[i].id \notin done /\ new[i] = left[i]
    BY <1>11, <1>14, <2>1
  <2>3. QED  BY <1>8, <1>9, <1>11, <2>2
<1>15. QED
  BY <1>4, <1>5, <1>6, <1>7, <1>9, <1>10, <1>12, <1>13, <1>14 DEF BookTold, Slimmer

\* A book: the fills it labels were due after every mid heard before, and this is the next.
LEMMA HearBookKeeps == FeedInv /\ HearBook => FeedInv'
<1> SUFFICES ASSUME FeedInv, HearBook PROVE FeedInv'
  OBVIOUS
<1> USE DEF FeedInv
<1>1. PICK time : time = Head(books)
  OBVIOUS
<1>2. PICK early : early = EarlyFor(tracker, time)
  OBVIOUS
<1>3. PICK kept : kept = Forgets(IF coverageStart = NoMid THEN DropsDueBefore(tracker, time)
                                 ELSE tracker, early)
  OBVIOUS
<1>4. PICK heard : heard = HearsMid(kept, time)
  OBVIOUS
<1>5. PICK gone, done :
        /\ gone = early \cup heard.dropped
        /\ done = ToSet(kept.pending) \ (ToSet(heard.pending) \cup heard.dropped)
  OBVIOUS
<1>6. /\ conn = "open" /\ books # <<>> /\ books' = Tail(books) /\ hasBook' = TRUE
      /\ coverageStart' = IF coverageStart = NoMid THEN time ELSE coverageStart
      /\ UNCHANGED <<now, printed, conn, stalled, trades, seenOrder>>
  BY <1>1 DEF HearBook, venue
<1>7. /\ time \in printed /\ time \in Nat /\ ~stalled /\ Stretch(Append(tracker.mids, time))
      /\ \A p \in printed : tracker.mids # <<>> /\ Last(tracker.mids) < p => time <= p
  BY <1>1, <1>6, BookIsNext
<1>8. /\ kept \in Tracker /\ kept.mids = tracker.mids
      /\ ToSet(kept.pending) = ToSet(tracker.pending) \ early
      /\ Thins(kept.pending, tracker.pending) /\ Thins(kept.resolved, tracker.resolved)
  BY <1>2, <1>3, <1>7, EarlyLeave
<1>9. heard \in Tracker /\ MidsNow(kept, time, heard) /\ FillsNow(kept, time, heard)
  BY <1>4, <1>7, <1>8, HearsMidIs
<1>10. BookTold(heard, gone, done, time)
  <2>1. BookHeard(time, early, kept, heard, gone, done)
    BY <1>1, <1>2, <1>3, <1>4, <1>5 DEF BookHeard
  <2>2. QED  BY <1>7, <1>9, <2>1, BookTells
<1>11. /\ tracker' \in Tracker /\ tracker'.pending = heard.pending /\ tracker'.mids = heard.mids
       /\ Thins(tracker'.resolved, heard.resolved)
       /\ tape' \in Seq(Fill) /\ Ids(tape') \subseteq Ids(tape) /\ OneEach(tape')
  BY <1>10 DEF BookTold
<1>12. /\ Ids(tracker'.resolved) \subseteq Ids(heard.resolved)
       /\ (OneEach(heard.resolved) => OneEach(tracker'.resolved))
       /\ \A i \in DOMAIN tracker'.resolved : \E j \in DOMAIN heard.resolved :
             tracker'.resolved[i] = heard.resolved[j]
  BY <1>11, Thinned
<1>13. /\ IsInjective(kept.pending)
       /\ Ids(kept.resolved) \subseteq Ids(tracker.resolved) /\ OneEach(kept.resolved)
       /\ \A i \in DOMAIN kept.resolved : \E j \in DOMAIN tracker.resolved :
             kept.resolved[i] = tracker.resolved[j]
       /\ ToSet(kept.pending) \cap Ids(kept.resolved) = {}
  BY <1>8, Thinned DEF OnceInv
<1> DEFINE due == DueBy(kept, time)
           late == LateBy(kept, time)
<1>14. /\ ToSet(heard.pending) = ToSet(kept.pending) \ due /\ Thins(heard.pending, kept.pending)
       /\ heard.dropped = kept.dropped \cup late
       /\ Ids(heard.resolved) \subseteq Ids(kept.resolved) \cup (due \ late) /\ OneEach(heard.resolved)
       /\ \A i \in DOMAIN heard.resolved :
             \/ \E j \in DOMAIN kept.resolved : heard.resolved[i] = kept.resolved[j]
             \/ \E id \in due \ late : heard.resolved[i] = Labelled(id, time)
  BY <1>9, <1>13 DEF FillsNow
<1>15. due \subseteq ToSet(kept.pending) /\ \A id \in ToSet(kept.pending) : Due(id) \in Nat /\ id \in Trade
  BY <1>8, Entries, TrackerAssumption DEF DueBy, Due, Tracker
<1>16. IsInjective(heard.pending)
  BY <1>13, <1>14, Thinned
<1>17. Printed' = Printed
  BY <1>6, VenueKept
<1>18. FeedType'
  <2>1. books' \in Seq(Nat)
    BY <1>6, BooksLeft
  <2>2. QED  BY <1>6, <1>11, <1>17, <2>1 DEF FeedType
<1>19. SocketInv'
  BY <1>6, <1>7, <1>17 DEF SocketInv
<1>20. SeenInv'
  <2>1. Counted' \subseteq Counted
    BY <1>8, <1>11, <1>12, <1>13, <1>14, <1>15 DEF Counted
  <2>2. QED  BY <1>6, <2>1, SeenKept
<1>21. OnceInv'
  <2>1. ToSet(heard.pending) \cap Ids(tracker'.resolved) = {}
    BY <1>12, <1>13, <1>14
  <2>2. QED  BY <1>11, <1>12, <1>14, <1>16, <2>1 DEF OnceInv
<1>22. NoOrphanOnTape'
  <2>1. ASSUME NEW i \in DOMAIN tape', tape'[i].mid = NoMid
        PROVE  tape'[i].id \in ToSet(heard.pending)
    <3>1. PICK j \in DOMAIN tape : tape[j] = tape'[i] /\ tape'[i].id \notin gone \cup done
      BY <1>10, <2>1 DEF BookTold
    <3>2. tape'[i].id \in ToSet(tracker.pending)
      <4>1. \A x : Contains(tracker.pending, x) <=> x \in ToSet(tracker.pending)
        BY WaitsInQueue DEF FeedType
      <4>2. QED  BY <2>1, <3>1, <4>1 DEF NoOrphanOnTape
    <3>3. QED  BY <1>5, <1>8, <3>1, <3>2
  <2>2. \A x : Contains(tracker'.pending, x) <=> x \in ToSet(tracker'.pending)
    BY <1>11, WaitsInQueue
  <2>3. QED  BY <1>11, <2>1, <2>2 DEF NoOrphanOnTape
<1>23. BooksInv'
  <2>1. /\ heard.mids # <<>> /\ Last(heard.mids) = time /\ Stretch(heard.mids)
    <3>1. printed \subseteq Nat
      BY DEF FeedType
    <3>2. QED  BY <1>7, <1>8, <1>9, <3>1 DEF MidsNow
  <2>2. Stretch(tracker.mids)'
    BY <1>6, <1>11, <2>1 DEF Stretch, Increases
  <2>3. coverageStart' \in Nat /\ coverageStart' # NoMid
    <3>1. coverageStart' \in Nat
      BY <1>6, <1>7 DEF BooksInv
    <3>2. QED  BY <3>1 DEF NoMid
  <2>4. /\ Increases(books') /\ ToSet(books') \subseteq printed
        /\ \A b \in ToSet(books') : time < b
        /\ \A p \in printed : time < p => p \in ToSet(books')
        /\ books' # <<>> => Head(books') \in ToSet(books')
    BY <1>1, <1>6, BooksLeft
  <2>5. ASSUME NEW p \in printed, books' # <<>>, Head(books') < p PROVE p \in ToSet(books')
    <3>1. Head(books') \in printed /\ time < Head(books')
      BY <2>4, <2>5
    <3>2. Head(books') \in Nat /\ p \in Nat
      <4>1. \A q \in printed : q \in Nat
        BY DEF FeedType
      <4>2. QED  BY <3>1, <4>1
    <3>3. time < p
      BY <1>7, <2>5, <3>1, <3>2
    <3>4. QED  BY <2>4, <3>3
  <2>6. Increases(books)'
    BY <2>4 DEF Increases
  <2>7. QED  BY <1>6, <1>11, <2>1, <2>2, <2>3, <2>4, <2>5, <2>6 DEF BooksInv
<1>24. LabelInv'
  <2>1. ASSUME NEW id \in ToSet(heard.pending) PROVE Waits(id, heard.mids)
    <3>1. Due(id) \in Nat /\ ~(Due(id) <= time)
      BY <1>14, <1>15 DEF DueBy
    <3>2. Last(heard.mids) = time
      BY <1>9 DEF MidsNow
    <3>3. QED  BY <1>7, <3>1, <3>2 DEF Waits
  <2>2. ASSUME NEW id \in due, id \notin late PROVE Right(Labelled(id, time))
    <3>1. id \in ToSet(kept.pending) /\ Due(id) \in Nat /\ Due(id) <= time
      BY <1>15, <2>2 DEF DueBy
    <3>2. time - Due(id) <= MaxLagMs
      BY <1>7, <2>2, <3>1, TrackerAssumption DEF LateBy
    <3>3. ASSUME NEW p \in printed, p >= Due(id) PROVE p >= time
      <4>1. p \in Nat
        BY DEF FeedType
      <4>2. CASE tracker.mids # <<>>
        <5>1. Last(tracker.mids) < Due(id) /\ Last(tracker.mids) \in Nat
          BY <1>8, <3>1, <4>2, Entries DEF LabelInv, Waits, FeedType, Tracker
        <5>2. Last(tracker.mids) < p
          BY <3>1, <3>3, <4>1, <5>1
        <5>3. QED  BY <1>7, <4>1, <4>2, <5>2
      <4>3. CASE tracker.mids = <<>>
        <5>1. coverageStart = NoMid
          BY <1>6, <4>3 DEF BooksInv
        <5>2. ~(Due(id) < time)
          BY <1>2, <1>8, <3>1, <5>1 DEF EarlyFor
        <5>3. QED  BY <1>7, <3>1, <3>3, <4>1, <5>2
      <4>4. QED  BY <4>2, <4>3
    <3>4. Labelled(id, time).id = id /\ Labelled(id, time).mid = time
      BY DEF Labelled
    <3>5. QED  BY <1>7, <3>1, <3>2, <3>3, <3>4 DEF Right
  <2>3. ASSUME NEW i \in DOMAIN tracker'.resolved PROVE Right(tracker'.resolved[i])
    <3>1. PICK j \in DOMAIN heard.resolved : tracker'.resolved[i] = heard.resolved[j]
      BY <1>12
    <3>2. CASE \E id \in due \ late : heard.resolved[j] = Labelled(id, time)
      BY <2>2, <3>1, <3>2
    <3>3. CASE \E k \in DOMAIN kept.resolved : heard.resolved[j] = kept.resolved[k]
      BY <1>13, <3>1, <3>3 DEF LabelInv
    <3>4. QED  BY <1>14, <3>2, <3>3
  <2>4. \A i \in DOMAIN tracker'.resolved : Right(tracker.resolved[i])'
    BY <1>6, <2>3 DEF Right, Due
  <2>5. \A id \in ToSet(tracker'.pending) : Waits(id, tracker.mids)'
    BY <1>11, <2>1 DEF Waits, Due
  <2>6. QED  BY <2>4, <2>5 DEF LabelInv
<1>25. QED  BY <1>18, <1>19, <1>20, <1>21, <1>22, <1>23, <1>24

-----------------------------------------------------------------------------
(* The scores. *)

\* The books of the history and those on their way are of this connection, and a trade
\* with a score is remembered or too old to be sent again.
ScoreInv ==
    /\ bookHistory \in Seq(Nat) /\ scoredOn \in [Trade -> Int]
    /\ coverageStart = NoMid \/ ~hasBook => bookHistory = <<>>
    /\ coverageStart \in printed \cup {NoMid}
    /\ coverageStart # NoMid => \A b \in ToSet(bookHistory) \cup ToSet(books) : coverageStart <= b
    /\ \A t \in Trade : scoredOn[t] # NoMid => t \in Printed /\ (t \in ToSet(seenOrder) \/ Old(t))
    /\ \A t \in trades : scoredOn[t] # NoMid => t \in ToSet(seenOrder)

\* The scores once the trades S of a message have been taken: only one without a score
\* has got another.
ScoresGood(scores, S, able) ==
    /\ scores \in [Trade -> Int]
    /\ \A t \in Trade : \/ scores[t] = scoredOn[t]
                        \/ t \in S /\ scoredOn[t] = NoMid /\ scores[t] = ScoreBook(t, able)

\* The book of a score is one of the history, out by the time of the trade.
LEMMA ScoreBookIs ==
    ASSUME bookHistory \in Seq(Nat), NEW t \in Trade, NEW able
    PROVE  /\ ScoreBook(t, able) \in Int
           /\ ScoreBook(t, able) # NoMid
                => ScoreBook(t, able) \in ToSet(bookHistory) /\ ScoreBook(t, able) <= TradeTime[t]
<1>1. PICK known : known = {b \in ToSet(bookHistory) : b <= TradeTime[t]}
  OBVIOUS
<1>2. PICK n \in Nat : n = TradeTime[t]
  BY TrackerAssumption
<1>3. \A b \in ToSet(bookHistory) : b \in Nat
  BY Entries
<1>4. known \subseteq 0 .. n
  BY <1>1, <1>2, <1>3
<1>5. known # {} => Max(known) \in known
  BY <1>4, GreatestUpTo
<1>6. ScoreBook(t, able) = NoMid \/ (known # {} /\ ScoreBook(t, able) = Max(known))
  BY <1>1 DEF ScoreBook
<1>7. NoMid \in Int /\ \A b \in known : b \in Int
  BY <1>4 DEF NoMid
<1>8. QED  BY <1>1, <1>5, <1>6, <1>7

\* A trade that was not seen is scored, or comes before the books; no other score changes.
LEMMA TakesScores ==
    ASSUME NEW acc, Whole(acc), NEW id, NEW able
    PROVE  \/ TakesTrade(acc, id, able).scoredOn = acc.scoredOn
           \/ /\ id \notin ToSet(acc.order)
              /\ TakesTrade(acc, id, able).scoredOn = [acc.scoredOn EXCEPT ![id] = ScoreBook(id, able)]
<1>1. PICK t, o, c, a : acc = [tracker |-> t, order |-> o, scoredOn |-> c, added |-> a]
  BY DEF Whole
<1>2. acc.tracker = t /\ acc.order = o /\ acc.scoredOn = c /\ acc.added = a
  BY <1>1
<1>3. PICK next : next = TakesTrade(acc, id, able)
  OBVIOUS
<1>4. Contains(acc.order, id) <=> id \in ToSet(acc.order)
  BY DEF Contains, ToSet
<1>5. PICK more : more = Remembers(o, id)
  OBVIOUS
<1>6. CASE Contains(acc.order, id)
  BY <1>3, <1>6 DEF TakesTrade
<1>7. CASE ~Contains(acc.order, id) /\ coverageStart # NoMid /\ Due(id) < coverageStart
  <2>1. next = [acc EXCEPT !.order = more]
    BY <1>2, <1>3, <1>5, <1>7 DEF TakesTrade
  <2>2. next = [tracker |-> t, order |-> more, scoredOn |-> c, added |-> a]
    BY <1>1, <2>1
  <2>3. QED  BY <1>2, <1>3, <2>2
<1>8. CASE ~Contains(acc.order, id) /\ ~(coverageStart # NoMid /\ Due(id) < coverageStart)
  <2>1. PICK r : r = Arrives(t, id)
    OBVIOUS
  <2>2. PICK d : d = [c EXCEPT ![id] = ScoreBook(id, able)]
    OBVIOUS
  <2>3. PICK b : b = IF r.outcome = "unavailable" THEN a ELSE <<Labelled(id, r.mid)>> \o a
    OBVIOUS
  <2>4. next = [acc EXCEPT !.order = more, !.tracker = r.tracker, !.scoredOn = d, !.added = b]
    BY <1>2, <1>3, <1>5, <1>8, <2>1, <2>2, <2>3 DEF TakesTrade
  <2>5. next = [tracker |-> r.tracker, order |-> more, scoredOn |-> d, added |-> b]
    BY <1>1, <2>4
  <2>6. next.scoredOn = d
    BY <2>5
  <2>7. QED  BY <1>2, <1>3, <1>4, <1>8, <2>2, <2>6
<1>9. QED  BY <1>6, <1>7, <1>8

\* From trade to trade.
LEMMA ScoreStep ==
    ASSUME ScoreInv, NEW acc, NEW S, LoopGood(acc, S), NEW able, ScoresGood(acc.scoredOn, S, able),
           NEW t \in trades \ S, t \in Trade
    PROVE  ScoresGood(TakesTrade(acc, t, able).scoredOn, S \cup {t}, able)
<1>1. PICK scores : scores = TakesTrade(acc, t, able).scoredOn
  OBVIOUS
<1>2. \/ scores = acc.scoredOn
      \/ t \notin ToSet(acc.order) /\ scores = [acc.scoredOn EXCEPT ![t] = ScoreBook(t, able)]
  BY <1>1, TakesScores DEF LoopGood
<1>3. CASE scores = acc.scoredOn
  BY <1>1, <1>3 DEF ScoresGood
<1>4. CASE t \notin ToSet(acc.order) /\ scores = [acc.scoredOn EXCEPT ![t] = ScoreBook(t, able)]
  <2>1. scoredOn[t] = NoMid
    <3>1. t \notin ToSet(seenOrder)
      BY <1>4 DEF LoopGood, OrderGood
    <3>2. QED  BY <3>1 DEF ScoreInv
  <2>2. PICK b \in Int : b = ScoreBook(t, able)
    BY ScoreBookIs DEF ScoreInv
  <2>3. acc.scoredOn \in [Trade -> Int]
    BY DEF ScoresGood
  <2>4. scores \in [Trade -> Int] /\ scores[t] = b /\ \A u \in Trade : u # t => scores[u] = acc.scoredOn[u]
    BY <1>4, <2>2, <2>3
  <2>5. QED  BY <1>1, <2>1, <2>2, <2>4 DEF ScoresGood
<1>5. QED  BY <1>2, <1>3, <1>4

\* After the last: by induction over the trades of the message.
LEMMA ScoresTold ==
    ASSUME FeedInv, ScoreInv, NEW message, Oldest(message), NEW able
    PROVE  ScoresGood(Told(message, able).scoredOn, ToSet(message), able)
<1>1. message \in Seq(Trade) /\ Len(message) \in Nat
  BY DEF Oldest
<1>2. PICK after : Carries(after, message, able) /\ Told(message, able) = after[Len(message)]
  BY <1>1, ToldIs
<1>3. \A k \in Nat : k <= Len(message) => LoopGood(after[k], Firsts(message, k))
  BY <1>2, TradesInTurn DEF FeedInv
<1> DEFINE P == {k \in Nat : k <= Len(message) =>
                    ScoresGood(after[k].scoredOn, Firsts(message, k), able)}
<1>4. 0 \in P
  <2>1. after[0].scoredOn = scoredOn
    BY <1>2 DEF Carries, Carried
  <2>2. ScoresGood(scoredOn, Firsts(message, 0), able)
    BY DEF ScoresGood, ScoreInv
  <2>3. QED  BY <2>1, <2>2
<1>5. ASSUME NEW k \in Nat, k \in P PROVE k + 1 \in P
  <2> SUFFICES ASSUME k + 1 <= Len(message)
               PROVE  ScoresGood(after[k + 1].scoredOn, Firsts(message, k + 1), able)
    OBVIOUS
  <2>1. k + 1 \in 1 .. Len(message) /\ (k + 1) - 1 = k /\ k <= Len(message)
    BY <1>1
  <2>2. PICK t, S : t = message[k + 1] /\ S = Firsts(message, k)
    OBVIOUS
  <2>3. Firsts(message, k + 1) = S \cup {t} /\ Follows(t, S)
    BY <2>2, NextTrade DEF FeedInv
  <2>4. t \in trades \ S /\ t \in Trade
    BY <2>3 DEF Follows, FeedInv, FeedType, Printed
  <2>5. after[k + 1] = TakesTrade(after[k], t, able)
    BY <1>2, <2>1, <2>2 DEF Carries
  <2>6. LoopGood(after[k], S) /\ ScoresGood(after[k].scoredOn, S, able)
    BY <1>3, <1>5, <2>1, <2>2
  <2>7. ScoresGood(TakesTrade(after[k], t, able).scoredOn, S \cup {t}, able)
    BY <2>4, <2>6, ScoreStep
  <2>8. QED  BY <2>3, <2>5, <2>7
<1>6. \A k \in Nat : k \in P
  <2> HIDE DEF P
  <2>1. QED  BY <1>4, <1>5, NatSetInduction
<1>7. ScoresGood(after[Len(message)].scoredOn, Firsts(message, Len(message)), able)
  BY <1>1, <1>6
<1>8. QED  BY <1>1, <1>2, <1>7, FirstsAreAll

\* What does not touch the windows, and at most loses what the socket carries.
LEMMA ScoreKept ==
    ASSUME FeedInv, ScoreInv, UNCHANGED <<now, printed, coverageStart, bookHistory, hasBook, seenOrder, scoredOn>>,
           trades' \subseteq trades, books' = books \/ books' = <<>>
    PROVE  ScoreInv'
<1>1. Printed' = Printed /\ \A t : Old(t)' <=> Old(t)
  BY VenueKept
<1>2. ToSet(books') \subseteq ToSet(books)
  <2>1. PICK none : none = <<>> /\ DOMAIN none = {}
    OBVIOUS
  <2>2. QED  BY <2>1 DEF ToSet
<1>3. QED  BY <1>1, <1>2 DEF ScoreInv

\* Time passes: a trade just printed has no score.
LEMMA ScoreAdvance ==
    ASSUME FeedInv, ScoreInv, NEW prints \in BOOLEAN, Advance(prints)
    PROVE  ScoreInv'
<1> DEFINE new == {t \in Trade : TradeTime[t] = now + 1}
<1>1. /\ now' = now + 1 /\ now \in Nat /\ printed \subseteq 0 .. now
      /\ UNCHANGED <<coverageStart, bookHistory, hasBook, seenOrder, scoredOn>>
      /\ printed \subseteq printed' /\ books \in Seq(Nat)
      /\ trades' \subseteq trades \cup new
      /\ books' = books \/ books' = Append(books, now + 1)
  BY DEF Advance, windows, FeedInv, FeedType
<1>2. Printed \subseteq Printed' /\ \A t \in new : t \in Trade /\ t \notin Printed
  BY <1>1, TrackerAssumption DEF Printed
<1>3. \A t \in Trade : Old(t) => Old(t)'
  BY <1>1, OldStaysOld DEF FeedInv
<1>4. ToSet(books') \subseteq ToSet(books) \cup {now + 1}
  <2>1. PICK n \in Nat : n = Len(books) /\ DOMAIN books = 1 .. n
    BY <1>1
  <2>2. CASE books' = Append(books, now + 1)
    <3>1. PICK b : b = books'
      OBVIOUS
    <3>2. DOMAIN b = 1 .. n + 1 /\ b[n + 1] = now + 1 /\ \A i \in 1 .. n : b[i] = books[i]
      BY <1>1, <2>1, <2>2, <3>1
    <3>3. \A i \in 1 .. n + 1 : i \in 1 .. n \/ i = n + 1
      OBVIOUS
    <3>4. QED  BY <2>1, <3>1, <3>2, <3>3 DEF ToSet
  <2>3. QED  BY <1>1, <2>2
<1>5. coverageStart # NoMid => coverageStart <= now + 1
  BY <1>1 DEF ScoreInv
<1>6. coverageStart' # NoMid => \A b \in ToSet(bookHistory') \cup ToSet(books') : coverageStart' <= b
  BY <1>1, <1>4, <1>5 DEF ScoreInv
<1>7. \A t \in Trade : scoredOn'[t] # NoMid
         => t \in Printed' /\ (t \in ToSet(seenOrder') \/ Old(t)')
  BY <1>1, <1>2, <1>3 DEF ScoreInv
<1>8. \A t \in trades' : scoredOn'[t] # NoMid => t \in ToSet(seenOrder')
  BY <1>1, <1>2 DEF ScoreInv
<1> HIDE DEF new
<1>9. QED  BY <1>1, <1>6, <1>7, <1>8 DEF ScoreInv

\* A new connection starts without books, and a trade sent again is remembered if it has a score.
LEMMA ScoreOpen ==
    ASSUME FeedInv, ScoreInv, Open
    PROVE  ScoreInv'
<1>1. /\ ResetAfterGap /\ trades' = Recent /\ UNCHANGED <<now, printed>>
  BY DEF Open, venue
<1>2. coverageStart' = NoMid /\ UNCHANGED <<hasBook, seenOrder, scoredOn>>
  BY <1>1 DEF ResetAfterGap
<1>3. bookHistory' = <<>>
  BY <1>1 DEF ResetAfterGap, ScoreInv
<1>4. Printed' = Printed /\ \A t : Old(t)' <=> Old(t)
  BY <1>1, VenueKept
<1>5. \A t \in Recent : t \in Trade /\ ~Old(t)
  <2> SUFFICES ASSUME NEW t \in Recent PROVE t \in Trade /\ ~Old(t)
    OBVIOUS
  <2>1. PICK S : S = Since(t)
    OBVIOUS
  <2>2. t \in Printed /\ Cardinality(S) <= Replayed /\ S \subseteq Trade
    BY <2>1 DEF Recent, Since, Printed
  <2>3. Cardinality(S) \in Nat
    BY <2>2, TrackerAssumption, FS_Subset, FS_CardinalityType
  <2>4. ~(Cardinality(S) > Replayed)
    BY <2>2, <2>3, FeedAssumption
  <2>5. QED  BY <2>1, <2>2, <2>4 DEF Old, Printed
<1>6. \A t \in trades' : scoredOn'[t] # NoMid => t \in ToSet(seenOrder')
  BY <1>1, <1>2, <1>5 DEF ScoreInv
<1>7. bookHistory' \in Seq(Nat)
  BY <1>3
<1>8. QED  BY <1>2, <1>3, <1>4, <1>6, <1>7 DEF ScoreInv

\* The first book of a connection starts its history; the next are later.
LEMMA ScoreHearBook ==
    ASSUME FeedInv, ScoreInv, HearBook
    PROVE  ScoreInv'
<1>1. PICK time, all : time = Head(books) /\ all = Append(bookHistory, time)
  OBVIOUS
<1>2. /\ conn = "open" /\ books # <<>> /\ books' = Tail(books) /\ hasBook' = TRUE
      /\ coverageStart' = IF coverageStart = NoMid THEN time ELSE coverageStart
      /\ bookHistory' = IF Len(all) > BookHistory THEN Tail(all) ELSE all
      /\ UNCHANGED <<now, printed, trades, seenOrder, scoredOn>>
  BY <1>1 DEF HearBook, venue
<1>3. time \in printed /\ time \in Nat
  BY <1>1, <1>2, BookIsNext
<1>4. \A b \in ToSet(books') : time < b /\ b \in printed
  BY <1>1, <1>2, BooksLeft
<1>5. printed \subseteq Nat /\ bookHistory \in Seq(Nat) /\ books \in Seq(Nat)
  BY DEF FeedInv, FeedType, ScoreInv
<1>6. all \in Seq(Nat) /\ all # <<>> /\ ToSet(all) = ToSet(bookHistory) \cup {time}
  <2>1. PICK n \in Nat : n = Len(bookHistory) /\ DOMAIN bookHistory = 1 .. n
    BY <1>5
  <2>2. /\ all \in Seq(Nat) /\ DOMAIN all = 1 .. n + 1 /\ all[n + 1] = time /\ all # <<>>
        /\ \A i \in 1 .. n : all[i] = bookHistory[i]
    BY <1>1, <1>3, <1>5, <2>1
  <2>3. \A i \in 1 .. n + 1 : i \in 1 .. n \/ i = n + 1
    OBVIOUS
  <2>4. n + 1 \in 1 .. n + 1 /\ \A i \in 1 .. n : i \in 1 .. n + 1
    OBVIOUS
  <2>5. QED  BY <2>1, <2>2, <2>3, <2>4 DEF ToSet
<1>7. Tail(all) \in Seq(Nat) /\ ToSet(Tail(all)) \subseteq ToSet(all)
  <2>1. PICK n \in Nat : n = Len(all) /\ DOMAIN all = 1 .. n /\ n >= 1
    BY <1>6
  <2>2. PICK rest : rest = Tail(all)
    OBVIOUS
  <2>3. rest \in Seq(Nat) /\ DOMAIN rest = 1 .. n - 1 /\ \A i \in 1 .. n - 1 : rest[i] = all[i + 1]
    BY <1>6, <2>1, <2>2
  <2>4. \A i \in 1 .. n - 1 : i + 1 \in 1 .. n
    BY <2>1
  <2>5. QED  BY <2>1, <2>2, <2>3, <2>4 DEF ToSet
<1>8. bookHistory' \in Seq(Nat) /\ ToSet(bookHistory') \subseteq ToSet(bookHistory) \cup {time}
  BY <1>2, <1>6, <1>7
<1>9. coverageStart' \in printed /\ coverageStart' # NoMid
  BY <1>2, <1>3, <1>5 DEF ScoreInv, NoMid
<1>10. \A b \in ToSet(bookHistory') \cup ToSet(books') : coverageStart' <= b
  <2>1. time \in ToSet(books)
    <3>1. DOMAIN books = 1 .. Len(books) /\ 1 \in DOMAIN books /\ Head(books) = books[1]
      BY <1>2, <1>5
    <3>2. QED  BY <1>1, <3>1 DEF ToSet
  <2>2. \A b \in ToSet(books') : b \in Nat /\ time < b
    <3>1. \A p \in printed : p \in Nat
      BY <1>5
    <3>2. QED  BY <1>4, <3>1
  <2>3. CASE coverageStart = NoMid
    <3>1. PICK none : none = <<>> /\ DOMAIN none = {} /\ bookHistory = none
      BY <2>3 DEF ScoreInv
    <3>2. ToSet(bookHistory) = {}
      BY <3>1 DEF ToSet
    <3>3. \A b \in ToSet(books') : time <= b
      BY <1>3, <2>2
    <3>4. coverageStart' = time /\ ToSet(bookHistory') \subseteq {time} /\ time <= time
      BY <1>2, <1>3, <1>8, <2>3, <3>2
    <3>5. QED  BY <3>3, <3>4
  <2>4. CASE coverageStart # NoMid
    <3>1. coverageStart \in Nat /\ coverageStart <= time /\ coverageStart' = coverageStart
      BY <1>2, <1>5, <2>1, <2>4 DEF ScoreInv
    <3>2. \A b \in ToSet(books') : coverageStart <= b
      BY <1>3, <2>2, <3>1
    <3>3. \A b \in ToSet(bookHistory) : coverageStart <= b
      BY <2>4 DEF ScoreInv
    <3>4. QED  BY <1>8, <3>1, <3>2, <3>3
  <2>5. QED  BY <2>3, <2>4
<1>11. Printed' = Printed /\ \A t : Old(t)' <=> Old(t)
  BY <1>2, VenueKept
<1>12. QED  BY <1>2, <1>8, <1>9, <1>10, <1>11 DEF ScoreInv

\* A message of trades: what gets a score is remembered then.
LEMMA ScoreHearTrades ==
    ASSUME FeedInv, ScoreInv, NEW message \in Messages, NEW able, HearTrades(message, able)
    PROVE  ScoreInv'
<1>1. PICK acc, S : acc = Told(message, able) /\ S = ToSet(message)
  OBVIOUS
<1>2. /\ trades' = trades \ S /\ seenOrder' = acc.order /\ scoredOn' = acc.scoredOn
      /\ UNCHANGED <<now, printed, books, coverageStart, bookHistory, hasBook>>
  BY <1>1 DEF HearTrades, venue
<1>3. Oldest(message) /\ S \subseteq trades /\ trades \subseteq Printed /\ Printed \subseteq Trade
  BY <1>1, MessageIs DEF FeedInv, FeedType, Oldest, Printed
<1>4. OrderGood(acc.order, S) /\ ScoresGood(acc.scoredOn, S, able)
  BY <1>1, <1>3, TradesTaken, ScoresTold DEF LoopGood, FeedInv
<1>5. Printed' = Printed /\ \A t : Old(t)' <=> Old(t)
  BY <1>2, VenueKept
<1>6. \A t \in Trade : scoredOn'[t] # NoMid => t \in S \/ scoredOn[t] # NoMid
  BY <1>2, <1>4 DEF ScoresGood
<1>7. \A t \in ToSet(seenOrder) \cup S : t \in ToSet(acc.order) \/ Old(t)
  BY <1>4 DEF OrderGood
<1>8. \A t \in Trade : scoredOn'[t] # NoMid
         => t \in Printed' /\ (t \in ToSet(seenOrder') \/ Old(t)')
  BY <1>2, <1>3, <1>5, <1>6, <1>7 DEF ScoreInv
<1>9. ASSUME NEW t \in trades \ S, scoredOn'[t] # NoMid PROVE t \in ToSet(acc.order)
  <2>1. t \in ToSet(seenOrder)
    BY <1>3, <1>6, <1>9 DEF ScoreInv
  <2>2. acc.order = seenOrder
    BY <1>4, <1>9, <2>1 DEF OrderGood
  <2>3. QED  BY <2>1, <2>2
<1>10. scoredOn' \in [Trade -> Int]
  BY <1>2, <1>4 DEF ScoresGood
<1>11. QED  BY <1>2, <1>5, <1>8, <1>9, <1>10 DEF ScoreInv

\* The scores start so.
LEMMA ScoreStarts == Init => ScoreInv
<1> SUFFICES ASSUME Init PROVE ScoreInv
  OBVIOUS
<1>1. NoMid \in Int
  BY DEF NoMid
<1>2. QED  BY <1>1 DEF Init, ScoreInv

\* Every step keeps the invariant of the scores.
LEMMA ScoreKeeps == FeedInv /\ ScoreInv /\ [Next]_vars => ScoreInv'
<1> SUFFICES ASSUME FeedInv, ScoreInv, [Next]_vars PROVE ScoreInv'
  OBVIOUS
<1> DEFINE quiet == /\ UNCHANGED <<now, printed, coverageStart, bookHistory, hasBook, seenOrder, scoredOn>>
                    /\ trades' \subseteq trades /\ (books' = books \/ books' = <<>>)
<1>1. CASE UNCHANGED vars
  <2>1. quiet
    BY <1>1 DEF vars, venue, windows, socket
  <2>2. QED  BY <2>1, ScoreKept
<1>2. CASE \E prints \in BOOLEAN : Advance(prints)
  BY <1>2, ScoreAdvance
<1>3. CASE Stall \/ Breaks \/ Closes \/ Reconnect
  <2>1. quiet
    BY <1>3 DEF Stall, Breaks, Closes, OnClose, Reconnect, venue, windows
  <2>2. QED  BY <2>1, ScoreKept
<1>4. CASE Open
  BY <1>4, ScoreOpen
<1>5. CASE HearBook
  BY <1>5, ScoreHearBook
<1>6. CASE \E message \in Messages : \E able \in SUBSET ToSet(message) : HearTrades(message, able)
  BY <1>6, ScoreHearTrades
<1>7. CASE Pong \/ BookAges \/ PingAges \/ EverySecond
  <2>1. quiet
    BY <1>7 DEF Pong, BookAges, PingAges, EverySecond, venue, windows
  <2>2. QED  BY <2>1, ScoreKept
<1>8. QED  BY <1>1, <1>2, <1>3, <1>4, <1>5, <1>6, <1>7 DEF Next

\* A step gives no trade a score but of a book of this connection, out before the trade.
ScoredNow ==
    \A t \in Trade : scoredOn'[t] # scoredOn[t] =>
        /\ coverageStart # NoMid
        /\ scoredOn'[t] \in coverageStart .. TradeTime[t]

\* Every step is such: only a message of trades gives scores, and a trade that has one
\* was remembered.
LEMMA ScoresAreFresh == FeedInv /\ ScoreInv /\ [Next]_vars => ScoredNow
<1> SUFFICES ASSUME FeedInv, ScoreInv, [Next]_vars PROVE ScoredNow
  OBVIOUS
<1>1. CASE scoredOn' = scoredOn
  BY <1>1 DEF ScoredNow
<1>2. ASSUME NEW message \in Messages, NEW able, HearTrades(message, able)
      PROVE  ScoredNow
  <2>1. PICK acc, S : acc = Told(message, able) /\ S = ToSet(message)
    OBVIOUS
  <2>2. scoredOn' = acc.scoredOn
    BY <1>2, <2>1 DEF HearTrades
  <2>3. Oldest(message)
    BY MessageIs DEF FeedInv
  <2>4. ScoresGood(acc.scoredOn, S, able)
    BY <2>1, <2>3, ScoresTold
  <2> SUFFICES ASSUME NEW t \in Trade, scoredOn'[t] # scoredOn[t]
               PROVE  coverageStart # NoMid /\ scoredOn'[t] \in coverageStart .. TradeTime[t]
    BY DEF ScoredNow
  <2>5. PICK b : b = scoredOn'[t] /\ b = ScoreBook(t, able) /\ b # NoMid
    BY <2>2, <2>4 DEF ScoresGood
  <2>6. b \in Int /\ b \in ToSet(bookHistory) /\ b <= TradeTime[t]
    BY <2>5, ScoreBookIs DEF ScoreInv
  <2>7. bookHistory # <<>>
    <3>1. PICK none : none = <<>> /\ DOMAIN none = {}
      OBVIOUS
    <3>2. QED  BY <2>6, <3>1 DEF ToSet
  <2>8. coverageStart # NoMid /\ coverageStart <= b /\ coverageStart \in Int
    BY <2>6, <2>7 DEF ScoreInv, FeedInv, FeedType
  <2>9. TradeTime[t] \in Int
    BY TrackerAssumption
  <2>10. QED  BY <2>5, <2>6, <2>8, <2>9
<1>3. CASE \E message \in Messages : \E able \in SUBSET ToSet(message) : HearTrades(message, able)
  BY <1>2, <1>3
<1>4. CASE UNCHANGED vars
  <2>1. scoredOn' = scoredOn
    BY <1>4 DEF vars, windows
  <2>2. QED  BY <1>1, <2>1
<1>5. CASE \/ \E prints \in BOOLEAN : Advance(prints)
           \/ Stall \/ Breaks \/ Closes \/ Reconnect
           \/ Pong \/ BookAges \/ PingAges \/ EverySecond \/ HearBook \/ Open
  <2>1. scoredOn' = scoredOn
    BY <1>5 DEF Advance, Stall, Breaks, Closes, OnClose, Reconnect, Pong, BookAges, PingAges,
                EverySecond, HearBook, Open, ResetAfterGap, windows
  <2>2. QED  BY <1>1, <2>1
<1>6. QED  BY <1>3, <1>4, <1>5 DEF Next

-----------------------------------------------------------------------------
(* The theorems. *)

\* The feed starts so.
LEMMA FeedStarts == Init => FeedInv
<1> SUFFICES ASSUME Init PROVE FeedInv
  OBVIOUS
<1>1. PICK none : none = <<>>
  OBVIOUS
<1>2. /\ DOMAIN none = {} /\ none \in Seq(Trade) /\ none \in Seq(Nat) /\ none \in Seq(Fill)
      /\ ToSet(none) = {} /\ Ids(none) = {} /\ IsInjective(none) /\ OneEach(none) /\ Increases(none)
  BY <1>1 DEF ToSet, Ids, IsInjective, OneEach, Increases
<1>3. /\ now = 0 /\ printed = {} /\ conn = "connecting" /\ stalled = FALSE
      /\ books = none /\ trades = {} /\ coverageStart = NoMid /\ hasBook = FALSE
      /\ tape = none /\ seenOrder = none
      /\ tracker = [pending |-> none, mids |-> none, resolved |-> none, dropped |-> {}]
  BY <1>1 DEF Init, EmptyTracker
<1>4. /\ tracker \in Tracker /\ tracker.pending = none /\ tracker.mids = none
      /\ tracker.resolved = none
  BY <1>2, <1>3 DEF Tracker
<1>5. FeedType
  BY <1>2, <1>3, <1>4 DEF FeedType
<1>6. SocketInv
  BY <1>1, <1>3 DEF SocketInv
<1>7. Counted = {}
  BY <1>2, <1>3, <1>4 DEF Counted
<1>8. SeenInv
  BY <1>2, <1>3, <1>7 DEF SeenInv, InOrder, News
<1>9. OnceInv /\ NoOrphanOnTape
  BY <1>2, <1>3, <1>4 DEF OnceInv, NoOrphanOnTape
<1>10. BooksInv
  BY <1>1, <1>2, <1>3, <1>4 DEF BooksInv, Stretch
<1>11. LabelInv
  BY <1>2, <1>4 DEF LabelInv
<1>12. QED  BY <1>5, <1>6, <1>8, <1>9, <1>10, <1>11 DEF FeedInv

\* Every step keeps the invariant.
LEMMA FeedKeeps == FeedInv /\ [Next]_vars => FeedInv'
<1> SUFFICES ASSUME FeedInv, [Next]_vars PROVE FeedInv'
  OBVIOUS
<1>1. CASE UNCHANGED vars
  <2>1. UNCHANGED FeedVars
    BY <1>1 DEF vars, venue, windows, socket, FeedVars
  <2>2. QED  BY <2>1, FeedKept
<1>2. CASE \E prints \in BOOLEAN : Advance(prints)
  BY <1>2, AdvanceKeeps
<1>3. CASE Stall \/ Breaks \/ Closes
  BY <1>3, LossesKeep
<1>4. CASE Reconnect
  BY <1>4, ReconnectKeeps
<1>5. CASE Open
  BY <1>5, OpenKeeps
<1>6. CASE HearBook
  BY <1>6, HearBookKeeps
<1>7. CASE \E message \in Messages : \E able \in SUBSET ToSet(message) : HearTrades(message, able)
  BY <1>7, HearTradesKeeps
<1>8. CASE Pong \/ BookAges \/ PingAges
  BY <1>8, AgesKeep
<1>9. CASE EverySecond
  BY <1>9, EverySecondKeeps
<1>10. QED  BY <1>1, <1>2, <1>3, <1>4, <1>5, <1>6, <1>7, <1>8, <1>9 DEF Next

\* The invariant holds in every behaviour of the feed.
THEOREM FeedInvariant == Spec => []FeedInv
<1>1. QED  BY FeedStarts, FeedKeeps, PTL DEF Spec

\* Every label is the first mid the venue printed at or after its fill's horizon and
\* came in time (regret.ts:1-11), however long the feed runs.
THEOREM LabelsAreRight == Spec => []LabelIsHorizonMid
<1>1. FeedInv => LabelIsHorizonMid
  BY DEF FeedInv, LabelInv, Right, LabelIsHorizonMid
<1>2. QED  BY <1>1, FeedInvariant, PTL

\* A trade that is sent again waits or is labelled once, and is on the tape once
\* (seen, feed.ts:355).
THEOREM TradesCountOnce == Spec => []CountedOnce
<1>1. FeedInv => CountedOnce
  <2> SUFFICES ASSUME FeedInv PROVE CountedOnce
    OBVIOUS
  <2> DEFINE waiting == tracker.pending
             done == [i \in DOMAIN tracker.resolved |-> tracker.resolved[i].id]
             shown == [i \in DOMAIN tape |-> tape[i].id]
  <2>1. /\ waiting \in Seq(Trade) /\ tracker.resolved \in Seq(Fill) /\ tape \in Seq(Fill)
        /\ IsInjective(waiting) /\ OneEach(tracker.resolved) /\ OneEach(tape)
        /\ ToSet(waiting) \cap Ids(tracker.resolved) = {}
    BY DEF FeedInv, FeedType, Tracker, OnceInv
  <2>2. done \in Seq(Trade)
    <3>1. /\ Len(tracker.resolved) \in Nat /\ DOMAIN tracker.resolved = 1 .. Len(tracker.resolved)
          /\ \A i \in DOMAIN tracker.resolved : tracker.resolved[i].id \in Trade
      <4>1. \A fill \in Fill : fill.id \in Trade
        BY DEF Fill
      <4>2. QED  BY <2>1, <4>1
    <3>2. QED  BY <3>1
  <2>3. IsInjective(done) /\ ToSet(done) = Ids(tracker.resolved)
    BY <2>1 DEF IsInjective, OneEach, ToSet, Ids
  <2>4. IsInjective(shown)
    BY <2>1 DEF IsInjective, OneEach
  <2> HIDE DEF done, shown
  <2>5. IsInjective(waiting \o done)
    BY <2>1, <2>2, <2>3, Joined DEF Joins
  <2> USE DEF done, shown
  <2>6. QED  BY <2>4, <2>5 DEF CountedOnce
<1>2. QED  BY <1>1, FeedInvariant, PTL

\* A fill on the tape without a label still waits for its mid (forget).
THEOREM NoOrphans == Spec => []NoOrphanOnTape
<1>1. FeedInv => NoOrphanOnTape
  BY DEF FeedInv
<1>2. QED  BY <1>1, FeedInvariant, PTL

\* A score is made on a book of this connection that was out before the trade, and a
\* trade that has one gets no other (score, resetAfterGap).
THEOREM ScoresComeFirst == Spec => ScoredBeforehand
<1>1. Init => FeedInv /\ ScoreInv
  BY FeedStarts, ScoreStarts
<1>2. (FeedInv /\ ScoreInv) /\ [Next]_vars => (FeedInv /\ ScoreInv)'
  BY FeedKeeps, ScoreKeeps
<1>3. FeedInv /\ ScoreInv /\ [Next]_vars => [ScoredNow]_vars
  BY ScoresAreFresh
<1>4. Spec => [][ScoredNow]_vars
  BY <1>1, <1>2, <1>3, PTL DEF Spec
<1>5. QED  BY <1>4 DEF ScoredNow, ScoredBeforehand
=============================================================================
