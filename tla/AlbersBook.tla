------------------------------ MODULE AlbersBook ------------------------------
(***************************************************************************)
(* sources/albers_l4.py and cli/build_albers_silver.py: the book of one    *)
(* coin rebuilt from the exchange's order statuses, block after block,     *)
(* joined with its book diffs: a status says when, a `new` diff which      *)
(* orders rest and at what size.  The exchange and its archive are         *)
(* external.  Inside a block HyperCore runs post-only orders first, then   *)
(* cancels, then the rest.  An `open` carries the size submitted, also if  *)
(* the order trades on entry; then it has no diff, or one of what is left  *)
(* of it.  A trigger has its diff from its placement.  The status of a     *)
(* fill carries what remains.  The archive can miss a stretch of blocks,   *)
(* and can jump back to earlier blocks and repeat statuses it already      *)
(* gave.  Sizes are whole, so levels are not rounded.                      *)
(***************************************************************************)
EXTENDS Integers, SequencesExt

CONSTANTS
    Oid, Price, Size,
    Opening,                \* the orders of the first block
    Depth,                  \* how many levels of a side a row shows
    Gap, Warmup,            \* the jump that resets the book, and how long rows are dropped
    MaxTime, MaxRecords, MaxTotal,  \* bounds: the blocks, their statuses, and all statuses
    None

ASSUME AlbersAssumption ==
    /\ Price \subseteq Nat \ {0} /\ Size \subseteq Nat \ {0}
    /\ Oid \subseteq Nat
    /\ Depth \in Nat \ {0} /\ Gap \in Nat \ {0} /\ Warmup \in Nat

VARIABLES
    now, phase,     \* the block and how far it has come
    exchange,       \* the orders that rest, the oldest first; known: opened in the data
    given,          \* the statuses of this block and of the one before
    rested,         \* the size in the `new` diff of an order, 0 if it has none
    book, warmFrom

Sides == BOOLEAN    \* TRUE is the ask
Fresh == [orders |-> << >>, levels |-> [ask \in Sides |-> << >>],
          lastTop |-> None, dirty |-> TRUE, mbo |-> << >>]

Better(ask, p, q) == IF ask THEN p < q ELSE p > q
Through(ask, p, q) == IF ask THEN p <= q ELSE p >= q

Prices(b, ask) == DOMAIN b.levels[ask]
Best(b, ask) == CHOOSE p \in Prices(b, ask) : \A q \in Prices(b, ask) : ~Better(ask, q, p)
TwoSided(b) == \A ask \in Sides : Prices(b, ask) # {}

\* Is the price within the top levels of its side?
Near(b, ask, px) ==
    \/ Cardinality(Prices(b, ask)) <= Depth
    \/ Cardinality({p \in Prices(b, ask) : Better(ask, p, px)}) < Depth

Told(b, kind, o, sz) ==
    Append(b.mbo, [kind |-> kind, ask |-> o.ask, px |-> o.px, sz |-> sz,
                   added |-> o.added, alo |-> o.alo])

Without(f, x) == [y \in DOMAIN f \ {x} |-> f[y]]

LevelLeft(levels, o) ==
    LET l == levels[o.px]
    IN IF l.n = 1 THEN Without(levels, o.px)
       ELSE o.px :> [sz |-> l.sz - o.sz, n |-> l.n - 1] @@ levels

\* An order leaves the book.  A fill is always told, a cancel only near the touch.
TakenOff(b, oid, kind) ==
    LET o == b.orders[oid]
        near == Near(b, o.ask, o.px)
    IN [b EXCEPT !.orders = Without(@, oid),
                 !.levels[o.ask] = LevelLeft(@, o),
                 !.dirty = @ \/ near,
                 !.mbo = IF kind = "fill" \/ near THEN Told(b, kind, o, o.sz) ELSE @]

\* A partial fill shrinks the order in place.
Shrunk(b, oid, sz) ==
    LET o == b.orders[oid]
    IN [b EXCEPT !.orders[oid].sz = sz,
                 !.levels[o.ask][o.px].sz = @ + sz - o.sz,
                 !.dirty = @ \/ Near(b, o.ask, o.px),
                 !.mbo = Told(b, "fill", o, o.sz - sz)]

LevelJoined(levels, o) ==
    LET l == IF o.px \in DOMAIN levels THEN levels[o.px] ELSE [sz |-> 0, n |-> 0]
    IN o.px :> [sz |-> l.sz + o.sz, n |-> l.n + 1] @@ levels

Rested(b, r) ==
    LET o == [ask |-> r.ask, px |-> r.px, sz |-> r.sz, added |-> r.ts, alo |-> r.alo]
        joined == [b EXCEPT !.orders = r.oid :> o @@ @,
                            !.levels[o.ask] = LevelJoined(@, o)]
        near == Near(joined, o.ask, o.px)
    IN [joined EXCEPT !.dirty = @ \/ near,
                      !.mbo = IF near THEN Told(b, "add", o, o.sz) ELSE @]

Marketable(b, ask, px) ==
    /\ Prices(b, ~ask) # {}
    /\ Through(ask, px, Best(b, ~ask))

Holds(b, oid) == oid \in DOMAIN b.orders

\* Not the code: an order rests as it was submitted, diff or no diff.
SubmittedSize(diffs, r) == r.sz

\* The join of the streams: an order rests if it has a diff, and at its size.
RestSize(diffs, r) == diffs[r.oid]

\* One status; a status of an order that the book does not hold changes nothing.
Applied(diffs, b, r) ==
    LET size  == RestSize(diffs, r)
        rests == [r EXCEPT !.sz = size]
    IN CASE r.status = "open" /\ size # 0 ->
               Rested(IF Holds(b, r.oid) THEN TakenOff(b, r.oid, "cancel") ELSE b, rests)
         [] r.status = "triggered" /\ size # 0 ->
               IF Holds(b, r.oid) \/ Marketable(b, r.ask, r.px) THEN b
               ELSE Rested(b, [rests EXCEPT !.alo = FALSE])
         [] r.status = "filled" /\ Holds(b, r.oid) ->
               IF r.sz = 0 THEN TakenOff(b, r.oid, "fill") ELSE Shrunk(b, r.oid, r.sz)
         [] r.status = "removed" /\ Holds(b, r.oid) -> TakenOff(b, r.oid, "cancel")
         [] OTHER -> b

InTimeOrder(rs) == \A i, j \in DOMAIN rs : rs[i].ts >= now /\ (i < j => rs[i].ts <= rs[j].ts)

\* Not the code: the archive's replays are kept.
KeepsReplayed(rs) == rs

Once(rs) == FoldLeft(LAMBDA kept, r : IF r \in ToSet(kept) THEN kept ELSE Append(kept, r), << >>, rs)

\* drop_replayed: what is in time order stays as it is; otherwise nothing behind the
\* newest status, and no exact copies at the seam.
DropReplayed(rs) ==
    IF InTimeOrder(rs) THEN rs
    ELSE Once(SelectSeq(rs, LAMBDA r : r.ts >= now /\ r \notin ToSet(given.block)))

\* What the archive repeats when it jumps back: some statuses in a row, from a
\* block before the newest on.
Windows ==
    IF given.before = << >> \/ given.block = << >> THEN {<< >>}
    ELSE {<< >>} \union {given.before \o SubSeq(given.block, 1, j) : j \in 0 .. Len(given.block)}

\* The archive gives some statuses of this block, perhaps after jumping back.  The
\* diffs of the hour are read before its statuses (build).
Delivered(rs, diffs) ==
    /\ now < MaxTime /\ Len(given.block) + Len(rs) <= MaxRecords
    /\ given.total + Len(rs) <= MaxTotal
    /\ \E kept \in {DropReplayed(w \o rs) : w \in Windows} :
         /\ book' = FoldLeft(LAMBDA b, r : Applied(diffs, b, r), book, kept)
         /\ given' = [given EXCEPT !.block = @ \o kept, !.total = @ + Len(rs)]
    /\ rested' = diffs
    /\ UNCHANGED <<now, warmFrom>>

RecordAt(t, status, o, sz) ==
    [ts |-> t, status |-> status, oid |-> o.oid, ask |-> o.ask, px |-> o.px,
     sz |-> sz, alo |-> o.alo]
Record(status, o, sz) == RecordAt(now, status, o, sz)

\* The exchange.
Resting(ask) == {o \in ToSet(exchange) : o.ask = ask}
Trades(ask, px) == \E o \in Resting(~ask) : Through(ask, px, o.px)

UnusedOid == {i \in Oid : /\ \A o \in ToSet(exchange) : o.oid # i
                          /\ \A r \in ToSet(given.block) : r.oid # i}

NewOrder(ask, px, sz, alo) ==
    [oid |-> Min(UnusedOid), ask |-> ask, px |-> px, sz |-> sz, added |-> now,
     alo |-> alo, known |-> TRUE]

\* An order gets its `new` diff.
NewDiff(o, sz) == [rested EXCEPT ![o.oid] = sz]

Opens(ask, px, sz, alo) ==
    /\ phase = "alo" \/ ~alo
    /\ UnusedOid # {} /\ ~Trades(ask, px)
    /\ LET o == NewOrder(ask, px, sz, alo)
       IN exchange' = Append(exchange, o) /\ Delivered(<<Record("open", o, sz)>>, NewDiff(o, sz))
    /\ phase' = IF alo THEN phase ELSE "taker"

\* A status opens an order that rests already and has not traded, so that its
\* diffs have one size: it joins the back of its level.
OpensAgain(i, px) ==
    /\ phase = "alo"
    /\ LET old == exchange[i]
           o == [old EXCEPT !.px = px, !.added = now, !.alo = TRUE, !.known = TRUE]
       IN /\ old.added < now /\ ~Trades(o.ask, px) /\ old.sz = rested[old.oid]
          /\ exchange' = Append(RemoveAt(exchange, i), o)
          /\ Delivered(<<Record("open", o, o.sz)>>, rested)
    /\ UNCHANGED phase

Removes(i) ==
    /\ phase \in {"alo", "cancel"}
    /\ exchange' = RemoveAt(exchange, i)
    /\ Delivered(<<Record("removed", exchange[i], exchange[i].sz)>>, rested)
    /\ phase' = "cancel"

\* The next order in price and time.
NextInTurn(ask) ==
    CHOOSE i \in DOMAIN exchange :
        /\ exchange[i].ask = ask
        /\ \A j \in DOMAIN exchange \ {i} : exchange[j].ask = ask =>
             \/ Better(ask, exchange[i].px, exchange[j].px)
             \/ exchange[i].px = exchange[j].px /\ i < j

FilledBy(i, qty) ==
    IF exchange[i].sz = qty THEN RemoveAt(exchange, i)
    ELSE [exchange EXCEPT ![i].sz = @ - qty]

TakerFills(ask, qty) ==
    /\ Resting(ask) # {}
    /\ LET i == NextInTurn(ask) IN
         /\ qty <= exchange[i].sz
         /\ exchange' = FilledBy(i, qty)
         /\ Delivered(<<Record("filled", exchange[i], exchange[i].sz - qty)>>, rested)
    /\ phase' = "taker"

\* A limit order trades on entry, with the next order in turn; what is left of it
\* rests, if nothing else stands in its way, and logs no fill of its own.
OpenTrades(ask, px, sz) ==
    /\ UnusedOid # {} /\ Trades(ask, px)
    /\ LET i    == NextInTurn(~ask)
           qty  == Min({sz, exchange[i].sz})
           o    == NewOrder(ask, px, sz - qty, FALSE)
           gone == IF o.sz = 0 THEN <<Record("filled", o, 0)>> ELSE << >>
       IN /\ o.sz # 0 => \A x \in Resting(~ask) : x.oid = exchange[i].oid \/ ~Through(ask, px, x.px)
          /\ exchange' = FilledBy(i, qty) \o (IF o.sz = 0 THEN << >> ELSE <<o>>)
          /\ Delivered(<<Record("open", o, sz), Record("filled", exchange[i], exchange[i].sz - qty)>>
                         \o gone, NewDiff(o, o.sz))
    /\ phase' = "taker"

\* A trigger fires at a limit that does not trade, and rests.
TriggerRests(ask, px, sz) ==
    /\ UnusedOid # {} /\ ~Trades(ask, px)
    /\ LET o == NewOrder(ask, px, sz, FALSE)
       IN exchange' = Append(exchange, o) /\ Delivered(<<Record("triggered", o, sz)>>, NewDiff(o, sz))
    /\ phase' = "taker"

\* A trigger fires through the best order and trades with it.
TriggerTrades(ask, px, qty) ==
    /\ UnusedOid # {} /\ Resting(~ask) # {}
    /\ LET i == NextInTurn(~ask)
           o == NewOrder(ask, px, qty, FALSE)
       IN /\ Through(ask, px, exchange[i].px) /\ qty <= exchange[i].sz
          /\ exchange' = FilledBy(i, qty)
          /\ Delivered(<<Record("triggered", o, qty),
                         Record("filled", exchange[i], exchange[i].sz - qty),
                         Record("filled", o, 0)>>, NewDiff(o, qty))
    /\ phase' = "taker"

\* The archive misses the blocks of more than a gap: some orders left, and no
\* status of an earlier one says what rests.
Misses ==
    /\ given.block = << >> /\ now + Gap + 1 <= MaxTime
    /\ now' = now + Gap + 1
    /\ \E left \in SUBSET ToSet(exchange) :
         exchange' = LET kept == SelectSeq(exchange, LAMBDA o : o \notin left)
                     IN [i \in DOMAIN kept |-> [kept[i] EXCEPT !.known = FALSE]]
    /\ book' = Fresh /\ warmFrom' = now' + Warmup
    /\ given' = [given EXCEPT !.before = << >>]
    /\ UNCHANGED <<phase, rested>>

\* The levels a row shows.
Top(b) ==
    [ask \in Sides |->
        Restrict(b.levels[ask], {p \in Prices(b, ask) :
            Cardinality({q \in Prices(b, ask) : Better(ask, q, p)}) < Depth})]

\* _close_blocks: a row if the book shows two sides and its top has changed.
Closed(b) == IF ~TwoSided(b) THEN b
             ELSE [b EXCEPT !.dirty = FALSE, !.lastTop = IF b.dirty THEN Top(b) ELSE @]
NewRow(b) == IF Closed(b).lastTop = b.lastTop THEN None ELSE Closed(b).lastTop

\* Rows and events of the warm-up are dropped.
Warm == now >= warmFrom
RowGiven == IF Warm THEN NewRow(book) ELSE None
EventsGiven == IF Warm THEN book.mbo ELSE << >>

\* As far as the archive jumps back: the last status of the block before.
LastOf(rs) == IF rs = << >> THEN rs ELSE <<Last(rs)>>

CloseBlock ==
    /\ now < MaxTime
    /\ book' = [Closed(book) EXCEPT !.mbo = << >>]
    /\ now' = now + 1 /\ phase' = "alo"
    /\ given' = [given EXCEPT !.before = LastOf(given.block), !.block = << >>]
    /\ UNCHANGED <<exchange, rested, warmFrom>>

AlbersInit ==
    /\ now = 1 /\ phase = "taker"
    /\ exchange = Opening
    /\ LET rs == [i \in DOMAIN Opening |-> RecordAt(1, "open", Opening[i], Opening[i].sz)]
       IN /\ given = [before |-> << >>, block |-> rs, total |-> 0]
          /\ rested = FoldLeft(LAMBDA f, o : o.oid :> o.sz @@ f, [i \in Oid |-> 0], Opening)
          /\ book = FoldLeft(LAMBDA b, r : Applied(rested, b, r), Fresh, rs)
    /\ warmFrom = 1 + Warmup

\* What the exchange does, as long as the archive gives more statuses.
Streams ==
    \/ /\ given.total < MaxTotal
       /\ \/ \E ask \in Sides, px \in Price, sz \in Size, alo \in BOOLEAN : Opens(ask, px, sz, alo)
          \/ \E i \in DOMAIN exchange : Removes(i)
          \/ \E i \in DOMAIN exchange, px \in Price : OpensAgain(i, px)
          \/ \E ask \in Sides, qty \in Size : TakerFills(ask, qty)
          \/ \E ask \in Sides, px \in Price, sz \in Size :
                OpenTrades(ask, px, sz) \/ TriggerRests(ask, px, sz) \/ TriggerTrades(ask, px, sz)
    \/ Misses
-----------------------------------------------------------------------------
KnownOrders ==
    {[oid |-> o.oid, ask |-> o.ask, px |-> o.px, sz |-> o.sz, added |-> o.added]
        : o \in {x \in ToSet(exchange) : x.known}}
HeldOrders ==
    {[oid |-> i, ask |-> book.orders[i].ask, px |-> book.orders[i].px,
      sz |-> book.orders[i].sz, added |-> book.orders[i].added] : i \in DOMAIN book.orders}

\* The book holds the orders that opened since the data began or the last gap, each
\* with what is left of it and its place in time, and no other; its levels are
\* their sums - replays, triggers, orders opened again and orders that trade on
\* entry notwithstanding (albers_l4.py:258-281, 386-414, 452-520).
RebuiltBook ==
    /\ HeldOrders = KnownOrders
    /\ \A ask \in Sides :
         LET at(px) == {o \in HeldOrders : o.ask = ask /\ o.px = px}
         IN /\ Prices(book, ask) = {o.px : o \in {h \in HeldOrders : h.ask = ask}}
            /\ \A px \in Prices(book, ask) :
                 book.levels[ask][px] = [sz |-> MapThenSumSet(LAMBDA o : o.sz, at(px)),
                                         n |-> Cardinality(at(px))]
=============================================================================
