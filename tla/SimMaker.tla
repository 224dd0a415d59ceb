------------------------------- MODULE SimMaker -------------------------------
(***************************************************************************)
(* sim/engine.py: makers replayed against the rebuilt book, a block at a   *)
(* time.  An action decided on a row lands a delay later, before the       *)
(* block's events; the events fill the live orders or move them up their   *)
(* queue; a new row lets the strategy decide again.  A strategy is any     *)
(* choice of prices (the protocol of the source), the same for every       *)
(* maker.  Fills are not listed and positions not added up: they feed only *)
(* the strategy.                                                           *)
(***************************************************************************)
EXTENDS AlbersBook

CONSTANTS
    Queues,     \* the queue models: a maker of each
    Quoting,    \* the sides that the strategy quotes
    Wanted,     \* the prices it asks for, NoQuote for none
    Qty, Delay,
    CrossingFills,
    Deep        \* stands for the size of a level that no row shows

NoQuote == 0

ASSUME SimAssumption ==
    /\ Queues \subseteq {"fifo", "risk_averse"}
    /\ Quoting \subseteq Sides /\ Wanted \subseteq Price \cup {NoQuote}
    /\ Qty \in Nat \ {0} /\ Delay \in Nat \ {0}
    /\ CrossingFills \in BOOLEAN /\ Deep \in Nat

VARIABLES
    makers,
    row,        \* the last row given
    lastT,      \* the last block in which something was given
    current     \* for the properties: the row is the top of the book

simVars == <<makers, row, lastT, current>>
vars == <<now, phase, exchange, given, rested, book, warmFrom, makers, row, lastT, current>>

Idle == [live |-> [s \in Sides |-> None], target |-> [s \in Sides |-> NoQuote],
         pending |-> << >>]

Live(m, side) == m.live[side] # None
Awaited(m, side) == \E i \in DOMAIN m.pending : m.pending[i].side = side

\* Not the code: the target is forgotten whatever is on its way.
VacatedAnyway(m, side) == [m EXCEPT !.live[side] = None, !.target[side] = NoQuote]

\* Nothing rests on the side: it is to be quoted again, unless an action is on its way.
Vacated(m, side) ==
    [m EXCEPT !.live[side] = None,
              !.target[side] = IF Awaited(m, side) THEN @ ELSE NoQuote]

Fill(m, side, qty) ==
    IF qty = 0 \/ ~Live(m, side) THEN m
    ELSE IF m.live[side].remaining = qty THEN Vacated(m, side)
    ELSE [m EXCEPT !.live[side].remaining = @ - qty]

\* What a side of the row shows.
BestShown(side) == CHOOSE p \in DOMAIN row[side] : \A q \in DOMAIN row[side] : ~Better(side, q, p)
WithinShown(side, px) ==
    \/ Cardinality(DOMAIN row[side]) < Depth
    \/ \E p \in DOMAIN row[side] : Better(side, px, p)

LevelShown(side, px) ==
    IF px \in DOMAIN row[side] THEN row[side][px].sz
    ELSE IF WithinShown(side, px) THEN 0 ELSE Deep

PostOnlyAdds(events, side, px) ==
    SelectSeq(events, LAMBDA e : e.kind = "add" /\ e.alo /\ e.px = px /\ e.ask = side)

\* For the properties: the row is the book before the block, and every post-only order
\* that joined the level in the block was told.
LevelKnown(side, px, events) ==
    /\ current
    /\ Len(PostOnlyAdds(events, side, px)) =
         Len(SelectSeq(given.block, LAMBDA r :
               r.status = "open" /\ r.alo /\ r.px = px /\ r.ask = side))

Plus(a, b) == IF a = Deep THEN Deep ELSE a + b
Less(a, b) == IF a = Deep THEN Deep ELSE a - b
AtLeast0(n) == IF n < 0 THEN 0 ELSE n
Smaller(a, b) == IF a < b THEN a ELSE b

OrderAt(side, px, t, ahead, sure) ==
    [px |-> px, remaining |-> Qty, placed |-> t, ahead |-> ahead,
     level |-> LevelShown(side, px), sure |-> sure]

\* Not the code: the post-only orders of the block are not counted.
InQueueBefore(side, px, t, events) ==
    OrderAt(side, px, t, LevelShown(side, px), LevelKnown(side, px, events))

InQueue(side, px, t, events) ==
    OrderAt(side, px, t,
            FoldLeft(LAMBDA sum, e : Plus(sum, e.sz), LevelShown(side, px),
                     PostOnlyAdds(events, side, px)),
            LevelKnown(side, px, events))

\* _act: the order of the side goes, then the new one rests unless it would trade.
Act(m, a, t, events) ==
    LET gone == [m EXCEPT !.live[a.side] = None]
    IN IF a.px = NoQuote THEN gone
       ELSE IF Through(a.side, a.px, BestShown(~a.side)) THEN Vacated(gone, a.side)
       ELSE [gone EXCEPT !.live[a.side] = InQueue(a.side, a.px, t, events)]

Arrive(m, t, events) ==
    FoldLeft(LAMBDA mm, a : Act([mm EXCEPT !.pending = Tail(@)], a, t, events),
             m, SelectSeq(m.pending, LAMBDA a : a.at <= t))

InFront(o, e) == e.added < o.placed \/ (e.added = o.placed /\ e.alo)

\* A fill or a cancel in front moves the order up; a fill behind it fills it first.
FifoEvent(m, e) ==
    LET o == m.live[e.ask]
        up == [m EXCEPT !.live[e.ask].ahead = AtLeast0(Less(@, e.sz))]
    IN CASE e.kind = "fill" /\ ~InFront(o, e) ->
                Fill([m EXCEPT !.live[e.ask].ahead = 0], e.ask, Smaller(o.remaining, e.sz))
         [] e.kind # "add" /\ InFront(o, e) -> up
         [] OTHER -> m

\* Only what trades moves the order up, and a level smaller than its place.
RiskAverseEvent(m, e) ==
    LET o == m.live[e.ask]
        level == IF e.kind = "add" THEN Plus(o.level, e.sz) ELSE Less(o.level, e.sz)
        ahead == IF e.kind = "fill" THEN Less(o.ahead, e.sz) ELSE o.ahead
        moved == [m EXCEPT !.live[e.ask].level = level,
                           !.live[e.ask].ahead = Smaller(AtLeast0(ahead), AtLeast0(level))]
    IN IF e.kind = "add" THEN [m EXCEPT !.live[e.ask].level = level]
       ELSE IF ahead < 0 THEN Fill(moved, e.ask, Smaller(o.remaining, -ahead)) ELSE moved

LevelEvent(q, m, e) == IF q = "fifo" THEN FifoEvent(m, e) ELSE RiskAverseEvent(m, e)

Event(q, m, e) ==
    LET at == IF Live(m, e.ask) /\ m.live[e.ask].px = e.px THEN LevelEvent(q, m, e) ELSE m
        other == ~e.ask
    IN CASE e.kind = "fill" /\ Live(at, e.ask) /\ Better(e.ask, at.live[e.ask].px, e.px) ->
                Fill(at, e.ask, Smaller(at.live[e.ask].remaining, e.sz))
         [] e.kind = "add" /\ (CrossingFills \/ ~e.alo) /\ Live(at, other)
                /\ Through(e.ask, e.px, at.live[other].px) ->
                Fill(at, other, Smaller(at.live[other].remaining, e.sz))
         [] OTHER -> at

\* A target that changes is sent.
Decide(m, side, want, t) ==
    IF want = m.target[side] THEN m
    ELSE [m EXCEPT !.target[side] = want,
                   !.pending = Append(@, [at |-> t + Delay, side |-> side, px |-> want])]

Quote(m, wants, t) ==
    LET bid == IF FALSE \in Quoting THEN Decide(m, FALSE, wants[FALSE], t) ELSE m
    IN IF TRUE \in Quoting THEN Decide(bid, TRUE, wants[TRUE], t) ELSE bid

\* _drop_all: after a gap nothing rests, is wanted, or is on its way.
DropAll(m, t) == IF lastT # None /\ t - lastT > Gap THEN Idle ELSE m

AfterEvents(q, m, t, events) ==
    LET dropped == DropAll(m, t)
        arrived == IF row # None THEN Arrive(dropped, t, events) ELSE dropped
    IN FoldLeft(LAMBDA mm, e : Event(q, mm, e), arrived, events)

\* The end of a block, and what the simulator makes of it.
Block ==
    /\ CloseBlock
    /\ IF RowGiven = None /\ EventsGiven = << >> THEN UNCHANGED <<makers, row, lastT>>
       ELSE /\ lastT' = now
            /\ row' = IF RowGiven = None THEN row ELSE RowGiven
            /\ \E wants \in [Quoting -> Wanted] :
                 /\ RowGiven = None => wants = [s \in Quoting |-> NoQuote]
                 /\ makers' = [q \in Queues |->
                      LET m == AfterEvents(q, makers[q], now, EventsGiven)
                      IN IF RowGiven = None THEN m ELSE Quote(m, wants, now)]
    /\ current' = (TwoSided(book) /\ row' = Top(book))

Init ==
    /\ AlbersInit
    /\ makers = [q \in Queues |-> Idle]
    /\ row = None /\ lastT = None
    /\ current = FALSE

Next ==
    \/ Streams /\ UNCHANGED simVars
    \/ Block

Spec == Init /\ [][Next]_vars
-----------------------------------------------------------------------------
\* What rests in front of an order in the rebuilt book.
FrontSize(side, o) ==
    MapThenSumSet(LAMBDA h : h.sz,
        {[oid |-> i] @@ book.orders[i] : i \in
            {j \in DOMAIN book.orders :
                /\ book.orders[j].ask = side /\ book.orders[j].px = o.px
                /\ InFront(o, book.orders[j])}})

\* After every block, at least the volume that rests in front of a fifo order in the
\* rebuilt book is ahead of it: it is never filled out of its turn.  It is so if the
\* row that told its level was the book's top: no row is given while the book shows
\* one side, and an order placed then counts an old level (engine.py:215-277).
QueuePlaceKept ==
    given.block = << >> /\ "fifo" \in Queues =>
        \A side \in Quoting :
            LET o == makers["fifo"].live[side]
            IN o # None /\ o.sure => o.ahead >= FrontSize(side, o)

\* The last action on its way for the side, the price that rests, or nothing.
Underway(m, side) ==
    LET sent == SelectSeq(m.pending, LAMBDA a : a.side = side)
    IN IF sent # << >> THEN Last(sent).px
       ELSE IF Live(m, side) THEN m.live[side].px ELSE NoQuote

\* A maker's target is what rests or is on its way, so a quote that was rejected,
\* filled or dropped is sent again at the next row, and one on its way is not sent
\* twice (engine.py:141, 182-212, 225, 291, 302-309).
TargetTells ==
    \A q \in Queues, side \in Quoting :
        makers[q].target[side] = Underway(makers[q], side)
=============================================================================
