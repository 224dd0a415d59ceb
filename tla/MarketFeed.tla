------------------------------- MODULE MarketFeed -------------------------------
(***************************************************************************)
(* frontend/src/market/feed.ts: one socket to the venue and the windows it *)
(* feeds.  The venue prints books and trades; what it sends may be late,   *)
(* may be repeated after a reconnect, and is lost while the socket is      *)
(* down.  A socket can also stall in silence, which only the watchdog      *)
(* notices.                                                                *)
(* Scores need a model, a context and finite features: whether a trade has *)
(* them is free, which book it is scored on is not.                        *)
(***************************************************************************)
EXTENDS RegretTracker

CONSTANTS
    MaxTime,        \* the venue's last instant
    MaxBookAge,     \* MAX_BOOK_AGE_MS
    BookHistory,    \* BOOK_HISTORY
    TapeLimit,      \* TAPE_LIMIT
    SeenLimit, SeenBatch,   \* SEEN_LIMIT and what is forgotten at once
    Replayed        \* how many recent trades the venue sends to a new subscriber

ASSUME FeedAssumption ==
    /\ MaxTime \in Nat /\ MaxBookAge \in Nat
    /\ BookHistory \in Nat \ {0} /\ TapeLimit \in Nat \ {0}
    /\ SeenLimit \in Nat \ {0} /\ SeenBatch \in 1 .. SeenLimit
    /\ Replayed \in 0 .. SeenLimit + 1 - SeenBatch

VARIABLES
    now, printed,       \* the venue's clock, and the times of the books it printed
    conn,               \* the socket
    stalled,            \* the venue has gone silent on it
    books, trades,      \* sent on it and not yet heard
    coverageStart, bookHistory, tracker, tape, seenOrder,
    hasBook,            \* a book was heard, ever
    scoredOn,           \* the book every trade was scored on
    bookOld,            \* no book for FEED_STALL_MS
    pongMissing         \* a ping unanswered for PONG_TIMEOUT_MS

venue == <<now, printed>>
windows == <<coverageStart, bookHistory, hasBook, tracker, tape, seenOrder, scoredOn>>
socket == <<conn, stalled, books, trades, bookOld, pongMissing>>
vars == <<venue, socket, windows>>

Init ==
    /\ now = 0 /\ printed = {}
    /\ conn = "connecting" /\ stalled = FALSE
    /\ books = <<>> /\ trades = {} /\ bookOld = FALSE /\ pongMissing = FALSE
    /\ coverageStart = NoMid /\ bookHistory = <<>> /\ hasBook = FALSE
    /\ tracker = EmptyTracker
    /\ tape = <<>> /\ seenOrder = <<>> /\ scoredOn = [t \in Trade |-> NoMid]

-----------------------------------------------------------------------------
\* The venue.
Printed == {t \in Trade : TradeTime[t] <= now}
Since(t) == {u \in Printed : TradeTime[u] >= TradeTime[t]}
Recent == {t \in Printed : Cardinality(Since(t)) <= Replayed}

\* Time passes; a book may be printed, and the trades of the instant are.
Advance(prints) ==
    /\ now < MaxTime
    /\ now' = now + 1
    /\ printed' = IF prints THEN printed \union {now + 1} ELSE printed
    /\ IF conn = "open" /\ ~stalled
       THEN /\ books' = IF prints THEN Append(books, now + 1) ELSE books
            /\ trades' = trades \union {t \in Trade : TradeTime[t] = now + 1}
       ELSE UNCHANGED <<books, trades>>
    /\ UNCHANGED <<conn, stalled, bookOld, pongMissing, windows>>

Stall ==
    /\ conn = "open" /\ ~stalled
    /\ stalled' = TRUE /\ books' = <<>> /\ trades' = {}
    /\ UNCHANGED <<venue, conn, bookOld, pongMissing, windows>>

\* The connection breaks, or cannot be made: onclose runs.
OnClose ==
    /\ conn' = "waiting" /\ stalled' = FALSE
    /\ books' = <<>> /\ trades' = {} /\ bookOld' = FALSE /\ pongMissing' = FALSE
    /\ UNCHANGED <<venue, windows>>

Breaks == conn \in {"connecting", "open"} /\ OnClose
Closes == conn = "closing" /\ OnClose

\* The timer that onclose set.
Reconnect ==
    /\ conn = "waiting" /\ conn' = "connecting"
    /\ UNCHANGED <<venue, stalled, books, trades, bookOld, pongMissing, windows>>

-----------------------------------------------------------------------------
\* stats, and refreshStats when it is not forced: it may have run just before.
Stats(trk) == Trim(trk, now - WindowMs)
Refreshed(trk) == {Stats(trk), trk}

Without(entries, ids) == Only(entries, {e \in ToSet(entries) : e.id \notin ids})

\* Forgetting no fill does nothing; forgetting some refreshes the statistics.
Forgets(trk, ids) == IF ids = {} THEN trk ELSE Stats(trk)

\* Not the code: the fills dropped at a gap stay on the tape; the books from
\* before it stay in the history.
ResetKeepsTape ==
    /\ coverageStart' = NoMid /\ bookHistory' = <<>>
    /\ tracker' = DropsAll(tracker)
    /\ UNCHANGED <<hasBook, tape, seenOrder, scoredOn>>
ResetKeepsBooks ==
    /\ coverageStart' = NoMid
    /\ tracker' = DropsAll(tracker) /\ tape' = Without(tape, ToSet(tracker.pending))
    /\ UNCHANGED <<bookHistory, hasBook, seenOrder, scoredOn>>

\* resetAfterGap; before the first book of all there is nothing to reset.
ResetAfterGap ==
    /\ coverageStart' = NoMid
    /\ IF ~hasBook
       THEN UNCHANGED <<bookHistory, tracker, tape>>
       ELSE /\ bookHistory' = <<>>
            /\ tracker' = Forgets(DropsAll(tracker), ToSet(tracker.pending))
            /\ tape' = Without(tape, ToSet(tracker.pending))
    /\ UNCHANGED <<hasBook, seenOrder, scoredOn>>

\* onopen; the venue answers the subscriptions with its book and recent trades.
Open ==
    /\ conn = "connecting" /\ conn' = "open"
    /\ ResetAfterGap
    /\ books' = IF printed = {} THEN <<>> ELSE <<Max(printed)>>
    /\ trades' = Recent
    /\ bookOld' = FALSE /\ pongMissing' = FALSE
    /\ UNCHANGED <<venue, stalled>>

\* onBook
HearBook ==
    LET time  == Head(books)
        first == coverageStart = NoMid
        early == IF first THEN {id \in ToSet(tracker.pending) : Due(id) < time} ELSE {}
        kept  == Forgets(IF first THEN DropsDueBefore(tracker, time) ELSE tracker, early)
        heard == HearsMid(kept, time)
        told  == Forgets(TakesDropped(heard), heard.dropped)
        gone  == early \union heard.dropped
        done  == ToSet(kept.pending) \ (ToSet(heard.pending) \union heard.dropped)
        left  == Without(tape, gone)
    IN  /\ conn = "open" /\ books # <<>>
        /\ books' = Tail(books) /\ bookOld' = FALSE /\ hasBook' = TRUE
        /\ coverageStart' = IF first THEN time ELSE coverageStart
        /\ bookHistory' = LET all == Append(bookHistory, time)
                          IN  IF Len(all) > BookHistory THEN Tail(all) ELSE all
        /\ tracker' \in IF done = {} THEN {told} ELSE Refreshed(told)
        /\ tape' = [i \in DOMAIN left |->
                       IF left[i].id \in done THEN Labelled(left[i].id, time) ELSE left[i]]
        /\ UNCHANGED <<venue, conn, stalled, trades, pongMissing, seenOrder, scoredOn>>

\* Not the code: the memory is emptied when it is full.
RemembersAnew(order, id) ==
    IF Contains(order, id) THEN order
    ELSE IF Len(order) >= SeenLimit THEN <<id>> ELSE Append(order, id)

\* seen: the ids remembered once id has been looked up.
Remembers(order, id) ==
    LET all == Append(order, id)
    IN  IF Contains(order, id) THEN order
        ELSE IF Len(all) > SeenLimit THEN SubSeq(all, SeenBatch + 1, Len(all)) ELSE all

\* score: the book a trade is scored on, if it has all else it needs.
ScoreBook(id, able) ==
    LET known == {b \in ToSet(bookHistory) : b <= TradeTime[id]}
    IN  IF id \in able /\ known # {} /\ TradeTime[id] - Max(known) <= MaxBookAge
        THEN Max(known) ELSE NoMid

\* The loop of onTrades over one trade.
TakesTrade(acc, id, able) ==
    LET got == Arrives(acc.tracker, id)
        order == Remembers(acc.order, id)
    IN  IF Contains(acc.order, id) THEN acc
        ELSE IF coverageStart # NoMid /\ Due(id) < coverageStart
        THEN [acc EXCEPT !.order = order]
        ELSE [acc EXCEPT !.order = order,
                         !.tracker = got.tracker,
                         !.scoredOn[id] = ScoreBook(id, able),
                         !.added = IF got.outcome = "unavailable" THEN @
                                   ELSE <<Labelled(id, got.mid)>> \o @]

Told(message, able) ==
    LET after[k \in 0 .. Len(message)] ==
            IF k = 0
            THEN [tracker |-> tracker, order |-> seenOrder, scoredOn |-> scoredOn, added |-> <<>>]
            ELSE TakesTrade(after[k - 1], message[k], able)
    IN  after[Len(message)]

\* onTrades: a message of the socket is the oldest of the trades it still carries,
\* in the order of their time.
Messages ==
    {s \in UNION {SetToSeqs({u \in trades : TradeTime[u] <= TradeTime[t]}) : t \in trades} :
        \A i, j \in DOMAIN s : i < j => TradeTime[s[i]] <= TradeTime[s[j]]}

HearTrades(message, able) ==
    LET acc == Told(message, able)
    IN  /\ conn = "open"
        /\ trades' = trades \ ToSet(message)
        /\ seenOrder' = acc.order /\ scoredOn' = acc.scoredOn
        /\ tracker' \in IF acc.added = <<>> THEN {acc.tracker} ELSE Refreshed(acc.tracker)
        /\ tape' = SubSeq(acc.added \o tape, 1, Min({TapeLimit, Len(acc.added \o tape)}))
        /\ UNCHANGED <<venue, conn, stalled, books, bookOld, pongMissing,
                       coverageStart, bookHistory, hasBook>>

-----------------------------------------------------------------------------
\* A ping grows too old unanswered and its pong comes after all; the last book
\* grows too old on this machine's clock.
PingAges ==
    /\ conn = "open" /\ ~pongMissing /\ pongMissing' = TRUE
    /\ UNCHANGED <<venue, conn, stalled, books, trades, bookOld, windows>>

Pong ==
    /\ conn = "open" /\ ~stalled /\ pongMissing /\ pongMissing' = FALSE
    /\ UNCHANGED <<venue, conn, stalled, books, trades, bookOld, windows>>

BookAges ==
    /\ conn = "open" /\ ~bookOld /\ bookOld' = TRUE
    /\ UNCHANGED <<venue, conn, stalled, books, trades, pongMissing, windows>>

\* Not the code: the watchdog only looks at the pong.
EverySecondPong ==
    /\ conn' = IF conn = "open" /\ pongMissing THEN "closing" ELSE conn
    /\ tracker' = Stats(tracker)
    /\ UNCHANGED <<venue, stalled, books, trades, bookOld, pongMissing, coverageStart,
                   bookHistory, hasBook, tape, seenOrder, scoredOn>>

\* The interval of start: watchdog, then refreshStats.
EverySecond ==
    /\ conn' = IF conn = "open" /\ (bookOld \/ pongMissing) THEN "closing" ELSE conn
    /\ tracker' = Stats(tracker)
    /\ UNCHANGED <<venue, stalled, books, trades, bookOld, pongMissing, coverageStart,
                   bookHistory, hasBook, tape, seenOrder, scoredOn>>

-----------------------------------------------------------------------------
Next ==
    \/ \E prints \in BOOLEAN : Advance(prints)
    \/ Stall \/ Breaks \/ Closes \/ Reconnect \/ Open
    \/ HearBook
    \/ \E message \in Messages : \E able \in SUBSET ToSet(message) : HearTrades(message, able)
    \/ Pong \/ BookAges \/ PingAges \/ EverySecond

Spec == Init /\ [][Next]_vars

\* This machine's timers run and the browser reports a closed socket.
Timers == WF_vars(BookAges) /\ WF_vars(EverySecond) /\ WF_vars(Closes) /\ WF_vars(Reconnect)
FairSpec == Spec /\ Timers

-----------------------------------------------------------------------------
\* A label is the first mid the venue printed at or after the fill's horizon, and
\* one that came in time, whatever was lost, replayed or late on the way
\* (regret.ts:1-11).
LabelIsHorizonMid ==
    \A i \in DOMAIN tracker.resolved :
        LET fill == tracker.resolved[i]
            due  == Due(fill.id)
        IN  /\ fill.mid \in printed /\ fill.mid >= due
            /\ \A p \in printed : p >= due => p >= fill.mid
            /\ fill.mid - due <= MaxLagMs

\* A trade that the venue sends again after a reconnect counts once: it waits or
\* is labelled, once, and is on the tape once (seen, feed.ts:355).
CountedOnce ==
    LET waiting == tracker.pending
        done    == [i \in DOMAIN tracker.resolved |-> tracker.resolved[i].id]
        shown   == [i \in DOMAIN tape |-> tape[i].id]
    IN  IsInjective(waiting \o done) /\ IsInjective(shown)

\* A fill shown without a label still waits for its mid: a gap, a late mid or a
\* late stream leaves none on the tape for ever (forget).
NoOrphanOnTape ==
    \A i \in DOMAIN tape : tape[i].mid = NoMid => Contains(tracker.pending, tape[i].id)

\* A score is made on a book of this connection that was out before the trade:
\* no book from before a gap is used after it (score, resetAfterGap).
ScoredBeforehand ==
    [][\A t \in Trade : scoredOn'[t] # scoredOn[t] =>
          /\ coverageStart # NoMid
          /\ scoredOn'[t] \in coverageStart .. TradeTime[t]]_vars

\* A socket that has gone silent is given up and another is tried (watchdog).
StallNoticed == (conn = "open" /\ stalled) ~> (conn = "connecting")
=============================================================================
