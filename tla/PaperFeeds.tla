------------------------------- MODULE PaperFeeds -------------------------------
(***************************************************************************)
(* marketimmune/paper/live.py and events.py: the two feeds of a live run,  *)
(* its clock, its recording, and the replay of the recording.  hl_feed,    *)
(* cb_feed and the tick loop share one event loop; what one does between   *)
(* two awaits is one step here, and takes an instant of its own.           *)
(*                                                                         *)
(* A Coinbase book is the set of the changes it holds: a snapshot brings   *)
(* all that were made, an update one.  What the engine is given is the     *)
(* book behind a reference top, the trade or book time of a Hyperliquid    *)
(* message, or a tick.  hl_feed keeps nothing across a reconnect, so a     *)
(* lost connection is a silence, and trades that come late behind it.  The *)
(* recording is one sequence here, in the order of the live run; a file of *)
(* it is what a venue wrote.                                               *)
(***************************************************************************)
EXTENDS Integers, SequencesExt

CONSTANTS
    MaxTime,        \* the last instant
    Skews,          \* this machine's clock less Coinbase's, when the run begins
    Drifts,         \* what an instant may add to that
    Delays,         \* what a Coinbase message may take to get here
    Floor,          \* NETWORK_FLOOR_MS
    Slew,           \* CLOCK_SLEW_MS
    Window,         \* CLOCK_WINDOW_S
    Ages, StaleTrade,   \* how old a trade may come, and STALE_TRADE_MS
    MaxDrops,       \* how often Coinbase's connection may be lost
    None

ASSUME FeedsAssumption ==
    /\ MaxTime \in Nat /\ Skews \subseteq Int /\ Drifts \subseteq Int /\ Delays \subseteq Nat
    /\ {Floor, Slew, Window, StaleTrade, MaxDrops} \subseteq Nat /\ Ages \subseteq Nat
    /\ None \notin Int

Venues == <<"cb", "hl", "tick">>    \* in the order of the files' names

VARIABLES
    now, skew,          \* Coinbase's time, and how far this machine's is ahead
    offset, target, started, least, lastNs,     \* Clock
    cb,                 \* Coinbase's connection is up
    sent,               \* messages Coinbase sent on this connection
    shown,              \* it has sent the snapshot
    version,            \* changes of Coinbase's book so far
    books,              \* CoinbaseBooks
    lines,              \* what was heard: venue, time, message, and what the engine got
    drops,              \* connections of Coinbase's lost, or to be given up
    \* History:
    basis,              \* the skews of the samples that the offset rests on
    headless,           \* the connection's first message was lost
    broken              \* a connection was lost that no gap had ended

clock == <<skew, offset, target, started, least, lastNs, basis>>
coinbase == <<cb, sent, shown, version, books>>
vars == <<now, clock, coinbase, lines, drops, headless, broken>>

MinOf(S) == CHOOSE x \in S : \A y \in S : x <= y
MaxOf(S) == CHOOSE x \in S : \A y \in S : x >= y

-----------------------------------------------------------------------------
(* The clock. *)

Wall == now + skew

\* An instant passes; this machine's clock drifts meanwhile.
Passes ==
    /\ now < MaxTime /\ now' = now + 1
    /\ \E drift \in Drifts : skew' = skew + drift

\* Clock.now_ns, when this machine's clock shows wall: never back.
NowNs(wall, off) == MaxOf({lastNs, wall - off})

\* A sample of least: when, and the delay that was measured, of which one part
\* is the skew.
Sample(wall, delay, ahead) == [wall |-> wall, delay |-> delay, skew |-> ahead]
Measured(sample) == sample.skew + sample.delay

\* Clock.observe: the least delay over the window sets the target.
Observed(wall, delay, ahead) ==
    {Sample(wall, delay, ahead)} \union {sample \in least : sample.wall > wall - Window}

Observe(wall, delay, ahead) ==
    /\ least' = Observed(wall, delay, ahead)
    /\ target' = MinOf({Measured(sample) : sample \in Observed(wall, delay, ahead)}) - Floor

\* Not the code: a correction smaller than the slew overshoots.
SteppedFull ==
    IF target = None THEN offset
    ELSE IF ~started THEN target
    ELSE offset + (IF target < offset THEN -Slew ELSE Slew)

\* Clock.step: at once the first time, slewed afterwards.
Stepped ==
    IF target = None THEN offset
    ELSE IF ~started THEN target
    ELSE offset + MaxOf({-Slew, MinOf({Slew, target - offset})})

\* The offset rests on the window's samples, and, until it meets a target, on
\* those of before as well.
BasisFollows ==
    basis' = {sample.skew : sample \in least'} \union (IF offset' = target' THEN {} ELSE basis)

-----------------------------------------------------------------------------
(* CoinbaseBooks. *)

FreshBooks == [seq |-> None, known |-> {}]

\* Not the code: the numbers are not looked at.
NoGap(bk, msg) == FALSE

\* The assertion of apply fails.
SequenceGap(bk, msg) == bk.seq # None /\ msg.seq # bk.seq + 1

\* apply, when it does not raise.
Applied(bk, msg) ==
    [seq |-> msg.seq,
     known |-> CASE msg.kind = "snapshot" -> 0 .. msg.version
                 [] msg.kind = "update"   -> bk.known \union {msg.version}
                 [] OTHER                 -> bk.known]

\* The reference top that apply gives: the book it is read from.
RefTop(bk, msg) ==
    IF msg.kind = "other" \/ SequenceGap(bk, msg) THEN None ELSE Applied(bk, msg).known

\* parse_hl: a trade too old is dropped.
ParsedHl(msg, at) == IF at - msg.time > StaleTrade THEN None ELSE msg.time

-----------------------------------------------------------------------------
(* The live run. *)

Line(venue, at, msg, gave) ==
    [venue |-> venue, at |-> at, msg |-> msg, gave |-> gave,
     headless |-> headless, broken |-> broken]

\* cb_feed connects; the book may have changed meanwhile.
CbConnects ==
    /\ ~cb /\ cb' = TRUE
    /\ sent' = 0 /\ shown' = FALSE /\ books' = FreshBooks
    /\ version' = version + 1
    /\ headless' = FALSE
    /\ UNCHANGED <<now, clock, lines, drops, broken>>

\* What Coinbase sends next: a heartbeat, or the snapshot and then updates.
NextMessage(kind) ==
    /\ kind = "snapshot" => ~shown
    /\ kind = "update" => shown
    /\ sent' = sent + 1
    /\ shown' = (shown \/ kind = "snapshot")
    /\ version' = IF kind = "update" THEN version + 1 ELSE version

\* One it drops, be it the first of the connection.  More in a row are as one.
CbLoses(kind) ==
    /\ cb /\ drops < MaxDrops
    /\ sent = IF books.seq = None THEN 0 ELSE books.seq + 1
    /\ NextMessage(kind)
    /\ headless' = (headless \/ books.seq = None)
    /\ UNCHANGED <<now, clock, cb, books, lines, drops, broken>>

\* Not the code: a message is recorded once it has been applied.
HearCbUnwritten(kind, delay) ==
    LET msg == [seq |-> sent, kind |-> kind, version |-> version']
        at  == NowNs(Wall', offset)
        gap == SequenceGap(books, msg)
    IN  /\ cb /\ Passes
        /\ NextMessage(kind)
        /\ Observe(Wall', delay, skew')
        /\ lastNs' = at
        /\ lines' = IF gap THEN lines ELSE Append(lines, Line("cb", at, msg, RefTop(books, msg)))
        /\ books' = IF gap THEN books ELSE Applied(books, msg)
        /\ cb' = ~gap
        /\ drops' = drops + (IF gap THEN 1 ELSE 0)
        /\ UNCHANGED <<offset, started, headless, broken>>
        /\ BasisFollows

\* cb_feed hears a message; a sequence gap ends the connection.
HearCb(kind, delay) ==
    LET msg == [seq |-> sent, kind |-> kind, version |-> version']
        at  == NowNs(Wall', offset)
        gap == SequenceGap(books, msg)
    IN  /\ cb /\ Passes
        /\ NextMessage(kind)
        /\ Observe(Wall', delay, skew')
        /\ lastNs' = at
        /\ lines' = Append(lines, Line("cb", at, msg, RefTop(books, msg)))
        /\ books' = IF gap THEN books ELSE Applied(books, msg)
        /\ cb' = ~gap
        /\ drops' = drops + (IF gap THEN 1 ELSE 0)
        /\ UNCHANGED <<offset, started, headless, broken>>
        /\ BasisFollows

\* The connection ends in another way.
CbDrops ==
    /\ cb /\ drops < MaxDrops /\ cb' = FALSE
    /\ drops' = drops + 1
    /\ broken' = (broken \/ books.seq # None)
    /\ UNCHANGED <<now, clock, sent, shown, version, books, lines, headless>>

\* hl_feed hears a trade, one of before the subscription maybe.
HearHl(age) ==
    LET at  == NowNs(Wall', offset)
        msg == [time |-> now' - age]
    IN  /\ Passes
        /\ lastNs' = at
        /\ lines' = Append(lines, Line("hl", at, msg, ParsedHl(msg, at)))
        /\ UNCHANGED <<offset, target, started, least, basis, coinbase, drops, headless, broken>>

\* A turn of run_live's loop.
Tick ==
    LET at == NowNs(Wall', Stepped)
    IN  /\ Passes
        /\ offset' = Stepped
        /\ started' = (started \/ target # None)
        /\ lastNs' = at
        /\ lines' = Append(lines, Line("tick", at, [time |-> at], at))
        /\ UNCHANGED <<target, least, coinbase, drops, headless, broken>>
        /\ BasisFollows

Init ==
    /\ now = 1 /\ skew \in Skews
    /\ offset = 0 /\ target = None /\ started = FALSE /\ least = {} /\ lastNs = 0 /\ basis = {}
    /\ cb = FALSE
    /\ sent = 0 /\ shown = FALSE /\ version = 0 /\ books = FreshBooks
    /\ lines = <<>> /\ drops = 0 /\ headless = FALSE /\ broken = FALSE

Next ==
    \/ CbConnects \/ CbDrops \/ Tick
    \/ \E kind \in {"snapshot", "update", "other"} :
          CbLoses(kind) \/ \E delay \in Delays : HearCb(kind, delay)
    \/ \E age \in Ages : HearHl(age)

Spec == Init /\ [][Next]_vars

-----------------------------------------------------------------------------
(* The replay. *)

Rank(venue) == CHOOSE i \in DOMAIN Venues : Venues[i] = venue

\* raw_lines: the files merged by time, those of equal times in the order of
\* the files.
Precedes(i, j) ==
    \/ lines[i].at < lines[j].at
    \/ lines[i].at = lines[j].at /\ Rank(lines[i].venue) < Rank(lines[j].venue)
    \/ lines[i].at = lines[j].at /\ lines[i].venue = lines[j].venue /\ i < j

Place(kept, i) == Cardinality({j \in kept : Precedes(j, i)}) + 1

Merged(kept) == [n \in 1 .. Cardinality(kept) |-> CHOOSE i \in kept : Place(kept, i) = n]

\* replay, of one line: books that meet a gap are replaced.
Replayed(acc, i) ==
    LET line == lines[i]
        gap  == line.venue = "cb" /\ SequenceGap(acc.books, line.msg)
        gave == CASE line.venue = "cb" -> RefTop(acc.books, line.msg)
                  [] line.venue = "hl" -> ParsedHl(line.msg, line.at)
                  [] OTHER             -> line.msg.time
    IN  [books |-> IF gap THEN FreshBooks
                   ELSE IF line.venue = "cb" THEN Applied(acc.books, line.msg)
                   ELSE acc.books,
         given |-> Append(acc.given, <<line.venue, line.at, gave>>)]

Replay(kept) ==
    LET merged == Merged(kept)
        after[n \in 0 .. Cardinality(kept)] ==
            IF n = 0 THEN [books |-> FreshBooks, given |-> <<>>]
            ELSE Replayed(after[n - 1], merged[n])
    IN  after[Cardinality(kept)].given

LiveRun == [i \in DOMAIN lines |-> <<lines[i].venue, lines[i].at, lines[i].gave>>]

\* What a crash leaves: the whole lines of each file before its cut.
Cuts ==
    {kept \in SUBSET DOMAIN lines :
        \A i \in kept, j \in DOMAIN lines :
            j < i /\ lines[j].venue = lines[i].venue => j \in kept}

\* What was heard before anything that is missing.
Heard(kept) == {i \in DOMAIN lines : \A j \in DOMAIN lines \ kept : lines[i].at < lines[j].at}

\* Another file has a line of the same time.
Ties(i) ==
    \E j \in DOMAIN lines : lines[j].at = lines[i].at /\ lines[j].venue # lines[i].venue

-----------------------------------------------------------------------------
\* A message lost within a connection costs the book, and no reference is read
\* from it; so every reference is read from a book with no change missing
\* between its first and its last, which starts with the snapshot unless the
\* connection's first message was lost (CoinbaseBooks).
RefIsTheBook ==
    \A i \in DOMAIN lines :
        LET known == lines[i].gave
        IN  lines[i].venue = "cb" /\ known # None =>
                /\ known = MinOf(known) .. MaxOf(known)
                /\ lines[i].headless \/ MinOf(known) = 0

\* Once corrected, the clock never leads Coinbase's, nor trails it, by more than
\* this machine's has drifted since a sample that the correction rests on, and
\* that sample's delay is off the floor; but it waits, showing the time it
\* showed before, as it never runs back (Clock).
ClockSound ==
    /\ \A i, j \in DOMAIN lines : i < j => lines[i].at <= lines[j].at
    /\ started =>
        LET last == Len(lines)
            Off(ahead, delay) == now + (skew - ahead) + (Floor - delay)
        IN  /\ \/ \E i \in DOMAIN lines : i < last /\ lines[i].at = lines[last].at
               \/ \E ahead \in basis, delay \in Delays : lines[last].at <= Off(ahead, delay)
            /\ \E ahead \in basis, delay \in Delays : Off(ahead, delay) <= lines[last].at

\* Whatever a crash takes, a replay hears every line of before what is missing,
\* and it gives the engine what it gave live - a line of Coinbase's unless a
\* connection had been lost that no gap ended; and each comes at its own place,
\* but where two files have lines of one time (replay, raw_lines).
ReplayIsLive ==
    \A kept \in Cuts :
        LET merged == Merged(kept)
            given  == Replay(kept)
        IN  \A i \in Heard(kept) : \E n \in DOMAIN merged \intersect DOMAIN lines :
                /\ merged[n] = i
                /\ given[n] = LiveRun[i] \/ (lines[i].venue = "cb" /\ lines[i].broken)
                /\ n # i => Ties(i) /\ lines[n].at = lines[i].at
=============================================================================
