--------------------------- MODULE PaperFeedsProofs ---------------------------
(***************************************************************************)
(* For every delay, skew, drift, slew and number of lost connections: a    *)
(* reference price is read from a book with no hole in it, the corrected   *)
(* clock is sound, and a replay of what a crash left gives what the live   *)
(* run gave, as far as ReplayIsLive says.                                  *)
(*                                                                         *)
(* The argument for the book: until a message is lost its changes are all  *)
(* of Coinbase's since the first it heard, and once one was, the next      *)
(* number shows it (BookInv).  For the clock: a target is a sample's, and  *)
(* the offset, which starts at a target and moves toward targets only,     *)
(* lies between two that samples of its basis explain; a stamp is as far   *)
(* off as the offset, or held (ClockInv).  For the replay: one of all      *)
(* lines in the order of the live run would have that run's books at every *)
(* line, until a connection was lost that no gap ended (ReplayInv).  The   *)
(* merge is by a strict order that agrees with the live run's on the lines *)
(* of one file and on lines of different times (MergeIs, HeardPlace); so   *)
(* when it comes to a line of Coinbase's that was heard before anything    *)
(* missing, it has heard just the lines of Coinbase's that came before it, *)
(* and has the live run's books (HeardBefore, OneMoreGiven).               *)
(***************************************************************************)
EXTENDS PaperFeeds, Sums

\* The lines are a sequence, whatever a line is.
Recording == \E S : lines \in Seq(S)

\* What is known of a book that missed no message since the first it heard.
WholeFrom(known, v) == \E first \in 0 .. v + 1 : known = first .. v

BookInv ==
    /\ version \in Nat /\ sent \in Nat /\ shown \in BOOLEAN /\ headless \in BOOLEAN /\ Recording
    /\ cb => IF books.seq = None
             THEN /\ books = FreshBooks
                  /\ ~headless => sent = 0 /\ ~shown
             ELSE /\ books.seq \in Nat /\ books.seq < sent
                  /\ books.seq + 1 = sent =>
                       /\ WholeFrom(books.known, version)
                       /\ ~headless => books.known = IF shown THEN 0 .. version ELSE {}

ClockType ==
    /\ now \in Nat /\ skew \in Int /\ offset \in Int /\ lastNs \in Int
    /\ target \in Int \union {None} /\ Recording

\* An offset that a skew of S and a delay explain, from above and from below.
Explained(off, S) ==
    /\ \E ahead \in S, delay \in Delays : off <= ahead + delay - Floor
    /\ \E ahead \in S, delay \in Delays : ahead + delay - Floor <= off

\* What was measured has a least.
Bounded == \E low \in Int : \A sample \in least : low <= Measured(sample)

\* The last stamp, once corrected: held, or as far off as the offset is.
Stamped ==
    LET last == Len(lines)
        right == now + skew - offset
    IN  \/ lines[last].at = right
        \/ right <= lines[last].at /\ \E i \in DOMAIN lines : i < last /\ lines[i].at = lines[last].at

ClockInv ==
    /\ ClockType /\ Bounded
    /\ \A sample \in least : sample.delay \in Delays /\ sample.skew \in Int /\ sample.skew \in basis
    /\ \A ahead \in basis : ahead \in Int
    /\ target # None => \E sample \in least : target = Measured(sample) - Floor
    /\ started => target # None /\ lines # <<>> /\ Explained(offset, basis) /\ Stamped
    /\ \A i \in DOMAIN lines : lines[i].at \in Int /\ lines[i].at <= lastNs
    /\ \A i, j \in DOMAIN lines : i < j => lines[i].at <= lines[j].at
    /\ lines # <<>> => lines[Len(lines)].at = lastNs
    /\ target # None => lines # <<>>

-----------------------------------------------------------------------------
(* The least and the greatest. *)

\* Integers that have a bound have a least.
LEMMA MinOfType ==
    ASSUME NEW S, S # {}, NEW low \in Int, \A x \in S : x \in Int /\ low <= x
    PROVE  MinOf(S) \in S /\ \A x \in S : MinOf(S) <= x
<1> DEFINE T == {n \in Nat : low + n \in S}
           Below == OpToRel(<, Nat)
<1>1. T # {}
  <2>1. PICK x \in S : TRUE
    OBVIOUS
  <2>2. x - low \in Nat /\ low + (x - low) \in S
    BY <2>1
  <2>3. QED  BY <2>2
<1>2. PICK n \in T : \A m \in T : <<m, n>> \notin Below
  <2>1. IsWellFoundedOn(Below, Nat)
    BY NatLessThanWellFounded
  <2>2. T \subseteq Nat
    OBVIOUS
  <2> HIDE DEF Below, T
  <2>3. QED  BY <1>1, <2>1, <2>2, WFMin
<1>3. \A m \in T : n <= m
  <2> SUFFICES ASSUME NEW m \in T, m < n PROVE FALSE
    OBVIOUS
  <2>1. <<m, n>> \in Below
    BY DEF OpToRel
  <2>2. QED  BY <1>2, <2>1
<1>4. low + n \in S
  OBVIOUS
<1>5. \A x \in S : low + n <= x
  <2> SUFFICES ASSUME NEW x \in S PROVE low + n <= x
    OBVIOUS
  <2>1. x - low \in T
    <3>1. x - low \in Nat /\ low + (x - low) = x
      OBVIOUS
    <3>2. QED  BY <3>1
  <2>2. n <= x - low
    BY <1>3, <2>1
  <2>3. QED  BY <2>2
<1> HIDE DEF T, Below
<1>6. QED  BY <1>4, <1>5 DEF MinOf

\* The greatest of integers that have one.
LEMMA MaxOfType ==
    ASSUME NEW S, NEW m \in S, m \in Int, \A x \in S : x \in Int /\ x <= m
    PROVE  MaxOf(S) = m
<1>1. \E x \in S : \A y \in S : x >= y
  OBVIOUS
<1>2. MaxOf(S) \in S /\ \A y \in S : MaxOf(S) >= y
  BY <1>1, Zenon DEF MaxOf
<1>3. MaxOf(S) \in Int /\ m <= MaxOf(S) /\ MaxOf(S) <= m
  BY <1>2
<1>4. QED  BY <1>3

LEMMA MaxOfTwo ==
    ASSUME NEW a \in Int, NEW b \in Int
    PROVE  MaxOf({a, b}) = IF a <= b THEN b ELSE a
<1>1. CASE a <= b
  BY <1>1, MaxOfType
<1>2. CASE ~(a <= b)
  BY <1>2, MaxOfType
<1>3. QED  BY <1>1, <1>2

LEMMA MinOfTwo ==
    ASSUME NEW a \in Int, NEW b \in Int
    PROVE  MinOf({a, b}) = IF a <= b THEN a ELSE b
BY DEF MinOf

\* One more line, behind the others.
LEMMA OneMoreLine ==
    ASSUME Recording, NEW line, lines' = Append(lines, line)
    PROVE  /\ Recording'
           /\ Len(lines') = Len(lines) + 1 /\ Len(lines) \in Nat
           /\ DOMAIN lines = 1 .. Len(lines) /\ DOMAIN lines' = 1 .. Len(lines')
           /\ lines' # <<>> /\ lines'[Len(lines')] = line
           /\ \A i \in DOMAIN lines : lines'[i] = lines[i]
<1>1. PICK S : lines \in Seq(S)
  BY DEF Recording
<1>2. lines \in Seq(S \union {line})
  BY <1>1
<1>3. lines' \in Seq(S \union {line})
  BY <1>2
<1>4. Recording'
  BY <1>3 DEF Recording
<1>5. QED  BY <1>2, <1>3, <1>4
-----------------------------------------------------------------------------
(* Books. *)

\* A reference that RefIsTheBook allows.
RefOf(known, lost) ==
    known = MinOf(known) .. MaxOf(known) /\ (lost \/ MinOf(known) = 0)

\* A book from its first change to its last is one without a hole.
LEMMA WholeIsRef ==
    ASSUME NEW first \in Nat, NEW v \in Nat, first <= v
    PROVE  MinOf(first .. v) = first /\ MaxOf(first .. v) = v
<1> DEFINE S == first .. v
<1>1. first \in S /\ v \in S /\ \A x \in S : x \in Int /\ first <= x /\ x <= v
  OBVIOUS
<1> HIDE DEF S
<1>2. MaxOf(S) = v
  BY <1>1, MaxOfType
<1>3. MinOf(S) \in S /\ \A x \in S : MinOf(S) <= x
  <2>1. S # {} /\ first \in Int /\ \A x \in S : x \in Int /\ first <= x
    BY <1>1
  <2>2. QED  BY <2>1, MinOfType
<1>4. MinOf(S) = first
  <2>1. MinOf(S) \in Int /\ first <= MinOf(S)
    BY <1>1, <1>3
  <2>2. MinOf(S) <= first
    BY <1>1, <1>3
  <2>3. QED  BY <2>1, <2>2
<1>5. QED  BY <1>2, <1>4 DEF S

\* One line more keeps the property if the line has it.
LEMMA LineKeepsRef ==
    ASSUME Recording, RefIsTheBook, NEW line, lines' = Append(lines, line),
           line.venue = "cb" /\ line.gave # None => RefOf(line.gave, line.headless)
    PROVE  RefIsTheBook'
<1>1. /\ DOMAIN lines = 1 .. Len(lines) /\ DOMAIN lines' = 1 .. Len(lines')
      /\ Len(lines') = Len(lines) + 1 /\ Len(lines) \in Nat /\ lines'[Len(lines')] = line
      /\ \A i \in DOMAIN lines : lines'[i] = lines[i]
  BY OneMoreLine
<1> SUFFICES ASSUME NEW i \in DOMAIN lines', lines'[i].venue = "cb", lines'[i].gave # None
             PROVE  RefOf(lines'[i].gave, lines'[i].headless)
  BY DEF RefIsTheBook, RefOf
<1>2. CASE i = Len(lines')
  BY <1>1, <1>2
<1>3. CASE i # Len(lines')
  <2>1. i \in DOMAIN lines
    BY <1>1, <1>3
  <2>2. QED  BY <1>1, <2>1 DEF RefIsTheBook, RefOf
<1>4. QED  BY <1>2, <1>3

\* A book that has all since its first change, told of another.
LEMMA WholeTold ==
    ASSUME NEW known, NEW v \in Nat, WholeFrom(known, v)
    PROVE  \E first \in 0 .. v + 1 : known \union {v + 1} = first .. v + 1
<1>1. PICK first \in 0 .. v + 1 : known = first .. v
  BY DEF WholeFrom
<1>2. first .. v \union {v + 1} = first .. v + 1
  BY <1>1
<1>3. QED  BY <1>1, <1>2

\* A message applies to a whole book and leaves one, or is a gap (CoinbaseBooks.apply).
LEMMA HearingKeepsBook ==
    ASSUME BookInv, RefIsTheBook, NEW kind \in {"snapshot", "update", "other"}, NEW delay,
           HearCb(kind, delay)
    PROVE  BookInv' /\ RefIsTheBook'
<1> DEFINE msg  == [seq |-> sent, kind |-> kind, version |-> version']
           at   == NowNs(Wall', offset)
           gap  == SequenceGap(books, msg)
           line == Line("cb", at, msg, RefTop(books, msg))
<1>1. /\ cb /\ NextMessage(kind)
      /\ lines' = Append(lines, line)
      /\ books' = IF gap THEN books ELSE Applied(books, msg)
      /\ cb' = ~gap /\ headless' = headless
  BY DEF HearCb
<1>2. /\ msg.seq = sent /\ msg.kind = kind /\ msg.version = version'
      /\ line.venue = "cb" /\ line.gave = RefTop(books, msg) /\ line.headless = headless
  BY DEF Line
<1> HIDE DEF msg, line, at
<1>3. /\ sent' = sent + 1 /\ sent \in Nat /\ version' \in Nat /\ version \in Nat
      /\ version' = IF kind = "update" THEN version + 1 ELSE version
      /\ shown \in BOOLEAN /\ shown' \in BOOLEAN
      /\ shown' <=> shown \/ kind = "snapshot"
      /\ kind = "snapshot" => ~shown
      /\ kind = "update" => shown
  <2>1. shown \in BOOLEAN /\ shown' = (shown \/ kind = "snapshot")
    BY <1>1 DEF BookInv, NextMessage
  <2>2. shown' \in BOOLEAN /\ (shown' <=> shown \/ kind = "snapshot")
    BY <2>1
  <2>3. /\ sent' = sent + 1 /\ sent \in Nat /\ version' \in Nat /\ version \in Nat
        /\ version' = IF kind = "update" THEN version + 1 ELSE version
    BY <1>1 DEF BookInv, NextMessage
  <2>4. (kind = "snapshot" => ~shown) /\ (kind = "update" => shown)
    BY <1>1 DEF NextMessage
  <2>5. QED  BY <2>1, <2>2, <2>3, <2>4
<1>4. Recording /\ Recording' /\ headless' \in BOOLEAN
  BY <1>1, OneMoreLine DEF BookInv
<1>5. CASE gap
  <2>1. RefTop(books, msg) = None
    BY <1>5 DEF RefTop
  <2>2. RefIsTheBook'
    BY <1>1, <1>2, <1>4, <2>1, LineKeepsRef
  <2>3. BookInv'
    <3>1. ~cb'
      BY <1>1, <1>5
    <3>2. sent' \in Nat
      BY <1>3
    <3>3. QED  BY <1>3, <1>4, <3>1, <3>2 DEF BookInv
  <2>4. QED  BY <2>2, <2>3
<1>6. CASE ~gap
  <2>1. None \notin Int
    BY FeedsAssumption
  <2>2. books.seq = None \/ (books.seq \in Nat /\ sent = books.seq + 1)
    <3>1. books.seq = None \/ sent = books.seq + 1
      BY <1>2, <1>6 DEF SequenceGap
    <3>2. QED  BY <1>1, <3>1 DEF BookInv
  <2>3. /\ WholeFrom(books.known, version)
        /\ ~headless => books.known = IF shown THEN 0 .. version ELSE {}
    <3>1. CASE books.seq = None
      <4>1. books = FreshBooks /\ (~headless => ~shown)
        BY <1>1, <3>1 DEF BookInv
      <4>2. books.known = {} /\ version + 1 \in 0 .. version + 1 /\ (version + 1) .. version = {}
        BY <1>3, <4>1 DEF FreshBooks
      <4>3. QED  BY <4>1, <4>2 DEF WholeFrom
    <3>2. CASE books.seq # None
      BY <1>1, <2>2, <3>2 DEF BookInv
    <3>3. QED  BY <3>1, <3>2
  <2>4. Applied(books, msg).seq = sent
    BY <1>2 DEF Applied
  <2> DEFINE known == Applied(books, msg).known
  <2>5. /\ WholeFrom(known, version')
        /\ ~headless => known = IF shown' THEN 0 .. version' ELSE {}
        /\ kind # "other" => \E first \in 0 .. version' : known = first .. version'
    <3>1. CASE kind = "snapshot"
      <4>1. known = 0 .. version' /\ shown'
        BY <1>2, <1>3, <3>1 DEF Applied
      <4>2. 0 \in 0 .. version' /\ 0 \in 0 .. version' + 1
        BY <1>3
      <4>3. QED  BY <4>1, <4>2 DEF WholeFrom
    <3>2. CASE kind = "update"
      <4>1. known = books.known \union {version + 1} /\ version' = version + 1
        BY <1>2, <1>3, <3>2 DEF Applied
      <4>2. PICK first \in 0 .. version + 1 : known = first .. version + 1
        BY <1>3, <2>3, <4>1, WholeTold
      <4>3. first \in 0 .. version' /\ first \in 0 .. version' + 1
        BY <1>3, <4>1
      <4>4. ASSUME ~headless PROVE known = 0 .. version'
        <5>1. books.known = 0 .. version
          BY <1>3, <2>3, <3>2, <4>4
        <5>2. 0 .. version \union {version + 1} = 0 .. version + 1
          BY <1>3
        <5>3. QED  BY <4>1, <5>1, <5>2
      <4> HIDE DEF known
      <4>5. QED  BY <1>3, <3>2, <4>1, <4>2, <4>3, <4>4 DEF WholeFrom
    <3>3. CASE kind = "other"
      <4>1. known = books.known /\ version' = version /\ (shown' <=> shown)
        BY <1>2, <1>3, <3>3 DEF Applied
      <4>2. QED  BY <2>3, <3>3, <4>1
    <3>4. QED  BY <3>1, <3>2, <3>3
  <2>6. BookInv'
    <3>1. books' = Applied(books, msg)
      BY <1>1, <1>6
    <3>2. books'.seq # None /\ books'.seq \in Nat /\ books'.seq < sent'
      BY <1>3, <2>1, <2>4, <3>1
    <3>3. QED  BY <1>1, <1>3, <1>4, <2>5, <3>1, <3>2 DEF BookInv
  <2>7. RefTop(books, msg) # None => RefTop(books, msg) = known /\ kind # "other"
    BY <1>2, <1>6 DEF RefTop
  <2> HIDE DEF known
  <2>8. ASSUME RefTop(books, msg) # None PROVE RefOf(RefTop(books, msg), headless)
    <3>1. PICK first \in 0 .. version' : known = first .. version'
      BY <2>5, <2>7, <2>8
    <3>2. first \in Nat /\ first <= version'
      BY <1>3, <3>1
    <3>3. MinOf(known) = first /\ MaxOf(known) = version'
      BY <1>3, <3>1, <3>2, WholeIsRef
    <3>4. ASSUME ~headless PROVE first = 0
      <4>1. known = IF shown' THEN 0 .. version' ELSE {}
        BY <2>5, <3>4
      <4>2. version' \in known
        BY <1>3, <3>1, <3>2
      <4>3. 0 \in known
        BY <1>3, <4>1, <4>2
      <4>4. QED  BY <3>1, <3>2, <4>3
    <3>5. QED  BY <2>7, <2>8, <3>1, <3>3, <3>4 DEF RefOf
  <2>9. RefIsTheBook'
    BY <1>1, <1>2, <1>4, <2>8, LineKeepsRef
  <2>10. QED  BY <2>6, <2>9
<1>7. QED  BY <1>5, <1>6

\* Books have no hole, and what is read from them has none.
LEMMA BookInvAlways == Spec => [](BookInv /\ RefIsTheBook)
<1>1. Init => BookInv /\ RefIsTheBook
  <2> SUFFICES ASSUME Init PROVE BookInv /\ RefIsTheBook
    OBVIOUS
  <2>1. lines \in Seq({}) /\ DOMAIN lines = {}
    BY DEF Init
  <2>2. Recording
    BY <2>1 DEF Recording
  <2>3. QED  BY <2>1, <2>2 DEF Init, BookInv, RefIsTheBook
<1>2. BookInv /\ RefIsTheBook /\ [Next]_vars => BookInv' /\ RefIsTheBook'
  <2> SUFFICES ASSUME BookInv, RefIsTheBook, [Next]_vars PROVE BookInv' /\ RefIsTheBook'
    OBVIOUS
  <2>1. ASSUME UNCHANGED <<lines, coinbase, headless>> PROVE BookInv' /\ RefIsTheBook'
    BY <2>1 DEF coinbase, BookInv, Recording, RefIsTheBook
  <2>2. ASSUME NEW line, lines' = Append(lines, line), line.venue # "cb",
               UNCHANGED <<coinbase, headless>>
        PROVE  BookInv' /\ RefIsTheBook'
    <3>1. Recording /\ Recording'
      BY <2>2, OneMoreLine DEF BookInv
    <3>2. RefIsTheBook'
      BY <2>2, <3>1, LineKeepsRef
    <3>3. QED  BY <2>2, <3>1, <3>2 DEF coinbase, BookInv
  <2>3. CASE CbConnects
    <3>1. FreshBooks.seq = None
      BY DEF FreshBooks
    <3>2. BookInv'
      <4>1. /\ sent' = 0 /\ shown' = FALSE /\ books' = FreshBooks /\ version' \in Nat
            /\ headless' = FALSE /\ Recording'
        BY <2>3 DEF CbConnects, BookInv, Recording
      <4>2. books'.seq = None
        BY <3>1, <4>1
      <4>3. QED  BY <4>1, <4>2 DEF BookInv, FreshBooks
    <3>3. QED  BY <2>3, <3>2 DEF CbConnects, RefIsTheBook
  <2>4. CASE CbDrops
    BY <2>4 DEF CbDrops, BookInv, Recording, RefIsTheBook
  <2>5. CASE Tick
    <3> DEFINE at == NowNs(Wall', Stepped)
               line == Line("tick", at, [time |-> at], at)
    <3>1. lines' = Append(lines, line) /\ UNCHANGED <<coinbase, headless>>
      BY <2>5 DEF Tick
    <3>2. line.venue # "cb"
      BY DEF Line
    <3> HIDE DEF line
    <3>3. QED  BY <2>2, <3>1, <3>2
  <2>6. ASSUME NEW kind \in {"snapshot", "update", "other"}, CbLoses(kind)
        PROVE  BookInv' /\ RefIsTheBook'
    <3>1. /\ cb /\ sent = (IF books.seq = None THEN 0 ELSE books.seq + 1) /\ sent' = sent + 1
          /\ UNCHANGED <<cb, books, lines>>
          /\ version' = IF kind = "update" THEN version + 1 ELSE version
          /\ headless' = (headless \/ books.seq = None)
      BY <2>6 DEF CbLoses, NextMessage
    <3>2. version' \in Nat /\ sent' \in Nat /\ headless \in BOOLEAN
      BY <3>1 DEF BookInv
    <3>3. shown' \in BOOLEAN /\ headless' \in BOOLEAN /\ Recording'
      <4>1. shown \in BOOLEAN /\ shown' = (shown \/ kind = "snapshot")
        BY <2>6 DEF CbLoses, NextMessage, BookInv
      <4>2. shown' \in BOOLEAN /\ headless' \in BOOLEAN
        BY <3>1, <4>1
      <4>3. QED  BY <3>1, <4>2 DEF BookInv, Recording
    <3>4. BookInv'
      <4>1. CASE books.seq = None
        <5>1. books = FreshBooks /\ headless'
          BY <3>1, <4>1 DEF BookInv
        <5>2. QED  BY <3>1, <3>2, <3>3, <4>1, <5>1 DEF BookInv
      <4>2. CASE books.seq # None
        <5>1. books.seq \in Nat /\ books.seq < sent' /\ books.seq + 1 # sent'
          BY <3>1, <4>2 DEF BookInv
        <5>2. QED  BY <3>1, <3>2, <3>3, <4>2, <5>1 DEF BookInv
      <4>3. QED  BY <4>1, <4>2
    <3>5. QED  BY <3>1, <3>4 DEF RefIsTheBook
  <2>7. ASSUME NEW age \in Ages, HearHl(age) PROVE BookInv' /\ RefIsTheBook'
    <3> DEFINE at   == NowNs(Wall', offset)
               msg  == [time |-> now' - age]
               line == Line("hl", at, msg, ParsedHl(msg, at))
    <3>1. lines' = Append(lines, line) /\ UNCHANGED <<coinbase, headless>>
      BY <2>7 DEF HearHl
    <3>2. line.venue # "cb"
      BY DEF Line
    <3> HIDE DEF line
    <3>3. QED  BY <2>2, <3>1, <3>2
  <2>8. CASE UNCHANGED vars
    BY <2>1, <2>8 DEF vars
  <2>9. QED
    BY <2>3, <2>4, <2>5, <2>6, <2>7, <2>8, HearingKeepsBook DEF Next
<1>3. QED  BY <1>1, <1>2, PTL DEF Spec

\* A reference price is read from a book that missed no change since its first,
\* which is the snapshot's unless the connection's first message was lost - for
\* any messages lost, in any connection.
THEOREM ReferenceIsWhole == Spec => []RefIsTheBook
BY BookInvAlways, PTL

-----------------------------------------------------------------------------
(* The clock. *)

\* The clock is read at an integer, and never at one before the last.
LEMMA NowNsType ==
    ASSUME lastNs \in Int, NEW wall \in Int, NEW off \in Int
    PROVE  /\ NowNs(wall, off) \in Int /\ lastNs <= NowNs(wall, off)
           /\ NowNs(wall, off) = IF lastNs <= wall - off THEN wall - off ELSE lastNs
<1>1. wall - off \in Int
  OBVIOUS
<1>2. NowNs(wall, off) = IF lastNs <= wall - off THEN wall - off ELSE lastNs
  BY <1>1, MaxOfTwo DEF NowNs
<1>3. QED  BY <1>1, <1>2

\* The floor and the delays are numbers.
LEMMA DelaysType == Floor \in Int /\ \A delay \in Delays : delay \in Int
<1>1. {Floor, Slew, Window, StaleTrade, MaxDrops} \subseteq Nat
  BY FeedsAssumption
<1>2. Floor \in Nat
  BY <1>1
<1>3. Delays \subseteq Nat
  BY FeedsAssumption
<1>4. \A delay \in Delays : delay \in Nat
  BY <1>3
<1>5. QED  BY <1>2, <1>4

\* What two samples explain, a value between them and the offset explains too.
LEMMA BetweenExplained ==
    ASSUME NEW S, \A ahead \in S : ahead \in Int, NEW off \in Int, Explained(off, S),
           NEW ahead \in S, NEW delay \in Delays, NEW step \in Int,
           LET goal == ahead + delay - Floor
           IN  (off <= step /\ step <= goal) \/ (goal <= step /\ step <= off)
    PROVE  Explained(step, S)
<1>1. Floor \in Int /\ \A d \in Delays : d \in Int
  BY DelaysType
<1>2. PICK a1 \in S, d1 \in Delays : off <= a1 + d1 - Floor
  BY DEF Explained
<1>3. PICK a2 \in S, d2 \in Delays : a2 + d2 - Floor <= off
  BY DEF Explained
<1>4. \E a \in S, d \in Delays : step <= a + d - Floor
  <2>1. step <= ahead + delay - Floor \/ step <= a1 + d1 - Floor
    BY <1>1, <1>2
  <2>2. QED  BY <1>2, <2>1
<1>5. \E a \in S, d \in Delays : a + d - Floor <= step
  <2>1. ahead + delay - Floor <= step \/ a2 + d2 - Floor <= step
    BY <1>1, <1>3
  <2>2. QED  BY <1>3, <2>1
<1>6. QED  BY <1>4, <1>5 DEF Explained

\* A step of the clock moves the offset toward the target, and not past it.
LEMMA SteppedType ==
    ASSUME offset \in Int, target \in Int
    PROVE  /\ Stepped \in Int
           /\ ~started => Stepped = target
           /\ started => \/ offset <= Stepped /\ Stepped <= target
                         \/ target <= Stepped /\ Stepped <= offset
<1>0. target # None /\ Slew \in Nat /\ -Slew \in Int
  BY FeedsAssumption
<1>1. CASE ~started
  BY <1>0, <1>1 DEF Stepped
<1>2. CASE started
  <2> DEFINE away == target - offset
             up   == MinOf({Slew, away})
             move == MaxOf({-Slew, up})
  <2>1. away \in Int
    OBVIOUS
  <2>2. Stepped = offset + move
    BY <1>0, <1>2 DEF Stepped
  <2> HIDE DEF away
  <2>3. up = IF Slew <= away THEN Slew ELSE away
    BY <1>0, <2>1, MinOfTwo
  <2>4. up \in Int
    BY <1>0, <2>1, <2>3
  <2> HIDE DEF up
  <2>5. move = IF -Slew <= up THEN up ELSE -Slew
    BY <1>0, <2>4, MaxOfTwo
  <2> HIDE DEF move
  <2>6. move \in Int /\ ((0 <= move /\ move <= away) \/ (away <= move /\ move <= 0))
    BY <1>0, <2>1, <2>3, <2>5
  <2>7. away = target - offset
    BY DEF away
  <2>8. QED  BY <1>2, <2>2, <2>6, <2>7
<1>3. QED  BY <1>1, <1>2

\* The least delay of the window sets the target (Clock.observe).
LEMMA ObserveType ==
    ASSUME ClockInv, NEW wall \in Int, NEW delay \in Delays, NEW ahead \in Int,
           Observe(wall, delay, ahead)
    PROVE  /\ target' \in Int
           /\ \E sample \in least' : target' = Measured(sample) - Floor
           /\ \A sample \in least' : sample.delay \in Delays /\ sample.skew \in Int
           /\ Bounded'
<1> DEFINE seen == Observed(wall, delay, ahead)
           S    == {Measured(sample) : sample \in seen}
           one  == Sample(wall, delay, ahead)
<1>0. Floor \in Int /\ \A d \in Delays : d \in Int
  BY DelaysType
<1>1. one \in seen /\ seen \subseteq least \union {one}
  BY DEF Observed
<1>2. one.delay = delay /\ one.skew = ahead
  BY DEF Sample
<1>3. least' = seen /\ target' = MinOf(S) - Floor
  BY DEF Observe
<1> HIDE DEF seen, one
<1>4. \A sample \in seen : sample.delay \in Delays /\ sample.skew \in Int
  BY <1>1, <1>2 DEF ClockInv
<1>5. \A sample \in seen : Measured(sample) \in Int
  BY <1>0, <1>4 DEF Measured
<1>6. PICK low \in Int : \A sample \in seen : low <= Measured(sample)
  <2>1. PICK l \in Int : \A sample \in least : l <= Measured(sample)
    BY DEF ClockInv, Bounded
  <2>2. Measured(one) \in Int
    BY <1>1, <1>5
  <2> DEFINE m == IF l <= Measured(one) THEN l ELSE Measured(one)
  <2>3. m \in Int /\ m <= l /\ m <= Measured(one)
    BY <2>2
  <2> HIDE DEF m
  <2>4. ASSUME NEW sample \in seen PROVE m <= Measured(sample)
    <3>1. CASE sample = one
      BY <2>3, <3>1
    <3>2. CASE sample # one
      <4>1. sample \in least
        BY <1>1, <3>2
      <4>2. l <= Measured(sample) /\ Measured(sample) \in Int
        BY <1>5, <2>1, <4>1
      <4>3. QED  BY <2>3, <4>2
    <3>3. QED  BY <3>1, <3>2
  <2>5. QED  BY <2>3, <2>4
<1>7. S # {} /\ \A x \in S : x \in Int /\ low <= x
  BY <1>1, <1>5, <1>6
<1>8. MinOf(S) \in S
  <2> HIDE DEF S
  <2>1. QED  BY <1>6, <1>7, MinOfType
<1>9. PICK sample \in seen : MinOf(S) = Measured(sample)
  BY <1>8
<1>10. target' \in Int
  BY <1>0, <1>3, <1>5, <1>9
<1>11. Bounded'
  BY <1>3, <1>6 DEF Bounded
<1>12. QED  BY <1>3, <1>4, <1>9, <1>10, <1>11

\* A step that adds a line stamped with the clock keeps the lines in order.
LEMMA StampKeepsOrder ==
    ASSUME ClockInv, NEW at \in Int, lastNs <= at, NEW line, line.at = at,
           lines' = Append(lines, line), lastNs' = at
    PROVE  /\ Recording' /\ lines' # <<>>
           /\ \A i \in DOMAIN lines' : lines'[i].at \in Int /\ lines'[i].at <= lastNs'
           /\ \A i, j \in DOMAIN lines' : i < j => lines'[i].at <= lines'[j].at
           /\ lines'[Len(lines')].at = lastNs'
           /\ lines # <<>> /\ at = lastNs =>
                \E i \in DOMAIN lines' : i < Len(lines') /\ lines'[i].at = at
<1>1. Recording /\ lastNs \in Int
  BY DEF ClockInv, ClockType
<1>2. /\ DOMAIN lines = 1 .. Len(lines) /\ DOMAIN lines' = 1 .. Len(lines')
      /\ Len(lines') = Len(lines) + 1 /\ Len(lines) \in Nat /\ lines'[Len(lines')] = line
      /\ \A i \in DOMAIN lines : lines'[i] = lines[i]
      /\ Recording' /\ lines' # <<>>
  BY <1>1, OneMoreLine
<1>3. ASSUME NEW i \in DOMAIN lines' PROVE lines'[i].at \in Int /\ lines'[i].at <= lastNs'
  <2>1. CASE i = Len(lines')
    BY <1>2, <2>1
  <2>2. CASE i # Len(lines')
    <3>1. i \in DOMAIN lines
      BY <1>2, <2>2
    <3>2. lines[i].at \in Int /\ lines[i].at <= lastNs
      BY <3>1 DEF ClockInv
    <3>3. QED  BY <1>1, <1>2, <3>1, <3>2
  <2>3. QED  BY <2>1, <2>2
<1>4. ASSUME NEW i \in DOMAIN lines', NEW j \in DOMAIN lines', i < j
      PROVE  lines'[i].at <= lines'[j].at
  <2>1. i \in DOMAIN lines
    BY <1>2, <1>4
  <2>2. CASE j = Len(lines')
    BY <1>2, <1>3, <2>2
  <2>3. CASE j # Len(lines')
    <3>1. j \in DOMAIN lines
      BY <1>2, <2>3
    <3>2. lines[i].at <= lines[j].at
      BY <1>4, <2>1, <3>1 DEF ClockInv
    <3>3. QED  BY <1>2, <2>1, <3>1, <3>2
  <2>4. QED  BY <2>2, <2>3
<1>5. ASSUME lines # <<>>, at = lastNs
      PROVE  \E i \in DOMAIN lines' : i < Len(lines') /\ lines'[i].at = at
  <2>1. Len(lines) \in DOMAIN lines
    <3>1. PICK S : lines \in Seq(S)
      BY <1>1 DEF Recording
    <3>2. QED  BY <1>5, <3>1
  <2>2. lines[Len(lines)].at = lastNs
    BY <1>5 DEF ClockInv
  <2>3. QED  BY <1>2, <1>5, <2>1, <2>2
<1>6. QED  BY <1>2, <1>3, <1>4, <1>5

\* An offset that stays is still explained, or it has met its target.
LEMMA BasisKeeps ==
    ASSUME \A ahead \in basis : ahead \in Int, BasisFollows, offset' \in Int, target' \in Int,
           \E sample \in least' : target' = Measured(sample) - Floor,
           \A sample \in least' : sample.delay \in Delays /\ sample.skew \in Int,
           offset' # target' => Explained(offset', basis \union {sample.skew : sample \in least'})
    PROVE  /\ \A ahead \in basis' : ahead \in Int
           /\ \A sample \in least' : sample.skew \in basis'
           /\ Explained(offset', basis')
<1> DEFINE W == {sample.skew : sample \in least'}
<1>1. basis' = W \union (IF offset' = target' THEN {} ELSE basis)
  BY DEF BasisFollows
<1>2. \A sample \in least' : sample.skew \in W
  OBVIOUS
<1>3. \A ahead \in W : ahead \in Int
  OBVIOUS
<1>4. Explained(offset', basis')
  <2>1. CASE offset' = target'
    <3>1. PICK sample \in least' : target' = Measured(sample) - Floor
      OBVIOUS
    <3>2. /\ sample.skew \in basis' /\ sample.delay \in Delays
          /\ offset' = sample.skew + sample.delay - Floor
      <4>1. sample.skew \in basis'
        BY <1>1, <1>2, <3>1
      <4>2. sample.delay \in Delays /\ sample.skew \in Int
        BY <3>1
      <4>3. Floor \in Int /\ sample.delay \in Int
        BY <4>2, DelaysType
      <4> HIDE DEF W
      <4>4. QED  BY <2>1, <3>1, <4>1, <4>2, <4>3 DEF Measured
    <3> HIDE DEF W
    <3>3. QED  BY <3>2 DEF Explained
  <2>2. CASE offset' # target'
    <3>1. basis' = basis \union W
      BY <1>1, <2>2
    <3>2. QED  BY <2>2, <3>1
  <2>3. QED  BY <2>1, <2>2
<1> HIDE DEF W
<1>5. QED  BY <1>1, <1>2, <1>3, <1>4

\* More samples explain no less.
LEMMA MoreExplains ==
    ASSUME NEW off, NEW S, NEW T, S \subseteq T, Explained(off, S)
    PROVE  Explained(off, T)
BY DEF Explained

\* The clock is as far off as what its offset rests on.
LEMMA ClockInvAlways == Spec => []ClockInv
<1>1. Init => ClockInv
  <2> SUFFICES ASSUME Init PROVE ClockInv
    OBVIOUS
  <2>1. lines \in Seq({}) /\ lines = <<>> /\ DOMAIN lines = {}
    BY DEF Init
  <2>2. Recording
    BY <2>1 DEF Recording
  <2>3. skew \in Int
    BY FeedsAssumption DEF Init
  <2>4. ClockType
    BY <2>2, <2>3 DEF Init, ClockType
  <2>5. Bounded
    BY DEF Init, Bounded
  <2>6. QED  BY <2>1, <2>4, <2>5 DEF Init, ClockInv
<1>2. ClockInv /\ [Next]_vars => ClockInv'
  <2> SUFFICES ASSUME ClockInv, [Next]_vars PROVE ClockInv'
    OBVIOUS
  <2>0. /\ now \in Nat /\ skew \in Int /\ offset \in Int /\ lastNs \in Int
        /\ target \in Int \union {None} /\ Recording /\ None \notin Int
        /\ \A ahead \in basis : ahead \in Int
    BY FeedsAssumption DEF ClockInv, ClockType
  <2>1. ASSUME UNCHANGED <<now, clock, lines>> PROVE ClockInv'
    <3>1. ClockType' /\ Bounded' /\ (Stamped' <=> Stamped)
      BY <2>1 DEF clock, ClockInv, ClockType, Recording, Bounded, Stamped
    <3>2. QED  BY <2>1, <3>1 DEF clock, ClockInv
  <2>2. ASSUME Passes PROVE now' \in Nat /\ skew' \in Int /\ Wall' \in Int /\ Wall' = now' + skew'
    <3>1. now' \in Nat /\ skew' \in Int
      BY <2>0, <2>2, FeedsAssumption DEF Passes
    <3>2. QED  BY <3>1 DEF Wall
  <2>3. CASE CbConnects \/ CbDrops
    BY <2>1, <2>3 DEF CbConnects, CbDrops
  <2>4. ASSUME NEW at, at = NowNs(Wall', offset'), Passes, NEW line, line.at = at,
               lines' = Append(lines, line), lastNs' = at, offset' \in Int,
               lines # <<>>
        PROVE  Stamped'
    <3>1. Wall' \in Int /\ Wall' - offset' = now' + skew' - offset' /\ Wall' - offset' \in Int
      BY <2>2, <2>4
    <3>2. at \in Int /\ lastNs <= at /\ at = IF lastNs <= Wall' - offset' THEN Wall' - offset' ELSE lastNs
      BY <2>0, <2>4, <3>1, NowNsType
    <3>3. /\ lines'[Len(lines')].at = at
          /\ at = lastNs => \E i \in DOMAIN lines' : i < Len(lines') /\ lines'[i].at = at
      BY <2>4, <3>2, StampKeepsOrder
    <3>4. at = Wall' - offset' \/ (at = lastNs /\ Wall' - offset' <= at)
      BY <2>0, <3>1, <3>2
    <3>5. CASE at = Wall' - offset'
      <4>1. lines'[Len(lines')].at = now' + skew' - offset'
        BY <3>1, <3>3, <3>5
      <4>2. QED  BY <4>1 DEF Stamped
    <3>6. CASE at = lastNs /\ Wall' - offset' <= at
      <4>1. /\ now' + skew' - offset' <= lines'[Len(lines')].at
            /\ \E i \in DOMAIN lines' : i < Len(lines') /\ lines'[i].at = lines'[Len(lines')].at
        BY <3>1, <3>3, <3>6
      <4>2. QED  BY <4>1 DEF Stamped
    <3>7. QED  BY <3>4, <3>5, <3>6
  <2>5. CASE Tick
    <3> DEFINE at   == NowNs(Wall', Stepped)
               line == Line("tick", at, [time |-> at], at)
    <3>1. /\ lines' = Append(lines, line) /\ lastNs' = at /\ offset' = Stepped
          /\ started' = (started \/ target # None) /\ Passes
          /\ UNCHANGED <<target, least>> /\ BasisFollows
      BY <2>5 DEF Tick
    <3>2. now' \in Nat /\ skew' \in Int /\ Wall' \in Int
      BY <2>2, <3>1
    <3>3. Stepped \in Int
      BY <2>0, SteppedType DEF Stepped
    <3>4. at \in Int /\ lastNs <= at /\ line.at = at
      BY <2>0, <3>2, <3>3, NowNsType DEF Line
    <3>5. at = NowNs(Wall', offset')
      BY <3>1
    <3> HIDE DEF line, at
    <3>6. /\ Recording' /\ lines' # <<>>
          /\ \A i \in DOMAIN lines' : lines'[i].at \in Int /\ lines'[i].at <= lastNs'
          /\ \A i, j \in DOMAIN lines' : i < j => lines'[i].at <= lines'[j].at
          /\ lines'[Len(lines')].at = lastNs'
      BY <3>1, <3>4, StampKeepsOrder
    <3>7. ClockType' /\ Bounded'
      <4>1. ClockType'
        BY <2>0, <3>1, <3>2, <3>3, <3>4, <3>6 DEF ClockType
      <4>2. Bounded'
        BY <3>1 DEF Bounded, ClockInv
      <4>3. QED  BY <4>1, <4>2
    <3>8. /\ \A sample \in least' : sample.delay \in Delays /\ sample.skew \in Int
          /\ target' # None => \E sample \in least' : target' = Measured(sample) - Floor
      BY <3>1 DEF ClockInv
    <3>9. CASE target = None
      <4>1. ~started /\ offset' = offset /\ started' = started /\ target' = None
        BY <2>0, <3>1, <3>9 DEF ClockInv, Stepped
      <4>2. offset' # target'
        BY <2>0, <4>1
      <4>3. basis' = {sample.skew : sample \in least'} \union basis
        BY <3>1, <4>2 DEF BasisFollows
      <4>4. ~started'
        BY <4>1
      <4>5. (\A ahead \in basis' : ahead \in Int) /\ (\A sample \in least' : sample.skew \in basis')
        BY <2>0, <3>8, <4>3
      <4>6. QED
        BY <3>6, <3>7, <3>8, <4>1, <4>4, <4>5 DEF ClockInv
    <3>10. CASE target # None
      <4>1. target \in Int /\ lines # <<>> /\ started'
        BY <2>0, <3>1, <3>10 DEF ClockInv
      <4>2. ASSUME offset' # target'
            PROVE  Explained(offset', basis \union {sample.skew : sample \in least'})
        <5>1. started
          BY <2>0, <3>1, <4>1, <4>2, SteppedType
        <5>2. PICK sample \in least : target = Measured(sample) - Floor
          BY <3>10 DEF ClockInv
        <5>3. /\ sample.skew \in basis /\ sample.delay \in Delays
              /\ target = sample.skew + sample.delay - Floor
          <6>1. sample.skew \in basis /\ sample.delay \in Delays /\ sample.skew \in Int
            BY <5>2 DEF ClockInv
          <6>2. Floor \in Int /\ sample.delay \in Int
            BY <6>1, DelaysType
          <6>3. QED  BY <5>2, <6>1, <6>2 DEF Measured
        <5>4. Explained(offset, basis)
          BY <5>1 DEF ClockInv
        <5>5. \/ offset <= Stepped /\ Stepped <= sample.skew + sample.delay - Floor
              \/ sample.skew + sample.delay - Floor <= Stepped /\ Stepped <= offset
          BY <2>0, <4>1, <5>1, <5>3, SteppedType
        <5>6. Explained(Stepped, basis)
          BY <2>0, <3>3, <5>3, <5>4, <5>5, BetweenExplained
        <5>7. QED  BY <3>1, <5>6, MoreExplains
      <4>3. /\ \A ahead \in basis' : ahead \in Int
            /\ \A sample \in least' : sample.skew \in basis'
            /\ Explained(offset', basis')
        <5>1. target' # None /\ target' \in Int /\ offset' \in Int
          BY <2>0, <3>1, <3>3, <4>1
        <5>2. QED  BY <2>0, <3>1, <3>8, <4>2, <5>1, BasisKeeps
      <4>4. Stamped'
        BY <2>4, <3>1, <3>3, <3>4, <3>5, <4>1
      <4>5. QED
        BY <2>0, <3>1, <3>6, <3>7, <3>8, <4>1, <4>3, <4>4 DEF ClockInv
    <3>11. QED  BY <3>9, <3>10
  <2>6. ASSUME NEW kind \in {"snapshot", "update", "other"}, CbLoses(kind) PROVE ClockInv'
    BY <2>1, <2>6 DEF CbLoses
  <2>7. ASSUME NEW kind \in {"snapshot", "update", "other"}, NEW delay \in Delays,
               HearCb(kind, delay)
        PROVE  ClockInv'
    <3> DEFINE msg  == [seq |-> sent, kind |-> kind, version |-> version']
               at   == NowNs(Wall', offset)
               line == Line("cb", at, msg, RefTop(books, msg))
    <3>1. /\ lines' = Append(lines, line) /\ lastNs' = at /\ Passes
          /\ Observe(Wall', delay, skew') /\ UNCHANGED <<offset, started>> /\ BasisFollows
      BY <2>7 DEF HearCb
    <3>2. now' \in Nat /\ skew' \in Int /\ Wall' \in Int
      BY <2>2, <3>1
    <3>4. at \in Int /\ lastNs <= at /\ line.at = at
      BY <2>0, <3>2, NowNsType DEF Line
    <3>5. at = NowNs(Wall', offset') /\ offset' \in Int
      BY <2>0, <3>1
    <3> HIDE DEF line, at
    <3>6. /\ Recording' /\ lines' # <<>>
          /\ \A i \in DOMAIN lines' : lines'[i].at \in Int /\ lines'[i].at <= lastNs'
          /\ \A i, j \in DOMAIN lines' : i < j => lines'[i].at <= lines'[j].at
          /\ lines'[Len(lines')].at = lastNs'
      BY <3>1, <3>4, StampKeepsOrder
    <3>7. /\ target' \in Int /\ Bounded'
          /\ \E sample \in least' : target' = Measured(sample) - Floor
          /\ \A sample \in least' : sample.delay \in Delays /\ sample.skew \in Int
      BY <3>1, <3>2, ObserveType
    <3>8. ClockType'
      BY <2>0, <3>1, <3>2, <3>4, <3>5, <3>6, <3>7 DEF ClockType
    <3>9. target' # None
      BY <2>0, <3>7
    <3>10. /\ \A ahead \in basis' : ahead \in Int
           /\ \A sample \in least' : sample.skew \in basis'
      BY <2>0, <3>1, <3>7, Zenon DEF BasisFollows
    <3>11. ASSUME started' PROVE Explained(offset', basis') /\ Stamped'
      <4>1. lines # <<>> /\ Explained(offset, basis)
        BY <3>1, <3>11 DEF ClockInv
      <4>2. Explained(offset', basis \union {sample.skew : sample \in least'})
        BY <3>1, <4>1, MoreExplains
      <4>3. Explained(offset', basis')
        BY <2>0, <3>1, <3>5, <3>7, <4>2, BasisKeeps
      <4>4. Stamped'
        BY <2>4, <3>1, <3>4, <3>5, <4>1
      <4>5. QED  BY <4>3, <4>4
    <3>12. QED
      BY <3>6, <3>7, <3>8, <3>9, <3>10, <3>11 DEF ClockInv
  <2>8. ASSUME NEW age \in Ages, HearHl(age) PROVE ClockInv'
    <3> DEFINE at   == NowNs(Wall', offset)
               msg  == [time |-> now' - age]
               line == Line("hl", at, msg, ParsedHl(msg, at))
    <3>1. /\ lines' = Append(lines, line) /\ lastNs' = at /\ Passes
          /\ UNCHANGED <<offset, target, started, least, basis>>
      BY <2>8 DEF HearHl
    <3>2. now' \in Nat /\ skew' \in Int /\ Wall' \in Int
      BY <2>2, <3>1
    <3>4. at \in Int /\ lastNs <= at /\ line.at = at
      BY <2>0, <3>2, NowNsType DEF Line
    <3>5. at = NowNs(Wall', offset') /\ offset' \in Int
      BY <2>0, <3>1
    <3> HIDE DEF line, at
    <3>6. /\ Recording' /\ lines' # <<>>
          /\ \A i \in DOMAIN lines' : lines'[i].at \in Int /\ lines'[i].at <= lastNs'
          /\ \A i, j \in DOMAIN lines' : i < j => lines'[i].at <= lines'[j].at
          /\ lines'[Len(lines')].at = lastNs'
      BY <3>1, <3>4, StampKeepsOrder
    <3>7. ClockType' /\ Bounded'
      BY <2>0, <3>1, <3>2, <3>4, <3>5, <3>6 DEF ClockType, Bounded, ClockInv
    <3>8. ASSUME started' PROVE Explained(offset', basis') /\ Stamped'
      <4>1. lines # <<>> /\ Explained(offset, basis)
        BY <3>1, <3>8 DEF ClockInv
      <4>2. Stamped'
        BY <2>4, <3>1, <3>4, <3>5, <4>1
      <4>3. QED  BY <3>1, <4>1, <4>2
    <3>9. QED  BY <3>1, <3>6, <3>7, <3>8 DEF ClockInv
  <2>9. CASE UNCHANGED vars
    BY <2>1, <2>9 DEF vars
  <2>10. QED  BY <2>3, <2>5, <2>6, <2>7, <2>8, <2>9 DEF Next
<1>3. QED  BY <1>1, <1>2, PTL DEF Spec

\* Once corrected, the clock neither leads nor trails Coinbase's by more than
\* this machine's drifted since a sample that the correction rests on and that
\* sample's delay is off the floor, but when it waits; it never runs back.
THEOREM ClockIsSound == Spec => []ClockSound
<1>1. ClockInv => ClockSound
  <2> SUFFICES ASSUME ClockInv, started
               PROVE  LET last == Len(lines)
                          Off(ahead, delay) == now + (skew - ahead) + (Floor - delay)
                      IN  /\ \/ \E i \in DOMAIN lines : i < last /\ lines[i].at = lines[last].at
                             \/ \E ahead \in basis, delay \in Delays :
                                   lines[last].at <= Off(ahead, delay)
                          /\ \E ahead \in basis, delay \in Delays :
                                Off(ahead, delay) <= lines[last].at
    BY DEF ClockInv, ClockSound
  <2> DEFINE at == lines[Len(lines)].at
             Off(ahead, delay) == now + (skew - ahead) + (Floor - delay)
  <2>1. /\ now \in Int /\ skew \in Int /\ offset \in Int /\ lastNs \in Int /\ at = lastNs
        /\ \A ahead \in basis : ahead \in Int
    BY DEF ClockInv, ClockType
  <2>2. Floor \in Int /\ \A d \in Delays : d \in Int
    BY DelaysType
  <2>3. Explained(offset, basis) /\ Stamped
    BY DEF ClockInv
  <2>4. at \in Int /\ now + skew - offset <= at
    <3>1. at \in Int
      BY <2>1
    <3> HIDE DEF at
    <3>2. QED  BY <2>1, <2>3, <3>1 DEF Stamped, at
  <2>5. PICK a1 \in basis, d1 \in Delays : offset <= a1 + d1 - Floor
    BY <2>3 DEF Explained
  <2>6. Off(a1, d1) <= at
    BY <2>1, <2>2, <2>4, <2>5
  <2>7. PICK a2 \in basis, d2 \in Delays : a2 + d2 - Floor <= offset
    BY <2>3 DEF Explained
  <2>8. \/ \E i \in DOMAIN lines : i < Len(lines) /\ lines[i].at = at
        \/ at <= Off(a2, d2)
    <3>1. CASE at = now + skew - offset
      BY <2>1, <2>2, <2>7, <3>1
    <3>2. CASE at # now + skew - offset
      BY <2>3, <3>2 DEF Stamped
    <3>3. QED  BY <3>1, <3>2
  <2>9. QED  BY <2>5, <2>6, <2>7, <2>8
<1>2. QED  BY <1>1, ClockInvAlways, PTL

-----------------------------------------------------------------------------
(* The replay. *)

\* What replay makes of a line: the books after it, and what the engine gets.
BooksAfter(bk, line) ==
    IF line.venue # "cb" THEN bk
    ELSE IF SequenceGap(bk, line.msg) THEN FreshBooks
    ELSE Applied(bk, line.msg)

Gives(bk, line) ==
    CASE line.venue = "cb" -> RefTop(bk, line.msg)
      [] line.venue = "hl" -> ParsedHl(line.msg, line.at)
      [] OTHER             -> line.msg.time

\* A line of Coinbase's behind a lost connection that no gap ended.
Blurred(line) == line.venue = "cb" /\ line.broken

\* The books of a replay in the order of the live run: with them it gives what
\* was given live.
Follows(ls, bks) ==
    /\ bks[0] = FreshBooks
    /\ \A i \in DOMAIN ls :
        ~Blurred(ls[i]) =>
            /\ bks[i] = BooksAfter(bks[i - 1], ls[i])
            /\ ls[i].gave = Gives(bks[i - 1], ls[i])

\* A replay of all that was heard so far has the books of the live run, or
\* fresh ones where cb_feed would start with fresh ones.
ReplayInv ==
    /\ broken \in BOOLEAN
    /\ \A i \in DOMAIN lines :
        /\ lines[i].venue \in {"cb", "hl", "tick"} /\ lines[i].broken \in BOOLEAN
        /\ lines[i].broken => broken
    /\ \A i, j \in DOMAIN lines : i < j /\ lines[i].broken => lines[j].broken
    /\ \E bks : /\ Follows(lines, bks)
                /\ ~broken => bks[Len(lines)] = IF cb THEN books ELSE FreshBooks

\* One line more is replayed as it was heard if the replay gives what it gave.
LEMMA OneMoreReplayed ==
    ASSUME Recording, NEW bks, Follows(lines, bks), NEW line, lines' = Append(lines, line),
           ~Blurred(line) => line.gave = Gives(bks[Len(lines)], line)
    PROVE  \E b : /\ Follows(lines', b)
                  /\ b[Len(lines')] = BooksAfter(bks[Len(lines)], line)
<1>1. /\ DOMAIN lines = 1 .. Len(lines) /\ DOMAIN lines' = 1 .. Len(lines')
      /\ Len(lines') = Len(lines) + 1 /\ Len(lines) \in Nat /\ lines'[Len(lines')] = line
      /\ \A i \in DOMAIN lines : lines'[i] = lines[i]
  BY OneMoreLine
<1>2. PICK n \in Nat : n = Len(lines)
  BY <1>1
<1>3. PICK after : after = BooksAfter(bks[n], line)
  OBVIOUS
<1> DEFINE b == [i \in 0 .. n + 1 |-> IF i <= n THEN bks[i] ELSE after]
<1>4. /\ \A i \in 0 .. n : b[i] = bks[i]
      /\ b[n + 1] = after
  OBVIOUS
<1> HIDE DEF b
<1>5. b[0] = FreshBooks
  BY <1>4 DEF Follows
<1>6. ASSUME NEW i \in DOMAIN lines', ~Blurred(lines'[i])
      PROVE  /\ b[i] = BooksAfter(b[i - 1], lines'[i])
             /\ lines'[i].gave = Gives(b[i - 1], lines'[i])
  <2>1. i \in 1 .. n + 1 /\ i - 1 \in 0 .. n
    BY <1>1, <1>2
  <2>2. b[i - 1] = bks[i - 1]
    BY <1>4, <2>1
  <2>3. CASE i = n + 1
    <3>1. lines'[i] = line /\ b[i] = after /\ i - 1 = n
      BY <1>1, <1>2, <1>4, <2>3
    <3>2. QED  BY <1>2, <1>3, <1>6, <2>2, <3>1
  <2>4. CASE i # n + 1
    <3>1. i \in DOMAIN lines /\ i \in 0 .. n
      BY <1>1, <1>2, <2>1, <2>4
    <3>2. lines'[i] = lines[i] /\ b[i] = bks[i]
      BY <1>1, <1>4, <3>1
    <3>3. QED  BY <1>6, <2>2, <3>1, <3>2 DEF Follows
  <2>5. QED  BY <2>3, <2>4
<1>7. Follows(lines', b)
  BY <1>5, <1>6 DEF Follows
<1>8. b[Len(lines')] = BooksAfter(bks[Len(lines)], line)
  BY <1>1, <1>2, <1>3, <1>4
<1>9. QED  BY <1>7, <1>8

\* A line more keeps what ReplayInv says of the lines.
LEMMA OneMoreKept ==
    ASSUME Recording, ReplayInv, NEW line, lines' = Append(lines, line), broken' = broken,
           line.venue \in {"cb", "hl", "tick"}, line.broken = broken
    PROVE  /\ \A i \in DOMAIN lines' :
                /\ lines'[i].venue \in {"cb", "hl", "tick"} /\ lines'[i].broken \in BOOLEAN
                /\ lines'[i].broken => broken'
           /\ \A i, j \in DOMAIN lines' : i < j /\ lines'[i].broken => lines'[j].broken
<1>1. /\ DOMAIN lines = 1 .. Len(lines) /\ DOMAIN lines' = 1 .. Len(lines')
      /\ Len(lines') = Len(lines) + 1 /\ Len(lines) \in Nat /\ lines'[Len(lines')] = line
      /\ \A i \in DOMAIN lines : lines'[i] = lines[i]
  BY OneMoreLine
<1>2. ASSUME NEW i \in DOMAIN lines'
      PROVE  /\ lines'[i].venue \in {"cb", "hl", "tick"} /\ lines'[i].broken \in BOOLEAN
             /\ lines'[i].broken => broken
             /\ i = Len(lines') => lines'[i].broken = broken
             /\ i # Len(lines') => i \in DOMAIN lines /\ lines'[i] = lines[i]
  <2>1. CASE i = Len(lines')
    BY <1>1, <2>1 DEF ReplayInv
  <2>2. CASE i # Len(lines')
    <3>1. i \in DOMAIN lines
      BY <1>1, <2>2
    <3>2. QED  BY <1>1, <2>2, <3>1 DEF ReplayInv
  <2>3. QED  BY <2>1, <2>2
<1>3. ASSUME NEW i \in DOMAIN lines', NEW j \in DOMAIN lines', i < j, lines'[i].broken
      PROVE  lines'[j].broken
  <2>1. i # Len(lines')
    BY <1>1, <1>3
  <2>2. i \in DOMAIN lines /\ lines'[i] = lines[i] /\ broken
    BY <1>2, <1>3, <2>1
  <2>3. CASE j = Len(lines')
    BY <1>2, <2>2, <2>3
  <2>4. CASE j # Len(lines')
    <3>1. j \in DOMAIN lines /\ lines'[j] = lines[j]
      BY <1>2, <2>4
    <3>2. QED  BY <1>3, <2>2, <3>1 DEF ReplayInv
  <2>5. QED  BY <2>3, <2>4
<1>4. QED  BY <1>2, <1>3

\* A line that leaves Coinbase's connection alone.
LEMMA OtherLine ==
    ASSUME Recording, ReplayInv, NEW line, lines' = Append(lines, line),
           line.venue \in {"hl", "tick"}, line.broken = broken, UNCHANGED <<cb, books, broken>>,
           \A bk : line.gave = Gives(bk, line)
    PROVE  ReplayInv'
<1>1. PICK bks : Follows(lines, bks) /\ (~broken => bks[Len(lines)] = IF cb THEN books ELSE FreshBooks)
  BY DEF ReplayInv
<1>2. BooksAfter(bks[Len(lines)], line) = bks[Len(lines)]
  BY DEF BooksAfter
<1>3. PICK b : Follows(lines', b) /\ b[Len(lines')] = bks[Len(lines)]
  BY <1>1, <1>2, OneMoreReplayed
<1>4. \E b2 : Follows(lines', b2) /\ (~broken' => b2[Len(lines')] = IF cb' THEN books' ELSE FreshBooks)
  BY <1>1, <1>3
<1>5. broken' \in BOOLEAN
  BY DEF ReplayInv
<1>6. QED  BY <1>4, <1>5, OneMoreKept DEF ReplayInv

\* A replay follows the live run, whatever messages were lost.
LEMMA ReplayInvAlways == Spec => []ReplayInv
<1>1. Init => ReplayInv
  <2> SUFFICES ASSUME Init PROVE ReplayInv
    OBVIOUS
  <2>1. DOMAIN lines = {} /\ Len(lines) = 0 /\ cb = FALSE /\ broken = FALSE
    BY DEF Init
  <2>2. PICK bks : bks = [i \in 0 .. 0 |-> FreshBooks]
    OBVIOUS
  <2>3. Follows(lines, bks) /\ bks[Len(lines)] = FreshBooks
    BY <2>1, <2>2 DEF Follows
  <2>4. QED  BY <2>1, <2>3 DEF ReplayInv
<1>2. BookInv /\ ReplayInv /\ [Next]_vars => ReplayInv'
  <2> SUFFICES ASSUME BookInv, ReplayInv, [Next]_vars PROVE ReplayInv'
    OBVIOUS
  <2>0. Recording
    BY DEF BookInv
  <2>1. CASE CbConnects
    <3>1. lines' = lines /\ broken' = broken /\ books' = FreshBooks /\ ~cb
      BY <2>1 DEF CbConnects
    <3>2. QED  BY <3>1 DEF ReplayInv
  <2>2. CASE CbDrops
    <3>1. /\ lines' = lines /\ cb /\ ~cb' /\ (broken' = (broken \/ books.seq # None))
          /\ broken' \in BOOLEAN
      BY <2>2 DEF CbDrops
    <3>2. \A i \in DOMAIN lines : lines[i].broken => broken'
      BY <3>1 DEF ReplayInv
    <3>3. PICK bks : /\ Follows(lines, bks)
                     /\ ~broken => bks[Len(lines)] = IF cb THEN books ELSE FreshBooks
      BY DEF ReplayInv
    <3>4. ASSUME ~broken' PROVE bks[Len(lines)] = FreshBooks
      <4>1. ~broken /\ books.seq = None
        BY <3>1, <3>4
      <4>2. books = FreshBooks
        BY <3>1, <4>1 DEF BookInv
      <4>3. QED  BY <3>1, <3>3, <4>1, <4>2
    <3>5. QED  BY <3>1, <3>2, <3>3, <3>4 DEF ReplayInv
  <2>3. CASE Tick
    <3> DEFINE at == NowNs(Wall', Stepped)
               line == Line("tick", at, [time |-> at], at)
    <3>1. lines' = Append(lines, line) /\ UNCHANGED <<cb, books, broken>>
      BY <2>3 DEF Tick, coinbase
    <3>2. line.venue = "tick" /\ line.gave = line.msg.time /\ line.broken = broken
      BY DEF Line
    <3> HIDE DEF line
    <3>3. \A bk : line.gave = Gives(bk, line)
      BY <3>2 DEF Gives
    <3>4. QED  BY <2>0, <3>1, <3>2, <3>3, OtherLine
  <2>4. ASSUME NEW kind \in {"snapshot", "update", "other"}, CbLoses(kind)
        PROVE  ReplayInv'
    BY <2>4 DEF CbLoses, ReplayInv
  <2>5. ASSUME NEW kind \in {"snapshot", "update", "other"}, NEW delay, HearCb(kind, delay)
        PROVE  ReplayInv'
    <3> DEFINE msg  == [seq |-> sent, kind |-> kind, version |-> version']
               at   == NowNs(Wall', offset)
               gap  == SequenceGap(books, msg)
               line == Line("cb", at, msg, RefTop(books, msg))
    <3>1. /\ cb /\ lines' = Append(lines, line) /\ broken' = broken
          /\ books' = IF gap THEN books ELSE Applied(books, msg)
          /\ cb' = ~gap
      BY <2>5 DEF HearCb
    <3>2. /\ line.venue = "cb" /\ line.msg = msg /\ line.gave = RefTop(books, msg)
          /\ line.broken = broken
      BY DEF Line
    <3> HIDE DEF line, msg
    <3>3. /\ \A i \in DOMAIN lines' :
               /\ lines'[i].venue \in {"cb", "hl", "tick"} /\ lines'[i].broken \in BOOLEAN
               /\ lines'[i].broken => broken'
          /\ \A i, j \in DOMAIN lines' : i < j /\ lines'[i].broken => lines'[j].broken
      BY <2>0, <3>1, <3>2, OneMoreKept
    <3>4. PICK bks : Follows(lines, bks) /\ (~broken => bks[Len(lines)] = books)
      BY <3>1 DEF ReplayInv
    <3>5. ~Blurred(line) => line.gave = Gives(bks[Len(lines)], line)
      BY <3>2, <3>4 DEF Blurred, Gives
    <3>6. PICK b : Follows(lines', b) /\ b[Len(lines')] = BooksAfter(bks[Len(lines)], line)
      BY <2>0, <3>1, <3>4, <3>5, OneMoreReplayed
    <3>7. ASSUME ~broken' PROVE b[Len(lines')] = IF cb' THEN books' ELSE FreshBooks
      <4>1. b[Len(lines')] = BooksAfter(books, line)
        BY <3>1, <3>4, <3>6, <3>7
      <4>2. BooksAfter(books, line) = IF gap THEN FreshBooks ELSE Applied(books, msg)
        BY <3>2 DEF BooksAfter
      <4>3. QED  BY <3>1, <4>1, <4>2
    <3>8. broken' \in BOOLEAN
      BY <3>1 DEF ReplayInv
    <3>9. QED  BY <3>3, <3>6, <3>7, <3>8 DEF ReplayInv
  <2>6. ASSUME NEW age \in Ages, HearHl(age) PROVE ReplayInv'
    <3> DEFINE at   == NowNs(Wall', offset)
               msg  == [time |-> now' - age]
               line == Line("hl", at, msg, ParsedHl(msg, at))
    <3>1. lines' = Append(lines, line) /\ UNCHANGED <<cb, books, broken>>
      BY <2>6 DEF HearHl, coinbase
    <3>2. line.venue = "hl" /\ line.gave = ParsedHl(line.msg, line.at) /\ line.broken = broken
      BY DEF Line
    <3> HIDE DEF line
    <3>3. \A bk : line.gave = Gives(bk, line)
      BY <3>2 DEF Gives
    <3>4. QED  BY <2>0, <3>1, <3>2, <3>3, OtherLine
  <2>7. CASE UNCHANGED vars
    BY <2>7 DEF vars, coinbase, ReplayInv
  <2>8. QED  BY <2>1, <2>2, <2>3, <2>4, <2>5, <2>6, <2>7 DEF Next
<1>3. QED  BY <1>1, <1>2, BookInvAlways, PTL DEF Spec

-----------------------------------------------------------------------------
(* The lines kept, in the order of the replay. *)

\* The lines are in the order of their times.
Ordered ==
    /\ Recording
    /\ \A i \in DOMAIN lines :
        lines[i].venue \in {"cb", "hl", "tick"} /\ lines[i].at \in Int
    /\ \A i, j \in DOMAIN lines : i < j => lines[i].at <= lines[j].at

\* The places of a sequence.
LEMMA LinePlaces ==
    ASSUME Recording
    PROVE  /\ Len(lines) \in Nat /\ DOMAIN lines = 1 .. Len(lines)
           /\ \A i \in DOMAIN lines : i \in Nat /\ 1 <= i
<1>1. PICK S : lines \in Seq(S)
  BY DEF Recording
<1>2. QED  BY <1>1

\* The files have ranks of their own.
LEMMA RankTells ==
    /\ \A venue \in {"cb", "hl", "tick"} : Rank(venue) \in Int
    /\ \A v, w \in {"cb", "hl", "tick"} : Rank(v) = Rank(w) => v = w
<1>1. DOMAIN Venues = {1, 2, 3} /\ Venues[1] = "cb" /\ Venues[2] = "hl" /\ Venues[3] = "tick"
  BY DEF Venues
<1>2. \A venue \in {"cb", "hl", "tick"} : \E i \in DOMAIN Venues : Venues[i] = venue
  BY <1>1
<1>3. \A venue \in {"cb", "hl", "tick"} : Rank(venue) \in DOMAIN Venues /\ Venues[Rank(venue)] = venue
  BY <1>2 DEF Rank
<1>4. \A venue \in {"cb", "hl", "tick"} : Rank(venue) \in Int
  BY <1>1, <1>3
<1>5. \A v, w \in {"cb", "hl", "tick"} : Rank(v) = Rank(w) => v = w
  <2> SUFFICES ASSUME NEW v \in {"cb", "hl", "tick"}, NEW w \in {"cb", "hl", "tick"},
                      Rank(v) = Rank(w)
               PROVE  v = w
    OBVIOUS
  <2>1. Venues[Rank(v)] = v /\ Venues[Rank(w)] = w
    BY <1>3
  <2>2. QED  BY <2>1
<1>6. QED  BY <1>4, <1>5

\* The merge is by a strict order of the lines.
LEMMA PrecedesOrders ==
    ASSUME Ordered, NEW i \in DOMAIN lines, NEW j \in DOMAIN lines
    PROVE  /\ ~Precedes(i, i)
           /\ i # j => Precedes(i, j) \/ Precedes(j, i)
           /\ \A k \in DOMAIN lines : Precedes(i, j) /\ Precedes(j, k) => Precedes(i, k)
           /\ Precedes(i, j) => lines[i].at <= lines[j].at
           /\ lines[i].at < lines[j].at => Precedes(i, j)
           /\ i < j /\ lines[i].venue = lines[j].venue => Precedes(i, j)
<1>1. \A k \in DOMAIN lines :
        /\ k \in Nat /\ lines[k].at \in Int /\ lines[k].venue \in {"cb", "hl", "tick"}
        /\ Rank(lines[k].venue) \in Int
  BY LinePlaces, RankTells DEF Ordered
<1>2. \A k, l \in DOMAIN lines : Rank(lines[k].venue) = Rank(lines[l].venue)
                                    => lines[k].venue = lines[l].venue
  BY <1>1, RankTells
<1>3. i < j => lines[i].at <= lines[j].at
  BY DEF Ordered
<1>4. ~Precedes(i, i)
  BY <1>1 DEF Precedes
<1>5. i # j => Precedes(i, j) \/ Precedes(j, i)
  <2>1. i # j => i < j \/ j < i
    BY <1>1
  <2>2. \/ lines[i].at < lines[j].at \/ lines[j].at < lines[i].at \/ lines[i].at = lines[j].at
    BY <1>1
  <2>3. \/ Rank(lines[i].venue) < Rank(lines[j].venue)
        \/ Rank(lines[j].venue) < Rank(lines[i].venue)
        \/ lines[i].venue = lines[j].venue
    BY <1>1, <1>2
  <2>4. QED  BY <2>1, <2>2, <2>3 DEF Precedes
<1>6. ASSUME NEW k \in DOMAIN lines, Precedes(i, j), Precedes(j, k) PROVE Precedes(i, k)
  <2>1. /\ i \in Nat /\ j \in Nat /\ k \in Nat
        /\ lines[i].at \in Int /\ lines[j].at \in Int /\ lines[k].at \in Int
        /\ Rank(lines[i].venue) \in Int /\ Rank(lines[j].venue) \in Int
        /\ Rank(lines[k].venue) \in Int
    BY <1>1
  <2>2. QED  BY <1>6, <2>1 DEF Precedes
<1>7. Precedes(i, j) => lines[i].at <= lines[j].at
  BY <1>1 DEF Precedes
<1>8. lines[i].at < lines[j].at => Precedes(i, j)
  BY DEF Precedes
<1>9. i < j /\ lines[i].venue = lines[j].venue => Precedes(i, j)
  BY <1>1, <1>3 DEF Precedes
<1>10. QED  BY <1>4, <1>5, <1>6, <1>7, <1>8, <1>9

\* Kept lines have places of their own, in the order of the merge, and every
\* place has its line.
LEMMA MergeIs ==
    ASSUME Ordered, NEW kept, kept \subseteq DOMAIN lines
    PROVE  /\ IsFiniteSet(kept) /\ Cardinality(kept) \in Nat
           /\ \A i \in kept :
                /\ Place(kept, i) \in 1 .. Cardinality(kept)
                /\ Merged(kept)[Place(kept, i)] = i
                /\ IsFiniteSet({j \in kept : Precedes(j, i)})
           /\ \A n \in 1 .. Cardinality(kept) :
                Merged(kept)[n] \in kept /\ Place(kept, Merged(kept)[n]) = n
           /\ \A i, j \in kept : Precedes(j, i) => Place(kept, j) < Place(kept, i)
<1>1. Recording /\ Len(lines) \in Nat /\ DOMAIN lines = 1 .. Len(lines)
  BY LinePlaces DEF Ordered
<1>2. IsFiniteSet(DOMAIN lines)
  BY <1>1, FS_Interval
<1>3. IsFiniteSet(kept) /\ Cardinality(kept) \in Nat
  BY <1>2, FS_Subset, FS_CardinalityType
<1>4. PICK k \in Nat : k = Cardinality(kept)
  BY <1>3
<1>5. ASSUME NEW i \in kept
      PROVE  /\ IsFiniteSet({j \in kept : Precedes(j, i)})
             /\ Cardinality({j \in kept : Precedes(j, i)}) \in Nat
             /\ Cardinality({j \in kept : Precedes(j, i)}) < k
  <2> DEFINE T == {j \in kept : Precedes(j, i)}
  <2>1. T \subseteq kept /\ i \notin T
    BY PrecedesOrders
  <2> HIDE DEF T
  <2>2. IsFiniteSet(T) /\ Cardinality(T) <= Cardinality(kept) /\ Cardinality(kept) # Cardinality(T)
    BY <1>3, <2>1, FS_Subset
  <2>3. Cardinality(T) \in Nat
    BY <2>2, FS_CardinalityType
  <2>4. QED  BY <1>4, <2>2, <2>3 DEF T
<1>6. ASSUME NEW i \in kept, NEW j \in kept, Precedes(j, i) PROVE Place(kept, j) < Place(kept, i)
  <2> DEFINE T == {x \in kept : Precedes(x, i)}
             U == {x \in kept : Precedes(x, j)}
  <2>1. U \subseteq T /\ j \in T /\ j \notin U
    <3>1. \A x \in kept : Precedes(x, j) => Precedes(x, i)
      BY <1>6, PrecedesOrders
    <3>2. QED  BY <1>6, <3>1, PrecedesOrders
  <2>2. IsFiniteSet(T) /\ Cardinality(T) \in Nat /\ Cardinality(U) \in Nat
    BY <1>5
  <2>3. Place(kept, i) = Cardinality(T) + 1 /\ Place(kept, j) = Cardinality(U) + 1
    BY DEF Place
  <2> HIDE DEF T, U
  <2>4. Cardinality(U) <= Cardinality(T) /\ Cardinality(T) # Cardinality(U)
    BY <2>1, <2>2, FS_Subset
  <2>5. QED  BY <2>2, <2>3, <2>4
<1> DEFINE f == [i \in kept |-> Place(kept, i)]
<1>7. f \in [kept -> 1 .. k]
  <2>1. ASSUME NEW i \in kept PROVE Place(kept, i) \in 1 .. k
    <3>1. PICK c \in Nat : c = Cardinality({j \in kept : Precedes(j, i)}) /\ c < k
      BY <1>5
    <3>2. Place(kept, i) = c + 1
      BY <3>1 DEF Place
    <3>3. QED  BY <3>1, <3>2
  <2>2. QED  BY <2>1
<1>8. \A i \in kept : f[i] = Place(kept, i) /\ Place(kept, i) \in 1 .. k
  BY <1>7
<1> HIDE DEF f
<1>9. \A i \in kept, j \in kept : f[i] = f[j] => i = j
  <2> SUFFICES ASSUME NEW i \in kept, NEW j \in kept, f[i] = f[j] PROVE i = j
    OBVIOUS
  <2>1. Place(kept, i) = Place(kept, j) /\ Place(kept, i) \in Int /\ Place(kept, j) \in Int
    BY <1>8
  <2>2. ~Precedes(i, j) /\ ~Precedes(j, i)
    BY <1>6, <2>1
  <2>3. i \in DOMAIN lines /\ j \in DOMAIN lines
    OBVIOUS
  <2>4. QED  BY <2>2, <2>3, PrecedesOrders
<1>10. f \in Injection(kept, 1 .. k)
  BY <1>7, <1>9 DEF Injection, IsInjective
<1>11. IsFiniteSet(1 .. k) /\ Cardinality(1 .. k) = k
  BY FS_Interval
<1>12. f \in Surjection(kept, 1 .. k)
  BY <1>4, <1>10, <1>11, FS_Injection
<1>13. \A n \in 1 .. k : \E i \in kept : Place(kept, i) = n
  BY <1>8, <1>12 DEF Surjection
<1>14. ASSUME NEW n \in 1 .. k PROVE Merged(kept)[n] \in kept /\ Place(kept, Merged(kept)[n]) = n
  <2>1. Merged(kept)[n] = CHOOSE i \in kept : Place(kept, i) = n
    BY <1>4 DEF Merged
  <2>2. QED  BY <1>13, <2>1
<1>15. ASSUME NEW i \in kept PROVE Merged(kept)[Place(kept, i)] = i
  <2>1. PICK j : j = Merged(kept)[Place(kept, i)]
    OBVIOUS
  <2>2. j \in kept /\ Place(kept, j) = Place(kept, i)
    BY <1>8, <1>14, <2>1
  <2>3. QED  BY <1>8, <1>9, <2>1, <2>2
<1>16. QED  BY <1>3, <1>4, <1>5, <1>6, <1>8, <1>14, <1>15

\* Places are numbers, each line's its own, and the merge has a line at each.
LEMMA PlaceType ==
    ASSUME Ordered, NEW kept, kept \subseteq DOMAIN lines
    PROVE  /\ \A j \in kept : Place(kept, j) \in Nat /\ 1 <= Place(kept, j)
           /\ \A i, j \in kept : Place(kept, i) = Place(kept, j) => i = j
           /\ \A n \in Nat : n + 1 <= Cardinality(kept) =>
                Merged(kept)[n + 1] \in kept /\ Place(kept, Merged(kept)[n + 1]) = n + 1
<1>1. PICK k \in Nat : k = Cardinality(kept)
  BY MergeIs
<1>2. \A j \in kept : Place(kept, j) \in 1 .. k
  BY <1>1, MergeIs
<1>3. \A n \in 1 .. k : Merged(kept)[n] \in kept /\ Place(kept, Merged(kept)[n]) = n
  BY <1>1, MergeIs
<1>4. ASSUME NEW i \in kept, NEW j \in kept, Place(kept, i) = Place(kept, j) PROVE i = j
  <2>1. Merged(kept)[Place(kept, i)] = i /\ Merged(kept)[Place(kept, j)] = j
    BY MergeIs
  <2>2. QED  BY <1>4, <2>1
<1>5. QED  BY <1>1, <1>2, <1>3, <1>4

\* What is heard has been kept, and all of the same time and before.
LEMMA HeardKept ==
    ASSUME Ordered, NEW kept, kept \subseteq DOMAIN lines, NEW i \in Heard(kept),
           NEW j \in DOMAIN lines, lines[j].at <= lines[i].at
    PROVE  i \in DOMAIN lines /\ j \in kept /\ j \in Heard(kept)
<1>1. i \in DOMAIN lines /\ \A l \in DOMAIN lines \ kept : lines[i].at < lines[l].at
  BY DEF Heard
<1>2. \A l \in DOMAIN lines : lines[l].at \in Int
  BY DEF Ordered
<1>3. \A l \in DOMAIN lines \ kept : lines[j].at < lines[l].at
  BY <1>1, <1>2
<1>4. ~(lines[j].at < lines[j].at)
  BY <1>2
<1>5. QED  BY <1>1, <1>3, <1>4 DEF Heard

\* A line that was heard before anything that is missing has its own place in
\* the merge, or one of another line of its time.
LEMMA HeardPlace ==
    ASSUME Ordered, NEW kept, kept \subseteq DOMAIN lines, NEW i \in Heard(kept)
    PROVE  /\ Place(kept, i) \in DOMAIN lines
           /\ lines[Place(kept, i)].at = lines[i].at
           /\ Place(kept, i) # i => Ties(i)
<1>1. /\ Recording /\ Len(lines) \in Nat /\ DOMAIN lines = 1 .. Len(lines)
      /\ \A j \in DOMAIN lines : lines[j].at \in Int /\ j \in Nat /\ 1 <= j
      /\ \A j, l \in DOMAIN lines : j < l => lines[j].at <= lines[l].at
  BY LinePlaces DEF Ordered
<1>2. i \in DOMAIN lines /\ lines[i].at <= lines[i].at
  BY <1>1 DEF Heard
<1>3. i \in kept /\ \A j \in DOMAIN lines : lines[j].at <= lines[i].at => j \in kept
  BY <1>2, HeardKept
<1> DEFINE Pred == {j \in kept : Precedes(j, i)}
           n    == Place(kept, i)
<1>4. n = Cardinality(Pred) + 1 /\ IsFiniteSet(Pred) /\ IsFiniteSet(kept) /\ n \in 1 .. Cardinality(kept)
  BY <1>3, MergeIs DEF Place
<1>5. Cardinality(Pred) \in Nat
  BY <1>4, FS_CardinalityType
<1>6. n \in DOMAIN lines
  <2>1. IsFiniteSet(1 .. Len(lines)) /\ Cardinality(1 .. Len(lines)) = Len(lines)
    BY <1>1, FS_Interval
  <2>2. Cardinality(kept) \in Nat /\ Cardinality(kept) <= Len(lines)
    BY <1>1, <2>1, FS_Subset, MergeIs
  <2>3. QED  BY <1>1, <1>4, <2>2
<1>7. \A j \in kept : Precedes(j, i) => lines[j].at <= lines[i].at
  BY <1>2, PrecedesOrders
<1>8. \A j \in DOMAIN lines : lines[j].at < lines[i].at => j \in Pred
  <2> SUFFICES ASSUME NEW j \in DOMAIN lines, lines[j].at < lines[i].at PROVE j \in Pred
    OBVIOUS
  <2>1. lines[j].at <= lines[i].at
    BY <1>1, <1>2
  <2>2. QED  BY <1>2, <1>3, <2>1, PrecedesOrders
<1>9. i \notin Pred
  BY <1>2, PrecedesOrders
<1>10. ~Ties(i) => Pred = 1 .. i - 1
  <2> SUFFICES ASSUME ~Ties(i) PROVE Pred = 1 .. i - 1
    OBVIOUS
  <2>1. \A j \in DOMAIN lines : lines[j].at = lines[i].at => lines[j].venue = lines[i].venue
    BY DEF Ties
  <2>2. ASSUME NEW j \in Pred PROVE j \in 1 .. i - 1
    <3>1. j \in DOMAIN lines /\ Precedes(j, i)
      OBVIOUS
    <3>2. ASSUME i < j PROVE FALSE
      <4>1. lines[i].at <= lines[j].at /\ lines[j].at <= lines[i].at
        BY <1>1, <1>2, <1>7, <3>1, <3>2
      <4>2. lines[j].at = lines[i].at
        BY <1>1, <1>2, <3>1, <4>1
      <4>3. Precedes(i, j)
        BY <1>2, <2>1, <3>1, <3>2, <4>2, PrecedesOrders
      <4>4. Precedes(i, i)
        BY <1>2, <3>1, <4>3, PrecedesOrders
      <4>5. QED  BY <1>2, <4>4, PrecedesOrders
    <3>3. j # i
      BY <1>9
    <3>4. QED  BY <1>1, <1>2, <3>1, <3>2, <3>3
  <2>3. ASSUME NEW j \in 1 .. i - 1 PROVE j \in Pred
    <3>1. j \in DOMAIN lines /\ j < i
      BY <1>1, <1>2
    <3>2. lines[j].at <= lines[i].at
      BY <1>1, <1>2, <3>1
    <3>3. CASE lines[j].at = lines[i].at
      <4>1. Precedes(j, i)
        BY <1>2, <2>1, <3>1, <3>3, PrecedesOrders
      <4>2. QED  BY <1>3, <3>1, <3>2, <4>1
    <3>4. CASE lines[j].at # lines[i].at
      BY <1>1, <1>2, <1>8, <3>1, <3>2, <3>4
    <3>5. QED  BY <3>3, <3>4
  <2> HIDE DEF Pred
  <2>4. QED  BY <2>2, <2>3
<1> HIDE DEF Pred, n
<1>11. ASSUME ~Ties(i) PROVE n = i
  <2>1. i \in Nat /\ 1 <= i
    BY <1>1, <1>2
  <2>2. Cardinality(1 .. i - 1) = i - 1
    <3>1. 1 \in Int /\ i - 1 \in Int /\ ~(1 > i - 1 /\ i - 1 # 0)
      BY <2>1
    <3>2. Cardinality(1 .. i - 1) = IF 1 > i - 1 THEN 0 ELSE (i - 1) - 1 + 1
      BY <3>1, FS_Interval
    <3>3. QED  BY <2>1, <3>1, <3>2
  <2>3. QED  BY <1>4, <1>10, <1>11, <2>1, <2>2
<1>12. ASSUME lines[n].at < lines[i].at PROVE FALSE
  <2>1. 1 .. n \subseteq Pred
    <3> SUFFICES ASSUME NEW j \in 1 .. n PROVE j \in Pred
      OBVIOUS
    <3>1. j \in DOMAIN lines /\ (j = n \/ j < n)
      BY <1>1, <1>6
    <3>2. lines[j].at <= lines[n].at
      BY <1>1, <1>6, <3>1
    <3>3. lines[j].at < lines[i].at
      BY <1>1, <1>2, <1>6, <1>12, <3>1, <3>2
    <3>4. QED  BY <1>8, <3>1, <3>3
  <2>2. n \in Nat /\ Cardinality(1 .. n) = n
    BY <1>1, <1>6, FS_Interval
  <2>3. Cardinality(1 .. n) <= Cardinality(Pred)
    BY <1>4, <2>1, FS_Subset
  <2>4. QED  BY <1>4, <1>5, <2>2, <2>3
<1>13. ASSUME lines[i].at < lines[n].at PROVE FALSE
  <2>1. Pred \union {i} \subseteq 1 .. n - 1
    <3> SUFFICES ASSUME NEW j \in Pred \union {i} PROVE j \in 1 .. n - 1
      OBVIOUS
    <3>1. j \in DOMAIN lines /\ lines[j].at <= lines[i].at
      BY <1>2, <1>7 DEF Pred
    <3>2. lines[j].at < lines[n].at
      BY <1>1, <1>2, <1>6, <1>13, <3>1
    <3>3. ~(n < j) /\ n # j
      <4>1. n < j => lines[n].at <= lines[j].at
        BY <1>1, <1>6, <3>1
      <4>2. lines[n].at \in Int /\ lines[j].at \in Int
        BY <1>1, <1>6, <3>1
      <4>3. QED  BY <3>2, <4>1, <4>2
    <3>4. QED  BY <1>1, <1>6, <3>1, <3>3
  <2>2. Cardinality(Pred \union {i}) = Cardinality(Pred) + 1
    BY <1>4, <1>9, FS_AddElement
  <2>3. n \in Nat /\ 1 <= n /\ IsFiniteSet(1 .. n - 1)
    BY <1>1, <1>6, FS_Interval
  <2>4. Cardinality(1 .. n - 1) = n - 1
    <3>1. 1 \in Int /\ n - 1 \in Int /\ ~(1 > n - 1 /\ n - 1 # 0)
      BY <2>3
    <3>2. Cardinality(1 .. n - 1) = IF 1 > n - 1 THEN 0 ELSE (n - 1) - 1 + 1
      BY <3>1, FS_Interval
    <3>3. QED  BY <2>3, <3>1, <3>2
  <2>5. Cardinality(Pred \union {i}) <= Cardinality(1 .. n - 1)
    BY <2>1, <2>3, FS_Subset
  <2>6. QED  BY <1>4, <1>5, <2>2, <2>3, <2>4, <2>5
<1>14. lines[n].at = lines[i].at
  <2>1. lines[n].at \in Int /\ lines[i].at \in Int
    BY <1>1, <1>2, <1>6
  <2>2. QED  BY <1>12, <1>13, <2>1
<1>15. QED  BY <1>6, <1>11, <1>14 DEF n

-----------------------------------------------------------------------------
(* The replay, line by line. *)

Fresh == [books |-> FreshBooks, given |-> <<>>]

Replays(after, kept) ==
    /\ after[0] = Fresh
    /\ \A n \in 1 .. Cardinality(kept) : after[n] = Replayed(after[n - 1], Merged(kept)[n])

\* The loop of replay over the lines kept.
LEMMA ReplayIs ==
    ASSUME NEW kept, Cardinality(kept) \in Nat
    PROVE  \E after : Replays(after, kept) /\ Replay(kept) = after[Cardinality(kept)].given
<1>1. PICK N \in Nat : N = Cardinality(kept)
  OBVIOUS
<1>2. PICK merged : merged = Merged(kept)
  OBVIOUS
<1> DEFINE Steps(g) == g = [n \in 0 .. Cardinality(kept) |->
                               IF n = 0 THEN Fresh ELSE Replayed(g[n - 1], Merged(kept)[n])]
           Upto(g, n) ==
               /\ g[0] = Fresh
               /\ \A m \in 1 .. n : g[m] = Replayed(g[m - 1], merged[m])
           P == {n \in Nat : \E g : DOMAIN g = 0 .. n /\ Upto(g, n)}
<1>3. 0 \in P
  <2>1. DOMAIN [n \in 0 .. 0 |-> Fresh] = 0 .. 0 /\ Upto([n \in 0 .. 0 |-> Fresh], 0)
    OBVIOUS
  <2>2. QED  BY <2>1
<1>4. ASSUME NEW n \in Nat, n \in P PROVE n + 1 \in P
  <2>1. PICK g : DOMAIN g = 0 .. n /\ Upto(g, n)
    BY <1>4
  <2> DEFINE h == [m \in 0 .. n + 1 |-> IF m <= n THEN g[m] ELSE Replayed(g[m - 1], merged[m])]
  <2>2. h[0] = Fresh
    BY <2>1
  <2>3. ASSUME NEW m \in 1 .. n + 1 PROVE h[m] = Replayed(h[m - 1], merged[m])
    <3>1. m \in 0 .. n + 1 /\ m - 1 \in 0 .. n + 1 /\ m - 1 <= n
      OBVIOUS
    <3>2. h[m - 1] = g[m - 1]
      BY <3>1
    <3>3. CASE m <= n
      <4>1. m \in 1 .. n /\ h[m] = g[m]
        BY <3>1, <3>3
      <4>2. QED  BY <2>1, <3>2, <4>1
    <3>4. CASE ~(m <= n)
      <4>1. h[m] = Replayed(g[m - 1], merged[m])
        BY <3>1, <3>4
      <4>2. QED  BY <3>2, <4>1
    <3>5. QED  BY <3>3, <3>4
  <2>4. DOMAIN h = 0 .. n + 1
    OBVIOUS
  <2> HIDE DEF h
  <2>5. Upto(h, n + 1)
    BY <2>2, <2>3
  <2>6. QED  BY <2>4, <2>5
<1>5. PICK g : DOMAIN g = 0 .. N /\ Upto(g, N)
  <2> HIDE DEF P, Upto
  <2>1. \A n \in Nat : n \in P
    BY <1>3, <1>4, NatSetInduction
  <2>2. QED  BY <2>1 DEF P
<1>6. \E h : Steps(h)
  <2> DEFINE h == [n \in 0 .. N |-> g[n]]
  <2>1. ASSUME NEW n \in 0 .. N
        PROVE  h[n] = IF n = 0 THEN Fresh ELSE Replayed(h[n - 1], merged[n])
    <3>1. CASE n = 0
      BY <1>5, <3>1
    <3>2. CASE n # 0
      <4>1. n \in 1 .. N /\ n - 1 \in 0 .. N /\ h[n] = g[n] /\ h[n - 1] = g[n - 1]
        BY <3>2
      <4>2. QED  BY <1>5, <3>2, <4>1
    <3>3. QED  BY <3>1, <3>2
  <2>2. h = [n \in 0 .. N |-> h[n]]
    OBVIOUS
  <2> HIDE DEF h
  <2>3. Steps(h)
    BY <1>1, <1>2, <2>1, <2>2
  <2>4. QED  BY <2>3
<1>7. PICK after : Steps(after) /\ Replay(kept) = after[Cardinality(kept)].given
  <2> DEFINE after == CHOOSE h : Steps(h)
  <2>1. Replay(kept) = after[Cardinality(kept)].given
    BY DEF Replay, Fresh
  <2>2. Steps(after)
    BY <1>6
  <2> HIDE DEF after, Steps
  <2>3. QED  BY <2>1, <2>2
<1>8. after[0] = Fresh
  BY <1>1, <1>7
<1>9. ASSUME NEW n \in 1 .. N PROVE after[n] = Replayed(after[n - 1], merged[n])
  <2>1. n \in 0 .. N /\ n # 0
    BY <1>1
  <2>2. QED  BY <1>1, <1>2, <1>7, <2>1
<1>10. Replays(after, kept)
  BY <1>1, <1>2, <1>8, <1>9 DEF Replays
<1>11. QED  BY <1>7, <1>10

\* The books stay as they are until Coinbase's next line.
LEMMA BooksStay ==
    ASSUME Recording, NEW bks, Follows(lines, bks), NEW a \in Nat, NEW b \in Nat, a <= b,
           b <= Len(lines), \A j \in DOMAIN lines : a < j /\ j <= b => lines[j].venue # "cb"
    PROVE  bks[b] = bks[a]
<1>1. Len(lines) \in Nat /\ DOMAIN lines = 1 .. Len(lines)
  BY LinePlaces
<1> DEFINE P == {n \in Nat : a + n <= b => bks[a + n] = bks[a]}
<1>2. 0 \in P
  OBVIOUS
<1>3. ASSUME NEW n \in Nat, n \in P PROVE n + 1 \in P
  <2> SUFFICES ASSUME a + (n + 1) <= b PROVE bks[a + (n + 1)] = bks[a]
    OBVIOUS
  <2>1. PICK j \in Nat : j = a + (n + 1)
    OBVIOUS
  <2>2. j \in DOMAIN lines /\ a < j /\ j <= b /\ j - 1 = a + n
    BY <1>1, <2>1
  <2>3. lines[j].venue # "cb"
    BY <2>2
  <2>4. bks[j] = bks[j - 1]
    BY <2>2, <2>3 DEF Follows, Blurred, BooksAfter
  <2>5. bks[a + n] = bks[a]
    BY <1>3
  <2>6. QED  BY <2>1, <2>2, <2>4, <2>5
<1>4. \A n \in Nat : n \in P
  <2> HIDE DEF P
  <2>1. QED  BY <1>2, <1>3, NatSetInduction
<1>5. b - a \in Nat /\ a + (b - a) = b
  OBVIOUS
<1>6. QED  BY <1>4, <1>5

\* Coinbase's lines up to one, and those that a replay has heard.
CbsUpto(x) == {j \in DOMAIN lines : j <= x /\ lines[j].venue = "cb"}
CbsDone(kept, n) == {j \in kept : lines[j].venue = "cb" /\ Place(kept, j) <= n}

\* A line whose replay must give what the live run gave.
Plain(kept, i) == i \in Heard(kept) /\ ~Blurred(lines[i])

\* What a replay has after n of the lines kept: what it gave for a line of
\* before anything missing is what was given live, and its books are those of
\* the live run if it has heard just that run's lines of Coinbase.
GivenLive(acc, n, kept, bks) ==
    /\ \E S : acc.given \in Seq(S)
    /\ Len(acc.given) = n
    /\ \A m \in 1 .. n :
        Plain(kept, Merged(kept)[m]) => acc.given[m] = LiveRun[Merged(kept)[m]]
    /\ \A x \in 0 .. Len(lines) :
        CbsUpto(x) = CbsDone(kept, n) /\ (\A j \in CbsUpto(x) : Plain(kept, j))
            => acc.books = bks[x]

\* The lines of Coinbase that a replay heard before one of them are those of
\* before it, and they are as plain.
LEMMA HeardBefore ==
    ASSUME Ordered, ReplayInv, NEW kept, kept \subseteq DOMAIN lines,
           NEW y \in kept, lines[y].venue = "cb", NEW n \in Nat, Place(kept, y) = n + 1
    PROVE  /\ \A j \in CbsDone(kept, n) : j < y
           /\ Plain(kept, y) =>
                /\ CbsUpto(y - 1) = CbsDone(kept, n)
                /\ \A j \in CbsUpto(y - 1) : Plain(kept, j)
<1>1. /\ \A j \in DOMAIN lines : j \in Nat /\ 1 <= j /\ lines[j].at \in Int
      /\ \A i, j \in DOMAIN lines : i < j => lines[i].at <= lines[j].at
  BY LinePlaces DEF Ordered
<1>2. \A j \in kept : Place(kept, j) \in Int
  BY PlaceType
<1>3. ASSUME NEW j \in CbsDone(kept, n) PROVE j < y
  <2>1. j \in kept /\ lines[j].venue = "cb" /\ Place(kept, j) <= n
    BY DEF CbsDone
  <2>2. ~Precedes(y, j) /\ j # y
    BY <1>2, <2>1, MergeIs
  <2>3. ~(y < j)
    BY <2>1, <2>2, PrecedesOrders
  <2>4. QED  BY <1>1, <2>1, <2>2, <2>3
<1>4. ASSUME Plain(kept, y), NEW j \in CbsUpto(y - 1)
      PROVE  j \in CbsDone(kept, n) /\ Plain(kept, j)
  <2>1. j \in DOMAIN lines /\ lines[j].venue = "cb" /\ j < y
    BY <1>1 DEF CbsUpto
  <2>2. y \in Heard(kept) /\ ~lines[y].broken
    BY <1>4 DEF Plain, Blurred
  <2>3. j \in kept /\ j \in Heard(kept)
    BY <1>1, <2>1, <2>2, HeardKept
  <2>4. ~lines[j].broken
    BY <2>1, <2>2 DEF ReplayInv
  <2>5. Place(kept, j) < Place(kept, y)
    BY <2>1, <2>3, MergeIs, PrecedesOrders
  <2>6. Place(kept, j) <= n
    BY <1>2, <2>3, <2>5
  <2>7. QED  BY <2>1, <2>3, <2>4, <2>6 DEF CbsDone, Plain, Blurred
<1>5. ASSUME NEW j \in CbsDone(kept, n) PROVE j \in CbsUpto(y - 1)
  <2>1. j < y /\ j \in DOMAIN lines /\ y \in DOMAIN lines /\ lines[j].venue = "cb"
    BY <1>3 DEF CbsDone
  <2>2. j <= y - 1
    BY <1>1, <2>1
  <2>3. QED  BY <2>1, <2>2 DEF CbsUpto
<1>6. QED  BY <1>3, <1>4, <1>5

\* What the replay of a line adds.
LEMMA ReplayedIs ==
    ASSUME NEW acc, NEW i, NEW S, acc.given \in Seq(S)
    PROVE  /\ Replayed(acc, i).books = BooksAfter(acc.books, lines[i])
           /\ \E T : Replayed(acc, i).given \in Seq(T)
           /\ Len(Replayed(acc, i).given) = Len(acc.given) + 1
           /\ Replayed(acc, i).given[Len(acc.given) + 1]
                = <<lines[i].venue, lines[i].at, Gives(acc.books, lines[i])>>
           /\ \A m \in 1 .. Len(acc.given) : Replayed(acc, i).given[m] = acc.given[m]
<1>1. PICK x : x = <<lines[i].venue, lines[i].at, Gives(acc.books, lines[i])>>
  OBVIOUS
<1>2. PICK one : one = Replayed(acc, i)
  OBVIOUS
<1>3. one.books = BooksAfter(acc.books, lines[i]) /\ one.given = Append(acc.given, x)
  BY <1>1, <1>2 DEF Replayed, BooksAfter, Gives
<1>4. acc.given \in Seq(S \union {x})
  OBVIOUS
<1>5. /\ one.given \in Seq(S \union {x}) /\ Len(one.given) = Len(acc.given) + 1
      /\ one.given[Len(acc.given) + 1] = x
      /\ \A m \in 1 .. Len(acc.given) : one.given[m] = acc.given[m]
  BY <1>3, <1>4
<1>6. QED  BY <1>1, <1>2, <1>3, <1>5

\* A line more.
LEMMA OneMoreGiven ==
    ASSUME Ordered, ReplayInv, NEW bks, Follows(lines, bks),
           NEW kept, kept \subseteq DOMAIN lines, NEW n \in Nat, n + 1 <= Cardinality(kept),
           NEW acc, GivenLive(acc, n, kept, bks)
    PROVE  GivenLive(Replayed(acc, Merged(kept)[n + 1]), n + 1, kept, bks)
<1>1. PICK y : y = Merged(kept)[n + 1]
  OBVIOUS
<1>2. y \in kept /\ Place(kept, y) = n + 1 /\ \A j \in kept : Place(kept, j) \in Int
  BY <1>1, PlaceType
<1>3. /\ Recording /\ Len(lines) \in Nat /\ DOMAIN lines = 1 .. Len(lines)
      /\ y \in DOMAIN lines /\ y \in Nat /\ 1 <= y /\ y <= Len(lines)
  BY <1>2, LinePlaces DEF Ordered
<1>4. PICK one : one = Replayed(acc, y)
  OBVIOUS
<1>5. PICK x : x = <<lines[y].venue, lines[y].at, Gives(acc.books, lines[y])>>
  OBVIOUS
<1>6. /\ one.books = BooksAfter(acc.books, lines[y])
      /\ \E T : one.given \in Seq(T)
      /\ Len(one.given) = n + 1 /\ one.given[n + 1] = x
      /\ \A m \in 1 .. n : one.given[m] = acc.given[m]
  <2>1. PICK S : acc.given \in Seq(S)
    BY DEF GivenLive
  <2>2. Len(acc.given) = n
    BY DEF GivenLive
  <2>3. QED  BY <1>4, <1>5, <2>1, <2>2, ReplayedIs
<1>7. ASSUME Plain(kept, y), lines[y].venue = "cb" PROVE acc.books = bks[y - 1]
  <2>1. CbsUpto(y - 1) = CbsDone(kept, n) /\ \A j \in CbsUpto(y - 1) : Plain(kept, j)
    BY <1>2, <1>7, HeardBefore
  <2>2. y - 1 \in 0 .. Len(lines)
    BY <1>3
  <2>3. QED  BY <2>1, <2>2 DEF GivenLive
<1>8. Plain(kept, y) => /\ bks[y] = BooksAfter(bks[y - 1], lines[y])
                        /\ lines[y].gave = Gives(bks[y - 1], lines[y])
  BY <1>3 DEF Plain, Follows
<1>9. Plain(kept, y) => x = LiveRun[y]
  <2> SUFFICES ASSUME Plain(kept, y) PROVE x = LiveRun[y]
    OBVIOUS
  <2>1. Gives(acc.books, lines[y]) = Gives(bks[y - 1], lines[y])
    <3>1. CASE lines[y].venue = "cb"
      BY <1>7, <3>1
    <3>2. CASE lines[y].venue # "cb"
      BY <3>2 DEF Gives
    <3>3. QED  BY <3>1, <3>2
  <2>2. LiveRun[y] = <<lines[y].venue, lines[y].at, lines[y].gave>>
    BY <1>3 DEF LiveRun
  <2>3. QED  BY <1>5, <1>8, <2>1, <2>2
<1>10. ASSUME NEW m \in 1 .. n + 1, Plain(kept, Merged(kept)[m])
       PROVE  one.given[m] = LiveRun[Merged(kept)[m]]
  <2>1. CASE m = n + 1
    BY <1>1, <1>6, <1>9, <1>10, <2>1
  <2>2. CASE m # n + 1
    <3>1. m \in 1 .. n
      BY <2>2
    <3>2. QED  BY <1>6, <1>10, <3>1 DEF GivenLive
  <2>3. QED  BY <2>1, <2>2
<1>11. ASSUME NEW z \in 0 .. Len(lines), CbsUpto(z) = CbsDone(kept, n + 1),
              \A j \in CbsUpto(z) : Plain(kept, j)
       PROVE  one.books = bks[z]
  <2>1. \A j \in kept : j # y => (Place(kept, j) <= n + 1 <=> Place(kept, j) <= n)
    <3> SUFFICES ASSUME NEW j \in kept, j # y, Place(kept, j) <= n + 1 PROVE Place(kept, j) <= n
      BY <1>2
    <3>1. Place(kept, j) # n + 1
      BY <1>2, PlaceType
    <3>2. QED  BY <1>2, <3>1
  <2>2. \A j \in kept : j # y => (j \in CbsDone(kept, n + 1) <=> j \in CbsDone(kept, n))
    BY <2>1 DEF CbsDone
  <2>3. CASE lines[y].venue # "cb"
    <3>1. y \notin CbsDone(kept, n + 1) /\ y \notin CbsDone(kept, n)
      BY <2>3 DEF CbsDone
    <3>2. CbsDone(kept, n + 1) = CbsDone(kept, n)
      BY <2>2, <3>1 DEF CbsDone
    <3>3. acc.books = bks[z]
      BY <1>11, <3>2 DEF GivenLive
    <3>4. QED  BY <1>6, <2>3, <3>3 DEF BooksAfter
  <2>4. CASE lines[y].venue = "cb"
    <3>1. y \in CbsDone(kept, n + 1)
      BY <1>2, <2>4 DEF CbsDone
    <3>2. Plain(kept, y) /\ y <= z
      BY <1>11, <3>1 DEF CbsUpto
    <3>3. one.books = bks[y]
      BY <1>6, <1>7, <1>8, <2>4, <3>2
    <3>4. ASSUME NEW j \in DOMAIN lines, y < j, j <= z PROVE lines[j].venue # "cb"
      <4> SUFFICES ASSUME lines[j].venue = "cb" PROVE FALSE
        OBVIOUS
      <4>1. j \in CbsDone(kept, n + 1) /\ j \in kept /\ j # y
        BY <1>3, <1>11, <3>4 DEF CbsUpto, CbsDone
      <4>2. j < y
        BY <1>2, <2>2, <2>4, <4>1, HeardBefore
      <4>3. j \in Nat
        BY <1>3
      <4>4. QED  BY <1>3, <3>4, <4>2, <4>3
    <3>5. bks[z] = bks[y]
      BY <1>3, <3>2, <3>4, BooksStay
    <3>6. QED  BY <3>3, <3>5
  <2>5. QED  BY <2>3, <2>4
<1>12. GivenLive(one, n + 1, kept, bks)
  BY <1>6, <1>10, <1>11 DEF GivenLive
<1>13. QED  BY <1>1, <1>4, <1>12

\* A replay gives what was given live for every plain line.
LEMMA ReplayGives ==
    ASSUME Ordered, ReplayInv, NEW kept, kept \subseteq DOMAIN lines, NEW m \in 1 .. Cardinality(kept),
           Plain(kept, Merged(kept)[m])
    PROVE  Replay(kept)[m] = LiveRun[Merged(kept)[m]]
<1>1. PICK bks : Follows(lines, bks)
  BY DEF ReplayInv
<1>2. Cardinality(kept) \in Nat
  BY MergeIs
<1>3. PICK k \in Nat : k = Cardinality(kept)
  BY <1>2
<1>4. PICK after : Replays(after, kept) /\ Replay(kept) = after[k].given
  BY <1>3, ReplayIs
<1> DEFINE P == {n \in Nat : n <= k => GivenLive(after[n], n, kept, bks)}
<1>5. 0 \in P
  <2>1. after[0].books = FreshBooks /\ after[0].given = <<>>
    BY <1>4 DEF Replays, Fresh
  <2>2. after[0].given \in Seq({}) /\ Len(after[0].given) = 0
    BY <2>1
  <2>3. CbsDone(kept, 0) = {}
    <3>1. \A j \in kept : Place(kept, j) \in 1 .. k
      BY <1>3, MergeIs
    <3>2. \A j \in kept : ~(Place(kept, j) <= 0)
      BY <1>3, <3>1
    <3>3. QED  BY <3>2 DEF CbsDone
  <2>4. ASSUME NEW x \in 0 .. Len(lines), CbsUpto(x) = {} PROVE after[0].books = bks[x]
    <3>1. Recording /\ Len(lines) \in Nat
      BY LinePlaces DEF Ordered
    <3>2. \A j \in DOMAIN lines : 0 < j /\ j <= x => lines[j].venue # "cb"
      BY <2>4 DEF CbsUpto
    <3>3. x \in Nat /\ 0 <= x /\ x <= Len(lines)
      BY <3>1
    <3>4. bks[x] = bks[0]
      BY <1>1, <3>1, <3>2, <3>3, BooksStay
    <3>5. QED  BY <1>1, <2>1, <3>4 DEF Follows
  <2>5. GivenLive(after[0], 0, kept, bks)
    BY <2>2, <2>3, <2>4 DEF GivenLive
  <2>6. QED  BY <2>5
<1>6. ASSUME NEW n \in Nat, n \in P PROVE n + 1 \in P
  <2> SUFFICES ASSUME n + 1 <= k PROVE GivenLive(after[n + 1], n + 1, kept, bks)
    OBVIOUS
  <2>1. n <= k /\ n + 1 \in 1 .. k /\ (n + 1) - 1 = n
    BY <1>3
  <2>2. GivenLive(after[n], n, kept, bks)
    BY <1>6, <2>1
  <2>3. after[n + 1] = Replayed(after[n], Merged(kept)[n + 1])
    BY <1>3, <1>4, <2>1 DEF Replays
  <2>4. QED  BY <1>1, <1>3, <2>2, <2>3, OneMoreGiven
<1>7. k \in P
  <2> HIDE DEF P
  <2>1. \A n \in Nat : n \in P
    BY <1>5, <1>6, NatSetInduction
  <2>2. QED  BY <1>3, <2>1
<1>8. GivenLive(after[k], k, kept, bks)
  BY <1>3, <1>7
<1>9. QED  BY <1>3, <1>4, <1>8 DEF GivenLive

\* Whatever a crash takes of the files, a replay of the rest hears every line of
\* before what is missing, gives the engine what it gave live - a line of
\* Coinbase's unless a connection had been lost that no gap ended - and hears
\* each at its own place, but where two files have lines of one time.
THEOREM ReplayFollowsLive == Spec => []ReplayIsLive
<1>1. ClockInv /\ ReplayInv => ReplayIsLive
  <2> SUFFICES ASSUME ClockInv, ReplayInv, NEW kept \in Cuts, NEW i \in Heard(kept)
               PROVE  \E n \in DOMAIN Merged(kept) \intersect DOMAIN lines :
                         /\ Merged(kept)[n] = i
                         /\ \/ Replay(kept)[n] = LiveRun[i]
                            \/ lines[i].venue = "cb" /\ lines[i].broken
                         /\ n # i => Ties(i) /\ lines[n].at = lines[i].at
    BY DEF ReplayIsLive
  <2>1. Ordered
    BY DEF Ordered, ClockInv, ClockType, ReplayInv
  <2>2. kept \subseteq DOMAIN lines
    BY DEF Cuts
  <2>3. i \in DOMAIN lines /\ lines[i].at <= lines[i].at
    BY <2>1 DEF Heard, Ordered
  <2>4. i \in kept
    BY <2>1, <2>2, <2>3, HeardKept
  <2>5. PICK n : n = Place(kept, i)
    OBVIOUS
  <2>6. n \in 1 .. Cardinality(kept) /\ Merged(kept)[n] = i
    BY <2>1, <2>2, <2>4, <2>5, MergeIs
  <2>7. n \in DOMAIN Merged(kept)
    BY <2>6 DEF Merged
  <2>8. n \in DOMAIN lines /\ lines[n].at = lines[i].at /\ (n # i => Ties(i))
    BY <2>1, <2>2, <2>5, HeardPlace
  <2>9. Plain(kept, i) => Replay(kept)[n] = LiveRun[i]
    BY <2>1, <2>2, <2>6, ReplayGives
  <2>10. QED  BY <2>6, <2>7, <2>8, <2>9 DEF Plain, Blurred
<1>2. QED  BY <1>1, ClockInvAlways, ReplayInvAlways, PTL
=============================================================================
