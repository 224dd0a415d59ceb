----------------------------- MODULE LakeBackfill -----------------------------
(***************************************************************************)
(* marketimmune/lake/backfill.py and tables.py: runs of run_backfill over  *)
(* one lake and one date.  An artifact is opened beside its target and     *)
(* then renamed over it; the temporary name is the same for every run, and *)
(* nothing keeps runs apart.  A run can fail or be killed at any of its    *)
(* steps.  What an artifact holds is named by the request it was built     *)
(* from; the asset contexts of a date are those of every coin.  The files  *)
(* that a coin-day has if it has fills - bronze, silver, markout - are     *)
(* one here, written at once.  The leakage report beside the training rows *)
(* is left out: it is written in place, and a crash may cut it short.      *)
(***************************************************************************)
EXTENDS Integers, SequencesExt

CONSTANTS
    Run, Coin, Request,
    CoinOf, RequestOf,      \* what a run is asked for
    Replacing,              \* the runs with replace=True
    Yields,                 \* the artifacts of a request that are not empty
    AtOnce,                 \* how many runs there are at a time
    None, Torn

\* Not the code: the coverage is recorded before what it covers.
CoverageFirst == [l2_book |-> 1, asset_ctxs |-> 2, fills |-> 3, training |-> 4, coverage |-> 0]

\* The artifacts and the order in which they are written.
Place == [l2_book |-> 1, asset_ctxs |-> 2, fills |-> 3, training |-> 4, coverage |-> 5]
Artifacts == {"l2_book", "asset_ctxs", "fills", "training", "coverage"}

ASSUME LakeAssumption ==
    /\ CoinOf \in [Run -> Coin] /\ RequestOf \in [Run -> Request]
    /\ Replacing \subseteq Run /\ AtOnce \in Nat
    /\ Yields \in [Request -> SUBSET Artifacts]
    /\ \A q \in Request : "coverage" \in Yields[q]
    /\ None \notin Request

VARIABLES
    lake,       \* every file: the request it was built from, None or Torn
    temp,       \* its temporary file: the run that opened it, None or Torn
    runs,
    disturbed,  \* of every coin, for the properties: since its coverage was recorded,
                \* runs of it overlapped, or a file that two runs wrote at once was
                \* published as one of its own
    begun       \* of every coin, for the properties: the requests of runs that replace
                \* and have published a file of it since its coverage was recorded

noted == <<disturbed, begun>>
lakeVars == <<lake, temp, runs, noted>>

\* The file of an artifact.
Path(coin, a) == IF a = "asset_ctxs" THEN <<"date", a>> ELSE <<coin, a>>
Files(coin) == {Path(coin, a) : a \in Artifacts}
Paths == UNION {Files(coin) : coin \in Coin}

Holds(q, a) == IF a = "asset_ctxs" THEN "contexts" ELSE q

Recorded(coin) == lake[Path(coin, "coverage")]

Active(r) == runs[r].state = "running"

\* What it writes next; empty artifacts are skipped.
NextUp(r) == CHOOSE a \in runs[r].left : \A b \in runs[r].left : Place[a] <= Place[b]
Target(r) == Path(CoinOf[r], NextUp(r))
Writing(path) == {r \in Run : Active(r) /\ runs[r].open /\ Target(r) = path}

Idle == [state |-> "idle", left |-> {}, open |-> FALSE, alone |-> TRUE]
Ended(r) == [runs EXCEPT ![r] = [Idle EXCEPT !.state = "over"]]

-----------------------------------------------------------------------------
\* The recorded hours differ, or cannot be read.
Refused(r) == Recorded(CoinOf[r]) \notin {None, RequestOf[r]} /\ r \notin Replacing

Starts(r) ==
    LET others == {o \in Run : Active(o) /\ CoinOf[o] = CoinOf[r]}
    IN  /\ runs[r].state = "idle" /\ Cardinality({o \in Run : Active(o)}) < AtOnce
        /\ IF Refused(r)
           THEN runs' = Ended(r)
           ELSE runs' = [o \in Run |->
                            CASE o = r -> [state |-> "running", left |-> Yields[RequestOf[r]],
                                           open |-> FALSE, alone |-> others = {}]
                              [] o \in others -> [runs[o] EXCEPT !.alone = FALSE]
                              [] OTHER -> runs[o]]
        /\ UNCHANGED <<lake, temp, noted>>

\* The temporary file is created, or emptied under a run that still writes it.
OpensFile(r) ==
    LET path == Target(r)
    IN  /\ UNCHANGED lake
        /\ temp' = [temp EXCEPT ![path] =
                       IF temp[path] # None /\ Writing(path) # {} THEN Torn ELSE r]

Opens(r) ==
    /\ Active(r) /\ ~runs[r].open
    /\ OpensFile(r)
    /\ runs' = [runs EXCEPT ![r].open = TRUE]
    /\ UNCHANGED noted

\* The file is complete and takes the target's name.
Publishes(r) ==
    LET a    == NextUp(r)
        path == Target(r)
        q    == RequestOf[r]
        torn == temp[path] # r
        of   == {coin \in Coin : torn /\ path \in Files(coin)}
        rest == runs[r].left \ {a}
    IN  /\ Active(r) /\ runs[r].open /\ temp[path] # None
        /\ lake' = [lake EXCEPT ![path] = IF torn THEN Torn ELSE Holds(q, a)]
        /\ temp' = [temp EXCEPT ![path] = None]
        /\ runs' = [o \in Run |->
                      LET alone == runs[o].alone /\ CoinOf[o] \notin of
                      IN  IF o # r THEN [runs[o] EXCEPT !.alone = alone]
                          ELSE [state |-> IF rest = {} THEN "written" ELSE "running",
                                left |-> rest, open |-> FALSE, alone |-> alone]]
        /\ disturbed' = [coin \in Coin |->
                           \/ coin \in of
                           \/ coin = CoinOf[r] /\ ~runs[r].alone
                           \/ disturbed[coin] /\ ~(coin = CoinOf[r] /\ a = "coverage")]
        /\ begun' = [begun EXCEPT ![CoinOf[r]] =
                        IF a = "coverage" THEN {} ELSE @ \union (IF r \in Replacing THEN {q} ELSE {})]

\* Another run has renamed the temporary file away.
FindsNoFile(r) ==
    /\ Active(r) /\ runs[r].open /\ temp[Target(r)] = None
    /\ runs' = Ended(r)
    /\ UNCHANGED <<lake, temp, noted>>

\* A fetch, the data or the disk fails, or the process is killed.
Stops(r) ==
    /\ Active(r) /\ runs' = Ended(r)
    /\ UNCHANGED <<lake, temp, noted>>

-----------------------------------------------------------------------------
LakeInit ==
    /\ lake = [path \in Paths |-> None] /\ temp = [path \in Paths |-> None]
    /\ runs = [r \in Run |-> Idle]
    /\ disturbed = [coin \in Coin |-> FALSE] /\ begun = [coin \in Coin |-> {}]

-----------------------------------------------------------------------------
\* A coin-day with recorded hours holds every artifact of these hours, whatever
\* runs failed or were killed on it: only one that was told to replace them may
\* have put its own in place of some, and has not recorded its hours yet
\* (run_backfill).  Runs of the coin that overlapped are left out, and artifacts
\* that these hours do not have.
CoverageTells ==
    \A coin \in Coin :
        LET q == Recorded(coin)
        IN  q \in Request /\ ~disturbed[coin] =>
                \A a \in Yields[q] : \E p \in {q} \union begun[coin] :
                    lake[Path(coin, a)] = Holds(p, a)
=============================================================================
