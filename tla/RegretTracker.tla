----------------------------- MODULE RegretTracker -----------------------------
(***************************************************************************)
(* frontend/src/lib/regret.ts: fills wait for the mid a horizon after      *)
(* them; a fill that arrives late is labelled from the mids already seen.  *)
(* A tracker is a record: the sorted queue of fills that wait, the times   *)
(* of the mids it keeps, the labelled fills of the statistics window in    *)
(* time order, and the fills whose mid came too late.  A mid is named by   *)
(* its time and so is a label.                                             *)
(***************************************************************************)
EXTENDS Integers, SequencesExt

CONSTANTS
    Trade,      \* the trades the venue prints
    TradeTime,  \* the venue's time of each
    HorizonMs,
    MaxLagMs,
    WindowMs

ASSUME TrackerAssumption ==
    /\ IsFiniteSet(Trade) /\ TradeTime \in [Trade -> Nat]
    /\ HorizonMs \in Nat \ {0} /\ MaxLagMs \in Nat /\ WindowMs \in Nat

NoMid == -1

Due(id) == TradeTime[id] + HorizonMs

EmptyTracker == [pending |-> <<>>, mids |-> <<>>, resolved |-> <<>>, dropped |-> {}]

Labelled(id, mid) == [id |-> id, mid |-> mid]

\* The entries of s that are in S, in their order.
Only(s, S) ==
    LET kept[k \in 0 .. Len(s)] ==
            IF k = 0 THEN <<>>
            ELSE IF s[k] \in S THEN Append(kept[k - 1], s[k]) ELSE kept[k - 1]
    IN  kept[Len(s)]

\* The entries of s from the first one that Keep accepts; none if it accepts none.
From(s, Keep(_)) ==
    LET ok == {i \in DOMAIN s : Keep(s[i])}
    IN  IF ok = {} THEN <<>> ELSE SubSeq(s, Min(ok), Len(s))

\* x put behind the last entry that Before accepts.
Behind(s, x, Before(_)) ==
    LET ok == {i \in DOMAIN s : Before(s[i])}
    IN  InsertAt(s, IF ok = {} THEN 1 ELSE Max(ok) + 1, x)

Trim(trk, cutoff) ==
    [trk EXCEPT !.resolved = From(@, LAMBDA fill : TradeTime[fill.id] >= cutoff)]

-----------------------------------------------------------------------------
\* Not the code: a fill that arrives late waits for the next mid all the same.
ArrivesToWait(trk, id) ==
    [outcome |-> "pending", mid |-> NoMid,
     tracker |-> [trk EXCEPT !.pending =
                     Behind(@, id, LAMBDA other : Due(other) <= Due(id))]]

\* add: what becomes of a fill, and the tracker then.
Arrives(trk, id) ==
    LET due   == Due(id)
        after == {i \in DOMAIN trk.mids : trk.mids[i] >= due}
        late  == trk.mids # <<>> /\ Last(trk.mids) >= due
        first == Min(after)
        mid   == trk.mids[first]
        covered == first > 1 \/ mid = due
    IN  IF ~late
        THEN [outcome |-> "pending", mid |-> NoMid,
              tracker |-> [trk EXCEPT !.pending =
                              Behind(@, id, LAMBDA other : Due(other) <= due)]]
        ELSE IF ~covered \/ mid - due > MaxLagMs
        THEN [outcome |-> "unavailable", mid |-> NoMid, tracker |-> trk]
        ELSE [outcome |-> "resolved", mid |-> mid,
              tracker |-> [trk EXCEPT !.resolved =
                              Behind(@, Labelled(id, mid),
                                     LAMBDA other : TradeTime[other.id] <= TradeTime[id])]]

\* onMid: the fills that are due get this mid, or none when it is too late for them.
HearsMid(trk, time) ==
    LET mids == Append(trk.mids, time)
        old  == {i \in DOMAIN mids : mids[i] <= time - HorizonMs - MaxLagMs}
        due  == {id \in ToSet(trk.pending) : Due(id) <= time}
        late == {id \in due : time - Due(id) > MaxLagMs}
        done == Only(trk.pending, due \ late)
        kept == [trk EXCEPT
                   !.mids = SubSeq(mids, Max(old \union {1}), Len(mids)),
                   !.pending = Only(@, ToSet(@) \ due)]
    IN  IF due = {} THEN kept
        ELSE Trim([kept EXCEPT
                     !.dropped = @ \union late,
                     !.resolved = @ \o [i \in DOMAIN done |-> Labelled(done[i], time)]],
                  time - WindowMs)

\* dropPending after a gap: the mids seen no longer reach the next fills.
DropsAll(trk) == [trk EXCEPT !.pending = <<>>, !.mids = <<>>]

\* dropPending(dueBefore): what was due before the book stream starts.
DropsDueBefore(trk, time) ==
    [trk EXCEPT !.pending = Only(@, {id \in ToSet(@) : Due(id) >= time})]

\* takeDropped
TakesDropped(trk) == [trk EXCEPT !.dropped = {}]
=============================================================================
