---------------------------- MODULE DecisionService ----------------------------
(***************************************************************************)
(* server/api/services: backfill jobs and the refreshes that score the     *)
(* newest training partition with the promoted model.  A job is the        *)
(* process of its run; it refreshes when the run wrote training rows.      *)
(* Requests refresh when they find the decisions stale.  Every process can *)
(* be killed between its writes, and models are promoted at any time.      *)
(* The records of jobs and refreshes are only shown: a job's says what     *)
(* its run's state is, a refresh's where the refresh is, and one that was  *)
(* killed says running for ever.  A dry run only records itself.           *)
(***************************************************************************)
EXTENDS LakeBackfill

CONSTANTS
    Page,           \* requests that may write (may_write)
    Forcing,        \* those of them that refresh whatever they find (refresh=1)
    Refreshing,     \* the jobs with refresh_decisions
    MaxStops,       \* how often something fails or is killed
    Models,         \* how many models are promoted, one after the other
    CoinOrder,      \* the coins in the order of their paths
    Alerts          \* the fills that a request's training rows are about

ASSUME ServiceAssumption ==
    /\ Page \intersect Run = {} /\ Forcing \subseteq Page /\ Refreshing \subseteq Run
    /\ MaxStops \in Nat /\ Models \in Nat \ {0}
    /\ ToSet(CoinOrder) = Coin /\ IsInjective(CoinOrder)
    /\ DOMAIN Alerts = Request

Caller == Run \union Page
Alert == UNION {Alerts[q] : q \in Request}

VARIABLES
    model,      \* the model promoted last
    refresh,    \* of every caller: where it is and what it has read
    decisions,  \* ScoredFillDecision: by fill and model, the model that decided
    latest,     \* the partition scored last
    stops,      \* how often something failed or was killed
    swapped     \* for the properties: a model was promoted while a refresh held another

records == <<decisions, latest, swapped>>
serviceVars == <<model, refresh, stops, records>>
vars == <<lakeVars, serviceVars>>

Unasked == [at |-> "idle", gold |-> None, scorer |-> 0, scores |-> {}]

\* latest_gold_partition
LatestGold ==
    LET there == {i \in DOMAIN CoinOrder : lake[Path(CoinOrder[i], "training")] # None}
    IN  IF there = {} THEN None ELSE CoinOrder[Max(there)]

\* Not the code: only the age of the decisions is looked at.
StaleByAge(old) == latest = None \/ old

\* _stale; the decisions may be older than the refresh TTL or not.
Stale(old) == latest = None \/ latest # LatestGold \/ old

-----------------------------------------------------------------------------
(* refresh_markout_fill_decisions. *)

\* _finish; a request is answered, and a job goes on.
Finished(x) ==
    refresh' = [refresh EXCEPT ![x] = [Unasked EXCEPT !.at = IF x \in Run THEN "ended" ELSE @]]

\* The path is looked up and the model loaded.
Begins(x) ==
    refresh' = [refresh EXCEPT ![x] = [at |-> "loaded", gold |-> LatestGold, scorer |-> model,
                                       scores |-> {}]]

\* The partition may have been rebuilt, or torn, since the path was looked up.
Scores(x) ==
    LET held == lake[Path(refresh[x].gold, "training")]
    IN  /\ refresh[x].at = "loaded"
        /\ IF held = Torn
           THEN Finished(x)
           ELSE refresh' = [refresh EXCEPT ![x] =
                               [at |-> "scored", gold |-> @.gold, scorer |-> @.scorer,
                                scores |-> Alerts[held]]]
        /\ UNCHANGED <<lakeVars, model, stops, records>>

\* Not the code: a decision is kept by its fill alone.
KeyOfFill(alert, key) == <<alert, 1>>

\* decision_key
DecisionKey(alert, key) == <<alert, key>>

\* _persist, one transaction, under the digest of the model file as it is by now.
\* A refresh that is killed has persisted all or nothing.
Persists(x) ==
    LET keys == {DecisionKey(alert, model) : alert \in refresh[x].scores}
    IN  /\ refresh[x].at = "scored"
        /\ decisions' = [k \in DOMAIN decisions |->
                            IF k \in keys THEN refresh[x].scorer ELSE decisions[k]]
        /\ latest' = refresh[x].gold
        /\ Finished(x)
        /\ UNCHANGED <<lakeVars, model, stops, swapped>>

-----------------------------------------------------------------------------
(* recent_markout_fill_decisions: a request that scores first, or one told to.  *)
(* Without a partition its refresh fails.                                       *)
Asks(x, old) ==
    /\ refresh[x].at = "idle" /\ LatestGold # None
    /\ x \in Forcing \/ Stale(old)
    /\ Begins(x)
    /\ UNCHANGED <<lakeVars, model, stops, records>>

(* run_hyperliquid_backfill_job. *)
JobRuns(r) ==
    /\ Starts(r) \/ Opens(r) \/ Publishes(r) \/ FindsNoFile(r)
    /\ UNCHANGED serviceVars

Refreshes(r) == r \in Refreshing /\ "training" \in Yields[RequestOf[r]]

JobRefreshes(r) ==
    /\ runs[r].state = "written" /\ refresh[r].at = "idle"
    /\ Refreshes(r)
    /\ Begins(r)
    /\ UNCHANGED <<lakeVars, model, stops, records>>

\* The job has succeeded, whatever came of its refresh.
JobEnds(r) ==
    /\ runs[r].state = "written"
    /\ Refreshes(r) => refresh[r].at = "ended"
    /\ runs' = Ended(r)
    /\ refresh' = [refresh EXCEPT ![r] = Unasked]
    /\ UNCHANGED <<lake, temp, noted, model, stops, records>>

-----------------------------------------------------------------------------
(* What goes wrong, at most MaxStops times: a run's fetch or write, or a refresh's *)
(* reading or scoring, raises; or the process is killed.                          *)
Stopping == stops < MaxStops /\ stops' = stops + 1

RunStops(r) == Stopping /\ Stops(r) /\ UNCHANGED <<model, refresh, records>>

\* An exception ends the refresh as failed.
RefreshFails(x) ==
    /\ Stopping /\ refresh[x].at \in {"loaded", "scored"} /\ Finished(x)
    /\ UNCHANGED <<lakeVars, model, records>>

\* With a job's refresh the job goes; what it has published and persisted stays.
RefreshDies(x) ==
    /\ Stopping /\ refresh[x].at \notin {"idle", "ended"}
    /\ refresh' = [refresh EXCEPT ![x] = Unasked]
    /\ runs' = IF x \in Run THEN Ended(x) ELSE runs
    /\ UNCHANGED <<lake, temp, noted, model, records>>

Promotes ==
    /\ model < Models /\ model' = model + 1
    /\ swapped' = (swapped \/ \E x \in Caller : refresh[x].scorer # 0)
    /\ UNCHANGED <<lakeVars, refresh, stops, decisions, latest>>

-----------------------------------------------------------------------------
Init ==
    /\ LakeInit
    /\ model = 1 /\ stops = 0 /\ refresh = [x \in Caller |-> Unasked]
    /\ decisions = [k \in Alert \X (1 .. Models) |-> 0]
    /\ latest = None /\ swapped = FALSE

Next ==
    \/ \E r \in Run : JobRuns(r) \/ RunStops(r) \/ JobRefreshes(r) \/ JobEnds(r)
    \/ \E x \in Page, old \in BOOLEAN : Asks(x, old)
    \/ \E x \in Caller : Scores(x) \/ Persists(x) \/ RefreshFails(x) \/ RefreshDies(x)
    \/ Promotes

Spec == Init /\ [][Next]_vars

\* The page is asked again and again, and a refresh does not fail every time.
Asked ==
    \A x \in Page : /\ WF_vars(Asks(x, FALSE))
                   /\ SF_vars(Scores(x)) /\ SF_vars(Persists(x))
FairSpec == Spec /\ Asked

-----------------------------------------------------------------------------
\* A decision is recorded under the model that made it, however refreshes overlap,
\* fail, are killed and repeated, as long as no model is promoted while one of
\* them has loaded the last: no model's decision is overwritten by another's
\* (decision_key).
DecisionsTell == ~swapped => \A k \in DOMAIN decisions : decisions[k] \in {0, k[2]}

\* The decisions come from the newest partition before long, whichever refresh
\* wrote last, as long as the page is asked for (_stale).
ServesNewest ==
    LatestGold # None ~>
        \/ latest = LatestGold
        \/ LatestGold # None /\ lake[Path(LatestGold, "training")] = Torn
=============================================================================
