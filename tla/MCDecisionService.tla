--------------------------- MODULE MCDecisionService ---------------------------
(***************************************************************************)
(* Two coins of one date: a day of the first, a run that replaces it by    *)
(* an hour in which nothing traded, and a day of the second without its    *)
(* asset contexts, whose job refreshes the decisions.                      *)
(***************************************************************************)
EXTENDS DecisionService

CONSTANTS r1, r2, r3, sol, btc, hour, day, bare, f1, p1

MCCoinOf == (r1 :> sol) @@ (r2 :> sol) @@ (r3 :> btc)
MCRequestOf == (r1 :> day) @@ (r2 :> hour) @@ (r3 :> bare)
MCYields == (day :> Artifacts) @@ (hour :> {"l2_book", "coverage"})
            @@ (bare :> Artifacts \ {"asset_ctxs"})
MCCoinOrder == <<btc, sol>>
MCAlerts == (day :> {f1}) @@ (hour :> {}) @@ (bare :> {f1})
=============================================================================
