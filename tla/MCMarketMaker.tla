----------------------------- MODULE MCMarketMaker -----------------------------
(***************************************************************************)
(* Model checking of MarketMaker: one price a side, orders of one unit, so *)
(* that the bounds go to the timers.                                       *)
(***************************************************************************)
EXTENDS MarketMaker, TLC

MCTops == {[px |-> (1 :> 1 @@ -1 :> 2), size |-> (1 :> 0 @@ -1 :> 0)]}
MCDepths == {(1 :> (1 :> 0) @@ -1 :> (2 :> 0))}
MCTrades == {[px |-> 1, sz |-> 1, taker |-> -1], [px |-> 2, sz |-> 1, taker |-> 1]}
=============================================================================
