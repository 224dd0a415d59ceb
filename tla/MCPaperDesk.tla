------------------------------ MODULE MCPaperDesk ------------------------------
(***************************************************************************)
(* Model checking of PaperDesk: two coins, one price a side.               *)
(***************************************************************************)
EXTENDS PaperDesk, TLC

CONSTANTS btc, eth
MCTops == {[px |-> (1 :> 1 @@ -1 :> 2), size |-> (1 :> 0 @@ -1 :> 0)]}
MCDepths == {(1 :> (1 :> 0) @@ -1 :> (2 :> 0))}
MCTrades == {[px |-> 1, sz |-> 1, taker |-> -1], [px |-> 2, sz |-> 1, taker |-> 1]}
=============================================================================
