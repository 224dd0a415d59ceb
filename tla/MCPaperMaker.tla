------------------------------ MODULE MCPaperMaker ------------------------------
(***************************************************************************)
(* Model checking of PaperMaker: two prices, a level with and without a    *)
(* queue, trades at, through and away from the orders.                     *)
(***************************************************************************)
EXTENDS PaperMaker, TLC

MCTops ==
    {[px |-> (1 :> 1 @@ -1 :> 2), size |-> (1 :> b @@ -1 :> a)] :
        b \in {0, 1}, a \in {0}}

MCDepths ==
    {(1 :> (1 :> 0) @@ -1 :> (2 :> 1))}

MCTrades ==
    [px : {1, 2}, sz : {1, 2}, taker : Side]
=============================================================================
