---------------------------- MODULE MCMarketFeed ----------------------------
(***************************************************************************)
(* MarketFeed on a venue of five instants that prints a trade at each of   *)
(* the first three: the last is due while a mid may still come in time.    *)
(***************************************************************************)
EXTENDS MarketFeed

CONSTANTS t1, t2, t3

MCTradeTime == (t1 :> 1) @@ (t2 :> 2) @@ (t3 :> 3)
=============================================================================
