------------------------------ MODULE MCOrderBook ------------------------------
(***************************************************************************)
(* Model checking of OrderBook, alone and against PriceTimeBook.           *)
(***************************************************************************)
EXTENDS OrderBookPromise, TLC

Symmetry == Permutations(Oid) \cup Permutations(User)
=============================================================================
