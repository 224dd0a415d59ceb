----------------------------- MODULE MCBatchEngine -----------------------------
(***************************************************************************)
(* Model checking of BatchEngine on a menu of actions that meet: a maker   *)
(* on each side, a post-only order that may cross, a GTC and an IOC taker, *)
(* a taker that reaches its own order, an empty order, cancels of orders   *)
(* that may be resting, filled, or placed later in the same batch.         *)
(***************************************************************************)
EXTENDS BatchEngine

CONSTANTS u1, u2

Place(user, oid, side, tick, lots, tif) ==
    [op |-> "Order", user |-> user, oid |-> oid, side |-> side, tick |-> tick,
     lots |-> lots, tif |-> tif]

MCMenu ==
    { Place(u1, 1, "Ask", 2, 2, "Alo"),
      Place(u1, 2, "Ask", 1, 1, "Alo"),
      Place(u2, 3, "Bid", 1, 1, "Alo"),
      Place(u2, 3, "Bid", 2, 2, "Gtc"),
      Place(u1, 2, "Bid", 2, 2, "Gtc"),
      Place(u1, 2, "Ask", 1, 2, "Ioc"),
      Place(u1, 3, "Ask", 1, 0, "Alo"),
      [op |-> "Cancel", user |-> u1, oid |-> 1],
      [op |-> "Cancel", user |-> u2, oid |-> 3] }
=============================================================================
