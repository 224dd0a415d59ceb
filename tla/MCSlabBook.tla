------------------------------ MODULE MCSlabBook ------------------------------
(***************************************************************************)
(* Model checking of SlabBook: a bid that may queue up, a better bid of    *)
(* another wallet, an ask that may lock the book; takers that stop inside  *)
(* a maker, empty a level and go on to the next, and meet their own order. *)
(***************************************************************************)
EXTENDS SlabBook, TLC

CONSTANTS u1, u2

Symmetry == Permutations(Oid)

OrderOf(user, side, tick, lots) ==
    [user |-> user, side |-> side, tick |-> tick, lots |-> lots]

MCOrders ==
    {OrderOf(u1, "Bid", 1, 2), OrderOf(u2, "Bid", 2, 1), OrderOf(u1, "Ask", 2, 1)}

Call(oid, user, side, limit, lots, stp) ==
    [oid |-> oid, user |-> user, side |-> side, limit |-> limit,
     left |-> lots, stp |-> stp]

MCTakers ==
    UNION {{Call(oid, u1, "Ask", 1, 2, "ExpireMaker"), Call(oid, u2, "Ask", 1, 2, "Off"),
            Call(oid, u2, "Bid", 2, 1, "Off")} : oid \in Oid}
=============================================================================
