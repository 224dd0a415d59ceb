------------------------------ MODULE MCSimMaker ------------------------------
(***************************************************************************)
(* A bid and an ask in the first block, three prices, rows of one level,   *)
(* and makers that quote the bid.                                          *)
(***************************************************************************)
EXTENDS SimMaker

MCQuoting == {FALSE}
MCOpening ==
    <<[oid |-> 1, ask |-> FALSE, px |-> 2, sz |-> 2, added |-> 1, alo |-> TRUE, known |-> TRUE],
      [oid |-> 2, ask |-> TRUE, px |-> 3, sz |-> 1, added |-> 1, alo |-> TRUE, known |-> TRUE]>>
=============================================================================
