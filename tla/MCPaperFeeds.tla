---------------------------- MODULE MCPaperFeeds ----------------------------
(***************************************************************************)
(* PaperFeeds with a machine clock that drifts either way, between one and *)
(* three ahead.                                                            *)
(***************************************************************************)
EXTENDS PaperFeeds

MCDrifts == {-1, 1}
MCDriftBound == skew \in 1 .. 3
=============================================================================
