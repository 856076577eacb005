---------------------------- MODULE MCPop3Fetch ----------------------------
(* Instances of Pop3Fetch for TLC. *)
EXTENDS Pop3Fetch

\* The mail that arrives late has no content.
Empty4 == {4}
NoneEmpty == {}

=============================================================================
