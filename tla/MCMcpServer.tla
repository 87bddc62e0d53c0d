---------------------------- MODULE MCMcpServer ----------------------------
(***************************************************************************)
(* Instances of McpServer for TLC.                                         *)
(***************************************************************************)
EXTENDS McpServer, TLC

Symmetry ==
  Permutations(Caller) \cup Permutations(Attempt) \cup Permutations(Session)

=============================================================================
