------------------------------ MODULE MCPush ------------------------------
(* The instance of Push that TLC explores. *)
EXTENDS Push
CONSTANTS t1, t2
MCTab == {t1, t2}
Tabs == Permutations(MCTab)
=============================================================================
