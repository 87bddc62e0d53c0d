------------------------------- MODULE MCRelay ------------------------------
(* A small instance of Relay for TLC.                                      *)
EXTENDS Relay, TLC

Symmetry == Permutations(Conn) \cup Permutations(RoomId)

=============================================================================
