------------------------------- MODULE MCLink -------------------------------
(* A small instance of Link for TLC.                                       *)
EXTENDS Link

=============================================================================
