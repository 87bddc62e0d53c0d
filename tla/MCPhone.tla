------------------------------- MODULE MCPhone ------------------------------
(* A small instance of Phone for TLC.                                      *)
EXTENDS Phone, TLC

CONSTANTS approve, deny

MCAnswer == {approve, deny}
MCOneAnswer == {approve}
Symmetry == Permutations(MCAnswer)

\* Bound for the run about stale rosters: the second question stays unanswered.
FirstAnswered ==
  /\ \A op \in signing : op.req = 1
  /\ \A d \in signed : d.req = 1

=============================================================================
