------------------------------ MODULE Approval ------------------------------
(***************************************************************************)
(* What askahuman promises about an approval request, whatever happens to  *)
(* the agent, the phone and the relay between them.                        *)
(*                                                                         *)
(* A request is asked once.  The human may sign answers to it.  The agent  *)
(* settles it once: with an answer the human signed, or with a timeout.    *)
(* The human is told that an answer was accepted only if it was.           *)
(***************************************************************************)
CONSTANTS Request, Answer

VARIABLES
  outcome,    \* how each request stands with the caller that asked it
  signed,     \* answers the human has signed
  confirmed   \* answers reported back to the human as accepted

vars == <<outcome, signed, confirmed>>

Unasked == "unasked"
Open    == "open"
Timeout == "timeout"

Decision == [req : Request, ans : Answer]

Init ==
  /\ outcome = [n \in Request |-> Unasked]
  /\ signed = {}
  /\ confirmed = {}

Ask(n) ==
  /\ outcome[n] = Unasked
  /\ outcome' = [outcome EXCEPT ![n] = Open]
  /\ UNCHANGED <<signed, confirmed>>

Sign(d) ==
  /\ outcome[d.req] # Unasked
  /\ signed' = signed \cup {d}
  /\ UNCHANGED <<outcome, confirmed>>

Accept(d) ==
  /\ outcome[d.req] = Open
  /\ d \in signed
  /\ outcome' = [outcome EXCEPT ![d.req] = d.ans]
  /\ UNCHANGED <<signed, confirmed>>

GiveUp(n) ==
  /\ outcome[n] = Open
  /\ outcome' = [outcome EXCEPT ![n] = Timeout]
  /\ UNCHANGED <<signed, confirmed>>

Confirm(d) ==
  /\ outcome[d.req] = d.ans
  /\ confirmed' = confirmed \cup {d}
  /\ UNCHANGED <<outcome, signed>>

Next ==
  \/ \E n \in Request : Ask(n) \/ GiveUp(n)
  \/ \E d \in Decision : Sign(d) \/ Accept(d) \/ Confirm(d)

Spec == Init /\ [][Next]_vars

=============================================================================
