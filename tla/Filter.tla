------------------------------ MODULE Filter ------------------------------
(***************************************************************************)
(* The elements of a sequence at some of its positions, in their order:    *)
(* what the code gets by taking some entries out of an array, or by        *)
(* copying the others.  (SelectSeq says the same of a predicate, but no    *)
(* prover knows anything about it; PushProofs proves what Kept keeps.)     *)
(***************************************************************************)
EXTENDS Naturals, Sequences, FiniteSets

\* The n-th of a finite set of numbers, counted from 1.
Rank(I, i) == Cardinality({j \in I : j <= i})
Nth(I, n) == CHOOSE i \in I : Rank(I, i) = n

\* What is left of the sequence s at the positions I.
Kept(s, I) == [n \in 1..Cardinality(I) |-> s[Nth(I, n)]]

\* The sequence without the element e.
Without(s, e) == Kept(s, {i \in DOMAIN s : s[i] # e})

=============================================================================
