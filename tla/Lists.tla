------------------------------- MODULE Lists -------------------------------
(***************************************************************************)
(* A list comprehension with a condition: the elements of a sequence at    *)
(* the positions where the condition holds, in their order.  It says the   *)
(* same as SelectSeq, by a formula about the positions, so that it can be  *)
(* reasoned about (Lists_proofs).                                          *)
(***************************************************************************)
EXTENDS Naturals, Sequences, FiniteSets

\* The k-th of a set of numbers.
Nth(I, k) == CHOOSE i \in I : Cardinality({j \in I : j <= i}) = k

Picked(s, I) == [k \in 1..Cardinality(I) |-> s[Nth(I, k)]]

=============================================================================
