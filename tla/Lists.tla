-------------------------------- MODULE Lists --------------------------------
(***************************************************************************)
(* What is left of a list when some of its entries go: Iterator::filter,   *)
(* Vec::dedup and their like, said by places and not by a loop, so that    *)
(* the theorems about it need no induction.                                *)
(***************************************************************************)
EXTENDS Naturals, Sequences, FiniteSets

\* How many of the places of keep come up to i
Rank(keep, i) == Cardinality({j \in keep : j <= i})

\* The n-th of the places of keep
Nth(keep, n) == CHOOSE i \in keep : Rank(keep, i) = n

\* The entries of s at the places of keep, in the order of s
Chosen(s, keep) == [n \in 1 .. Cardinality(keep) |-> s[Nth(keep, n)]]
=============================================================================
