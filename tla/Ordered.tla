-------------------------------- MODULE Ordered --------------------------------
(* The members of a finite set of numbers in ascending order: the lines of a    *)
(* room always come to a page that way.                                        *)
EXTENDS Integers, FiniteSets

\* The i-th smallest member
Nth(S, i) == CHOOSE x \in S : Cardinality({y \in S : y < x}) = i - 1

Ascending(S) == [i \in 1 .. Cardinality(S) |-> Nth(S, i)]
================================================================================
