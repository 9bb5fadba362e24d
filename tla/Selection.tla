------------------------------ MODULE Selection ------------------------------
(***************************************************************************)
(* Taking elements out of a queue by their places: what SelectSeq gives,   *)
(* in a form that can be proved about.                                     *)
(***************************************************************************)
EXTENDS Integers, Sequences, FiniteSets

\* The k-th of a set of places.
Nth(places, k) == CHOOSE i \in places : Cardinality({j \in places : j <= i}) = k

\* The elements of s at some of its places, in their order.
At(s, places) == [k \in 1..Cardinality(places) |-> s[Nth(places, k)]]

=============================================================================
