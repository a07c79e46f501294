---------------------------- MODULE AscendingOrder ----------------------------
(***************************************************************************)
(* A finite set of numbers as a sequence in ascending order: the order in  *)
(* which an iterator meets the keys of a map, and a loop the places of a   *)
(* buffer.                                                                 *)
(***************************************************************************)
EXTENDS Integers, FiniteSets

\* how many elements of S are not above x
Rank(S, x) == Cardinality({y \in S : y <= x})

Ascending(S) == [k \in 1 .. Cardinality(S) |-> CHOOSE x \in S : Rank(S, x) = k]

=============================================================================
