---------------------------- MODULE Subsequences ----------------------------
(***************************************************************************)
(* The elements of a sequence at some of its places, in their order: what  *)
(* the loops of the code that filter a slice leave (the orders of one      *)
(* customer, the calls of one role).                                       *)
(***************************************************************************)
EXTENDS Naturals, FiniteSets

Nth(places, k) == CHOOSE i \in places : Cardinality({j \in places : j <= i}) = k
Subsequence(seq, places) == [k \in 1 .. Cardinality(places) |-> seq[Nth(places, k)]]

=============================================================================
