----------------------------- MODULE Subsequences -----------------------------
(***************************************************************************)
(* What becomes of a list when elements are erased from it or when it is   *)
(* sorted, said of the positions in the list.                              *)
(***************************************************************************)
EXTENDS Integers, Sequences, FiniteSets, Functions

(* The k-th smallest of a set of numbers.                                  *)
Nth(keep, k) == CHOOSE i \in keep : Cardinality({j \in keep : j <= i}) = k

(* The elements of the list at the positions keep, in their order.         *)
Subsequence(list, keep) ==
  [k \in 1..Cardinality(keep) |-> list[Nth(keep, k)]]

(* The lists of the same elements in any order.                            *)
Rearrangements(list) ==
  {[i \in DOMAIN list |-> list[p[i]]] : p \in Bijection(DOMAIN list, DOMAIN list)}
=============================================================================
