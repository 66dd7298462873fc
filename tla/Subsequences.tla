---------------------------- MODULE Subsequences ----------------------------
(* What a loop that passes over a list and keeps some of its elements      *)
(* leaves of it.                                                           *)
EXTENDS Naturals, Sequences, FiniteSets

(* The elements of s at the places of the set kept, in their order. *)
Select(s, kept) ==
    [i \in 1..Cardinality(kept) |->
       s[CHOOSE k \in kept : Cardinality({j \in kept : j <= k}) = i]]
=============================================================================
