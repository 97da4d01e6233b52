---------------------------- MODULE Subsequences ----------------------------
(***************************************************************************)
(* The part of a sequence at some of its places, in order: what `SelectSeq' *)
(* selects, by the rank of each place instead of by recursion, so that it   *)
(* can be reasoned about for sequences of every length.                     *)
(***************************************************************************)
EXTENDS Naturals, FiniteSets

Rank(k, places) == Cardinality({j \in places : j <= k})

At(s, places) ==
    [n \in 1 .. Cardinality(places) |-> s[CHOOSE k \in places : Rank(k, places) = n]]
=============================================================================
