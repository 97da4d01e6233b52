---------------------------- MODULE MCCampaign ----------------------------
(* Small campaigns for TLC: a run and one that depends on it. *)
EXTENDS Campaign, TLC

CONSTANTS s1, s2, s3, p1, p2, p3, r1, r2

MCDependsOn == r1 :> {} @@ r2 :> {r1}
MCOneNode   == [s \in Sessions |-> "n1"]
MCTwoNodes  == [s \in Sessions |-> IF s = s1 THEN "n1" ELSE "n2"]

PidSymmetry == Permutations(Pids)
SameNodeSymmetry == Permutations(Pids) \cup Permutations(Sessions)
===========================================================================
