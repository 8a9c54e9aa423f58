---------------------------- MODULE MCBlockSync -----------------------------
(* A block tree for TLC: a trunk and two branches off it. *)
EXTENDS BlockSync

Trunk == <<"g", "a1", "a2", "a3", "a4", "a5", "a6">>
BranchB == <<"g", "a1", "a2", "b3", "b4", "b5", "b6">>
BranchC == <<"g", "a1", "a2", "a3", "c4", "c5">>
Paths == {Trunk, BranchB, BranchC}

MCBlock == UNION {{p[i] : i \in 1..Len(p)} : p \in Paths}
MCChains == UNION {{SubSeq(p, 1, n) : n \in 1..Len(p)} : p \in Paths}
MCNumber == [b \in MCBlock |-> CHOOSE n \in 0..6 : \E p \in Paths : n < Len(p) /\ p[n + 1] = b]
MCLogBlocks == {"a3", "b3", "b4", "c4", "a5"}
=============================================================================
