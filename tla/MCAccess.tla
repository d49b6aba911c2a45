------------------------------ MODULE MCAccess ------------------------------
(* Access for TLC: the values a configuration file cannot write down.        *)
EXTENDS Access, TLC

MCLadder == <<0, 1>>
NoLadder == << >>
Symmetry == Permutations(Request) \cup Permutations(Approval)
=============================================================================
