-------------------------- MODULE MCVersionContent --------------------------
(* VersionContent for TLC: a node, a scoring rule and three requests.         *)
EXTENDS VersionContent, TLC
Symmetric == Permutations(Requests) \cup Permutations(Values)
=============================================================================
