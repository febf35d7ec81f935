---------------------------- MODULE MCDiscovery ----------------------------
(* Discovery for TLC.                                                       *)
EXTENDS Discovery, TLC

ServerSymmetry == Permutations(Servers) \cup Permutations(Workspaces)
=============================================================================
