-------------------------------- MODULE MCCli --------------------------------
(* Cli for TLC.  Identifiers are random, so those of each kind are          *)
(* interchangeable.                                                         *)
EXTENDS Cli, TLC

IdSymmetry == Permutations(Proofs) \cup Permutations(Tasks)
=============================================================================
