------------------------------- MODULE MCHaSync -------------------------------
(* HaSync on two network files, one other file and one or two chains. *)
EXTENDS HaSync, TLC

PartSymmetry == Permutations(Parts)
=============================================================================
