--------------------------------- MODULE MCMwan --------------------------------
(* Mwan with two interfaces, two policies, two rules and stale changes.       *)
EXTENDS Mwan, TLC

MCSymmetry == Permutations(Ifaces) \cup Permutations(Policies)
=============================================================================
