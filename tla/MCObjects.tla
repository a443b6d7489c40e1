------------------------------- MODULE MCObjects -------------------------------
(* Objects with two host sets and one leaf, one rule and two redirects.       *)
EXTENDS Objects, TLC

MCSymmetry ==
    Permutations(HostSets) \cup Permutations(Addresses) \cup Permutations(Redirects)
=============================================================================
