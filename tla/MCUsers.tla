-------------------------------- MODULE MCUsers --------------------------------
(* Users with two databases and one name in two spellings.                    *)
EXTENDS Users, TLC

MCFold == [s \in Spellings |-> CHOOSE n \in Names : TRUE]
MCSymmetry == Permutations(Passwords) \cup Permutations(Spellings)
=============================================================================
