------------------------------- MODULE MCHaNode -------------------------------
(* HaNode on a few concurrent chains. *)
EXTENDS HaNode, TLC

ChainSymmetry == Permutations(Chains)
MCTransitions == LockedEvents
MCAllEvents == LockedEvents \cup {"NOTIFY_SYNC"}
MCFlap == {"NOTIFY_MASTER", "NOTIFY_BACKUP"}
(* Bound of the run of overtaking chains: no wait for the lock runs out. *)
Granted == ~overrun
MCTabs == {{}, Jobs}
=============================================================================
