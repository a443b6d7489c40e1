------------------------------- MODULE Replica -------------------------------
(***************************************************************************)
(* What configuration synchronisation promises: the copy of an item is     *)
(* always a version the source has had, and it never goes back to an older *)
(* one.                                                                    *)
(***************************************************************************)
EXTENDS Naturals

CONSTANT Items

VARIABLES
    source,   \* the version of each item at its source
    copy      \* the version of each item in the copy, 0 when it has none

Init ==
    /\ source \in [Items -> Nat]
    /\ copy = [i \in Items |-> 0]

(* The source moves on to a newer version of an item. *)
Change(i) ==
    /\ source' = [source EXCEPT ![i] = source'[i]]
    /\ source'[i] > source[i]
    /\ UNCHANGED copy

(* The copy of an item moves on, to a version between its own and the source's. *)
Catch(i) ==
    /\ copy' = [copy EXCEPT ![i] = copy'[i]]
    /\ copy'[i] > copy[i]
    /\ copy'[i] <= source[i]
    /\ UNCHANGED source

Next == \E i \in Items : Change(i) \/ Catch(i)

Spec == Init /\ [][Next]_<<source, copy>>

=============================================================================
