--------------------------------- MODULE MCDpi ---------------------------------
(* Dpi with three rules, two groups and old configurations of three sections. *)
EXTENDS Dpi, TLC

MCSymmetry == Permutations(Rules) \cup Permutations(Groups)

(* A blocked application and two exemptions, of either kind; a blocked one     *)
(* between two rules that are dropped; two hand-written without a priority.  *)
MCOldConfigs == {
    [rules |-> <<"legacy">>, exempt |-> <<"text", "address">>],
    [rules |-> <<"qos", "legacy", "idle">>, exempt |-> <<>>],
    [rules |-> <<"raw", "raw">>, exempt |-> <<>>]}
=============================================================================
