---------------------------------- MODULE Mwan ---------------------------------
(***************************************************************************)
(* The multi-WAN configuration: python3-nethsec/mwan over the saved        *)
(* network and mwan3 configurations, and ns.commit with the hook           *)
(* clean-network, which takes removed interfaces out of mwan3.             *)
(* A list of members is the set of them: the order only decides which new  *)
(* interface gets which metric, and any of them does.                      *)
(*                                                                         *)
(* Left out: the tracking options of interfaces, labels, what rules match  *)
(* (Objects has their references) and their order, which is changed by     *)
(* another process.  The generated names of sections are their contents.   *)
(***************************************************************************)
EXTENDS Naturals, FiniteSets, FiniteSetsExt, Functions

CONSTANTS
    Ifaces,         \* names of network interfaces
    Weights,        \* weights (and metrics) of members
    Policies,       \* names of policies
    Rules,          \* names of rules
    DefaultRule,    \* the name of the rule made with the first policy
    NoPolicy,
    MaxMetric,      \* bound: metrics handed out, in tens from 20 on
    MaxList         \* bound: members in one list

ASSUME IfacesAssumption == IsFiniteSet(Ifaces)
ASSUME RuleAssumption == DefaultRule \in Rules /\ NoPolicy \notin Policies
ASSUME BoundAssumption == MaxMetric \in Nat /\ MaxList \in Nat

VARIABLES
    network,    \* interfaces of the network configuration
    metric,     \* their metrics, 0 for none
    wan,        \* interfaces known to mwan3
    member,     \* members: an interface with a weight
    policy,     \* members of each policy, {} without the policy
    target,     \* policy of each rule, NoPolicy without the rule
    removed,    \* how many of the network changes remove it or an option of it: 0, 1, 2 or more
    shown,      \* the same, in the changes the caller of ns.commit has
    missed,     \* history: interfaces that clean-network did not take out
    dropped     \* history: policies deleted while rules may use them

vars == <<network, metric, wan, member, policy, target, removed, shown, missed, dropped>>
mwan3 == <<wan, member, policy, target>>

Members == Ifaces \X Weights
Present == {p \in Policies : policy[p] # {}}
RulesPresent == {r \in Rules : target[r] # NoPolicy}

TypeOK ==
    /\ network \subseteq Ifaces
    /\ metric \in [Ifaces -> 0..MaxMetric]
    /\ wan \subseteq Ifaces
    /\ member \subseteq Members
    /\ policy \in [Policies -> SUBSET Members]
    /\ target \in [Rules -> Policies \cup {NoPolicy}]
    /\ removed \in [Ifaces -> 0..2] /\ shown \in [Ifaces -> 0..2]
    /\ missed \subseteq Ifaces /\ dropped \subseteq Policies

-----------------------------------------------------------------------------
(* The administrator adds or removes a network interface, or removes options  *)
(* of one: each removal is a change that names the section (external).       *)
Removal(i) == removed' = [removed EXCEPT ![i] = Min({@ + 1, 2})]

AddNetwork(i) ==
    /\ i \notin network
    /\ network' = network \cup {i}
    /\ missed' = missed \ {i}
    /\ UNCHANGED <<metric, removed, shown, dropped, mwan3>>

RemoveNetwork(i) ==
    /\ i \in network
    /\ network' = network \ {i}
    /\ metric' = [metric EXCEPT ![i] = 0]
    /\ Removal(i)
    /\ UNCHANGED <<shown, missed, dropped, mwan3>>

RemoveOption(i) ==
    /\ i \in network
    /\ Removal(i)
    /\ metric' \in {metric, [metric EXCEPT ![i] = 0]}
    /\ UNCHANGED <<network, shown, missed, dropped, mwan3>>

-----------------------------------------------------------------------------
(* Mutant of Highest: counts the interfaces that have one.                    *)
HighestCounted(m) == Cardinality({i \in Ifaces : m[i] # 0})

(* __generate_metric: above every metric there is.                            *)
Highest(m) == Max({m[i] : i \in Ifaces})

(* __store_interface, called for one interface after the other, turn by turn: *)
(* those that have no metric get one.                                        *)
WithMetrics(new) ==
    {[i \in Ifaces |-> IF i \in new THEN Highest(metric) + turn[i] ELSE metric[i]] :
        turn \in Bijection(new, 1..Cardinality(new))}

(* __add_interfaces: every interface has to be in the network configuration.  *)
AddInterfaces(list) ==
    LET used == {x[1] : x \in list}
    IN /\ used # {} /\ used \subseteq network
       /\ metric' \in WithMetrics({i \in used : metric[i] = 0})
       /\ metric' \in [Ifaces -> 0..MaxMetric]
       /\ wan' = wan \cup used
       /\ member' = member \cup list

(* store_policy.  Without any rule there will be the default one.             *)
StorePolicy(p, list) ==
    /\ policy[p] = {}
    /\ AddInterfaces(list)
    /\ policy' = [policy EXCEPT ![p] = list]
    /\ target' = IF RulesPresent = {} THEN [target EXCEPT ![DefaultRule] = p] ELSE target
    /\ dropped' = dropped \ {p}
    /\ UNCHANGED <<network, removed, shown, missed>>

(* edit_policy.  The members that are no longer used stay.                    *)
EditPolicy(p, list) ==
    /\ policy[p] # {}
    /\ AddInterfaces(list)
    /\ policy' = [policy EXCEPT ![p] = list]
    /\ UNCHANGED <<network, target, removed, shown, missed, dropped>>

(* delete_policy.  The rules that use it stay.                                *)
DeletePolicy(p) ==
    /\ policy[p] # {}
    /\ policy' = [policy EXCEPT ![p] = {}]
    /\ dropped' = dropped \cup {p}
    /\ UNCHANGED <<network, metric, wan, member, target, removed, shown, missed>>

SaveRule(r, p) ==
    /\ target' = [target EXCEPT ![r] = p]
    /\ UNCHANGED <<network, metric, wan, member, policy, removed, shown, missed, dropped>>

StoreRule(r, p) == target[r] = NoPolicy /\ policy[p] # {} /\ SaveRule(r, p)
EditRule(r, p) == target[r] # NoPolicy /\ policy[p] # {} /\ SaveRule(r, p)
DeleteRule(r) == target[r] # NoPolicy /\ SaveRule(r, NoPolicy)

ClearConfig ==
    /\ wan' = {} /\ member' = {}
    /\ policy' = [p \in Policies |-> {}]
    /\ target' = [r \in Rules |-> NoPolicy]
    /\ dropped' = {}
    /\ UNCHANGED <<network, metric, removed, shown, missed>>

-----------------------------------------------------------------------------
(* Mutant of Emptied: the policies are looked up after they are changed.      *)
EmptiedOfNone(gone) == {}

(* Policies that the hook leaves without members.                             *)
Emptied(gone) == {p \in Policies : policy[p] # {} /\ policy[p] \subseteq gone}

(* Mutant of Clean: the interface itself stays.                               *)
CleanMembers(i) ==
    LET gone == {x \in member : x[1] = i}
        emptied == Emptied(gone)
    IN /\ UNCHANGED wan
       /\ member' = member \ gone
       /\ policy' = [p \in Policies |-> policy[p] \ gone]
       /\ target' = [r \in Rules |-> IF target[r] \in emptied THEN NoPolicy ELSE target[r]]

(* Mutant of Clean: a policy that keeps a member is left as it is.            *)
CleanEmptied(i) ==
    LET gone == {x \in member : x[1] = i}
        emptied == Emptied(gone)
    IN /\ wan' = wan \ {i}
       /\ member' = member \ gone
       /\ policy' = [p \in Policies |-> IF p \in emptied THEN {} ELSE policy[p]]
       /\ target' = [r \in Rules |-> IF target[r] \in emptied THEN NoPolicy ELSE target[r]]

(* clean-network takes interface i out of mwan3, with its members, the        *)
(* policies that are left without members and the rules left without policy. *)
Clean(i) ==
    LET gone == {x \in member : x[1] = i}
        emptied == Emptied(gone)
    IN /\ wan' = wan \ {i}
       /\ member' = member \ gone
       /\ policy' = [p \in Policies |-> policy[p] \ gone]
       /\ target' = [r \in Rules |-> IF target[r] \in emptied THEN NoPolicy ELSE target[r]]

(* Someone fetches the changes, to call ns.commit with them.                  *)
Look ==
    /\ shown' = removed
    /\ UNCHANGED <<network, metric, removed, missed, dropped, mwan3>>

Gone == {i \in Ifaces : removed[i] # 0}
None == [i \in Ifaces |-> 0]

Known == {i \in wan : shown[i] # 0}
Once == \E i \in Known : Known = {i} /\ shown[i] = 1

(* The commit itself, when the hook took out what is in cleaned.              *)
Committed(cleaned) ==
    /\ missed' = missed \cup ((Gone \cap wan) \ cleaned)
    /\ removed' = None /\ shown' = None
    /\ UNCHANGED <<network, metric, dropped>>

(* ns.commit with one removal that names an interface mwan3 knows.            *)
CommitCleaning(i) ==
    /\ Once /\ i \in Known
    /\ Clean(i)
    /\ Committed({i})

(* With none the hook has nothing to do; with a second one it reads a section *)
(* that it has deleted, raises, and saves nothing.  The commit goes on.       *)
CommitOnly ==
    /\ ~Once
    /\ Committed({})
    /\ UNCHANGED mwan3

Init ==
    /\ network = Ifaces
    /\ metric = [i \in Ifaces |-> 0]
    /\ wan = {} /\ member = {}
    /\ policy = [p \in Policies |-> {}]
    /\ target = [r \in Rules |-> NoPolicy]
    /\ removed = None /\ shown = None /\ missed = {} /\ dropped = {}

Lists == {list \in SUBSET Members : Cardinality(list) <= MaxList}

Next ==
    \/ \E i \in Ifaces : AddNetwork(i) \/ RemoveNetwork(i) \/ RemoveOption(i)
    \/ \E p \in Policies : \E list \in Lists : StorePolicy(p, list) \/ EditPolicy(p, list)
    \/ \E p \in Policies : DeletePolicy(p) \/ \E r \in Rules : StoreRule(r, p) \/ EditRule(r, p)
    \/ \E r \in Rules : DeleteRule(r)
    \/ ClearConfig
    \/ Look
    \/ (\E i \in Ifaces : CommitCleaning(i)) \/ CommitOnly

Spec == Init /\ [][Next]_vars

-----------------------------------------------------------------------------
(* What the API shows.  index_policies reads every member of every policy,    *)
(* and raises on one that is not there; index_rules shows the name of a      *)
(* rule's policy whether it is there or not.                                 *)
Readable(x) == x \in member
Indexed(p) == \A x \in policy[p] : Readable(x)
PolicyShown(r) == target[r] \in Present

(* What a policy names is there, down to the interface: index_policies raises *)
(* on a member that is not, and shows no policy at all.                       *)
MembersExist ==
    /\ \A p \in Policies : Indexed(p)
    /\ \A x \in member : x[1] \in wan

(* A rule outlives its policy only when the policy was deleted by name: the   *)
(* hook never leaves a rule that sends its traffic nowhere.                  *)
RulesHavePolicy == \A r \in RulesPresent : PolicyShown(r) \/ target[r] \in dropped

(* Two WANs never share a metric: one default route would hide the other.     *)
DistinctMetrics ==
    \A i, j \in wan \cap network : i # j /\ metric[i] = metric[j] => metric[i] = 0

(* When nothing is pending, mwan3 knows no interface that is gone, but for    *)
(* those the hook could not take out: more than one removal in the changes,  *)
(* or none of it in those the caller had.                                    *)
CleanedUp == removed = None => wan \subseteq network \cup missed
=============================================================================
