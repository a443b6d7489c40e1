------------------------------ MODULE MwanProofs ------------------------------
(***************************************************************************)
(* What the multi-WAN configuration names exists, for any interfaces,      *)
(* policies and rules, any history of calls and removals, and any changes  *)
(* that ns.commit is given, and no two interfaces share a metric.  The      *)
(* invariants are inductive with TypeOK.                                    *)
(***************************************************************************)
EXTENDS Mwan, FiniteSetTheorems, WellFoundedInduction, TLAPS

-----------------------------------------------------------------------------
LEMMA MwanTypeInit == Init => TypeOK
BY BoundAssumption DEF Init, TypeOK, None

LEMMA AddInterfacesType ==
    ASSUME TypeOK, NEW list \in Lists, AddInterfaces(list)
    PROVE  /\ metric' \in [Ifaces -> 0..MaxMetric]
           /\ wan' \subseteq Ifaces /\ member' \subseteq Members
<1>1. list \subseteq Members
      BY DEF Lists
<1> QED BY <1>1 DEF AddInterfaces, TypeOK, Members

LEMMA CleanType ==
    ASSUME TypeOK, NEW i \in Ifaces, Clean(i)
    PROVE  /\ wan' \subseteq Ifaces /\ member' \subseteq Members
           /\ policy' \in [Policies -> SUBSET Members]
           /\ target' \in [Rules -> Policies \cup {NoPolicy}]
BY DEF Clean, Emptied, TypeOK

LEMMA MwanTypeStep ==
    ASSUME TypeOK, [Next]_vars
    PROVE  TypeOK'
<1> USE BoundAssumption
<1>1. ASSUME NEW i \in Ifaces, AddNetwork(i) \/ RemoveNetwork(i) \/ RemoveOption(i)
      PROVE  TypeOK'
  <2>1. CASE AddNetwork(i)
        BY <2>1 DEF AddNetwork, mwan3, TypeOK
  <2>2. Removal(i) => removed' \in [Ifaces -> 0..2]
    <3>1. \A k \in 0..2 : Min({k + 1, 2}) \in 0..2
          BY DEF Min
    <3>2. removed \in [Ifaces -> 0..2] /\ Min({removed[i] + 1, 2}) \in 0..2
          BY <3>1 DEF TypeOK
    <3> QED BY <3>2 DEF Removal
  <2>3. [metric EXCEPT ![i] = 0] \in [Ifaces -> 0..MaxMetric]
        BY DEF TypeOK
  <2>4. CASE RemoveNetwork(i)
        BY <2>2, <2>3, <2>4 DEF RemoveNetwork, mwan3, TypeOK
  <2>5. CASE RemoveOption(i)
        BY <2>2, <2>3, <2>5 DEF RemoveOption, mwan3, TypeOK
  <2> QED BY <1>1, <2>1, <2>4, <2>5
<1>2. ASSUME NEW p \in Policies, NEW list \in Lists, StorePolicy(p, list)
      PROVE  TypeOK'
      BY <1>2, AddInterfacesType, RuleAssumption DEF StorePolicy, TypeOK, Lists
<1>3. ASSUME NEW p \in Policies, NEW list \in Lists, EditPolicy(p, list)
      PROVE  TypeOK'
      BY <1>3, AddInterfacesType DEF EditPolicy, TypeOK, Lists
<1>4. ASSUME NEW p \in Policies, DeletePolicy(p)
      PROVE  TypeOK'
      BY <1>4 DEF DeletePolicy, TypeOK
<1>5. ASSUME NEW p \in Policies, NEW r \in Rules,
             StoreRule(r, p) \/ EditRule(r, p) \/ DeleteRule(r)
      PROVE  TypeOK'
      BY <1>5 DEF StoreRule, EditRule, DeleteRule, SaveRule, TypeOK
<1>6. ASSUME NEW r \in Rules, DeleteRule(r)
      PROVE  TypeOK'
      BY <1>6 DEF DeleteRule, SaveRule, TypeOK
<1>7. CASE ClearConfig
      BY <1>7 DEF ClearConfig, TypeOK
<1>8. CASE Look
      BY <1>8 DEF Look, mwan3, TypeOK
<1>9. ASSUME NEW i \in Ifaces, CommitCleaning(i)
      PROVE  TypeOK'
      BY <1>9, CleanType DEF CommitCleaning, Committed, None, Gone, TypeOK
<1>10. CASE CommitOnly
      BY <1>10 DEF CommitOnly, Committed, None, Gone, mwan3, TypeOK
<1>11. CASE UNCHANGED vars
      BY <1>11 DEF vars, TypeOK
<1> QED BY <1>1, <1>2, <1>3, <1>4, <1>5, <1>6, <1>7, <1>8, <1>9, <1>10, <1>11 DEF Next

(* The variables keep their types; a metric never passes its bound.          *)
THEOREM MwanTypeCorrect == Spec => []TypeOK
BY MwanTypeInit, MwanTypeStep, PTL DEF Spec

-----------------------------------------------------------------------------
LEMMA MembersInit == Init => MembersExist
BY DEF Init, MembersExist, Indexed

LEMMA MembersStep ==
    ASSUME TypeOK, MembersExist, [Next]_vars
    PROVE  MembersExist'
<1> USE DEF MembersExist, Indexed, Readable
<1>1. CASE UNCHANGED <<wan, member, policy>>
      BY <1>1
<1>2. ASSUME NEW p \in Policies, NEW list \in Lists, AddInterfaces(list),
             policy' = [policy EXCEPT ![p] = list]
      PROVE  MembersExist'
  <2>1. member' = member \cup list /\ wan' = wan \cup {x[1] : x \in list}
        BY <1>2 DEF AddInterfaces
  <2>2. \A q \in Policies : policy'[q] = policy[q] \/ policy'[q] = list
        BY <1>2 DEF TypeOK
  <2> QED BY <2>1, <2>2
<1>3. ASSUME NEW p \in Policies, DeletePolicy(p)
      PROVE  MembersExist'
      BY <1>3 DEF DeletePolicy, TypeOK
<1>4. CASE ClearConfig
      BY <1>4 DEF ClearConfig
<1>5. ASSUME NEW i \in Ifaces, Clean(i)
      PROVE  MembersExist'
      BY <1>5 DEF Clean, TypeOK
<1> QED BY <1>1, <1>2, <1>3, <1>4, <1>5
        DEF Next, vars, mwan3, AddNetwork, RemoveNetwork, RemoveOption, StorePolicy,
            EditPolicy, StoreRule, EditRule, DeleteRule, SaveRule, Look,
            CommitCleaning, CommitOnly

(* index_policies never raises: every member of a policy is there, and so is  *)
(* its interface, however many policies share them and whatever was removed. *)
THEOREM MwanMembersExist == Spec => []MembersExist
<1>1. Init => TypeOK /\ MembersExist
      BY MwanTypeInit, MembersInit
<1>2. TypeOK /\ MembersExist /\ [Next]_vars => (TypeOK /\ MembersExist)'
      BY MwanTypeStep, MembersStep
<1> QED BY <1>1, <1>2, PTL DEF Spec

-----------------------------------------------------------------------------
LEMMA RulesInit == Init => RulesHavePolicy
BY DEF Init, RulesHavePolicy, RulesPresent

LEMMA RulesStep ==
    ASSUME TypeOK, RulesHavePolicy, [Next]_vars
    PROVE  RulesHavePolicy'
<1> USE DEF RulesHavePolicy, RulesPresent, PolicyShown, Present
<1>1. CASE UNCHANGED <<policy, target, dropped>>
      BY <1>1
<1>2. ASSUME NEW p \in Policies, NEW list \in Lists, StorePolicy(p, list)
      PROVE  RulesHavePolicy'
  <2>1. list # {}
        BY <1>2 DEF StorePolicy, AddInterfaces
  <2>2. policy'[p] # {} /\ \A q \in Policies \ {p} : policy'[q] = policy[q]
        BY <1>2, <2>1 DEF StorePolicy, TypeOK
  <2>3. ASSUME NEW r \in Rules, target'[r] # NoPolicy
        PROVE  target'[r] = p \/ target'[r] = target[r]
        BY <1>2, <2>3 DEF StorePolicy, TypeOK
  <2>4. dropped' = dropped \ {p}
        BY <1>2 DEF StorePolicy
  <2> QED BY <2>2, <2>3, <2>4, <1>2 DEF StorePolicy, TypeOK
<1>3. ASSUME NEW p \in Policies, NEW list \in Lists, EditPolicy(p, list)
      PROVE  RulesHavePolicy'
  <2>1. list # {}
        BY <1>3 DEF EditPolicy, AddInterfaces
  <2> QED BY <1>3, <2>1 DEF EditPolicy, TypeOK
<1>4. ASSUME NEW p \in Policies, DeletePolicy(p)
      PROVE  RulesHavePolicy'
      BY <1>4 DEF DeletePolicy, TypeOK
<1>5. ASSUME NEW p \in Policies, NEW r \in Rules, StoreRule(r, p) \/ EditRule(r, p)
      PROVE  RulesHavePolicy'
      BY <1>5 DEF StoreRule, EditRule, SaveRule, TypeOK
<1>6. ASSUME NEW r \in Rules, DeleteRule(r)
      PROVE  RulesHavePolicy'
      BY <1>6 DEF DeleteRule, SaveRule, TypeOK
<1>7. CASE ClearConfig
      BY <1>7 DEF ClearConfig
<1>8. ASSUME NEW i \in Ifaces, Clean(i), dropped' = dropped
      PROVE  RulesHavePolicy'
  <2> DEFINE gone == {x \in member : x[1] = i}
  <2> SUFFICES ASSUME NEW r \in Rules, target'[r] # NoPolicy
               PROVE  target'[r] \in Policies /\ (policy'[target'[r]] # {} \/ target'[r] \in dropped)
      BY <1>8
  <2>1. target'[r] = target[r] /\ target[r] \notin Emptied(gone) /\ target[r] \in Policies
        BY <1>8 DEF Clean, TypeOK
  <2>2. policy'[target[r]] = policy[target[r]] \ gone
        BY <1>8, <2>1 DEF Clean
  <2>3. policy[target[r]] # {} \/ target[r] \in dropped
        BY <2>1
  <2> QED BY <2>1, <2>2, <2>3 DEF Emptied
<1> QED BY <1>1, <1>2, <1>3, <1>4, <1>5, <1>6, <1>7, <1>8
        DEF Next, vars, mwan3, AddNetwork, RemoveNetwork, RemoveOption, Look,
            CommitCleaning, CommitOnly, Committed

(* clean-network deletes a rule with the last member of its policy: the only  *)
(* rules without a policy are those whose policy was deleted by name.        *)
THEOREM MwanRulesHavePolicy == Spec => []RulesHavePolicy
<1>1. Init => TypeOK /\ RulesHavePolicy
      BY MwanTypeInit, RulesInit
<1>2. TypeOK /\ RulesHavePolicy /\ [Next]_vars => (TypeOK /\ RulesHavePolicy)'
      BY MwanTypeStep, RulesStep
<1> QED BY <1>1, <1>2, PTL DEF Spec

-----------------------------------------------------------------------------
(* An interface that is gone from the network is left in mwan3 only when the  *)
(* hook could not take it out, or while its removal is not committed yet.    *)
CleanIInv ==
    \A i \in wan : i \in network \/ removed[i] # 0 \/ i \in missed

LEMMA CleanInit == Init => CleanIInv
BY DEF Init, CleanIInv

LEMMA CleanStep ==
    ASSUME TypeOK, CleanIInv, [Next]_vars
    PROVE  CleanIInv'
<1> USE DEF CleanIInv
<1>1. CASE UNCHANGED <<wan, network, removed, missed>>
      BY <1>1
<1>2. ASSUME NEW i \in Ifaces, AddNetwork(i)
      PROVE  CleanIInv'
      BY <1>2 DEF AddNetwork, mwan3
<1>3. ASSUME NEW i \in Ifaces, RemoveNetwork(i) \/ RemoveOption(i)
      PROVE  CleanIInv'
  <2>1. Removal(i) /\ wan' = wan /\ missed' = missed /\ network \ {i} \subseteq network'
        BY <1>3 DEF RemoveNetwork, RemoveOption, mwan3
  <2>2. \A k \in 0..2 : Min({k + 1, 2}) # 0
        BY DEF Min
  <2>3. removed'[i] # 0 /\ \A j \in Ifaces \ {i} : removed'[j] = removed[j]
        BY <2>1, <2>2 DEF Removal, TypeOK
  <2> QED BY <2>1, <2>3 DEF TypeOK
<1>4. ASSUME NEW list \in Lists, AddInterfaces(list), UNCHANGED <<network, removed, missed>>
      PROVE  CleanIInv'
      BY <1>4 DEF AddInterfaces
<1>5. CASE ClearConfig
      BY <1>5 DEF ClearConfig
<1>6. ASSUME NEW i \in Ifaces, CommitCleaning(i)
      PROVE  CleanIInv'
      BY <1>6 DEF CommitCleaning, Clean, Committed, Gone, TypeOK
<1>7. CASE CommitOnly
      BY <1>7 DEF CommitOnly, Committed, Gone, mwan3, TypeOK
<1> QED BY <1>1, <1>2, <1>3, <1>4, <1>5, <1>6, <1>7
        DEF Next, vars, mwan3, StorePolicy, EditPolicy, DeletePolicy,
            StoreRule, EditRule, DeleteRule, SaveRule, Look

(* With no change pending, mwan3 knows no interface that is gone, but for     *)
(* those that a commit went on without the hook.                             *)
THEOREM MwanCleanedUp == Spec => []CleanedUp
<1>1. Init => TypeOK /\ CleanIInv
      BY MwanTypeInit, CleanInit
<1>2. TypeOK /\ CleanIInv /\ [Next]_vars => (TypeOK /\ CleanIInv)'
      BY MwanTypeStep, CleanStep
<1>3. TypeOK /\ CleanIInv => CleanedUp
      BY DEF TypeOK, CleanIInv, CleanedUp, None
<1> QED BY <1>1, <1>2, <1>3, PTL DEF Spec

-----------------------------------------------------------------------------
(* A network interface keeps a metric nobody else has, known to mwan3 or not. *)
MetricIInv ==
    \A i, j \in Ifaces : i # j /\ metric[i] = metric[j] => metric[i] = 0

(* A set of numbers with an element has a least one. *)
LEMMA LeastNumber ==
    ASSUME NEW T \in SUBSET Nat, T # {}
    PROVE  \E m \in T : \A n \in T : m <= n
<1>1. PICK Less : Less = OpToRel(<, Nat)
      OBVIOUS
<1>2. IsWellFoundedOn(Less, Nat)
      BY <1>1, NatLessThanWellFounded
<1>3. \A m, n \in Nat : m < n => <<m, n>> \in Less
      BY <1>1 DEF OpToRel
<1>4. PICK m \in T : \A n \in T : ~(<<n, m>> \in Less)
      BY <1>2, WFMin
<1>5. \A n \in T : ~(n < m)
      BY <1>3, <1>4
<1> QED BY <1>5

(* A set of numbers within a bound has a highest one: the loop of             *)
(* __generate_metric ends with it.                                           *)
LEMMA HighestNumber ==
    ASSUME NEW b \in Nat, NEW T \in SUBSET (0..b), T # {}
    PROVE  Max(T) \in T /\ \A x \in T : x <= Max(T)
<1>1. PICK D : D = {n \in Nat : \E x \in T : n = b - x}
      OBVIOUS
<1>2. D \in SUBSET Nat /\ D # {}
  <2>1. PICK x \in T : TRUE
        OBVIOUS
  <2>2. x \in Nat /\ b - x \in Nat
        OBVIOUS
  <2> QED BY <1>1, <2>1, <2>2
<1>3. PICK m \in D : \A n \in D : m <= n
      BY <1>2, LeastNumber
<1>4. PICK x \in T : m = b - x
      BY <1>1, <1>3
<1>5. \A y \in T : x >= y
  <2> SUFFICES ASSUME NEW y \in T PROVE x >= y
      OBVIOUS
  <2>1. b - y \in Nat /\ y \in 0..b /\ x \in 0..b
        OBVIOUS
  <2>2. b - y \in D
        BY <1>1, <2>1
  <2>3. m <= b - y
        BY <1>3, <2>2
  <2> QED BY <1>4, <2>1, <2>3
<1>6. \E z \in T : \A y \in T : z >= y
      BY <1>5
<1>7. Max(T) \in T /\ \A y \in T : Max(T) >= y
      BY <1>6 DEF Max
<1> QED BY <1>7

(* New metrics differ from the old ones and from each other. *)
LEMMA WithMetricsDistinct ==
    ASSUME TypeOK, MetricIInv, NEW new \in SUBSET Ifaces, NEW m \in WithMetrics(new),
           \A i \in new : metric[i] = 0
    PROVE  \A i, j \in Ifaces : i # j /\ m[i] = m[j] => m[i] = 0
<1>1. PICK T : T = {metric[i] : i \in Ifaces}
      OBVIOUS
<1>2. CASE new = {}
  <2>1. \A i \in Ifaces : m[i] = metric[i]
        BY <1>2 DEF WithMetrics
  <2> QED BY <2>1 DEF MetricIInv
<1>3. CASE new # {}
  <2>1. T \in SUBSET (0..MaxMetric) /\ T # {}
        BY <1>1, <1>3 DEF TypeOK
  <2>2. PICK h : h = Highest(metric)
        OBVIOUS
  <2>3. h \in Nat /\ \A i \in Ifaces : metric[i] \in Nat /\ metric[i] <= h
    <3>1. Max(T) \in T /\ \A x \in T : x <= Max(T)
          BY <2>1, BoundAssumption, HighestNumber
    <3>2. h = Max(T)
          BY <1>1, <2>2 DEF Highest
    <3>3. \A i \in Ifaces : metric[i] \in T /\ metric[i] \in Nat
          BY <1>1 DEF TypeOK
    <3>4. T \subseteq Nat
          BY <1>1, <3>3
    <3>5. h \in Nat
          BY <3>1, <3>2, <3>4
    <3> QED BY <3>1, <3>2, <3>3, <3>5
  <2>4. Cardinality(new) \in Nat
        BY IfacesAssumption, FS_Subset, FS_CardinalityType
  <2>5. PICK turn \in Bijection(new, 1..Cardinality(new)) :
           m = [i \in Ifaces |-> IF i \in new THEN h + turn[i] ELSE metric[i]]
        BY <2>2 DEF WithMetrics
  <2>6. \A i \in new : turn[i] \in Nat /\ turn[i] > 0
        BY <2>4, <2>5 DEF Bijection, Injection
  <2>7. \A i, j \in new : turn[i] = turn[j] => i = j
        BY <2>5 DEF Bijection, Injection, IsInjective
  <2>8. \A i \in Ifaces : m[i] = IF i \in new THEN h + turn[i] ELSE metric[i]
        BY <2>5
  <2> HIDE DEF MetricIInv
  <2> SUFFICES ASSUME NEW i \in Ifaces, NEW j \in Ifaces, i # j, m[i] = m[j]
               PROVE  m[i] = 0
      OBVIOUS
  <2>9. CASE i \in new /\ j \in new
        BY <2>3, <2>6, <2>7, <2>8, <2>9
  <2>10. CASE i \in new /\ j \notin new
        BY <2>3, <2>6, <2>8, <2>10
  <2>11. CASE i \notin new /\ j \in new
        BY <2>3, <2>6, <2>8, <2>11
  <2>12. CASE i \notin new /\ j \notin new
        BY <2>8, <2>12 DEF MetricIInv
  <2> QED BY <2>9, <2>10, <2>11, <2>12
<1> QED BY <1>2, <1>3

LEMMA MetricStep ==
    ASSUME TypeOK, MetricIInv, [Next]_vars
    PROVE  MetricIInv'
<1>1. CASE UNCHANGED metric
      BY <1>1 DEF MetricIInv
<1>2. ASSUME NEW i \in Ifaces, RemoveNetwork(i) \/ RemoveOption(i)
      PROVE  MetricIInv'
  <2>1. metric' = metric \/ metric' = [metric EXCEPT ![i] = 0]
        BY <1>2 DEF RemoveNetwork, RemoveOption
  <2> QED BY <2>1 DEF MetricIInv, TypeOK
<1>3. ASSUME NEW list \in Lists, AddInterfaces(list)
      PROVE  MetricIInv'
  <2>1. PICK new : new = {i \in {x[1] : x \in list} : metric[i] = 0}
        OBVIOUS
  <2>2. metric' \in WithMetrics(new)
        BY <1>3, <2>1 DEF AddInterfaces
  <2>3. new \in SUBSET Ifaces /\ \A i \in new : metric[i] = 0
        BY <2>1 DEF Lists, Members
  <2> QED BY <2>2, <2>3, WithMetricsDistinct DEF MetricIInv
<1> QED BY <1>1, <1>2, <1>3
        DEF Next, vars, AddNetwork, StorePolicy, EditPolicy, DeletePolicy, StoreRule, EditRule,
            DeleteRule, SaveRule, ClearConfig, Look, CommitCleaning, CommitOnly, Committed

(* No two WANs share a metric, however many are added at once, and whichever  *)
(* lost theirs in between.                                                   *)
THEOREM MwanDistinctMetrics == Spec => []DistinctMetrics
<1>1. Init => TypeOK /\ MetricIInv
      BY MwanTypeInit DEF Init, MetricIInv
<1>2. TypeOK /\ MetricIInv /\ [Next]_vars => (TypeOK /\ MetricIInv)'
      BY MwanTypeStep, MetricStep
<1>3. TypeOK /\ MetricIInv => DistinctMetrics
      BY DEF TypeOK, MetricIInv, DistinctMetrics
<1> QED BY <1>1, <1>2, <1>3, PTL DEF Spec
=============================================================================
