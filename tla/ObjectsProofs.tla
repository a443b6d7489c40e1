----------------------------- MODULE ObjectsProofs -----------------------------
(* Proofs about Objects, for any objects, addresses and sections.             *)
EXTENDS Objects, TLAPS, FiniteSetTheorems

(* get_object_ips yields addresses.                                          *)
LEMMA IpsAddresses == \A o : Ips(o) \subseteq Addresses
BY DEF Ips

(* The expansion of one section.                                             *)
LEMMA ExpandOne ==
    ASSUME NEW f \in [Sections -> Section], NEW S \in SUBSET Sections, NEW s \in Sections
    PROVE  /\ s \notin S \/ f[s].ref = NoObject \/ (s \in Rules /\ Ips(f[s].ref) = {}) =>
                 Expanded(f, S)[s] = f[s]
           /\ s \in S /\ f[s].ref # NoObject /\ (s \notin Rules \/ Ips(f[s].ref) # {}) =>
                 Expanded(f, S)[s] = [f[s] EXCEPT !.match = Ips(f[s].ref)]
BY DEF Expanded, ExpandRule, ExpandRedirect

(* The expansion changes what sections match and nothing else, leaves other   *)
(* sections alone, and never empties a rule.                                 *)
LEMMA ExpandKeeps ==
    ASSUME NEW f \in [Sections -> Section], NEW S \in SUBSET Sections
    PROVE  /\ Expanded(f, S) \in [Sections -> Section]
           /\ \A s \in Sections :
                 /\ Expanded(f, S)[s].ref = f[s].ref
                 /\ s \notin S => Expanded(f, S)[s] = f[s]
                 /\ s \in Rules /\ f[s].match # {} => Expanded(f, S)[s].match # {}
<1>1. ASSUME NEW s \in Sections
      PROVE  /\ Expanded(f, S)[s] \in Section
             /\ Expanded(f, S)[s].ref = f[s].ref
             /\ s \notin S => Expanded(f, S)[s] = f[s]
             /\ s \in Rules /\ f[s].match # {} => Expanded(f, S)[s].match # {}
  <2>1. f[s] \in Section /\ Ips(f[s].ref) \in SUBSET Addresses
    BY IpsAddresses
  <2>2. CASE s \notin S \/ f[s].ref = NoObject \/ (s \in Rules /\ Ips(f[s].ref) = {})
    <3>1. Expanded(f, S)[s] = f[s]
      BY <2>2, ExpandOne
    <3> QED BY <2>1, <3>1
  <2>3. CASE /\ s \in S /\ f[s].ref # NoObject
             /\ s \notin Rules \/ Ips(f[s].ref) # {}
    <3>1. Expanded(f, S)[s] = [f[s] EXCEPT !.match = Ips(f[s].ref)]
      BY <2>3, ExpandOne
    <3>2. Expanded(f, S)[s] = [ref |-> f[s].ref, match |-> Ips(f[s].ref)]
      BY <2>1, <3>1 DEF Section
    <3> QED BY <2>1, <2>3, <3>2 DEF Section
  <2> QED BY <2>2, <2>3
<1>2. Expanded(f, S) = [s \in Sections |-> Expanded(f, S)[s]]
  BY DEF Expanded
<1> QED BY <1>1, <1>2

(* An expanded section matches what its object is, except a rule whose object *)
(* has nothing to match.                                                     *)
LEMMA ExpandMatches ==
    ASSUME NEW f \in [Sections -> Section], NEW S \in SUBSET Sections,
           NEW s \in S, f[s].ref # NoObject
    PROVE  LET x == Expanded(f, S)[s]
           IN /\ x.match = Ips(x.ref) \/ (s \in Rules /\ Ips(x.ref) = {})
<1>1. s \in Sections /\ f[s] \in Section
  OBVIOUS
<1>2. CASE s \in Rules /\ Ips(f[s].ref) = {}
  BY <1>1, <1>2, ExpandOne
<1>3. CASE s \notin Rules \/ Ips(f[s].ref) # {}
  <2>1. Expanded(f, S)[s] = [f[s] EXCEPT !.match = Ips(f[s].ref)]
    BY <1>1, <1>3, ExpandOne
  <2>2. Expanded(f, S)[s] = [ref |-> f[s].ref, match |-> Ips(f[s].ref)]
    BY <1>1, <2>1 DEF Section
  <2> QED BY <2>2
<1> QED BY <1>2, <1>3

-----------------------------------------------------------------------------
(* Types of the configurations.                                              *)
LEMMA TypeInit == Init => TypeOK
<1> SUFFICES ASSUME Init PROVE TypeOK
  OBVIOUS
<1>1. Exists = {}
  BY DEF Init, Exists
<1>2. section \in [Sections -> Section]
  BY DEF Init, Section, NoSection
<1> QED BY <1>1, <1>2 DEF Init, TypeOK

(* What add and edit write into an object.                                   *)
LEMMA TypePut ==
    ASSUME TypeOK, NEW o \in Objects, NEW content,
           content \subseteq IF o \in HostSets THEN Addresses \cup Objects ELSE Addresses,
           Put(o, content)
    PROVE  TypeOK'
BY DEF TypeOK, Put, SameFirewall, Exists, Config

LEMMA TypeDrop ==
    ASSUME TypeOK, NEW o \in Objects, Drop(o), lost' \subseteq Leaves
    PROVE  TypeOK'
BY DEF TypeOK, Drop, SameFirewall, Exists, Config, Restrict

LEMMA TypeSave ==
    ASSUME TypeOK, NEW f \in [Sections -> Section], SaveFirewall(f), behind' \in BOOLEAN
    PROVE  TypeOK'
BY DEF TypeOK, SaveFirewall, Exists

(* A section that is given an object, before it is expanded.                 *)
LEMMA Referring ==
    ASSUME TypeOK, NEW s \in Sections, NEW o \in Exists
    PROVE  [section EXCEPT ![s] = [ref |-> o, match |-> {}]] \in [Sections -> Section]
BY DEF TypeOK, Section

LEMMA TypeNext == TypeOK /\ [Next]_vars => TypeOK'
<1> SUFFICES ASSUME TypeOK, [Next]_vars PROVE TypeOK'
  OBVIOUS
<1>0. section \in [Sections -> Section] /\ Rules \subseteq Sections /\ Redirects \subseteq Sections
  BY DEF TypeOK, Sections
<1>1. ASSUME NEW h \in HostSets, NEW content \in SUBSET (Objects \cup Addresses),
             AddHostSet(h, content) \/ EditHostSet(h, content)
      PROVE  TypeOK'
  BY <1>1, TypePut DEF AddHostSet, EditHostSet, Objects
<1>2. ASSUME NEW o \in Objects, Delete(o) PROVE TypeOK'
  BY <1>2, TypeDrop DEF Delete, TypeOK
<1>3. ASSUME NEW l \in Leaves, Lose(l) PROVE TypeOK'
  BY <1>3, TypeDrop DEF Lose, TypeOK, Objects
<1>4. ASSUME NEW l \in Leaves, NEW content \in SUBSET Addresses, SaveLeaf(l, content)
      PROVE  TypeOK'
  BY <1>4, TypePut, ObjectsAssumption DEF SaveLeaf, Objects
<1>5. ASSUME NEW o \in Objects, NEW r \in Rules, SaveRule(r, o) PROVE TypeOK'
  BY <1>0, <1>5, TypeSave, Referring, ExpandKeeps DEF SaveRule, TypeOK
<1>6. ASSUME NEW o \in Objects, NEW d \in Redirects, SaveRedirect(d, o) PROVE TypeOK'
  BY <1>0, <1>6, TypeSave, Referring, ExpandKeeps DEF SaveRedirect
<1>7. ASSUME NEW s \in Sections, DeleteSection(s) PROVE TypeOK'
  <2>1. [section EXCEPT ![s] = NoSection] \in [Sections -> Section]
    BY <1>0 DEF NoSection, Section
  <2> QED BY <1>7, <2>1, TypeSave DEF DeleteSection, TypeOK
<1>8. ASSUME Commit PROVE TypeOK'
  <2>1. Expanded(section, Sections) \in [Sections -> Section]
        /\ Expanded(section, Rules) \in [Sections -> Section]
    BY <1>0, ExpandKeeps
  <2>2. section' \in [Sections -> Section] /\ fwChanged' \in BOOLEAN /\ behind' \in BOOLEAN
    BY <1>8, <1>0, <2>1
       DEF Commit, CommitUpdating, CommitRaising, CommitAsIs, CommitFirewall, TypeOK
  <2> QED BY <1>8, <2>2 DEF Commit, TypeOK, Exists
<1>9. CASE UNCHANGED vars
  BY <1>9 DEF vars, TypeOK, Exists
<1> QED BY <1>1, <1>2, <1>3, <1>4, <1>5, <1>6, <1>7, <1>8, <1>9 DEF Next

(* Objects, sections and changes keep their types.                           *)
THEOREM ObjectsTypeCorrect == Spec => []TypeOK
BY TypeInit, TypeNext, PTL DEF Spec

-----------------------------------------------------------------------------
(* What a step of the operations does to the references: sections refer to    *)
(* what they did, or to an object that exists.                               *)
RefsKept ==
    \A s \in Sections : section'[s].ref \in {section[s].ref, NoObject} \cup Exists

LEMMA SectionsKeep ==
    ASSUME TypeOK, [Next]_vars
    PROVE  RefsKept
<1>0. section \in [Sections -> Section] /\ Rules \subseteq Sections /\ Redirects \subseteq Sections
  BY DEF TypeOK, Sections
<1>1. ASSUME NEW S \in SUBSET Sections, section' = Expanded(section, S) PROVE RefsKept
  BY <1>0, <1>1, ExpandKeeps DEF RefsKept
<1>2. ASSUME NEW S \in SUBSET Sections, NEW t \in Sections, NEW o \in Exists,
             section' = Expanded([section EXCEPT ![t] = [ref |-> o, match |-> {}]], S)
      PROVE  RefsKept
  <2> DEFINE f == [section EXCEPT ![t] = [ref |-> o, match |-> {}]]
  <2>1. f \in [Sections -> Section]
    BY Referring
  <2>2. \A s \in Sections : f[s].ref \in {section[s].ref} \cup Exists
    BY <1>0
  <2>3. \A s \in Sections : section'[s].ref = f[s].ref
    BY <1>2, <2>1, ExpandKeeps
  <2> QED BY <2>2, <2>3 DEF RefsKept
<1>3. ASSUME NEW s \in Sections, DeleteSection(s) PROVE RefsKept
  BY <1>0, <1>3 DEF DeleteSection, SaveFirewall, RefsKept, NoSection
<1>4. ASSUME Commit PROVE RefsKept
  BY <1>0, <1>1, <1>4
     DEF Commit, CommitUpdating, CommitRaising, CommitAsIs, CommitFirewall, RefsKept
<1>5. ASSUME section' = section PROVE RefsKept
  BY <1>5 DEF RefsKept
<1> QED
  BY <1>0, <1>2, <1>3, <1>4, <1>5
     DEF Next, AddHostSet, EditHostSet, Delete, Lose, SaveLeaf, Put, Drop, SameFirewall,
         SaveRule, SaveRedirect, SaveFirewall, vars

LEMMA DanglingInit == Init => NoDangling
BY DEF Init, NoDangling, Exists, NoSection

(* Neither an object written nor one that goes leaves a reference behind.     *)
LEMMA DanglingNext == TypeOK /\ NoDangling /\ [Next]_vars => NoDangling'
<1> SUFFICES ASSUME TypeOK, NoDangling, [Next]_vars PROVE NoDangling'
  OBVIOUS
<1>1. ASSUME NEW o \in Objects, NEW content, content \cap Objects \subseteq Exists, Put(o, content)
      PROVE  NoDangling'
  BY <1>1 DEF Put, SameFirewall, NoDangling, Exists
<1>2. ASSUME NEW o \in Objects, Delete(o) PROVE NoDangling'
  BY <1>2 DEF Delete, Drop, Used, SameFirewall, NoDangling, Exists, Restrict
<1>3. ASSUME NEW l \in Leaves, Lose(l) PROVE NoDangling'
  BY <1>3 DEF Lose, Drop, SameFirewall, NoDangling, Exists, Restrict
<1>4. ASSUME NEW l \in Leaves, NEW content \in SUBSET Addresses, SaveLeaf(l, content)
      PROVE  NoDangling'
  BY <1>1, <1>4, ObjectsAssumption DEF SaveLeaf, Objects
<1>5. ASSUME UNCHANGED <<member, lost>> PROVE NoDangling'
  BY <1>5, SectionsKeep DEF RefsKept, NoDangling, Exists
<1> QED
  BY <1>1, <1>2, <1>3, <1>4, <1>5
     DEF Next, AddHostSet, EditHostSet, SaveRule, SaveRedirect, DeleteSection, SaveFirewall,
         Commit, vars, Objects

(* Whatever is referred to exists, unless it went with its user database.     *)
THEOREM ObjectsNoDangling == Spec => []NoDangling
BY TypeInit, TypeNext, DanglingInit, DanglingNext, PTL DEF Spec

-----------------------------------------------------------------------------
(* The strengthening of FirewallFresh: sections are current as soon as no     *)
(* object has saved changes, whether or not the firewall has.                *)
RulesCurrent ==
    changed = {} =>
        \A r \in Rules : section[r].ref # NoObject =>
            section[r].match = Ips(section[r].ref) \/ Ips(section[r].ref) = {}

RedirectsCurrent ==
    changed = {} /\ ~behind =>
        \A d \in Redirects : section[d].ref # NoObject =>
            section[d].match = Ips(section[d].ref)

FreshIInv == RulesCurrent /\ RedirectsCurrent

LEMMA FreshInit == Init => FreshIInv
BY DEF Init, FreshIInv, RulesCurrent, RedirectsCurrent, Sections, NoSection

LEMMA FreshImplies == FreshIInv => FirewallFresh
BY DEF FreshIInv, RulesCurrent, RedirectsCurrent, FirewallFresh, Fresh, Sections

(* What an object expands to is about the objects alone.                     *)
LEMMA SameIps ==
    ASSUME UNCHANGED member
    PROVE  \A o : Ips(o)' = Ips(o)
BY DEF Ips, Inside, Exists

LEMMA FreshNext == TypeOK /\ FreshIInv /\ [Next]_vars => FreshIInv'
<1> SUFFICES ASSUME TypeOK, FreshIInv, [Next]_vars PROVE FreshIInv'
  OBVIOUS
<1>0. /\ section \in [Sections -> Section]
      /\ Rules \subseteq Sections /\ Redirects \subseteq Sections
      /\ Rules \cap Redirects = {}
  BY ObjectsAssumption DEF TypeOK, Sections
<1> DEFINE
      RuleOK(s) == s.ref # NoObject => s.match = Ips(s.ref) \/ Ips(s.ref) = {}
      RedirectOK(s) == s.ref # NoObject => s.match = Ips(s.ref)
<1>a. ASSUME UNCHANGED member, changed' = {} => \A r \in Rules : RuleOK(section'[r])
      PROVE  RulesCurrent'
  <2>1. \A r \in Rules : Ips(section[r].ref)' = Ips(section'[r].ref)
    BY <1>a, SameIps
  <2> QED BY <1>a, <2>1 DEF RulesCurrent
<1>b. ASSUME UNCHANGED member,
             changed' = {} /\ ~behind' => \A d \in Redirects : RedirectOK(section'[d])
      PROVE  RedirectsCurrent'
  <2>1. \A d \in Redirects : Ips(section[d].ref)' = Ips(section'[d].ref)
    BY <1>b, SameIps
  <2> QED BY <1>b, <2>1 DEF RedirectsCurrent
<1>c. ASSUME changed' # {} PROVE FreshIInv'
  BY <1>c DEF FreshIInv, RulesCurrent, RedirectsCurrent
<1>d. /\ changed = {} => \A r \in Rules : RuleOK(section[r])
      /\ changed = {} /\ ~behind => \A d \in Redirects : RedirectOK(section[d])
  BY DEF FreshIInv, RulesCurrent, RedirectsCurrent
<1>e. ASSUME NEW f \in [Sections -> Section], NEW S \in SUBSET Sections
      PROVE  /\ \A s \in S \cap Rules : RuleOK(Expanded(f, S)[s])
             /\ \A s \in S \cap Redirects : RedirectOK(Expanded(f, S)[s])
             /\ \A s \in Sections \ S : Expanded(f, S)[s] = f[s]
  <2>1. \A s \in Sections : Expanded(f, S)[s].ref = f[s].ref
    BY ExpandKeeps
  <2>2. \A s \in S : f[s].ref # NoObject =>
          \/ Expanded(f, S)[s].match = Ips(Expanded(f, S)[s].ref)
          \/ s \in Rules /\ Ips(Expanded(f, S)[s].ref) = {}
    BY ExpandMatches
  <2>3. \A s \in Sections \ S : Expanded(f, S)[s] = f[s]
    BY ExpandKeeps
  <2> QED BY <1>0, <2>1, <2>2, <2>3
<1>1. ASSUME NEW o \in Objects, NEW content, Put(o, content) PROVE FreshIInv'
  BY <1>1, <1>c DEF Put
<1>2. ASSUME NEW o \in Objects, Drop(o) PROVE FreshIInv'
  BY <1>2, <1>c DEF Drop
<1>3. ASSUME NEW o \in Objects, NEW r \in Rules, SaveRule(r, o) PROVE FreshIInv'
  <2> DEFINE f == [section EXCEPT ![r] = [ref |-> o, match |-> {}]]
  <2>1. f \in [Sections -> Section] /\ \A d \in Redirects : f[d] = section[d]
    BY <1>0, <1>3, Referring DEF SaveRule
  <2>2. section' = Expanded(f, Rules) /\ UNCHANGED <<member, changed, behind>>
    BY <1>3 DEF SaveRule, SaveFirewall
  <2>3. /\ \A s \in Rules : RuleOK(section'[s])
        /\ \A d \in Redirects : section'[d] = section[d]
    BY <1>0, <1>e, <2>1, <2>2
  <2> HIDE DEF f, RuleOK, RedirectOK
  <2> QED BY <1>a, <1>b, <1>d, <2>2, <2>3 DEF FreshIInv
<1>4. ASSUME NEW o \in Objects, NEW d \in Redirects, SaveRedirect(d, o) PROVE FreshIInv'
  <2> DEFINE f == [section EXCEPT ![d] = [ref |-> o, match |-> {}]]
  <2>1. f \in [Sections -> Section] /\ \A r \in Rules : f[r] = section[r]
    BY <1>0, <1>4, Referring DEF SaveRedirect
  <2>2. section' = Expanded(f, Redirects) /\ UNCHANGED <<member, changed>>
    BY <1>4 DEF SaveRedirect, SaveFirewall
  <2> HIDE DEF f, RuleOK, RedirectOK
  <2>3. /\ \A s \in Redirects \cap Redirects : RedirectOK(Expanded(f, Redirects)[s])
        /\ \A s \in Sections \ Redirects : Expanded(f, Redirects)[s] = f[s]
    BY <1>0, <1>e, <2>1
  <2>4. /\ \A s \in Redirects : RedirectOK(section'[s])
        /\ \A r \in Rules : section'[r] = section[r]
    BY <1>0, <2>1, <2>2, <2>3
  <2> QED BY <1>a, <1>b, <1>d, <2>2, <2>4 DEF FreshIInv
<1>5. ASSUME NEW s \in Sections, DeleteSection(s) PROVE FreshIInv'
  <2>1. /\ \A t \in Sections : section'[t].ref # NoObject => section'[t] = section[t]
        /\ UNCHANGED <<member, changed, behind>>
    BY <1>0, <1>5 DEF DeleteSection, SaveFirewall, NoSection
  <2> QED BY <1>0, <1>a, <1>b, <1>d, <2>1 DEF FreshIInv
<1>6. ASSUME Commit PROVE FreshIInv'
  <2>0. UNCHANGED member
    BY <1>6 DEF Commit
  <2>1. CASE CommitUpdating
    <3>1. section' = Expanded(section, Sections)
      BY <2>1 DEF CommitUpdating, CommitFirewall
    <3>2. /\ \A s \in Sections \cap Rules : RuleOK(Expanded(section, Sections)[s])
          /\ \A s \in Sections \cap Redirects : RedirectOK(Expanded(section, Sections)[s])
      BY <1>0, <1>e
    <3> HIDE DEF RuleOK, RedirectOK
    <3>3. /\ \A r \in Rules : RuleOK(section'[r])
          /\ \A d \in Redirects : RedirectOK(section'[d])
      BY <1>0, <3>1, <3>2
    <3> QED BY <1>a, <1>b, <2>0, <3>3 DEF FreshIInv
  <2>2. CASE CommitRaising
    <3>1. section' = Expanded(section, Rules) /\ behind'
      BY <2>2 DEF CommitRaising, CommitFirewall
    <3>2. \A r \in Rules : RuleOK(section'[r])
      BY <1>0, <1>e, <3>1
    <3> HIDE DEF RuleOK, RedirectOK
    <3> QED BY <1>a, <1>b, <2>0, <3>1, <3>2 DEF FreshIInv
  <2>3. CASE CommitAsIs
    <3>1. changed = {} /\ UNCHANGED <<section, behind>>
      BY <2>3 DEF CommitAsIs, NeedsUpdate, CommitFirewall
    <3> HIDE DEF RuleOK, RedirectOK
    <3> QED BY <1>a, <1>b, <1>d, <2>0, <3>1 DEF FreshIInv
  <2> QED BY <1>6, <2>1, <2>2, <2>3 DEF Commit
<1>7. CASE UNCHANGED vars
  BY <1>7, <1>a, <1>b, <1>d DEF vars, FreshIInv
<1> QED
  BY <1>1, <1>2, <1>3, <1>4, <1>5, <1>6, <1>7
     DEF Next, AddHostSet, EditHostSet, Delete, Lose, SaveLeaf, Objects

(* With nothing left to commit, rules and redirects match what their objects  *)
(* are.                                                                      *)
THEOREM ObjectsFresh == Spec => []FirewallFresh
BY TypeInit, TypeNext, FreshInit, FreshNext, FreshImplies, PTL DEF Spec

-----------------------------------------------------------------------------
LEMMA OpenedStep ==
    ASSUME TypeOK, [Next]_vars, NEW r \in Rules,
           section[r].match # {}, section'[r].match = {}
    PROVE  section'[r].ref = NoObject \/ \E o \in Objects : SaveRule(r, o)
<1>0. section \in [Sections -> Section] /\ Rules \subseteq Sections /\ Redirects \subseteq Sections
      /\ Rules \cap Redirects = {}
  BY ObjectsAssumption DEF TypeOK, Sections
<1>1. ASSUME NEW S \in SUBSET Sections, NEW f \in [Sections -> Section],
             f[r] = section[r], section' = Expanded(f, S)
      PROVE  FALSE
  BY <1>0, <1>1, ExpandKeeps
<1>2. ASSUME NEW o \in Objects, NEW q \in Rules, q # r, SaveRule(q, o) PROVE FALSE
  BY <1>0, <1>1, <1>2, Referring DEF SaveRule, SaveFirewall
<1>3. ASSUME NEW o \in Objects, NEW d \in Redirects, SaveRedirect(d, o) PROVE FALSE
  BY <1>0, <1>1, <1>3, Referring DEF SaveRedirect, SaveFirewall
<1>4. ASSUME NEW s \in Sections, DeleteSection(s) PROVE section'[r].ref = NoObject
  BY <1>0, <1>4 DEF DeleteSection, SaveFirewall, NoSection
<1>5. ASSUME Commit PROVE FALSE
  BY <1>0, <1>1, <1>5 DEF Commit, CommitUpdating, CommitRaising, CommitAsIs, CommitFirewall
<1>6. ASSUME section' = section PROVE FALSE
  BY <1>6
<1> QED
  BY <1>2, <1>3, <1>4, <1>5, <1>6
     DEF Next, AddHostSet, EditHostSet, Delete, Lose, SaveLeaf, Put, Drop, SameFirewall, vars

(* Whatever happens to its object, a rule comes to match every host only when *)
(* it is itself saved.                                                       *)
THEOREM ObjectsNeverOpened == Spec => NeverOpened
<1>1. TypeOK /\ [Next]_vars =>
        [\A r \in Rules :
            section[r].match # {} /\ section'[r].match = {} =>
                section'[r].ref = NoObject \/ \E o \in Objects : SaveRule(r, o)]_vars
  BY OpenedStep
<1> QED BY <1>1, TypeInit, TypeNext, PTL DEF Spec, NeverOpened

-----------------------------------------------------------------------------
(* The recursion of get_object_ips.                                          *)
Less == OpToRel(<, Nat)

(* A set of numbers with an element has a least one: what induction over the  *)
(* depth of a search needs.                                                  *)
LEMMA LeastNumber ==
    ASSUME NEW T \in SUBSET Nat, T # {}
    PROVE  \E m \in T : \A n \in T : m <= n
<1>1. IsWellFoundedOn(Less, Nat)
  BY NatLessThanWellFounded DEF Less
<1>2. \A m, n \in Nat : m < n => <<m, n>> \in Less
  BY DEF Less, OpToRel
<1>3. PICK m \in T : \A n \in T : ~(<<n, m>> \in Less)
  BY <1>1, WFMin
<1>4. \A n \in T : ~(n < m)
  BY <1>2, <1>3
<1> QED BY <1>4

(* f says what is within o at each depth down to n.                          *)
IsDown(f, o, n) ==
    f = [k \in 0..n |->
            IF k = 0 THEN {o}
            ELSE LET above == f[k-1] IN above \cup UNION {member[x] : x \in above \cap Exists}]

Contents(above) == above \cup UNION {member[x] : x \in above \cap Exists}

(* There is such a function for every depth.                                 *)
LEMMA DownExists == \A o : \A n \in Nat : \E f : IsDown(f, o, n)
<1> SUFFICES ASSUME NEW o PROVE \A n \in Nat : \E f : IsDown(f, o, n)
  OBVIOUS
<1> DEFINE bad == {n \in Nat : ~\E f : IsDown(f, o, n)}
<1> SUFFICES ASSUME bad # {} PROVE FALSE
  OBVIOUS
<1>1. PICK m \in bad : \A n \in bad : m <= n
  BY LeastNumber
<1>2. CASE m = 0
  <2> DEFINE f == [k \in 0..0 |-> {o}]
  <2>1. IsDown(f, o, 0)
    BY DEF IsDown
  <2> QED BY <1>2, <2>1
<1>3. CASE m # 0
  <2>1. m - 1 \in Nat /\ m - 1 \notin bad
    BY <1>1, <1>3
  <2>2. PICK f : IsDown(f, o, m - 1)
    BY <2>1
  <2> DEFINE g == [k \in 0..m |-> IF k = 0 THEN {o} ELSE Contents(f[k-1])]
  <2>3. \A k \in 0..(m-1) : f[k] = IF k = 0 THEN {o} ELSE Contents(f[k-1])
    BY <2>2 DEF IsDown, Contents
  <2>4. \A k \in 0..(m-1) : g[k] = f[k]
    <3>1. \A k \in 0..m : g[k] = IF k = 0 THEN {o} ELSE Contents(f[k-1])
      OBVIOUS
    <3>2. 0..(m-1) \subseteq 0..m
      BY <2>1
    <3> HIDE DEF g
    <3> QED BY <2>3, <3>1, <3>2
  <2>5. \A k \in 0..m : k # 0 => k - 1 \in 0..(m-1)
    OBVIOUS
  <2>6. g = [k \in 0..m |-> IF k = 0 THEN {o} ELSE Contents(g[k-1])]
    BY <2>4, <2>5
  <2>7. IsDown(g, o, m)
    BY <2>6 DEF IsDown, Contents
  <2> QED BY <2>7
<1> QED BY <1>2, <1>3

(* What is within an object stays within any set that holds the object and    *)
(* the contents of whatever it holds.                                        *)
LEMMA InsideClosed ==
    ASSUME NEW o, NEW n \in Nat, NEW C, o \in C, \A y \in C \cap Exists : member[y] \subseteq C
    PROVE  Inside(o, n) \subseteq C
<1> DEFINE down == CHOOSE f : IsDown(f, o, n)
           bad == {k \in 0..n : ~(down[k] \subseteq C)}
<1>1. IsDown(down, o, n)
  BY DownExists
<1>2. Inside(o, n) = down[n]
  BY DEF Inside, IsDown
<1> HIDE DEF down
<1>3. \A k \in 0..n : down[k] = IF k = 0 THEN {o} ELSE Contents(down[k-1])
  BY <1>1 DEF IsDown, Contents
<1>4. ASSUME bad # {} PROVE FALSE
  <2>0. bad \in SUBSET Nat
    OBVIOUS
  <2>1. PICK m \in bad : \A k \in bad : m <= k
    <3> HIDE DEF bad
    <3> QED BY <1>4, <2>0, LeastNumber
  <2>2. CASE m = 0
    BY <1>3, <2>1, <2>2
  <2>3. CASE m # 0
    <3>1. m - 1 \in 0..n /\ m - 1 \notin bad
      BY <2>1, <2>3
    <3>2. down[m-1] \subseteq C
      BY <3>1
    <3>3. Contents(down[m-1]) \subseteq C
      BY <3>2 DEF Contents
    <3> QED BY <1>3, <2>1, <2>3, <3>3
  <2> QED BY <2>2, <2>3
<1> QED BY <1>2, <1>4

-----------------------------------------------------------------------------
(* C has the contents of whatever it holds, and every address.               *)
Closed(C) == Addresses \subseteq C /\ \A y \in C \cap Exists : member[y] \subseteq C

(* No host set is inside itself: its content stays within a set without it.   *)
Apart(h, C) == Closed(C) /\ member[h] \subseteq C /\ h \notin C

LoopFree == \A h \in Exists \cap HostSets : \E C : Apart(h, C)

LEMMA LoopFreeInit == Init => LoopFree
BY DEF Init, LoopFree, Exists

LEMMA LoopFreeImplies == LoopFree => Acyclic
<1> SUFFICES ASSUME LoopFree, NEW h \in Exists \cap HostSets, NEW x \in member[h]
             PROVE  h \notin Inside(x, Cardinality(HostSets) + 1)
  BY DEF Acyclic
<1>1. PICK C : Apart(h, C)
  BY DEF LoopFree
<1>2. Cardinality(HostSets) + 1 \in Nat
  BY ObjectsAssumption, FS_CardinalityType
<1>3. Inside(x, Cardinality(HostSets) + 1) \subseteq C
  BY <1>1, <1>2, InsideClosed DEF Apart, Closed
<1> QED BY <1>1, <1>3 DEF Apart

(* A leaf that is written, whatever it held before, leaves every host set     *)
(* apart from what it holds.                                                 *)
LEMMA LoopFreeLeaf ==
    ASSUME TypeOK, LoopFree, NEW l \in Leaves, NEW content \in SUBSET Addresses, Put(l, content)
    PROVE  LoopFree'
<1> SUFFICES ASSUME NEW h \in Exists' \cap HostSets PROVE \E C : Apart(h, C)'
  BY DEF LoopFree
<1>1. h \in Exists /\ h # l
  BY ObjectsAssumption DEF Put, Exists
<1>2. PICK C : Apart(h, C)
  BY <1>1 DEF LoopFree
<1>3. Apart(h, C)'
  BY <1>1, <1>2 DEF Apart, Closed, Put, Exists
<1> QED BY <1>3

(* An object that goes leaves what others hold as it is.                     *)
LEMMA LoopFreeDrop == ASSUME LoopFree, NEW o, Drop(o) PROVE LoopFree'
<1> SUFFICES ASSUME NEW h \in Exists' \cap HostSets PROVE \E C : Apart(h, C)'
  BY DEF LoopFree
<1>1. h \in Exists /\ Exists' = Exists \ {o} /\ \A y \in Exists' : member'[y] = member[y]
  BY DEF Drop, Exists, Restrict
<1>2. PICK C : Apart(h, C)
  BY <1>1 DEF LoopFree
<1>3. Apart(h, C)'
  BY <1>1, <1>2 DEF Apart, Closed
<1> QED BY <1>3

(* A host set that is new is held by nobody yet.                             *)
LEMMA LoopFreeAdd ==
    ASSUME TypeOK, NoDangling, LoopFree, NEW h \in HostSets,
           NEW content \in SUBSET (Objects \cup Addresses), AddHostSet(h, content)
    PROVE  LoopFree'
<1>0. PICK known : known = Exists \cup lost \cup Addresses
  OBVIOUS
<1>1. /\ h \notin Exists /\ content \subseteq known
      /\ Exists' = Exists \cup {h} /\ member'[h] = content
      /\ \A y \in Exists : member'[y] = member[y]
  BY <1>0 DEF AddHostSet, Put, Exists
<1>2. h \notin known /\ Closed(known)
  BY <1>0, <1>1, ObjectsAssumption DEF TypeOK, NoDangling, Closed, Objects
<1>3. Apart(h, known)'
  BY <1>1, <1>2 DEF Apart, Closed
<1>4. ASSUME NEW g \in Exists \cap HostSets PROVE \E C : Apart(g, C)'
  <2>1. PICK C : Apart(g, C)
    BY <1>4 DEF LoopFree
  <2> DEFINE B == C \cap known
  <2>2. Closed(B) /\ member[g] \subseteq B
    BY <1>0, <1>2, <1>4, <2>1 DEF Apart, Closed
  <2>3. Apart(g, B)'
    BY <1>1, <1>2, <2>1, <2>2 DEF Apart, Closed
  <2> QED BY <2>3
<1> QED BY <1>1, <1>3, <1>4 DEF LoopFree

(* What the content of a host set holds, as deep as _has_loop looks, when it  *)
(* found no loop: the host set is not among it, and nothing lies deeper.      *)
Deep(content) == content \cup Held(content) \cup Held(Held(content))

LEMMA NoLoopDeep ==
    ASSUME TypeOK, NEW h \in HostSets, NEW content \in SUBSET (Objects \cup Addresses),
           \A x \in content : ~HasLoop(h, x)
    PROVE  h \notin Deep(content) /\ Closed(Deep(content) \cup Addresses)
<1>1. \A x \in Addresses : Held({x}) = {}
  BY ObjectsAssumption DEF Held, Objects
<1>2. Held({}) = {}
  BY DEF Held
<1>3. \A S : Held(S) = UNION {Held({x}) : x \in S}
  BY DEF Held
<1>4. \A S : Held(UNION S) = UNION {Held(T) : T \in S}
  BY DEF Held
<1>5. \A y \in Deep(content) : \E x \in content : y \in {x} \cup Held({x}) \cup Held(Held({x}))
  BY DEF Deep, Held
<1>6. h \notin Deep(content)
  BY <1>1, <1>2, <1>5, ObjectsAssumption DEF HasLoop, Objects
<1>7. \A x \in content : Held(Held(Held({x}))) = {}
  BY <1>1, <1>2 DEF HasLoop
<1>8. Held(Held(Held(content))) = {}
  <2>1. \A y \in Held(Held(Held(content))) : \E x \in content : y \in Held(Held(Held({x})))
    BY DEF Held
  <2> QED BY <1>7, <2>1
<1>9. ASSUME NEW y \in (Deep(content) \cup Addresses) \cap Exists
      PROVE  member[y] \subseteq Deep(content) \cup Addresses
  <2>1. CASE y \in HostSets
    <3>1. y \in Deep(content)
      BY <2>1, ObjectsAssumption DEF Objects
    <3>2. \A S : y \in S => member[y] \subseteq Held(S)
      BY <1>9, <2>1 DEF Held
    <3> QED BY <1>8, <3>1, <3>2 DEF Deep
  <2>2. CASE y \notin HostSets
    BY <1>9, <2>2 DEF TypeOK
  <2> QED BY <2>1, <2>2
<1> QED BY <1>6, <1>9 DEF Closed

(* A host set edited without a loop is apart from what it now holds, and so   *)
(* is every other: if it is held by the edited one it was apart from it, and  *)
(* if it is not, what it holds has grown by what the edited one holds.        *)
LEMMA LoopFreeEdit ==
    ASSUME TypeOK, LoopFree, NEW h \in HostSets,
           NEW content \in SUBSET (Objects \cup Addresses), EditHostSet(h, content)
    PROVE  LoopFree'
<1>0. PICK D : D = Deep(content) \cup Addresses
  OBVIOUS
<1>1. /\ h \in Exists /\ Exists' = Exists /\ member'[h] = content
      /\ \A y \in Exists \ {h} : member'[y] = member[y]
  BY DEF EditHostSet, Put, Exists
<1>2. /\ h \notin D /\ Closed(D) /\ content \subseteq D
  <2>1. h \notin Deep(content) /\ Closed(D)
    BY <1>0, NoLoopDeep DEF EditHostSet
  <2> QED BY <1>0, <2>1, ObjectsAssumption DEF Deep, Objects
<1>3. \A C : Closed(C) /\ h \notin C => Closed(C)'
  BY <1>1 DEF Closed
<1>4. Apart(h, D)'
  BY <1>1, <1>2, <1>3 DEF Apart
<1>5. ASSUME NEW g \in (Exists \cap HostSets) \ {h} PROVE \E C : Apart(g, C)'
  <2>1. PICK C : Apart(g, C)
    BY <1>5 DEF LoopFree
  <2>2. CASE h \notin C
    <3>1. Apart(g, C)'
      BY <1>1, <1>3, <1>5, <2>1, <2>2 DEF Apart
    <3> QED BY <3>1
  <2>3. CASE h \in C /\ g \in D
    <3>1. Closed(C \cap D) /\ member[g] \subseteq C \cap D /\ h \notin C \cap D
      BY <1>2, <1>5, <2>1, <2>3 DEF Apart, Closed
    <3>2. Apart(g, C \cap D)'
      BY <1>1, <1>3, <1>5, <2>1, <3>1 DEF Apart
    <3> QED BY <3>2
  <2>4. CASE h \in C /\ g \notin D
    <3>1. Apart(g, C \cup D)'
      BY <1>1, <1>2, <1>5, <2>1, <2>4 DEF Apart, Closed
    <3> QED BY <3>1
  <2> QED BY <2>2, <2>3, <2>4
<1> QED BY <1>1, <1>4, <1>5 DEF LoopFree

LEMMA LoopFreeNext == TypeOK /\ NoDangling /\ LoopFree /\ [Next]_vars => LoopFree'
<1> SUFFICES ASSUME TypeOK, NoDangling, LoopFree, [Next]_vars PROVE LoopFree'
  OBVIOUS
<1>1. ASSUME UNCHANGED member PROVE LoopFree'
  BY <1>1 DEF LoopFree, Apart, Closed, Exists
<1> QED
  BY <1>1, LoopFreeAdd, LoopFreeEdit, LoopFreeLeaf, LoopFreeDrop
     DEF Next, Delete, Lose, SaveLeaf, SaveRule, SaveRedirect, DeleteSection, SaveFirewall,
         Commit, vars

(* However host sets are nested and edited, none is ever inside itself, so    *)
(* that get_object_ips always comes to an end (objects/__init__.py:413).      *)
THEOREM ObjectsAcyclic == Spec => []Acyclic
BY TypeInit, TypeNext, DanglingInit, DanglingNext, LoopFreeInit, LoopFreeNext,
   LoopFreeImplies, PTL DEF Spec
=============================================================================
