------------------------------- MODULE DpiProofs -----------------------------
(***************************************************************************)
(* For any rules, groups, members and restored configurations, and         *)
(* migrations ended at any point.  Groups come first: GroupIInv holds of   *)
(* the configuration and of the one a migration has in memory, every group *)
(* has a member, every rule names existing groups, and a rule of the API   *)
(* matches everything or names a group.  Then the order of the rules, from *)
(* lemmas about orders and the places in them: OrderIInv.                  *)
(***************************************************************************)
EXTENDS Dpi, FiniteSetTheorems, TLAPS

(* A configuration is a record of its five parts. *)
Shaped(c) ==
    /\ c = [rule |-> c.rule, file |-> c.file, priority |-> c.priority,
            member |-> c.member, exempt |-> c.exempt]
    /\ \A r \in DOMAIN c.rule : c.rule[r] \in RuleRecord

Grouped(rec, groups) ==
    /\ rec.groups \subseteq groups
    /\ rec.kind = "managed" => rec.all \/ rec.groups # {}

Sound(c) ==
    /\ Shaped(c)
    /\ \A g \in DOMAIN c.member : c.member[g] # {}
    /\ \A r \in DOMAIN c.rule : Grouped(c.rule[r], DOMAIN c.member)

GroupIInv == Sound(conf) /\ Sound(work)

-----------------------------------------------------------------------------
(* Orders and the places in them.                                            *)

(* An order names the rules it is of. *)
LEMMA OrderNames ==
    ASSUME NEW S, NEW o, IsOrder(o, S)
    PROVE  Named(o) = S
<1>1. \A p \in o : p[1] \in S
      BY DEF IsOrder
<1>2. \A r \in S : <<r, r>> \in o /\ <<r, r>>[1] = r
      BY DEF IsOrder
<1> QED BY <1>1, <1>2 DEF Named

(* The rules up to one of an order, which its place counts. *)
UpTo(o, r) == {s \in Named(o) : <<s, r>> \in o}

(* They are finitely many. *)
LEMMA UpToFinite ==
    ASSUME NEW S \in SUBSET Rules, NEW o, IsOrder(o, S), NEW r
    PROVE  /\ UpTo(o, r) \subseteq S
           /\ IsFiniteSet(UpTo(o, r))
           /\ Place(o, r) = Cardinality(UpTo(o, r))
           /\ Place(o, r) \in Nat /\ Cardinality(S) \in Nat /\ Cardinality(Rules) \in Nat
           /\ Place(o, r) <= Cardinality(S)
           /\ Cardinality(S) <= Cardinality(Rules)
<1>1. UpTo(o, r) \subseteq S
      BY OrderNames DEF UpTo
<1>2. Place(o, r) = Cardinality(UpTo(o, r))
      BY DEF Place, UpTo
<1>3. /\ IsFiniteSet(S) /\ Cardinality(S) \in Nat /\ Cardinality(Rules) \in Nat
      /\ Cardinality(S) <= Cardinality(Rules)
      BY RulesAssumption, FS_Subset, FS_CardinalityType
<1>4. /\ IsFiniteSet(UpTo(o, r)) /\ Cardinality(UpTo(o, r)) \in Nat
      /\ Cardinality(UpTo(o, r)) <= Cardinality(S)
      BY <1>1, <1>3, FS_Subset, FS_CardinalityType
<1> QED BY <1>1, <1>2, <1>3, <1>4

(* No place is zero, which stands for no priority. *)
LEMMA PlaceType ==
    ASSUME NEW S \in SUBSET Rules, NEW o, IsOrder(o, S), NEW r \in S
    PROVE  Place(o, r) \in 1..Cardinality(S) /\ Place(o, r) \in Positions
<1>1. {r} \subseteq UpTo(o, r)
      BY OrderNames DEF UpTo, IsOrder
<1>2. Cardinality({r}) = 1
      BY FS_Singleton
<1>3. 1 <= Cardinality(UpTo(o, r))
      BY <1>1, <1>2, UpToFinite, FS_Subset
<1> QED BY <1>3, UpToFinite DEF Positions

(* Places grow along the order, and no two rules share one. *)
LEMMA PlaceGrows ==
    ASSUME NEW S \in SUBSET Rules, NEW o, IsOrder(o, S), NEW r \in S, NEW s \in S
    PROVE  /\ <<r, s>> \in o <=> Place(o, r) <= Place(o, s)
           /\ Place(o, r) = Place(o, s) => r = s
<1>1. ASSUME NEW x \in S, NEW y \in S, <<x, y>> \in o
      PROVE  Place(o, x) <= Place(o, y)
  <2>1. UpTo(o, x) \subseteq UpTo(o, y)
        BY <1>1, OrderNames DEF UpTo, IsOrder
  <2> QED BY <2>1, UpToFinite, FS_Subset
<1>2. ASSUME NEW x \in S, NEW y \in S, <<x, y>> \in o, Place(o, x) = Place(o, y)
      PROVE  x = y
  <2>1. UpTo(o, x) \subseteq UpTo(o, y)
        BY <1>2, OrderNames DEF UpTo, IsOrder
  <2>2. IsFiniteSet(UpTo(o, y)) /\ Cardinality(UpTo(o, x)) = Cardinality(UpTo(o, y))
        BY <1>2, UpToFinite
  <2>3. UpTo(o, x) = UpTo(o, y)
        BY <2>1, <2>2, FS_Subset
  <2>4. y \in UpTo(o, y)
        BY OrderNames DEF UpTo, IsOrder
  <2>5. <<y, x>> \in o
        BY <2>3, <2>4 DEF UpTo
  <2> QED BY <1>2, <2>5 DEF IsOrder
<1>3. <<r, s>> \in o \/ <<s, r>> \in o
      BY DEF IsOrder
<1>4. Place(o, r) \in Nat /\ Place(o, s) \in Nat
      BY UpToFinite
<1>5. CASE <<r, s>> \in o
      BY <1>1, <1>2, <1>5
<1>6. CASE <<r, s>> \notin o
  <2>1. <<s, r>> \in o /\ Place(o, s) <= Place(o, r)
        BY <1>1, <1>3, <1>6
  <2>2. s # r
        BY <1>6, <2>1
  <2>3. Place(o, s) # Place(o, r)
        BY <1>2, <2>1, <2>2
  <2> QED BY <1>4, <1>6, <2>1, <2>3
<1> QED BY <1>5, <1>6

(* A rule alone. *)
LEMMA SingleOrder ==
    ASSUME NEW r
    PROVE  IsOrder({<<r, r>>}, {r})
BY DEF IsOrder

(* And none. *)
LEMMA EmptyOrder == IsOrder({}, {}) /\ Named({}) = {}
BY DEF IsOrder, Named

(* What is left when rules go. *)
LEMMA WithinOrder ==
    ASSUME NEW S, NEW o, IsOrder(o, S), NEW T \in SUBSET S
    PROVE  IsOrder(Within(o, T), T)
BY DEF IsOrder, Within

(* One order after another of other rules. *)
LEMMA ThenOrder ==
    ASSUME NEW S, NEW o, IsOrder(o, S), NEW T, NEW p, IsOrder(p, T), S \cap T = {}
    PROVE  /\ IsOrder(Then(o, p), S \cup T)
           /\ \A r, s \in S : <<r, s>> \in Then(o, p) <=> <<r, s>> \in o
           /\ \A r, s \in T : <<r, s>> \in Then(o, p) <=> <<r, s>> \in p
           /\ \A r \in S, s \in T : <<r, s>> \in Then(o, p)
<1>1. \A r, s : <<r, s>> \in Then(o, p)
                    <=> <<r, s>> \in o \/ <<r, s>> \in p \/ (r \in S /\ s \in T)
      BY OrderNames DEF Then
<1>2. /\ \A r, s : <<r, s>> \in o => r \in S /\ s \in S
      /\ \A r, s : <<r, s>> \in p => r \in T /\ s \in T
      BY DEF IsOrder
<1>3. Then(o, p) \subseteq (S \cup T) \X (S \cup T)
  <2>1. o \subseteq S \X S /\ p \subseteq T \X T /\ Named(o) = S /\ Named(p) = T
        BY OrderNames DEF IsOrder
  <2>2. Then(o, p) = o \cup p \cup (S \X T)
        BY <2>1 DEF Then
  <2> QED BY <2>1, <2>2
<1>4. \A r, s \in S \cup T :
         <<r, s>> \in Then(o, p) <=> r = s \/ <<s, r>> \notin Then(o, p)
  <2> SUFFICES ASSUME NEW r \in S \cup T, NEW s \in S \cup T
               PROVE  <<r, s>> \in Then(o, p) <=> r = s \/ <<s, r>> \notin Then(o, p)
      OBVIOUS
  <2>1. CASE r \in S /\ s \in S
        BY <1>1, <1>2, <2>1 DEF IsOrder
  <2>2. CASE r \in T /\ s \in T
        BY <1>1, <1>2, <2>2 DEF IsOrder
  <2>3. CASE r \in S /\ s \in T
        BY <1>1, <1>2, <2>3
  <2>4. CASE r \in T /\ s \in S
        BY <1>1, <1>2, <2>4
  <2> QED BY <2>1, <2>2, <2>3, <2>4
<1>5. \A r, s, t \in S \cup T :
         <<r, s>> \in Then(o, p) /\ <<s, t>> \in Then(o, p) => <<r, t>> \in Then(o, p)
  <2> SUFFICES ASSUME NEW r \in S \cup T, NEW s \in S \cup T, NEW t \in S \cup T,
                      <<r, s>> \in Then(o, p), <<s, t>> \in Then(o, p)
               PROVE  <<r, t>> \in Then(o, p)
      OBVIOUS
  <2>1. CASE r \in S /\ t \in T
        BY <1>1, <2>1
  <2>2. CASE r \in S /\ t \in S
        BY <1>1, <1>2, <2>2 DEF IsOrder
  <2>3. CASE r \in T
        BY <1>1, <1>2, <2>3 DEF IsOrder
  <2> QED BY <2>1, <2>2, <2>3
<1> QED BY <1>1, <1>2, <1>3, <1>4, <1>5 DEF IsOrder

(* A rule put at either end. *)
LEMMA EndsOrder ==
    ASSUME NEW S, NEW o, IsOrder(o, S), NEW r, r \notin S
    PROVE  /\ IsOrder(Then(o, {<<r, r>>}), S \cup {r})
           /\ IsOrder(Then({<<r, r>>}, o), S \cup {r})
           /\ \A x, y \in S : /\ <<x, y>> \in Then(o, {<<r, r>>}) <=> <<x, y>> \in o
                              /\ <<x, y>> \in Then({<<r, r>>}, o) <=> <<x, y>> \in o
<1>1. PICK T, p : T = {r} /\ p = {<<r, r>>}
      OBVIOUS
<1>2. IsOrder(p, T) /\ S \cap T = {} /\ T \cap S = {} /\ S \cup T = T \cup S
      BY <1>1, SingleOrder
<1>3. /\ IsOrder(Then(o, p), S \cup T)
      /\ \A x, y \in S : <<x, y>> \in Then(o, p) <=> <<x, y>> \in o
      BY <1>2, ThenOrder
<1>4. /\ IsOrder(Then(p, o), T \cup S)
      /\ \A x, y \in S : <<x, y>> \in Then(p, o) <=> <<x, y>> \in o
  <2>1. IsOrder(p, T) /\ IsOrder(o, S) /\ T \cap S = {}
        BY <1>2
  <2>2. /\ IsOrder(Then(p, o), T \cup S)
        /\ \A x, y \in T : <<x, y>> \in Then(p, o) <=> <<x, y>> \in p
        /\ \A x, y \in S : <<x, y>> \in Then(p, o) <=> <<x, y>> \in o
        /\ \A x \in T, y \in S : <<x, y>> \in Then(p, o)
        BY <2>1, ThenOrder, Zenon
  <2> QED BY <2>2
<1> QED BY <1>1, <1>2, <1>3, <1>4

-----------------------------------------------------------------------------
(* The operators on configurations.                                          *)

LEMMA RuleIsRecord ==
    ASSUME NEW k \in Kinds, NEW on \in BOOLEAN, NEW gs \in SUBSET Groups,
           NEW all \in BOOLEAN, NEW origin \in Origins
    PROVE  Rule(k, on, gs, all, origin) \in RuleRecord
BY DEF Rule, RuleRecord

(* Nothing configured. *)
LEMMA EmptySound == Sound(Empty)
BY DEF Empty, Sound, Shaped

(* New priorities change nothing else. *)
LEMMA RenumberSound ==
    ASSUME NEW c, Sound(c), NEW o
    PROVE  Sound(Renumber(c, o))
<1> DEFINE p == [r \in Rules |-> IF r \in Named(o) THEN Place(o, r) ELSE c.priority[r]]
<1>1. Renumber(c, o) = [c EXCEPT !.priority = p]
      BY DEF Renumber
<1> HIDE DEF p
<1>2. [c EXCEPT !.priority = p] = [rule |-> c.rule, file |-> c.file, priority |-> p,
                                   member |-> c.member, exempt |-> c.exempt]
      BY DEF Sound, Shaped
<1> QED BY <1>1, <1>2 DEF Sound, Shaped

(* A new rule that names groups. *)
LEMMA WithRuleSound ==
    ASSUME NEW c, Sound(c), NEW r, NEW rec \in RuleRecord, Grouped(rec, DOMAIN c.member)
    PROVE  Sound(WithRule(c, r, rec))
<1> DEFINE rs == [x \in DOMAIN c.rule \cup {r} |-> IF x = r THEN rec ELSE c.rule[x]]
           f == Then(c.file, {<<r, r>>})
           p == [c.priority EXCEPT ![r] = 0]
<1>1. WithRule(c, r, rec) = [c EXCEPT !.rule = rs, !.file = f, !.priority = p]
      BY DEF WithRule
<1>2. \A x \in DOMAIN rs : rs[x] \in RuleRecord /\ Grouped(rs[x], DOMAIN c.member)
      BY DEF Sound, Shaped
<1> HIDE DEF rs, f, p
<1>3. WithRule(c, r, rec) = [rule |-> rs, file |-> f, priority |-> p,
                             member |-> c.member, exempt |-> c.exempt]
      BY <1>1 DEF Sound, Shaped
<1> QED BY <1>2, <1>3 DEF Sound, Shaped

(* Rules that go. *)
LEMMA WithoutRulesSound ==
    ASSUME NEW c, Sound(c), NEW R
    PROVE  Sound(WithoutRules(c, R))
<1> DEFINE rs == [x \in DOMAIN c.rule \ R |-> c.rule[x]]
           f == Within(c.file, Sections(c) \ R)
           p == [x \in Rules |-> IF x \in R THEN 0 ELSE c.priority[x]]
<1>1. WithoutRules(c, R) = [c EXCEPT !.rule = rs, !.file = f, !.priority = p]
      BY DEF WithoutRules
<1>2. \A x \in DOMAIN rs : rs[x] \in RuleRecord /\ Grouped(rs[x], DOMAIN c.member)
      BY DEF Sound, Shaped
<1> HIDE DEF rs, f, p
<1>3. WithoutRules(c, R) = [rule |-> rs, file |-> f, priority |-> p,
                            member |-> c.member, exempt |-> c.exempt]
      BY <1>1 DEF Sound, Shaped
<1> QED BY <1>2, <1>3 DEF Sound, Shaped

(* A rule the API adds. *)
LEMMA InsertSound ==
    ASSUME NEW c, Sound(c), NEW r, NEW rec \in RuleRecord, Grouped(rec, DOMAIN c.member),
           NEW position
    PROVE  Sound(Insert(c, r, rec, position))
<1>1. Sound(WithRule(c, r, rec))
      BY WithRuleSound
<1> QED BY <1>1, RenumberSound DEF Insert

(* A rule that changes keeps the configuration sound if it names groups. *)
LEMMA ChangedRuleSound ==
    ASSUME NEW c, Sound(c), NEW r \in DOMAIN c.rule, NEW rec \in RuleRecord,
           Grouped(rec, DOMAIN c.member)
    PROVE  Sound([c EXCEPT !.rule[r] = rec])
<1> DEFINE rs == [c.rule EXCEPT ![r] = rec]
<1>1. [c EXCEPT !.rule[r] = rec] = [rule |-> rs, file |-> c.file, priority |-> c.priority,
                                    member |-> c.member, exempt |-> c.exempt]
      BY DEF Sound, Shaped
<1>2. \A x \in DOMAIN rs : rs[x] \in RuleRecord /\ Grouped(rs[x], DOMAIN c.member)
      BY DEF Sound, Shaped
<1> HIDE DEF rs
<1> QED BY <1>1, <1>2 DEF Sound, Shaped

(* So do groups that change, if every group that is named stays.             *)
LEMMA ChangedGroupsSound ==
    ASSUME NEW c, Sound(c), NEW m, \A g \in DOMAIN m : m[g] # {},
           \A r \in DOMAIN c.rule : c.rule[r].groups \subseteq DOMAIN m
    PROVE  Sound([c EXCEPT !.member = m])
<1>1. [c EXCEPT !.member = m] = [rule |-> c.rule, file |-> c.file, priority |-> c.priority,
                                 member |-> m, exempt |-> c.exempt]
      BY DEF Sound, Shaped
<1> QED BY <1>1 DEF Sound, Shaped, Grouped

(* The same rules with other origins or kinds, none of them of the API.       *)
LEMMA MappedRulesSound ==
    ASSUME NEW c, Sound(c), NEW rs, DOMAIN rs = DOMAIN c.rule,
           \A r \in DOMAIN rs : /\ rs[r] \in RuleRecord
                                /\ rs[r].groups = c.rule[r].groups
                                /\ rs[r].all = c.rule[r].all
                                /\ rs[r].kind = "managed" => c.rule[r].kind = "managed"
    PROVE  Sound([c EXCEPT !.rule = rs])
<1>1. [c EXCEPT !.rule = rs] = [rule |-> rs, file |-> c.file, priority |-> c.priority,
                                member |-> c.member, exempt |-> c.exempt]
      BY DEF Sound, Shaped
<1> QED BY <1>1 DEF Sound, Shaped, Grouped

(* Freezing an old rule leaves all but its kind. *)
LEMMA FrozenRule ==
    ASSUME NEW rec \in RuleRecord
    PROVE  /\ Frozen(rec) \in RuleRecord
           /\ Frozen(rec).groups = rec.groups /\ Frozen(rec).all = rec.all
           /\ Frozen(rec).kind = "managed" => rec.kind = "managed"
BY DEF Frozen, RuleRecord, Kinds

(* A restored configuration has no groups and no rule of the API.            *)
LEMMA RestoredSound ==
    ASSUME NEW o \in OldConfigs, NEW S \in SUBSET Rules, NEW file \in Orders[S],
           Restore(o, S, file)
    PROVE  Sound(conf')
<1> DEFINE kind(r) == o.rules[Place(file, r)]
           rs == [r \in S |->
                    Rule(kind(r), TRUE, {}, FALSE, IF kind(r) = "raw" THEN "user" ELSE "legacy")]
<1>1. IsOrder(file, S)
      BY DEF Orders
<1>2. o.rules \in Seq({"legacy", "qos", "idle", "raw"}) /\ Len(o.rules) = Cardinality(S)
      BY OldAssumption DEF Restore
<1>3. \A r \in S : Place(file, r) \in 1..Len(o.rules)
      BY <1>1, <1>2, PlaceType
<1>4. \A r \in S : kind(r) \in {"legacy", "qos", "idle", "raw"}
      BY <1>2, <1>3
<1>5. \A r \in S : rs[r] \in RuleRecord
      BY <1>4, RuleIsRecord DEF Kinds, OldKinds, Origins
<1>6. \A r \in S : rs[r].groups = {} /\ rs[r].kind # "managed"
      BY <1>4 DEF Rule
<1>7. conf' = [rule |-> rs, file |-> file, priority |-> [r \in Rules |-> 0],
               member |-> <<>>, exempt |-> o.exempt]
      BY DEF Restore
<1>8. DOMAIN rs = S
      OBVIOUS
<1> HIDE DEF rs
<1> QED BY <1>5, <1>6, <1>7, <1>8 DEF Sound, Shaped, Grouped

-----------------------------------------------------------------------------
(* The calls of the API. *)
LEMMA EditSound ==
    ASSUME GroupIInv, Edit
    PROVE  GroupIInv'
<1>1. Sound(conf)
      BY DEF GroupIInv
<1> SUFFICES Sound(conf')
  <2>1. ASSUME NEW r, NEW on, NEW gs, NEW all, NEW position,
               AddRule(r, on, gs, all, position) \/ EditRule(r, on, gs, all)
        PROVE  work' = work
        BY <2>1 DEF AddRule, EditRule, Save
  <2>2. ASSUME NEW r, NEW on, DeleteRule(r) \/ SwitchRule(r, on)
        PROVE  work' = work
        BY <2>2 DEF DeleteRule, SwitchRule, Save
  <2>3. ASSUME NEW g, NEW ms, DeleteGroup(g) \/ SaveGroup(g, ms)
        PROVE  work' = work
        BY <2>3 DEF DeleteGroup, SaveGroup, Save
  <2>4. work' = work
        BY <2>1, <2>2, <2>3 DEF Edit
  <2> QED BY <2>4 DEF GroupIInv
<1>2. ASSUME NEW r \in Rules, NEW on \in BOOLEAN, NEW all \in BOOLEAN,
             NEW gs \in SUBSET Groups, NEW position, AddRule(r, on, gs, all, position)
      PROVE  Sound(conf')
  <2>1. Rule("managed", on, gs, all, "user") \in RuleRecord
        BY RuleIsRecord DEF Kinds, Origins
  <2>2. Grouped(Rule("managed", on, gs, all, "user"), DOMAIN conf.member)
        BY <1>2 DEF AddRule, ValidGroups, Grouped, Rule
  <2> QED BY <1>1, <1>2, <2>1, <2>2, InsertSound DEF AddRule, Save
<1>3. ASSUME NEW r \in Rules, NEW on \in BOOLEAN, NEW all \in BOOLEAN,
             NEW gs \in SUBSET Groups, EditRule(r, on, gs, all)
      PROVE  Sound(conf')
  <2> DEFINE old == conf.rule[r]
             new == [[[old EXCEPT !.on = on] EXCEPT !.groups = gs] EXCEPT !.all = all]
  <2>1. r \in DOMAIN conf.rule /\ old \in RuleRecord
        BY <1>1, <1>3 DEF EditRule, Sections, Sound, Shaped
  <2>2. new \in RuleRecord
        BY <2>1 DEF RuleRecord
  <2>3. new.groups = gs /\ new.all = all
        BY <2>1 DEF RuleRecord
  <2>4. Grouped(new, DOMAIN conf.member)
        BY <1>3, <2>3 DEF EditRule, ValidGroups, Grouped
  <2>5. conf' = [conf EXCEPT !.rule[r] = new]
        BY <1>1, <1>3, <2>1 DEF EditRule, Save, Sound, Shaped
  <2> QED BY <1>1, <2>1, <2>2, <2>4, <2>5, ChangedRuleSound
<1>4. ASSUME NEW r \in Rules, DeleteRule(r)
      PROVE  Sound(conf')
      BY <1>1, <1>4, WithoutRulesSound, RenumberSound DEF DeleteRule, Erase, Save
<1>5. ASSUME NEW r \in Rules, NEW on \in BOOLEAN, SwitchRule(r, on)
      PROVE  Sound(conf')
  <2> DEFINE old == conf.rule[r]
             new == [old EXCEPT !.on = on]
  <2>1. r \in DOMAIN conf.rule /\ old \in RuleRecord /\ Grouped(old, DOMAIN conf.member)
        BY <1>1, <1>5 DEF SwitchRule, Sections, Sound, Shaped
  <2>2. new \in RuleRecord /\ Grouped(new, DOMAIN conf.member)
        BY <2>1 DEF RuleRecord, Grouped
  <2>3. conf' = [conf EXCEPT !.rule[r] = new]
        BY <1>5 DEF SwitchRule, Save
  <2> QED BY <1>1, <2>1, <2>2, <2>3, ChangedRuleSound
<1>6. ASSUME NEW g \in Groups, DeleteGroup(g)
      PROVE  Sound(conf')
  <2> DEFINE m == [h \in DOMAIN conf.member \ {g} |-> conf.member[h]]
  <2>1. conf' = [conf EXCEPT !.member = m]
        BY <1>6 DEF DeleteGroup, Save
  <2>2. \A r \in DOMAIN conf.rule : conf.rule[r].groups \subseteq DOMAIN m
        BY <1>1, <1>6 DEF DeleteGroup, UsedGroup, Sections, Sound, Grouped
  <2>3. \A h \in DOMAIN m : m[h] # {}
        BY <1>1 DEF Sound
  <2> HIDE DEF m
  <2> QED BY <1>1, <2>1, <2>2, <2>3, ChangedGroupsSound
<1>7. ASSUME NEW g \in Groups, NEW ms \in SUBSET Members, SaveGroup(g, ms)
      PROVE  Sound(conf')
  <2> DEFINE m == [h \in DOMAIN conf.member \cup {g} |-> IF h = g THEN ms ELSE conf.member[h]]
  <2>1. conf' = [conf EXCEPT !.member = m]
        BY <1>7 DEF SaveGroup, Save
  <2>2. \A r \in DOMAIN conf.rule : conf.rule[r].groups \subseteq DOMAIN m
        BY <1>1 DEF Sound, Grouped
  <2>3. \A h \in DOMAIN m : m[h] # {}
        BY <1>1, <1>7 DEF Sound, SaveGroup, ValidMembers
  <2> HIDE DEF m
  <2> QED BY <1>1, <2>1, <2>2, <2>3, ChangedGroupsSound
<1> QED BY <1>2, <1>3, <1>4, <1>5, <1>6, <1>7 DEF Edit

(* The steps of a migration. *)
LEMMA MigrateSound ==
    ASSUME GroupIInv, Migrate
    PROVE  GroupIInv'
<1> USE DEF GroupIInv
<1>1. CASE Begin
      BY <1>1 DEF Begin
<1>2. ASSUME NEW r \in Rules, MigrateExemption(r)
      PROVE  GroupIInv'
  <2> DEFINE rest == [work EXCEPT !.exempt = Tail(work.exempt)]
  <2>1. Sound(rest)
    <3> DEFINE t == Tail(work.exempt)
    <3> HIDE DEF t
    <3>1. [work EXCEPT !.exempt = t] = [rule |-> work.rule, file |-> work.file,
              priority |-> work.priority, member |-> work.member, exempt |-> t]
          BY DEF Sound, Shaped
    <3>2. Sound([work EXCEPT !.exempt = t])
          BY <3>1 DEF Sound, Shaped
    <3> QED BY <3>2 DEF t
  <2>2. /\ Rule("managed", TRUE, {}, TRUE, "exemption") \in RuleRecord
        /\ Grouped(Rule("managed", TRUE, {}, TRUE, "exemption"), DOMAIN rest.member)
        /\ Rule("raw", TRUE, {}, FALSE, "exemption") \in RuleRecord
        /\ Grouped(Rule("raw", TRUE, {}, FALSE, "exemption"), DOMAIN rest.member)
        BY DEF Rule, RuleRecord, Grouped, Kinds, Origins
  <2>3. \/ /\ work' = Insert(rest, r, Rule("managed", TRUE, {}, TRUE, "exemption"), "bottom")
           /\ conf' = work'
        \/ /\ work' = WithRule(rest, r, Rule("raw", TRUE, {}, FALSE, "exemption"))
           /\ conf' = conf
        BY <1>2 DEF MigrateExemption
  <2> HIDE DEF rest
  <2> QED BY <2>1, <2>2, <2>3, InsertSound, WithRuleSound
<1>3. CASE MigrateRules
  <2> DEFINE kept == WithoutRules(work, {r \in Sections(work) : work.rule[r].kind \in {"qos", "idle"}})
             frozen == [kept EXCEPT !.rule = [r \in DOMAIN kept.rule |-> Frozen(kept.rule[r])]]
  <2>1. Sound(kept)
        BY WithoutRulesSound
  <2>2. work' = Renumber(frozen, MigratedOrder(frozen)) /\ conf' = work'
        BY <1>3 DEF MigrateRules
  <2> HIDE DEF kept
  <2>3. Sound(frozen)
    <3> DEFINE rs == [r \in DOMAIN kept.rule |-> Frozen(kept.rule[r])]
    <3>1. \A r \in DOMAIN kept.rule : kept.rule[r] \in RuleRecord
          BY <2>1 DEF Sound, Shaped
    <3>2. /\ DOMAIN rs = DOMAIN kept.rule
          /\ \A r \in DOMAIN rs : /\ rs[r] \in RuleRecord
                                  /\ rs[r].groups = kept.rule[r].groups
                                  /\ rs[r].all = kept.rule[r].all
                                  /\ rs[r].kind = "managed" => kept.rule[r].kind = "managed"
          BY <3>1, FrozenRule
    <3> HIDE DEF rs
    <3>3. Sound([kept EXCEPT !.rule = rs])
          BY <2>1, <3>2, MappedRulesSound
    <3> QED BY <3>3 DEF rs
  <2> HIDE DEF frozen
  <2> QED BY <2>2, <2>3, RenumberSound
<1>4. CASE Commit
  <2> DEFINE rs == [r \in DOMAIN conf.rule |-> [conf.rule[r] EXCEPT !.origin = "user"]]
  <2>1. /\ DOMAIN rs = DOMAIN conf.rule
        /\ \A r \in DOMAIN rs : /\ rs[r] \in RuleRecord
                                /\ rs[r].groups = conf.rule[r].groups
                                /\ rs[r].all = conf.rule[r].all
                                /\ rs[r].kind = "managed" => conf.rule[r].kind = "managed"
        BY DEF Sound, Shaped, RuleRecord, Origins
  <2>2. conf' = [conf EXCEPT !.rule = rs] /\ work' = Empty
        BY <1>4 DEF Commit
  <2> HIDE DEF rs
  <2> QED BY <2>1, <2>2, EmptySound, MappedRulesSound
<1> QED BY <1>1, <1>2, <1>3, <1>4 DEF Migrate

(* Every step. *)
LEMMA GroupStep ==
    ASSUME GroupIInv, [Next]_vars
    PROVE  GroupIInv'
<1>1. ASSUME NEW o, OrderRules(o)
      PROVE  GroupIInv'
      BY <1>1, RenumberSound DEF OrderRules, Save, GroupIInv
<1>2. ASSUME NEW o \in OldConfigs, NEW S \in SUBSET Rules, NEW file \in Orders[S],
             Restore(o, S, file)
      PROVE  GroupIInv'
  <2>1. work' = work
        BY <1>2 DEF Restore
  <2> QED BY <1>2, <2>1, RestoredSound DEF GroupIInv
<1>3. CASE Kill
      BY <1>3, EmptySound DEF Kill, GroupIInv
<1>4. CASE UNCHANGED vars
      BY <1>4 DEF vars, GroupIInv
<1>5. ASSUME NEW r \in Rules, WriteRule(r)
      PROVE  GroupIInv'
  <2>1. PICK rec : rec = Rule("raw", TRUE, {}, FALSE, "user")
        OBVIOUS
  <2>2. rec \in RuleRecord
        BY <2>1, RuleIsRecord DEF Kinds, Origins
  <2>3. Grouped(rec, DOMAIN conf.member)
        BY <2>1 DEF Grouped, Rule
  <2>4. conf' = WithRule(conf, r, rec) /\ work' = work
        BY <1>5, <2>1 DEF WriteRule, Save
  <2> QED BY <2>2, <2>3, <2>4, WithRuleSound DEF GroupIInv
<1> QED BY <1>1, <1>2, <1>3, <1>4, <1>5, EditSound, MigrateSound DEF Next

(* The groups stay sound. *)
LEMMA GroupInvariant == Spec => []GroupIInv
<1>1. Init => GroupIInv
      BY EmptySound DEF Init, GroupIInv
<1> QED BY <1>1, GroupStep, PTL DEF Spec

(* No rule, enabled or not, ever names a group that is gone, wherever a       *)
(* migration was ended.                                                      *)
THEOREM DpiGroupsExist == Spec => []GroupsExist
<1>1. GroupIInv => GroupsExist
      BY DEF GroupIInv, Sound, Grouped, GroupsExist, Sections
<1> QED BY <1>1, GroupInvariant, PTL

(* dpi-config finds something to emit for every rule of the API.             *)
THEOREM DpiManagedEmitted == Spec => []ManagedEmitted
<1>1. ASSUME GroupIInv, NEW r \in Sections(conf), conf.rule[r].kind = "managed"
      PROVE  Matches(conf, conf.rule[r])
  <2>1. CASE conf.rule[r].all
        BY <2>1 DEF Matches
  <2>2. CASE conf.rule[r].groups # {}
    <3>1. PICK g \in conf.rule[r].groups : g \in DOMAIN conf.member /\ conf.member[g] # {}
          BY <1>1, <2>2 DEF GroupIInv, Sound, Grouped, Sections
    <3> QED BY <3>1 DEF Matches, Expand
  <2> QED BY <1>1, <2>1, <2>2 DEF GroupIInv, Sound, Grouped, Sections
<1>2. GroupIInv => ManagedEmitted
      BY <1>1 DEF ManagedEmitted
<1> QED BY <1>2, GroupInvariant, PTL

-----------------------------------------------------------------------------
(* What the operators do to the order of the rules.                          *)

(* Sorting by priority and file order is an order. *)
LEMMA SortedOrder ==
    ASSUME NEW c, IsConfig(c)
    PROVE  IsOrder(Sorted(c), Sections(c))
<1> DEFINE S == Sections(c)
<1>1. \A r \in S : c.priority[r] \in Nat
      BY DEF IsConfig, Positions
<1>2. \A r, s \in S : <<r, s>> \in Sorted(c) <=> Before(c, r, s)
      BY DEF Sorted
<1>3. Sorted(c) \subseteq S \X S
      BY DEF Sorted
<1>4. IsOrder(c.file, S)
      BY DEF IsConfig
<1> HIDE DEF S
<1>5. \A r, s \in S : Before(c, r, s) <=> r = s \/ ~Before(c, s, r)
  <2> SUFFICES ASSUME NEW r \in S, NEW s \in S
               PROVE  Before(c, r, s) <=> r = s \/ ~Before(c, s, r)
      OBVIOUS
  <2>1. <<r, s>> \in c.file <=> r = s \/ <<s, r>> \notin c.file
        BY <1>4 DEF IsOrder
  <2>2. c.priority[r] \in Nat /\ c.priority[s] \in Nat
        BY <1>1
  <2> QED BY <2>1, <2>2 DEF Before
<1>6. \A r, s, t \in S : Before(c, r, s) /\ Before(c, s, t) => Before(c, r, t)
      BY <1>1, <1>4 DEF Before, IsOrder
<1> QED BY <1>2, <1>3, <1>5, <1>6 DEF IsOrder, S

(* A renumbered configuration has the same parts. *)
LEMMA RenumberShaped ==
    ASSUME NEW c, Shaped(c), NEW o
    PROVE  Shaped(Renumber(c, o))
<1> DEFINE p == [r \in Rules |-> IF r \in Named(o) THEN Place(o, r) ELSE c.priority[r]]
<1>1. Renumber(c, o) = [c EXCEPT !.priority = p]
      BY DEF Renumber
<1> HIDE DEF p
<1>2. [c EXCEPT !.priority = p] = [rule |-> c.rule, file |-> c.file, priority |-> p,
                                   member |-> c.member, exempt |-> c.exempt]
      BY DEF Shaped
<1> QED BY <1>1, <1>2 DEF Shaped

(* Renumbered, every rule has a priority and they follow the given order. *)
LEMMA Renumbered ==
    ASSUME NEW c, Shaped(c), IsConfig(c), NEW o, IsOrder(o, Sections(c)),
           NEW d, d = Renumber(c, o)
    PROVE  /\ IsConfig(d)
           /\ d.rule = c.rule /\ d.file = c.file /\ d.member = c.member /\ d.exempt = c.exempt
           /\ \A r \in Sections(c) : d.priority[r] # 0
           /\ \A r, s \in Sections(c) : Before(d, r, s) <=> <<r, s>> \in o
<1> DEFINE p == [r \in Rules |-> IF r \in Named(o) THEN Place(o, r) ELSE c.priority[r]]
<1>1. d = [c EXCEPT !.priority = p]
      BY DEF Renumber
<1>2. Sections(c) \in SUBSET Rules
      BY DEF IsConfig
<1>3. Named(o) = Sections(c)
      BY OrderNames
<1>4. /\ p \in [Rules -> Positions]
      /\ \A r \in Sections(c) : p[r] = Place(o, r) /\ p[r] # 0 /\ p[r] \in Nat
  <2>1. \A r \in Sections(c) : Place(o, r) \in Positions /\ Place(o, r) # 0 /\ Place(o, r) \in Nat
        BY <1>2, PlaceType DEF Positions
  <2>2. c.priority \in [Rules -> Positions]
        BY DEF IsConfig
  <2> QED BY <1>2, <1>3, <2>1, <2>2
<1> HIDE DEF p
<1>5. d = [rule |-> c.rule, file |-> c.file, priority |-> p,
           member |-> c.member, exempt |-> c.exempt]
      BY <1>1 DEF Shaped
<1>6. /\ d.rule = c.rule /\ d.file = c.file /\ d.member = c.member /\ d.exempt = c.exempt
      /\ d.priority = p
      BY <1>5
<1>7. IsConfig(d)
      BY <1>4, <1>6 DEF IsConfig, Sections
<1>8. ASSUME NEW r \in Sections(c), NEW s \in Sections(c)
      PROVE  Before(d, r, s) <=> <<r, s>> \in o
  <2>1. /\ d.priority[r] = Place(o, r) /\ d.priority[s] = Place(o, s)
        /\ Place(o, r) \in Nat /\ Place(o, s) \in Nat /\ Place(o, r) # 0 /\ Place(o, s) # 0
        BY <1>4, <1>6
  <2>2. /\ <<r, s>> \in o <=> Place(o, r) <= Place(o, s)
        /\ Place(o, r) = Place(o, s) => r = s
        BY <1>2, PlaceGrows
  <2>3. <<r, r>> \in d.file
        BY <1>6 DEF IsConfig, IsOrder
  <2> QED BY <2>1, <2>2, <2>3 DEF Before
<1> QED BY <1>4, <1>6, <1>7, <1>8

(* A new section, behind the others in the file. *)
LEMMA WithRuleIs ==
    ASSUME NEW c, Shaped(c), IsConfig(c), NEW r \in Rules \ Sections(c), NEW rec \in RuleRecord,
           NEW d, d = WithRule(c, r, rec)
    PROVE  /\ Shaped(d) /\ IsConfig(d) /\ Sections(d) = Sections(c) \cup {r}
           /\ d.rule[r] = rec
           /\ \A x \in Sections(c) : d.rule[x] = c.rule[x]
           /\ d.priority[r] = 0 /\ \A x \in Sections(c) : d.priority[x] = c.priority[x]
           /\ d.member = c.member /\ d.exempt = c.exempt
<1> DEFINE rs == [x \in DOMAIN c.rule \cup {r} |-> IF x = r THEN rec ELSE c.rule[x]]
           f == Then(c.file, {<<r, r>>})
           p == [c.priority EXCEPT ![r] = 0]
<1>1. d = [c EXCEPT !.rule = rs, !.file = f, !.priority = p]
      BY DEF WithRule
<1>2. /\ DOMAIN rs = Sections(c) \cup {r} /\ rs[r] = rec
      /\ \A x \in Sections(c) : rs[x] = c.rule[x]
      BY DEF Sections
<1>3. \A x \in DOMAIN rs : rs[x] \in RuleRecord
      BY <1>2 DEF Shaped, Sections
<1>4. IsOrder(f, Sections(c) \cup {r})
  <2>1. IsOrder(c.file, Sections(c)) /\ r \notin Sections(c)
        BY DEF IsConfig
  <2> QED BY <2>1, EndsOrder
<1>10. /\ p \in [Rules -> Positions]
       /\ p[r] = 0 /\ \A x \in Sections(c) : p[x] = c.priority[x]
  <2>1. 0 \in Positions
        BY RulesAssumption, FS_CardinalityType DEF Positions
  <2>2. c.priority \in [Rules -> Positions]
        BY DEF IsConfig
  <2>3. p \in [Rules -> Positions] /\ p[r] = 0
        BY <2>1, <2>2
  <2>4. \A x \in Sections(c) : x # r /\ x \in Rules
        BY DEF IsConfig
  <2> QED BY <2>2, <2>3, <2>4
<1> HIDE DEF rs, f, p
<1>5. d = [rule |-> rs, file |-> f, priority |-> p,
           member |-> c.member, exempt |-> c.exempt]
      BY <1>1 DEF Shaped
<1>6. /\ d.rule = rs /\ d.file = f /\ d.priority = p
      /\ d.member = c.member /\ d.exempt = c.exempt
      BY <1>5
<1>7. Shaped(d)
      BY <1>3, <1>5, <1>6 DEF Shaped
<1>8. Sections(d) = Sections(c) \cup {r}
      BY <1>2, <1>6 DEF Sections
<1>9. IsConfig(d)
      BY <1>3, <1>4, <1>6, <1>8, <1>10 DEF IsConfig, Sections
<1> QED BY <1>2, <1>6, <1>7, <1>8, <1>9, <1>10

(* Rules that go leave the others in order. *)
LEMMA WithoutRulesIs ==
    ASSUME NEW c, Shaped(c), IsConfig(c), NEW R, NEW d, d = WithoutRules(c, R)
    PROVE  /\ Shaped(d) /\ IsConfig(d) /\ Sections(d) = Sections(c) \ R
           /\ \A x \in Sections(d) : d.rule[x] = c.rule[x]
           /\ \A x, y \in Sections(d) : Before(d, x, y) <=> Before(c, x, y)
<1> DEFINE rs == [x \in DOMAIN c.rule \ R |-> c.rule[x]]
           f == Within(c.file, Sections(c) \ R)
           p == [x \in Rules |-> IF x \in R THEN 0 ELSE c.priority[x]]
<1>1. d = [c EXCEPT !.rule = rs, !.file = f, !.priority = p]
      BY DEF WithoutRules
<1>2. /\ DOMAIN rs = Sections(c) \ R
      /\ \A x \in Sections(c) \ R : rs[x] = c.rule[x]
      BY DEF Sections
<1>3. \A x \in DOMAIN rs : rs[x] \in RuleRecord
      BY <1>2 DEF Shaped, Sections
<1>4. IsOrder(f, Sections(c) \ R)
      BY WithinOrder DEF IsConfig
<1>5. \A x, y \in Sections(c) \ R : <<x, y>> \in f <=> <<x, y>> \in c.file
      BY DEF Within
<1>6. p \in [Rules -> Positions]
  <2>1. c.priority \in [Rules -> Positions]
        BY DEF IsConfig
  <2>2. 0 \in Positions
        BY RulesAssumption, FS_CardinalityType DEF Positions
  <2> QED BY <2>1, <2>2
<1>7. \A x \in Sections(c) \ R : p[x] = c.priority[x]
      BY DEF IsConfig
<1> HIDE DEF rs, f, p
<1>8. d = [rule |-> rs, file |-> f, priority |-> p,
           member |-> c.member, exempt |-> c.exempt]
      BY <1>1 DEF Shaped
<1>9. /\ d.rule = rs /\ d.file = f /\ d.priority = p
      /\ d.member = c.member /\ d.exempt = c.exempt
      BY <1>8
<1>10. Shaped(d)
       BY <1>3, <1>8, <1>9 DEF Shaped
<1>11. Sections(d) = Sections(c) \ R
       BY <1>2, <1>9 DEF Sections
<1>12. Sections(c) \ R \subseteq Rules
       BY DEF IsConfig
<1>13. IsConfig(d)
       BY <1>3, <1>4, <1>6, <1>9, <1>11, <1>12 DEF IsConfig, Sections
<1>14. \A x, y \in Sections(d) : Before(d, x, y) <=> Before(c, x, y)
       BY <1>5, <1>7, <1>9, <1>11 DEF Before
<1> QED BY <1>2, <1>9, <1>10, <1>11, <1>13, <1>14

(* Adding a rule at either end numbers all rules and leaves the others in order. *)
LEMMA InsertIs ==
    ASSUME NEW c, Shaped(c), IsConfig(c), NEW r \in Rules \ Sections(c), NEW rec \in RuleRecord,
           NEW position, NEW d, d = Insert(c, r, rec, position)
    PROVE  /\ Shaped(d) /\ IsConfig(d) /\ Sections(d) = Sections(c) \cup {r}
           /\ d.rule[r] = rec
           /\ \A x \in Sections(c) : d.rule[x] = c.rule[x]
           /\ d.exempt = c.exempt
           /\ \A x \in Sections(d) : d.priority[x] # 0
           /\ \A x, y \in Sections(c) : Before(d, x, y) <=> Before(c, x, y)
<1>1. PICK w : w = WithRule(c, r, rec)
      OBVIOUS
<1>2. /\ Shaped(w) /\ IsConfig(w) /\ Sections(w) = Sections(c) \cup {r}
      /\ w.rule[r] = rec
      /\ \A x \in Sections(c) : w.rule[x] = c.rule[x]
      /\ w.member = c.member /\ w.exempt = c.exempt
      BY <1>1, WithRuleIs
<1>3. PICK o : o = IF position = "top" THEN Then({<<r, r>>}, Sorted(c))
                                       ELSE Then(Sorted(c), {<<r, r>>})
      OBVIOUS
<1>4. d = Renumber(w, o)
      BY <1>1, <1>3 DEF Insert
<1>5. IsOrder(Sorted(c), Sections(c))
      BY SortedOrder
<1>6. /\ IsOrder(o, Sections(c) \cup {r})
      /\ \A x, y \in Sections(c) : <<x, y>> \in o <=> <<x, y>> \in Sorted(c)
  <2>1. r \notin Sections(c)
        OBVIOUS
  <2>2. /\ IsOrder(Then(Sorted(c), {<<r, r>>}), Sections(c) \cup {r})
        /\ IsOrder(Then({<<r, r>>}, Sorted(c)), Sections(c) \cup {r})
        /\ \A x, y \in Sections(c) :
              /\ <<x, y>> \in Then(Sorted(c), {<<r, r>>}) <=> <<x, y>> \in Sorted(c)
              /\ <<x, y>> \in Then({<<r, r>>}, Sorted(c)) <=> <<x, y>> \in Sorted(c)
        BY <1>5, <2>1, EndsOrder
  <2> QED BY <1>3, <2>2
<1>7. IsOrder(o, Sections(w))
      BY <1>2, <1>6
<1>8. /\ IsConfig(d) /\ d.rule = w.rule /\ d.exempt = w.exempt
      /\ \A x \in Sections(w) : d.priority[x] # 0
      /\ \A x, y \in Sections(w) : Before(d, x, y) <=> <<x, y>> \in o
      BY <1>2, <1>4, <1>7, Renumbered
<1>9. Shaped(d)
      BY <1>2, <1>4, <1>7, RenumberShaped
<1>10. \A x, y \in Sections(c) : <<x, y>> \in Sorted(c) <=> Before(c, x, y)
       BY DEF Sorted
<1>11. Sections(d) = Sections(w)
       BY <1>8 DEF Sections
<1> QED BY <1>2, <1>6, <1>8, <1>9, <1>10, <1>11

(* Rules that only change keep their order and priorities. *)
LEMMA ChangedRulesIs ==
    ASSUME NEW c, Shaped(c), IsConfig(c), NEW rs, DOMAIN rs = Sections(c),
           \A r \in DOMAIN rs : rs[r] \in RuleRecord,
           NEW d, d = [c EXCEPT !.rule = rs]
    PROVE  /\ Shaped(d) /\ IsConfig(d) /\ Sections(d) = Sections(c)
           /\ d.rule = rs /\ d.priority = c.priority
           /\ \A r, s : Before(d, r, s) <=> Before(c, r, s)
<1>1. d = [rule |-> rs, file |-> c.file, priority |-> c.priority,
           member |-> c.member, exempt |-> c.exempt]
      BY DEF Shaped
<1>2. /\ d.rule = rs /\ d.file = c.file /\ d.priority = c.priority
      /\ d.member = c.member /\ d.exempt = c.exempt
      BY <1>1
<1>3. Shaped(d)
      BY <1>1, <1>2 DEF Shaped
<1>4. Sections(d) = Sections(c)
      BY <1>2 DEF Sections
<1>5. IsConfig(d)
      BY <1>2, <1>4 DEF IsConfig, Sections
<1> QED BY <1>2, <1>3, <1>4, <1>5 DEF Before

(* So do other groups. *)
LEMMA ChangedGroupsIs ==
    ASSUME NEW c, Shaped(c), IsConfig(c), NEW m, DOMAIN m \subseteq Groups,
           \A g \in DOMAIN m : m[g] \subseteq Members,
           NEW d, d = [c EXCEPT !.member = m]
    PROVE  /\ Shaped(d) /\ IsConfig(d)
           /\ d.rule = c.rule /\ d.priority = c.priority
           /\ \A r, s : Before(d, r, s) <=> Before(c, r, s)
<1>1. d = [rule |-> c.rule, file |-> c.file, priority |-> c.priority,
           member |-> m, exempt |-> c.exempt]
      BY DEF Shaped
<1>2. /\ d.rule = c.rule /\ d.file = c.file /\ d.priority = c.priority
      /\ d.member = m /\ d.exempt = c.exempt
      BY <1>1
<1>3. Shaped(d)
      BY <1>1, <1>2 DEF Shaped
<1>4. IsConfig(d)
      BY <1>2 DEF IsConfig, Sections
<1> QED BY <1>2, <1>3, <1>4 DEF Before

(* Nothing configured, a migration's memory when none runs. *)
LEMMA EmptyIs == Shaped(Empty) /\ IsConfig(Empty) /\ Sections(Empty) = {}
<1>1. Sections(Empty) = {} /\ DOMAIN Empty.member = {}
      BY DEF Empty, Sections
<1>2. Shaped(Empty)
      BY DEF Empty, Shaped
<1>3. 0 \in Positions
      BY RulesAssumption, FS_CardinalityType DEF Positions
<1>4. Empty.priority \in [Rules -> Positions]
      BY <1>3 DEF Empty
<1>5. IsOrder(Empty.file, {})
      BY EmptyOrder DEF Empty
<1>6. Empty.exempt \in Seq({"address", "text"})
      BY DEF Empty
<1> QED BY <1>1, <1>2, <1>4, <1>5, <1>6 DEF IsConfig

-----------------------------------------------------------------------------
(* EvenlyNumbered: but for the rules written by hand since, none of which has *)
(* a priority, a configuration is numbered as a whole or not at all.  A      *)
(* migration knows every rule it has in memory, as one it made or one it     *)
(* found, and found none made of an exemption unless an earlier one of the   *)
(* same configuration was ended.                                             *)
EvenlyNumbered(c, w) ==
    /\ \A r \in w : r \in Sections(c) /\ c.priority[r] = 0
    /\ \/ \A r \in Sections(c) \ w : c.priority[r] = 0
       \/ \A r \in Sections(c) \ w : c.priority[r] # 0

Underway ==
    mig = "exempt" =>
        /\ Named(order) \cap Named(listed) = {}
        /\ Sections(work) = Named(order) \cup Named(listed)
        /\ \A r \in Named(order) : /\ work.rule[r].kind \in {"managed", "raw"}
                                   /\ work.rule[r].origin = "exemption"
        /\ kills = 0 => \A r \in Named(listed) : work.rule[r].origin # "exemption"

NoneMade ==
    mig = "off" /\ kills = 0 =>
        \A r \in Sections(conf) : conf.rule[r].origin # "exemption"

OrderIInv ==
    /\ TypeOK /\ Shaped(conf) /\ Shaped(work)
    /\ EvenlyNumbered(conf, written)
    /\ Underway /\ NoneMade

(* What a call of the API saves, without a migration.                         *)
LEMMA SavedIInv ==
    ASSUME OrderIInv, NEW d, NEW w \in SUBSET Rules, Save(d, w),
           Shaped(d), IsConfig(d), EvenlyNumbered(d, w),
           \A r \in Sections(d) : \/ d.rule[r].origin # "exemption"
                                  \/ r \in Sections(conf) /\ d.rule[r].origin = conf.rule[r].origin
    PROVE  OrderIInv'
<1>1. /\ mig = "off" /\ mig' = mig /\ kills' = kills /\ work' = work
      /\ order' = order /\ listed' = listed /\ conf' = d /\ written' = w
      BY DEF Save
<1>2. TypeOK' /\ Shaped(conf)' /\ Shaped(work)' /\ EvenlyNumbered(conf, written)'
      BY <1>1 DEF OrderIInv, TypeOK
<1>3. Underway'
      BY <1>1 DEF Underway
<1>4. NoneMade'
      BY <1>1 DEF NoneMade, OrderIInv
<1> QED BY <1>2, <1>3, <1>4 DEF OrderIInv

KeepsOrder == \A r, s \in Sections(conf) \cap Sections(conf') :
                  Before(conf, r, s) <=> Before(conf', r, s)

(* A call on one rule or group keeps the invariant and the others' order. *)
LEMMA EditOrder ==
    ASSUME OrderIInv, Edit
    PROVE  OrderIInv' /\ KeepsOrder
<1>1. Shaped(conf) /\ IsConfig(conf) /\ EvenlyNumbered(conf, written) /\ written \subseteq Rules
      BY DEF OrderIInv, TypeOK
<1>2. ASSUME NEW r \in Rules, NEW on \in BOOLEAN, NEW all \in BOOLEAN,
             NEW gs \in SUBSET Groups, NEW position, AddRule(r, on, gs, all, position)
      PROVE  OrderIInv' /\ KeepsOrder
  <2>1. PICK rec, d : /\ rec = Rule("managed", on, gs, all, "user")
                      /\ d = Insert(conf, r, rec, position)
        OBVIOUS
  <2>2. rec \in RuleRecord /\ rec.origin = "user"
        BY <2>1, RuleIsRecord DEF Kinds, Origins, Rule
  <2>3. r \in Rules \ Sections(conf) /\ Save(d, {}) /\ conf' = d
        BY <1>2, <2>1 DEF AddRule, Save
  <2>4. /\ Shaped(d) /\ IsConfig(d) /\ Sections(d) = Sections(conf) \cup {r}
        /\ d.rule[r] = rec
        /\ \A x \in Sections(conf) : d.rule[x] = conf.rule[x]
        /\ \A x \in Sections(d) : d.priority[x] # 0
        /\ \A x, y \in Sections(conf) : Before(d, x, y) <=> Before(conf, x, y)
        BY <1>1, <2>1, <2>2, <2>3, InsertIs
  <2>5. OrderIInv'
        BY <2>2, <2>3, <2>4, SavedIInv DEF EvenlyNumbered
  <2> QED BY <2>3, <2>4, <2>5 DEF KeepsOrder
<1>3. ASSUME NEW r \in Sections(conf), NEW rec \in RuleRecord, rec.origin = conf.rule[r].origin,
             NEW d, d = [conf EXCEPT !.rule = [conf.rule EXCEPT ![r] = rec]],
             Save(d, written)
      PROVE  OrderIInv' /\ KeepsOrder
  <2>1. PICK rs : rs = [conf.rule EXCEPT ![r] = rec]
        OBVIOUS
  <2>2. DOMAIN rs = Sections(conf) /\ \A x \in DOMAIN rs : /\ rs[x] \in RuleRecord
                                                           /\ rs[x].origin = conf.rule[x].origin
        BY <1>1, <1>3, <2>1 DEF Sections, Shaped
  <2>3. d = [conf EXCEPT !.rule = rs]
        BY <1>3, <2>1
  <2>4. /\ Shaped(d) /\ IsConfig(d) /\ Sections(d) = Sections(conf)
        /\ d.rule = rs /\ d.priority = conf.priority
        /\ \A x, y : Before(d, x, y) <=> Before(conf, x, y)
        BY <1>1, <2>2, <2>3, ChangedRulesIs
  <2>5. EvenlyNumbered(d, written)
        BY <1>1, <2>4 DEF EvenlyNumbered
  <2>6. OrderIInv' /\ conf' = d
        BY <1>1, <1>3, <2>2, <2>4, <2>5, SavedIInv DEF Save
  <2> QED BY <2>4, <2>6 DEF KeepsOrder
<1>4. ASSUME NEW r \in Rules, NEW on \in BOOLEAN, NEW all \in BOOLEAN,
             NEW gs \in SUBSET Groups, EditRule(r, on, gs, all)
      PROVE  OrderIInv' /\ KeepsOrder
  <2>1. r \in Sections(conf) /\ conf.rule[r] \in RuleRecord
        BY <1>1, <1>4 DEF EditRule, Sections, Shaped
  <2>2. PICK rec : rec = [[[conf.rule[r] EXCEPT !.on = on] EXCEPT !.groups = gs] EXCEPT !.all = all]
        OBVIOUS
  <2>3. rec \in RuleRecord /\ rec.origin = conf.rule[r].origin
        BY <2>1, <2>2 DEF RuleRecord
  <2>4. PICK d : d = [conf EXCEPT !.rule = [conf.rule EXCEPT ![r] = rec]]
        OBVIOUS
  <2>5. d = [conf EXCEPT !.rule[r].on = on, !.rule[r].groups = gs, !.rule[r].all = all]
        BY <1>1, <2>1, <2>2, <2>4 DEF Shaped
  <2>6. Save(d, written)
        BY <1>4, <2>5 DEF EditRule
  <2> QED BY <1>3, <2>1, <2>3, <2>4, <2>6
<1>5. ASSUME NEW r \in Rules, NEW on \in BOOLEAN, SwitchRule(r, on)
      PROVE  OrderIInv' /\ KeepsOrder
  <2>1. r \in Sections(conf) /\ conf.rule[r] \in RuleRecord
        BY <1>1, <1>5 DEF SwitchRule, Sections, Shaped
  <2>2. PICK rec : rec = [conf.rule[r] EXCEPT !.on = on]
        OBVIOUS
  <2>3. rec \in RuleRecord /\ rec.origin = conf.rule[r].origin
        BY <2>1, <2>2 DEF RuleRecord
  <2>4. PICK d : d = [conf EXCEPT !.rule = [conf.rule EXCEPT ![r] = rec]]
        OBVIOUS
  <2>5. d = [conf EXCEPT !.rule[r].on = on]
        BY <2>2, <2>4
  <2>6. Save(d, written)
        BY <1>5, <2>5 DEF SwitchRule
  <2> QED BY <1>3, <2>1, <2>3, <2>4, <2>6
<1>6. ASSUME NEW r \in Rules, DeleteRule(r)
      PROVE  OrderIInv' /\ KeepsOrder
  <2>1. PICK e : e = WithoutRules(conf, {r})
        OBVIOUS
  <2>2. PICK o, d : o = Sorted(e) /\ d = Renumber(e, o)
        OBVIOUS
  <2>3. Save(d, {}) /\ conf' = d
        BY <1>6, <2>1, <2>2 DEF DeleteRule, Erase, Save
  <2>4. /\ Shaped(e) /\ IsConfig(e) /\ Sections(e) = Sections(conf) \ {r}
        /\ \A x \in Sections(e) : e.rule[x] = conf.rule[x]
        /\ \A x, y \in Sections(e) : Before(e, x, y) <=> Before(conf, x, y)
        BY <1>1, <2>1, WithoutRulesIs
  <2>5. /\ IsOrder(o, Sections(e))
        /\ \A x, y \in Sections(e) : <<x, y>> \in o <=> Before(e, x, y)
        BY <2>2, <2>4, SortedOrder DEF Sorted
  <2>6. /\ IsConfig(d) /\ d.rule = e.rule
        /\ \A x \in Sections(e) : d.priority[x] # 0
        /\ \A x, y \in Sections(e) : Before(d, x, y) <=> <<x, y>> \in o
    <3>1. Shaped(e) /\ IsConfig(e) /\ IsOrder(o, Sections(e)) /\ d = Renumber(e, o)
          BY <2>2, <2>4, <2>5
    <3> QED BY <3>1, Renumbered
  <2>7. Shaped(d)
        BY <2>2, <2>4, RenumberShaped
  <2>8. Sections(d) = Sections(e)
        BY <2>6 DEF Sections
  <2>9. EvenlyNumbered(d, {})
        BY <2>6, <2>8 DEF EvenlyNumbered
  <2>10. OrderIInv'
         BY <2>3, <2>4, <2>6, <2>7, <2>8, <2>9, SavedIInv
  <2> QED BY <2>3, <2>4, <2>5, <2>6, <2>8, <2>10 DEF KeepsOrder
<1>7. ASSUME NEW m, DOMAIN m \subseteq Groups, \A g \in DOMAIN m : m[g] \subseteq Members,
             NEW d, d = [conf EXCEPT !.member = m], Save(d, written)
      PROVE  OrderIInv' /\ KeepsOrder
  <2>1. /\ Shaped(d) /\ IsConfig(d)
        /\ d.rule = conf.rule /\ d.priority = conf.priority
        /\ \A r, s : Before(d, r, s) <=> Before(conf, r, s)
        BY <1>1, <1>7, ChangedGroupsIs
  <2>2. Sections(d) = Sections(conf) /\ EvenlyNumbered(d, written)
        BY <1>1, <2>1 DEF Sections, EvenlyNumbered
  <2>3. OrderIInv' /\ conf' = d
        BY <1>1, <1>7, <2>1, <2>2, SavedIInv DEF Save, Sections
  <2> QED BY <2>1, <2>3 DEF KeepsOrder
<1>8. ASSUME NEW g \in Groups, DeleteGroup(g)
      PROVE  OrderIInv' /\ KeepsOrder
  <2>1. PICK m : m = [h \in DOMAIN conf.member \ {g} |-> conf.member[h]]
        OBVIOUS
  <2>2. DOMAIN m \subseteq Groups /\ \A h \in DOMAIN m : m[h] \subseteq Members
        BY <1>1, <2>1 DEF IsConfig
  <2>3. PICK d : d = [conf EXCEPT !.member = m]
        OBVIOUS
  <2>4. Save(d, written)
        BY <1>8, <2>1, <2>3 DEF DeleteGroup
  <2> QED BY <1>7, <2>2, <2>3, <2>4
<1>9. ASSUME NEW g \in Groups, NEW ms \in SUBSET Members, SaveGroup(g, ms)
      PROVE  OrderIInv' /\ KeepsOrder
  <2>1. PICK m : m = [h \in DOMAIN conf.member \cup {g} |-> IF h = g THEN ms ELSE conf.member[h]]
        OBVIOUS
  <2>2. DOMAIN m \subseteq Groups /\ \A h \in DOMAIN m : m[h] \subseteq Members
        BY <1>1, <2>1 DEF IsConfig
  <2>3. PICK d : d = [conf EXCEPT !.member = m]
        OBVIOUS
  <2>4. Save(d, written)
        BY <1>9, <2>1, <2>3 DEF SaveGroup
  <2> QED BY <1>7, <2>2, <2>3, <2>4
<1> QED BY <1>2, <1>4, <1>5, <1>6, <1>8, <1>9 DEF Edit

-----------------------------------------------------------------------------
(* order_rules.                                                               *)
LEMMA OrderRulesOrder ==
    ASSUME OrderIInv, NEW o, OrderRules(o)
    PROVE  OrderIInv'
<1>1. Shaped(conf) /\ IsConfig(conf)
      BY DEF OrderIInv, TypeOK
<1>2. PICK d : d = Renumber(conf, o)
      OBVIOUS
<1>3. Save(d, {}) /\ IsOrder(o, Sections(conf))
      BY <1>2 DEF OrderRules
<1>4. /\ IsConfig(d) /\ d.rule = conf.rule
      /\ \A r \in Sections(conf) : d.priority[r] # 0
      BY <1>1, <1>2, <1>3, Renumbered
<1>5. Shaped(d) /\ Sections(d) = Sections(conf)
      BY <1>1, <1>2, <1>4, RenumberShaped DEF Sections
<1>6. EvenlyNumbered(d, {})
      BY <1>4, <1>5 DEF EvenlyNumbered
<1> QED BY <1>3, <1>4, <1>5, <1>6, SavedIInv

(* A rule written by hand has no priority and takes none from the others.     *)
LEMMA WriteRuleOrder ==
    ASSUME OrderIInv, NEW r \in Rules, WriteRule(r)
    PROVE  OrderIInv'
<1>1. /\ Shaped(conf) /\ IsConfig(conf) /\ EvenlyNumbered(conf, written)
      /\ written \subseteq Rules /\ r \in Rules \ Sections(conf)
      BY DEF OrderIInv, TypeOK, WriteRule
<1>2. PICK rec : rec = Rule("raw", TRUE, {}, FALSE, "user")
      OBVIOUS
<1>3. rec \in RuleRecord /\ rec.origin = "user"
      BY <1>2, RuleIsRecord DEF Kinds, Origins, Rule
<1>4. PICK d : d = WithRule(conf, r, rec)
      OBVIOUS
<1>5. PICK w : w = written \cup {r}
      OBVIOUS
<1>6. Save(d, w) /\ w \subseteq Rules
      BY <1>1, <1>2, <1>5, <1>4 DEF WriteRule
<1>7. /\ Shaped(d) /\ IsConfig(d) /\ Sections(d) = Sections(conf) \cup {r}
      /\ d.rule[r] = rec
      /\ \A x \in Sections(conf) : d.rule[x] = conf.rule[x]
      /\ d.priority[r] = 0 /\ \A x \in Sections(conf) : d.priority[x] = conf.priority[x]
      BY <1>1, <1>3, <1>4, WithRuleIs
<1>8. EvenlyNumbered(d, w)
      BY <1>1, <1>5, <1>7 DEF EvenlyNumbered
<1> QED BY <1>3, <1>6, <1>7, <1>8, SavedIInv

(* A restored configuration has no priority and nothing migrated.            *)
LEMMA RestoreOrder ==
    ASSUME OrderIInv, NEW o \in OldConfigs, NEW S \in SUBSET Rules, NEW file \in Orders[S],
           Restore(o, S, file)
    PROVE  OrderIInv'
<1> DEFINE kind(r) == o.rules[Place(file, r)]
<1>1. IsOrder(file, S)
      BY DEF Orders
<1>2. o.rules \in Seq({"legacy", "qos", "idle", "raw"}) /\ Len(o.rules) = Cardinality(S)
      BY OldAssumption DEF Restore
<1>3. \A r \in S : Place(file, r) \in 1..Len(o.rules)
      BY <1>1, <1>2, PlaceType
<1>4. \A r \in S : kind(r) \in {"legacy", "qos", "idle", "raw"}
      BY <1>2, <1>3
<1>5. PICK rs : rs = [r \in S |-> Rule(kind(r), TRUE, {}, FALSE,
                                       IF kind(r) = "raw" THEN "user" ELSE "legacy")]
      OBVIOUS
<1>6. DOMAIN rs = S
      BY <1>5
<1>7. \A r \in S : rs[r] \in RuleRecord
      BY <1>4, <1>5, RuleIsRecord DEF Kinds, OldKinds, Origins
<1>8. \A r \in S : rs[r].origin # "exemption"
      BY <1>4, <1>5 DEF Rule
<1>9. PICK p : p = [r \in Rules |-> 0]
      OBVIOUS
<1>10. conf' = [rule |-> rs, file |-> file, priority |-> p, member |-> <<>>, exempt |-> o.exempt]
       BY <1>5, <1>9 DEF Restore
<1>11. /\ mig = "off" /\ mig' = mig /\ kills' = 0 /\ work' = work
       /\ order' = order /\ listed' = listed /\ written' = {}
       BY DEF Restore
<1>12. /\ conf'.rule = rs /\ conf'.file = file /\ conf'.priority = p
       /\ conf'.member = <<>> /\ conf'.exempt = o.exempt
       BY <1>10
<1>13. Shaped(conf)'
       BY <1>6, <1>7, <1>10, <1>12 DEF Shaped
<1>14. Sections(conf)' = S
       BY <1>6, <1>12 DEF Sections
<1>15. IsConfig(conf)'
  <2>1. 0 \in Positions
        BY RulesAssumption, FS_CardinalityType DEF Positions
  <2>2. p \in [Rules -> Positions]
        BY <1>9, <2>1
  <2>3. o.exempt \in Seq({"address", "text"})
        BY OldAssumption
  <2>4. DOMAIN conf'.member = {}
        BY <1>12
  <2> QED BY <1>1, <1>6, <1>7, <1>12, <1>14, <2>2, <2>3, <2>4 DEF IsConfig, Sections
<1>16. TypeOK'
       BY <1>11, <1>15, KillsAssumption DEF OrderIInv, TypeOK
<1>17. EvenlyNumbered(conf, written)'
  <2>1. S \subseteq Rules
        OBVIOUS
  <2>2. \A x \in S : p[x] = 0
        BY <1>9, <2>1
  <2> QED BY <1>11, <1>12, <1>14, <2>2 DEF EvenlyNumbered
<1>18. Underway' /\ NoneMade'
       BY <1>6, <1>8, <1>11, <1>12 DEF Underway, NoneMade, Sections
<1> QED BY <1>11, <1>13, <1>16, <1>17, <1>18 DEF OrderIInv

-----------------------------------------------------------------------------
(* The steps of a migration.                                                 *)
LEMMA BeginOrder ==
    ASSUME OrderIInv, Begin
    PROVE  OrderIInv'
<1>1. /\ mig = "off" /\ mig' = "exempt" /\ work' = conf /\ listed' = conf.file
      /\ order' = {} /\ conf' = conf /\ kills' = kills /\ written' = written
      BY DEF Begin
<1>2. Shaped(conf) /\ IsConfig(conf)
      BY DEF OrderIInv, TypeOK
<1>3. /\ Named(listed') = Sections(conf) /\ Named(order') = {}
      /\ IsOrder(listed', Sections(conf)) /\ IsOrder(order', {})
      BY <1>1, <1>2, OrderNames, EmptyOrder DEF IsConfig
<1>4. TypeOK'
      BY <1>1, <1>2, <1>3 DEF OrderIInv, TypeOK, IsConfig
<1>5. Underway'
      BY <1>1, <1>3 DEF OrderIInv, NoneMade, Underway
<1>6. NoneMade'
      BY <1>1 DEF NoneMade
<1> QED BY <1>1, <1>2, <1>4, <1>5, <1>6 DEF OrderIInv

(* A rule made of an exemption joins those made before. *)
LEMMA MigrateExemptionOrder ==
    ASSUME OrderIInv, NEW r \in Rules, MigrateExemption(r)
    PROVE  OrderIInv'
<1>1. /\ mig = "exempt" /\ work.exempt # <<>> /\ r \notin Sections(work)
      /\ order' = Then(order, {<<r, r>>})
      /\ mig' = mig /\ listed' = listed /\ kills' = kills
      BY DEF MigrateExemption
<1>2. /\ Shaped(work) /\ IsConfig(work) /\ Shaped(conf) /\ IsConfig(conf)
      /\ EvenlyNumbered(conf, written) /\ Underway
      BY DEF OrderIInv, TypeOK
<1>3. PICK rest : rest = [work EXCEPT !.exempt = Tail(work.exempt)]
      OBVIOUS
<1>4. Shaped(rest) /\ IsConfig(rest) /\ rest.rule = work.rule /\ Sections(rest) = Sections(work)
  <2>1. PICK t : t = Tail(work.exempt)
        OBVIOUS
  <2>2. t \in Seq({"address", "text"})
        BY <1>1, <1>2, <2>1 DEF IsConfig
  <2>3. rest = [rule |-> work.rule, file |-> work.file, priority |-> work.priority,
                member |-> work.member, exempt |-> t]
        BY <1>2, <1>3, <2>1 DEF Shaped
  <2>4. /\ rest.rule = work.rule /\ rest.file = work.file /\ rest.priority = work.priority
        /\ rest.member = work.member /\ rest.exempt = t
        BY <2>3
  <2> QED BY <1>2, <2>2, <2>3, <2>4 DEF Shaped, IsConfig, Sections
<1>5. \E rec \in RuleRecord :
         /\ rec.kind \in {"managed", "raw"} /\ rec.origin = "exemption"
         /\ \/ work' = Insert(rest, r, rec, "bottom") /\ conf' = work' /\ written' = {}
            \/ work' = WithRule(rest, r, rec) /\ conf' = conf /\ written' = written
  <2>1. PICK a, b : /\ a = Rule("managed", TRUE, {}, TRUE, "exemption")
                    /\ b = Rule("raw", TRUE, {}, FALSE, "exemption")
        OBVIOUS
  <2>2. a \in RuleRecord /\ b \in RuleRecord
        BY <2>1, RuleIsRecord DEF Kinds, Origins
  <2>3. a.kind = "managed" /\ b.kind = "raw" /\ a.origin = "exemption" /\ b.origin = "exemption"
        BY <2>1 DEF Rule
  <2>4. \/ work' = Insert(rest, r, a, "bottom") /\ conf' = work' /\ written' = {}
        \/ work' = WithRule(rest, r, b) /\ conf' = conf /\ written' = written
        BY <1>3, <2>1 DEF MigrateExemption
  <2> QED BY <2>2, <2>3, <2>4
<1>6. PICK rec \in RuleRecord :
         /\ rec.kind \in {"managed", "raw"} /\ rec.origin = "exemption"
         /\ \/ work' = Insert(rest, r, rec, "bottom") /\ conf' = work' /\ written' = {}
            \/ work' = WithRule(rest, r, rec) /\ conf' = conf /\ written' = written
      BY <1>5
<1>7. r \in Rules \ Sections(rest)
      BY <1>1, <1>4
<1>8. /\ Shaped(work') /\ IsConfig(work') /\ Sections(work') = Sections(work) \cup {r}
      /\ work'.rule[r] = rec
      /\ \A x \in Sections(work) : work'.rule[x] = work.rule[x]
      /\ Shaped(conf') /\ IsConfig(conf') /\ EvenlyNumbered(conf', written')
      /\ written' \subseteq Rules
  <2>1. CASE work' = Insert(rest, r, rec, "bottom") /\ conf' = work' /\ written' = {}
    <3>1. PICK d : d = work'
          OBVIOUS
    <3>2. /\ Shaped(d) /\ IsConfig(d) /\ Sections(d) = Sections(rest) \cup {r}
          /\ d.rule[r] = rec
          /\ \A x \in Sections(rest) : d.rule[x] = rest.rule[x]
          /\ \A x \in Sections(d) : d.priority[x] # 0
          BY <1>4, <1>7, <2>1, <3>1, InsertIs
    <3>3. EvenlyNumbered(d, {})
          BY <3>2 DEF EvenlyNumbered
    <3> QED BY <1>4, <2>1, <3>1, <3>2, <3>3
  <2>2. CASE work' = WithRule(rest, r, rec) /\ conf' = conf /\ written' = written
    <3>1. PICK d : d = work'
          OBVIOUS
    <3>2. /\ Shaped(d) /\ IsConfig(d) /\ Sections(d) = Sections(rest) \cup {r}
          /\ d.rule[r] = rec
          /\ \A x \in Sections(rest) : d.rule[x] = rest.rule[x]
          BY <1>4, <1>7, <2>2, <3>1, WithRuleIs
    <3>3. written \subseteq Rules
          BY DEF OrderIInv, TypeOK
    <3> QED BY <1>2, <1>4, <2>2, <3>1, <3>2, <3>3
  <2> QED BY <1>6, <2>1, <2>2
<1>9. IsOrder(order, Named(order)) /\ r \notin Named(order)
      BY <1>1, <1>2 DEF OrderIInv, TypeOK, Underway
<1>10. IsOrder(order', Named(order) \cup {r})
       BY <1>1, <1>9, EndsOrder
<1>11. Named(order') = Named(order) \cup {r}
       BY <1>10, OrderNames
<1>12. TypeOK'
  <2>1. Named(order') \subseteq Rules /\ IsOrder(order', Named(order'))
        BY <1>10, <1>11 DEF OrderIInv, TypeOK
  <2> QED BY <1>1, <1>8, <2>1 DEF OrderIInv, TypeOK
<1>13. Underway'
       BY <1>1, <1>2, <1>6, <1>8, <1>11 DEF Underway
<1>14. NoneMade'
       BY <1>1 DEF NoneMade
<1> QED BY <1>8, <1>12, <1>13, <1>14 DEF OrderIInv

(* Whatever is in memory, the result is numbered in the migrated order, which *)
(* has the rules that were made before those that were found.                *)
LEMMA MigrateRulesOrder ==
    ASSUME OrderIInv, MigrateRules
    PROVE  /\ OrderIInv'
           /\ kills = 0 =>
                \A r, s \in Sections(conf') :
                    conf'.rule[r].origin = "exemption" /\ conf'.rule[s].origin = "legacy"
                        => Before(conf', r, s)
<1>1. /\ mig = "exempt" /\ mig' = "rules" /\ conf' = work'
      /\ order' = order /\ listed' = listed /\ kills' = kills /\ written' = {}
      BY DEF MigrateRules
<1>2. /\ Shaped(work) /\ IsConfig(work) /\ Underway
      BY DEF OrderIInv, TypeOK
<1>3. PICK kept : kept = WithoutRules(work, {r \in Sections(work) : work.rule[r].kind \in {"qos", "idle"}})
      OBVIOUS
<1>4. PICK frozen : frozen = [kept EXCEPT !.rule = [r \in DOMAIN kept.rule |-> Frozen(kept.rule[r])]]
      OBVIOUS
<1>5. PICK o : o = MigratedOrder(frozen)
      OBVIOUS
<1>6. work' = Renumber(frozen, o)
      BY <1>3, <1>4, <1>5 DEF MigrateRules
<1>7. PICK R : R = {r \in Sections(work) : work.rule[r].kind \in {"qos", "idle"}}
      OBVIOUS
<1>8. /\ Shaped(kept) /\ IsConfig(kept) /\ Sections(kept) = Sections(work) \ R
      /\ \A x \in Sections(kept) : kept.rule[x] = work.rule[x]
      BY <1>2, <1>3, <1>7, WithoutRulesIs
<1>9. PICK rs : rs = [r \in DOMAIN kept.rule |-> Frozen(kept.rule[r])]
      OBVIOUS
<1>10. /\ DOMAIN rs = Sections(kept)
       /\ \A r \in DOMAIN rs : /\ rs[r] \in RuleRecord
                               /\ rs[r].origin = kept.rule[r].origin
  <2>1. \A r \in DOMAIN kept.rule : kept.rule[r] \in RuleRecord
        BY <1>8 DEF Shaped
  <2>2. \A rec \in RuleRecord : Frozen(rec).origin = rec.origin
        BY DEF Frozen, RuleRecord
  <2> QED BY <1>9, <2>1, <2>2, FrozenRule DEF Sections
<1>11. /\ Shaped(frozen) /\ IsConfig(frozen) /\ Sections(frozen) = Sections(kept)
       /\ frozen.rule = rs
       BY <1>4, <1>8, <1>9, <1>10, ChangedRulesIs
<1>12. /\ IsOrder(order, Named(order)) /\ IsOrder(listed, Named(listed))
       /\ Named(order) \cap Named(listed) = {}
       /\ Sections(work) = Named(order) \cup Named(listed)
       BY <1>1, <1>2 DEF OrderIInv, TypeOK, Underway
<1>13. Named(order) \cap R = {}
       BY <1>1, <1>2, <1>7 DEF Underway
<1>14. PICK T : T = Named(listed) \cap Sections(frozen)
       OBVIOUS
<1>15. Sections(frozen) = Named(order) \cup T /\ Named(order) \cap T = {}
       BY <1>8, <1>11, <1>12, <1>13, <1>14
<1>16. PICK p : p = Within(listed, T)
       OBVIOUS
<1>17. Within(listed, Sections(frozen)) = p
       BY <1>12, <1>14, <1>16 DEF Within, IsOrder
<1>18. IsOrder(p, T)
       BY <1>12, <1>14, <1>16, WithinOrder
<1>19. o = Then(order, p)
       BY <1>5, <1>17 DEF MigratedOrder
<1>20. IsOrder(o, Sections(frozen)) /\ \A r \in Named(order), s \in T : <<r, s>> \in o
       BY <1>12, <1>15, <1>18, <1>19, ThenOrder
<1>21. PICK d : d = work'
       OBVIOUS
<1>22. d = Renumber(frozen, o) /\ Shaped(frozen) /\ IsConfig(frozen)
       BY <1>6, <1>11, <1>21
<1>23. /\ IsConfig(d) /\ d.rule = frozen.rule
       /\ \A r \in Sections(frozen) : d.priority[r] # 0
       /\ \A r, s \in Sections(frozen) : Before(d, r, s) <=> <<r, s>> \in o
       BY <1>20, <1>22, Renumbered
<1>24. Shaped(d) /\ Sections(d) = Sections(frozen)
       BY <1>22, <1>23, RenumberShaped DEF Sections
<1>25. EvenlyNumbered(d, {})
       BY <1>23, <1>24 DEF EvenlyNumbered
<1>26. conf' = d /\ work' = d
       BY <1>1, <1>21
<1>27. OrderIInv'
  <2>1. TypeOK'
        BY <1>1, <1>23, <1>26 DEF OrderIInv, TypeOK
  <2>2. Underway' /\ NoneMade'
        BY <1>1 DEF Underway, NoneMade
  <2> QED BY <1>1, <1>24, <1>25, <1>26, <2>1, <2>2 DEF OrderIInv
<1>28. ASSUME kills = 0, NEW r \in Sections(d), NEW s \in Sections(d),
              d.rule[r].origin = "exemption", d.rule[s].origin = "legacy"
       PROVE  Before(d, r, s)
  <2>1. /\ d.rule[r].origin = work.rule[r].origin /\ d.rule[s].origin = work.rule[s].origin
        BY <1>8, <1>10, <1>11, <1>23, <1>24
  <2>2. r \in Named(order)
        BY <1>1, <1>2, <1>15, <1>24, <1>28, <2>1, <1>14 DEF Underway
  <2>3. s \in T
        BY <1>1, <1>2, <1>15, <1>24, <1>28, <2>1 DEF Underway
  <2> QED BY <1>20, <1>23, <1>24, <2>2, <2>3
<1> QED BY <1>26, <1>27, <1>28

(* Done or ended, it forgets what it had in memory. *)
LEMMA EndOrder ==
    ASSUME OrderIInv, Commit \/ Kill
    PROVE  OrderIInv'
<1>1. Shaped(conf) /\ IsConfig(conf) /\ EvenlyNumbered(conf, written) /\ TypeOK
      BY DEF OrderIInv, TypeOK
<1>2. /\ mig' = "off" /\ work' = Empty /\ order' = {} /\ listed' = {} /\ written' = written
      BY DEF Commit, Kill
<1>3. /\ Shaped(work') /\ IsConfig(work')
      /\ \A o \in {order', listed'} : Named(o) \subseteq Rules /\ IsOrder(o, Named(o))
      BY <1>2, EmptyIs, EmptyOrder
<1>4. Underway'
      BY <1>2 DEF Underway
<1>5. CASE Commit
  <2>1. PICK rs : rs = [r \in DOMAIN conf.rule |-> [conf.rule[r] EXCEPT !.origin = "user"]]
        OBVIOUS
  <2>2. PICK d : d = conf'
        OBVIOUS
  <2>3. d = [conf EXCEPT !.rule = rs] /\ kills' = 0
        BY <1>5, <2>1, <2>2 DEF Commit
  <2>4. /\ DOMAIN rs = Sections(conf)
        /\ \A r \in DOMAIN rs : rs[r] \in RuleRecord /\ rs[r].origin = "user"
        BY <1>1, <2>1 DEF Shaped, Sections, RuleRecord, Origins
  <2>5. /\ Shaped(d) /\ IsConfig(d) /\ Sections(d) = Sections(conf)
        /\ d.rule = rs /\ d.priority = conf.priority
        BY <1>1, <2>3, <2>4, ChangedRulesIs
  <2>6. EvenlyNumbered(d, written)
        BY <1>1, <2>5 DEF EvenlyNumbered
  <2>7. TypeOK'
        BY <1>1, <1>2, <1>3, <2>2, <2>3, <2>5, KillsAssumption DEF TypeOK
  <2>8. NoneMade'
        BY <2>2, <2>4, <2>5 DEF NoneMade
  <2> QED BY <1>3, <1>4, <2>2, <2>5, <2>6, <2>7, <2>8, <1>2 DEF OrderIInv
<1>6. CASE Kill
  <2>1. conf' = conf /\ kills' = kills + 1 /\ kills < MaxKills /\ kills \in 0..MaxKills
        BY <1>1, <1>6 DEF Kill, TypeOK
  <2>2. kills' \in 0..MaxKills /\ kills' # 0
        BY <2>1, KillsAssumption
  <2>3. TypeOK'
        BY <1>1, <1>2, <1>3, <2>1, <2>2 DEF TypeOK
  <2>4. NoneMade'
        BY <2>2 DEF NoneMade
  <2> QED BY <1>1, <1>2, <1>3, <1>4, <2>1, <2>3, <2>4 DEF OrderIInv
<1> QED BY <1>5, <1>6

(* Every step. *)
LEMMA OrderStep ==
    ASSUME OrderIInv, [Next]_vars
    PROVE  OrderIInv'
<1>1. CASE Migrate
      BY <1>1, BeginOrder, MigrateExemptionOrder, MigrateRulesOrder, EndOrder DEF Migrate
<1>2. CASE UNCHANGED vars
      BY <1>2 DEF vars, OrderIInv, TypeOK, Underway, NoneMade
<1> QED BY <1>1, <1>2, EditOrder, OrderRulesOrder, WriteRuleOrder, RestoreOrder, EndOrder DEF Next

(* The order of the rules stays known. *)
LEMMA OrderInvariant == Spec => []OrderIInv
<1>1. Init => OrderIInv
  <2> SUFFICES ASSUME Init PROVE OrderIInv
      OBVIOUS
  <2>1. /\ conf = Empty /\ work = Empty /\ mig = "off" /\ order = {} /\ listed = {} /\ kills = 0
        /\ written = {}
        BY DEF Init
  <2>2. TypeOK
        BY <2>1, EmptyIs, EmptyOrder, KillsAssumption DEF TypeOK
  <2> QED BY <2>1, <2>2, EmptyIs DEF OrderIInv, EvenlyNumbered, Underway, NoneMade
<1> QED BY <1>1, OrderStep, PTL DEF Spec

(* The file stays a list of the rules, priorities and places within their    *)
(* bounds, and every migration has an order for what it knows.               *)
THEOREM DpiTypeCorrect == Spec => []TypeOK
BY OrderInvariant, PTL DEF OrderIInv

(* list_rules never shows a rule behind one that dpi-config has evaluated      *)
(* after it, although the two read a missing priority differently: only a    *)
(* rule written by hand beside numbered ones can be, until they are numbered. *)
THEOREM DpiEvaluatedAsListed == Spec => []EvaluatedAsListed
<1>1. ASSUME OrderIInv, NEW p \in Listed(conf), p[2] \notin written
      PROVE  Level(conf, p[1]) <= Level(conf, p[2])
  <2>1. PICK r, s : r = p[1] /\ s = p[2]
        OBVIOUS
  <2>2. r \in Sections(conf) /\ s \in Sections(conf) \ written /\ Before(conf, r, s)
        BY <1>1, <2>1 DEF Listed, Sorted
  <2>3. conf.priority[r] \in Nat /\ conf.priority[s] \in Nat
        BY <1>1, <2>2 DEF OrderIInv, TypeOK, IsConfig, Positions
  <2>4. conf.priority[r] = 0 => conf.priority[s] = 0
        BY <2>2, <2>3 DEF Before
  <2>5. conf.priority[s] = 0 => conf.priority[r] = 0
        BY <1>1, <2>2 DEF OrderIInv, EvenlyNumbered
  <2>6. Level(conf, r) <= Level(conf, s)
        BY <2>2, <2>3, <2>4, <2>5 DEF Before, Level
  <2> QED BY <2>1, <2>6
<1>2. OrderIInv => EvaluatedAsListed
      BY <1>1 DEF EvaluatedAsListed
<1> QED BY <1>2, OrderInvariant, PTL

(* A call of the API on one rule or group never moves the other rules among  *)
(* each other, hand-written ones without a priority included.                *)
THEOREM DpiOrderKept == Spec => OrderKept
<1>1. OrderIInv /\ [Next]_vars => [Swaps => ~Edit]_vars
      BY EditOrder DEF KeepsOrder, Swaps
<1> QED BY <1>1, OrderInvariant, PTL DEF Spec, OrderKept

(* Whatever the old configuration, a migration that was not ended before puts *)
(* what it made of exemptions before what it made of the old rules.          *)
THEOREM DpiExemptionsShield == Spec => ExemptionsShield
<1>1. OrderIInv /\ [Next]_vars =>
          [MigrateRules /\ kills = 0 =>
              \A r, s \in Sections(conf') :
                  conf'.rule[r].origin = "exemption" /\ conf'.rule[s].origin = "legacy"
                      => Before(conf', r, s)]_vars
      BY MigrateRulesOrder
<1> QED BY <1>1, OrderInvariant, PTL DEF Spec, ExemptionsShield
=============================================================================
