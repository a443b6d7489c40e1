---------------------------------- MODULE Dpi ----------------------------------
(***************************************************************************)
(* The DPI rules and application groups of python3-nethsec/dpi: the        *)
(* operations of the API, what dpi-config emits, and the migration that    *)
(* runs every time the DPI service starts.                                 *)
(*                                                                         *)
(* A configuration is what a process that opens /etc/config/dpi sees: the  *)
(* committed file with the saved changes on top.  The names of rules      *)
(* and groups, the sources of rules and the text of criteria are left out. *)
(***************************************************************************)
EXTENDS Naturals, Sequences, FiniteSets, FiniteSetsExt

CONSTANTS
    Rules,        \* identifiers for rule sections
    Groups,       \* identifiers for application group sections
    Members,      \* applications, protocols and their categories
    OldConfigs,   \* configurations that a restored backup can bring
    MaxKills,     \* bound: how often a migration is ended half way
    MaxWritten    \* bound: hand-written rules that wait for a priority

ASSUME RulesAssumption == IsFiniteSet(Rules)
ASSUME KillsAssumption == MaxKills \in Nat
ASSUME WrittenAssumption == MaxWritten \in Nat
ASSUME OldAssumption ==
    \A o \in OldConfigs :
        /\ o.rules \in Seq({"legacy", "qos", "idle", "raw"})
        /\ o.exempt \in Seq({"address", "text"})

VARIABLES
    conf,     \* the configuration
    mig,      \* where dpi-migrate is: "off", "exempt" or "rules"
    work,     \* the configuration it has in memory
    order,    \* the rules it will renumber, in order
    listed,   \* the rules it found when it began
    kills,    \* history: migrations ended half way, of one restored configuration
    written   \* history: rules written by hand since all were last numbered

vars == <<conf, mig, work, order, listed, kills, written>>

(* "managed": created by the API.  "raw": carries criteria, hand-written or   *)
(* frozen.  The others are of the schema used before groups existed: a       *)
(* "legacy" one blocks something, a "qos" one does not block, an "idle" one  *)
(* matches nothing.                                                          *)
OldKinds == {"legacy", "qos", "idle"}
Kinds == OldKinds \cup {"managed", "raw"}
Origins == {"user", "exemption", "legacy"}

RuleRecord == [kind : Kinds, on : BOOLEAN, groups : SUBSET Groups,
               all : BOOLEAN, origin : Origins]

Rule(kind, on, gs, all, origin) ==
    [kind |-> kind, on |-> on, groups |-> gs, all |-> all, origin |-> origin]

Empty == [rule |-> <<>>, file |-> {}, priority |-> [r \in Rules |-> 0],
          member |-> <<>>, exempt |-> <<>>]

Sections(c) == DOMAIN c.rule
Positions == 0..Cardinality(Rules)

(* A list of rules is kept as an order: the pairs <<r, s>> of its rules where *)
(* r is s or stands before it.                                               *)
IsOrder(o, S) ==
    /\ o \subseteq S \X S
    /\ \A r, s \in S : <<r, s>> \in o <=> r = s \/ <<s, r>> \notin o
    /\ \A r, s, t \in S : <<r, s>> \in o /\ <<s, t>> \in o => <<r, t>> \in o

Orders == [S \in SUBSET Rules |-> {o \in SUBSET (S \X S) : IsOrder(o, S)}]

(* The rules of a list, those of S among them, one list after another, and    *)
(* which of the rules r is, counted from 1.                                   *)
Named(o) == {p[1] : p \in o}
Within(o, S) == o \cap (S \X S)
Then(o, p) == o \cup p \cup (Named(o) \X Named(p))
Place(o, r) == Cardinality({s \in Named(o) : <<s, r>> \in o})

IsConfig(c) ==
    /\ Sections(c) \subseteq Rules
    /\ \A r \in Sections(c) : c.rule[r] \in RuleRecord
    /\ IsOrder(c.file, Sections(c))
    /\ c.priority \in [Rules -> Positions]
    /\ DOMAIN c.member \subseteq Groups
    /\ \A g \in DOMAIN c.member : c.member[g] \subseteq Members
    /\ c.exempt \in Seq({"address", "text"})

TypeOK ==
    /\ IsConfig(conf) /\ IsConfig(work)
    /\ mig \in {"off", "exempt", "rules"}
    /\ \A o \in {order, listed} : Named(o) \subseteq Rules /\ IsOrder(o, Named(o))
    /\ kills \in 0..MaxKills
    /\ written \subseteq Rules

-----------------------------------------------------------------------------
(* __sorted_rules: by priority, the rules without one last, in file order. *)
Before(c, r, s) ==
    \/ c.priority[r] # 0 /\ (c.priority[s] = 0 \/ c.priority[r] < c.priority[s])
    \/ c.priority[r] = c.priority[s] /\ <<r, s>> \in c.file

Sorted(c) == {p \in Sections(c) \X Sections(c) : Before(c, p[1], p[2])}

(* list_rules; the rules it hides (ns_visible '0') are left out.             *)
Listed(c) == Sorted(c)

(* The priority that dpi-config emits.                                       *)
Level(c, r) == IF c.priority[r] = 0 THEN 1 ELSE c.priority[r]

(* Mutant of Renumber: the count goes on from where it was. *)
RenumberOn(c, o) ==
    [c EXCEPT !.priority = [r \in Rules |->
        IF r \in Named(o) THEN Max({@[x] : x \in Rules}) + Place(o, r) ELSE @[r]]]

(* __renumber_rules: priorities 1, 2, ... in the given order. *)
Renumber(c, o) ==
    [c EXCEPT !.priority = [r \in Rules |-> IF r \in Named(o) THEN Place(o, r) ELSE @[r]]]

WithRule(c, r, rec) ==
    [c EXCEPT !.rule = [x \in DOMAIN @ \cup {r} |-> IF x = r THEN rec ELSE @[x]],
              !.file = Then(@, {<<r, r>>}),
              !.priority[r] = 0]

WithoutRules(c, R) ==
    [c EXCEPT !.rule = [x \in DOMAIN @ \ R |-> @[x]],
              !.file = Within(@, Sections(c) \ R),
              !.priority = [x \in Rules |-> IF x \in R THEN 0 ELSE @[x]]]

(* Mutant of Insert: only the new rule gets a priority. *)
InsertUnnumbered(c, r, rec, position) ==
    [WithRule(c, r, rec) EXCEPT
        !.priority[r] = IF position = "top" THEN 1 ELSE Cardinality(Sections(c)) + 1]

(* Mutant of Insert: the order is the file's. *)
InsertByFile(c, r, rec, position) ==
    Renumber(WithRule(c, r, rec),
             IF position = "top" THEN Then({<<r, r>>}, c.file) ELSE Then(c.file, {<<r, r>>}))

(* add_rule once its arguments are valid. *)
Insert(c, r, rec, position) ==
    Renumber(WithRule(c, r, rec),
             IF position = "top" THEN Then({<<r, r>>}, Sorted(c)) ELSE Then(Sorted(c), {<<r, r>>}))

(* delete_rule: the priorities close the gap. *)
Erase(c, r) == LET d == WithoutRules(c, {r}) IN Renumber(d, Sorted(d))

(* expand_appgroups: groups that do not exist are skipped. *)
Expand(c, gs) == UNION {c.member[g] : g \in gs \cap DOMAIN c.member}

(* build_rule_criteria gives the generator something to emit. *)
Matches(c, rec) == Expand(c, rec.groups) # {} \/ rec.all

-----------------------------------------------------------------------------
(* The API.  One call is one process that reads, changes and saves the        *)
(* configuration; calls and migrations that overlap are not modelled.  Of the *)
(* hand-written rules, those of unnumbered are still without a priority.     *)
Save(c, unnumbered) ==
    /\ mig = "off"
    /\ conf' = c
    /\ written' = unnumbered
    /\ UNCHANGED <<mig, work, order, listed, kills>>

(* __validate_appgroups: existing groups, none if and only if match_all. *)
ValidGroups(gs, all) == gs \subseteq DOMAIN conf.member /\ (all <=> gs = {})

AddRule(r, on, gs, all, position) ==
    /\ r \notin Sections(conf)
    /\ ValidGroups(gs, all)
    /\ Save(Insert(conf, r, Rule("managed", on, gs, all, "user"), position), {})

EditRule(r, on, gs, all) ==
    /\ r \in Sections(conf) /\ conf.rule[r].kind = "managed"
    /\ ValidGroups(gs, all)
    /\ Save([conf EXCEPT !.rule[r].on = on, !.rule[r].groups = gs, !.rule[r].all = all],
            written)

DeleteRule(r) == r \in Sections(conf) /\ Save(Erase(conf, r), {})

(* enable_rule, disable_rule *)
SwitchRule(r, on) == r \in Sections(conf) /\ Save([conf EXCEPT !.rule[r].on = on], written)

(* order_rules takes an order that names every rule exactly once. *)
OrderRules(o) == IsOrder(o, Sections(conf)) /\ Save(Renumber(conf, o), {})

(* Mutant of ValidMembers: a group may be empty. *)
AnyMembers(ms) == TRUE

ValidMembers(ms) == ms # {}

(* add_appgroup, edit_appgroup; that names are unique is left out. *)
SaveGroup(g, ms) ==
    /\ ValidMembers(ms)
    /\ Save([conf EXCEPT
          !.member = [h \in DOMAIN @ \cup {g} |-> IF h = g THEN ms ELSE @[h]]],
            written)

(* Mutant of UsedGroup: disabled rules do not count. *)
UsedByEnabled(g) ==
    \E r \in Sections(conf) : conf.rule[r].on /\ g \in conf.rule[r].groups

(* is_used_appgroup *)
UsedGroup(g) == \E r \in Sections(conf) : g \in conf.rule[r].groups

DeleteGroup(g) ==
    /\ g \in DOMAIN conf.member /\ ~UsedGroup(g)
    /\ Save([conf EXCEPT !.member = [h \in DOMAIN @ \ {g} |-> @[h]]], written)

-----------------------------------------------------------------------------
(* An administrator writes a rule of criteria with uci, as before the API had *)
(* rules: a section at the end of the file, without a priority (external).   *)
WriteRule(r) ==
    /\ r \notin Sections(conf) /\ Cardinality(written) < MaxWritten
    /\ Save(WithRule(conf, r, Rule("raw", TRUE, {}, FALSE, "user")), written \cup {r})

(* A backup, or an older HA peer, replaces the file by one of the schema used *)
(* before groups existed (external).                                         *)
Restore(o, S, file) ==
    /\ mig = "off"
    /\ Cardinality(S) = Len(o.rules)
    /\ conf' = [rule |-> [r \in S |->
                    LET k == o.rules[Place(file, r)]
                    IN Rule(k, TRUE, {}, FALSE, IF k = "raw" THEN "user" ELSE "legacy")],
                file |-> file, priority |-> [r \in Rules |-> 0],
                member |-> <<>>, exempt |-> o.exempt]
    /\ kills' = 0 /\ written' = {}
    /\ UNCHANGED <<mig, work, order, listed>>

IsOld(c) == c.exempt # <<>> \/ \E r \in Sections(c) : c.rule[r].kind \in OldKinds

(* The service starts: dpi-migrate, which only goes on when there is          *)
(* something of the old schema.                                              *)
Begin ==
    /\ mig = "off" /\ IsOld(conf)
    /\ mig' = "exempt"
    /\ work' = conf
    /\ listed' = conf.file
    /\ order' = {}
    /\ UNCHANGED <<conf, kills, written>>

(* One exemption, of an address or of other criteria, becomes a rule.  Only   *)
(* the first kind goes through add_rule, which saves all that is in memory.  *)
MigrateExemption(r) ==
    /\ mig = "exempt" /\ work.exempt # <<>>
    /\ r \notin Sections(work)
    /\ order' = Then(order, {<<r, r>>})
    /\ LET rest == [work EXCEPT !.exempt = Tail(@)]
       IN \/ /\ Head(work.exempt) = "address"
             /\ work' = Insert(rest, r, Rule("managed", TRUE, {}, TRUE, "exemption"), "bottom")
             /\ conf' = work' /\ written' = {}
          \/ /\ Head(work.exempt) = "text"
             /\ work' = WithRule(rest, r, Rule("raw", TRUE, {}, FALSE, "exemption"))
             /\ UNCHANGED <<conf, written>>
    /\ UNCHANGED <<mig, listed, kills>>

Frozen(rec) == IF rec.kind = "legacy" THEN [rec EXCEPT !.kind = "raw"] ELSE rec

(* Mutant of MigratedOrder: the rules that were there come first. *)
RulesFirst(c) == Then(Within(listed, Sections(c)), order)

(* The migrated exemptions, then the rules found at the start, as filed. *)
MigratedOrder(c) == Then(order, Within(listed, Sections(c)))

(* The loop over the rules changes them in memory and saves once. *)
MigrateRules ==
    /\ mig = "exempt" /\ work.exempt = <<>>
    /\ LET kept == WithoutRules(work, {r \in Sections(work) : work.rule[r].kind \in {"qos", "idle"}})
           frozen == [kept EXCEPT !.rule = [r \in DOMAIN @ |-> Frozen(@[r])]]
       IN work' = Renumber(frozen, MigratedOrder(frozen))
    /\ conf' = work' /\ written' = {}
    /\ mig' = "rules"
    /\ UNCHANGED <<order, listed, kills>>

(* The commit, the reload and the end of the process; history is forgotten. *)
Commit ==
    /\ mig = "rules"
    /\ mig' = "off"
    /\ work' = Empty /\ order' = {} /\ listed' = {} /\ kills' = 0
    /\ conf' = [conf EXCEPT !.rule = [r \in DOMAIN @ |-> [@[r] EXCEPT !.origin = "user"]]]
    /\ UNCHANGED written

(* The process is ended: what it has saved stays among the saved changes. *)
Kill ==
    /\ mig = "exempt" /\ kills < MaxKills
    /\ mig' = "off"
    /\ kills' = kills + 1
    /\ work' = Empty /\ order' = {} /\ listed' = {}
    /\ UNCHANGED <<conf, written>>

Init ==
    /\ conf = Empty /\ work = Empty
    /\ mig = "off"
    /\ order = {} /\ listed = {}
    /\ kills = 0 /\ written = {}

Edit ==
    \/ \E r \in Rules, on, all \in BOOLEAN, gs \in SUBSET Groups :
           \/ \E position \in {"top", "bottom"} : AddRule(r, on, gs, all, position)
           \/ EditRule(r, on, gs, all)
    \/ \E r \in Rules : DeleteRule(r) \/ \E on \in BOOLEAN : SwitchRule(r, on)
    \/ \E g \in Groups : \/ DeleteGroup(g)
                         \/ \E ms \in SUBSET Members : SaveGroup(g, ms)

Migrate == Begin \/ (\E r \in Rules : MigrateExemption(r)) \/ MigrateRules \/ Commit

Next ==
    \/ Edit
    \/ \E o \in Orders[Sections(conf)] : OrderRules(o)
    \/ \E r \in Rules : WriteRule(r)
    \/ \E o \in OldConfigs, S \in SUBSET Rules : \E file \in Orders[S] : Restore(o, S, file)
    \/ Migrate
    \/ Kill

Spec == Init /\ [][Next]_vars

-----------------------------------------------------------------------------
(* list_rules shows the rules in the order they are evaluated in.  The API    *)
(* and dpi-config take a rule without a priority for something else: the last *)
(* one here, of priority 1 there.  One written by hand beside numbered rules *)
(* is evaluated before rules it is shown behind, until a call or a migration *)
(* numbers them all.  No other rule ever is, nor are rules out of order when *)
(* none has a priority.                                                      *)
EvaluatedAsListed ==
    \A p \in Listed(conf) :
        p[2] \notin written => Level(conf, p[1]) <= Level(conf, p[2])

(* A group that a rule names exists, disabled rules included: expand_appgroups *)
(* skips a group that does not, which widens a rule with a source to every    *)
(* flow of its hosts.                                                        *)
GroupsExist == \A r \in Sections(conf) : conf.rule[r].groups \subseteq DOMAIN conf.member

(* dpi-config leaves out a rule that matches nothing.  It never has to for a  *)
(* rule of the API: an enabled rule the user sees is in force, whatever was  *)
(* done to its groups since.                                                 *)
ManagedEmitted ==
    \A r \in Sections(conf) : conf.rule[r].kind = "managed" => Matches(conf, conf.rule[r])

(* Two rules that stay change places. *)
Swaps ==
    \E r, s \in Sections(conf) \cap Sections(conf') :
        ~(Before(conf, r, s) <=> Before(conf', r, s))

(* First match wins, so the order of the rules is their meaning.  A step that *)
(* moves two rules past each other is order_rules, a migration or the work   *)
(* of someone else, never a call on one rule or group: those without a       *)
(* priority stay where they were too.                                        *)
OrderKept == [][Swaps => ~Edit]_vars

(* dpi/__init__.py:1043.  When the migration saves its result, the rules made *)
(* of exemptions come before those made of the old rules, unless an earlier  *)
(* migration of the same configuration was ended half way.                   *)
ExemptionsShield ==
    [][MigrateRules /\ kills = 0 =>
          \A r, s \in Sections(conf') :
              conf'.rule[r].origin = "exemption" /\ conf'.rule[s].origin = "legacy"
                  => Before(conf', r, s)]_vars
=============================================================================
