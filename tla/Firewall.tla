-------------------------------- MODULE Firewall --------------------------------
(***************************************************************************)
(* Zones, forwardings, the order of rules and what the features of the     *)
(* system put among them: python3-nethsec/firewall as ns.firewall,         *)
(* ns.redirects, ns.wireguard and ns.ovpntunnel call it, and ns.commit     *)
(* with the hook fix-redirect-reflections.                                 *)
(*                                                                         *)
(* A WireGuard instance and its zone, <instance>vpn, and its service rule  *)
(* have one name here; so have an OpenVPN tunnel, its interface, its       *)
(* device and, if it is a server, its service rule.  A tunnel is not given *)
(* another name, nor one of the other kind the same.  Left out: what zones *)
(* and rules let through, and the place of zones and forwardings in the    *)
(* file, which means nothing.  Zones lan and wan are never deleted.        *)
(***************************************************************************)
EXTENDS Naturals, FiniteSets, Functions

CONSTANTS
    Guests,         \* names of zones the administrator thinks of
    WireGuards,     \* instances that may be set up
    Tunnels,        \* OpenVPN tunnels that may be set up
    Servers,        \* those of them that are servers; the others are clients
    Rules,          \* rules the administrator may add
    RuleKinds,      \* bound: the kinds these rules may be of
    Redirects,      \* port forwards
    NoLink,         \* not a feature
    Reach,          \* bound: zones that forwardings and reflections are asked for
    MaxForwards     \* bound on the zones forwarded to or from in one call

Fixed == {"lan", "wan"}
Names == Fixed \cup {"openvpn"} \cup Guests \cup WireGuards

(* The kinds of rules, in the order of their blocks in the file.              *)
Block == [other |-> 1, forward |-> 2, output |-> 3, input |-> 4]
Kinds == DOMAIN Block

ASSUME FirewallAssumption ==
    /\ Guests \cap WireGuards = {} /\ Tunnels \cap WireGuards = {}
    /\ (Guests \cup WireGuards) \cap {"lan", "wan", "openvpn"} = {}
    /\ Servers \subseteq Tunnels
    /\ Rules \cap (WireGuards \cup Tunnels) = {}
    /\ NoLink \notin WireGuards \cup Tunnels
    /\ RuleKinds \subseteq Kinds
    /\ Reach \subseteq Names
    /\ MaxForwards \in Nat

VARIABLES
    zone,        \* zones that exist: link, interfaces and devices
    forwarding,  \* forwardings: source, destination, link
    rules,       \* rules that exist: kind and link
    before,      \* <<x, y>>: rule x is before rule y in the file
    features,    \* WireGuard instances and tunnels that are set up
    reflection,  \* zones each port forward is reflected to
    changed,     \* the firewall configuration has saved changes
    bypassed     \* history: zones gone at a commit without hooks

vars == <<zone, forwarding, rules, before, features, reflection, changed, bypassed>>

Links == WireGuards \cup {NoLink}
Forwarding == [src : Names, dest : Names, link : Links]

(* The features that other hosts connect to, and their service rules.         *)
Services == WireGuards \cup Servers
Rule == [kind : Kinds, link : Services \cup {NoLink}]
Zone == [link : Links, network : SUBSET (WireGuards \cup Tunnels), device : SUBSET Tunnels]

Zones == DOMAIN zone

(* b puts the elements of S one after the other.                             *)
IsOrder(b, S) ==
    /\ b \subseteq S \X S
    /\ \A x, y \in S : x = y <=> <<x, y>> \notin b /\ <<y, x>> \notin b
    /\ \A x, y, z \in S : <<x, y>> \in b /\ <<y, z>> \in b => <<x, z>> \in b

TypeOK ==
    /\ Fixed \subseteq Zones /\ Zones \subseteq Names
    /\ zone \in [Zones -> Zone]
    /\ forwarding \subseteq Forwarding
    /\ DOMAIN rules \subseteq Rules \cup Services
    /\ rules \in [DOMAIN rules -> Rule]
    /\ IsOrder(before, DOMAIN rules)
    /\ features \subseteq WireGuards \cup Tunnels
    /\ reflection \in [Redirects -> SUBSET Names]
    /\ changed \in BOOLEAN /\ bypassed \subseteq Names

-----------------------------------------------------------------------------
(* The order of rules.                                                       *)

Chain(rs, k) == {x \in DOMAIN rs : rs[x].kind = k}

(* Mutant of Reordered: each rule is moved to the start of its block.         *)
ReorderedBackwards(rs, b) ==
    {p \in (DOMAIN rs) \X (DOMAIN rs) :
        LET x == rs[p[1]].kind y == rs[p[2]].kind
        IN Block[x] < Block[y] \/ (x = y /\ <<p[2], p[1]>> \in b)}

(* split_firewall_config and reorder_firewall_config: one block for each kind *)
(* of rules, whose rules stay in the order b.                                *)
Reordered(rs, b) ==
    {p \in (DOMAIN rs) \X (DOMAIN rs) :
        LET x == rs[p[1]].kind y == rs[p[2]].kind
        IN Block[x] < Block[y] \/ (x = y /\ p \in b)}

WithRule(id, r) == [x \in DOMAIN rules \cup {id} |-> IF x = id THEN r ELSE rules[x]]
WithoutRules(S) == Restrict(rules, DOMAIN rules \ S)

(* A section that is written and not there yet comes last.                    *)
AtEnd(id) == before \cup IF id \in DOMAIN rules THEN {} ELSE (DOMAIN rules) \X {id}

SameZones == UNCHANGED <<zone, forwarding, features, reflection, bypassed>>
SaveRules(rs, b) == rules' = rs /\ before' = b /\ changed' = TRUE /\ SameZones

NewRule(id, k) == WithRule(id, [kind |-> k, link |-> NoLink])

(* add_rule; add_template_service_group, add_template_rule                   *)
AddRule(id, k) ==
    /\ id \notin DOMAIN rules
    /\ SaveRules(NewRule(id, k), Reordered(NewRule(id, k), AtEnd(id)))

(* Mutant of AddRuleToTop: the new rule stays behind the others as well.      *)
AddRuleTwice(id, k) ==
    /\ id \notin DOMAIN rules /\ k # "other"
    /\ SaveRules(NewRule(id, k), Reordered(NewRule(id, k), AtEnd(id) \cup ({id} \X (DOMAIN rules))))

(* add_rule with add_to_top: the new rule is put before the others of its     *)
(* kind by order_rules.                                                      *)
AddRuleToTop(id, k) ==
    /\ id \notin DOMAIN rules /\ k # "other"
    /\ SaveRules(NewRule(id, k), Reordered(NewRule(id, k), before \cup ({id} \X (DOMAIN rules))))

(* edit_rule: a rule that comes to be of another kind stays where it is, and  *)
(* one edited without its link loses it.                                     *)
EditRule(id, k, linked) ==
    /\ id \in DOMAIN rules
    /\ SaveRules(WithRule(id, [kind |-> k, link |-> IF linked THEN rules[id].link ELSE NoLink]),
                 before)

(* delete_rule                                                               *)
DeleteRule(id) ==
    /\ id \in DOMAIN rules
    /\ SaveRules(WithoutRules({id}), Reordered(WithoutRules({id}), before))

(* order_rules, with the rules of the kind in any order; the other rules are  *)
(* put in order as well.                                                     *)
OrderRules(k) ==
    /\ k # "other"
    /\ LET C == Chain(rules, k)
       IN \E b \in SUBSET (C \X C) :
             IsOrder(b, C) /\ SaveRules(rules, Reordered(rules, b \cup (before \ (C \X C))))

-----------------------------------------------------------------------------
(* Zones and forwardings.                                                    *)

Put(n, z) == [m \in Zones \cup {n} |-> IF m = n THEN z ELSE zone[m]]

NewZone(link, network) == [link |-> link, network |-> network, device |-> {}]

(* add_forwarding, to and from each zone                                      *)
Forwards(n, to, from, link) ==
    [src : {n}, dest : to, link : {link}] \cup [src : from, dest : {n}, link : {link}]

(* Mutant of Apart: only what leaves the zone is deleted.                     *)
ApartLeaving(n) == {x \in forwarding : x.src # n}

(* The forwardings that edit_zone and delete_zone leave.                      *)
Apart(n) == {x \in forwarding : x.src # n /\ x.dest # n}

(* add_trusted_zone: a zone that exists is left as it is.                     *)
TrustedForwards(n, link) == Forwards(n, {"lan", "wan"}, {"lan"}, link)

(* What an administrator chooses zones from.                                 *)
SomeZones == {S \in SUBSET (Zones \cap Reach) : Cardinality(S) <= MaxForwards}

(* create_zone                                                               *)
AddZone(n, to, from) ==
    /\ n \notin Zones
    /\ zone' = Put(n, NewZone(NoLink, {}))
    /\ forwarding' = forwarding \cup Forwards(n, to, from, NoLink)
    /\ before' = Reordered(rules, before)
    /\ changed' = TRUE
    /\ UNCHANGED <<rules, features, reflection, bypassed>>

(* edit_zone: its forwardings are made anew, also those of a feature.         *)
EditZone(n, to, from) ==
    /\ n \in Zones
    /\ forwarding' = Apart(n) \cup Forwards(n, to, from, NoLink)
    /\ changed' = TRUE
    /\ UNCHANGED <<zone, rules, before, features, reflection, bypassed>>

(* delete_zone                                                               *)
DeleteZone(n) ==
    /\ n \in Zones
    /\ zone' = [m \in Zones \ {n} |-> zone[m]]
    /\ forwarding' = Apart(n)
    /\ before' = Reordered(rules, before)
    /\ changed' = TRUE
    /\ UNCHANGED <<rules, features, reflection, bypassed>>

-----------------------------------------------------------------------------
(* The features.                                                             *)

(* add_service: the section of a service has one name; one that was left is   *)
(* linked again, where it is.                                                *)
WithService(w) ==
    WithRule(w, [kind |-> IF w \in DOMAIN rules THEN rules[w].kind ELSE "input", link |-> w])

(* add_server of ns.wireguard: service, zone, and the interface in the zone,  *)
(* whoever made that zone.                                                   *)
AddWireGuard(w) ==
    /\ w \notin features
    /\ features' = features \cup {w}
    /\ rules' = WithService(w) /\ before' = Reordered(WithService(w), AtEnd(w))
    /\ LET z == IF w \in Zones THEN zone[w] ELSE NewZone(w, {})
       IN zone' = Put(w, [z EXCEPT !.network = @ \cup {w}])
    /\ forwarding' = forwarding \cup IF w \in Zones THEN {} ELSE TrustedForwards(w, w)
    /\ changed' = TRUE
    /\ UNCHANGED <<reflection, bypassed>>

(* Mutant of Linked: the sections of a feature are looked for among zones and *)
(* rules only.                                                               *)
LinkedZones(w) ==
    [zones |-> {n \in Zones : zone[n].link = w},
     forwardings |-> {},
     rules |-> {x \in DOMAIN rules : rules[x].link = w}]

(* get_all_linked                                                            *)
Linked(w) ==
    [zones |-> {n \in Zones : zone[n].link = w},
     forwardings |-> {x \in forwarding : x.link = w},
     rules |-> {x \in DOMAIN rules : rules[x].link = w}]

(* delete_linked_sections, among the rules                                   *)
DropRules(w) ==
    /\ rules' = WithoutRules(Linked(w).rules)
    /\ before' = before \cap ((DOMAIN rules') \X (DOMAIN rules'))

(* delete_server, with delete_linked_sections                                *)
DeleteWireGuard(w) ==
    /\ w \in features
    /\ features' = features \ {w}
    /\ zone' = [n \in Zones \ Linked(w).zones |-> zone[n]]
    /\ forwarding' = forwarding \ Linked(w).forwardings
    /\ DropRules(w)
    /\ changed' = TRUE
    /\ UNCHANGED <<reflection, bypassed>>

(* Mutant of Joined: only the tunnel that makes the zone is put in it.        *)
JoinedFirst(t) ==
    IF "openvpn" \in Zones THEN zone ELSE Put("openvpn", NewZone(NoLink, {t}))

(* setup_firewall of ns.ovpntunnel: the tunnel that makes the zone is in it   *)
(* with its interface, the others with their devices.                        *)
Joined(t) ==
    IF "openvpn" \in Zones THEN Put("openvpn", [zone["openvpn"] EXCEPT !.device = @ \cup {t}])
    ELSE Put("openvpn", NewZone(NoLink, {t}))

(* A call that leaves the firewall as it was saves no change of it.           *)
Moved == <<zone, rules, before>>' # <<zone, rules, before>>

(* setup_server, setup_client and import_client: only a server has a service  *)
(* rule, which add_service puts in order, and so does a new zone.  What else  *)
(* a rule says is left out, so a server's may be saved and nothing change.    *)
SetUp(t) ==
    /\ rules' = IF t \in Servers THEN WithService(t) ELSE rules
    /\ zone' = Joined(t)
    /\ IF "openvpn" \in Zones THEN UNCHANGED forwarding
       ELSE forwarding' = forwarding \cup TrustedForwards("openvpn", NoLink)
    /\ IF t \in Servers THEN before' = Reordered(rules', AtEnd(t))
       ELSE before' = IF "openvpn" \in Zones THEN before ELSE Reordered(rules, before)
    /\ changed' \in {changed \/ Moved, changed \/ Moved \/ t \in Servers}
    /\ UNCHANGED <<reflection, bypassed>>

AddTunnel(t) == t \notin features /\ features' = features \cup {t} /\ SetUp(t)

(* edit_server, edit_client                                                  *)
EditTunnel(t) == t \in features /\ UNCHANGED features /\ SetUp(t)

(* delete_tunnel of ns.ovpntunnel: what is linked goes, the service rule, and *)
(* of interface and device only the device leaves the zone.                  *)
DeleteTunnel(t) ==
    /\ t \in features
    /\ features' = features \ {t}
    /\ DropRules(t)
    /\ zone' = [n \in Zones |-> IF n = "openvpn" THEN [zone[n] EXCEPT !.device = @ \ {t}]
                                ELSE zone[n]]
    /\ changed' = (changed \/ Moved)
    /\ UNCHANGED <<forwarding, reflection, bypassed>>

-----------------------------------------------------------------------------
(* Port forwards and commits.                                                *)

(* A port forward is added or edited.                                        *)
SetReflection(d, S) ==
    /\ reflection' = [reflection EXCEPT ![d] = S]
    /\ changed' = TRUE
    /\ UNCHANGED <<zone, forwarding, rules, before, features, bypassed>>

(* Mutant of Fixable: names that were a feature's are not looked at.          *)
FixableGuests == Names \ WireGuards

(* get_zone_by_name is asked about every name.                               *)
Fixable == Names

(* ns.commit, with fix-redirect-reflections                                  *)
Commit ==
    /\ changed
    /\ reflection' = [d \in Redirects |-> reflection[d] \ (Fixable \ Zones)]
    /\ changed' = FALSE /\ bypassed' = {}
    /\ UNCHANGED <<zone, forwarding, rules, before, features>>

(* Scripts such as ns.ovpnrw commit the firewall themselves: what others have *)
(* saved is committed too, and no hook runs.                                 *)
CommitBypassing ==
    /\ changed
    /\ changed' = FALSE
    /\ bypassed' = (UNION {reflection[d] : d \in Redirects}) \ Zones
    /\ UNCHANGED <<zone, forwarding, rules, before, features, reflection>>

Init ==
    /\ zone = [n \in Fixed |-> NewZone(NoLink, {})]
    /\ forwarding = {[src |-> "lan", dest |-> "wan", link |-> NoLink]}
    /\ rules = <<>> /\ before = {} /\ features = {}
    /\ reflection = [d \in Redirects |-> {}]
    /\ changed = FALSE /\ bypassed = {}

Next ==
    \/ \E r \in Rules, k \in RuleKinds : AddRule(r, k) \/ AddRuleToTop(r, k) \/ EditRule(r, k, TRUE)
    \/ \E w \in Services, linked \in BOOLEAN : EditRule(w, "input", linked)
    \/ \E r \in Rules \cup Services : DeleteRule(r)
    \/ \E k \in RuleKinds : OrderRules(k)
    \/ \E n \in Guests \cup WireGuards, to, from \in SomeZones :
          /\ Cardinality(to) + Cardinality(from) <= MaxForwards
          /\ AddZone(n, to, from) \/ EditZone(n, to, from)
    \/ \E n \in Names \ Fixed : DeleteZone(n)
    \/ \E w \in WireGuards : AddWireGuard(w) \/ DeleteWireGuard(w)
    \/ \E t \in Tunnels : AddTunnel(t) \/ EditTunnel(t) \/ DeleteTunnel(t)
    \/ \E d \in Redirects, S \in SomeZones : SetReflection(d, S)
    \/ Commit \/ CommitBypassing

Spec == Init /\ [][Next]_vars

-----------------------------------------------------------------------------
(* firewall/__init__.py:908, :579.  The ends of a forwarding exist.  Only an  *)
(* administrator's forwarding of a zone that went with its feature is left,   *)
(* and none of the feature's: another zone of that name would be let through  *)
(* where nobody asked for it.                                                *)
ForwardingsJoin ==
    \A x \in forwarding : \A n \in {x.src, x.dest} :
        n \in Zones \/ (n \in WireGuards /\ x.link = NoLink)

(* firewall/__init__.py:1031, :1667.  The first rule of a kind that matches   *)
(* decides.  Rules that stay and keep their kind stay in their order, unless  *)
(* it is the order of that kind that was asked for.                          *)
OrderKept ==
    [][\A k \in Kinds :
         \/ \A x, y \in Chain(rules, k) \cap Chain(rules', k) :
               <<x, y>> \in before <=> <<x, y>> \in before'
         \/ OrderRules(k)]_<<rules, before>>

(* A WireGuard instance leaves no zone and no forwarding.                    *)
NoZoneLeft ==
    /\ \A n \in Zones : zone[n].link \in features \cup {NoLink}
    /\ \A x \in forwarding : x.link \in features \cup {NoLink}

(* firewall/__init__.py:579.  Whatever is linked to a feature goes with it: a *)
(* WireGuard instance leaves no zone, forwarding or open port and a server   *)
(* tunnel no open port, unless the section was made or edited without the     *)
(* link.                                                                     *)
NothingLeft ==
    /\ NoZoneLeft
    /\ \A x \in DOMAIN rules : rules[x].link \in features \cup {NoLink}

InZone(t) ==
    /\ "openvpn" \in Zones
    /\ t \in zone["openvpn"].network \cup zone["openvpn"].device

(* ns.ovpntunnel:52.  A tunnel is put in the zone openvpn, whichever tunnels  *)
(* came and went before, and leaves it with the zone only.                   *)
TunnelsStay ==
    [][\A t \in Tunnels \cap features' :
         InZone(t) \/ t \notin features => InZone(t)' \/ "openvpn" \notin Zones']_vars

(* fix-redirect-reflections.py:8.  No committed port forward is reflected to  *)
(* a zone that is gone, but for what was committed without the hook.          *)
ReflectionsExist ==
    ~changed => \A d \in Redirects : reflection[d] \subseteq Zones \cup bypassed
=============================================================================
