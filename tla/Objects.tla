-------------------------------- MODULE Objects --------------------------------
(***************************************************************************)
(* Objects and what refers to them: python3-nethsec/objects, the expansion *)
(* of objects in firewall rules and redirects, and ns.commit with the hook *)
(* update-objects.                                                         *)
(*                                                                         *)
(* A host set holds addresses and other objects.  A leaf is an object with *)
(* one thing to match at most: a reservation, a DNS record or a VPN user   *)
(* with its address, a domain set with the name of its ipset.  Left out:   *)
(* names, families and formats; the references of mwan3 rules, which the   *)
(* hook does not expand, and of DPI rules and of a redirect's destination, *)
(* which protect an object from deletion like those of a rule; rules       *)
(* without an object.                                                      *)
(***************************************************************************)
EXTENDS Naturals, FiniteSets, Functions

CONSTANTS
    HostSets, Leaves,     \* identifiers of objects
    Addresses,            \* addresses and ipset names
    Rules, Redirects,     \* identifiers of firewall sections
    NoObject,
    MaxContent            \* bound on what a host set holds

Objects == HostSets \cup Leaves

ASSUME ObjectsAssumption ==
    /\ HostSets \cap Leaves = {} /\ Objects \cap Addresses = {}
    /\ NoObject \notin Objects
    /\ Rules \cap Redirects = {}
    /\ IsFiniteSet(HostSets)
    /\ MaxContent \in Nat

VARIABLES
    member,     \* content of each object that exists
    section,    \* saved firewall sections: the object, and what they match
    changed,    \* configurations of objects with saved changes
    fwChanged,  \* the firewall configuration has saved changes
    behind,     \* history: the hook has failed on the redirects
    lost        \* history: objects that went with their database

vars == <<member, section, changed, fwChanged, behind, lost>>

Sections == Rules \cup Redirects
Exists == DOMAIN member
Section == [ref : Objects \cup {NoObject}, match : SUBSET Addresses]
NoSection == [ref |-> NoObject, match |-> {}]

(* The configuration an object is in: a host set in objects, a leaf in dhcp   *)
(* or users (a domain set, in objects too, has an ipset in dhcp).            *)
Config(o) == IF o \in HostSets THEN "objects" ELSE "leaves"

TypeOK ==
    /\ Exists \subseteq Objects
    /\ \A o \in Exists : member[o] \subseteq
          IF o \in HostSets THEN Addresses \cup Objects ELSE Addresses
    /\ section \in [Sections -> Section]
    /\ changed \subseteq {"objects", "leaves"}
    /\ fwChanged \in BOOLEAN /\ behind \in BOOLEAN
    /\ lost \subseteq Leaves

-----------------------------------------------------------------------------
(* What is in an object, in the objects of it, and so on down to depth n.     *)
Inside(o, n) ==
    LET down[k \in 0..n] ==
          IF k = 0 THEN {o}
          ELSE LET above == down[k-1]
               IN above \cup UNION {member[x] : x \in above \cap Exists}
    IN down[n]

(* get_object_ips: an object that does not exist has none.                    *)
Ips(o) == Inside(o, Cardinality(HostSets) + 1) \cap Addresses

(* Mutant of HasLoop: only the set itself is refused.                         *)
HasLoopDirect(h, x) == x = h

(* What the host sets of S hold: content of a leaf is not followed.           *)
Held(S) == UNION {member[x] : x \in S \cap HostSets \cap Exists}

(* _has_loop: anything held at the fourth level counts as a loop.             *)
HasLoop(h, x) ==
    /\ x \in Objects
    /\ \/ h \in {x} \cup Held({x}) \cup Held(Held({x}))
       \/ Held(Held(Held({x}))) # {}

(* Mutant of Used: other host sets are not searched.                          *)
UsedByRules(o) == \E s \in Sections : section[s].ref = o

(* is_used_object                                                            *)
Used(o) ==
    \/ \E s \in Sections : section[s].ref = o
    \/ \E h \in Exists : o \in member[h]

SameFirewall == UNCHANGED <<section, fwChanged, behind>>

Put(o, content) ==
    /\ member' = [x \in Exists \cup {o} |-> IF x = o THEN content ELSE member[x]]
    /\ changed' = changed \cup {Config(o)}
    /\ lost' = lost \ {o}
    /\ SameFirewall

Drop(o) ==
    /\ member' = Restrict(member, Exists \ {o})
    /\ changed' = changed \cup {Config(o)}
    /\ SameFirewall

(* add_host_set                                                              *)
AddHostSet(h, content) ==
    /\ h \notin Exists
    /\ content \cap Objects \subseteq Exists
    /\ Put(h, content)

(* edit_host_set                                                             *)
EditHostSet(h, content) ==
    /\ h \in Exists
    /\ content \cap Objects \subseteq Exists
    /\ \A x \in content : ~HasLoop(h, x)
    /\ Put(h, content)

(* delete_host_set; delete_domain_set; the deletions of ns.dhcp, ns.dns and   *)
(* ns.ovpnrw.                                                                *)
Delete(o) == o \in Exists /\ ~Used(o) /\ Drop(o) /\ UNCHANGED lost

(* A leaf is added or edited; it may be left with nothing to match.           *)
SaveLeaf(l, content) == Cardinality(content) <= 1 /\ Put(l, content)

(* delete_local_database and delete_ldap_database take VPN users along.       *)
Lose(l) == l \in Exists /\ Drop(l) /\ lost' = lost \cup {l}

-----------------------------------------------------------------------------
(* Mutant of ExpandRule: an object that matches nothing clears the rule.      *)
ExpandAnyway(s) == [s EXCEPT !.match = Ips(s.ref)]

(* update_firewall_rules, for one rule: what it matches is replaced when the  *)
(* object has something to match.                                            *)
ExpandRule(s) == IF Ips(s.ref) = {} THEN s ELSE [s EXCEPT !.match = Ips(s.ref)]

(* update_redirect_rules, for one redirect: its ipset is written anew.        *)
ExpandRedirect(s) == [s EXCEPT !.match = Ips(s.ref)]

Expanded(f, S) ==
    [s \in Sections |->
        IF s \notin S \/ f[s].ref = NoObject THEN f[s]
        ELSE IF s \in Rules THEN ExpandRule(f[s]) ELSE ExpandRedirect(f[s])]

(* It raises at a redirect whose object is gone.                              *)
Raises(f) == \E s \in Redirects : f[s].ref \notin Exists \cup {NoObject}

SaveFirewall(f) ==
    /\ section' = f
    /\ fwChanged' = TRUE
    /\ UNCHANGED <<member, changed, lost>>

(* add_rule, edit_rule, with an object: every rule is expanded.               *)
SaveRule(r, o) ==
    /\ o \in Exists
    /\ SaveFirewall(Expanded([section EXCEPT ![r] = [ref |-> o, match |-> {}]], Rules))
    /\ UNCHANGED behind

(* add_redirect, edit_redirect of ns.redirects: every redirect is expanded,   *)
(* or nothing is saved.                                                      *)
SaveRedirect(d, o) ==
    /\ o \in Exists
    /\ LET f == [section EXCEPT ![d] = [ref |-> o, match |-> {}]]
       IN ~Raises(f) /\ SaveFirewall(Expanded(f, Redirects))
    /\ behind' = FALSE

DeleteSection(s) ==
    /\ section[s].ref # NoObject
    /\ SaveFirewall([section EXCEPT ![s] = NoSection])
    /\ UNCHANGED behind

(* update-objects looks for objects, users and dhcp among the changes.        *)
NeedsUpdate == changed # {}

CommitFirewall(f) == section' = f /\ fwChanged' = FALSE

(* Mutant of CommitUpdating: the rules are left to their next edit.           *)
CommitRedirects ==
    /\ NeedsUpdate /\ ~Raises(section)
    /\ CommitFirewall(Expanded(section, Redirects))
    /\ behind' = FALSE

(* ns.commit: the hook saves rules and redirects, and has the firewall        *)
(* committed.                                                                *)
CommitUpdating ==
    /\ NeedsUpdate /\ ~Raises(section)
    /\ CommitFirewall(Expanded(section, Sections))
    /\ behind' = FALSE

(* When the hook raises the rules are saved, and committed only if the        *)
(* firewall was among the changes anyway.                                    *)
CommitRaising ==
    /\ NeedsUpdate /\ Raises(section)
    /\ LET f == Expanded(section, Rules)
       IN IF fwChanged THEN CommitFirewall(f)
          ELSE section' = f /\ fwChanged' = (f # section)
    /\ behind' = TRUE

CommitAsIs ==
    /\ ~NeedsUpdate
    /\ fwChanged
    /\ CommitFirewall(section)
    /\ UNCHANGED behind

Commit ==
    /\ CommitUpdating \/ CommitRaising \/ CommitAsIs
    /\ changed' = {}
    /\ UNCHANGED <<member, lost>>

Init ==
    /\ member = <<>>
    /\ section = [s \in Sections |-> NoSection]
    /\ changed = {} /\ lost = {}
    /\ fwChanged = FALSE /\ behind = FALSE

Next ==
    \/ \E h \in HostSets, content \in {c \in SUBSET (Objects \cup Addresses) :
                                          Cardinality(c) <= MaxContent} :
          AddHostSet(h, content) \/ EditHostSet(h, content)
    \/ \E o \in Objects : Delete(o)
    \/ \E l \in Leaves : Lose(l) \/ \E content \in SUBSET Addresses : SaveLeaf(l, content)
    \/ \E o \in Objects : \/ \E r \in Rules : SaveRule(r, o)
                          \/ \E d \in Redirects : SaveRedirect(d, o)
    \/ \E s \in Sections : DeleteSection(s)
    \/ Commit

Spec == Init /\ [][Next]_vars

-----------------------------------------------------------------------------
(* objects/__init__.py:413.  No host set is inside itself, in however many    *)
(* edits it was tried: get_object_ips would not return.                      *)
Acyclic ==
    \A h \in Exists \cap HostSets :
        \A x \in member[h] : h \notin Inside(x, Cardinality(HostSets) + 1)

(* Whatever is referred to exists, unless it went with its user database.     *)
NoDangling ==
    /\ \A s \in Sections : section[s].ref \in Exists \cup lost \cup {NoObject}
    /\ \A h \in Exists : member[h] \cap Objects \subseteq Exists \cup lost

(* update-objects.py:8.  With nothing left to commit, the firewall matches    *)
(* what its objects are now.  A rule does so also after a hook that raised    *)
(* half way, but keeps what it matched when its object has nothing to match;  *)
(* a redirect does after the next commit that does not raise.                *)
Fresh(s) ==
    LET current == section[s].match = Ips(section[s].ref)
    IN IF s \in Rules THEN current \/ Ips(section[s].ref) = {} ELSE current \/ behind

FirewallFresh ==
    changed = {} /\ ~fwChanged =>
        \A s \in Sections : section[s].ref # NoObject => Fresh(s)

(* A rule without an address matches every host.  Whatever happens to its     *)
(* object, a rule comes to match every host only when it is itself saved.     *)
NeverOpened ==
    [][\A r \in Rules :
         section[r].match # {} /\ section'[r].match = {} =>
             section'[r].ref = NoObject \/ \E o \in Objects : SaveRule(r, o)]_vars
=============================================================================
