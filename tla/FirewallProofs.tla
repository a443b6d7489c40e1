---------------------------- MODULE FirewallProofs ---------------------------
(***************************************************************************)
(* Zones, forwardings, rules and reflections, for any zones, WireGuard     *)
(* instances, tunnels, rules and port forwards, and any history of calls   *)
(* and commits.  The inductive invariant ZoneIInv says which zones and     *)
(* forwardings can carry a link: the zone of the instance's name, and what *)
(* joins it to lan and wan.  RuleIInv says that the places of the rules    *)
(* are an order and what they are linked to; ReflectionIInv, that only     *)
(* zones that have existed are reflected to.                               *)
(***************************************************************************)
EXTENDS Firewall, TLAPS

ZoneType ==
    /\ Fixed \subseteq Zones /\ Zones \subseteq Names
    /\ zone \in [Zones -> Zone]
    /\ features \subseteq WireGuards \cup Tunnels

LinkedToOwn == \A n \in Zones : zone[n].link # NoLink => zone[n].link = n

ForwardingsOfOwn ==
    \A x \in forwarding :
        x.link # NoLink => x.link \in WireGuards /\ {x.src, x.dest} \subseteq {x.link, "lan", "wan"}

ZoneIInv == ZoneType /\ LinkedToOwn /\ ForwardingsOfOwn /\ ForwardingsJoin /\ NoZoneLeft

-----------------------------------------------------------------------------
LEMMA ForwardsEnds ==
    ASSUME NEW n, NEW to, NEW from, NEW link, NEW x \in Forwards(n, to, from, link)
    PROVE  x.link = link /\ x.src \in {n} \cup from /\ x.dest \in {n} \cup to
BY DEF Forwards

LEMMA PutZone ==
    ASSUME ZoneType, NEW n \in Names, NEW z \in Zone, zone' = Put(n, z)
    PROVE  /\ Zones' = Zones \cup {n} /\ zone' \in [Zones' -> Zone]
           /\ zone'[n] = z /\ \A m \in Zones \ {n} : zone'[m] = zone[m]
BY DEF Put, Zones, ZoneType

LEMMA NewZoneType ==
    ASSUME NEW link \in Links, NEW network \in SUBSET (WireGuards \cup Tunnels)
    PROVE  NewZone(link, network) \in Zone /\ NewZone(link, network).link = link
BY DEF NewZone, Zone

(* The zones that forwardings are asked for are there.                       *)
LEMMA AskedExist ==
    ASSUME NEW S \in SomeZones
    PROVE  S \subseteq Zones
BY DEF SomeZones

-----------------------------------------------------------------------------
LEMMA ZoneInit == Init => ZoneIInv
<1> SUFFICES ASSUME Init PROVE ZoneIInv
    OBVIOUS
<1>1. Zones = Fixed /\ \A n \in Zones : zone[n] = NewZone(NoLink, {})
      BY DEF Init, Zones
<1>2. NewZone(NoLink, {}) \in Zone /\ NewZone(NoLink, {}).link = NoLink
      BY NewZoneType DEF Links
<1>3. ZoneType
      BY <1>1, <1>2 DEF Init, ZoneType, Names, Zones
<1>4. LinkedToOwn /\ NoZoneLeft
      BY <1>1, <1>2 DEF Init, LinkedToOwn, NoZoneLeft
<1>5. ForwardingsOfOwn /\ ForwardingsJoin
      BY <1>1 DEF Init, ForwardingsOfOwn, ForwardingsJoin, Fixed
<1> QED BY <1>3, <1>4, <1>5 DEF ZoneIInv

(* A zone of no feature is there or new, and forwardings without a link are   *)
(* made between it and zones that are there.                                 *)
LEMMA OwnForwards ==
    ASSUME ZoneIInv, NEW n \in Zones', NEW to \in SUBSET Zones, NEW from \in SUBSET Zones,
           NEW F, F \subseteq forwarding, Zones \subseteq Zones',
           forwarding' = F \cup Forwards(n, to, from, NoLink), features \subseteq features'
    PROVE  /\ ForwardingsOfOwn' /\ ForwardingsJoin'
           /\ \A x \in forwarding' : x.link \in features' \cup {NoLink}
BY ForwardsEnds DEF ZoneIInv, ForwardingsOfOwn, ForwardingsJoin, NoZoneLeft

LEMMA ZoneStep ==
    ASSUME ZoneIInv, [Next]_vars
    PROVE  ZoneIInv'
<1> USE FirewallAssumption
<1>1. CASE UNCHANGED <<zone, forwarding, features>>
      BY <1>1 DEF ZoneIInv, ZoneType, LinkedToOwn, ForwardingsOfOwn, ForwardingsJoin,
                  NoZoneLeft, Zones
<1>2. ASSUME NEW n \in Guests \cup WireGuards, NEW to \in SomeZones, NEW from \in SomeZones,
             AddZone(n, to, from)
      PROVE  ZoneIInv'
  <2>1. NewZone(NoLink, {}) \in Zone /\ NewZone(NoLink, {}).link = NoLink
        BY NewZoneType DEF Links
  <2>2. /\ Zones' = Zones \cup {n} /\ zone' \in [Zones' -> Zone]
        /\ zone'[n].link = NoLink /\ \A m \in Zones \ {n} : zone'[m] = zone[m]
        BY <1>2, <2>1, PutZone DEF AddZone, ZoneIInv, Names
  <2>3. features' = features
        BY <1>2 DEF AddZone
  <2>4. ZoneType' /\ LinkedToOwn'
        BY <2>2, <2>3 DEF ZoneIInv, ZoneType, LinkedToOwn, Names
  <2>5. /\ ForwardingsOfOwn' /\ ForwardingsJoin'
        /\ \A x \in forwarding' : x.link \in features' \cup {NoLink}
        BY <1>2, <2>2, <2>3, AskedExist, OwnForwards DEF AddZone
  <2> QED BY <2>2, <2>3, <2>4, <2>5 DEF ZoneIInv, NoZoneLeft
<1>3. ASSUME NEW n \in Guests \cup WireGuards, NEW to \in SomeZones, NEW from \in SomeZones,
             EditZone(n, to, from)
      PROVE  ZoneIInv'
  <2>1. UNCHANGED <<zone, features>> /\ Zones' = Zones /\ n \in Zones'
        BY <1>3 DEF EditZone, Zones
  <2>2. ZoneType' /\ LinkedToOwn'
        BY <2>1 DEF ZoneIInv, ZoneType, LinkedToOwn
  <2>3. Apart(n) \subseteq forwarding
        BY DEF Apart
  <2>4. /\ ForwardingsOfOwn' /\ ForwardingsJoin'
        /\ \A x \in forwarding' : x.link \in features' \cup {NoLink}
        BY <1>3, <2>1, <2>3, AskedExist, OwnForwards DEF EditZone
  <2> QED BY <2>1, <2>2, <2>4 DEF ZoneIInv, NoZoneLeft
<1>4. ASSUME NEW n \in Names \ Fixed, DeleteZone(n)
      PROVE  ZoneIInv'
  <2>1. /\ zone' = [m \in Zones \ {n} |-> zone[m]] /\ Zones' = Zones \ {n}
        /\ features' = features /\ forwarding' = Apart(n)
        BY <1>4 DEF DeleteZone, Zones
  <2>2. ZoneType' /\ LinkedToOwn'
        BY <2>1 DEF ZoneIInv, ZoneType, LinkedToOwn
  <2>3. ForwardingsOfOwn' /\ ForwardingsJoin' /\ NoZoneLeft'
        BY <2>1 DEF ZoneIInv, ForwardingsOfOwn, ForwardingsJoin, NoZoneLeft, Apart
  <2> QED BY <2>2, <2>3 DEF ZoneIInv
<1>5. ASSUME NEW w \in WireGuards, AddWireGuard(w)
      PROVE  ZoneIInv'
  <2> DEFINE z == IF w \in Zones THEN zone[w] ELSE NewZone(w, {})
             y == [z EXCEPT !.network = @ \cup {w}]
  <2>1. z \in Zone /\ z.link \in {w, NoLink}
    <3>1. CASE w \in Zones
          BY <3>1 DEF ZoneIInv, ZoneType, LinkedToOwn
    <3>2. CASE w \notin Zones
          BY <3>2, NewZoneType DEF Links
    <3> QED BY <3>1, <3>2
  <2>2. y \in Zone /\ y.link = z.link
        BY <2>1 DEF Zone
  <2>3. /\ zone' = Put(w, y) /\ features' = features \cup {w}
        /\ forwarding' = forwarding \cup (IF w \in Zones THEN {} ELSE TrustedForwards(w, w))
        BY <1>5 DEF AddWireGuard
  <2> HIDE DEF y, z
  <2>4. /\ Zones' = Zones \cup {w} /\ zone' \in [Zones' -> Zone]
        /\ zone'[w].link \in {w, NoLink} /\ \A m \in Zones \ {w} : zone'[m] = zone[m]
        BY <2>1, <2>2, <2>3, PutZone DEF ZoneIInv, Names
  <2>5. ZoneType' /\ LinkedToOwn'
        BY <2>3, <2>4 DEF ZoneIInv, ZoneType, LinkedToOwn, Names
  <2>6. ASSUME NEW x \in forwarding', x \notin forwarding
        PROVE  x.link = w /\ {x.src, x.dest} \subseteq {w, "lan", "wan"}
        BY <2>3, <2>6, ForwardsEnds DEF TrustedForwards
  <2>7. {w, "lan", "wan"} \subseteq Zones'
        BY <2>4 DEF ZoneIInv, ZoneType, Fixed
  <2>8. ForwardingsOfOwn' /\ ForwardingsJoin' /\ NoZoneLeft'
        BY <2>3, <2>4, <2>6, <2>7 DEF ZoneIInv, ForwardingsOfOwn, ForwardingsJoin, NoZoneLeft
  <2> QED BY <2>5, <2>8 DEF ZoneIInv
<1>6. ASSUME NEW w \in WireGuards, DeleteWireGuard(w)
      PROVE  ZoneIInv'
  <2>1. /\ features' = features \ {w}
        /\ zone' = [n \in {n \in Zones : zone[n].link # w} |-> zone[n]]
        /\ forwarding' = {x \in forwarding : x.link # w}
    <3>1. Zones \ Linked(w).zones = {n \in Zones : zone[n].link # w}
          BY DEF Linked
    <3>2. forwarding \ Linked(w).forwardings = {x \in forwarding : x.link # w}
          BY DEF Linked
    <3> QED BY <1>6, <3>1, <3>2 DEF DeleteWireGuard
  <2>2. Zones' = {n \in Zones : zone[n].link # w}
        BY <2>1 DEF Zones
  <2>3. Zones \ {w} \subseteq Zones' /\ w # NoLink
        BY <2>2 DEF ZoneIInv, LinkedToOwn
  <2>4. ZoneType' /\ LinkedToOwn'
        BY <2>1, <2>2, <2>3 DEF ZoneIInv, ZoneType, LinkedToOwn, Fixed
  <2>5. ForwardingsOfOwn' /\ NoZoneLeft'
        BY <2>1, <2>2 DEF ZoneIInv, ForwardingsOfOwn, NoZoneLeft
  <2>6. ForwardingsJoin'
        BY <2>1, <2>3 DEF ZoneIInv, ForwardingsJoin, ForwardingsOfOwn
  <2> QED BY <2>4, <2>5, <2>6 DEF ZoneIInv
<1>7. ASSUME NEW t \in Tunnels, SetUp(t), features' = features \cup {t}
      PROVE  ZoneIInv'
  <2> DEFINE z == IF "openvpn" \in Zones THEN [zone["openvpn"] EXCEPT !.device = @ \cup {t}]
                  ELSE NewZone(NoLink, {t})
  <2>1. z \in Zone /\ z.link = (IF "openvpn" \in Zones THEN zone["openvpn"].link ELSE NoLink)
    <3>1. CASE "openvpn" \in Zones
          BY <3>1 DEF ZoneIInv, ZoneType, Zone
    <3>2. CASE "openvpn" \notin Zones
          BY <3>2, NewZoneType DEF Links
    <3> QED BY <3>1, <3>2
  <2>2. zone' = Put("openvpn", z) /\ features' = features \cup {t}
        BY <1>7 DEF SetUp, Joined
  <2> HIDE DEF z
  <2>3. /\ Zones' = Zones \cup {"openvpn"} /\ zone' \in [Zones' -> Zone]
        /\ zone'["openvpn"] = z /\ \A m \in Zones \ {"openvpn"} : zone'[m] = zone[m]
        BY <2>1, <2>2, PutZone DEF ZoneIInv, Names
  <2>4. \A m \in Zones' : zone'[m].link = NoLink \/ (m \in Zones /\ zone'[m].link = zone[m].link)
        BY <2>1, <2>3
  <2>5. ZoneType' /\ LinkedToOwn'
        BY <2>2, <2>3, <2>4 DEF ZoneIInv, ZoneType, LinkedToOwn, Names
  <2>6. /\ ForwardingsOfOwn' /\ ForwardingsJoin'
        /\ \A x \in forwarding' : x.link \in features' \cup {NoLink}
    <3>1. CASE UNCHANGED forwarding
          BY <2>2, <2>3, <3>1 DEF ZoneIInv, ForwardingsOfOwn, ForwardingsJoin, NoZoneLeft
    <3>2. CASE forwarding' = forwarding \cup TrustedForwards("openvpn", NoLink)
          BY <2>2, <2>3, <3>2, OwnForwards DEF TrustedForwards, ZoneIInv, ZoneType, Fixed
    <3> QED BY <1>7, <3>1, <3>2 DEF SetUp
  <2> QED BY <2>2, <2>4, <2>5, <2>6 DEF ZoneIInv, NoZoneLeft
<1>8. ASSUME NEW t \in Tunnels, DeleteTunnel(t)
      PROVE  ZoneIInv'
  <2> DEFINE y(n) == IF n = "openvpn" THEN [zone[n] EXCEPT !.device = @ \ {t}] ELSE zone[n]
  <2>1. \A n \in Zones : y(n) \in Zone /\ y(n).link = zone[n].link
        BY DEF ZoneIInv, ZoneType, Zone
  <2>2. /\ zone' = [n \in Zones |-> y(n)] /\ features' = features \ {t}
        /\ UNCHANGED forwarding
        BY <1>8 DEF DeleteTunnel
  <2> HIDE DEF y
  <2>3. Zones' = Zones /\ \A n \in Zones : zone'[n] \in Zone /\ zone'[n].link = zone[n].link
        BY <2>1, <2>2 DEF Zones
  <2>4. ZoneType' /\ LinkedToOwn' /\ ForwardingsOfOwn' /\ ForwardingsJoin'
        BY <2>2, <2>3 DEF ZoneIInv, ZoneType, LinkedToOwn, ForwardingsOfOwn, ForwardingsJoin
  <2>5. t \notin WireGuards
        OBVIOUS
  <2>6. \A n \in Zones : zone[n].link # NoLink => zone[n].link # t
    <3> SUFFICES ASSUME NEW n \in Zones, zone[n].link # NoLink
                 PROVE  zone[n].link # t
        OBVIOUS
    <3>1. zone[n] \in Zone
          BY DEF ZoneIInv, ZoneType
    <3>2. zone[n].link \in Links
          BY <3>1 DEF Zone
    <3> QED BY <2>5, <3>2 DEF Links
  <2>7. \A x \in forwarding : x.link # NoLink => x.link # t
        BY <2>5 DEF ZoneIInv, ForwardingsOfOwn
  <2>8. NoZoneLeft'
        BY <2>2, <2>3, <2>6, <2>7 DEF ZoneIInv, NoZoneLeft
  <2> QED BY <2>4, <2>8 DEF ZoneIInv
<1>9. ASSUME NEW t \in Tunnels, AddTunnel(t) \/ EditTunnel(t)
      PROVE  ZoneIInv'
  <2>1. SetUp(t) /\ features' = features \cup {t}
        BY <1>9 DEF AddTunnel, EditTunnel
  <2> QED BY <1>7, <2>1
<1> QED BY <1>1, <1>2, <1>3, <1>4, <1>5, <1>6, <1>8, <1>9
        DEF Next, vars, SaveRules, SameZones, AddRule, AddRuleToTop, EditRule, DeleteRule, OrderRules,
            SetReflection, Commit, CommitBypassing

LEMMA ZoneInvariant == Spec => []ZoneIInv
BY ZoneInit, ZoneStep, PTL DEF Spec

(* The ends of every forwarding exist, but for an administrator's forwarding  *)
(* of a zone that went with its WireGuard instance.                          *)
THEOREM FirewallForwardingsJoin == Spec => []ForwardingsJoin
BY ZoneInvariant, PTL DEF ZoneIInv

(* A tunnel is in zone openvpn from its start, and no call on another tunnel, *)
(* feature or zone takes it out while there is such a zone.                  *)
THEOREM FirewallTunnelsStay == Spec => TunnelsStay
<1>1. ASSUME ZoneIInv, [Next]_vars
      PROVE  [\A t \in Tunnels \cap features' :
                 InZone(t) \/ t \notin features => InZone(t)' \/ "openvpn" \notin Zones']_vars
  <2> SUFFICES ASSUME Next, NEW t \in Tunnels, t \in features', InZone(t) \/ t \notin features,
                      "openvpn" \in Zones'
               PROVE  InZone(t)'
      BY <1>1
  <2> USE FirewallAssumption
  <2>1. ASSUME "openvpn" \in Zones => zone'["openvpn"] = zone["openvpn"], t \in features
        PROVE  InZone(t)'
        BY <2>1 DEF InZone
  <2>2. CASE UNCHANGED <<zone, features>>
        BY <2>1, <2>2
  <2>3. ASSUME NEW n \in Guests \cup WireGuards, NEW to, NEW from, AddZone(n, to, from)
        PROVE  InZone(t)'
        BY <2>1, <2>3 DEF AddZone, Put, Zones
  <2>4. ASSUME NEW n \in Names, DeleteZone(n)
        PROVE  InZone(t)'
        BY <2>1, <2>4 DEF DeleteZone, Zones
  <2>5. ASSUME NEW w \in WireGuards, AddWireGuard(w)
        PROVE  InZone(t)'
        BY <2>1, <2>5 DEF AddWireGuard, Put, Zones
  <2>6. ASSUME NEW w \in WireGuards, DeleteWireGuard(w)
        PROVE  InZone(t)'
        BY <2>1, <2>6 DEF DeleteWireGuard, Zones
  <2>7. ASSUME NEW u \in Tunnels, AddTunnel(u) \/ EditTunnel(u)
        PROVE  InZone(t)'
    <3>0. SetUp(u) /\ (t = u \/ t \in features)
          BY <2>7 DEF AddTunnel, EditTunnel
    <3>1. CASE "openvpn" \in Zones
      <4>1. zone'["openvpn"] = [zone["openvpn"] EXCEPT !.device = @ \cup {u}]
            BY <3>0, <3>1 DEF SetUp, Joined, Put
      <4>2. zone["openvpn"] \in Zone
            BY <1>1, <3>1 DEF ZoneIInv, ZoneType
      <4>3. /\ zone'["openvpn"].network = zone["openvpn"].network
            /\ zone'["openvpn"].device = zone["openvpn"].device \cup {u}
            BY <4>1, <4>2 DEF Zone
      <4> QED BY <3>0, <4>3 DEF InZone
    <3>2. CASE "openvpn" \notin Zones
      <4>1. t = u
            BY <3>0, <3>2 DEF InZone
      <4>2. zone'["openvpn"] = NewZone(NoLink, {u})
            BY <3>0, <3>2 DEF SetUp, Joined, Put
      <4> QED BY <4>1, <4>2 DEF InZone, NewZone
    <3> QED BY <3>1, <3>2
  <2>8. ASSUME NEW u \in Tunnels, DeleteTunnel(u)
        PROVE  InZone(t)'
    <3>1. t # u /\ t \in features
          BY <2>8 DEF DeleteTunnel
    <3>2. "openvpn" \in Zones /\ zone["openvpn"] \in Zone
          BY <1>1, <3>1 DEF InZone, ZoneIInv, ZoneType
    <3>3. zone'["openvpn"] = [zone["openvpn"] EXCEPT !.device = @ \ {u}]
          BY <2>8, <3>2 DEF DeleteTunnel
    <3>4. /\ zone'["openvpn"].network = zone["openvpn"].network
          /\ zone'["openvpn"].device = zone["openvpn"].device \ {u}
          BY <3>2, <3>3 DEF Zone
    <3> QED BY <3>1, <3>4 DEF InZone
  <2> QED BY <2>2, <2>3, <2>4, <2>5, <2>6, <2>7, <2>8
          DEF Next, SaveRules, SameZones, AddRule, AddRuleToTop, EditRule, DeleteRule, OrderRules,
              EditZone, SetReflection, Commit, CommitBypassing
<1> QED BY <1>1, ZoneInvariant, PTL DEF Spec, TunnelsStay

-----------------------------------------------------------------------------
(* Orders.                                                                   *)

(* b puts the rules of each kind one after the other.                        *)
OrdersChains(b, rs) ==
    /\ \A x, y \in DOMAIN rs :
          rs[x].kind = rs[y].kind => (x = y <=> <<x, y>> \notin b /\ <<y, x>> \notin b)
    /\ \A x, y, z \in DOMAIN rs :
          /\ rs[x].kind = rs[y].kind /\ rs[y].kind = rs[z].kind
          /\ <<x, y>> \in b /\ <<y, z>> \in b
          => <<x, z>> \in b

LEMMA Blocks ==
    \A k, l \in Kinds : Block[k] \in Nat /\ (Block[k] = Block[l] => k = l)
BY DEF Kinds, Block

(* A part of what is in order is in order.                                   *)
LEMMA OrderOfPart ==
    ASSUME NEW b, NEW S, IsOrder(b, S), NEW T \in SUBSET S
    PROVE  IsOrder(b \cap (T \X T), T)
BY DEF IsOrder

LEMMA OrderOfChains ==
    ASSUME NEW b, NEW rs, IsOrder(b, DOMAIN rs)
    PROVE  OrdersChains(b, rs)
BY DEF IsOrder, OrdersChains

(* One rule more, behind or before the others.                               *)
LEMMA OrderWithLast ==
    ASSUME NEW b, NEW S, IsOrder(b, S), NEW id, id \notin S
    PROVE  IsOrder(b \cup (S \X {id}), S \cup {id})
BY DEF IsOrder

LEMMA OrderWithFirst ==
    ASSUME NEW b, NEW S, IsOrder(b, S), NEW id, id \notin S
    PROVE  IsOrder(b \cup ({id} \X S), S \cup {id})
BY DEF IsOrder

(* Whatever the places of the kinds among each other were, reordering makes   *)
(* one order of the orders of the kinds.                                     *)
LEMMA ReorderedIsOrder ==
    ASSUME NEW b, NEW rs, \A x \in DOMAIN rs : rs[x].kind \in Kinds, OrdersChains(b, rs)
    PROVE  IsOrder(Reordered(rs, b), DOMAIN rs)
<1> DEFINE D == DOMAIN rs
           R == Reordered(rs, b)
<1>1. ASSUME NEW x \in D, NEW y \in D
      PROVE  <<x, y>> \in R <=> \/ Block[rs[x].kind] < Block[rs[y].kind]
                              \/ (rs[x].kind = rs[y].kind /\ <<x, y>> \in b)
      BY Blocks DEF Reordered
<1>2. R \subseteq D \X D
      BY DEF Reordered
<1> HIDE DEF R
<1> DEFINE Height(x) == Block[rs[x].kind]
<1>3. \A x, y \in D : Height(x) \in Nat /\ (Height(x) = Height(y) <=> rs[x].kind = rs[y].kind)
      BY Blocks
<1>4. \A x, y \in D : <<x, y>> \in R <=> Height(x) < Height(y) \/ (Height(x) = Height(y) /\ <<x, y>> \in b)
      BY <1>1, <1>3
<1> HIDE DEF Height
<1>5. ASSUME NEW x \in D, NEW y \in D
      PROVE  x = y <=> <<x, y>> \notin R /\ <<y, x>> \notin R
      BY <1>3, <1>4 DEF OrdersChains
<1>6. ASSUME NEW x \in D, NEW y \in D, NEW z \in D, <<x, y>> \in R, <<y, z>> \in R
      PROVE  <<x, z>> \in R
      BY <1>3, <1>4, <1>6 DEF OrdersChains
<1>7. IsOrder(R, D)
      BY <1>2, <1>5, <1>6 DEF IsOrder
<1> QED BY <1>7 DEF R

(* Rules of one kind stay in the order b.                                    *)
LEMMA ReorderedKeeps ==
    ASSUME NEW b, NEW rs, NEW x \in DOMAIN rs, NEW y \in DOMAIN rs,
           rs[x].kind = rs[y].kind, rs[x].kind \in Kinds
    PROVE  <<x, y>> \in Reordered(rs, b) <=> <<x, y>> \in b
BY Blocks DEF Reordered

-----------------------------------------------------------------------------
(* The rules.                                                                *)

RuleType ==
    /\ DOMAIN rules \subseteq Rules \cup Services
    /\ rules \in [DOMAIN rules -> Rule]
    /\ IsOrder(before, DOMAIN rules)

NoRuleLeft == \A x \in DOMAIN rules : rules[x].link \in features \cup {NoLink}

RuleIInv == RuleType /\ NoRuleLeft

LEMMA RuleFields ==
    ASSUME RuleType, NEW x \in DOMAIN rules
    PROVE  rules[x] \in Rule /\ rules[x].kind \in Kinds /\ rules[x].link \in Services \cup {NoLink}
BY DEF RuleType, Rule

LEMMA WithoutRulesType ==
    ASSUME RuleType, NEW S
    PROVE  /\ DOMAIN WithoutRules(S) = DOMAIN rules \ S
           /\ WithoutRules(S) \in [DOMAIN rules \ S -> Rule]
           /\ \A x \in DOMAIN rules \ S : WithoutRules(S)[x] = rules[x]
BY DEF WithoutRules, Restrict, RuleType

LEMMA NewRuleIsRule ==
    ASSUME NEW k \in Kinds, NEW link \in Services \cup {NoLink}
    PROVE  [kind |-> k, link |-> link] \in Rule
BY DEF Rule

(* Rules that are reordered have an order if those of each kind have one.     *)
LEMMA ReorderedType ==
    ASSUME NEW D \in SUBSET (Rules \cup Services), NEW rs \in [D -> Rule], NEW b, OrdersChains(b, rs),
           rules' = rs, before' = Reordered(rs, b)
    PROVE  RuleType'
<1>1. DOMAIN rs = D /\ \A x \in D : rs[x].kind \in Kinds
      BY DEF Rule
<1>2. IsOrder(Reordered(rs, b), D)
      BY <1>1, ReorderedIsOrder
<1> QED BY <1>1, <1>2 DEF RuleType

LEMMA AtEndOrder ==
    ASSUME RuleType, NEW id
    PROVE  IsOrder(AtEnd(id), DOMAIN rules \cup {id})
<1>1. CASE id \in DOMAIN rules
  <2>1. AtEnd(id) = before /\ DOMAIN rules \cup {id} = DOMAIN rules
        BY <1>1 DEF AtEnd
  <2> QED BY <2>1 DEF RuleType
<1>2. CASE id \notin DOMAIN rules
  <2>1. AtEnd(id) = before \cup ((DOMAIN rules) \X {id})
        BY <1>2 DEF AtEnd
  <2> QED BY <1>2, <2>1, OrderWithLast DEF RuleType
<1> QED BY <1>1, <1>2

LEMMA RuleInit == Init => RuleIInv
BY DEF Init, RuleIInv, RuleType, NoRuleLeft, IsOrder

LEMMA RuleStep ==
    ASSUME RuleIInv, [Next]_vars
    PROVE  RuleIInv'
<1> USE FirewallAssumption
<1>1. CASE UNCHANGED <<rules, before, features>>
      BY <1>1 DEF RuleIInv, RuleType, NoRuleLeft, IsOrder
<1> DEFINE D == DOMAIN rules
<1>2. RuleType
      BY DEF RuleIInv
<1>3. ASSUME NEW r \in Rules, NEW k \in RuleKinds, AddRule(r, k) \/ AddRuleToTop(r, k)
      PROVE  RuleIInv'
  <2> DEFINE new == [kind |-> k, link |-> NoLink]
             rs == NewRule(r, k)
             top == before \cup ({r} \X D)
  <2>1. r \notin D /\ rules' = rs /\ UNCHANGED features
        BY <1>3 DEF AddRule, AddRuleToTop, SaveRules, SameZones
  <2>2. new \in Rule /\ new.link = NoLink
        BY NewRuleIsRule
  <2>3. /\ DOMAIN rs = D \cup {r} /\ rs \in [D \cup {r} -> Rule]
        /\ rs[r] = new /\ \A x \in D \ {r} : rs[x] = rules[x]
    <3>1. rs = WithRule(r, new)
          BY DEF NewRule
    <3> HIDE DEF rs, new
    <3> QED BY <1>2, <2>2, <3>1 DEF WithRule, RuleType
  <2>4. OrdersChains(AtEnd(r), rs) /\ OrdersChains(top, rs)
    <3>1. IsOrder(AtEnd(r), DOMAIN rs)
          BY <1>2, <2>3, AtEndOrder
    <3>2. IsOrder(top, DOMAIN rs)
          BY <1>2, <2>1, <2>3, OrderWithFirst DEF RuleType
    <3> QED BY <3>1, <3>2, OrderOfChains
  <2>5. before' = Reordered(rs, AtEnd(r)) \/ before' = Reordered(rs, top)
        BY <1>3 DEF AddRule, AddRuleToTop, SaveRules
  <2>6. D \cup {r} \in SUBSET (Rules \cup Services)
        BY <1>2 DEF RuleType
  <2>7. NoRuleLeft'
        BY <2>1, <2>2, <2>3 DEF RuleIInv, NoRuleLeft
  <2> HIDE DEF rs, top
  <2>8. RuleType'
        BY <2>1, <2>3, <2>4, <2>5, <2>6, ReorderedType
  <2> QED BY <2>7, <2>8 DEF RuleIInv
<1>4. ASSUME NEW id \in Rules \cup Services, NEW k \in Kinds, NEW linked \in BOOLEAN,
             EditRule(id, k, linked)
      PROVE  RuleIInv'
  <2> DEFINE new == [kind |-> k, link |-> IF linked THEN rules[id].link ELSE NoLink]
             rs == WithRule(id, new)
  <2>1. id \in D /\ rules' = rs /\ before' = before /\ UNCHANGED features
        BY <1>4 DEF EditRule, SaveRules, SameZones
  <2>2. new \in Rule /\ new.link \in {rules[id].link, NoLink}
        BY <1>2, <2>1, RuleFields, NewRuleIsRule
  <2> HIDE DEF new
  <2>3. /\ DOMAIN rs = D /\ rs \in [D -> Rule]
        /\ rs[id] = new /\ \A x \in D \ {id} : rs[x] = rules[x]
    <3>1. D \cup {id} = D /\ rs = WithRule(id, new)
          BY <2>1
    <3> HIDE DEF rs
    <3> QED BY <1>2, <2>2, <3>1 DEF WithRule, RuleType
  <2> HIDE DEF rs
  <2>4. RuleType'
        BY <1>2, <2>1, <2>3 DEF RuleType
  <2>5. NoRuleLeft'
        BY <2>1, <2>2, <2>3 DEF RuleIInv, NoRuleLeft
  <2> QED BY <2>4, <2>5 DEF RuleIInv
<1>5. ASSUME NEW r \in Rules \cup Services, DeleteRule(r)
      PROVE  RuleIInv'
  <2> DEFINE rs == WithoutRules({r})
  <2>1. rules' = rs /\ before' = Reordered(rs, before) /\ UNCHANGED features
        BY <1>5 DEF DeleteRule, SaveRules, SameZones
  <2>2. /\ DOMAIN rs = D \ {r} /\ rs \in [D \ {r} -> Rule]
        /\ \A x \in D \ {r} : rs[x] = rules[x]
        BY <1>2, WithoutRulesType
  <2>3. OrdersChains(before, rs)
        BY <1>2, <2>2 DEF RuleType, IsOrder, OrdersChains
  <2>4. NoRuleLeft'
        BY <2>1, <2>2 DEF RuleIInv, NoRuleLeft
  <2>5. D \ {r} \in SUBSET (Rules \cup Services)
        BY <1>2 DEF RuleType
  <2> HIDE DEF rs
  <2>6. RuleType'
        BY <2>1, <2>2, <2>3, <2>5, ReorderedType
  <2> QED BY <2>4, <2>6 DEF RuleIInv
<1>6. ASSUME NEW k \in RuleKinds, OrderRules(k)
      PROVE  RuleIInv'
  <2> DEFINE C == Chain(rules, k)
  <2>1. PICK b \in SUBSET (C \X C) :
            /\ IsOrder(b, C)
            /\ SaveRules(rules, Reordered(rules, b \cup (before \ (C \X C))))
        BY <1>6 DEF OrderRules
  <2> DEFINE c == b \cup (before \ (C \X C))
  <2>2. rules' = rules /\ before' = Reordered(rules, c) /\ UNCHANGED features
        BY <2>1 DEF SaveRules, SameZones
  <2>3. OrdersChains(before, rules)
        BY <1>2, OrderOfChains DEF RuleType
  <2>4. \A x, y \in D :
            rules[x].kind = rules[y].kind =>
                <<x, y>> \in c <=> IF rules[x].kind = k THEN <<x, y>> \in b ELSE <<x, y>> \in before
        BY DEF Chain
  <2>5. \A x \in D : rules[x].kind = k <=> x \in C
        BY DEF Chain
  <2> HIDE DEF c, C
  <2>6. OrdersChains(c, rules)
        BY <2>1, <2>3, <2>4, <2>5 DEF OrdersChains, IsOrder
  <2>7. D \in SUBSET (Rules \cup Services) /\ rules \in [D -> Rule]
        BY <1>2 DEF RuleType
  <2>8. RuleType'
        BY <2>2, <2>6, <2>7, ReorderedType
  <2>9. NoRuleLeft'
        BY <2>2 DEF RuleIInv, NoRuleLeft
  <2> QED BY <2>8, <2>9 DEF RuleIInv
<1>7. ASSUME rules' = rules, before' = Reordered(rules, before), features \subseteq features'
      PROVE  RuleIInv'
  <2>1. OrdersChains(before, rules)
        BY <1>2, OrderOfChains DEF RuleType
  <2>2. D \in SUBSET (Rules \cup Services) /\ rules \in [D -> Rule]
        BY <1>2 DEF RuleType
  <2>3. RuleType'
        BY <1>7, <2>1, <2>2, ReorderedType
  <2> QED BY <1>7, <2>3 DEF RuleIInv, NoRuleLeft
(* A service is set up, or set up again.                                      *)
<1>8. ASSUME NEW w \in Services, rules' = WithService(w), before' = Reordered(rules', AtEnd(w)),
             features \cup {w} \subseteq features'
      PROVE  RuleIInv'
  <2> DEFINE rs == WithService(w)
  <2>1. rules' = rs /\ before' = Reordered(rs, AtEnd(w)) /\ features \cup {w} \subseteq features'
        BY <1>8
  <2>2. PICK new \in Rule : new.link = w /\ rs = WithRule(w, new)
    <3>1. (IF w \in D THEN rules[w].kind ELSE "input") \in Kinds
          BY <1>2, RuleFields DEF Kinds, Block
    <3> QED BY <3>1, NewRuleIsRule DEF WithService
  <2>3. /\ DOMAIN rs = D \cup {w} /\ rs \in [D \cup {w} -> Rule]
        /\ rs[w] = new /\ \A x \in D \ {w} : rs[x] = rules[x]
    <3> HIDE DEF rs
    <3> QED BY <1>2, <2>2 DEF WithRule, RuleType
  <2>4. OrdersChains(AtEnd(w), rs)
    <3>1. IsOrder(AtEnd(w), DOMAIN rs)
          BY <1>2, <2>3, AtEndOrder
    <3> QED BY <3>1, OrderOfChains
  <2>5. NoRuleLeft'
        BY <2>1, <2>2, <2>3 DEF RuleIInv, NoRuleLeft
  <2>6. D \cup {w} \in SUBSET (Rules \cup Services)
        BY <1>2 DEF RuleType
  <2> HIDE DEF rs
  <2>7. RuleType'
        BY <2>1, <2>3, <2>4, <2>6, ReorderedType
  <2> QED BY <2>5, <2>7 DEF RuleIInv
(* What is linked to a feature goes with it.                                  *)
<1>9. ASSUME NEW w, DropRules(w), features' = features \ {w}
      PROVE  RuleIInv'
  <2> DEFINE S == Linked(w).rules
             rs == WithoutRules(S)
  <2>1. S = {x \in D : rules[x].link = w}
        BY DEF Linked
  <2>2. /\ rules' = rs /\ features' = features \ {w}
        /\ before' = before \cap ((DOMAIN rules') \X (DOMAIN rules'))
        BY <1>9 DEF DropRules
  <2> HIDE DEF S
  <2>3. /\ DOMAIN rs = D \ S /\ rs \in [D \ S -> Rule]
        /\ \A x \in D \ S : rs[x] = rules[x]
        BY <1>2, WithoutRulesType
  <2> HIDE DEF rs
  <2>4. IsOrder(before', DOMAIN rules')
        BY <1>2, <2>2, <2>3, OrderOfPart DEF RuleType
  <2>5. RuleType'
        BY <1>2, <2>2, <2>3, <2>4 DEF RuleType
  <2>6. NoRuleLeft'
        BY <2>1, <2>2, <2>3 DEF RuleIInv, NoRuleLeft
  <2> QED BY <2>5, <2>6 DEF RuleIInv
<1>10. ASSUME NEW t \in Tunnels, SetUp(t), features \cup {t} \subseteq features'
       PROVE  RuleIInv'
  <2>1. CASE t \in Servers
        BY <1>8, <1>10, <2>1 DEF SetUp, Services
  <2>2. CASE t \notin Servers
    <3>1. rules' = rules /\ (before' = before \/ before' = Reordered(rules, before))
          BY <1>10, <2>2 DEF SetUp
    <3>2. CASE before' = before
          BY <1>2, <1>10, <3>1, <3>2 DEF RuleIInv, RuleType, NoRuleLeft
    <3> QED BY <1>7, <1>10, <3>1, <3>2
  <2> QED BY <2>1, <2>2
<1>11. ASSUME NEW t \in Tunnels, AddTunnel(t) \/ EditTunnel(t) \/ DeleteTunnel(t)
       PROVE  RuleIInv'
       BY <1>9, <1>10, <1>11 DEF AddTunnel, EditTunnel, DeleteTunnel
<1>12. ASSUME NEW n, NEW to, NEW from, AddZone(n, to, from) \/ DeleteZone(n)
       PROVE  RuleIInv'
       BY <1>7, <1>12 DEF AddZone, DeleteZone
<1>13. ASSUME NEW w \in WireGuards, AddWireGuard(w) \/ DeleteWireGuard(w)
       PROVE  RuleIInv'
       BY <1>8, <1>9, <1>13 DEF AddWireGuard, DeleteWireGuard, Services
<1>14. "input" \in Kinds /\ RuleKinds \subseteq Kinds
       BY DEF Kinds, Block
<1> HIDE DEF D
<1> QED BY <1>1, <1>3, <1>4, <1>5, <1>6, <1>11, <1>12, <1>13, <1>14
        DEF Next, vars, EditZone, SetReflection, Commit, CommitBypassing

LEMMA RuleInvariant == Spec => []RuleIInv
BY RuleInit, RuleStep, PTL DEF Spec

(* Whatever is linked to a WireGuard instance or a server tunnel goes with    *)
(* it: no zone, no forwarding and no rule stays that is linked to one that is *)
(* not set up.                                                               *)
THEOREM FirewallNothingLeft == Spec => []NothingLeft
<1>1. ZoneIInv /\ RuleIInv => NothingLeft
      BY DEF ZoneIInv, RuleIInv, NothingLeft, NoRuleLeft
<1> QED BY <1>1, ZoneInvariant, RuleInvariant, PTL

-----------------------------------------------------------------------------
(* Forwardings and reflections.                                              *)

ReflectionIInv ==
    /\ forwarding \subseteq Forwarding
    /\ reflection \in [Redirects -> SUBSET Names]
    /\ changed \in BOOLEAN /\ bypassed \subseteq Names
    /\ ReflectionsExist

LEMMA ForwardsType ==
    ASSUME NEW n \in Names, NEW to \in SUBSET Names, NEW from \in SUBSET Names, NEW link \in Links
    PROVE  Forwards(n, to, from, link) \subseteq Forwarding
BY DEF Forwards, Forwarding

LEMMA ReflectionInit == Init => ReflectionIInv
<1> SUFFICES ASSUME Init PROVE ReflectionIInv
    OBVIOUS
<1>1. forwarding \subseteq Forwarding
      BY DEF Init, Forwarding, Names, Fixed, Links
<1>2. reflection = [d \in Redirects |-> {}] /\ bypassed = {}
      BY DEF Init
<1>3. changed \in BOOLEAN
      BY DEF Init
<1> QED BY <1>1, <1>2, <1>3 DEF ReflectionIInv, ReflectionsExist

LEMMA ReflectionStep ==
    ASSUME ZoneIInv, ReflectionIInv, [Next]_vars
    PROVE  ReflectionIInv'
<1> USE FirewallAssumption
<1>1. Zones \subseteq Names
      BY DEF ZoneIInv, ZoneType
<1>2. CASE UNCHANGED vars
      BY <1>2 DEF vars, ReflectionIInv, ReflectionsExist, Zones
(* A call that saves leaves the reflections to the next commit.               *)
<1>3. ASSUME changed' = TRUE, UNCHANGED <<reflection, bypassed>>, forwarding' \subseteq Forwarding
      PROVE  ReflectionIInv'
      BY <1>3 DEF ReflectionIInv, ReflectionsExist
<1>4. CASE changed' = TRUE /\ SameZones
      BY <1>3, <1>4 DEF ReflectionIInv, SameZones
<1>5. ASSUME NEW n \in Guests \cup WireGuards, NEW to \in SomeZones, NEW from \in SomeZones,
             AddZone(n, to, from) \/ EditZone(n, to, from)
      PROVE  ReflectionIInv'
  <2>1. Forwards(n, to, from, NoLink) \subseteq Forwarding
        BY <1>1, AskedExist, ForwardsType DEF Names, Links
  <2>2. Apart(n) \subseteq forwarding
        BY DEF Apart
  <2>3. forwarding' \subseteq Forwarding
        BY <1>5, <2>1, <2>2 DEF AddZone, EditZone, ReflectionIInv
  <2> QED BY <1>3, <1>5, <2>3 DEF AddZone, EditZone
<1>6. ASSUME NEW n, DeleteZone(n)
      PROVE  ReflectionIInv'
  <2>1. forwarding' \subseteq Forwarding
        BY <1>6 DEF DeleteZone, Apart, ReflectionIInv
  <2> QED BY <1>3, <1>6, <2>1 DEF DeleteZone
<1>7. ASSUME NEW n \in Names, NEW link \in Links
      PROVE  TrustedForwards(n, link) \subseteq Forwarding
      BY ForwardsType DEF TrustedForwards, Names, Fixed
<1>8. ASSUME NEW w \in WireGuards, AddWireGuard(w) \/ DeleteWireGuard(w)
      PROVE  ReflectionIInv'
  <2>1. TrustedForwards(w, w) \subseteq Forwarding
        BY <1>7 DEF Names, Links
  <2>2. forwarding' \subseteq Forwarding
        BY <1>8, <2>1 DEF AddWireGuard, DeleteWireGuard, ReflectionIInv
  <2> QED BY <1>3, <1>8, <2>2 DEF AddWireGuard, DeleteWireGuard
(* A tunnel that leaves the firewall as it was leaves the zones as they were.  *)
<1>9. ASSUME NEW t \in Tunnels, SetUp(t) \/ DeleteTunnel(t)
      PROVE  ReflectionIInv'
  <2>1. TrustedForwards("openvpn", NoLink) \subseteq Forwarding
        BY <1>7 DEF Names, Links
  <2>2. forwarding' \subseteq Forwarding
        BY <1>9, <2>1 DEF SetUp, DeleteTunnel, ReflectionIInv
  <2>3. changed \in BOOLEAN /\ Moved \in BOOLEAN /\ UNCHANGED <<reflection, bypassed>>
        BY <1>9 DEF SetUp, DeleteTunnel, ReflectionIInv, Moved
  <2>4. changed' \in BOOLEAN /\ (changed \/ Moved => changed' = TRUE)
        BY <1>9, <2>3 DEF SetUp, DeleteTunnel
  <2>5. CASE changed'
        BY <1>3, <2>2, <2>3, <2>4, <2>5
  <2>6. CASE ~changed'
    <3>1. ~changed /\ zone' = zone
          BY <2>4, <2>6 DEF Moved
    <3> QED BY <2>2, <2>3, <2>4, <3>1 DEF ReflectionIInv, ReflectionsExist, Zones
  <2> QED BY <2>4, <2>5, <2>6
<1>10. ASSUME NEW d \in Redirects, NEW S \in SomeZones, SetReflection(d, S)
       PROVE  ReflectionIInv'
       BY <1>1, <1>10, AskedExist DEF SetReflection, ReflectionIInv, ReflectionsExist
<1>11. CASE Commit
       BY <1>11 DEF Commit, Fixable, ReflectionIInv, ReflectionsExist, Zones
<1>12. CASE CommitBypassing
       BY <1>12 DEF CommitBypassing, ReflectionIInv, ReflectionsExist, Zones
<1> QED BY <1>2, <1>4, <1>5, <1>6, <1>8, <1>9, <1>10, <1>11, <1>12
        DEF Next, SaveRules, AddRule, AddRuleToTop, EditRule, DeleteRule, OrderRules, AddTunnel,
            EditTunnel

LEMMA ReflectionInvariant == Spec => []ReflectionIInv
<1>1. ZoneIInv /\ ReflectionIInv /\ [Next]_vars => ReflectionIInv'
      BY ReflectionStep
<1> QED BY <1>1, ReflectionInit, ZoneInvariant, PTL DEF Spec

(* No committed port forward is reflected to a zone that is gone, but for     *)
(* zones that were gone at a commit without the hook.                        *)
THEOREM FirewallReflectionsExist == Spec => []ReflectionsExist
BY ReflectionInvariant, PTL DEF ReflectionIInv

(* Types of zones, forwardings, rules, reflections; the places of the rules   *)
(* are always an order: none is before and behind another.                   *)
THEOREM FirewallTypeCorrect == Spec => []TypeOK
<1>1. ZoneIInv /\ RuleIInv /\ ReflectionIInv => TypeOK
      BY DEF ZoneIInv, ZoneType, RuleIInv, RuleType, ReflectionIInv, TypeOK
<1> QED BY <1>1, ZoneInvariant, RuleInvariant, ReflectionInvariant, PTL

-----------------------------------------------------------------------------
(* The order that is kept.                                                   *)

(* Two rules of a kind that stay rules of that kind.                         *)
LEMMA KindsKept ==
    ASSUME NEW k \in Kinds, NEW x, NEW y, {x, y} \subseteq Chain(rules, k) \cap Chain(rules', k), NEW b,
           before' = Reordered(rules', b)
    PROVE  <<x, y>> \in before' <=> <<x, y>> \in b
<1>1. /\ x \in DOMAIN rules' /\ y \in DOMAIN rules'
      /\ rules'[x].kind = k /\ rules'[y].kind = k
      BY DEF Chain
<1> QED BY <1>1, ReorderedKeeps

(* Rules that stay and keep their kind stay in their order, unless it is the  *)
(* order of that kind that is asked for.                                     *)
THEOREM FirewallOrderKept == Spec => OrderKept
<1>1. ASSUME [Next]_vars
      PROVE  [\A k \in Kinds :
                 \/ \A x, y \in Chain(rules, k) \cap Chain(rules', k) :
                       <<x, y>> \in before <=> <<x, y>> \in before'
                 \/ OrderRules(k)]_<<rules, before>>
  <2> SUFFICES ASSUME Next, NEW k \in Kinds, ~OrderRules(k),
                      NEW x \in Chain(rules, k) \cap Chain(rules', k),
                      NEW y \in Chain(rules, k) \cap Chain(rules', k)
               PROVE  <<x, y>> \in before <=> <<x, y>> \in before'
      BY <1>1 DEF vars
  <2>1. x \in DOMAIN rules /\ y \in DOMAIN rules /\ rules[x].kind = k /\ rules[y].kind = k
        BY DEF Chain
  <2>2. ASSUME NEW b, before' = Reordered(rules', b), <<x, y>> \in before <=> <<x, y>> \in b
        PROVE  <<x, y>> \in before <=> <<x, y>> \in before'
        BY <2>2, KindsKept
  <2>3. CASE UNCHANGED before
        BY <2>3
  <2>4. CASE before' = Reordered(rules', before)
        BY <2>2, <2>4
  <2>5. ASSUME NEW id, before' = Reordered(rules', AtEnd(id))
        PROVE  <<x, y>> \in before <=> <<x, y>> \in before'
        BY <2>1, <2>2, <2>5 DEF AtEnd
  <2>6. ASSUME NEW r, NEW l, AddRuleToTop(r, l)
        PROVE  <<x, y>> \in before <=> <<x, y>> \in before'
    <3> DEFINE b == before \cup ({r} \X (DOMAIN rules))
    <3>1. r # x
          BY <2>1, <2>6 DEF AddRuleToTop
    <3>2. before' = Reordered(rules', b)
          BY <2>6 DEF AddRuleToTop, SaveRules
    <3>3. <<x, y>> \in before <=> <<x, y>> \in b
          BY <3>1
    <3> HIDE DEF b
    <3> QED BY <2>2, <3>2, <3>3
  <2>7. ASSUME NEW l, l # k, OrderRules(l)
        PROVE  <<x, y>> \in before <=> <<x, y>> \in before'
    <3> DEFINE C == Chain(rules, l)
    <3>1. PICK b \in SUBSET (C \X C) :
              SaveRules(rules, Reordered(rules, b \cup (before \ (C \X C))))
          BY <2>7 DEF OrderRules
    <3> DEFINE c == b \cup (before \ (C \X C))
    <3>2. before' = Reordered(rules', c)
          BY <3>1 DEF SaveRules
    <3>3. x \notin C
          BY <2>1, <2>7 DEF Chain
    <3>4. <<x, y>> \in before <=> <<x, y>> \in c
          BY <3>1, <3>3
    <3> HIDE DEF c
    <3> QED BY <2>2, <3>2, <3>4
  <2>8. ASSUME NEW w, DropRules(w)
        PROVE  <<x, y>> \in before <=> <<x, y>> \in before'
        BY <2>8 DEF DropRules, Chain
  <2>9. ASSUME NEW t, SetUp(t)
        PROVE  <<x, y>> \in before <=> <<x, y>> \in before'
        BY <2>3, <2>4, <2>5, <2>9 DEF SetUp
  <2> QED BY <2>3, <2>4, <2>5, <2>6, <2>7, <2>8, <2>9
          DEF Next, SaveRules, SameZones, AddRule, EditRule, DeleteRule, AddZone, EditZone,
              DeleteZone, AddWireGuard, DeleteWireGuard, AddTunnel, EditTunnel, DeleteTunnel,
              SetReflection, Commit, CommitBypassing
<1> QED BY <1>1, PTL DEF Spec, OrderKept
=============================================================================
