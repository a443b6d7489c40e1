--------------------------- MODULE ThreatShieldProofs ---------------------------
(***************************************************************************)
(* DNS enforcement and banIP follow the interfaces and zones, for any set  *)
(* of interfaces, devices and zones and any number of calls and mishaps.   *)
(* The inductive invariant IInv says what is given and pending             *)
(* (Bookkeeping), that a change which could part the devices from the      *)
(* interfaces always waits where the hooks will see it (DnsDue, WanDue),   *)
(* and that what banIP runs with is what is committed (ActiveDue).         *)
(***************************************************************************)
EXTENDS ThreatShield, TLAPS

(* What has a device has it alone; a bond and what is absent have none. *)
NetOK(net) ==
    /\ \A i \in Ifaces : net[i].port = NoPort <=> net[i].kind \in {"none", "bond"}
    /\ \A i \in Ifaces : net[i].kind = "none" => net[i].metric = FALSE
    /\ \A i, j \in Ifaces : i # j /\ net[i].port = net[j].port => net[i].port = NoPort

NetworksOK == NetOK(saved.network) /\ NetOK(stored.network)

(* DNS is enforced on the devices of the chosen zones of c. *)
DnsRight(c) == c.adblock.devices \cap Ports = DevicesOf(c, c.adblock.zones)

(* With zones chosen adblock has network devices only, with none it has no   *)
(* network device: names of zones that a migration left at most.             *)
DevicesFit(c) ==
    IF c.adblock.zones = {} THEN c.adblock.devices \cap Ports = {}
    ELSE c.adblock.devices \subseteq Ports

(* banIP is set up for the interfaces of zone wan of c, but for some. *)
WanRight(c, except) ==
    /\ SameBut(c.banip.ifaces, WanIfaces(c), except)
    /\ SameBut(c.banip.devices, UpNames(c, WanIfaces(c)), UpNames(c, except))

(* What is not pending is committed; ns.commit was given a part of what is   *)
(* pending, and all of it if nobody has saved anything since.                *)
Bookkeeping ==
    /\ \A x \in Configs \ pending : saved[x] = stored[x]
    /\ pc = "idle" => given = {}
    /\ pc = "hooks" => given \subseteq pending /\ (late \/ given = pending)

(* DNS is enforced as saved, or a change waits that will make the hook look. *)
DnsDue ==
    /\ DevicesFit(saved) /\ DevicesFit(stored)
    /\ ~late =>
        /\ \/ DnsRight(saved)
           \/ pc # "hooks" /\ pending \cap {"network", "firewall"} # {}
           \/ "adblock_hook" \in todo /\ given \cap {"network", "firewall"} # {}
        /\ pc # "hooks" => DnsRight(stored)

(* banIP is set up as saved, or a change waits that will make its hook look. *)
WanDue ==
    ~late =>
        /\ \/ WanRight(saved, unseen)
           \/ pc # "hooks" /\ pending \cap {"network", "banip"} # {}
           \/ "banip_hook" \in todo /\ given \cap {"network", "banip"} # {}
        /\ pc # "hooks" => WanRight(stored, unseen)

(* banIP filters as committed, or it will be started again. *)
ActiveDue ==
    ~late => \/ active = Started(stored)
             \/ pc = "idle" /\ "banip" \in pending
             \/ pc # "idle" /\ given \cap {"banip", "network"} # {}

IInv == TypeOK /\ NetworksOK /\ Bookkeeping /\ DnsDue /\ WanDue /\ ActiveDue

-----------------------------------------------------------------------------
(* A configuration is made of its four parts, and its fields are they. *)
LEMMA ConfigFields ==
    ASSUME NEW c \in Config
    PROVE  /\ c.network \in Network /\ c.firewall \in Firewall
           /\ c.adblock \in Adblock /\ c.banip \in Banip
           /\ c = [network |-> c.network, firewall |-> c.firewall,
                   adblock |-> c.adblock, banip |-> c.banip]
BY DEF Config

(* Which other zone an interface is in makes no difference to wan. *)
LEMMA WanSame ==
    ASSUME NEW c, NEW d, c.network = d.network,
           \A i \in Ifaces : c.firewall[i] = "wan" <=> d.firewall[i] = "wan"
    PROVE  Wan(c) = Wan(d)
<1>1. Interfaces(c) = Interfaces(d)
  BY DEF Interfaces
<1>2. DevicesIn(c, "wan") = DevicesIn(d, "wan")
  BY <1>1 DEF DevicesIn, Interfaces
<1>3. \A x : InterfaceOf(c, x) = InterfaceOf(d, x)
  BY <1>1 DEF InterfaceOf
<1>4. QED
  BY <1>2, <1>3 DEF Wan

(* The devices and the interfaces of zone wan are those of the network and   *)
(* of the zones: the settings of adblock and banIP do not enter.             *)
LEMMA DerivedSame ==
    ASSUME NEW c, NEW d, c.network = d.network, c.firewall = d.firewall, NEW zones
    PROVE  DevicesOf(c, zones) = DevicesOf(d, zones) /\ Wan(c) = Wan(d)
<1>1. Interfaces(c) = Interfaces(d)
  BY DEF Interfaces
<1>2. \A z : DevicesIn(c, z) = DevicesIn(d, z)
  BY <1>1 DEF DevicesIn
<1>3. DevicesOf(c, zones) = DevicesOf(d, zones)
  BY <1>2 DEF DevicesOf
<1>4. Wan(c) = Wan(d)
  BY WanSame
<1>5. QED
  BY <1>3, <1>4

(* Every device of a zone is a network device. *)
LEMMA DevicesArePorts ==
    ASSUME NEW c, c.network \in Network, NetOK(c.network), NEW zones
    PROVE  DevicesOf(c, zones) \subseteq Ports
<1>1. \A i \in Interfaces(c) : c.network[i].kind # "bond" => c.network[i].port \in Ports
  BY DEF Interfaces, Absent, NetOK, Network
<1>2. \A z : DevicesIn(c, z) \subseteq Ports
  BY <1>1 DEF DevicesIn
<1>3. QED
  BY <1>2 DEF DevicesOf

(* The interface looked up by a device of zone wan is in the configuration,  *)
(* so that what banIP is set up for are interfaces and their devices.        *)
LEMMA WanType ==
    ASSUME NEW c, c.network \in Network, NetOK(c.network)
    PROVE  Wan(c).ifaces \in SUBSET Ifaces /\ Wan(c).devices \in SUBSET Uplinks
<1> DEFINE found == {InterfaceOf(c, d) : d \in DevicesIn(c, "wan")}
           up(i) == IF c.network[i].kind = "pppoe" THEN <<"pppoe", i>>
                    ELSE <<"dev", c.network[i].port>>
<1>1. \A d \in DevicesIn(c, "wan") : \E i \in Interfaces(c) : c.network[i].port = d /\ d \in Ports
  BY DEF DevicesIn, Interfaces, Absent, NetOK, Network
<1>2. \A d \in DevicesIn(c, "wan") :
          InterfaceOf(c, d) \in Interfaces(c) /\ c.network[InterfaceOf(c, d)].port \in Ports
  BY <1>1 DEF InterfaceOf
<1>3. found \subseteq Ifaces /\ \A i \in found : c.network[i].port \in Ports
  BY <1>2 DEF Interfaces
<1>4. \A i \in found : up(i) \in Uplinks
  BY <1>3 DEF Uplinks
<1>5. Wan(c) = [ifaces |-> found, devices |-> {up(i) : i \in found}]
  BY DEF Wan
<1>6. Wan(c).ifaces = found /\ Wan(c).devices = {up(i) : i \in found}
  BY <1>5
<1> HIDE DEF found, up
<1>7. QED
  BY <1>3, <1>4, <1>6

(* Since a device is one interface's, the hook finds the interfaces of zone   *)
(* wan, all of them but bonds, and their devices.                            *)
LEMMA WanFound ==
    ASSUME NEW c, c.network \in Network, NetOK(c.network)
    PROVE  Wan(c).ifaces = WanIfaces(c) /\ Wan(c).devices = UpNames(c, WanIfaces(c))
<1> DEFINE found == {InterfaceOf(c, d) : d \in DevicesIn(c, "wan")}
           up(i) == IF c.network[i].kind = "pppoe" THEN <<"pppoe", i>>
                    ELSE <<"dev", c.network[i].port>>
<1>1. \A i \in WanIfaces(c) : i \in Interfaces(c) /\ i \in Ifaces /\ c.network[i].port # NoPort
  BY DEF WanIfaces, Interfaces, Absent, NetOK, Network
<1>2. \A i \in WanIfaces(c) : InterfaceOf(c, c.network[i].port) = i
  <2> SUFFICES ASSUME NEW i \in WanIfaces(c) PROVE InterfaceOf(c, c.network[i].port) = i
    OBVIOUS
  <2>1. \A j \in Interfaces(c) : c.network[j].port = c.network[i].port <=> j = i
    BY <1>1 DEF Interfaces, NetOK
  <2>2. QED
    BY <1>1, <2>1 DEF InterfaceOf
<1>3. DevicesIn(c, "wan") = {c.network[i].port : i \in WanIfaces(c)}
  BY DEF DevicesIn, WanIfaces
<1>4. found = WanIfaces(c)
  BY <1>2, <1>3
<1>5. Wan(c) = [ifaces |-> found, devices |-> {up(i) : i \in found}]
  BY DEF Wan
<1> HIDE DEF found
<1>6. {up(i) : i \in found} = UpNames(c, found)
  BY DEF UpNames
<1> HIDE DEF up
<1>7. QED
  BY <1>4, <1>5, <1>6

(* What the hook computes is right, whatever is excepted. *)
LEMMA WanExact ==
    ASSUME NEW c, c.network \in Network, NetOK(c.network), NEW except,
           c.banip.ifaces = Wan(c).ifaces, c.banip.devices = Wan(c).devices
    PROVE  WanRight(c, except)
BY WanFound DEF WanRight, SameBut

(* Names of interfaces that are the same but for some are the same but for   *)
(* the names of those.                                                       *)
LEMMA NamesBut ==
    ASSUME NEW c, NEW x, NEW y, NEW except, SameBut(x, y, except)
    PROVE  SameBut(UpNames(c, x), UpNames(c, y), UpNames(c, except))
<1>1. \A i : i \in x /\ i \notin except <=> i \in y /\ i \notin except
  BY DEF SameBut
<1>2. \A e : e \in UpNames(c, x) /\ e \notin UpNames(c, except) => e \in UpNames(c, y)
  BY <1>1 DEF UpNames
<1>3. \A e : e \in UpNames(c, y) /\ e \notin UpNames(c, except) => e \in UpNames(c, x)
  BY <1>1 DEF UpNames
<1>4. QED
  BY <1>2, <1>3 DEF SameBut

(* To except more is to ask for less. *)
LEMMA WanGrows ==
    ASSUME NEW c, NEW S, NEW T, S \subseteq T, WanRight(c, S)
    PROVE  WanRight(c, T)
<1>1. UpNames(c, S) \subseteq UpNames(c, T)
  BY DEF UpNames
<1>2. QED
  BY <1>1 DEF WanRight, SameBut

(* What is excepted may move in and out of zone wan. *)
LEMMA WanMoved ==
    ASSUME NEW c, NEW d, c.network = d.network, NEW except,
           c.banip.ifaces = d.banip.ifaces, c.banip.devices = d.banip.devices,
           \A i \in Ifaces : i \in except \/ (c.firewall[i] = "wan" <=> d.firewall[i] = "wan"),
           WanRight(d, except)
    PROVE  WanRight(c, except)
<1>1. Interfaces(c) = Interfaces(d) /\ Interfaces(c) \subseteq Ifaces
  BY DEF Interfaces
<1>2. SameBut(WanIfaces(c), WanIfaces(d), except)
  BY <1>1 DEF SameBut, WanIfaces
<1>3. \A x : UpNames(c, x) = UpNames(d, x)
  BY DEF UpNames
<1>4. SameBut(UpNames(c, WanIfaces(c)), UpNames(c, WanIfaces(d)), UpNames(c, except))
  BY <1>2, NamesBut
<1>5. QED
  BY <1>2, <1>3, <1>4 DEF WanRight, SameBut

-----------------------------------------------------------------------------
(* A call of the API keeps IInv when it names the configurations it changed, *)
(* gives no device to two interfaces, and leaves DNS enforcement and banIP   *)
(* right unless what it names makes the hooks look again.                    *)
LEMMA SaveStep ==
    ASSUME IInv, NEW c \in Config, NEW configs \in SUBSET Configs,
           NetOK(c.network),
           \A x \in Configs \ configs : c[x] = saved[x],
           DevicesFit(c),
           configs \cap {"network", "firewall"} = {} /\ DnsRight(saved) => DnsRight(c),
           (pending \cup configs) \cap {"network", "banip"} = {} /\ WanRight(saved, unseen)
              => WanRight(c, unseen \cup Unnoticed(c, configs)),
           Save(c, configs)
    PROVE  IInv'
<1>1. /\ saved' = c /\ pending' = pending \cup configs
      /\ UNCHANGED <<stored, pc, todo, given, active>>
      /\ unseen' = unseen \cup Unnoticed(c, configs)
      /\ IF pc = "hooks" THEN late' = TRUE ELSE late' = late
      /\ calls' \in 0..MaxCalls /\ mishaps' \in 0..MaxMishaps
  BY ThreatShieldAssumption DEF Save, Mishap, NoMishap, IInv, TypeOK
<1>2. TypeOK'
  <2>1. late' \in BOOLEAN
    BY <1>1, Zenon DEF IInv, TypeOK
  <2>2. unseen' \subseteq Ifaces
    BY <1>1 DEF IInv, TypeOK, Unnoticed
  <2>3. QED
    BY <1>1, <2>1, <2>2 DEF IInv, TypeOK
<1>3. NetworksOK'
  BY <1>1 DEF IInv, NetworksOK
<1>4. Bookkeeping'
  BY <1>1 DEF IInv, Bookkeeping
<1>5. DnsDue'
  <2>1. ~late' => pc # "hooks" /\ ~late
    BY <1>1
  <2>2. ~late' => \/ DnsRight(saved')
                  \/ pc' # "hooks" /\ pending' \cap {"network", "firewall"} # {}
    BY <1>1, <2>1 DEF IInv, DnsDue, TypeOK
  <2>3. ~late' => DnsRight(stored')
    BY <1>1, <2>1 DEF IInv, DnsDue
  <2>4. QED
    BY <1>1, <2>2, <2>3 DEF IInv, DnsDue
<1>6. WanDue'
  <2>1. ~late' => pc # "hooks" /\ ~late
    BY <1>1
  <2>2. ~late' => \/ WanRight(saved', unseen')
                  \/ pc' # "hooks" /\ pending' \cap {"network", "banip"} # {}
    BY <1>1, <2>1 DEF IInv, WanDue, TypeOK
  <2>3. ~late' => WanRight(stored', unseen')
    BY <1>1, <2>1, WanGrows DEF IInv, WanDue
  <2>4. QED
    BY <2>2, <2>3 DEF WanDue
<1>7. ActiveDue'
  BY <1>1 DEF IInv, ActiveDue
<1>8. QED
  BY <1>2, <1>3, <1>4, <1>5, <1>6, <1>7 DEF IInv

(* configure_device, for a new interface. *)
LEMMA ConfigureStep ==
    ASSUME IInv, NEW i \in Ifaces, NEW kind \in {"plain", "pppoe", "bond"},
           NEW port \in Ports \cup {NoPort}, NEW z \in Zones, Configure(i, kind, port, z)
    PROVE  IInv'
<1> DEFINE net == [saved.network EXCEPT ![i] = [kind |-> kind, port |-> port, metric |-> z = "wan"]]
           c == [saved EXCEPT !.network = net, !.firewall[i] = z]
<1>1. saved \in Config /\ NetOK(saved.network)
  BY DEF IInv, TypeOK, NetworksOK
<1>2. /\ Save(c, {"network", "firewall"})
      /\ IF kind = "bond" THEN port = NoPort
         ELSE port \in Ports /\ \A j \in Ifaces : saved.network[j].port # port
  BY DEF Configure, InZone
<1>3. net \in Network
  BY <1>1, ConfigFields DEF Network
<1>4. NetOK(net)
  BY <1>1, <1>2, ConfigFields, ThreatShieldAssumption DEF NetOK, Network
<1>5. /\ c \in Config /\ c.network = net
      /\ c.adblock = saved.adblock /\ c.banip = saved.banip
  BY <1>1, <1>3 DEF Config, Firewall
<1>6. \A x \in Configs \ {"network", "firewall"} : c[x] = saved[x]
  BY <1>5 DEF Configs
<1>7. DevicesFit(c)
  BY <1>5 DEF IInv, DnsDue, DevicesFit
<1> HIDE DEF c, net
<1>8. QED
  BY <1>2, <1>4, <1>5, <1>6, <1>7, SaveStep DEF Configs

(* configure_device, for an interface that is there: if it leaves or enters   *)
(* zone wan and has its metric already, that is unnoticed.                   *)
LEMMA ReconfigureStep ==
    ASSUME IInv, NEW i \in Ifaces, NEW kind \in {"plain", "pppoe", "bond"},
           NEW z \in Zones, Reconfigure(i, kind, z)
    PROVE  IInv'
<1> DEFINE old == saved.network[i]
           new == [old EXCEPT !.kind = kind, !.metric = z = "wan"]
           net == [saved.network EXCEPT ![i] = new]
           fw == [saved.firewall EXCEPT ![i] = z]
           c == [saved EXCEPT !.network = net, !.firewall[i] = z]
           moved == saved.firewall[i] # z
<1>1. /\ saved \in Config /\ NetOK(saved.network)
      /\ saved.network \in Network /\ saved.firewall \in Firewall
  BY ConfigFields DEF IInv, TypeOK, NetworksOK
<1>2. PICK options \in BOOLEAN :
        /\ old # new => options
        /\ Save(c, (IF options THEN {"network"} ELSE {}) \cup (IF moved THEN {"firewall"} ELSE {}))
  BY DEF Reconfigure, InZone
<1> DEFINE configs == (IF options THEN {"network"} ELSE {})
                      \cup (IF moved THEN {"firewall"} ELSE {})
<1>3. /\ saved.network[i].kind # "none"
      /\ saved.network[i].kind = kind \/ {saved.network[i].kind, kind} = {"plain", "pppoe"}
  BY <1>1 DEF Reconfigure, Interfaces, Absent, NetOK, Network
<1>4. /\ old.port = new.port /\ new.kind = kind /\ new.metric = (z = "wan")
      /\ new \in [kind : {"none", "plain", "pppoe", "bond"}, port : Ports \cup {NoPort},
                 metric : BOOLEAN]
  <2>1. old \in [kind : {"none", "plain", "pppoe", "bond"}, port : Ports \cup {NoPort},
                metric : BOOLEAN]
    BY <1>1 DEF Network
  <2>2. (z = "wan") \in BOOLEAN
    OBVIOUS
  <2>3. QED
    BY <2>1, <2>2
<1> HIDE DEF new
<1>5. net \in Network
  BY <1>1, <1>4 DEF Network
<1>6. NetOK(net)
  <2>1. \A j \in Ifaces : net[j].port = saved.network[j].port
    BY <1>1, <1>4 DEF Network
  <2>2. \A j \in Ifaces : net[j].kind \in {"none", "bond"} <=>
                           saved.network[j].kind \in {"none", "bond"}
    BY <1>1, <1>3, <1>4 DEF Network
  <2>3. \A j \in Ifaces : net[j].kind = "none" => net[j] = saved.network[j]
    BY <1>1, <1>4 DEF Network
  <2> HIDE DEF net
  <2>4. QED
    BY <1>1, <2>1, <2>2, <2>3 DEF NetOK
<1>7. /\ c \in Config /\ c.network = net /\ c.firewall = fw
      /\ c.adblock = saved.adblock /\ c.banip = saved.banip
  BY <1>1, <1>5 DEF Config, Firewall
<1>8. "network" \notin configs => net = saved.network
  BY <1>1, <1>2 DEF Network
<1>9. "firewall" \notin configs => fw = saved.firewall
  BY <1>1 DEF Firewall
<1>10. /\ net[i].metric = (fw[i] = "wan")
      /\ \A j \in Ifaces \ {i} : fw[j] = saved.firewall[j]
  BY <1>1, <1>4 DEF Network, Firewall
<1>11. configs \in SUBSET Configs /\ Save(c, configs)
  BY <1>2 DEF Configs
<1> HIDE DEF c, net, fw, configs, moved
<1>12. \A x \in Configs \ configs : c[x] = saved[x]
  BY <1>7, <1>8, <1>9 DEF Configs
<1>13. DevicesFit(c)
  BY <1>7 DEF IInv, DnsDue, DevicesFit
<1>14. configs \cap {"network", "firewall"} = {} /\ DnsRight(saved) => DnsRight(c)
  BY <1>7, <1>8, <1>9, DerivedSame DEF DnsRight
<1>15. (pending \cup configs) \cap {"network", "banip"} = {} /\ WanRight(saved, unseen)
         => WanRight(c, unseen \cup Unnoticed(c, configs))
  <2> SUFFICES ASSUME (pending \cup configs) \cap {"network", "banip"} = {}, WanRight(saved, unseen)
               PROVE  WanRight(c, unseen \cup Unnoticed(c, configs))
    OBVIOUS
  <2>1. WanRight(saved, unseen \cup Unnoticed(c, configs))
    BY WanGrows
  <2>2. \A j \in Ifaces : \/ j \in unseen \cup Unnoticed(c, configs)
                          \/ c.firewall[j] = "wan" <=> saved.firewall[j] = "wan"
    BY <1>7, <1>10 DEF Unnoticed
  <2>3. QED
    BY <1>7, <1>8, <2>1, <2>2, WanMoved
<1>16. QED
  BY <1>6, <1>7, <1>11, <1>12, <1>13, <1>14, <1>15, SaveStep

(* unconfigure_device *)
LEMMA UnconfigureStep ==
    ASSUME IInv, NEW i \in Ifaces, Unconfigure(i)
    PROVE  IInv'
<1> DEFINE net == [saved.network EXCEPT ![i] = Absent]
           fw == [saved.firewall EXCEPT ![i] = NoZone]
           c == [saved EXCEPT !.network = net, !.firewall[i] = NoZone]
           configs == {"network"} \cup
                      (IF saved.firewall[i] = NoZone THEN {} ELSE {"firewall"})
<1>1. /\ saved \in Config /\ NetOK(saved.network)
      /\ saved.network \in Network /\ saved.firewall \in Firewall
  BY ConfigFields DEF IInv, TypeOK, NetworksOK
<1>2. configs \in SUBSET Configs /\ Save(c, configs)
  BY DEF Unconfigure, InZone, Configs
<1>3. net \in Network
  BY <1>1 DEF Network, Absent
<1>4. NetOK(net)
  BY <1>1 DEF NetOK, Network, Absent
<1>5. /\ c \in Config /\ c.network = net /\ c.firewall = fw
      /\ c.adblock = saved.adblock /\ c.banip = saved.banip
  BY <1>1, <1>3 DEF Config, Firewall
<1>6. "firewall" \notin configs => fw = saved.firewall
  BY <1>1 DEF Firewall
<1>7. "network" \in configs
  OBVIOUS
<1> HIDE DEF c, net, fw, configs
<1>8. \A x \in Configs \ configs : c[x] = saved[x]
  BY <1>5, <1>6, <1>7 DEF Configs
<1>9. DevicesFit(c)
  BY <1>5 DEF IInv, DnsDue, DevicesFit
<1>10. QED
  BY <1>2, <1>4, <1>5, <1>7, <1>8, <1>9, SaveStep

(* delete_zone: zone wan cannot be deleted, so what is wan stays wan. *)
LEMMA DeleteZoneStep ==
    ASSUME IInv, NEW z \in Others, DeleteZone(z)
    PROVE  IInv'
<1> DEFINE fw == [i \in Ifaces |-> IF saved.firewall[i] = z THEN NoZone ELSE saved.firewall[i]]
           c == [saved EXCEPT !.firewall = fw]
<1>1. /\ saved \in Config /\ NetOK(saved.network)
      /\ saved.network \in Network /\ saved.firewall \in Firewall
  BY ConfigFields DEF IInv, TypeOK, NetworksOK
<1>2. Save(c, {"firewall"})
  BY DEF DeleteZone
<1>3. /\ c \in Config /\ c.network = saved.network /\ c.firewall = fw
      /\ c.adblock = saved.adblock /\ c.banip = saved.banip
  BY <1>1 DEF Config, Firewall
<1>4. \A i \in Ifaces : fw[i] = "wan" <=> saved.firewall[i] = "wan"
  BY <1>1, ThreatShieldAssumption DEF Zones
<1> HIDE DEF c, fw
<1>5. \A x \in Configs \ {"firewall"} : c[x] = saved[x]
  BY <1>3 DEF Configs
<1>6. DevicesFit(c)
  BY <1>3 DEF IInv, DnsDue, DevicesFit
<1>7. WanRight(saved, unseen) => WanRight(c, unseen \cup Unnoticed(c, {"firewall"}))
  BY <1>3, <1>4, WanMoved, WanGrows
<1>8. QED
  BY <1>1, <1>2, <1>3, <1>5, <1>6, <1>7, SaveStep DEF Configs

(* dns_edit_settings takes the devices of the zones as they are saved. *)
LEMMA EditDnsStep ==
    ASSUME IInv, NEW zones \in SUBSET Others, EditDns(zones)
    PROVE  IInv'
<1> DEFINE devices == DevicesOf(saved, zones)
           c == [saved EXCEPT !.adblock = [zones |-> zones, devices |-> devices]]
<1>1. saved \in Config /\ NetOK(saved.network) /\ saved.network \in Network
  BY ConfigFields DEF IInv, TypeOK, NetworksOK
<1>2. Save(c, {"adblock"})
  BY DEF EditDns
<1>3. devices \subseteq Ports
  BY <1>1, DevicesArePorts
<1>4. DevicesOf(c, zones) = devices /\ Wan(c) = Wan(saved)
  <2>1. c.network = saved.network /\ c.firewall = saved.firewall
    BY <1>1 DEF Config
  <2> HIDE DEF c
  <2>2. QED
    BY <2>1, DerivedSame
<1> HIDE DEF devices
<1>5. /\ c \in Config /\ c.network = saved.network /\ c.firewall = saved.firewall
      /\ c.banip = saved.banip
      /\ c.adblock.zones = zones /\ c.adblock.devices = devices
  BY <1>1, <1>3 DEF Config, Adblock
<1> HIDE DEF c
<1>6. \A x \in Configs \ {"adblock"} : c[x] = saved[x]
  BY <1>5 DEF Configs
<1>7. DnsRight(c) /\ DevicesFit(c)
  <2>1. zones = {} => devices = {}
    BY DEF devices, DevicesOf
  <2>2. QED
    BY <1>3, <1>4, <1>5, <2>1 DEF DnsRight, DevicesFit
<1>8. WanRight(saved, unseen) => WanRight(c, unseen \cup Unnoticed(c, {"adblock"}))
  BY <1>5, WanMoved, WanGrows
<1>9. QED
  BY <1>1, <1>2, <1>3, <1>5, <1>6, <1>7, <1>8, SaveStep DEF Configs

(* edit_settings changes neither devices nor interfaces. *)
LEMMA EditBanipStep ==
    ASSUME IInv, NEW on \in BOOLEAN, EditBanip(on)
    PROVE  IInv'
<1> DEFINE c == [saved EXCEPT !.banip.on = on]
<1>1. saved \in Config /\ NetOK(saved.network)
  BY DEF IInv, TypeOK, NetworksOK
<1>2. Save(c, {"banip"})
  BY DEF EditBanip
<1>3. /\ c \in Config /\ c.network = saved.network /\ c.firewall = saved.firewall
      /\ c.adblock = saved.adblock
      /\ c.banip.ifaces = saved.banip.ifaces /\ c.banip.devices = saved.banip.devices
  BY <1>1 DEF Config, Banip
<1> HIDE DEF c
<1>4. \A x \in Configs \ {"banip"} : c[x] = saved[x]
  BY <1>3 DEF Configs
<1>5. DevicesFit(c)
  BY <1>3 DEF IInv, DnsDue, DevicesFit
<1>6. DnsRight(saved) => DnsRight(c)
  BY <1>3, DerivedSame DEF DnsRight
<1>7. QED
  BY <1>1, <1>2, <1>3, <1>4, <1>5, <1>6, SaveStep DEF Configs

-----------------------------------------------------------------------------
(* What is given is what is pending, and the hooks are to run. *)
LEMMA StartCommitStep == IInv /\ StartCommit => IInv'
<1> SUFFICES ASSUME IInv, StartCommit PROVE IInv'
  OBVIOUS
<1>1. /\ pc = "idle" /\ pc' = "hooks" /\ todo' = Hooks /\ given' = pending
      /\ UNCHANGED <<saved, stored, pending, active, calls, mishaps>>
      /\ ~late' => ~late \/ "network" \in pending
      /\ unseen' = IF pending \cap {"network", "banip"} = {} THEN unseen ELSE {}
  BY DEF StartCommit
<1>2. TypeOK'
  <2>1. late' \in BOOLEAN
    BY Zenon DEF StartCommit
  <2>2. QED
    BY <1>1, <2>1 DEF IInv, TypeOK
<1>3. NetworksOK' /\ Bookkeeping'
  BY <1>1 DEF IInv, NetworksOK, Bookkeeping
<1>4. DnsDue'
  <2>1. DnsRight(saved)' = DnsRight(saved)
    BY <1>1 DEF DnsRight, DevicesOf, DevicesIn, Interfaces
  <2>2. QED
    BY <1>1, <2>1 DEF IInv, DnsDue, TypeOK, Hooks, DevicesFit
<1>5. WanDue'
  <2>1. CASE pending \cap {"network", "banip"} = {}
    <3>1. ~late => WanRight(saved', unseen')
      BY <1>1, <2>1 DEF IInv, WanDue, TypeOK
    <3>2. QED
      BY <1>1, <2>1, <3>1 DEF WanDue
  <2>2. CASE pending \cap {"network", "banip"} # {}
    BY <1>1, <2>2 DEF WanDue, Hooks
  <2>3. QED
    BY <2>1, <2>2
<1>6. ActiveDue'
  BY <1>1 DEF IInv, ActiveDue, Bookkeeping, Started
<1>7. QED
  BY <1>2, <1>3, <1>4, <1>5, <1>6 DEF IInv

(* configure-adblock-devices makes the devices those of the zones, unless    *)
(* neither the zones nor what they hold can have changed.                    *)
LEMMA AdblockHookStep == IInv /\ AdblockHook => IInv'
<1> SUFFICES ASSUME IInv, AdblockHook PROVE IInv'
  OBVIOUS
<1> DEFINE devices == DevicesOf(saved, saved.adblock.zones)
           c == [saved EXCEPT !.adblock.devices = devices]
           stale == /\ given \cap AdblockTriggers # {}
                    /\ saved.adblock.zones # {} /\ devices # saved.adblock.devices
<1>1. /\ pc = "hooks" /\ "adblock_hook" \in todo /\ todo' = todo \ {"adblock_hook"}
      /\ UNCHANGED <<stored, pc, active, late, unseen, calls, mishaps>>
      /\ \/ /\ stale
            /\ saved' = c /\ pending' = pending \cup {"adblock"}
            /\ given' = given \cup {"adblock"}
         \/ ~stale /\ UNCHANGED <<saved, pending, given>>
  BY DEF AdblockHook
<1>2. /\ saved \in Config /\ NetOK(saved.network) /\ saved.network \in Network
      /\ saved.adblock \in Adblock
  BY ConfigFields DEF IInv, TypeOK, NetworksOK
<1>3. devices \subseteq Ports
  BY <1>2, DevicesArePorts
<1>4. DevicesOf(c, saved.adblock.zones) = devices /\ Wan(c) = Wan(saved)
  <2>1. c.network = saved.network /\ c.firewall = saved.firewall
    BY <1>2 DEF Config
  <2> HIDE DEF c
  <2>2. QED
    BY <2>1, DerivedSame
<1>5. saved.adblock.zones = {} => devices = {}
  BY DEF DevicesOf
<1> HIDE DEF devices
<1>6. /\ c \in Config /\ c.network = saved.network /\ c.firewall = saved.firewall
      /\ c.banip = saved.banip
      /\ c.adblock.zones = saved.adblock.zones /\ c.adblock.devices = devices
  BY <1>2, <1>3 DEF Config, Adblock
<1> HIDE DEF c
<1>7. DnsRight(c) /\ DevicesFit(c)
  BY <1>3, <1>4, <1>5, <1>6 DEF DnsRight, DevicesFit
<1>8. ~stale /\ ~late => DnsRight(saved)
  <2>1. CASE saved.adblock.zones = {}
    BY <2>1, <1>5 DEF IInv, DnsDue, DnsRight, DevicesFit, devices
  <2>2. CASE given \cap AdblockTriggers = {}
    <3>1. given \cap {"network", "firewall"} = {}
      BY <2>2 DEF AdblockTriggers
    <3>2. QED
      BY <1>1, <3>1 DEF IInv, DnsDue
  <2>3. CASE saved.adblock.devices = devices
    BY <2>3, <1>3 DEF DnsRight, devices
  <2>4. QED
    BY <2>1, <2>2, <2>3
<1>9. /\ saved' \in Config /\ saved'.network = saved.network
      /\ saved'.firewall = saved.firewall /\ saved'.banip = saved.banip
      /\ DevicesFit(saved')
  BY <1>1, <1>2, <1>6, <1>7 DEF IInv, DnsDue
<1>10. TypeOK'
  BY <1>1, <1>9 DEF IInv, TypeOK, Configs, Hooks
<1>11. NetworksOK'
  BY <1>1, <1>9 DEF IInv, NetworksOK
<1>12. Bookkeeping'
  <2>1. \A x \in Configs \ {"adblock"} : saved'[x] = saved[x]
    BY <1>9 DEF Configs
  <2>2. QED
    BY <1>1, <2>1 DEF IInv, Bookkeeping
<1>13. DnsDue'
  <2>1. ~late => DnsRight(saved')
    BY <1>1, <1>7, <1>8
  <2>2. QED
    BY <1>1, <1>9, <2>1 DEF IInv, DnsDue
<1>14. WanDue'
  <2>1. WanRight(saved, unseen) => WanRight(saved', unseen)
    BY <1>9, WanMoved
  <2>2. QED
    BY <1>1, <2>1 DEF IInv, WanDue
<1>15. ActiveDue'
  BY <1>1 DEF IInv, ActiveDue
<1>16. QED
  BY <1>10, <1>11, <1>12, <1>13, <1>14, <1>15 DEF IInv

(* configure-banip-wans sets banIP up for zone wan, unless the network has   *)
(* not changed, and commits that at once when banIP was not to be committed. *)
LEMMA BanipHookStep == IInv /\ BanipHook => IInv'
<1> SUFFICES ASSUME IInv, BanipHook PROVE IInv'
  OBVIOUS
<1> DEFINE w == Wan(saved)
           c == [saved EXCEPT !.banip.ifaces = w.ifaces, !.banip.devices = w.devices]
           d == [stored EXCEPT !.banip = c.banip]
           looks == given \cap {"network", "banip"} # {} /\ WanChanged(w)
<1>1. /\ pc = "hooks" /\ "banip_hook" \in todo /\ todo' = todo \ {"banip_hook"}
      /\ UNCHANGED <<pc, given, active, late, unseen, calls, mishaps>>
      /\ \/ /\ looks /\ saved' = c
            /\ \/ "banip" \in given /\ pending' = pending \cup {"banip"} /\ UNCHANGED stored
               \/ /\ "banip" \notin given /\ pending' = pending \ {"banip"}
                  /\ stored' = d
         \/ ~looks /\ UNCHANGED <<saved, stored, pending>>
  BY DEF BanipHook
<1>2. /\ saved \in Config /\ NetOK(saved.network) /\ saved.network \in Network
      /\ saved.banip \in Banip /\ stored \in Config
  BY ConfigFields DEF IInv, TypeOK, NetworksOK
<1>3. w.ifaces \in SUBSET Ifaces /\ w.devices \in SUBSET Uplinks
  BY <1>2, WanType
<1>4. Wan(c) = w
  <2>1. c.network = saved.network /\ c.firewall = saved.firewall
    BY <1>2 DEF Config
  <2> HIDE DEF c
  <2>2. QED
    BY <2>1, DerivedSame
<1>5. ~WanChanged(w) => WanRight(saved, unseen)
  BY <1>2, WanExact DEF WanChanged
<1> HIDE DEF w
<1>6. /\ c \in Config /\ c.network = saved.network /\ c.firewall = saved.firewall
      /\ c.adblock = saved.adblock
      /\ c.banip.ifaces = w.ifaces /\ c.banip.devices = w.devices
      /\ c.banip \in Banip
  BY <1>2, <1>3 DEF Config, Banip
<1> HIDE DEF c
<1>7. /\ d \in Config /\ d.network = stored.network /\ d.firewall = stored.firewall
      /\ d.adblock = stored.adblock /\ d.banip = c.banip
  BY <1>2, <1>6 DEF Config
<1> HIDE DEF d
<1>8. WanRight(c, unseen)
  BY <1>2, <1>4, <1>6, WanExact
<1>9. ~looks /\ ~late => WanRight(saved, unseen)
  BY <1>1, <1>5 DEF IInv, WanDue
<1>10. /\ saved' \in Config /\ stored' \in Config
       /\ saved'.network = saved.network /\ saved'.firewall = saved.firewall
       /\ saved'.adblock = saved.adblock
       /\ stored'.network = stored.network /\ stored'.adblock = stored.adblock
  BY <1>1, <1>2, <1>6, <1>7
<1>11. TypeOK'
  BY <1>1, <1>10 DEF IInv, TypeOK, Configs, Hooks
<1>12. NetworksOK'
  BY <1>10 DEF IInv, NetworksOK
<1>13. Bookkeeping'
  <2>1. CASE looks /\ "banip" \in given
    BY <1>1, <1>6, <2>1 DEF IInv, Bookkeeping, Configs
  <2>2. CASE looks /\ "banip" \notin given
    BY <1>1, <1>6, <1>7, <2>2 DEF IInv, Bookkeeping, Configs
  <2>3. CASE ~looks
    BY <1>1, <2>3 DEF IInv, Bookkeeping
  <2>4. QED
    BY <2>1, <2>2, <2>3
<1>14. DnsDue'
  <2>1. DnsRight(saved') <=> DnsRight(saved)
    BY <1>10, DerivedSame DEF DnsRight
  <2>2. DevicesFit(saved') /\ DevicesFit(stored')
    BY <1>10 DEF IInv, DnsDue, DevicesFit
  <2>3. QED
    BY <1>1, <2>1, <2>2 DEF IInv, DnsDue
<1>15. WanDue'
  <2>1. ~late => WanRight(saved', unseen)
    BY <1>1, <1>8, <1>9
  <2>2. QED
    BY <1>1, <2>1 DEF WanDue
<1>16. ActiveDue'
  BY <1>1 DEF IInv, ActiveDue
<1>17. QED
  BY <1>11, <1>12, <1>13, <1>14, <1>15, <1>16 DEF IInv

(* A part of what is saved committed over what is stored is a configuration. *)
LEMMA CommittedFields ==
    ASSUME saved \in Config, stored \in Config, NEW configs
    PROVE  /\ Committed(configs) \in Config
           /\ \A x \in Configs :
                 Committed(configs)[x] = IF x \in configs THEN saved[x] ELSE stored[x]
           /\ Committed(configs).network =
                 IF "network" \in configs THEN saved.network ELSE stored.network
           /\ Committed(configs).adblock =
                 IF "adblock" \in configs THEN saved.adblock ELSE stored.adblock
<1> DEFINE f == Committed(configs)
           part(x) == IF x \in configs THEN saved[x] ELSE stored[x]
           r == [network |-> part("network"), firewall |-> part("firewall"),
                 adblock |-> part("adblock"), banip |-> part("banip")]
<1>1. \A x \in Configs : f[x] = part(x)
  BY DEF Committed
<1>2. f = r
  BY DEF Committed, Configs
<1>3. /\ part("network") \in Network /\ part("firewall") \in Firewall
      /\ part("adblock") \in Adblock /\ part("banip") \in Banip
  BY ConfigFields
<1>4. r \in Config
  BY <1>3 DEF Config
<1>5. f.network = part("network") /\ f.adblock = part("adblock")
  BY <1>1 DEF Configs
<1>6. QED
  BY <1>1, <1>2, <1>4, <1>5

(* When nobody has saved since, everything saved is committed. *)
LEMMA CommitAllStep == IInv /\ CommitAll => IInv'
<1> SUFFICES ASSUME IInv, CommitAll PROVE IInv'
  OBVIOUS
<1>1. /\ pc = "hooks" /\ todo = {} /\ pc' = "after"
      /\ stored' = Committed(given) /\ pending' = pending \ given /\ calls' = 0
      /\ UNCHANGED <<saved, todo, given, active, late, unseen, mishaps>>
  BY DEF CommitAll
<1>2. saved \in Config /\ stored \in Config
  BY DEF IInv, TypeOK
<1>3. /\ stored' \in Config
      /\ \A x \in Configs : stored'[x] = IF x \in given THEN saved[x] ELSE stored[x]
      /\ stored'.network \in {saved.network, stored.network}
      /\ stored'.adblock \in {saved.adblock, stored.adblock}
  BY <1>1, <1>2, CommittedFields
<1>4. ~late => stored' = saved
  <2>1. ~late => \A x \in Configs : stored'[x] = saved[x]
    BY <1>1, <1>3 DEF IInv, Bookkeeping
  <2>2. QED
    BY <1>2, <1>3, <2>1, ConfigFields DEF Configs
<1>5. TypeOK'
  BY <1>1, <1>3, ThreatShieldAssumption DEF IInv, TypeOK
<1>6. NetworksOK'
  BY <1>1, <1>3 DEF IInv, NetworksOK
<1>7. Bookkeeping'
  BY <1>1, <1>3 DEF IInv, Bookkeeping
<1>8. DnsDue'
  <2>1. DevicesFit(saved') /\ DevicesFit(stored')
    BY <1>1, <1>3 DEF IInv, DnsDue, DevicesFit
  <2>2. ~late => DnsRight(saved)
    BY <1>1 DEF IInv, DnsDue
  <2>3. ~late' => DnsRight(saved') /\ DnsRight(stored')
    BY <1>1, <1>4, <2>2
  <2>4. QED
    BY <2>1, <2>3 DEF DnsDue
<1>9. WanDue'
  <2>1. ~late => WanRight(saved, unseen)
    BY <1>1 DEF IInv, WanDue
  <2>2. ~late' => WanRight(saved', unseen') /\ WanRight(stored', unseen')
    BY <1>1, <1>4, <2>1
  <2>3. QED
    BY <2>2 DEF WanDue
<1>10. ActiveDue'
  <2>1. "banip" \notin given => stored'.banip = stored.banip
    BY <1>3 DEF Configs
  <2>2. "banip" \notin given => Started(stored') = Started(stored)
    BY <2>1 DEF Started
  <2>3. QED
    BY <1>1, <2>2 DEF IInv, ActiveDue
<1>11. QED
  BY <1>5, <1>6, <1>7, <1>8, <1>9, <1>10 DEF IInv

(* adjust-banip starts banIP with what is saved, which is committed or waits. *)
LEMMA AdjustBanipStep == IInv /\ AdjustBanip => IInv'
<1> SUFFICES ASSUME IInv, AdjustBanip PROVE IInv'
  OBVIOUS
<1>1. /\ pc = "after" /\ pc' = "idle" /\ given' = {}
      /\ active' = IF given \cap {"banip", "network"} # {} THEN Started(saved) ELSE active
      /\ UNCHANGED <<saved, stored, pending, todo, late, unseen, calls, mishaps>>
  BY DEF AdjustBanip
<1>2. saved \in Config /\ saved.banip \in Banip
  BY ConfigFields DEF IInv, TypeOK
<1>3. Started(saved) \in SUBSET Uplinks
  BY <1>2 DEF Started, Banip
<1>4. TypeOK'
  BY <1>1, <1>3 DEF IInv, TypeOK
<1>5. NetworksOK' /\ Bookkeeping'
  BY <1>1 DEF IInv, NetworksOK, Bookkeeping
<1>6. DnsDue'
  <2>1. DnsRight(saved') <=> DnsRight(saved)
    BY <1>1
  <2>2. DnsRight(stored') <=> DnsRight(stored)
    BY <1>1
  <2>3. QED
    BY <1>1, <2>1, <2>2 DEF IInv, DnsDue, TypeOK
<1>7. WanDue'
  <2>1. WanRight(saved', unseen') <=> WanRight(saved, unseen)
    BY <1>1
  <2>2. WanRight(stored', unseen') <=> WanRight(stored, unseen)
    BY <1>1
  <2>3. QED
    BY <1>1, <2>1, <2>2 DEF IInv, WanDue, TypeOK
<1>8. ActiveDue'
  <2>1. "banip" \notin pending => Started(saved) = Started(stored)
    BY DEF IInv, Bookkeeping, Configs, Started
  <2>2. Started(stored') = Started(stored)
    BY <1>1
  <2>3. QED
    BY <1>1, <2>1, <2>2 DEF IInv, ActiveDue
<1>9. QED
  BY <1>4, <1>5, <1>6, <1>7, <1>8 DEF IInv

(* A direct commit is a mishap: from then on nothing is promised. *)
LEMMA DirectCommitStep == IInv /\ DirectCommit => IInv'
<1> SUFFICES ASSUME IInv, DirectCommit PROVE IInv'
  OBVIOUS
<1> DEFINE d == [stored EXCEPT !.network = saved.network, !.firewall = saved.firewall]
<1>1. /\ pc = "idle" /\ stored' = d /\ pending' = pending \ {"network", "firewall"}
      /\ late' = TRUE /\ mishaps' \in 0..MaxMishaps
      /\ UNCHANGED <<saved, pc, todo, given, active, unseen, calls>>
  BY ThreatShieldAssumption DEF DirectCommit, Mishap, IInv, TypeOK
<1>2. saved \in Config /\ stored \in Config
  BY DEF IInv, TypeOK
<1>3. /\ d \in Config /\ d.network = saved.network /\ d.firewall = saved.firewall
      /\ d.adblock = stored.adblock /\ d.banip = stored.banip
  BY <1>2 DEF Config
<1> HIDE DEF d
<1>4. TypeOK'
  BY <1>1, <1>3 DEF IInv, TypeOK
<1>5. NetworksOK'
  BY <1>1, <1>3 DEF IInv, NetworksOK
<1>6. Bookkeeping'
  BY <1>1, <1>3 DEF IInv, Bookkeeping, Configs
<1>7. DnsDue'
  BY <1>1, <1>3 DEF IInv, DnsDue, DevicesFit
<1>8. WanDue' /\ ActiveDue'
  BY <1>1 DEF WanDue, ActiveDue
<1>9. QED
  BY <1>4, <1>5, <1>6, <1>7, <1>8 DEF IInv

(* A reboot goes back to what is committed, and banIP starts with that. *)
LEMMA RebootStep == IInv /\ Reboot => IInv'
<1> SUFFICES ASSUME IInv, Reboot PROVE IInv'
  OBVIOUS
<1>1. PICK configs \in SUBSET given :
        (configs # {} => pc = "hooks" /\ todo = {}) /\ stored' = Committed(configs)
  BY DEF Reboot
<1>2. /\ saved' = stored' /\ pending' = {} /\ pc' = "idle" /\ todo' = {}
      /\ given' = {} /\ calls' = 0 /\ active' = Started(stored')
      /\ IF pc = "hooks" THEN late' = TRUE ELSE late' = late
      /\ mishaps' \in 0..MaxMishaps /\ UNCHANGED unseen
  BY ThreatShieldAssumption DEF Reboot, Mishap, NoMishap, IInv, TypeOK
<1>3. saved \in Config /\ stored \in Config
  BY DEF IInv, TypeOK
<1>4. /\ stored' \in Config
      /\ \A x \in Configs : stored'[x] = IF x \in configs THEN saved[x] ELSE stored[x]
      /\ stored'.network \in {saved.network, stored.network}
      /\ stored'.adblock \in {saved.adblock, stored.adblock}
  BY <1>1, <1>3, CommittedFields
<1>5. pc # "hooks" => stored' = stored
  <2>1. pc # "hooks" => \A x \in Configs : stored'[x] = stored[x]
    BY <1>1, <1>4
  <2>2. QED
    BY <1>3, <1>4, <2>1, ConfigFields DEF Configs
<1>6. stored'.banip \in Banip
  BY <1>4, ConfigFields
<1>7. Started(stored') \in SUBSET Uplinks
  BY <1>6 DEF Started, Banip
<1>8. TypeOK'
  <2>1. late' \in BOOLEAN
    BY <1>2, Zenon DEF IInv, TypeOK
  <2>2. QED
    BY <1>2, <1>4, <1>7, <2>1, ThreatShieldAssumption DEF IInv, TypeOK
<1>9. NetworksOK'
  BY <1>2, <1>4 DEF IInv, NetworksOK
<1>10. Bookkeeping'
  BY <1>2 DEF Bookkeeping
<1>11. DnsDue'
  <2>1. DevicesFit(saved') /\ DevicesFit(stored')
    BY <1>2, <1>4 DEF IInv, DnsDue, DevicesFit
  <2>2. ~late' => DnsRight(stored')
    BY <1>2, <1>5 DEF IInv, DnsDue
  <2>3. QED
    BY <1>2, <2>1, <2>2 DEF DnsDue
<1>12. WanDue'
  <2>1. ~late' => WanRight(stored', unseen')
    BY <1>2, <1>5 DEF IInv, WanDue
  <2>2. QED
    BY <1>2, <2>1 DEF WanDue
<1>13. ActiveDue'
  BY <1>2 DEF ActiveDue
<1>14. QED
  BY <1>8, <1>9, <1>10, <1>11, <1>12, <1>13 DEF IInv

-----------------------------------------------------------------------------
(* After the upgrade adblock's devices are those of the zone it had, or the  *)
(* name of a zone that is gone; banIP is set up and disabled.                *)
LEMMA InitIInv == Init => IInv
<1> SUFFICES ASSUME Init PROVE IInv
  OBVIOUS
<1>1. PICK net \in [Ifaces -> {Absent} \cup [kind : {"plain"}, port : Ports, metric : BOOLEAN]],
           fw \in [Ifaces -> Zones \cup {NoZone}],
           old \in {{}} \cup {{z} : z \in Others \cup {"gone"}} :
        LET c == [network |-> net, firewall |-> fw]
            w == Wan(c)
        IN /\ \A i, j \in Ifaces : i # j /\ net[i].port = net[j].port => net[i] = Absent
           /\ stored = [network |-> net, firewall |-> fw, adblock |-> Migrated(c, old),
                        banip |-> [on |-> FALSE, ifaces |-> w.ifaces, devices |-> w.devices]]
           /\ saved = stored
           /\ pending = {} /\ pc = "idle" /\ todo = {} /\ given = {}
           /\ active = {} /\ late = FALSE /\ unseen = {} /\ calls = 0 /\ mishaps = 0
  BY Zenon DEF Init
<1> DEFINE c == [network |-> net, firewall |-> fw]
           w == Wan(c)
           a == Migrated(c, old)
           b == [on |-> FALSE, ifaces |-> w.ifaces, devices |-> w.devices]
           r == [network |-> net, firewall |-> fw, adblock |-> a, banip |-> b]
<1>2. /\ \A i, j \in Ifaces : i # j /\ net[i].port = net[j].port => net[i] = Absent
      /\ stored = r /\ saved = r
      /\ pending = {} /\ pc = "idle" /\ todo = {} /\ given = {}
      /\ active = {} /\ late = FALSE /\ unseen = {} /\ calls = 0 /\ mishaps = 0
  BY <1>1
<1>3. net \in Network /\ fw \in Firewall
  <2>1. {Absent} \cup [kind : {"plain"}, port : Ports, metric : BOOLEAN]
          \subseteq [kind : {"none", "plain", "pppoe", "bond"}, port : Ports \cup {NoPort},
                     metric : BOOLEAN]
    <3>1. Absent \in [kind : {"none", "plain", "pppoe", "bond"}, port : Ports \cup {NoPort},
                      metric : BOOLEAN]
      BY DEF Absent
    <3>2. QED
      BY <3>1
  <2> HIDE DEF Absent
  <2>2. QED
    BY <2>1 DEF Network, Firewall
<1>4. NetOK(net)
  <2>1. \A i \in Ifaces : net[i] = Absent \/ (net[i].kind = "plain" /\ net[i].port \in Ports)
    OBVIOUS
  <2>2. QED
    BY <1>2, <2>1, ThreatShieldAssumption DEF NetOK, Absent
<1>5. c.network = net /\ c.firewall = fw
  OBVIOUS
<1> HIDE DEF c
<1>6. w.ifaces \in SUBSET Ifaces /\ w.devices \in SUBSET Uplinks
  BY <1>3, <1>4, <1>5, WanType
<1>7. DevicesOf(c, old) \subseteq Ports
  BY <1>3, <1>4, <1>5, DevicesArePorts
<1>8. r.network = net /\ r.firewall = fw /\ r.adblock = a /\ r.banip = b
  OBVIOUS
<1>9. \A zones : DevicesOf(r, zones) = DevicesOf(c, zones) /\ Wan(r) = w
  <2> HIDE DEF r
  <2>1. QED
    BY <1>5, <1>8, DerivedSame
<1>10. a.zones \in SUBSET Others /\ a.devices \in SUBSET (Ports \cup Zones \cup {"gone"})
       /\ a = [zones |-> a.zones, devices |-> a.devices]
  <2>1. CASE old \subseteq Zones
    <3>1. old \in SUBSET Others
      BY <2>1, ThreatShieldAssumption
    <3>2. a = [zones |-> old, devices |-> DevicesOf(c, old)]
      BY <2>1 DEF Migrated
    <3>3. QED
      BY <1>7, <3>1, <3>2
  <2>2. CASE ~(old \subseteq Zones)
    <3>1. a = [zones |-> {}, devices |-> old]
      BY <2>2 DEF Migrated
    <3>2. QED
      BY <3>1 DEF Zones
  <2>3. QED
    BY <2>1, <2>2
<1>11. a.devices \cap Ports = DevicesOf(c, a.zones)
       /\ IF a.zones = {} THEN a.devices \cap Ports = {} ELSE a.devices \subseteq Ports
  <2>1. DevicesOf(c, {}) = {}
    BY DEF DevicesOf
  <2>2. CASE old \subseteq Zones
    <3>1. a.zones = old /\ a.devices = DevicesOf(c, old)
      BY <2>2 DEF Migrated
    <3>2. QED
      BY <1>7, <2>1, <3>1
  <2>3. CASE ~(old \subseteq Zones)
    <3>1. a.zones = {} /\ a.devices = {"gone"}
      BY <2>3 DEF Migrated, Zones
    <3>2. QED
      BY <2>1, <3>1, ThreatShieldAssumption
  <2>4. QED
    BY <2>2, <2>3
<1>12. /\ b \in Banip /\ b.on = FALSE /\ b.ifaces = w.ifaces /\ b.devices = w.devices
  BY <1>6 DEF Banip
<1> HIDE DEF w, a, b
<1>13. r \in Config
  BY <1>3, <1>10, <1>12 DEF Config, Adblock
<1> HIDE DEF r
<1>14. DnsRight(r) /\ DevicesFit(r) /\ WanRight(r, {}) /\ Started(r) = {}
  BY <1>3, <1>4, <1>8, <1>9, <1>11, <1>12, WanExact DEF DnsRight, DevicesFit, Started
<1>15. TypeOK
  <2>1. late \in BOOLEAN
    BY <1>2, Zenon
  <2>2. calls \in 0..MaxCalls /\ mishaps \in 0..MaxMishaps
    BY <1>2, ThreatShieldAssumption
  <2>3. QED
    BY <1>2, <1>13, <2>1, <2>2 DEF TypeOK
<1>16. NetworksOK /\ Bookkeeping /\ DnsDue /\ WanDue /\ ActiveDue
  BY <1>2, <1>4, <1>8, <1>14 DEF NetworksOK, Bookkeeping, DnsDue, WanDue, ActiveDue
<1>17. QED
  BY <1>15, <1>16 DEF IInv

(* Every step keeps IInv. *)
LEMMA StepIInv == IInv /\ [Next]_vars => IInv'
<1> SUFFICES ASSUME IInv, [Next]_vars PROVE IInv'
  OBVIOUS
<1>1. CASE Devices
  BY <1>1, ConfigureStep, ReconfigureStep, UnconfigureStep, DeleteZoneStep DEF Devices
<1>2. CASE Settings
  BY <1>2, EditDnsStep, EditBanipStep DEF Settings
<1>3. CASE Commit
  BY <1>3, StartCommitStep, AdblockHookStep, BanipHookStep, CommitAllStep, AdjustBanipStep
     DEF Commit
<1>4. CASE DirectCommit
  BY <1>4, DirectCommitStep
<1>5. CASE Reboot
  BY <1>5, RebootStep
<1>6. CASE UNCHANGED vars
  <2>1. UNCHANGED <<saved, stored, pending, pc, todo, given, active, late, unseen, calls, mishaps>>
    BY <1>6 DEF vars
  <2>2. TypeOK' /\ NetworksOK' /\ Bookkeeping'
    BY <2>1 DEF IInv, TypeOK, NetworksOK, Bookkeeping
  <2>3. DnsRight(saved') <=> DnsRight(saved)
    BY <2>1
  <2>4. DnsRight(stored') <=> DnsRight(stored)
    BY <2>1
  <2>5. WanRight(saved', unseen') <=> WanRight(saved, unseen)
    BY <2>1
  <2>6. WanRight(stored', unseen') <=> WanRight(stored, unseen)
    BY <2>1
  <2>7. Started(stored') = Started(stored)
    BY <2>1
  <2>8. DnsDue'
    BY <2>1, <2>3, <2>4 DEF IInv, DnsDue, DevicesFit
  <2>9. WanDue'
    BY <2>1, <2>5, <2>6 DEF IInv, WanDue
  <2>10. ActiveDue'
    BY <2>1, <2>7 DEF IInv, ActiveDue
  <2>11. QED
    BY <2>2, <2>8, <2>9, <2>10 DEF IInv
<1>7. QED
  BY <1>1, <1>2, <1>3, <1>4, <1>5, <1>6 DEF Next

(* The settings keep their types: what adblock and banIP are set up for are  *)
(* devices and interfaces of this machine (configure-adblock-devices.py:24,  *)
(* configure-banip-wans.py:30).                                              *)
THEOREM TypeCorrect == Spec => []TypeOK
<1>1. IInv => TypeOK
  BY DEF IInv
<1>2. QED
  BY <1>1, InitIInv, StepIInv, PTL DEF Spec

(* When nothing waits to be committed, DNS is enforced on the devices of the *)
(* chosen zones and on those only, for any number of interfaces, zones and   *)
(* calls (configure-adblock-devices.py:8).                                   *)
THEOREM DnsFollowsZones == Spec => []DnsEnforced
<1>1. IInv => DnsEnforced
  BY DEF IInv, DnsDue, DnsEnforced, Settled, DnsRight
<1>2. QED
  BY <1>1, InitIInv, StepIInv, PTL DEF Spec

(* Under the same conditions banIP is set up for the interfaces of zone wan  *)
(* that are no bonds, and filters there if and only if it is enabled, but    *)
(* for those that moved in or out of wan unnoticed (configure-banip-wans.py:8,*)
(* adjust-banip.py:8).                                                       *)
THEOREM BanipFollowsWan == Spec => []WanFiltered
<1>1. IInv => WanFiltered
  <2> SUFFICES ASSUME IInv, Settled PROVE WanFiltered
    BY DEF WanFiltered
  <2>1. WanRight(stored, unseen) /\ active = Started(stored)
    BY DEF IInv, WanDue, ActiveDue, Settled
  <2>2. QED
    BY <2>1 DEF WanRight, Started, WanFiltered
<1>2. QED
  BY <1>1, InitIInv, StepIInv, PTL DEF Spec
=============================================================================
