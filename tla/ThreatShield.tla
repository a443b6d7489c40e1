------------------------------ MODULE ThreatShield ------------------------------
(***************************************************************************)
(* Threat shield and the network: the devices that adblock's DNS           *)
(* enforcement and banIP work on are derived from the interfaces of zones, *)
(* by hooks of ns.commit.  Modelled: the devices of ns.devices and their   *)
(* zones, the settings of ns.threatshield, and ns.commit step by step: the *)
(* hooks in any order, the commits, banIP restarted.                       *)
(*                                                                         *)
(* Other calls may save while ns.commit runs.  Left out: aliases and       *)
(* WireGuard interfaces; the devices a zone lists itself, as the zone of   *)
(* OpenVPN tunnels does; two interfaces on one device, of which            *)
(* get_interface_from_device finds the first; the enabling of adblock,     *)
(* feeds and lists.                                                        *)
(***************************************************************************)
EXTENDS Naturals, FiniteSets

CONSTANTS
    Ifaces,       \* interfaces of the network configuration
    Ports,        \* network devices an interface can be made of
    Others,       \* names of zones other than wan
    KindsOf,      \* bound: what each interface may be made: "plain", "pppoe", "bond"
    NoPort, NoZone,
    MaxCalls,     \* bound on the calls between two commits
    MaxMishaps    \* bound on what can part hooks and commits, see Mishap

Zones == {"wan"} \cup Others
Configs == {"network", "firewall", "adblock", "banip"}
Hooks == {"adblock_hook", "banip_hook"}

ASSUME ThreatShieldAssumption ==
    /\ KindsOf \in [Ifaces -> SUBSET {"plain", "pppoe", "bond"}]
    /\ NoPort \notin Ports /\ NoZone \notin Zones
    /\ "wan" \notin Others
    /\ Zones \cap Ports = {} /\ "gone" \notin Zones \cup Ports
    /\ MaxCalls \in Nat /\ MaxMishaps \in Nat

VARIABLES
    saved,      \* the configurations as any process sees them
    stored,     \* the configurations as they are committed
    pending,    \* configurations with saved changes
    pc,         \* ns.commit: "idle", "hooks" or "after"
    todo,       \* the hooks still to run
    given,      \* the changes ns.commit was given, or a hook has added
    active,     \* the devices banIP filters at
    late,       \* history: what is committed may not be what the hooks saw
    unseen,     \* history: moved in or out of wan, and banIP's hook is not told
    calls,      \* history: calls since the last commit
    mishaps     \* history: how often late was set

vars == <<saved, stored, pending, pc, todo, given, active, late, unseen, calls, mishaps>>

(* An interface that ns.devices has put in zone wan has a metric.             *)
Absent == [kind |-> "none", port |-> NoPort, metric |-> FALSE]
Network == [Ifaces -> [kind : {"none", "plain", "pppoe", "bond"}, port : Ports \cup {NoPort},
                       metric : BOOLEAN]]
Firewall == [Ifaces -> Zones \cup {NoZone}]
Uplinks == {"dev", "pppoe"} \X (Ports \cup Ifaces)

(* adblock: the zones chosen and the devices enforced, which are names of     *)
(* zones when a migration gave up.                                           *)
Adblock == [zones : SUBSET Others, devices : SUBSET (Ports \cup Zones \cup {"gone"})]
Banip == [on : BOOLEAN, ifaces : SUBSET Ifaces, devices : SUBSET Uplinks]
Config == [network : Network, firewall : Firewall, adblock : Adblock, banip : Banip]

TypeOK ==
    /\ saved \in Config /\ stored \in Config
    /\ pending \subseteq Configs /\ given \subseteq Configs
    /\ pc \in {"idle", "hooks", "after"}
    /\ todo \subseteq Hooks /\ (todo # {} => pc = "hooks")
    /\ active \subseteq Uplinks
    /\ late \in BOOLEAN /\ unseen \subseteq Ifaces
    /\ calls \in 0..MaxCalls /\ mishaps \in 0..MaxMishaps

-----------------------------------------------------------------------------
(* get_all_by_type, of interfaces                                            *)
Interfaces(c) == {i \in Ifaces : c.network[i] # Absent}

(* get_all_devices_by_zone.  A bond has no device option: it adds no device.  *)
DevicesIn(c, z) ==
    {c.network[i].port : i \in {j \in Interfaces(c) :
        c.firewall[j] = z /\ c.network[j].kind # "bond"}}

(* Mutant of DevicesOf: what has no device of its own is taken as well.       *)
DevicesOfAll(c, zones) ==
    {c.network[i].port : i \in {j \in Ifaces : c.firewall[j] \in zones}}

DevicesOf(c, zones) == UNION {DevicesIn(c, z) : z \in zones}

(* get_interface_from_device                                                 *)
InterfaceOf(c, d) == CHOOSE i \in Interfaces(c) : c.network[i].port = d

(* What configure-banip-wans computes: the interfaces of zone wan, and their  *)
(* devices, those of PPPoE by the name they have when they are up; the order *)
(* of both is left out.                                                      *)
Wan(c) ==
    LET ifaces == {InterfaceOf(c, d) : d \in DevicesIn(c, "wan")}
    IN [ifaces |-> ifaces,
        devices |-> {IF c.network[i].kind = "pppoe" THEN <<"pppoe", i>>
                     ELSE <<"dev", c.network[i].port>> : i \in ifaces}]

-----------------------------------------------------------------------------
(* Calls of the API: they change what is saved.                              *)
(* What is committed may no longer be what the hooks saw.                     *)
Mishap ==
    /\ mishaps < MaxMishaps /\ mishaps' = mishaps + 1
    /\ late' = TRUE

NoMishap == UNCHANGED <<late, mishaps>>

(* What moves in or out of zone wan and has, or has not, its metric already:  *)
(* the network does not change with it, nor does anything else that banIP's   *)
(* hook would be told of.                                                    *)
Unnoticed(c, configs) ==
    {i \in Ifaces :
        /\ (pending \cup configs) \cap {"network", "banip"} = {}
        /\ (saved.firewall[i] = "wan") # (c.firewall[i] = "wan")
        /\ c.network[i].metric = (c.firewall[i] = "wan")}

Save(c, configs) ==
    /\ saved' = c
    /\ unseen' = unseen \cup Unnoticed(c, configs)
    /\ pending' = pending \cup configs
    /\ \/ pc = "hooks" /\ Mishap /\ UNCHANGED calls
       \/ /\ pc # "hooks" /\ NoMishap
          /\ calls < MaxCalls /\ calls' = calls + 1
    /\ UNCHANGED <<stored, pc, todo, given, active>>

(* remove_interface_from_zone, then add_interface_to_zone                    *)
InZone(c, i, z) == [c EXCEPT !.firewall[i] = z]

(* configure_device of ns.devices, for a new interface of a device unused.    *)
Configure(i, kind, port, z) ==
    /\ i \notin Interfaces(saved)
    /\ kind \in KindsOf[i]
    /\ IF kind = "bond" THEN port = NoPort
       ELSE port \in Ports /\ \A j \in Ifaces : saved.network[j].port # port
    /\ Save(InZone([saved EXCEPT !.network[i] = [kind |-> kind, port |-> port, metric |-> z = "wan"]],
                   i, z),
            {"network", "firewall"})

(* The same for an interface that is there: its zone or protocol changes.  It *)
(* is given a metric in zone wan and loses it elsewhere; other options may    *)
(* change or not.                                                            *)
Reconfigure(i, kind, z) ==
    LET old == saved.network[i]
        new == [old EXCEPT !.kind = kind, !.metric = z = "wan"]
    IN /\ i \in Interfaces(saved)
       /\ kind \in KindsOf[i]
       /\ old.kind = kind \/ {old.kind, kind} = {"plain", "pppoe"}
       /\ \E options \in BOOLEAN :
            /\ old # new => options
            /\ Save(InZone([saved EXCEPT !.network[i] = new], i, z),
                    (IF options THEN {"network"} ELSE {})
                    \cup (IF saved.firewall[i] # z THEN {"firewall"} ELSE {}))

(* unconfigure_device                                                        *)
Unconfigure(i) ==
    /\ i \in Interfaces(saved)
    /\ Save(InZone([saved EXCEPT !.network[i] = Absent], i, NoZone),
            {"network"} \cup (IF saved.firewall[i] = NoZone THEN {} ELSE {"firewall"}))

(* delete_zone: the interfaces stay, without a zone.                         *)
DeleteZone(z) ==
    /\ z \in {saved.firewall[i] : i \in Ifaces}
    /\ Save([saved EXCEPT !.firewall = [i \in Ifaces |-> IF @[i] = z THEN NoZone ELSE @[i]]],
            {"firewall"})

(* dns_edit_settings of ns.threatshield                                      *)
EditDns(zones) ==
    Save([saved EXCEPT !.adblock = [zones |-> zones, devices |-> DevicesOf(saved, zones)]],
         {"adblock"})

(* edit_settings of ns.threatshield                                          *)
EditBanip(on) == Save([saved EXCEPT !.banip.on = on], {"banip"})

-----------------------------------------------------------------------------
(* ns.commit.                                                                *)

(* It is given all the changes there are.  Those of the network make both     *)
(* hooks look again, those of banIP its own.                                 *)
StartCommit ==
    /\ pc = "idle" /\ pending # {}
    /\ pc' = "hooks"
    /\ todo' = Hooks /\ given' = pending
    /\ late' = (late /\ "network" \notin pending)
    /\ unseen' = IF pending \cap {"network", "banip"} = {} THEN unseen ELSE {}
    /\ UNCHANGED <<saved, stored, pending, active, calls, mishaps>>

(* Mutant of AdblockTriggers: a zone that changes is no reason.               *)
AdblockTriggersFew == {"adblock", "network"}
AdblockTriggers == {"adblock", "firewall", "network"}

AdblockHook ==
    LET devices == DevicesOf(saved, saved.adblock.zones)
        stale == /\ given \cap AdblockTriggers # {}
                 /\ saved.adblock.zones # {} /\ devices # saved.adblock.devices
    IN /\ pc = "hooks" /\ "adblock_hook" \in todo
       /\ todo' = todo \ {"adblock_hook"}
       /\ IF stale
          THEN /\ saved' = [saved EXCEPT !.adblock.devices = devices]
               /\ pending' = pending \cup {"adblock"}
               /\ given' = given \cup {"adblock"}
          ELSE UNCHANGED <<saved, pending, given>>
       /\ UNCHANGED <<stored, pc, active, late, unseen, calls, mishaps>>

(* Mutant of WanChanged: the interfaces are compared, the devices are not.    *)
WanChangedIfaces(w) == saved.banip.ifaces # w.ifaces
WanChanged(w) == saved.banip.ifaces # w.ifaces \/ saved.banip.devices # w.devices

(* configure-banip-wans: when ns.commit was not given changes of banIP, the   *)
(* hook commits that configuration at once.                                  *)
BanipHook ==
    LET w == Wan(saved)
        c == [saved EXCEPT !.banip.ifaces = w.ifaces, !.banip.devices = w.devices]
    IN /\ pc = "hooks" /\ "banip_hook" \in todo
       /\ todo' = todo \ {"banip_hook"}
       /\ \/ /\ given \cap {"network", "banip"} # {} /\ WanChanged(w)
             /\ saved' = c
             /\ IF "banip" \in given
                THEN pending' = pending \cup {"banip"} /\ UNCHANGED stored
                ELSE /\ pending' = pending \ {"banip"}
                     /\ stored' = [stored EXCEPT !.banip = c.banip]
          \/ /\ given \cap {"network", "banip"} = {} \/ ~WanChanged(w)
             /\ UNCHANGED <<saved, stored, pending>>
       /\ UNCHANGED <<pc, given, active, late, unseen, calls, mishaps>>

(* Every configuration is committed, with all that is saved by now, including *)
(* the changes of others to it.                                              *)
Committed(configs) == [c \in Configs |-> IF c \in configs THEN saved[c] ELSE stored[c]]

CommitAll ==
    /\ pc = "hooks" /\ todo = {}
    /\ pc' = "after"
    /\ stored' = Committed(given)
    /\ pending' = pending \ given
    /\ calls' = 0
    /\ UNCHANGED <<saved, todo, given, active, late, unseen, mishaps>>

Started(c) == IF c.banip.on THEN c.banip.devices ELSE {}

(* adjust-banip: banIP is started, after it was stopped if it ran.  It is so  *)
(* when it is disabled too ('0' is true for the script); the service itself  *)
(* does not start then (external).                                           *)
AdjustBanip ==
    /\ pc = "after"
    /\ pc' = "idle" /\ given' = {}
    /\ active' = IF given \cap {"banip", "network"} # {} THEN Started(saved) ELSE active
    /\ UNCHANGED <<saved, stored, pending, todo, late, unseen, calls, mishaps>>

(* A script such as ns.ovpnrw commits network and firewall by itself, with    *)
(* what others have saved; here, while ns.commit does not run.               *)
DirectCommit ==
    /\ pc = "idle" /\ pending \cap {"network", "firewall"} # {}
    /\ stored' = [stored EXCEPT !.network = saved.network, !.firewall = saved.firewall]
    /\ pending' = pending \ {"network", "firewall"}
    /\ Mishap
    /\ UNCHANGED <<saved, pc, todo, given, active, unseen, calls>>

(* A reboot, when some of the configurations may have been committed: saved   *)
(* changes are in memory and go, banIP starts again.                         *)
Reboot ==
    /\ \E configs \in SUBSET given :
          /\ configs # {} => pc = "hooks" /\ todo = {}
          /\ stored' = Committed(configs)
    /\ saved' = stored' /\ pending' = {}
    /\ pc' = "idle" /\ todo' = {} /\ given' = {} /\ calls' = 0
    /\ active' = Started(stored') /\ UNCHANGED unseen
    /\ IF pc = "hooks" THEN Mishap ELSE NoMishap

-----------------------------------------------------------------------------
(* adblock-devices-migrate, at the first boot of an upgraded system: old are  *)
(* names of zones.  With one that is gone everything is left as it is.       *)
Migrated(c, old) ==
    IF old \subseteq Zones THEN [zones |-> old, devices |-> DevicesOf(c, old)]
    ELSE [zones |-> {}, devices |-> old]

(* Bound: one zone at most was enforced before the upgrade.                   *)
Init ==
    \E net \in [Ifaces -> {Absent} \cup [kind : {"plain"}, port : Ports, metric : BOOLEAN]],
       fw \in [Ifaces -> Zones \cup {NoZone}],
       old \in {{}} \cup {{z} : z \in Others \cup {"gone"}} :
        LET c == [network |-> net, firewall |-> fw]
            w == Wan(c)
        IN /\ \A i, j \in Ifaces : i # j /\ net[i].port = net[j].port => net[i] = Absent
           /\ \A i \in Ifaces : net[i] = Absent <=> fw[i] = NoZone
           /\ \A i \in Ifaces : net[i].metric => fw[i] = "wan"
           /\ stored = [network |-> net, firewall |-> fw, adblock |-> Migrated(c, old),
                        banip |-> [on |-> FALSE, ifaces |-> w.ifaces, devices |-> w.devices]]
           /\ saved = stored
           /\ pending = {} /\ pc = "idle" /\ todo = {} /\ given = {}
           /\ active = {} /\ late = FALSE /\ unseen = {} /\ calls = 0 /\ mishaps = 0

Devices ==
    \/ \E i \in Ifaces, z \in Zones, kind \in {"plain", "pppoe", "bond"} :
          \/ \E port \in Ports \cup {NoPort} : Configure(i, kind, port, z)
          \/ Reconfigure(i, kind, z)
    \/ \E i \in Ifaces : Unconfigure(i)
    \/ \E z \in Others : DeleteZone(z)

Settings ==
    \/ \E zones \in SUBSET Others : EditDns(zones)
    \/ \E on \in BOOLEAN : EditBanip(on)

Commit ==
    StartCommit \/ AdblockHook \/ BanipHook \/ CommitAll \/ AdjustBanip

Next == Devices \/ Settings \/ Commit \/ DirectCommit \/ Reboot

Spec == Init /\ [][Next]_vars

-----------------------------------------------------------------------------
Settled == pc = "idle" /\ pending = {} /\ ~late

(* configure-adblock-devices.py:8, ns-threat_shield README:89.  When nothing  *)
(* waits to be committed, DNS is enforced on the devices of the chosen zones, *)
(* and on those only, whatever happened to interfaces and zones.  Three       *)
(* things part them until the next commit of network changes: a script that   *)
(* commits by itself, a call that saves while ns.commit runs, and a reboot in *)
(* the middle of it.  A bond is not enforced at all.                         *)
DnsEnforced ==
    Settled => stored.adblock.devices \cap Ports = DevicesOf(stored, stored.adblock.zones)

(* The interfaces of zone wan; a bond is none for banIP.                      *)
WanIfaces(c) ==
    {i \in Interfaces(c) : c.firewall[i] = "wan" /\ c.network[i].kind # "bond"}

(* The name of each interface's device when it is up.                        *)
UpNames(c, ifaces) ==
    {<<"pppoe", i>> : i \in {j \in ifaces : c.network[j].kind = "pppoe"}}
    \cup {<<"dev", c.network[i].port>> : i \in {j \in ifaces : c.network[j].kind # "pppoe"}}

SameBut(x, y, except) == x \ except = y \ except

(* configure-banip-wans.py:8, adjust-banip.py:8.  Under the same conditions   *)
(* banIP is set up for the interfaces of zone wan, by the names they have     *)
(* when they are up, and filters there if and only if it is enabled.  There   *)
(* are two exceptions.  A bond in zone wan is not filtered at all.  And an    *)
(* interface that moves in or out of zone wan while the network stays as it   *)
(* is, because it had no metric to lose, or has one already, is noticed at    *)
(* the next commit of network or banIP changes only.                         *)
WanFiltered ==
    Settled =>
        LET wan == WanIfaces(stored)
        IN /\ SameBut(stored.banip.ifaces, wan, unseen)
           /\ SameBut(stored.banip.devices, UpNames(stored, wan), UpNames(stored, unseen))
           /\ IF stored.banip.on
              THEN SameBut(active, UpNames(stored, wan), UpNames(stored, unseen))
              ELSE active = {}
=============================================================================
