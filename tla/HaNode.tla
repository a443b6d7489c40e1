-------------------------------- MODULE HaNode --------------------------------
(***************************************************************************)
(* One node of the high-availability pair: what the hotplug chains of      *)
(* packages/ns-ha and packages/keepalived do to its WAN/VPN interfaces,    *)
(* services and crontab, composed with the lock of HotplugLock.            *)
(*                                                                         *)
(* keepalived is external: it moves between its VRRP states and starts one *)
(* chain per transition without waiting for the earlier ones.  A chain     *)
(* sources the scripts of /etc/hotplug.d/keepalived one after another; the *)
(* sequence todo[c] holds the effects it still has to apply, in that order.*)
(***************************************************************************)
EXTENDS HotplugLock, Sequences

CONSTANTS
    Roles,         \* the roles to consider, a subset of {"primary", "backup"}
    HotspotMacs,   \* can an HA-tagged hotspot device have its MAC overridden?
    SyncedTabs     \* the crontabs a NOTIFY_SYNC can restore from the primary

ASSUME RolesAssumption == Roles \subseteq {"primary", "backup"}
ASSUME HotspotAssumption == HotspotMacs \subseteq BOOLEAN
ASSUME SyncedTabsAssumption == SyncedTabs \subseteq SUBSET {"acme", "phonehome"}

VARIABLES
    role,      \* the keepalived section this node has in UCI
    hotspot,   \* does disable_hotspot find a device whose MAC it must restore?
    vrrp,      \* the state keepalived is in
    on,        \* what is up and running on the node
    cron,      \* the crontab entries that are not commented out
    todo,      \* the effects a chain still has to apply
    tab,       \* the crontab a chain has read into its temporary file
    synced,    \* history: a NOTIFY_SYNC chain since one last started alone
    newest,    \* history: the chain of the last transition while it waits
    late       \* history: an older chain had its turn after that one

nodeVars == <<role, hotspot, vrrp, on, cron, todo, tab, synced>>
turns == <<newest, late>>
vars == <<pc, event, limit, elapsed, holder, flag, timeout, overrun,
          role, hotspot, vrrp, on, cron, todo, tab, synced, newest, late>>

(* "vpn" stands for the WireGuard and the IPsec interfaces. *)
Interfaces == {"wan", "vpn"}

(* "services" are those with set_stop_if_backup and set_restart_if_master,   *)
(* "dpi" those 800-netifyd names itself (dpi, ns-flows, ns-stats ...).       *)
Services == {"dnsmasq", "services", "dpi"}
Things == Interfaces \cup Services

(* "acme" stands for the jobs that NOTIFY_SYNC disables again, "phonehome"   *)
(* for those only NOTIFY_BACKUP disables.                                    *)
Jobs == {"acme", "phonehome"}

VrrpStates == {"INIT", "BACKUP", "MASTER", "FAULT", "STOPPED"}
Ops == {"enable", "disable", "hotspot", "teardown", "restore", "on", "off",
        "cron_read", "cron_on", "cron_off"}

TypeOK ==
    /\ LockTypeOK
    /\ role \in Roles
    /\ hotspot \in BOOLEAN
    /\ vrrp \in VrrpStates
    /\ on \subseteq Things
    /\ cron \subseteq Jobs
    /\ DOMAIN todo = Chains
    /\ \A c \in Chains : \A i \in 1..Len(todo[c]) :
           todo[c][i] \in Ops \X (Things \cup Jobs \cup {"ha"})
    /\ tab \in [Chains -> SUBSET Jobs]
    /\ synced \in BOOLEAN
    /\ newest \in Chains \cup {NoChain} /\ late \in BOOLEAN

(* A node that has just booted: procd started the enabled services, netifd   *)
(* the interfaces, which on the backup were imported with auto '0'.          *)
Init ==
    /\ LockInit
    /\ role \in Roles
    /\ hotspot \in {h \in HotspotMacs : h => role = "backup"}
    /\ vrrp = "INIT"
    /\ on = IF role = "backup" THEN Things \ Interfaces ELSE Things
    /\ cron = Jobs
    /\ todo = [c \in Chains |-> <<>>]
    /\ tab = [c \in Chains |-> {}]
    /\ synced = FALSE
    /\ newest = NoChain /\ late = FALSE

-----------------------------------------------------------------------------
(* The effects of the scripts of /etc/hotplug.d/keepalived for an event, in  *)
(* the order of their names: 02-rsync, 10-adjust, 500-dhcp-force,            *)
(* 551-dnsmasq, 600-acme, other services, 800-netifyd, 900-phonehome,        *)
(* 999-stop-fault.  update_cron lists the crontab into a file ("cron_read"), *)
(* edits the file and installs it ("cron_on", "cron_off").                   *)
MasterScript ==
    << <<"enable", "ha">>, <<"on", "dnsmasq">>, <<"cron_read", "ha">>, <<"cron_on", "acme">>,
       <<"on", "services">>, <<"on", "dpi">>, <<"cron_read", "ha">>, <<"cron_on", "phonehome">> >>

BackupScript ==
    << <<"disable", "ha">>, <<"off", "dnsmasq">>, <<"cron_read", "ha">>, <<"cron_off", "acme">>,
       <<"off", "services">>, <<"off", "dpi">>, <<"cron_read", "ha">>, <<"cron_off", "phonehome">> >>

DownScript == << <<"off", "dnsmasq">>, <<"teardown", "ha">> >>

SyncScript ==
    << <<"restore", "ha">>, <<"off", "dnsmasq">>, <<"cron_read", "ha">>, <<"cron_off", "acme">> >>

Script ==
    [NOTIFY_MASTER |-> MasterScript, NOTIFY_BACKUP |-> BackupScript,
     NOTIFY_FAULT |-> DownScript, NOTIFY_STOP |-> DownScript, NOTIFY_SYNC |-> SyncScript]

IfUps == << <<"on", "wan">>, <<"on", "vpn">> >>
IfDowns == << <<"off", "vpn">>, <<"off", "wan">> >>

(* The interfaces, the hotspot MAC, the services.                            *)
TeardownSteps ==
    << <<"off", "vpn">>, <<"off", "wan">>, <<"hotspot", "ha">>,
       <<"off", "dnsmasq">>, <<"off", "services">> >>

-----------------------------------------------------------------------------
(* keepalived's transitions (external) and the event each one notifies. *)
Successors ==
    [INIT |-> {"BACKUP", "FAULT", "STOPPED"}, BACKUP |-> {"MASTER", "FAULT", "STOPPED"},
     MASTER |-> {"BACKUP", "FAULT", "STOPPED"}, FAULT |-> {"BACKUP", "STOPPED"},
     STOPPED |-> {"BACKUP", "FAULT"}]

EventOf ==
    [MASTER |-> "NOTIFY_MASTER", BACKUP |-> "NOTIFY_BACKUP",
     FAULT |-> "NOTIFY_FAULT", STOPPED |-> "NOTIFY_STOP"]

(* A chain makes its first attempt at the lock before keepalived moves on:   *)
(* transitions are at least an advertisement interval (1 s) apart.           *)
Paced == \A c \in Chains : pc[c] = "lock" => elapsed[c] > 0

AllIdle == \A c \in Chains : pc[c] = "idle"

Start(c, e) ==
    /\ e \in Events
    /\ Dispatch(c, e)
    /\ todo' = [todo EXCEPT ![c] = Script[e]]
    /\ synced' = (e = "NOTIFY_SYNC" \/ (synced /\ ~AllIdle))

Transition(c, s) ==
    /\ Paced
    /\ s \in Successors[vrrp]
    /\ vrrp' = s
    /\ Start(c, EventOf[s])
    /\ newest' = c /\ late' = FALSE
    /\ UNCHANGED <<role, hotspot, on, cron, tab>>

(* The primary, after an rsync, starts a NOTIFY_SYNC chain on the backup.  *)
(* It knows neither the state of this node nor the chains it is running.   *)
Sync(c) ==
    /\ role = "backup"
    /\ Start(c, "NOTIFY_SYNC")
    /\ UNCHANGED <<role, hotspot, vrrp, on, cron, tab, turns>>

-----------------------------------------------------------------------------
(* The next effect of chain c is op on x. *)
NextUp(c, op, x) ==
    /\ pc[c] = "body"
    /\ todo[c] # <<>>
    /\ Head(todo[c]) = <<op, x>>

(* That effect is done; steps come before the rest of the script. *)
Then(c, steps) == todo' = [todo EXCEPT ![c] = steps \o Tail(@)]

(* Mutant of Enable: it looks at the role where it must look at the state. *)
EnableByRole(c) ==
    /\ NextUp(c, "enable", "ha")
    /\ Then(c, IF role = "primary" THEN IfUps ELSE <<>>)
    /\ UNCHANGED <<lockVars, role, hotspot, vrrp, on, cron, tab, synced>>

(* Mutant of Enable: its early exit ends the chain with it. *)
EnableEndsChain(c) ==
    /\ NextUp(c, "enable", "ha")
    /\ \/ /\ vrrp = "MASTER"
          /\ Then(c, IfUps)
          /\ UNCHANGED lockVars
       \/ /\ vrrp # "MASTER"
          /\ todo' = [todo EXCEPT ![c] = <<>>]
          /\ Exit(c)
          /\ UNCHANGED <<holder, flag, timeout, overrun>>
    /\ UNCHANGED <<role, hotspot, vrrp, on, cron, tab, synced>>

(* ns-ha-enable gives up unless keepalived is master at this very moment. *)
Enable(c) ==
    /\ NextUp(c, "enable", "ha")
    /\ Then(c, IF vrrp = "MASTER" THEN IfUps ELSE <<>>)
    /\ UNCHANGED <<lockVars, role, hotspot, vrrp, on, cron, tab, synced>>

(* ns-ha-disable looks at the role only, never at the VRRP state. *)
Disable(c) ==
    /\ NextUp(c, "disable", "ha")
    /\ Then(c, IF role = "backup" THEN IfDowns ELSE <<>>)
    /\ UNCHANGED <<lockVars, role, hotspot, vrrp, on, cron, tab, synced>>

(* Mutant of Teardown: --force brings the interfaces down and no more. *)
TeardownKeepsServices(c) ==
    /\ NextUp(c, "teardown", "ha")
    /\ Then(c, IfDowns \o << <<"hotspot", "ha">> >>)
    /\ UNCHANGED <<lockVars, role, hotspot, vrrp, on, cron, tab, synced>>

(* ns-ha-disable --force *)
Teardown(c) ==
    /\ NextUp(c, "teardown", "ha")
    /\ Then(c, TeardownSteps)
    /\ UNCHANGED <<lockVars, role, hotspot, vrrp, on, cron, tab, synced>>

(* disable_hotspot logs proc.returncode, and proc is unbound with --force:   *)
(* the script dies of a NameError before it stops any service.               *)
RestoreHotspot(c) ==
    /\ NextUp(c, "hotspot", "ha")
    /\ todo' = [todo EXCEPT ![c] = IF hotspot THEN <<>> ELSE Tail(@)]
    /\ UNCHANGED <<lockVars, role, hotspot, vrrp, on, cron, tab, synced>>

(* 02-rsync copies the files the primary listed over those of this node.     *)
(* Among them is the crontab: sysupgrade -l (external) lists it, and the     *)
(* scripts that disable cron jobs again at NOTIFY_SYNC rely on that.         *)
Restore(c) ==
    /\ NextUp(c, "restore", "ha")
    /\ Then(c, <<>>)
    /\ cron' \in SyncedTabs
    /\ UNCHANGED <<lockVars, role, hotspot, vrrp, on, tab, synced>>

(* ifup, or the restart or reload of a service. *)
SwitchOn(c, x) ==
    /\ NextUp(c, "on", x)
    /\ Then(c, <<>>)
    /\ on' = on \cup {x}
    /\ UNCHANGED <<lockVars, role, hotspot, vrrp, cron, tab, synced>>

SwitchOff(c, x) ==
    /\ NextUp(c, "off", x)
    /\ Then(c, <<>>)
    /\ on' = on \ {x}
    /\ UNCHANGED <<lockVars, role, hotspot, vrrp, cron, tab, synced>>

CronRead(c) ==
    /\ NextUp(c, "cron_read", "ha")
    /\ Then(c, <<>>)
    /\ tab' = [tab EXCEPT ![c] = cron]
    /\ UNCHANGED <<lockVars, role, hotspot, vrrp, on, cron, synced>>

(* The edited copy replaces the whole crontab. *)
CronWrite(c, j) ==
    /\ \/ NextUp(c, "cron_on", j) /\ cron' = tab[c] \cup {j}
       \/ NextUp(c, "cron_off", j) /\ cron' = tab[c] \ {j}
    /\ Then(c, <<>>)
    /\ tab' = [tab EXCEPT ![c] = {}]
    /\ UNCHANGED <<lockVars, role, hotspot, vrrp, on, synced>>

Effect(c) ==
    \/ Enable(c) \/ Disable(c) \/ Teardown(c) \/ RestoreHotspot(c) \/ Restore(c)
    \/ CronRead(c)
    \/ \E x \in Things : SwitchOn(c, x) \/ SwitchOff(c, x)
    \/ \E j \in Jobs : CronWrite(c, j)

(* The chain comes to 999-unlock when every other script has run. *)
ReachUnlock(c) ==
    /\ todo[c] = <<>>
    /\ EndBody(c)
    /\ UNCHANGED nodeVars

(* The waiting chain that finds the lock free first has its turn first.      *)
TakeTurn(c) ==
    IF pc[c] = "lock" /\ pc'[c] # "lock"
    THEN /\ newest' = IF c = newest THEN NoChain ELSE newest
         /\ late' = (late \/ newest = NoChain)
    ELSE UNCHANGED turns

Progress(c) ==
    /\ Effect(c) \/ ReachUnlock(c) \/ (LockStep(c) /\ UNCHANGED nodeVars)
    /\ TakeTurn(c)

Next ==
    \/ \E c \in Chains : \/ Progress(c)
                         \/ \E s \in VrrpStates : Transition(c, s)
                         \/ Sync(c)
    \/ \E t \in Timeouts : SetTimeout(t) /\ UNCHANGED <<nodeVars, turns>>

Spec == Init /\ [][Next]_vars
FairSpec == Spec /\ \A c \in Chains : WF_vars(Progress(c))

-----------------------------------------------------------------------------
(* Every chain got the lock in time since one last started alone, and that of *)
(* the last transition got it last.                                          *)
InOrder == AllIdle /\ ~overrun /\ ~late

(* README:601-606, 602: "activates all network interfaces", "enables all     *)
(* network interfaces and services".  Once the chains of a burst of          *)
(* transitions have ended on a master node, everything is up and every cron  *)
(* job enabled, however the transitions and the chains interleaved.  A chain *)
(* of NOTIFY_SYNC that ran along may have stopped dnsmasq and the jobs.       *)
SettledMaster ==
    InOrder /\ vrrp = "MASTER" =>
        /\ IF synced THEN Things \ {"dnsmasq"} \subseteq on ELSE on = Things
        /\ synced \/ cron = Jobs

Quiet ==
    /\ role = "backup" => on = {}
    /\ synced \/ cron = {}

(* README:610-613.  Once the chains have ended on the backup node in BACKUP  *)
(* state, none of its HA interfaces and none of the services is up: not even *)
(* when chains of NOTIFY_SYNC ran along, unlocked.  On either node the cron   *)
(* jobs are disabled, if no such chain brought back a crontab.               *)
BackupQuiet == InOrder /\ vrrp = "BACKUP" => Quiet

(* 00-lock:7-9.  The lock alone is enough for that, whichever of the waiting  *)
(* chains gets it first.                                                     *)
BackupQuietAnyOrder == AllIdle /\ ~overrun /\ vrrp = "BACKUP" => Quiet

(* 999-stop-fault:3, "Tear down all services".  Once the chains have ended on *)
(* a node in fault or with keepalived stopped, nothing is left running but   *)
(* two exceptions: what 800-netifyd names itself, which ns-ha-disable --force *)
(* does not find, and the services it does find if it had a hotspot MAC to   *)
(* restore and died before it came to them.                                  *)
NotTornDown == {"dpi"} \cup (IF hotspot THEN {"services"} ELSE {})

SettledDown == InOrder /\ vrrp \in {"FAULT", "STOPPED"} => on \subseteq NotTornDown

(* A node that keepalived leaves in MASTER state for ever, with the lock     *)
(* always granted in time and at last to the chain of that transition, ends  *)
(* up with everything running.                                               *)
StableMasterServes ==
    []~overrun /\ <>[](vrrp = "MASTER" /\ ~late) => <>[](on = Things /\ cron = Jobs)
=============================================================================
