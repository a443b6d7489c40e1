# Verification of NethSecurity

TLA+ models of the parts of NethSecurity where several actors, several
configurations or several calls have to agree, TLC runs that check them on small
instances, and TLAPS proofs of what holds for every instance. The source is the
reference: each definition names, in `PROJECT.json` under `map`, the lines it
stands for.

    tlc -workers 2 -config MCHotplugLock.cfg MCHotplugLock.tla
    tlapm HaNodeProofs.tla

## 1. The system

NethSecurity is a firewall distribution: OpenWrt, a set of packages, and an
image build. What runs on a node is mostly shell and Python started by init
scripts, cron, hotplug events and an API server. Two parts carry its own logic.

* **High availability** (`ns-ha`, `keepalived`): two nodes, one configuration.
  keepalived starts a chain of scripts for each transition and waits for none;
  the primary exports, sends and announces its configuration to the backup.
* **Configuration** (`python3-nethsec`, `ns-api`, `ns-threat_shield`,
  `ns-dpi`): calls of the API edit UCI configurations that refer to each other.
  A call *saves*: any other process sees the change, the daemons do not.
  `ns.commit` runs the pre-commit hooks over the changes its caller has fetched,
  commits each configuration, and runs the post-commit hooks. Hooks repair what
  a change in one configuration means for another. Nothing locks a
  configuration from its first call to its commit, and some scripts commit by
  themselves.

| Component | State it keeps | Operations | Interacts through |
|---|---|---|---|
| ns-ha hotplug lock (`00-lock`, `999-unlock`) | lock file, acquired flag, time waited | take, poll, time out, flag, release | files shared by all chains |
| ns-ha node scripts (`10-adjust` ... `999-stop-fault`, `ns-ha-enable`, `ns-ha-disable`, `ns.sh`) | interfaces up, services running, crontab | NOTIFY_MASTER, _BACKUP, _FAULT, _STOP, _SYNC | a chain per transition; NOTIFY_SYNC over ssh |
| ns-ha sync (`ns-rsync.sh`, `ns-ha-export`, `02-rsync`, `ns-ha-import`) | `/etc/ha`, staging area, restore list, status | export, list, copy, notify, restore, import | ssh and rsync, exit code read by keepalived |
| `nethsec.dpi`, `ns.dpi`, `dpi-config`, `dpi-migrate` | rules with priorities, application groups | add, edit, order, delete, migrate the old schema | UCI, the netifyd configuration |
| `nethsec.users`, `ns.users`, `clear-user-tokens` | databases, accounts, groups, rpcd logins, token files | add, edit, delete, set and remove admin, sign in | three configurations, the API server's files |
| `nethsec.mwan`, `ns.mwan`, `clean-network` | interfaces, members, policies, rules, metrics | store, edit, delete, clear, clean up | network and mwan3 configurations |
| `nethsec.objects`, `ns.objects`, `update-objects` | host sets, domain sets, references to them | add, edit, delete, expand | objects, firewall, dhcp, users, mwan3 |
| `nethsec.firewall`, `ns.firewall`, `ns.redirects`, `ns.wireguard`, `ns.ovpntunnel`, `fix-redirect-reflections` | zones, forwardings, rules in order, port forwards, linked sections | add, edit, order, delete, set up and remove a feature | firewall configuration |
| `ns-threat_shield`, `ns.threatshield`, `ns.devices` | devices of zones, adblock's and banIP's copies of them | configure interfaces, settings, two hooks, restart | network, firewall, adblock, banip |
| `ns.commit` | changes given, hooks to run | hooks, commits, hooks | all of the above |
| HA configuration (`ns.ha`, `ns-ha-config`) | UCI `keepalived` on both nodes | init, interfaces, VIPs, enable, reset | RPC on both nodes |
| ns-api-server | tokens, 2FA, sudo mode, rate limits | login, verify, logout, proxy | HTTP handlers sharing files |
| ns-clm, ns-don, ns-plug, ns-openvpn, ns-storage | offsets, sessions, registration, connection DB, mounts | periodic jobs and calls | files and daemons |
| banip, adblock, mwan3, snort3, netifyd, telegraf, victoria-*, rsyslog, acme, ... | configuration of a daemon | generate and reload | init scripts |

What makes the modelled ones correct:

* **lock**: chains that took the lock never run together; its holder releases
  it; it is free when no chain is alive; no event is dropped.
* **node**: when the chains of a burst of transitions have ended, interfaces,
  services and cron jobs are those of the VRRP state.
* **sync**: the backup restores only what the primary had, never goes back, and
  catches up.
* **dpi**: rules are evaluated in the order they are shown, none names a group
  that is gone, each that is shown is in force, exemptions come first.
* **users**: a login goes and changes with its account, a session with its
  login, a membership with its account.
* **mwan**: policies are made of what exists, a removed interface leaves.
* **objects**: nothing refers to what is gone, no set is in itself, the firewall
  matches what its objects are now.
* **firewall**: order is kept, a feature leaves nothing behind, no forwarding or
  reflection names a zone that is gone.
* **threat shield**: filters work on the devices the zones have now.

What is hard to test: chains that overlap, a NOTIFY_SYNC that crosses a
takeover, scripts that die half way, a node that reboots; a sequence of calls
after which a copy in another configuration is stale; a hook that raises; a call
that saves while `ns.commit` runs; a script that commits what others have saved.
`PROJECT.json` lists each at its line under `hazards`.

## 2. Plan

| # | Module | Composes | Proofs | Status |
|---|---|---|---|---|
| 1 | `HotplugLock` | - | all safety, in `HaNodeProofs` | done |
| 2 | `HaNode` | `HotplugLock` | all safety, use of the lock | done |
| 3 | `HaSync` | implements `Replica` | types, refinement, applied as sent | done |
| 4 | `Dpi` | API, dpi-config, migration | all safety | done |
| 5 | `Users` | API, rpcd, tokens, commit | all safety | done |
| 6 | `Mwan` | network, mwan3, commit | all safety | done |
| 7 | `Objects` | objects, firewall, commit | all safety | done |
| 8 | `Firewall` | firewall, features, commit | all safety | done |
| 9 | `ThreatShield` | network, firewall, adblock, banip, `ns.commit` step by step | all safety | done |
| 10 | `Forwarder` (ns-clm) | - | offset invariant | next |
| 11 | `HaConfig` (`ns.ha`) | two nodes | agreement | next |

## 3. Modules

### HotplugLock

One chain is one `hotplug-call keepalived` process. `pc[c]` is where it is:
looping in `00-lock` (`lock`), between `lock -n` and `touch` (`touch`), in the
scripts between (`body`), and the three steps of `999-unlock`. `limit` is the
TIMEOUT variable the chain read, `elapsed` its counter. `holder` is the state
of the lock file; OpenWrt's `lock` (external) succeeds with `-n` iff nobody
holds the file, and `-u` frees it whoever took it. `flag` is the file
`keepalived-hotplug-acquired`. Dispatch with `ns_lock_timeout` unset, zero or
negative goes straight to `body`; the administrator can change it at any time
(`SetTimeout`). `overrun` is history only: a chain has run its scripts without
the lock since a chain of a state transition last started with no other alive.
`Serialised` and `HolderReleases` are conditioned on it: a chain that timed out
does release the lock of another one, because the flag does not say whose it is.

### HaNode

Extends `HotplugLock` with what the chains do between the two lock scripts.
`todo[c]` is the rest of the effects of the chain, in the order of the script
names; `Script` gives it for each event. An effect is one process the scripts
start: `ifup`, a service restart, `ns-ha-enable` deciding by the VRRP state it
reads then, one read or one write of the crontab. Services are grouped by who
stops them: `dnsmasq` (also stopped by `500-dhcp-force`), `services` (every
script with `set_stop_if_backup`), `dpi` (those `800-netifyd` names itself).
Interfaces are `wan` and `vpn`. Jobs are grouped into `acme` (disabled again
at NOTIFY_SYNC) and `phonehome` (not). keepalived is external: `Transition`
follows the VRRP state machine and starts a chain with the event
`keepalived.init` declares; `Sync` is the ssh call of `ns-rsync.sh`.

The lock makes no queue: a chain that waits polls once a second, and of several
the one that polls first takes it. `newest` is the chain of the last transition
while it waits, `late` that an older one had its turn after it (`TakeTurn`); both
are history. The three properties claim what they do of nodes in order
(`InOrder`): every chain has ended, none ran without the lock, and that of the
last transition had its turn last. `BackupQuietAnyOrder` leaves the last of these
out, as the comment in `00-lock` does, and fails.

What the scripts are known to miss bounds what is claimed. `ns-ha-disable --force`
looks for scripts with `set_stop_if_backup`; `800-netifyd` names its services
itself and is not found, so in the states FAULT and STOP the group `dpi` (netifyd,
ns-flows, ns-stats) may go on running. With a hotspot MAC to restore it ends in a
NameError before it stops the services (`RestoreHotspot`). `NotTornDown` names both;
that nothing else runs is what `SettledDown` claims.
NOTIFY_SYNC chains are not locked: one that runs after or across a takeover
stops dnsmasq and disables cron jobs on the new master, and `02-rsync` restores
the primary's crontab, of which `900-phonehome` does not disable its job again.
`synced` is history: such a chain has run among those that ended last.
`SettledMaster` exempts dnsmasq and the crontab then, `BackupQuiet` the crontab,
and nothing else.

Left out: alerts (`05-alert-state`), conntrackd, gratuitous ARP, the dhcp `force`
option, the text of crontab lines (a job is a set member that `update_cron`
comments or uncomments).

### Replica and HaSync

`Replica` is what synchronisation promises of every item: the source moves on
to newer versions, the copy moves on to a version the source has had, and never
back. `HaSync` is how the scripts do it. The contents of an item are a version
number, 0 when the item is not there. `Parts` are the files `ns-ha-export`
writes to `/etc/ha`, `Files` the other entries of the restore list.

On the primary `pc` is where `ns-rsync.sh` is. `Begin` takes its lock and
empties `/etc/ha`; `Export(p)` writes one file from the configuration of that
moment; `MakeList` lists what exists; `Connect` is the `mkdir` over ssh; `Send`,
`SendList` and `SendMissing` are rsync, file by file, reading each when it gets
to it; `RsyncDone` is its exit code; `Notify` starts the chain on the backup and
does not wait; `Record` writes `last_sync_status` and gives the lock back. On
the backup a chain (`at`, `todo`) copies entry by entry, reading (`ReadItem`)
and replacing (`WriteItem`) in two steps, then drops the imported sections
(`Cleanup`) and commits them file by file (`Import`). The administrator edits
and deletes at any time; a deletion never reaches the backup, and `Replica` says
so: its copy may stay at an old version.

Faults, at most `MaxFaults` of them, can happen at any step: ssh or rsync fails,
the notification is lost, `ns-ha-export` dies of an exception (`ExportDies`
says whether it can), keepalived ends the script (`Kill`: the lock goes with
the process group), either node reboots and loses what it keeps in memory.

`Notify(c)` needs a chain `c` that is idle. With one element in `Chains` this is
the assumption that a chain ends before the next run notifies, which the
interval of the track script makes likely and nothing enforces.

### Dpi

A configuration is a record: the rule sections, their order in the file, their
priorities (0 for none), the groups with their members, and the exemptions of
the old schema. A list is kept as the order it puts its elements in, a set of
pairs (`IsOrder`): all that code does with these lists is to sort, filter and
splice them, and a place in one is a number of predecessors (`Place`). `Within`
filters an order, `Then` puts one list behind another. `Listed` is the order the
API shows, `Level` the priority `dpi-config` writes, `Before` the order of
evaluation. The API's calls take one step each (they read, change and save).
`dpi-migrate` does not: it reads (`Begin`), turns exemptions into rules one at a
time in memory (`MigrateExemption`), saves the rules with their new order
(`MigrateRules`) and commits. `Kill` ends it anywhere; what was saved stays
saved, what was in memory is gone. `Restore` is a backup of the old schema, in
which no rule has a priority. `WriteRule` (external) is someone who writes a rule
without one beside the others: the API lists it last, `dpi-config` gives it
priority 1, until the next change of the order numbers it. `written` is history:
the rules so written since all were last numbered; `MaxWritten` bounds them.

### Users

Accounts are found without regard to case (`Found`, `Meant` over `Fold`), rpcd
logins and group members by spelling; `Fold` is a constant function. `login` is
the rpcd configuration as saved, `inForce` as committed. `Commit` with
`clear-user-tokens` removes the token files of logins that are not in the saved
configuration. `EditUserRaises` is an edit without extra fields: it raises when
the login is saved and the account is not. `owner` is history: the database
whose account a login is kept with, cleared by the calls that part the two.

### Mwan

`network` and `wan` are the interfaces of the two configurations. A policy is
the set of its members, a member an interface with a weight: section names are
generated from that. The caller sends a list of members; the order of the list
decides only which of its interfaces is given which of the next metrics, so the
list is the set of its members and `WithMetrics` hands the metrics out in any
order. `MaxList` bounds its length. `Highest` is the highest metric in use.
`StorePolicy` makes the mwan3 interfaces it needs, their metrics, and the
default rule with the first policy. `removed` counts, for each interface, the
removals among the saved network changes; `shown` is what the caller of
`ns.commit` fetched (`Look`). `CommitCleaning(i)` is the hook with one removal
of an interface it knows: the interface, its members, policies left empty, their
rules. With a second removal it reads a section it has deleted and raises,
saving nothing, and the commit goes on (`CommitOnly`); `missed` is history of
what it did not take out, `dropped` of policies deleted by name.

### Objects

`member` gives the content of each object that exists: addresses and objects for
host sets, at most one address for the others, which stand for reservations, DNS
records, VPN users and domain sets. `Ips` is the recursion of `get_object_ips`,
`HasLoop` the check of `edit_host_set`, `Used` the one before a deletion. A rule
or a redirect keeps its reference and what it was expanded to. `SaveRule` and
`SaveRedirect` expand all sections of their kind, `Commit` all of them
(`update-objects`), unless a redirect's object is gone: then the hook raises
after it has saved the rules (`CommitRaising`). `behind` and `lost` are history.

### Firewall

`rules` gives the content of each rule section, `before` the order of the file
as a set of pairs. `Reordered` is the split by kind and the reassembly that
every change goes through: what it makes of an order is the kinds one after
another and each kind as it was, or as the caller of `order_rules` asks. Zones
and forwardings carry the link to the feature that made them. `AddWireGuard` and
`DeleteWireGuard` are `add_server` with its zone, service and forwardings, and
`delete_linked_sections`. `AddTunnel`, `EditTunnel` and `DeleteTunnel` are those of
`ns.ovpntunnel`: adding and editing set the firewall up (`SetUp`), where the first
tunnel enters the zone by its interface and the others by their device, and one of
`Servers` gets a service rule, with the reordering that brings; deleting takes its
linked sections along (`DropRules` for the rules). A call that ends with the file it
found has saved nothing (`Moved`). `Commit` runs `fix-redirect-reflections`;
`CommitBypassing` is a script that commits the firewall itself.

### ThreatShield

`saved` and `stored` hold four configurations each. `Configure`, `Reconfigure`,
`Unconfigure` and `DeleteZone` are calls of `ns.devices` and `ns.firewall`,
`EditDns` and `EditBanip` those of `ns.threatshield`. `ns.commit` is taken step by
step: `StartCommit`, the two pre-commit hooks in any order, each adding to the
changes, `CommitAll`, the post-commit hook `AdjustBanip`. `DirectCommit`, a call
that saves while the hooks run, and a `Reboot` between two commits are the
mishaps that set `late`; the next commit with changes of the network clears it.

banIP's hook looks only when it is given changes of the network or of banIP. A move
in or out of zone wan usually is one, because it gives the interface a metric or
takes it away (`metric`); it is not when the metric is already what the move makes
it, which happens to an uplink that ns.devices did not set up. `Unnoticed` are such moves,
and `unseen` is history of them, until a commit with a change that makes the hook
look. What the hook computes is `Wan`; what `WanFiltered` asks of banIP is stated
without it, from the interfaces of the zone (`WanIfaces`) and the names their
devices have when they are up (`UpNames`).

Left out: devices a zone lists itself, as the zone of OpenVPN tunnels does; two
interfaces on one device, such as a static IPv4 and an IPv6 one, of which the hook
finds the first; aliases and WireGuard interfaces.

`ns.commit` is one step in `Users`, `Mwan`, `Objects` and `Firewall`, each with
the hook that matters there: hooks touch different configurations, so what
they can do to each other is the order they run in and what is saved meanwhile,
which `ThreatShield` has. `Mwan` adds changes fetched too early, which
`ThreatShield` leaves out.

## 4. Runs

| Run | Instance | Shows |
|---|---|---|
| `hotplug_lock` | 3 chains, locked and unlocked events, timeouts 0 and 1 | the lock's safety, no event dropped, lock returned |
| `ha_node` | 2 chains, both roles, all events, timeout 2, with and without a hotspot MAC | the node settles; refinement of `LockSpec` |
| `ha_node_live` | 2 chains on the backup, state transitions, fairness | a stable master serves |
| `ha_node_overtake` | 2 chains on the backup, MASTER and BACKUP only | violation: an older transition runs last |
| `ha_sync` | 2 parts, 1 file, 2 versions, 1 fault | refinement of `Replica`; a recorded success is applied |
| `ha_sync_live` | 1 part, 1 file, 2 versions, 1 fault, a dying export included, fairness | the backup catches up |
| `dpi` | 3 rules, 2 groups, 3 old configurations, 1 hand-written rule, 1 kill | order of evaluation, groups, emission, exemptions |
| `users` | 2 databases, 1 name in 2 spellings, 2 passwords | logins, sessions and memberships follow accounts |
| `mwan` | 2 interfaces, 2 policies, 2 rules, lists of 2, 3 metrics | references, metrics, clean-up |
| `objects` | 2 host sets, 1 leaf, 2 addresses, 1 rule, 2 redirects | no circle, no dangling reference, fresh expansions, no rule opened |
| `firewall` | guest zone, WireGuard instance, a server and a client tunnel, rule, port forward | order, forwardings, tunnels, reflections, nothing left |
| `threat_shield` | 2 interfaces, 1 device, zones wan and guest, 2 calls a commit, 1 mishap | DNS enforcement and banIP follow zones |

The type invariants of `HotplugLock`, `HaSync`, `Users`, `Mwan` and `Objects` are
theorems and are not run again.

**Bounds.** Three chains are the fewest with a holder, a chain that timed out
and a third that takes the lock the second released. For the effects of chains
two suffice: a holder and a waiter; and when the holder has ended, a waiter that
sleeps between two polls and a newer chain that takes the lock meanwhile. A
timeout of 1 is one failed poll followed by the time-out; 2 lets a chain sleep
between two polls without timing out. The lock treats its four events alike, so
one stands for all in `hotplug_lock`. `ha_node_overtake` has the constraint
`Granted`: no chain has run without the lock. It keeps the time-outs, which
`ha_node` covers, out of the counterexample.

In `HaSync` two versions (`MaxVersion`) are enough for an older one to follow a
newer one, two parts for an export that is half done, and one fault
(`MaxFaults`) for each crash point: after it the run starts from the beginning,
so a second fault meets a state that one fault reaches too.

`Dpi`: three rules for one to be added between or moved past two others, two
groups for one to be deleted beside one that stays, one `MaxKills` for each
point at which a migration can end. The old configurations have what the
migration treats differently: both kinds of exemption with a rule that blocks, a
blocking rule between two that are dropped, two hand-written rules without a
priority. One rule in `written` (`MaxWritten`) is enough to meet numbered ones.
`Users`: one name in two spellings is where look-ups differ; a second
database is where calls can mean another account. `Mwan`: two interfaces for a
policy that loses one of two members and one that loses all; `MaxMetric` lets
metrics be handed out once more than there are interfaces. `Objects`: two host
sets close a circle over two edits, and `MaxContent` of two holds the other set
and an address; two redirects let one raise while the other is stale. `Firewall`:
two tunnels for the first and a later one, one of them with a service rule; `RuleKinds` are two of the four kinds,
which the code treats alike; `Reach` and `MaxForwards` bound which zones, and how
many, the administrator forwards or reflects to in one call: one that comes and
goes by hand and one that comes and goes with its feature. `ThreatShield`: two
interfaces on one device for a device that changes hands: `KindsOf` lets one be
plain, PPPoE or a bond, and the other be what a new system has, to be moved or
removed; at most one zone is enforced before an upgrade; `MaxCalls` bounds what is saved between two
commits, `MaxMishaps` how often hooks and commits are parted.

Symmetry is used in safety runs only, on sets no definition tells apart.

**Assumptions.** `Paced` in `HaNode`: a chain makes its first attempt at the lock
before keepalived makes the next transition, which is at least an advertisement
interval away. `ha_sync` has one chain at a time. In the configuration models a
call is one step: a call's process reads, changes and saves within milliseconds,
and two administrators at once are not what the code is made for. A save that
falls into `ns.commit` is modelled, because hooks take seconds.

**Fairness.** `LockFairSpec` and `HaNode!FairSpec` ask weak fairness of each chain's
steps: a chain is a process the kernel runs, its waiting loop is bounded and
each script ends. Nothing is asked of keepalived, of the administrator or of
the primary. In `HaSync` weak fairness of `SyncRun` says that keepalived runs
the script again every interval and that a started run goes on; nothing is asked
of edits and faults, which end because they are bounded. `StableMasterServes` is
conditional on the node staying master and on the lock being granted in time.
The configuration models have no fairness: nothing in them has to happen by
itself.

**Deadlock** is checked in the HA runs. The other models stop when every bound is
used up, or simply have no call left to make.

## 5. What the runs do not excuse

Properties state their exceptions by name, and each is something the code does:

* lock: a chain that timed out releases the lock of another (`overrun`), although
  the flag is said to prevent it (`00-lock:7`); `HolderReleases` without the
  condition fails with three chains and timeout 1.
* node: the chain of an older transition can run last, because the lock has no
  queue (`late`, `ha_node_overtake`); NOTIFY_SYNC across a takeover (`synced`);
  in FAULT and STOP, where `999-stop-fault:3` says that all services are torn down,
  netifyd, ns-flows and ns-stats are not, and with a hotspot MAC no service with
  `set_stop_if_backup` is, because `ns-ha-disable --force` dies (`NotTornDown`).
* sync: deletions are not propagated; an export that dies leaves a run recorded
  as successful that removes what it had not written (`ExportDies = TRUE` under
  `ImplementsReplica`); two chains at once put back an older version
  (`Chains = {c1, c2}` under `AppliedAsSent`).
* dpi: a migration ended half way leaves saved changes; the next one starts from
  them and puts exemptions below the rules (`kills`); a rule written by hand without
  a priority beside numbered ones is shown last (`dpi/__init__.py:556`) and
  evaluated with the first (`dpi-config:83`), until all are numbered again
  (`written`).
* users: a deleted database leaves the logins of its administrators; calls with
  another spelling, or edits without extra fields, part a login from its account
  (`owner`).
* mwan: two removals of one interface in a commit, or changes fetched too early,
  keep it in mwan3 (`missed`); a policy deleted by name leaves its rules
  (`dropped`).
* objects: a deleted database takes VPN users along that sections refer to
  (`lost`); redirects are stale after the hook that then raises (`behind`); a
  rule keeps its addresses when its object has none left.
* firewall: an administrator's edit of a feature's zone makes its forwardings
  outlive it; the first tunnel's interface stays in the zone; a commit without
  hooks leaves reflections to zones that are gone (`bypassed`).
* threat shield: what is saved during the hooks, a commit by another script, a
  reboot half way (`late`); a bond is neither enforced by adblock nor filtered by
  banIP, because it has no device option: with a bond as the only uplink banIP is
  on and filters nothing; an interface that moves in or out of wan with the metric
  it should have is noticed at a later commit of network or banIP changes
  (`unseen`).

Hazards that no property covers yet: `ns-clm-forwarder` (its offset after a
rotation and after a failed upload, lines 164, 181, 245); `ns.ovpnrw:297`, which
numbers instances by counting them; `ns-ha-import:28`, which sets `auto` to 0 on
interfaces the primary does not have; `ns.ha:388`, which reads keepalived's dump
0.2 s after asking for it; `ns-ha-enable:149`; `ns-ha-export:166`, which empties
the directory a takeover reads; `order_rules`, which takes identifiers of rules
of another kind; the references of mwan3 rules, which no hook expands; and, as
named above, what `NotTornDown`, `written` and the words on bonds except.

## 6. Proofs

Every safety property of a passing run is a theorem, for every value of the
constants but two in `HaSync`, which are hypotheses there. The assumptions are
the named `ASSUME`s of the modules: that identifiers of different sorts differ,
that markers such as `NoChain` are none of them, that bounds are naturals, and
that the rules of `Dpi`, the interfaces of `Mwan` and the host sets of `Objects`
are finitely many, because the code counts them. Each module states its
inductive invariant as a conjunction of named parts, proves what single actions
do to them, and joins the two at the end; TLC checked each invariant on the
instance of its run before it was proved.

**The lock** (`HaNodeProofs`), for any number of chains, events and timeouts:
`LockTypeOK`, `Serialised`, `QuiescentClean`, `HolderReleases`. The last three are
not inductive. `LockIInv` adds: only state-transition chains reach the locked parts
(`LockedOnly`); the flag exists only while a chain is still to test or remove it
(`FlagSeen`); a held lock belongs to a chain about to make the flag, or the flag
exists, or a chain is about to release (`LockAccounted`); without an overrun a
chain inside holds the lock and will find its flag (`Owned`). `FlagSeen` and
`LockAccounted` give `QuiescentClean` even after time-outs and stolen releases;
`Owned` gives the other two.

**HaNode**, for any number of chains, any timeouts and roles: `NodeUsesLock`,
every step of the node is one of the lock or leaves it alone, so `LockIInv`
holds of the node too; and with it `SettledMaster`, `BackupQuiet`,
`SettledDown`. These are about nodes whose chains have all ended, so each needs
an account of a chain half way. `Settling` is that account: once the chain of
the last transition has had its turn, whatever is not as the VRRP state asks is
among the effects that chain has left (`Doing`), and a crontab it is about to
install was read just before (`CronFresh`). Four parts make it inductive: a
chain that waits has its whole script left, and one that runs only what the
scripts of its event can do (`Scripted`); without `synced` no NOTIFY_SYNC chain
runs (`SyncNoted`); the chain in `newest` waits at the lock with the event of
the present state (`NewestKnown`); and, from the lock, only one state-transition
chain is inside. A NOTIFY_SYNC chain runs beside it unlocked, and is shown to
take nothing away from what is claimed (`DoingStays`). `RestoreHotspot` can throw
the rest of a script away, which does no harm to interfaces because they come
before it (`HotspotAfter`). Without `~late` `Settling` fails: that is
`ha_node_overtake`. `SettledDown` follows for all that `ns-ha-disable --force` finds.

**HaSync**, for any items and bounds: types, and with one chain and no dying
export the refinement of `Replica`. A version travels conf, exported, staging,
held, root. `Forward` says that at each place it is no older than further down,
unless nothing is there; it is not inductive alone, because a place that is empty
could be copied on. `Ready` says that it is not: an export that is over has
written every part (`ExportReady`), rsync that ended well has delivered all that
is listed, or the list is gone too (`StagingReady`), so what a chain has still to
copy is there (`ChainReady`). `OneChain` is used for `Forward` only, where a chain
writes. Without `~ExportDies`, `ExportReady` fails. `AppliedAsSent`, with one chain,
rests on another invariant: after a run that was recorded as successful and no
fault, what is not in place is still to be copied, or to be imported, from what
was sent (`Applying`), and what was sent has a list (`ListSent`). There two
chains would not do either: the older one has other work left.

**Dpi**, for any rules, groups and restored configurations. `GroupsExist` and
`ManagedEmitted`: `GroupIInv` asks the same of the configuration and of the one
a migration has in memory, because its save replaces the first by the second,
and that every group has a member. The order of rules rests on lemmas about
orders and places: places are distinct and ascend with the order, a filtered
order is one, and so is one put behind another. With them `EvaluatedAsListed`
follows from `EvenlyNumbered`: but for the rules in `written`, which have no priority,
a configuration is numbered as a whole or not at all. That the
API and `dpi-config` read a missing priority differently matters only for those
rules: they are shown behind all that are numbered. `OrderKept` is an action property of each call.
`ExemptionsShield` needs what a migration knows half way (`Underway`): every
rule in memory is one it made or one it found, and it found none made of an
exemption, unless an earlier migration was ended (`NoneMade`).

**Users**, for any databases, names, spellings and passwords: types, `LoginsOwned`,
`TokensOfAdmins`, `MembershipEnds`. `MembershipEnds` needs that
an account is filed under the name it spells (`FiledByName`); `LoginsOwned` that
a database that is not there has no accounts and those of a remote one have no
password, so that none of them becomes an administrator's (`RemoteWithout`);
`TokensOfAdmins` is inductive with the types.

**Mwan**, for any interfaces, weights, policies and rules: types,
`MembersExist`, `RulesHavePolicy`, `CleanedUp`, `DistinctMetrics`. `CleanIInv`
says between commits what `CleanedUp` says after them: an interface mwan3 knows
is there, or its removal is pending, or was missed. `MetricIInv` asks for
distinct metrics of every interface of the network, in mwan3 or not, because one
that mwan3 does not know keeps the metric it has when it joins; that a new metric is above all others
needs that finitely many numbers have a highest one (`HighestNumber`).

**Objects**, for any nesting: types, `NoDangling`, `FirewallFresh`,
`NeverOpened`, `Acyclic`. `FreshIInv` says that sections are current as soon as
no *object* has saved changes, whether or not the firewall has: saves of
sections expand what they save, and the rest was current before. `SameIps` says
that an expansion is about objects alone, `ExpandKeeps` that it changes what
sections match and nothing else. `Acyclic` says of a walk of bounded depth that
it does not come back. `LoopFree` says it without the walk: the content of each
host set stays within some set of objects that is closed under membership and
does not hold it (`Apart`); no walk that starts in a closed set leaves it, or
there were a least depth at which it does (`InsideClosed`). `_has_loop` goes
down three levels and takes anything on the fourth for a loop, so the new
content of an edit it lets pass holds, three levels down, all it will ever hold:
that set is closed (`NoLoopDeep`), and the host set is not in it.

**Firewall**, for any zones, instances, tunnels and rules: types, `ForwardingsJoin`,
`NothingLeft`, `TunnelsStay`, `OrderKept`, `ReflectionsExist`. `ZoneIInv` adds which
sections can carry a link: the zone of the instance's name (`LinkedToOwn`) and what
joins it to lan and wan (`ForwardingsOfOwn`). `RuleIInv` says the same of rules, which
are linked to instances and server tunnels, and that the file stays one order of them, which the split by kind and the
reassembly keep. `ReflectionIInv` is `ReflectionsExist` with the types.

**ThreatShield**, for any zones, interfaces and devices, and any order of the hooks:
types, `DnsEnforced`, `WanFiltered`. Both hold when a commit is over and nothing is
pending, and say nothing before. `DnsDue`, `WanDue` and `ActiveDue` do: adblock and
banIP are as the saved configuration asks, or a change waits that makes the hook
look, or the hook is still to run and was given that change. They need that what is
not pending is committed, and that hooks are given all that is pending unless
something was saved meanwhile (`Bookkeeping`), and that no two interfaces have one
device (`NetworksOK`). From that it follows that the hook, which goes from devices
back to interfaces, finds every interface of wan but the bonds (`WanFound`). A move
the hook is not told of adds to `unseen` and parts nothing else from what banIP is
set up for (`WanMoved`); to except more asks less (`WanGrows`).

Only model-checked is liveness: `EventNotDropped` and `LockReturned` of the lock,
`StableMasterServes` and `Converges`. They follow from fairness, that is from
when an action is enabled, about which the provers know nothing. What a theorem
does not say either is that its exception is rare: `overrun`, `late`, `synced`,
`kills`, `written`, `owner`, `missed`, `behind`, `bypassed` and `unseen` are counted
in no proof.

## 7. Not modelled

* `ns.ha`, `ns-ha-config`: set-up of the pair over ssh, validation and writing of
  keepalived's configuration; on the plan.
* `ns-clm`: on the plan.
* `ns-api-server`: its mutexes guard single map operations; expiry and rate limits
  are functions of the clock. Its token files are in `Users`.
* Other scripts of `ns-api` and libraries of `python3-nethsec` (snort, ipsec, ovpn,
  reverse proxy, inventory): they write sections one to one or compute a report
  from what they read.
* `ns-don`, `ns-plug`, `ns-storage`, `ns-openvpn`, `ns-migration`, `ns-flashstart`,
  `ns-netmap`, `ns-binding`: one process that starts daemons, or a conversion.
* Vendored daemons and packages carried with patches, and the image build.

External, and modelled by how the code uses them: keepalived, OpenWrt's `lock`,
procd, netifd, rpcd, ssh, rsync, the UCI library, LDAP servers.
