-------------------------------- MODULE HaSync --------------------------------
(***************************************************************************)
(* Configuration synchronisation from the primary to the backup node.      *)
(*                                                                         *)
(* On the primary keepalived runs ns-rsync.sh every ha_sync.interval       *)
(* seconds: it exports the network configuration to /etc/ha, lists the     *)
(* files to send, copies them to the staging area of the backup and starts *)
(* a NOTIFY_SYNC chain there, without waiting for it.  The chain copies    *)
(* the listed entries to their places (02-rsync) and imports the network   *)
(* configuration (10-adjust, ns-ha-import).  The contents of an item are   *)
(* its version, 0 when it is not there.                                    *)
(***************************************************************************)
EXTENDS Naturals, FiniteSets

CONSTANTS
    Parts,       \* the files ns-ha-export writes to /etc/ha
    Files,       \* the other files that can be on the list
    Chains,      \* the NOTIFY_SYNC chains that can be alive at one time
    Nothing,     \* stands for "a chain is between two copies"
    ExportDies,  \* can ns-ha-export die of an exception?
    MaxVersion,  \* bound: the versions the administrator makes of one item
    MaxFaults    \* bound: failed connections, reboots, kills, lost notifications

Items == Parts \cup Files

ASSUME ItemsAssumption ==
    Parts \cap Files = {} /\ Nothing \notin Items /\ "restore_list" \notin Items
ASSUME ExportDiesAssumption == ExportDies \in BOOLEAN
ASSUME BoundsAssumption == MaxVersion \in Nat \ {0} /\ MaxFaults \in Nat

VARIABLES
    conf,      \* primary: the version of each item
    gone,      \* primary: the files that have been deleted
    pc,        \* primary: where ns-rsync.sh is, "idle" when it does not run
    left,      \* primary: what the current step has still to export or send
    exported,  \* primary: the files in /etc/ha
    list,      \* primary: the files named in /tmp/restore_list
    missed,    \* primary: has rsync failed to find a file of the list?
    outcome,   \* primary: the result ns-rsync.sh is about to record
    status,    \* primary: last_sync_status
    staging,   \* backup: the staging area
    staged,    \* backup: the restore list in the staging area, NoList if none
    root,      \* backup: the items in their places
    imported,  \* backup: the HA sections of /etc/config/network
    at,        \* backup: where each chain is
    todo,      \* backup: what a chain has still to copy or import
    item,      \* backup: the item a chain is copying, or Nothing
    held,      \* backup: the contents it has read
    faults     \* how many faults have happened

primaryVars == <<conf, gone, pc, left, exported, list, missed, outcome, status>>
backupVars == <<staging, staged, root, imported, at, todo, item, held>>
vars == <<conf, gone, pc, left, exported, list, missed, outcome, status,
          staging, staged, root, imported, at, todo, item, held, faults>>

(* The restore list is itself a file to send. *)
List == "restore_list"
NoList == {List}

Failures == {"SSH Connection Failed", "Rsync Transfer Failed"}
Outcomes == Failures \cup {"Successful"}

TypeOK ==
    /\ conf \in [Items -> Nat]
    /\ gone \subseteq Files
    /\ pc \in {"idle", "export", "list", "connect", "rsync", "notify", "record"}
    /\ left \subseteq Items \cup {List}
    /\ exported \in [Parts -> Nat]
    /\ list \subseteq Files
    /\ missed \in BOOLEAN
    /\ outcome \in Outcomes
    /\ status \in Outcomes \cup {""}
    /\ staging \in [Items -> Nat]
    /\ staged \in (SUBSET Files) \cup {NoList}
    /\ root \in [Items -> Nat]
    /\ imported \in [Parts -> Nat]
    /\ at \in [Chains -> {"idle", "restore", "import"}]
    /\ todo \in [Chains -> SUBSET Items]
    /\ item \in [Chains -> Items \cup {Nothing}]
    /\ held \in [Chains -> Nat]
    /\ faults \in 0..MaxFaults

Init ==
    /\ conf = [i \in Items |-> 1]
    /\ gone = {}
    /\ pc = "idle"
    /\ left = {}
    /\ exported = [p \in Parts |-> 0]
    /\ list = {}
    /\ missed = FALSE
    /\ outcome = "Successful"
    /\ status = ""
    /\ staging = [i \in Items |-> 0]
    /\ staged = NoList
    /\ root = [i \in Items |-> 0]
    /\ imported = [p \in Parts |-> 0]
    /\ at = [c \in Chains |-> "idle"]
    /\ todo = [c \in Chains |-> {}]
    /\ item = [c \in Chains |-> Nothing]
    /\ held = [c \in Chains |-> 0]
    /\ faults = 0

-----------------------------------------------------------------------------
(* The administrator works on the primary while ns-rsync.sh may be running. *)
Edit(i) ==
    /\ conf[i] < MaxVersion
    /\ conf' = [conf EXCEPT ![i] = @ + 1]
    /\ gone' = gone \ {i}
    /\ UNCHANGED <<pc, left, exported, list, missed, outcome, status>>
    /\ UNCHANGED <<backupVars, faults>>

Delete(f) ==
    /\ f \notin gone
    /\ conf[f] < MaxVersion
    /\ gone' = gone \cup {f}
    /\ UNCHANGED <<conf, pc, left, exported, list, missed, outcome, status>>
    /\ UNCHANGED <<backupVars, faults>>

-----------------------------------------------------------------------------
(* main takes its lock (a second run while this one lasts returns at once),  *)
(* and ns-ha-export empties /etc/ha.  The export is skipped only on a node   *)
(* that is neither primary nor master; this one is primary.                  *)
Begin ==
    /\ pc = "idle"
    /\ pc' = "export"
    /\ exported' = [p \in Parts |-> 0]
    /\ left' = Parts
    /\ UNCHANGED <<conf, gone, list, missed, outcome, status>>
    /\ UNCHANGED <<backupVars, faults>>

(* Mutant of Export: it ends after the first file. *)
ExportFirstOnly(p) ==
    /\ pc = "export"
    /\ p \in left
    /\ exported' = [exported EXCEPT ![p] = conf[p]]
    /\ left' = {}
    /\ pc' = "list"
    /\ UNCHANGED <<conf, gone, list, missed, outcome, status>>
    /\ UNCHANGED <<backupVars, faults>>

(* Each export function loads the configuration afresh. *)
Export(p) ==
    /\ pc = "export"
    /\ p \in left
    /\ exported' = [exported EXCEPT ![p] = conf[p]]
    /\ left' = left \ {p}
    /\ pc' = IF left = {p} THEN "list" ELSE "export"
    /\ UNCHANGED <<conf, gone, list, missed, outcome, status>>
    /\ UNCHANGED <<backupVars, faults>>

(* Only what exists is listed. *)
MakeList ==
    /\ pc = "list"
    /\ list' = Files \ gone
    /\ pc' = "connect"
    /\ UNCHANGED <<conf, gone, left, exported, missed, outcome, status>>
    /\ UNCHANGED <<backupVars, faults>>

Connect ==
    /\ pc = "connect"
    /\ left' = Parts \cup list \cup {List}
    /\ missed' = FALSE
    /\ pc' = "rsync"
    /\ UNCHANGED <<conf, gone, exported, list, outcome, status>>
    /\ UNCHANGED <<backupVars, faults>>

(* Mutant of Send: files that are in the staging area are not sent again. *)
SendOnce(i) ==
    /\ pc = "rsync"
    /\ i \in left \ (gone \cup {List})
    /\ staging' = [staging EXCEPT ![i] =
                      IF @ # 0 THEN @ ELSE IF i \in Parts THEN exported[i] ELSE conf[i]]
    /\ left' = left \ {i}
    /\ UNCHANGED <<conf, gone, pc, exported, list, missed, outcome, status>>
    /\ UNCHANGED <<staged, root, imported, at, todo, item, held, faults>>

(* rsync replaces one file of the staging area. *)
Send(i) ==
    /\ pc = "rsync"
    /\ i \in left \ (gone \cup {List})
    /\ staging' = [staging EXCEPT ![i] = IF i \in Parts THEN exported[i] ELSE conf[i]]
    /\ left' = left \ {i}
    /\ UNCHANGED <<conf, gone, pc, exported, list, missed, outcome, status>>
    /\ UNCHANGED <<staged, root, imported, at, todo, item, held, faults>>

SendList ==
    /\ pc = "rsync"
    /\ List \in left
    /\ staged' = list
    /\ left' = left \ {List}
    /\ UNCHANGED <<conf, gone, pc, exported, list, missed, outcome, status>>
    /\ UNCHANGED <<staging, root, imported, at, todo, item, held, faults>>

(* A listed file was deleted in the meantime: rsync goes on, and will fail. *)
SendMissing(f) ==
    /\ pc = "rsync"
    /\ f \in left \cap gone
    /\ missed' = TRUE
    /\ left' = left \ {f}
    /\ UNCHANGED <<conf, gone, pc, exported, list, outcome, status>>
    /\ UNCHANGED <<backupVars, faults>>

(* rsync ends; its exit code says whether every file was there. *)
RsyncDone ==
    /\ pc = "rsync"
    /\ left = {}
    /\ IF missed THEN pc' = "record" /\ outcome' = "Rsync Transfer Failed"
                 ELSE pc' = "notify" /\ UNCHANGED outcome
    /\ UNCHANGED <<conf, gone, left, exported, list, missed, status>>
    /\ UNCHANGED <<backupVars, faults>>

(* Mutant of Notify: the directory /etc/ha is not an entry of the list. *)
NotifyFilesOnly(c) ==
    /\ pc = "notify"
    /\ at[c] = "idle"
    /\ pc' = "record"
    /\ outcome' = "Successful"
    /\ at' = [at EXCEPT ![c] = "restore"]
    /\ todo' = [todo EXCEPT ![c] = IF staged = NoList THEN {} ELSE staged]
    /\ UNCHANGED <<conf, gone, left, exported, list, missed, status>>
    /\ UNCHANGED <<staging, staged, root, imported, item, held, faults>>

(* ssh starts the chain, detached; it restores what is listed in the staging *)
(* area now, and nothing when there is no list.                              *)
Notify(c) ==
    /\ pc = "notify"
    /\ at[c] = "idle"
    /\ pc' = "record"
    /\ outcome' = "Successful"
    /\ at' = [at EXCEPT ![c] = "restore"]
    /\ todo' = [todo EXCEPT ![c] = IF staged = NoList THEN {} ELSE Parts \cup staged]
    /\ UNCHANGED <<conf, gone, left, exported, list, missed, status>>
    /\ UNCHANGED <<staging, staged, root, imported, item, held, faults>>

(* update_last_sync_status, and the lock is given back. *)
Record ==
    /\ pc = "record"
    /\ status' = outcome
    /\ left' = {}
    /\ pc' = "idle"
    /\ UNCHANGED <<conf, gone, exported, list, missed, outcome>>
    /\ UNCHANGED <<backupVars, faults>>

-----------------------------------------------------------------------------
(* 02-rsync copies an entry: cp and rsync read the source, then replace the  *)
(* destination; in /etc/ha, mirrored with --delete, a file that was not sent *)
(* is removed.  (A listed file that was not sent would be skipped: the list  *)
(* of a transfer that ended well names none.)                                *)
ReadItem(c, i) ==
    /\ at[c] = "restore"
    /\ item[c] = Nothing
    /\ i \in todo[c]
    /\ item' = [item EXCEPT ![c] = i]
    /\ held' = [held EXCEPT ![c] = staging[i]]
    /\ UNCHANGED <<primaryVars, staging, staged, root, imported, at, todo, faults>>

WriteItem(c) ==
    /\ at[c] = "restore"
    /\ item[c] # Nothing
    /\ root' = [root EXCEPT ![item[c]] = held[c]]
    /\ todo' = [todo EXCEPT ![c] = @ \ {item[c]}]
    /\ item' = [item EXCEPT ![c] = Nothing]
    /\ held' = [held EXCEPT ![c] = 0]
    /\ UNCHANGED <<primaryVars, staging, staged, imported, at, faults>>

(* ns-ha-import: cleanup_import drops every section tagged ha ... *)
Cleanup(c) ==
    /\ at[c] = "restore"
    /\ item[c] = Nothing
    /\ todo[c] = {}
    /\ imported' = [p \in Parts |-> 0]
    /\ at' = [at EXCEPT ![c] = "import"]
    /\ todo' = [todo EXCEPT ![c] = Parts]
    /\ UNCHANGED <<primaryVars, staging, staged, root, item, held, faults>>

(* ... and each import function commits the sections of one file. *)
Import(c, p) ==
    /\ at[c] = "import"
    /\ p \in todo[c]
    /\ imported' = [imported EXCEPT ![p] = root[p]]
    /\ todo' = [todo EXCEPT ![c] = @ \ {p}]
    /\ at' = [at EXCEPT ![c] = IF todo[c] = {p} THEN "idle" ELSE "import"]
    /\ UNCHANGED <<primaryVars, staging, staged, root, item, held, faults>>

-----------------------------------------------------------------------------
Fault == faults < MaxFaults /\ faults' = faults + 1

(* An exception ends ns-ha-export before it has written every file, and      *)
(* ns-rsync.sh, which does not look at its exit code, goes on.               *)
ExportFails ==
    /\ Fault
    /\ ExportDies
    /\ pc = "export"
    /\ pc' = "list"
    /\ left' = {}
    /\ UNCHANGED <<conf, gone, exported, list, missed, outcome, status, backupVars>>

(* The mkdir over ssh fails or takes more than 10 seconds. *)
ConnectFails ==
    /\ Fault
    /\ pc = "connect"
    /\ pc' = "record"
    /\ outcome' = "SSH Connection Failed"
    /\ UNCHANGED <<conf, gone, left, exported, list, missed, status, backupVars>>

RsyncFails ==
    /\ Fault
    /\ pc = "rsync"
    /\ pc' = "record"
    /\ outcome' = "Rsync Transfer Failed"
    /\ UNCHANGED <<conf, gone, left, exported, list, missed, status, backupVars>>

(* The ssh that starts the chain fails: nobody looks at its result. *)
NotifyLost ==
    /\ Fault
    /\ pc = "notify"
    /\ pc' = "record"
    /\ outcome' = "Successful"
    /\ UNCHANGED <<conf, gone, left, exported, list, missed, status, backupVars>>

(* keepalived is restarted, or its script times out: ns-rsync.sh ends where  *)
(* it is, and the lock process of its group with it.                         *)
Kill ==
    /\ Fault
    /\ pc # "idle"
    /\ pc' = "idle"
    /\ left' = {}
    /\ UNCHANGED <<conf, gone, exported, list, missed, outcome, status, backupVars>>

(* The primary reboots: /tmp, /var/lock and /var/state are in memory. *)
PrimaryReboot ==
    /\ Fault
    /\ pc' = "idle"
    /\ left' = {}
    /\ list' = {}
    /\ status' = ""
    /\ UNCHANGED <<conf, gone, exported, missed, outcome, backupVars>>

(* The backup reboots: the staging area is in memory, a transfer breaks. *)
BackupReboot ==
    /\ Fault
    /\ staging' = [i \in Items |-> 0]
    /\ staged' = NoList
    /\ at' = [c \in Chains |-> "idle"]
    /\ todo' = [c \in Chains |-> {}]
    /\ item' = [c \in Chains |-> Nothing]
    /\ held' = [c \in Chains |-> 0]
    /\ IF pc = "rsync" THEN pc' = "record" /\ outcome' = "Rsync Transfer Failed"
                       ELSE UNCHANGED <<pc, outcome>>
    /\ UNCHANGED <<conf, gone, left, exported, list, missed, status, root, imported>>

-----------------------------------------------------------------------------
SyncRun ==
    \/ Begin \/ MakeList \/ Connect \/ SendList \/ RsyncDone \/ Record
    \/ \E p \in Parts : Export(p)
    \/ \E i \in Items : Send(i) \/ SendMissing(i)
    \/ \E c \in Chains : Notify(c)

Chain(c) ==
    \/ WriteItem(c) \/ Cleanup(c)
    \/ \E i \in Items : ReadItem(c, i)
    \/ \E p \in Parts : Import(c, p)

Faults ==
    \/ ExportFails \/ ConnectFails \/ RsyncFails \/ NotifyLost \/ Kill \/ PrimaryReboot \/ BackupReboot

Next ==
    \/ SyncRun
    \/ \E c \in Chains : Chain(c)
    \/ \E i \in Items : Edit(i)
    \/ \E f \in Files : Delete(f)
    \/ Faults

Spec == Init /\ [][Next]_vars

(* keepalived runs the script again and again, and started processes run. *)
FairSpec == Spec /\ WF_vars(SyncRun) /\ \A c \in Chains : WF_vars(Chain(c))

-----------------------------------------------------------------------------
(* README, File synchronization: the backup holds versions of the primary's  *)
(* configuration, and no transfer, overlap, crash or reboot takes it back to *)
(* an older one.                                                             *)
Replicated == INSTANCE Replica WITH source <- conf, copy <- root
ImplementsReplica == Replicated!Spec

(* Once ns-rsync.sh has recorded a success and the chain it started has      *)
(* ended, every listed item is in place as it was sent and the network       *)
(* sections are those of /etc/ha; unless a fault happened.                   *)
Settled == pc = "idle" /\ \A c \in Chains : at[c] = "idle"
AppliedAsSent ==
    Settled /\ status = "Successful" /\ faults = 0 =>
        /\ \A i \in Parts \cup staged : root[i] = staging[i]
        /\ \A p \in Parts : imported[p] = root[p]

(* README: "All configuration changes must be performed on the primary node, *)
(* which automatically propagates them to the backup node".  When edits and  *)
(* faults have stopped, the backup ends up with every item the primary has,  *)
(* and every chain imports the primary's network sections.                   *)
Converges ==
    /\ <>[](\A i \in Items \ gone : root[i] = conf[i])
    /\ []<>(\A p \in Parts : imported[p] = conf[p])
=============================================================================
