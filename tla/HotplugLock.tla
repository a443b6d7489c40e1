------------------------------ MODULE HotplugLock ------------------------------
(***************************************************************************)
(* The lock that packages/ns-ha puts around a keepalived hotplug chain.    *)
(*                                                                         *)
(* keepalived forks "/sbin/hotplug-call keepalived" at every transition    *)
(* and does not wait for it, so several chains can be alive together.  A   *)
(* chain sources every script of /etc/hotplug.d/keepalived in order; the   *)
(* first one, 00-lock, takes a lock for the four state-transition events   *)
(* and the last one, 999-unlock, gives it back.  The two talk through a    *)
(* flag FILE, because each script runs in a subshell of its own: the flag  *)
(* does not say which chain owns the lock.                                 *)
(***************************************************************************)
EXTENDS Naturals

CONSTANTS
    Chains,    \* the hotplug-call processes that can be alive at one time
    NoChain,   \* stands for "nobody holds the lock"
    Events,    \* the values of ACTION that occur
    Timeouts   \* the values of ns_lock_timeout; 0 is "unset or not positive"

(* The events 00-lock and 999-unlock act on; every other one passes through. *)
LockedEvents == {"NOTIFY_MASTER", "NOTIFY_BACKUP", "NOTIFY_FAULT", "NOTIFY_STOP"}

ASSUME NoChainAssumption == NoChain \notin Chains
ASSUME TimeoutsAssumption == Timeouts \subseteq Nat
ASSUME EventsAssumption == "none" \notin Events

VARIABLES
    pc,        \* where each chain is
    event,     \* the ACTION a chain was called with
    limit,     \* its TIMEOUT, read once when 00-lock starts
    elapsed,   \* the seconds it has waited in 00-lock
    holder,    \* the chain that last took keepalived-hotplug.lock, or NoChain
    flag,      \* does /var/lock/keepalived-hotplug-acquired exist?
    timeout,   \* keepalived.globals.ns_lock_timeout
    overrun    \* history: since a state-transition chain last started alone,
               \* one has run its scripts without the lock

lockVars == <<pc, event, limit, elapsed, holder, flag, timeout, overrun>>

(* "lock": looping in 00-lock.  "touch": took the lock, has not made the     *)
(* flag yet.  "body": between 00-lock and 999-unlock.  "unlock": about to    *)
(* test the flag.  "remove": saw it, about to remove it.  "release": removed *)
(* it, about to call lock -u.                                                *)
Locations == {"idle", "lock", "touch", "body", "unlock", "remove", "release"}

LockTypeOK ==
    /\ pc \in [Chains -> Locations]
    /\ event \in [Chains -> Events \cup {"none"}]
    /\ limit \in [Chains -> Nat]
    /\ elapsed \in [Chains -> Nat]
    /\ \A c \in Chains : elapsed[c] <= limit[c]
    /\ holder \in Chains \cup {NoChain}
    /\ flag \in BOOLEAN
    /\ timeout \in Timeouts
    /\ overrun \in BOOLEAN

LockInit ==
    /\ pc = [c \in Chains |-> "idle"]
    /\ event = [c \in Chains |-> "none"]
    /\ limit = [c \in Chains |-> 0]
    /\ elapsed = [c \in Chains |-> 0]
    /\ holder = NoChain
    /\ flag = FALSE
    /\ timeout \in Timeouts
    /\ overrun = FALSE

-----------------------------------------------------------------------------
(* keepalived, or the primary over ssh, starts a chain.  00-lock returns at  *)
(* once for an event it does not lock, and when locking is not configured.   *)
Dispatch(c, e) ==
    /\ pc[c] = "idle"
    /\ event' = [event EXCEPT ![c] = e]
    /\ \/ /\ e \in LockedEvents
          /\ timeout > 0
          /\ pc' = [pc EXCEPT ![c] = "lock"]
          /\ limit' = [limit EXCEPT ![c] = timeout]
          /\ overrun' = (overrun /\ \E d \in Chains : pc[d] # "idle")
       \/ /\ e \in LockedEvents => timeout = 0
          /\ pc' = [pc EXCEPT ![c] = "body"]
          /\ overrun' = (overrun \/ e \in LockedEvents)
          /\ UNCHANGED limit
    /\ UNCHANGED <<elapsed, holder, flag, timeout>>

(* Mutant of TryLock: the attempt does not look at the lock file. *)
TryLockBlind(c) ==
    /\ pc[c] = "lock"
    /\ elapsed[c] < limit[c]
    /\ holder' = c
    /\ pc' = [pc EXCEPT ![c] = "touch"]
    /\ UNCHANGED <<event, limit, elapsed, flag, timeout, overrun>>

(* lock -n succeeds. *)
TryLock(c) ==
    /\ pc[c] = "lock"
    /\ elapsed[c] < limit[c]
    /\ holder = NoChain
    /\ holder' = c
    /\ pc' = [pc EXCEPT ![c] = "touch"]
    /\ UNCHANGED <<event, limit, elapsed, flag, timeout, overrun>>

(* Mutant of LockBusy: the loop does not compare elapsed with TIMEOUT. *)
LockBusyUnbounded(c) ==
    /\ pc[c] = "lock"
    /\ holder # NoChain
    /\ elapsed' = [elapsed EXCEPT ![c] = @ + 1]
    /\ UNCHANGED <<pc, event, limit, holder, flag, timeout, overrun>>

(* lock -n fails: sleep one second. *)
LockBusy(c) ==
    /\ pc[c] = "lock"
    /\ elapsed[c] < limit[c]
    /\ holder # NoChain
    /\ elapsed' = [elapsed EXCEPT ![c] = @ + 1]
    /\ UNCHANGED <<pc, event, limit, holder, flag, timeout, overrun>>

(* The hotplug-call process ends, and its variables with it. *)
Exit(c) ==
    /\ pc' = [pc EXCEPT ![c] = "idle"]
    /\ event' = [event EXCEPT ![c] = "none"]
    /\ limit' = [limit EXCEPT ![c] = 0]
    /\ elapsed' = [elapsed EXCEPT ![c] = 0]

(* Mutant of LockTimeout: a chain that waited in vain gives up its event. *)
LockTimeoutDrops(c) ==
    /\ pc[c] = "lock"
    /\ elapsed[c] >= limit[c]
    /\ Exit(c)
    /\ UNCHANGED <<holder, flag, timeout, overrun>>

(* The wait is over: log a warning and run the scripts without the lock. *)
LockTimeout(c) ==
    /\ pc[c] = "lock"
    /\ elapsed[c] >= limit[c]
    /\ pc' = [pc EXCEPT ![c] = "body"]
    /\ overrun' = TRUE
    /\ UNCHANGED <<event, limit, elapsed, holder, flag, timeout>>

TouchFlag(c) ==
    /\ pc[c] = "touch"
    /\ flag' = TRUE
    /\ pc' = [pc EXCEPT ![c] = "body"]
    /\ UNCHANGED <<event, limit, elapsed, holder, timeout, overrun>>

(* The chain has run 01-ubus ... 999-stop-fault, its unlocked part. *)
EndBody(c) ==
    /\ pc[c] = "body"
    /\ pc' = [pc EXCEPT ![c] = "unlock"]
    /\ UNCHANGED <<event, limit, elapsed, holder, flag, timeout, overrun>>

(* Mutant of TestFlag: 999-unlock does not filter the events. *)
TestFlagAnyEvent(c) ==
    /\ pc[c] = "unlock"
    /\ \/ /\ flag
          /\ pc' = [pc EXCEPT ![c] = "remove"]
          /\ UNCHANGED <<event, limit, elapsed>>
       \/ /\ ~flag
          /\ Exit(c)
    /\ UNCHANGED <<holder, flag, timeout, overrun>>

(* 999-unlock: nothing to do for an unlocked event or when there is no flag. *)
TestFlag(c) ==
    /\ pc[c] = "unlock"
    /\ \/ /\ event[c] \in LockedEvents
          /\ flag
          /\ pc' = [pc EXCEPT ![c] = "remove"]
          /\ UNCHANGED <<event, limit, elapsed>>
       \/ /\ event[c] \notin LockedEvents \/ ~flag
          /\ Exit(c)
    /\ UNCHANGED <<holder, flag, timeout, overrun>>

(* Mutant of RemoveFlag: the flag file stays. *)
RemoveFlagKeeps(c) ==
    /\ pc[c] = "remove"
    /\ pc' = [pc EXCEPT ![c] = "release"]
    /\ UNCHANGED <<event, limit, elapsed, holder, flag, timeout, overrun>>

RemoveFlag(c) ==
    /\ pc[c] = "remove"
    /\ flag' = FALSE
    /\ pc' = [pc EXCEPT ![c] = "release"]
    /\ UNCHANGED <<event, limit, elapsed, holder, timeout, overrun>>

(* Mutant of Release: 999-unlock ends after removing the flag. *)
ReleaseForgotten(c) ==
    /\ pc[c] = "release"
    /\ Exit(c)
    /\ UNCHANGED <<holder, flag, timeout, overrun>>

(* lock -u frees the lock file, whoever took it. *)
Release(c) ==
    /\ pc[c] = "release"
    /\ holder' = NoChain
    /\ Exit(c)
    /\ UNCHANGED <<flag, timeout, overrun>>

(* The administrator sets or unsets ns_lock_timeout; chains already in       *)
(* 00-lock keep the value they read.                                         *)
SetTimeout(t) ==
    /\ timeout' = t
    /\ UNCHANGED <<pc, event, limit, elapsed, holder, flag, overrun>>

-----------------------------------------------------------------------------
(* The steps of one chain in 00-lock and 999-unlock. *)
LockStep(c) ==
    \/ TryLock(c) \/ LockBusy(c) \/ LockTimeout(c) \/ TouchFlag(c)
    \/ TestFlag(c) \/ RemoveFlag(c) \/ Release(c)

ChainStep(c) == LockStep(c) \/ EndBody(c)

LockNext ==
    \/ \E c \in Chains : ChainStep(c) \/ \E e \in Events : Dispatch(c, e)
    \/ \E t \in Timeouts : SetTimeout(t)

LockSpec == LockInit /\ [][LockNext]_lockVars

(* A started chain keeps running: it is a process, its polls of the lock are *)
(* bounded and every script it sources ends.                                 *)
LockFairSpec == LockSpec /\ \A c \in Chains : WF_lockVars(ChainStep(c))

-----------------------------------------------------------------------------
(* A chain of a state-transition event is past 00-lock and not yet done. *)
Inside(c) ==
    /\ event[c] \in LockedEvents
    /\ pc[c] \in {"touch", "body", "unlock", "remove", "release"}

(* 00-lock:6-9.  Two state-transition chains never run their scripts at the  *)
(* same time, until one of them runs without the lock (its wait timed out or *)
(* locking is off); the next event that finds no chain alive starts clean.   *)
Serialised ==
    ~overrun => \A c, d \in Chains : Inside(c) /\ Inside(d) => c = d

(* 999-unlock.  When no chain is alive the lock is free and the flag is      *)
(* gone, whatever the chains did: even when some of them timed out, ran with *)
(* locking off, or released a lock that was not theirs.                      *)
QuiescentClean ==
    (\A c \in Chains : pc[c] = "idle") => holder = NoChain /\ ~flag

(* While no chain has run without the lock, it is released by its holder     *)
(* only, the promise of 999-unlock:7-9 for the case where 00-lock succeeded. *)
HolderReleases ==
    [][~overrun /\ holder # NoChain /\ holder' # holder
         => pc[holder] = "release"]_lockVars

(* 00-lock:15-16.  An event is delayed and never dropped: a chain waiting in *)
(* 00-lock gets to run its scripts.                                          *)
EventNotDropped ==
    \A c \in Chains : pc[c] = "lock" ~> pc[c] = "body"

(* A lock that is taken is given back. *)
LockReturned == holder # NoChain ~> holder = NoChain
=============================================================================
