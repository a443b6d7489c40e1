---------------------------- MODULE HaNodeProofs ----------------------------
(***************************************************************************)
(* The hotplug lock and the node that uses it, for any number of chains,   *)
(* any timeouts and any set of events.                                     *)
(*                                                                         *)
(* The lock rests on LockIInv: a held lock is accounted for by a flag or   *)
(* by a chain about to make one or to release it (LockAccounted), a flag   *)
(* by a chain about to remove it (FlagSeen), and until a chain runs        *)
(* without the lock the one that is inside holds it (Owned).               *)
(*                                                                         *)
(* The node rests on NodeIInv: a chain has steps of its own event left     *)
(* (Scripted), the chain inside is that of the last transition as long as  *)
(* the turns were taken in order (NewestKnown), and whatever is not as the *)
(* VRRP state asks is among the steps which that chain has left            *)
(* (Settling).  With no step left, everything is as the state asks.        *)
(***************************************************************************)
EXTENDS HaNode, TLAPS

-----------------------------------------------------------------------------
(* The lock.                                                                 *)

(* A chain starts its wait from zero. *)
WaitFresh == \A c \in Chains : pc[c] = "idle" => elapsed[c] = 0

TypeIInv == LockTypeOK /\ WaitFresh

(* Only a state-transition event is ever in the parts of 00-lock and         *)
(* 999-unlock that touch the lock.                                           *)
LockedOnly ==
    \A c \in Chains :
        pc[c] \in {"lock", "touch", "remove", "release"} => event[c] \in LockedEvents

(* The flag exists only while some chain is still to test or remove it. *)
FlagSeen ==
    flag => \E c \in Chains :
              \/ pc[c] \in {"body", "unlock"} /\ event[c] \in LockedEvents
              \/ pc[c] = "remove"

(* A held lock will be given back: its holder is about to make the flag, or  *)
(* the flag is there for somebody to see, or somebody is about to release.   *)
LockAccounted ==
    holder # NoChain => \/ pc[holder] = "touch"
                        \/ flag
                        \/ \E c \in Chains : pc[c] = "release"

(* Without an overrun a chain inside holds the lock, and finds its flag. *)
Owned ==
    ~overrun => \A c \in Chains : Inside(c) =>
                    /\ holder = c
                    /\ pc[c] \in {"body", "unlock", "remove"} => flag

LockIInv == TypeIInv /\ LockedOnly /\ FlagSeen /\ LockAccounted /\ Owned

-----------------------------------------------------------------------------
(* Types and bounded waits are inductive together with WaitFresh. *)
LEMMA TypeIInvInit == LockInit => TypeIInv
<1> SUFFICES ASSUME LockInit
             PROVE  TypeIInv
  OBVIOUS
<1>1. flag \in BOOLEAN /\ overrun \in BOOLEAN
  BY Zenon DEF LockInit
<1>2. QED
  BY <1>1 DEF LockInit, TypeIInv, LockTypeOK, WaitFresh, Locations

(* Every step of a chain and of the administrator keeps the types, and a     *)
(* chain never waits longer than the TIMEOUT it read.                        *)
LEMMA TypeIInvStep == TypeIInv /\ [LockNext]_lockVars => TypeIInv'
<1> SUFFICES ASSUME TypeIInv, [LockNext]_lockVars
             PROVE  TypeIInv'
  OBVIOUS
<1> USE TimeoutsAssumption DEF TypeIInv, LockTypeOK, WaitFresh, Locations
<1>1. ASSUME NEW c \in Chains, NEW e \in Events, Dispatch(c, e)
      PROVE  TypeIInv'
  <2>1. overrun' \in BOOLEAN
    BY <1>1, Zenon DEF Dispatch
  <2>2. CASE e \in LockedEvents /\ timeout > 0
    BY <1>1, <2>1, <2>2 DEF Dispatch
  <2>3. CASE ~(e \in LockedEvents /\ timeout > 0)
    BY <1>1, <2>1, <2>3 DEF Dispatch
  <2>4. QED
    BY <2>2, <2>3
<1>2. ASSUME NEW c \in Chains, TryLock(c)
      PROVE  TypeIInv'
  BY <1>2 DEF TryLock
<1>3. ASSUME NEW c \in Chains, LockBusy(c)
      PROVE  TypeIInv'
  BY <1>3 DEF LockBusy
<1>4. ASSUME NEW c \in Chains, LockTimeout(c)
      PROVE  TypeIInv'
  BY <1>4 DEF LockTimeout
<1>5. ASSUME NEW c \in Chains, TouchFlag(c)
      PROVE  TypeIInv'
  BY <1>5 DEF TouchFlag
<1>6. ASSUME NEW c \in Chains, EndBody(c)
      PROVE  TypeIInv'
  BY <1>6 DEF EndBody
<1>7. ASSUME NEW c \in Chains, TestFlag(c)
      PROVE  TypeIInv'
  <2>1. overrun' \in BOOLEAN
    BY <1>7, Zenon DEF TestFlag, Exit
  <2>2. QED
    BY <1>7, <2>1 DEF TestFlag, Exit
<1>8. ASSUME NEW c \in Chains, RemoveFlag(c)
      PROVE  TypeIInv'
  BY <1>8 DEF RemoveFlag
<1>9. ASSUME NEW c \in Chains, Release(c)
      PROVE  TypeIInv'
  <2>1. overrun' \in BOOLEAN
    BY <1>9, Zenon DEF Release, Exit
  <2>2. QED
    BY <1>9, <2>1 DEF Release, Exit
<1>10. ASSUME NEW t \in Timeouts, SetTimeout(t)
       PROVE  TypeIInv'
  BY <1>10 DEF SetTimeout
<1>11. CASE UNCHANGED lockVars
  BY <1>11 DEF lockVars
<1>12. QED
  BY <1>1, <1>2, <1>3, <1>4, <1>5, <1>6, <1>7, <1>8, <1>9, <1>10, <1>11
     DEF LockNext, ChainStep, LockStep

(* The variables always have their types, and no chain waits longer than the *)
(* timeout it read (00-lock:33-40).                                          *)
THEOREM LockTypeCorrect == LockSpec => []LockTypeOK
<1>1. TypeIInv => LockTypeOK
  BY DEF TypeIInv
<1>2. QED
  BY <1>1, TypeIInvInit, TypeIInvStep, PTL DEF LockSpec

-----------------------------------------------------------------------------
(* With no chain alive and no lock taken the invariant holds. *)
LEMMA LockIInvInit == LockInit => LockIInv
<1> SUFFICES ASSUME LockInit
             PROVE  LockIInv
  OBVIOUS
<1>1. TypeIInv
  BY TypeIInvInit
<1>2. LockedOnly
  BY DEF LockInit, LockedOnly
<1>3. FlagSeen /\ LockAccounted
  BY DEF LockInit, FlagSeen, LockAccounted
<1>4. Owned
  BY DEF LockInit, Owned, Inside
<1>5. QED
  BY <1>1, <1>2, <1>3, <1>4 DEF LockIInv

(* No step takes a chain of another event into the locked paths of 00-lock   *)
(* or past the event filter of 999-unlock.                                   *)
LEMMA LockedOnlyStep ==
    TypeIInv /\ LockedOnly /\ [LockNext]_lockVars => LockedOnly'
<1> SUFFICES ASSUME TypeIInv, LockedOnly, [LockNext]_lockVars
             PROVE  LockedOnly'
  OBVIOUS
<1> USE NoChainAssumption DEF TypeIInv, LockTypeOK, Locations, LockedOnly
<1>1. ASSUME NEW c \in Chains, NEW e \in Events, Dispatch(c, e)
      PROVE  LockedOnly'
  BY <1>1 DEF Dispatch
<1>2. ASSUME NEW c \in Chains, TryLock(c)
      PROVE  LockedOnly'
  BY <1>2 DEF TryLock
<1>3. ASSUME NEW c \in Chains, LockBusy(c)
      PROVE  LockedOnly'
  BY <1>3 DEF LockBusy
<1>4. ASSUME NEW c \in Chains, LockTimeout(c)
      PROVE  LockedOnly'
  BY <1>4 DEF LockTimeout
<1>5. ASSUME NEW c \in Chains, TouchFlag(c)
      PROVE  LockedOnly'
  BY <1>5 DEF TouchFlag
<1>6. ASSUME NEW c \in Chains, EndBody(c)
      PROVE  LockedOnly'
  BY <1>6 DEF EndBody
<1>7. ASSUME NEW c \in Chains, TestFlag(c)
      PROVE  LockedOnly'
  BY <1>7 DEF TestFlag, Exit
<1>8. ASSUME NEW c \in Chains, RemoveFlag(c)
      PROVE  LockedOnly'
  BY <1>8 DEF RemoveFlag
<1>9. ASSUME NEW c \in Chains, Release(c)
      PROVE  LockedOnly'
  BY <1>9 DEF Release, Exit
<1>10. ASSUME NEW t \in Timeouts, SetTimeout(t)
       PROVE  LockedOnly'
  BY <1>10 DEF SetTimeout
<1>11. CASE UNCHANGED lockVars
  BY <1>11 DEF lockVars
<1>12. QED
  BY <1>1, <1>2, <1>3, <1>4, <1>5, <1>6, <1>7, <1>8, <1>9, <1>10, <1>11
     DEF LockNext, ChainStep, LockStep

(* Whoever leaves 999-unlock without the flag found it gone already.         *)
LEMMA FlagSeenStep ==
    TypeIInv /\ LockedOnly /\ FlagSeen /\ [LockNext]_lockVars => FlagSeen'
<1> SUFFICES ASSUME TypeIInv, LockedOnly, FlagSeen, [LockNext]_lockVars
             PROVE  FlagSeen'
  OBVIOUS
<1> USE NoChainAssumption DEF TypeIInv, LockTypeOK, Locations, LockedOnly, FlagSeen
<1>1. ASSUME NEW c \in Chains, NEW e \in Events, Dispatch(c, e)
      PROVE  FlagSeen'
  BY <1>1 DEF Dispatch
<1>2. ASSUME NEW c \in Chains, TryLock(c)
      PROVE  FlagSeen'
  BY <1>2 DEF TryLock
<1>3. ASSUME NEW c \in Chains, LockBusy(c)
      PROVE  FlagSeen'
  BY <1>3 DEF LockBusy
<1>4. ASSUME NEW c \in Chains, LockTimeout(c)
      PROVE  FlagSeen'
  BY <1>4 DEF LockTimeout
<1>5. ASSUME NEW c \in Chains, TouchFlag(c)
      PROVE  FlagSeen'
  BY <1>5 DEF TouchFlag
<1>6. ASSUME NEW c \in Chains, EndBody(c)
      PROVE  FlagSeen'
  BY <1>6 DEF EndBody
<1>7. ASSUME NEW c \in Chains, TestFlag(c)
      PROVE  FlagSeen'
  BY <1>7 DEF TestFlag, Exit
<1>8. ASSUME NEW c \in Chains, RemoveFlag(c)
      PROVE  FlagSeen'
  BY <1>8 DEF RemoveFlag
<1>9. ASSUME NEW c \in Chains, Release(c)
      PROVE  FlagSeen'
  BY <1>9 DEF Release, Exit
<1>10. ASSUME NEW t \in Timeouts, SetTimeout(t)
       PROVE  FlagSeen'
  BY <1>10 DEF SetTimeout
<1>11. CASE UNCHANGED lockVars
  BY <1>11 DEF lockVars
<1>12. QED
  BY <1>1, <1>2, <1>3, <1>4, <1>5, <1>6, <1>7, <1>8, <1>9, <1>10, <1>11
     DEF LockNext, ChainStep, LockStep

(* Whoever takes the lock is about to make the flag, and whoever removes the *)
(* flag is about to release the lock.                                        *)
LEMMA LockAccountedStep ==
    TypeIInv /\ LockAccounted /\ [LockNext]_lockVars => LockAccounted'
<1> SUFFICES ASSUME TypeIInv, LockAccounted, [LockNext]_lockVars
             PROVE  LockAccounted'
  OBVIOUS
<1> USE NoChainAssumption DEF TypeIInv, LockTypeOK, Locations, LockAccounted
<1>1. ASSUME NEW c \in Chains, NEW e \in Events, Dispatch(c, e)
      PROVE  LockAccounted'
  BY <1>1 DEF Dispatch
<1>2. ASSUME NEW c \in Chains, TryLock(c)
      PROVE  LockAccounted'
  BY <1>2 DEF TryLock
<1>3. ASSUME NEW c \in Chains, LockBusy(c)
      PROVE  LockAccounted'
  BY <1>3 DEF LockBusy
<1>4. ASSUME NEW c \in Chains, LockTimeout(c)
      PROVE  LockAccounted'
  BY <1>4 DEF LockTimeout
<1>5. ASSUME NEW c \in Chains, TouchFlag(c)
      PROVE  LockAccounted'
  BY <1>5 DEF TouchFlag
<1>6. ASSUME NEW c \in Chains, EndBody(c)
      PROVE  LockAccounted'
  BY <1>6 DEF EndBody
<1>7. ASSUME NEW c \in Chains, TestFlag(c)
      PROVE  LockAccounted'
  BY <1>7 DEF TestFlag, Exit
<1>8. ASSUME NEW c \in Chains, RemoveFlag(c)
      PROVE  LockAccounted'
  BY <1>8 DEF RemoveFlag
<1>9. ASSUME NEW c \in Chains, Release(c)
      PROVE  LockAccounted'
  BY <1>9 DEF Release, Exit
<1>10. ASSUME NEW t \in Timeouts, SetTimeout(t)
       PROVE  LockAccounted'
  BY <1>10 DEF SetTimeout
<1>11. CASE UNCHANGED lockVars
  BY <1>11 DEF lockVars
<1>12. QED
  BY <1>1, <1>2, <1>3, <1>4, <1>5, <1>6, <1>7, <1>8, <1>9, <1>10, <1>11
     DEF LockNext, ChainStep, LockStep

(* A chain gets past 00-lock with the lock or by an overrun; a release or a  *)
(* removal by another chain would be of a second chain inside.               *)
LEMMA OwnedStep ==
    TypeIInv /\ LockedOnly /\ Owned /\ [LockNext]_lockVars => Owned'
<1> SUFFICES ASSUME TypeIInv, LockedOnly, Owned, [LockNext]_lockVars
             PROVE  Owned'
  OBVIOUS
<1> USE NoChainAssumption DEF TypeIInv, LockTypeOK, Locations, LockedOnly, Owned, Inside
<1>1. ASSUME NEW c \in Chains, NEW e \in Events, Dispatch(c, e)
      PROVE  Owned'
  BY <1>1 DEF Dispatch
<1>2. ASSUME NEW c \in Chains, TryLock(c)
      PROVE  Owned'
  BY <1>2 DEF TryLock
<1>3. ASSUME NEW c \in Chains, LockBusy(c)
      PROVE  Owned'
  BY <1>3 DEF LockBusy
<1>4. ASSUME NEW c \in Chains, LockTimeout(c)
      PROVE  Owned'
  BY <1>4 DEF LockTimeout
<1>5. ASSUME NEW c \in Chains, TouchFlag(c)
      PROVE  Owned'
  BY <1>5 DEF TouchFlag
<1>6. ASSUME NEW c \in Chains, EndBody(c)
      PROVE  Owned'
  BY <1>6 DEF EndBody
<1>7. ASSUME NEW c \in Chains, TestFlag(c)
      PROVE  Owned'
  BY <1>7 DEF TestFlag, Exit
<1>8. ASSUME NEW c \in Chains, RemoveFlag(c)
      PROVE  Owned'
  BY <1>8 DEF RemoveFlag
<1>9. ASSUME NEW c \in Chains, Release(c)
      PROVE  Owned'
  BY <1>9 DEF Release, Exit
<1>10. ASSUME NEW t \in Timeouts, SetTimeout(t)
       PROVE  Owned'
  BY <1>10 DEF SetTimeout
<1>11. CASE UNCHANGED lockVars
  BY <1>11 DEF lockVars
<1>12. QED
  BY <1>1, <1>2, <1>3, <1>4, <1>5, <1>6, <1>7, <1>8, <1>9, <1>10, <1>11
     DEF LockNext, ChainStep, LockStep

(* The invariant holds throughout. *)
LEMMA LockIInvariant == LockSpec => []LockIInv
<1>1. LockIInv /\ [LockNext]_lockVars => LockIInv'
  BY TypeIInvStep, LockedOnlyStep, FlagSeenStep, LockAccountedStep, OwnedStep
     DEF LockIInv
<1>2. QED
  BY <1>1, LockIInvInit, PTL DEF LockSpec

(* Mutual exclusion of the locked section, for every number of chains: two   *)
(* state-transition chains that went through 00-lock never run together      *)
(* unless one of them gave up waiting or found locking off.                  *)
THEOREM LockSerialises == LockSpec => []Serialised
<1>1. LockIInv => Serialised
  BY DEF LockIInv, Owned, Serialised
<1>2. QED
  BY <1>1, LockIInvariant, PTL

(* Once every chain has ended the lock is free and the flag is gone: no      *)
(* timeout, disabled lock or stolen release can leak them.                   *)
THEOREM LockNeverLeaks == LockSpec => []QuiescentClean
<1>1. LockIInv => QuiescentClean
  <2> SUFFICES ASSUME LockIInv, \A c \in Chains : pc[c] = "idle"
               PROVE  holder = NoChain /\ ~flag
    BY DEF QuiescentClean
  <2>1. ~flag
    BY DEF LockIInv, FlagSeen
  <2>2. holder = NoChain
    BY <2>1 DEF LockIInv, TypeIInv, LockTypeOK, LockAccounted
  <2>3. QED
    BY <2>1, <2>2
<1>2. QED
  BY <1>1, LockIInvariant, PTL

(* As long as every chain took the lock, the only step that frees it is the  *)
(* lock -u of the chain that holds it.                                       *)
THEOREM LockReleasedByHolder == LockSpec => HolderReleases
<1> DEFINE Frees == ~overrun /\ holder # NoChain /\ holder' # holder
                      => pc[holder] = "release"
<1>1. LockIInv /\ [LockNext]_lockVars => [Frees]_lockVars
  <2> SUFFICES ASSUME LockIInv, LockNext, ~overrun, holder # NoChain,
                      holder' # holder
               PROVE  pc[holder] = "release"
    BY DEF lockVars
  <2>1. PICK c \in Chains : TryLock(c) \/ Release(c)
    BY DEF LockNext, ChainStep, LockStep, Dispatch, LockBusy, LockTimeout,
           TouchFlag, EndBody, TestFlag, RemoveFlag, SetTimeout
  <2>2. Release(c)
    BY <2>1 DEF TryLock
  <2>3. Inside(c)
    BY <2>2 DEF LockIInv, LockedOnly, Release, Inside
  <2>4. QED
    BY <2>2, <2>3 DEF LockIInv, Owned, Release
<1>2. QED
  BY <1>1, LockIInvariant, PTL DEF LockSpec, HolderReleases
-----------------------------------------------------------------------------
(* The node uses the lock as HotplugLock says.                               *)

(* Each step of the node is a step of the lock or leaves it alone. *)
LEMMA NodeLockStep == [Next]_vars => [LockNext]_lockVars
<1> SUFFICES ASSUME [Next]_vars
             PROVE  [LockNext]_lockVars
    OBVIOUS
<1>1. ASSUME NEW c \in Chains, Progress(c)
      PROVE  [LockNext]_lockVars
  <2>1. CASE Effect(c)
        BY <2>1 DEF Effect, Enable, Disable, Teardown, RestoreHotspot, Restore, SwitchOn,
                    SwitchOff, CronRead, CronWrite, lockVars
  <2>2. CASE ReachUnlock(c)
        BY <2>2 DEF ReachUnlock, LockNext, ChainStep
  <2>3. CASE LockStep(c)
        BY <2>3 DEF LockNext, ChainStep
  <2> QED BY <1>1, <2>1, <2>2, <2>3 DEF Progress
<1>2. ASSUME NEW c \in Chains, NEW s \in VrrpStates, Transition(c, s)
      PROVE  [LockNext]_lockVars
      BY <1>2 DEF Transition, Start, LockNext
<1>3. ASSUME NEW c \in Chains, Sync(c)
      PROVE  [LockNext]_lockVars
      BY <1>3 DEF Sync, Start, LockNext
<1>4. ASSUME NEW t \in Timeouts, SetTimeout(t)
      PROVE  [LockNext]_lockVars
      BY <1>4 DEF LockNext
<1>5. CASE UNCHANGED vars
      BY <1>5 DEF vars, lockVars
<1> QED BY <1>1, <1>2, <1>3, <1>4, <1>5 DEF Next

(* The chains of a node take and release the lock as HotplugLock describes:   *)
(* what is proved of the lock holds of every node.                           *)
THEOREM NodeUsesLock == Spec => LockSpec
<1>1. Init => LockInit
      BY DEF Init
<1> QED BY <1>1, NodeLockStep, PTL DEF Spec, LockSpec

(* So what holds of the lock holds of the node. *)
LEMMA NodeLockInvariant == Spec => []LockIInv
BY NodeUsesLock, LockIInvariant, PTL

-----------------------------------------------------------------------------
(* Steps of scripts.                                                         *)

Steps == Ops \X (Things \cup Jobs \cup {"ha"})
Elems(s) == {s[i] : i \in 1..Len(s)}

(* The steps of two scripts, one after the other. *)
LEMMA ElemsOfConcat ==
    ASSUME NEW S, NEW s \in Seq(S), NEW t \in Seq(S)
    PROVE  s \o t \in Seq(S) /\ Elems(s \o t) = Elems(s) \cup Elems(t)
<1>1. Len(s \o t) = Len(s) + Len(t) /\ s \o t \in Seq(S)
      OBVIOUS
<1>2. \A i \in 1..Len(s) + Len(t) : (s \o t)[i] = IF i <= Len(s) THEN s[i] ELSE t[i - Len(s)]
      OBVIOUS
<1>3. \A i \in 1..Len(t) : Len(s) + i \in 1..Len(s) + Len(t) /\ (s \o t)[Len(s) + i] = t[i]
      BY <1>2
<1>4. \A i \in 1..Len(s) : i \in 1..Len(s) + Len(t) /\ (s \o t)[i] = s[i]
      BY <1>2
<1>5. \A i \in 1..Len(s) + Len(t) : i <= Len(s) \/ i - Len(s) \in 1..Len(t)
      OBVIOUS
<1>6. Elems(s \o t) \subseteq Elems(s) \cup Elems(t)
      BY <1>1, <1>2, <1>5 DEF Elems
<1>7. Elems(s) \subseteq Elems(s \o t) /\ Elems(t) \subseteq Elems(s \o t)
      BY <1>1, <1>3, <1>4 DEF Elems
<1> QED BY <1>1, <1>6, <1>7

(* The first step of a script and the rest. *)
LEMMA ElemsOfTail ==
    ASSUME NEW S, NEW s \in Seq(S), s # <<>>
    PROVE  /\ Head(s) \in S /\ Tail(s) \in Seq(S)
           /\ Elems(s) = {Head(s)} \cup Elems(Tail(s))
           /\ Len(Tail(s)) = Len(s) - 1 /\ Head(s) = s[1]
           /\ \A i \in 1..Len(Tail(s)) : Tail(s)[i] = s[i + 1]
<1>1. /\ Head(s) \in S /\ Tail(s) \in Seq(S) /\ Len(s) \in Nat \ {0}
      /\ Len(Tail(s)) = Len(s) - 1 /\ Head(s) = s[1]
      /\ \A i \in 1..Len(Tail(s)) : Tail(s)[i] = s[i + 1]
      OBVIOUS
<1>2. \A i \in 1..Len(s) : i = 1 \/ (i - 1 \in 1..Len(Tail(s)) /\ Tail(s)[i - 1] = s[i])
      BY <1>1
<1>3. Elems(s) \subseteq {Head(s)} \cup Elems(Tail(s))
      BY <1>1, <1>2 DEF Elems
<1>4. {Head(s)} \cup Elems(Tail(s)) \subseteq Elems(s)
      BY <1>1 DEF Elems
<1> QED BY <1>1, <1>3, <1>4

(* Every script of the model is a sequence of steps. *)
LEMMA ScriptTypes ==
    /\ MasterScript \in Seq(Steps) /\ BackupScript \in Seq(Steps) /\ DownScript \in Seq(Steps)
    /\ SyncScript \in Seq(Steps) /\ IfUps \in Seq(Steps) /\ IfDowns \in Seq(Steps)
    /\ TeardownSteps \in Seq(Steps)
<1>1. \A op \in Ops, x \in Things \cup Jobs \cup {"ha"} : <<op, x>> \in Steps
      BY DEF Steps
<1>2. /\ {"enable", "disable", "hotspot", "teardown", "restore", "on", "off",
          "cron_read", "cron_on", "cron_off"} \subseteq Ops
      /\ {"ha", "wan", "vpn", "dnsmasq", "services", "dpi", "acme", "phonehome"}
            \subseteq Things \cup Jobs \cup {"ha"}
      BY DEF Ops, Things, Interfaces, Services, Jobs
<1>3. MasterScript \in Seq(Steps)
      BY <1>1, <1>2 DEF MasterScript
<1>4. BackupScript \in Seq(Steps)
      BY <1>1, <1>2 DEF BackupScript
<1>5. DownScript \in Seq(Steps)
      BY <1>1, <1>2 DEF DownScript
<1>6. SyncScript \in Seq(Steps)
      BY <1>1, <1>2 DEF SyncScript
<1>7. IfUps \in Seq(Steps) /\ IfDowns \in Seq(Steps)
      BY <1>1, <1>2 DEF IfUps, IfDowns
<1>8. TeardownSteps \in Seq(Steps)
      BY <1>1, <1>2 DEF TeardownSteps
<1> QED BY <1>3, <1>4, <1>5, <1>6, <1>7, <1>8

(* The event and the script of a VRRP state. *)
LEMMA ScriptOfEvent ==
    ASSUME NEW s \in VrrpStates \ {"INIT"}
    PROVE  /\ EventOf[s] \in LockedEvents /\ Script[EventOf[s]] \in Seq(Steps)
           /\ s = "MASTER" => EventOf[s] = "NOTIFY_MASTER" /\ Script[EventOf[s]] = MasterScript
           /\ s = "BACKUP" => EventOf[s] = "NOTIFY_BACKUP" /\ Script[EventOf[s]] = BackupScript
           /\ s \in {"FAULT", "STOPPED"} => /\ EventOf[s] \in {"NOTIFY_FAULT", "NOTIFY_STOP"}
                                            /\ Script[EventOf[s]] = DownScript
BY ScriptTypes DEF VrrpStates, EventOf, Script, LockedEvents

(* The script of NOTIFY_SYNC. *)
LEMMA ScriptOfSync ==
    Script["NOTIFY_SYNC"] = SyncScript
BY DEF Script

(* keepalived never goes back to its initial state. *)
LEMMA SuccessorsType ==
    ASSUME NEW s \in VrrpStates
    PROVE  Successors[s] \subseteq VrrpStates \ {"INIT"}
BY DEF VrrpStates, Successors

-----------------------------------------------------------------------------
(* Types.                                                                    *)

NodeType ==
    /\ role \in Roles
    /\ hotspot \in BOOLEAN
    /\ vrrp \in VrrpStates
    /\ on \subseteq Things
    /\ cron \subseteq Jobs
    /\ todo \in [Chains -> Seq(Steps)]
    /\ tab \in [Chains -> SUBSET Jobs]
    /\ synced \in BOOLEAN
    /\ newest \in Chains \cup {NoChain}
    /\ late \in BOOLEAN

(* The first step of c is done, and steps come before the rest.              *)
LEMMA ThenSteps ==
    ASSUME NodeType, NEW c \in Chains, NEW op, NEW x, NextUp(c, op, x),
           NEW steps \in Seq(Steps), Then(c, steps)
    PROVE  /\ todo' \in [Chains -> Seq(Steps)]
           /\ todo'[c] = steps \o Tail(todo[c])
           /\ \A d \in Chains \ {c} : todo'[d] = todo[d]
           /\ Elems(todo'[c]) = Elems(steps) \cup Elems(Tail(todo[c]))
           /\ Elems(todo[c]) = {<<op, x>>} \cup Elems(Tail(todo[c]))
           /\ todo[c][1] = <<op, x>> /\ <<op, x>> \in Steps /\ Tail(todo[c]) \in Seq(Steps)
<1>1. todo[c] \in Seq(Steps) /\ todo[c] # <<>> /\ Head(todo[c]) = <<op, x>>
      BY DEF NodeType, NextUp
<1>2. /\ Elems(todo[c]) = {<<op, x>>} \cup Elems(Tail(todo[c]))
      /\ todo[c][1] = <<op, x>> /\ <<op, x>> \in Steps /\ Tail(todo[c]) \in Seq(Steps)
      BY <1>1, ElemsOfTail
<1>3. /\ steps \o Tail(todo[c]) \in Seq(Steps)
      /\ Elems(steps \o Tail(todo[c])) = Elems(steps) \cup Elems(Tail(todo[c]))
  <2> DEFINE t == Tail(todo[c])
  <2>1. t \in Seq(Steps)
        BY <1>2
  <2> HIDE DEF t
  <2>2. steps \o t \in Seq(Steps) /\ Elems(steps \o t) = Elems(steps) \cup Elems(t)
        BY <2>1, ElemsOfConcat
  <2> QED BY <2>2 DEF t
<1>4. todo' = [todo EXCEPT ![c] = steps \o Tail(todo[c])]
      BY DEF Then
<1>5. /\ todo' \in [Chains -> Seq(Steps)] /\ todo'[c] = steps \o Tail(todo[c])
      /\ \A d \in Chains \ {c} : todo'[d] = todo[d]
      BY <1>3, <1>4 DEF NodeType
<1> QED BY <1>2, <1>3, <1>5

(* The plain case: nothing is put before the rest.                           *)
LEMMA ThenRest ==
    ASSUME NodeType, NEW c \in Chains, NEW op, NEW x, NextUp(c, op, x), Then(c, <<>>)
    PROVE  todo'[c] = Tail(todo[c])
<1>1. <<>> \in Seq(Steps)
      OBVIOUS
<1>2. todo'[c] = <<>> \o Tail(todo[c]) /\ Tail(todo[c]) \in Seq(Steps)
      BY <1>1, ThenSteps
<1> QED BY <1>2

(* A node that has just booted has the right types. *)
LEMMA NodeTypeInit == Init => NodeType
<1> SUFFICES ASSUME Init PROVE NodeType
    OBVIOUS
<1>1. hotspot \in BOOLEAN /\ synced \in BOOLEAN /\ late \in BOOLEAN
      BY HotspotAssumption, Zenon DEF Init
<1>2. on \subseteq Things
      BY DEF Init
<1>3. todo \in [Chains -> Seq(Steps)] /\ tab \in [Chains -> SUBSET Jobs]
      BY DEF Init
<1>4. role \in Roles /\ vrrp \in VrrpStates /\ cron \subseteq Jobs /\ newest \in Chains \cup {NoChain}
      BY DEF Init, VrrpStates
<1> QED BY <1>1, <1>2, <1>3, <1>4 DEF NodeType

(* Every step keeps them. *)
LEMMA NodeTypeStep ==
    ASSUME NodeType, [Next]_vars
    PROVE  NodeType'
<1>1. CASE UNCHANGED <<nodeVars, turns>>
      BY <1>1 DEF nodeVars, turns, NodeType
<1>2. ASSUME NEW c \in Chains, Start(c, "NOTIFY_SYNC") \/ \E s \in VrrpStates \ {"INIT"} : Start(c, EventOf[s])
      PROVE  todo' \in [Chains -> Seq(Steps)] /\ synced' \in BOOLEAN
  <2>1. PICK e : Start(c, e) /\ Script[e] \in Seq(Steps)
        BY <1>2, ScriptOfEvent, ScriptOfSync, ScriptTypes
  <2>2. todo' \in [Chains -> Seq(Steps)]
        BY <2>1 DEF Start, NodeType
  <2>3. synced' \in BOOLEAN
        BY <2>1, Zenon DEF Start
  <2> QED BY <2>2, <2>3
<1>3. ASSUME NEW c \in Chains, NEW s \in VrrpStates, Transition(c, s)
      PROVE  NodeType'
  <2>1. s \in VrrpStates \ {"INIT"}
        BY <1>3, SuccessorsType DEF Transition, NodeType
  <2>2. todo' \in [Chains -> Seq(Steps)] /\ synced' \in BOOLEAN
        BY <1>2, <1>3, <2>1 DEF Transition
  <2>3. late' \in BOOLEAN
        BY <1>3, Zenon DEF Transition
  <2> QED BY <1>3, <2>2, <2>3 DEF Transition, NodeType
<1>4. ASSUME NEW c \in Chains, Sync(c)
      PROVE  NodeType'
  <2>1. todo' \in [Chains -> Seq(Steps)] /\ synced' \in BOOLEAN
        BY <1>2, <1>4 DEF Sync
  <2> QED BY <1>4, <2>1 DEF Sync, NodeType, turns
<1>5. ASSUME NEW c \in Chains, TakeTurn(c)
      PROVE  newest' \in Chains \cup {NoChain} /\ late' \in BOOLEAN
  <2>1. late' \in BOOLEAN
        BY <1>5, Zenon DEF TakeTurn, turns, NodeType
  <2> QED BY <1>5, <2>1 DEF TakeTurn, turns, NodeType
<1>6. ASSUME NEW c \in Chains, Effect(c)
      PROVE  /\ todo' \in [Chains -> Seq(Steps)] /\ on' \subseteq Things /\ cron' \subseteq Jobs
             /\ tab' \in [Chains -> SUBSET Jobs] /\ UNCHANGED <<role, hotspot, vrrp, synced>>
  <2>1. <<>> \in Seq(Steps) /\ IfUps \in Seq(Steps) /\ IfDowns \in Seq(Steps) /\ TeardownSteps \in Seq(Steps)
        BY ScriptTypes
  <2>2. CASE Enable(c) \/ Disable(c) \/ Teardown(c)
    <3>1. UNCHANGED <<role, hotspot, vrrp, on, cron, tab, synced>>
          BY <2>2 DEF Enable, Disable, Teardown
    <3>2. PICK op \in {"enable", "disable", "teardown"}, steps \in Seq(Steps) : NextUp(c, op, "ha") /\ Then(c, steps)
          BY <2>1, <2>2 DEF Enable, Disable, Teardown
    <3>3. todo' \in [Chains -> Seq(Steps)]
          BY <3>2, ThenSteps
    <3> QED BY <3>1, <3>3 DEF NodeType
  <2>3. CASE RestoreHotspot(c)
    <3>1. todo[c] \in Seq(Steps) /\ todo[c] # <<>>
          BY <2>3 DEF RestoreHotspot, NextUp, NodeType
    <3>2. Tail(todo[c]) \in Seq(Steps)
          BY <3>1
    <3>3. todo' \in [Chains -> Seq(Steps)]
          BY <2>3, <3>2 DEF RestoreHotspot, NodeType
    <3> QED BY <2>3, <3>3 DEF RestoreHotspot, NodeType
  <2>4. CASE Restore(c)
    <3>1. todo' \in [Chains -> Seq(Steps)]
          BY <2>1, <2>4, ThenSteps DEF Restore
    <3>2. cron' \subseteq Jobs
          BY <2>4, SyncedTabsAssumption DEF Restore, Jobs
    <3> QED BY <2>4, <3>1, <3>2 DEF Restore, NodeType
  <2>5. ASSUME NEW x \in Things, SwitchOn(c, x) \/ SwitchOff(c, x)
        PROVE  /\ todo' \in [Chains -> Seq(Steps)] /\ on' \subseteq Things
               /\ UNCHANGED <<role, hotspot, vrrp, cron, tab, synced>>
    <3>1. todo' \in [Chains -> Seq(Steps)]
          BY <2>1, <2>5, ThenSteps DEF SwitchOn, SwitchOff
    <3> QED BY <2>5, <3>1 DEF SwitchOn, SwitchOff, NodeType
  <2>6. CASE CronRead(c)
    <3>1. todo' \in [Chains -> Seq(Steps)]
          BY <2>1, <2>6, ThenSteps DEF CronRead
    <3> QED BY <2>6, <3>1 DEF CronRead, NodeType
  <2>7. ASSUME NEW j \in Jobs, CronWrite(c, j)
        PROVE  /\ todo' \in [Chains -> Seq(Steps)] /\ cron' \subseteq Jobs
               /\ tab' \in [Chains -> SUBSET Jobs] /\ UNCHANGED <<role, hotspot, vrrp, on, synced>>
    <3>1. todo' \in [Chains -> Seq(Steps)]
          BY <2>1, <2>7, ThenSteps DEF CronWrite
    <3> QED BY <2>7, <3>1 DEF CronWrite, NodeType
  <2> QED BY <1>6, <2>2, <2>3, <2>4, <2>5, <2>6, <2>7 DEF Effect, NodeType
<1>7. ASSUME NEW c \in Chains, Progress(c)
      PROVE  NodeType'
  <2>1. newest' \in Chains \cup {NoChain} /\ late' \in BOOLEAN
        BY <1>5, <1>7 DEF Progress
  <2>2. CASE Effect(c)
        BY <1>6, <2>1, <2>2 DEF NodeType
  <2>3. CASE UNCHANGED nodeVars
        BY <2>1, <2>3 DEF nodeVars, NodeType
  <2> QED BY <1>7, <2>2, <2>3 DEF Progress, ReachUnlock
<1> QED BY <1>1, <1>3, <1>4, <1>7 DEF Next, vars, nodeVars, turns

(* A node keeps its types, and no chain on it waits for longer than the       *)
(* timeout it read.                                                          *)
THEOREM NodeTypeCorrect == Spec => []TypeOK
<1>1. LockIInv /\ NodeType => TypeOK
  <2> SUFFICES ASSUME LockIInv, NodeType PROVE TypeOK
      OBVIOUS
  <2>1. ASSUME NEW c \in Chains, NEW i \in 1..Len(todo[c])
        PROVE  todo[c][i] \in Ops \X (Things \cup Jobs \cup {"ha"})
        BY DEF NodeType, Steps
  <2>2. LockTypeOK
        BY DEF LockIInv, TypeIInv
  <2> QED BY <2>1, <2>2 DEF NodeType, TypeOK
<1>2. NodeType /\ [Next]_vars => NodeType'
      BY NodeTypeStep
<1> QED BY <1>1, <1>2, NodeTypeInit, NodeLockInvariant, PTL DEF Spec

-----------------------------------------------------------------------------
(* What chains can have left to do.                                          *)

(* The steps that a chain of an event can have left.                         *)
May ==
    [NOTIFY_MASTER |-> {<<"enable", "ha">>, <<"cron_read", "ha">>} \cup ({"on"} \X Things) \cup ({"cron_on"} \X Jobs),
     NOTIFY_BACKUP |-> {<<"disable", "ha">>, <<"cron_read", "ha">>} \cup ({"off"} \X Things) \cup ({"cron_off"} \X Jobs),
     NOTIFY_FAULT |-> {<<"teardown", "ha">>, <<"hotspot", "ha">>} \cup ({"off"} \X Things),
     NOTIFY_STOP |-> {<<"teardown", "ha">>, <<"hotspot", "ha">>} \cup ({"off"} \X Things),
     NOTIFY_SYNC |-> {<<"restore", "ha">>, <<"off", "dnsmasq">>, <<"cron_read", "ha">>, <<"cron_off", "acme">>},
     none |-> {}]

Scripted ==
    \A c \in Chains :
        /\ event[c] \in LockedEvents \cup {"NOTIFY_SYNC", "none"}
        /\ pc[c] = "idle" <=> event[c] = "none"
        /\ pc[c] \in {"lock", "touch"} => todo[c] = Script[event[c]]
        /\ Elems(todo[c]) \subseteq May[event[c]]
        /\ pc[c] \in {"idle", "unlock", "remove", "release"} => todo[c] = <<>>

SyncNoted == \A c \in Chains : event[c] = "NOTIFY_SYNC" => synced

(* The steps in each script. *)
LEMMA ElemsOfScripts ==
    /\ Elems(<<>>) = {}
    /\ Elems(MasterScript) =
          {<<"enable", "ha">>, <<"on", "dnsmasq">>, <<"cron_read", "ha">>, <<"cron_on", "acme">>,
           <<"on", "services">>, <<"on", "dpi">>, <<"cron_on", "phonehome">>}
    /\ Elems(BackupScript) =
          {<<"disable", "ha">>, <<"off", "dnsmasq">>, <<"cron_read", "ha">>, <<"cron_off", "acme">>,
           <<"off", "services">>, <<"off", "dpi">>, <<"cron_off", "phonehome">>}
    /\ Elems(DownScript) = {<<"off", "dnsmasq">>, <<"teardown", "ha">>}
    /\ Elems(SyncScript) = May["NOTIFY_SYNC"]
    /\ Elems(IfUps) = {<<"on", "wan">>, <<"on", "vpn">>}
    /\ Elems(IfDowns) = {<<"off", "vpn">>, <<"off", "wan">>}
    /\ Elems(TeardownSteps) = {<<"off", "vpn">>, <<"off", "wan">>, <<"hotspot", "ha">>,
                               <<"off", "dnsmasq">>, <<"off", "services">>}
<1>1. Elems(<<>>) = {}
      BY DEF Elems
<1>2. Elems(MasterScript) =
          {<<"enable", "ha">>, <<"on", "dnsmasq">>, <<"cron_read", "ha">>, <<"cron_on", "acme">>,
           <<"on", "services">>, <<"on", "dpi">>, <<"cron_on", "phonehome">>}
      BY DEF Elems, MasterScript
<1>3. Elems(BackupScript) =
          {<<"disable", "ha">>, <<"off", "dnsmasq">>, <<"cron_read", "ha">>, <<"cron_off", "acme">>,
           <<"off", "services">>, <<"off", "dpi">>, <<"cron_off", "phonehome">>}
      BY DEF Elems, BackupScript
<1>4. Elems(DownScript) = {<<"off", "dnsmasq">>, <<"teardown", "ha">>}
      BY DEF Elems, DownScript
<1>5. Elems(SyncScript) = May["NOTIFY_SYNC"]
      BY DEF Elems, SyncScript, May
<1>6. Elems(IfUps) = {<<"on", "wan">>, <<"on", "vpn">>}
      BY DEF Elems, IfUps
<1>7. Elems(IfDowns) = {<<"off", "vpn">>, <<"off", "wan">>}
      BY DEF Elems, IfDowns
<1>8. Elems(TeardownSteps) = {<<"off", "vpn">>, <<"off", "wan">>, <<"hotspot", "ha">>,
                              <<"off", "dnsmasq">>, <<"off", "services">>}
      BY DEF Elems, TeardownSteps
<1> QED BY <1>1, <1>2, <1>3, <1>4, <1>5, <1>6, <1>7, <1>8

(* The event of a chain, from a step it has left.                            *)
LEMMA MayTells ==
    ASSUME NEW e \in LockedEvents \cup {"NOTIFY_SYNC", "none"}, NEW op, NEW x, <<op, x>> \in May[e]
    PROVE  /\ e # "none"
           /\ op \in {"enable", "on", "cron_on"} => e = "NOTIFY_MASTER"
           /\ op = "disable" => e = "NOTIFY_BACKUP"
           /\ op \in {"teardown", "hotspot"} => e \in {"NOTIFY_FAULT", "NOTIFY_STOP"}
           /\ op = "restore" => e = "NOTIFY_SYNC"
           /\ op = "off" => e # "NOTIFY_MASTER" /\ (e = "NOTIFY_SYNC" => x = "dnsmasq")
           /\ op = "cron_off" => e \in {"NOTIFY_BACKUP", "NOTIFY_SYNC"} /\ (e = "NOTIFY_SYNC" => x = "acme")
           /\ op = "cron_read" => e \notin {"NOTIFY_FAULT", "NOTIFY_STOP"}
BY DEF May, LockedEvents

(* The scripts of an event have steps of that event only. *)
LEMMA MayOfScripts ==
    /\ Elems(MasterScript) \cup Elems(IfUps) \subseteq May["NOTIFY_MASTER"]
    /\ Elems(BackupScript) \cup Elems(IfDowns) \subseteq May["NOTIFY_BACKUP"]
    /\ \A e \in {"NOTIFY_FAULT", "NOTIFY_STOP"} :
          Elems(DownScript) \cup Elems(TeardownSteps) \subseteq May[e]
BY ElemsOfScripts DEF May, Things, Interfaces, Services, Jobs

(* A chain starts with steps of its own event. *)
LEMMA ScriptMay ==
    ASSUME NEW e, e = "NOTIFY_SYNC" \/ \E s \in VrrpStates \ {"INIT"} : e = EventOf[s]
    PROVE  /\ e \in LockedEvents \cup {"NOTIFY_SYNC"} /\ e # "none"
           /\ Elems(Script[e]) \subseteq May[e]
<1>1. CASE e = "NOTIFY_SYNC"
      BY <1>1, ScriptOfSync, ElemsOfScripts
<1>2. ASSUME NEW s \in VrrpStates \ {"INIT"}, e = EventOf[s]
      PROVE  e \in LockedEvents /\ e # "none" /\ Elems(Script[e]) \subseteq May[e]
      BY <1>2, ScriptOfEvent, MayOfScripts DEF VrrpStates, LockedEvents
<1> QED BY <1>1, <1>2

(* One step of the scripts: its chain is in its body, and what it has left    *)
(* afterwards is of its event.                                               *)
LEMMA EffectMay ==
    ASSUME NodeType, Scripted, NEW c \in Chains, Effect(c)
    PROVE  /\ pc[c] = "body" /\ UNCHANGED lockVars
           /\ Elems(todo'[c]) \subseteq May[event[c]]
           /\ \A d \in Chains \ {c} : todo'[d] = todo[d]
<1> DEFINE e == event[c]
<1>1. e \in LockedEvents \cup {"NOTIFY_SYNC", "none"} /\ Elems(todo[c]) \subseteq May[e]
      BY DEF Scripted
<1>2. pc[c] = "body" /\ UNCHANGED lockVars
      BY DEF Effect, Enable, Disable, Teardown, RestoreHotspot, Restore, SwitchOn, SwitchOff,
             CronRead, CronWrite, NextUp
<1> HIDE DEF e
<1>3. ASSUME NEW op, NEW x, NextUp(c, op, x), NEW steps \in Seq(Steps), Then(c, steps)
      PROVE  /\ Elems(todo'[c]) \subseteq Elems(steps) \cup May[e] /\ <<op, x>> \in May[e]
             /\ \A d \in Chains \ {c} : todo'[d] = todo[d]
  <2>1. /\ Elems(todo'[c]) = Elems(steps) \cup Elems(Tail(todo[c]))
        /\ Elems(todo[c]) = {<<op, x>>} \cup Elems(Tail(todo[c]))
        /\ \A d \in Chains \ {c} : todo'[d] = todo[d]
        BY <1>3, ThenSteps
  <2> QED BY <1>1, <2>1
<1>4. <<>> \in Seq(Steps)
      OBVIOUS
<1>5. CASE Enable(c)
  <2>1. PICK steps \in {IfUps, <<>>} : NextUp(c, "enable", "ha") /\ Then(c, steps)
        BY <1>5 DEF Enable
  <2>2. steps \in Seq(Steps)
        BY <1>4, <2>1, ScriptTypes
  <2>3. /\ Elems(todo'[c]) \subseteq Elems(steps) \cup May[e] /\ <<"enable", "ha">> \in May[e]
        /\ \A d \in Chains \ {c} : todo'[d] = todo[d]
        BY <1>3, <2>1, <2>2
  <2>4. Elems(steps) \subseteq May[e]
        BY <1>1, <2>1, <2>3, MayTells, MayOfScripts, ElemsOfScripts
  <2> QED BY <1>2, <2>3, <2>4 DEF e
<1>6. CASE Disable(c)
  <2>1. PICK steps \in {IfDowns, <<>>} : NextUp(c, "disable", "ha") /\ Then(c, steps)
        BY <1>6 DEF Disable
  <2>2. steps \in Seq(Steps)
        BY <1>4, <2>1, ScriptTypes
  <2>3. /\ Elems(todo'[c]) \subseteq Elems(steps) \cup May[e] /\ <<"disable", "ha">> \in May[e]
        /\ \A d \in Chains \ {c} : todo'[d] = todo[d]
        BY <1>3, <2>1, <2>2
  <2>4. Elems(steps) \subseteq May[e]
        BY <1>1, <2>1, <2>3, MayTells, MayOfScripts, ElemsOfScripts
  <2> QED BY <1>2, <2>3, <2>4 DEF e
<1>7. CASE Teardown(c)
  <2>1. /\ Elems(todo'[c]) \subseteq Elems(TeardownSteps) \cup May[e] /\ <<"teardown", "ha">> \in May[e]
        /\ \A d \in Chains \ {c} : todo'[d] = todo[d]
        BY <1>3, <1>7, ScriptTypes DEF Teardown
  <2>2. Elems(TeardownSteps) \subseteq May[e]
        BY <1>1, <2>1, MayTells, MayOfScripts
  <2> QED BY <1>2, <2>1, <2>2 DEF e
<1>8. CASE RestoreHotspot(c)
  <2>1. todo[c] \in Seq(Steps) /\ todo[c] # <<>>
        BY <1>8 DEF RestoreHotspot, NextUp, NodeType
  <2>2. Elems(Tail(todo[c])) \subseteq Elems(todo[c])
        BY <2>1, ElemsOfTail
  <2>3. /\ todo'[c] \in {<<>>, Tail(todo[c])}
        /\ \A d \in Chains \ {c} : todo'[d] = todo[d]
        BY <1>8 DEF RestoreHotspot, NodeType
  <2> QED BY <1>1, <1>2, <2>2, <2>3, ElemsOfScripts DEF e
<1>9. ASSUME NEW op, NEW x, NextUp(c, op, x), Then(c, <<>>)
      PROVE  /\ Elems(todo'[c]) \subseteq May[e]
             /\ \A d \in Chains \ {c} : todo'[d] = todo[d]
      BY <1>3, <1>4, <1>9, ElemsOfScripts
<1> QED BY <1>2, <1>5, <1>6, <1>7, <1>8, <1>9
        DEF Effect, Restore, CronRead, SwitchOn, SwitchOff, CronWrite, e

(* At boot no chain has anything to do. *)
LEMMA ScriptedInit == Init => Scripted /\ SyncNoted
BY ElemsOfScripts DEF Init, LockInit, Scripted, SyncNoted, LockedEvents, May

(* Every step leaves each chain with steps of its own event. *)
LEMMA ScriptedStep ==
    ASSUME LockTypeOK, NodeType, Scripted, [Next]_vars
    PROVE  Scripted'
<1> USE DEF LockTypeOK
<1>1. CASE UNCHANGED <<pc, event, todo>>
      BY <1>1 DEF Scripted
<1>2. ASSUME NEW c \in Chains, NEW e, Start(c, e),
             e = "NOTIFY_SYNC" \/ \E s \in VrrpStates \ {"INIT"} : e = EventOf[s]
      PROVE  Scripted'
  <2>1. /\ e \in LockedEvents \cup {"NOTIFY_SYNC"} /\ e # "none"
        /\ Elems(Script[e]) \subseteq May[e]
        BY <1>2, ScriptMay
  <2>2. /\ pc' = [pc EXCEPT ![c] = "lock"] \/ pc' = [pc EXCEPT ![c] = "body"]
        /\ event' = [event EXCEPT ![c] = e]
        /\ todo' = [todo EXCEPT ![c] = Script[e]]
        BY <1>2 DEF Start, Dispatch
  <2>3. ASSUME NEW d \in Chains
        PROVE  \/ d = c /\ pc'[d] \in {"lock", "body"} /\ event'[d] = e /\ todo'[d] = Script[e]
               \/ pc'[d] = pc[d] /\ event'[d] = event[d] /\ todo'[d] = todo[d]
        BY <2>2 DEF NodeType
  <2> QED BY <2>1, <2>3 DEF Scripted
<1>3. ASSUME NEW c \in Chains, NEW s \in VrrpStates, Transition(c, s)
      PROVE  Scripted'
  <2>1. s \in VrrpStates \ {"INIT"}
        BY <1>3, SuccessorsType DEF Transition, NodeType
  <2> QED BY <1>2, <1>3, <2>1 DEF Transition
<1>4. ASSUME NEW c \in Chains, Sync(c)
      PROVE  Scripted'
      BY <1>2, <1>4 DEF Sync
<1>5. ASSUME NEW c \in Chains, Effect(c)
      PROVE  Scripted'
  <2>1. /\ pc[c] = "body" /\ UNCHANGED lockVars
        /\ Elems(todo'[c]) \subseteq May[event[c]]
        /\ \A d \in Chains \ {c} : todo'[d] = todo[d]
        BY <1>5, EffectMay
  <2> QED BY <2>1 DEF Scripted, lockVars
<1>6. ASSUME NEW c \in Chains, ReachUnlock(c)
      PROVE  Scripted'
  <2>1. /\ pc[c] = "body" /\ todo[c] = <<>> /\ pc' = [pc EXCEPT ![c] = "unlock"]
        /\ UNCHANGED <<event, todo>>
        BY <1>6 DEF ReachUnlock, EndBody, nodeVars
  <2> QED BY <2>1 DEF Scripted
<1>7. ASSUME NEW c \in Chains, LockStep(c), UNCHANGED nodeVars
      PROVE  Scripted'
  <2>1. UNCHANGED todo
        BY <1>7 DEF nodeVars
  <2>2. CASE TryLock(c) \/ TouchFlag(c) \/ LockTimeout(c) \/ RemoveFlag(c) \/ LockBusy(c)
        BY <2>1, <2>2 DEF TryLock, TouchFlag, LockTimeout, RemoveFlag, LockBusy, Scripted
  <2>3. ASSUME pc[c] \in {"unlock", "release"}, Exit(c)
        PROVE  Scripted'
    <3>1. todo'[c] = <<>> /\ pc'[c] = "idle" /\ event'[c] = "none"
          BY <2>1, <2>3 DEF Exit, Scripted
    <3>2. \A d \in Chains \ {c} : pc'[d] = pc[d] /\ event'[d] = event[d] /\ todo'[d] = todo[d]
          BY <2>1, <2>3 DEF Exit
    <3> QED BY <3>1, <3>2, ElemsOfScripts DEF Scripted
  <2>4. CASE pc[c] = "unlock" /\ pc' = [pc EXCEPT ![c] = "remove"] /\ UNCHANGED event
        BY <2>1, <2>4 DEF Scripted
  <2> QED BY <1>7, <2>2, <2>3, <2>4 DEF LockStep, TestFlag, Release
<1>8. ASSUME NEW t \in Timeouts, SetTimeout(t), UNCHANGED nodeVars
      PROVE  Scripted'
      BY <1>1, <1>8 DEF SetTimeout, nodeVars
<1>9. CASE UNCHANGED vars
      BY <1>1, <1>9 DEF vars
<1> QED BY <1>3, <1>4, <1>5, <1>6, <1>7, <1>8, <1>9 DEF Next, Progress

(* A chain of NOTIFY_SYNC is noted for as long as it lives. *)
LEMMA SyncNotedStep ==
    ASSUME LockTypeOK, NodeType, Scripted, SyncNoted, [Next]_vars
    PROVE  SyncNoted'
<1> USE DEF LockTypeOK
<1>1. CASE UNCHANGED <<event, synced>>
      BY <1>1 DEF SyncNoted
<1>2. ASSUME NEW c \in Chains, NEW e, Start(c, e)
      PROVE  SyncNoted'
  <2>1. event' = [event EXCEPT ![c] = e]
        BY <1>2 DEF Start, Dispatch
  <2>2. synced' = (e = "NOTIFY_SYNC" \/ (synced /\ ~AllIdle))
        BY <1>2 DEF Start
  <2>3. ASSUME NEW d \in Chains, event'[d] = "NOTIFY_SYNC"
        PROVE  synced'
    <3>1. CASE d = c
          BY <2>1, <2>2, <2>3, <3>1
    <3>2. CASE d # c
      <4>1. event[d] = "NOTIFY_SYNC"
            BY <2>1, <2>3, <3>2
      <4>2. pc[d] # "idle"
            BY <4>1 DEF Scripted
      <4> QED BY <2>2, <4>1, <4>2 DEF SyncNoted, AllIdle
    <3> QED BY <3>1, <3>2
  <2> QED BY <2>3 DEF SyncNoted
<1>3. ASSUME NEW c \in Chains, LockStep(c), UNCHANGED synced
      PROVE  SyncNoted'
      BY <1>3 DEF LockStep, TryLock, LockBusy, LockTimeout, TouchFlag, TestFlag, RemoveFlag, Release,
                  Exit, SyncNoted
<1>4. ASSUME NEW c \in Chains, Effect(c)
      PROVE  UNCHANGED <<event, synced>>
      BY <1>4 DEF Effect, Enable, Disable, Teardown, RestoreHotspot, Restore, SwitchOn, SwitchOff,
                  CronRead, CronWrite, lockVars
<1> QED BY <1>1, <1>2, <1>3, <1>4
        DEF Next, Progress, Transition, Sync, ReachUnlock, EndBody, SetTimeout, nodeVars, vars

-----------------------------------------------------------------------------
(* Turns.                                                                    *)

(* Every chain has had its turn in order so far. *)
Orderly == ~overrun /\ ~late

NewestKnown ==
    Orderly =>
        /\ newest # NoChain =>
              pc[newest] = "lock" /\ vrrp # "INIT" /\ event[newest] = EventOf[vrrp]
        /\ newest = NoChain =>
              \A c \in Chains : Inside(c) => vrrp # "INIT" /\ event[c] = EventOf[vrrp]

(* The chain that gets the lock in order is that of the last transition. *)
LEMMA NewestKnownStep ==
    ASSUME LockIInv, NodeType, Scripted, NewestKnown, [Next]_vars
    PROVE  NewestKnown'
<1> USE NoChainAssumption
<1>1. pc \in [Chains -> Locations] /\ event \in [Chains -> Events \cup {"none"}]
      BY DEF LockIInv, TypeIInv, LockTypeOK
<1>2. ASSUME UNCHANGED <<event, turns, vrrp>>, overrun' \/ UNCHANGED overrun,
             \A d \in Chains : (pc[d] = "lock" => pc'[d] = "lock") /\ (Inside(d)' => Inside(d))
      PROVE  NewestKnown'
      BY <1>2 DEF NewestKnown, Orderly, turns, NodeType
<1>3. ASSUME NEW c \in Chains, NEW s \in VrrpStates, Transition(c, s)
      PROVE  NewestKnown'
  <2>1. s \in VrrpStates \ {"INIT"}
        BY <1>3, SuccessorsType DEF Transition, NodeType
  <2>2. EventOf[s] \in LockedEvents
        BY <2>1, ScriptOfEvent
  <2>3. Dispatch(c, EventOf[s]) /\ vrrp' = s /\ newest' = c
        BY <1>3 DEF Transition, Start
  <2>4. overrun' \/ (pc'[c] = "lock" /\ event'[c] = EventOf[s])
        BY <1>1, <2>2, <2>3 DEF Dispatch
  <2> QED BY <2>1, <2>3, <2>4 DEF NewestKnown, Orderly
<1>4. ASSUME NEW c \in Chains, Sync(c)
      PROVE  NewestKnown'
  <2>1. Dispatch(c, "NOTIFY_SYNC") /\ UNCHANGED <<turns, vrrp>> /\ "NOTIFY_SYNC" \notin LockedEvents
        BY <1>4 DEF Sync, Start, LockedEvents
  <2>2. overrun \in BOOLEAN
        BY DEF LockIInv, TypeIInv, LockTypeOK
  <2>3. /\ pc[c] = "idle" /\ pc' = [pc EXCEPT ![c] = "body"] /\ UNCHANGED overrun
        /\ event' = [event EXCEPT ![c] = "NOTIFY_SYNC"] /\ UNCHANGED <<turns, vrrp>>
        BY <2>1, <2>2 DEF Dispatch
  <2>4. \A d \in Chains \ {c} : pc'[d] = pc[d] /\ event'[d] = event[d] /\ Inside(d)' = Inside(d)
        BY <1>1, <2>3 DEF Inside
  <2>5. ~Inside(c)'
        BY <1>1, <2>3 DEF Inside, LockedEvents
  <2> QED BY <1>1, <2>3, <2>4, <2>5 DEF NewestKnown, Orderly, turns, NodeType
<1>5. ASSUME NEW c \in Chains, Effect(c), TakeTurn(c)
      PROVE  NewestKnown'
  <2>1. UNCHANGED lockVars /\ pc[c] = "body"
        BY <1>5, EffectMay
  <2>2. UNCHANGED vrrp
        BY <1>5 DEF Effect, Enable, Disable, Teardown, RestoreHotspot, Restore, SwitchOn, SwitchOff,
                    CronRead, CronWrite
  <2>3. UNCHANGED turns
        BY <1>5, <2>1 DEF TakeTurn
  <2> QED BY <1>2, <2>1, <2>2, <2>3 DEF lockVars, Inside
<1>6. ASSUME NEW c \in Chains, ReachUnlock(c), TakeTurn(c)
      PROVE  NewestKnown'
  <2>1. /\ pc[c] = "body" /\ pc' = [pc EXCEPT ![c] = "unlock"]
        /\ UNCHANGED <<event, overrun, vrrp, turns>>
        BY <1>6 DEF ReachUnlock, EndBody, nodeVars, TakeTurn
  <2>2. \A d \in Chains : (pc[d] = "lock" => pc'[d] = "lock") /\ (Inside(d)' => Inside(d))
        BY <1>1, <2>1 DEF Inside
  <2> QED BY <1>2, <2>1, <2>2
<1>7. ASSUME NEW c \in Chains, LockStep(c), UNCHANGED nodeVars, TakeTurn(c)
      PROVE  NewestKnown'
  <2>1. CASE LockTimeout(c)
        BY <2>1 DEF LockTimeout, NewestKnown, Orderly
  <2>2. CASE TryLock(c)
    <3>1. /\ holder = NoChain /\ pc[c] = "lock" /\ pc' = [pc EXCEPT ![c] = "touch"]
          /\ UNCHANGED <<event, overrun, vrrp>>
          BY <1>7, <2>2 DEF TryLock, nodeVars
    <3>2. /\ newest' = (IF c = newest THEN NoChain ELSE newest)
          /\ late' = (late \/ newest = NoChain)
          BY <1>1, <1>7, <3>1 DEF TakeTurn
    <3>3. \A d \in Chains \ {c} : pc'[d] = pc[d] /\ Inside(d)' = Inside(d)
          BY <1>1, <3>1 DEF Inside
    <3>4. SUFFICES ASSUME Orderly'
                   PROVE  NewestKnown'
          BY DEF NewestKnown
    <3>5. Orderly /\ newest # NoChain
          BY <3>1, <3>2, <3>4 DEF Orderly
    <3>6. \A d \in Chains : ~Inside(d)
          BY <3>1, <3>5 DEF LockIInv, Owned, Orderly
    <3> QED BY <3>1, <3>2, <3>3, <3>5, <3>6 DEF NewestKnown, NodeType
  <2>3. CASE LockBusy(c) \/ TouchFlag(c) \/ TestFlag(c) \/ RemoveFlag(c) \/ Release(c)
    <3>1. UNCHANGED <<overrun, turns, vrrp>>
          BY <1>1, <1>7, <2>3 DEF LockBusy, TouchFlag, TestFlag, RemoveFlag, Release, TakeTurn, nodeVars
    <3>2. \A d \in Chains : pc[d] = "lock" => pc'[d] = "lock"
          BY <1>1, <2>3 DEF LockBusy, TouchFlag, TestFlag, RemoveFlag, Release, Exit
    <3>3. \A d \in Chains : Inside(d)' => Inside(d) /\ event'[d] = event[d]
          BY <1>1, <2>3 DEF LockBusy, TouchFlag, TestFlag, RemoveFlag, Release, Exit, Inside, LockedEvents
    <3>4. \A d \in Chains : pc[d] = "lock" => event'[d] = event[d]
          BY <1>1, <2>3 DEF LockBusy, TouchFlag, TestFlag, RemoveFlag, Release, Exit
    <3> QED BY <3>1, <3>2, <3>3, <3>4 DEF NewestKnown, Orderly, turns, NodeType
  <2> QED BY <1>7, <2>1, <2>2, <2>3 DEF LockStep
<1>8. ASSUME NEW t \in Timeouts, SetTimeout(t), UNCHANGED <<nodeVars, turns>>
      PROVE  NewestKnown'
  <2>1. UNCHANGED <<pc, event, overrun, vrrp, turns>>
        BY <1>8 DEF SetTimeout, nodeVars
  <2> QED BY <1>2, <2>1 DEF Inside
<1>9. CASE UNCHANGED vars
  <2>1. UNCHANGED <<pc, event, overrun, vrrp, turns>>
        BY <1>9 DEF vars, turns
  <2> QED BY <1>2, <2>1 DEF Inside
<1> QED BY <1>3, <1>4, <1>5, <1>6, <1>7, <1>8, <1>9 DEF Next, Progress

-----------------------------------------------------------------------------
(* What is not as the state asks is still to be done.                        *)

MasterDoing(s) ==
    /\ \A x \in Things :
          \/ x \in on
          \/ x = "dnsmasq" /\ synced
          \/ <<"on", x>> \in Elems(s)
          \/ x \in Interfaces /\ <<"enable", "ha">> \in Elems(s)
    /\ synced \/ \A j \in Jobs : j \in cron \/ <<"cron_on", j>> \in Elems(s)

BackupDoing(s) ==
    /\ role = "backup" =>
          \A x \in Things :
              \/ x \notin on
              \/ <<"off", x>> \in Elems(s)
              \/ x \in Interfaces /\ <<"disable", "ha">> \in Elems(s)
    /\ synced \/ \A j \in Jobs : j \notin cron \/ <<"cron_off", j>> \in Elems(s)

(* ns-ha-disable --force comes to the hotspot after the interfaces.          *)
HotspotAfter(s) ==
    \A i, j \in 1..Len(s) :
        s[i] = <<"hotspot", "ha">> /\ s[j] \in {"off"} \X Interfaces => j < i

DownDoing(s) ==
    \/ s = DownScript
    \/ /\ "dnsmasq" \notin on
       /\ \/ s = << <<"teardown", "ha">> >>
          \/ /\ <<"teardown", "ha">> \notin Elems(s)
             /\ HotspotAfter(s)
             /\ \A x \in Interfaces : x \notin on \/ <<"off", x>> \in Elems(s)
             /\ hotspot \/ "services" \notin on \/ <<"off", "services">> \in Elems(s)

Doing(s) ==
    /\ vrrp = "MASTER" => MasterDoing(s)
    /\ vrrp = "BACKUP" => BackupDoing(s)
    /\ vrrp \in {"FAULT", "STOPPED"} => DownDoing(s)

(* An edited crontab is installed right after it was read.                    *)
CronFresh(s, t) ==
    \A i \in 1..Len(s) :
        s[i][1] \in {"cron_on", "cron_off"} =>
            IF i = 1 THEN t = cron ELSE s[i - 1] = <<"cron_read", "ha">>

Settling ==
    Orderly /\ newest = NoChain =>
        /\ \A c \in Chains : Inside(c) => Doing(todo[c]) /\ (synced \/ CronFresh(todo[c], tab[c]))
        /\ (\A c \in Chains : ~Inside(c)) => Doing(<<>>)

NodeIInv == NodeType /\ Scripted /\ SyncNoted /\ NewestKnown /\ Settling

(* What a chain of NOTIFY_SYNC does takes nothing away from what is promised. *)
LEMMA DoingStays ==
    ASSUME NEW s, Doing(s), UNCHANGED <<role, hotspot, vrrp>>,
           on' \subseteq on, on \ on' \subseteq {"dnsmasq"}, synced => synced',
           (UNCHANGED on) \/ synced', (UNCHANGED cron) \/ synced'
    PROVE  Doing(s)'
<1>1. vrrp = "MASTER" => MasterDoing(s)'
      BY DEF Doing, MasterDoing
<1>2. vrrp = "BACKUP" => BackupDoing(s)'
      BY DEF Doing, BackupDoing
<1>3. vrrp \in {"FAULT", "STOPPED"} => DownDoing(s)'
      BY DEF Doing, DownDoing
<1> QED BY <1>1, <1>2, <1>3 DEF Doing

(* A chain that has its whole script before it has promised nothing yet.      *)
LEMMA DoingStart ==
    ASSUME NodeType, vrrp # "INIT"
    PROVE  /\ Doing(Script[EventOf[vrrp]])
           /\ \A t : CronFresh(Script[EventOf[vrrp]], t)
<1>1. Things = {"wan", "vpn", "dnsmasq", "services", "dpi"} /\ Jobs = {"acme", "phonehome"}
      BY DEF Things, Interfaces, Services, Jobs
<1>2. CASE vrrp = "MASTER"
  <2>1. Script[EventOf[vrrp]] = MasterScript
        BY <1>2, ScriptOfEvent DEF VrrpStates
  <2>2. MasterDoing(MasterScript)
        BY <1>1, ElemsOfScripts DEF MasterDoing, Interfaces
  <2>3. \A t : CronFresh(MasterScript, t)
        BY DEF CronFresh, MasterScript
  <2> QED BY <1>2, <2>1, <2>2, <2>3 DEF Doing
<1>3. CASE vrrp = "BACKUP"
  <2>1. Script[EventOf[vrrp]] = BackupScript
        BY <1>3, ScriptOfEvent DEF VrrpStates
  <2>2. BackupDoing(BackupScript)
        BY <1>1, ElemsOfScripts DEF BackupDoing, Interfaces
  <2>3. \A t : CronFresh(BackupScript, t)
        BY DEF CronFresh, BackupScript
  <2> QED BY <1>3, <2>1, <2>2, <2>3 DEF Doing
<1>4. CASE vrrp \in {"FAULT", "STOPPED"}
  <2>1. Script[EventOf[vrrp]] = DownScript
        BY <1>4, ScriptOfEvent DEF VrrpStates
  <2>2. DownDoing(DownScript)
        BY DEF DownDoing
  <2>3. \A t : CronFresh(DownScript, t)
        BY DEF CronFresh, DownScript
  <2> QED BY <1>4, <2>1, <2>2, <2>3 DEF Doing
<1> QED BY <1>2, <1>3, <1>4 DEF NodeType, VrrpStates

(* Where the steps of two scripts come to be, one after the other. *)
LEMMA ConcatAt ==
    ASSUME NEW S, NEW s \in Seq(S), NEW t \in Seq(S)
    PROVE  /\ Len(s) \in Nat /\ Len(t) \in Nat /\ Len(s \o t) = Len(s) + Len(t)
           /\ \A i \in 1..Len(s) + Len(t) : (s \o t)[i] = IF i <= Len(s) THEN s[i] ELSE t[i - Len(s)]
OBVIOUS

(* The rest of a script, after steps that are not of the crontab.             *)
LEMMA FreshRest ==
    ASSUME NEW s \in Seq(Steps), s # <<>>, NEW t, CronFresh(s, t), s[1] # <<"cron_read", "ha">>,
           NEW steps \in Seq(Steps), \A i \in 1..Len(steps) : steps[i][1] \notin {"cron_on", "cron_off"},
           NEW i \in 1..Len(steps \o Tail(s)),
           (steps \o Tail(s))[i][1] \in {"cron_on", "cron_off"}
    PROVE  i # 1 /\ (steps \o Tail(s))[i - 1] = <<"cron_read", "ha">>
<1>1. PICK r : r = Tail(s)
      OBVIOUS
<1>2. /\ r \in Seq(Steps) /\ Len(r) = Len(s) - 1 /\ Len(s) \in Nat
      /\ \A k \in 1..Len(r) : r[k] = s[k + 1]
      BY <1>1, ElemsOfTail
<1>3. PICK L \in Nat : L = Len(steps)
      OBVIOUS
<1>4. PICK q : q = steps \o r
      OBVIOUS
<1>5. /\ Len(q) = L + Len(r) /\ Len(r) \in Nat
      /\ \A k \in 1..L + Len(r) : q[k] = IF k <= L THEN steps[k] ELSE r[k - L]
      BY <1>2, <1>3, <1>4, ConcatAt
<1>6. i \in 1..L + Len(r) /\ q[i][1] \in {"cron_on", "cron_off"}
      BY <1>1, <1>4, <1>5
<1>7. i > L
      BY <1>3, <1>5, <1>6
<1>8. PICK k \in 1..Len(r) : i = L + k
      BY <1>5, <1>6, <1>7
<1>9. q[i] = s[k + 1] /\ k + 1 \in 1..Len(s) /\ k + 1 # 1 /\ (k + 1) - 1 = k
      BY <1>2, <1>5, <1>6, <1>7, <1>8
<1>10. s[k] = <<"cron_read", "ha">>
      BY <1>6, <1>9 DEF CronFresh
<1>11. PICK j \in 1..Len(r) : k = j + 1
  <2>1. k # 1
        BY <1>10
  <2>2. k - 1 \in 1..Len(r) /\ k = (k - 1) + 1
        BY <1>5, <1>8, <2>1
  <2> QED BY <2>2
<1>12. i - 1 = L + j /\ i # 1 /\ L + j \in 1..L + Len(r) /\ ~(L + j <= L) /\ (L + j) - L = j
      BY <1>5, <1>8, <1>11
<1>13. q[i - 1] = r[j] /\ r[j] = s[k]
      BY <1>2, <1>5, <1>11, <1>12
<1> QED BY <1>1, <1>4, <1>10, <1>12, <1>13

(* The first step of a chain and the rest, as sequences.                     *)
LEMMA StepParts ==
    ASSUME NodeType, NEW c \in Chains, NEW op, NEW x, NextUp(c, op, x),
           NEW steps \in Seq(Steps), Then(c, steps), NEW s, s = todo[c], NEW q, q = todo'[c]
    PROVE  /\ s \in Seq(Steps) /\ s # <<>> /\ s[1] = <<op, x>>
           /\ q = steps \o Tail(s) /\ Tail(s) \in Seq(Steps)
           /\ Elems(q) = Elems(steps) \cup Elems(Tail(s))
           /\ Elems(s) = {<<op, x>>} \cup Elems(Tail(s))
<1>1. s \in Seq(Steps) /\ s # <<>> /\ Head(s) = <<op, x>>
      BY DEF NextUp, NodeType
<1>2. PICK r : r = Tail(s)
      OBVIOUS
<1>3. /\ r \in Seq(Steps) /\ Elems(s) = {<<op, x>>} \cup Elems(r) /\ s[1] = <<op, x>>
      BY <1>1, <1>2, ElemsOfTail
<1>4. q = steps \o r
      BY <1>2 DEF Then, NodeType
<1>5. Elems(q) = Elems(steps) \cup Elems(r)
      BY <1>3, <1>4, ElemsOfConcat
<1> QED BY <1>1, <1>2, <1>3, <1>4, <1>5

(* A step that is next is one of those that are left.                        *)
LEMMA NextUpLeft ==
    ASSUME NodeType, NEW c \in Chains, NEW op, NEW x, NextUp(c, op, x)
    PROVE  <<op, x>> \in Elems(todo[c])
<1>1. todo[c] \in Seq(Steps) /\ todo[c] # <<>> /\ Head(todo[c]) = <<op, x>>
      BY DEF NextUp, NodeType
<1> QED BY <1>1, ElemsOfTail

(* The crontab of a chain stays fresh past a step that is not its listing.    *)
LEMMA FreshStays ==
    ASSUME NodeType, NEW c \in Chains, NEW op, NEW x, NextUp(c, op, x), op # "cron_read",
           NEW steps \in {<<>>, IfUps, IfDowns}, Then(c, steps),
           NEW s, s = todo[c], NEW q, q = todo'[c], NEW t, CronFresh(s, t), NEW u
    PROVE  CronFresh(q, u)'
<1>1. steps \in Seq(Steps)
  <2>1. <<>> \in Seq(Steps)
        OBVIOUS
  <2> QED BY <2>1, ScriptTypes
<1>2. PICK r : r = Tail(s)
      OBVIOUS
<1>3. s \in Seq(Steps) /\ s # <<>> /\ Head(s) = <<op, x>> /\ q = steps \o r
      BY <1>2 DEF NextUp, NodeType, Then
<1>4. s[1] # <<"cron_read", "ha">>
      BY <1>3
<1>5. \A i \in 1..Len(steps) : steps[i][1] \notin {"cron_on", "cron_off"}
      BY DEF IfUps, IfDowns
<1>6. \A i \in 1..Len(q) : q[i][1] \in {"cron_on", "cron_off"} => i # 1 /\ q[i - 1] = <<"cron_read", "ha">>
  <2> SUFFICES ASSUME NEW i \in 1..Len(q), q[i][1] \in {"cron_on", "cron_off"}
               PROVE  i # 1 /\ q[i - 1] = <<"cron_read", "ha">>
      OBVIOUS
  <2>1. q = steps \o Tail(s)
        BY <1>2, <1>3
  <2>2. i \in 1..Len(steps \o Tail(s)) /\ (steps \o Tail(s))[i][1] \in {"cron_on", "cron_off"}
        BY <2>1
  <2>3. i # 1 /\ (steps \o Tail(s))[i - 1] = <<"cron_read", "ha">>
        BY <1>1, <1>3, <1>4, <1>5, <2>2, FreshRest
  <2> QED BY <2>1, <2>3
<1> QED BY <1>6 DEF CronFresh

(* What is edited is what was listed just before.                            *)
LEMMA FreshRead ==
    ASSUME NodeType, NEW c \in Chains, CronRead(c),
           NEW s, s = todo[c], NEW q, q = todo'[c], NEW t, CronFresh(s, t), NEW u, u = tab'[c]
    PROVE  CronFresh(q, u)'
<1>1. s \in Seq(Steps) /\ s # <<>> /\ q = Tail(s) /\ u = cron' /\ UNCHANGED cron
      BY ThenRest DEF CronRead, NodeType, NextUp
<1>2. /\ q \in Seq(Steps) /\ Len(q) = Len(s) - 1 /\ Len(s) \in Nat
      /\ \A k \in 1..Len(q) : q[k] = s[k + 1]
      BY <1>1, ElemsOfTail
<1>3. ASSUME NEW i \in 1..Len(q), q[i][1] \in {"cron_on", "cron_off"}, i # 1
      PROVE  q[i - 1] = <<"cron_read", "ha">>
  <2>1. i + 1 \in 1..Len(s) /\ i + 1 # 1 /\ (i + 1) - 1 = i /\ i - 1 \in 1..Len(q) /\ (i - 1) + 1 = i
        BY <1>2, <1>3
  <2>2. s[i + 1][1] \in {"cron_on", "cron_off"}
        BY <1>2, <1>3
  <2>3. s[i] = <<"cron_read", "ha">>
        BY <2>1, <2>2 DEF CronFresh
  <2> QED BY <1>2, <2>1, <2>3
<1> QED BY <1>1, <1>3 DEF CronFresh

(* Then nothing that others wrote into the crontab is lost.                  *)
LEMMA FreshWrite ==
    ASSUME NodeType, NEW c \in Chains, NEW op \in {"cron_on", "cron_off"}, NEW x, NextUp(c, op, x),
           NEW s, s = todo[c], NEW t, CronFresh(s, t)
    PROVE  t = cron
<1>1. s \in Seq(Steps) /\ s # <<>> /\ s[1] = <<op, x>>
      BY ElemsOfTail DEF NextUp, NodeType
<1>2. 1 \in 1..Len(s) /\ s[1][1] \in {"cron_on", "cron_off"}
      BY <1>1
<1> QED BY <1>2 DEF CronFresh

-----------------------------------------------------------------------------
(* The chain of the last transition and its next step.                       *)

(* Each step of a NOTIFY_MASTER chain on a master node. *)
LEMMA MasterEffect ==
    ASSUME NodeType, NEW c \in Chains, Effect(c), NEW s, s = todo[c], NEW q, q = todo'[c],
           NEW t, t = tab[c], NEW u, u = tab'[c],
           Elems(s) \subseteq May["NOTIFY_MASTER"], vrrp = "MASTER",
           MasterDoing(s), synced \/ CronFresh(s, t)
    PROVE  MasterDoing(q)' /\ (synced' \/ CronFresh(q, u)')
<1> DEFINE R == Elems(Tail(s))
<1>1. <<>> \in Seq(Steps) /\ IfUps \in Seq(Steps) /\ Elems(<<>>) = {}
      BY ScriptTypes, ElemsOfScripts
<1>2. ASSUME NEW op, NEW x, NextUp(c, op, x)
      PROVE  op \notin {"disable", "teardown", "hotspot", "restore", "off", "cron_off"}
  <2>1. <<op, x>> \in May["NOTIFY_MASTER"]
        BY <1>2, NextUpLeft
  <2> QED BY <2>1, MayTells DEF LockedEvents
<1>3. ASSUME NEW op, NEW x, NextUp(c, op, x), NEW steps \in Seq(Steps), Then(c, steps)
      PROVE  Elems(q) = Elems(steps) \cup R /\ Elems(s) = {<<op, x>>} \cup R
      BY <1>3, StepParts
<1> HIDE DEF R
<1>4. CASE Enable(c)
  <2>1. NextUp(c, "enable", "ha") /\ Then(c, IfUps) /\ UNCHANGED <<on, cron, synced>>
        BY <1>4 DEF Enable
  <2>2. Elems(q) = {<<"on", "wan">>, <<"on", "vpn">>} \cup R /\ Elems(s) = {<<"enable", "ha">>} \cup R
        BY <1>1, <1>3, <2>1, ElemsOfScripts
  <2>3. MasterDoing(q)'
        BY <2>1, <2>2 DEF MasterDoing, Interfaces
  <2>4. synced' \/ CronFresh(q, u)'
        BY <2>1, FreshStays
  <2> QED BY <2>3, <2>4
<1>5. ASSUME NEW x \in Things, SwitchOn(c, x)
      PROVE  MasterDoing(q)' /\ (synced' \/ CronFresh(q, u)')
  <2>1. NextUp(c, "on", x) /\ Then(c, <<>>) /\ UNCHANGED <<cron, synced>> /\ on' = on \cup {x}
        BY <1>5 DEF SwitchOn
  <2>2. Elems(q) = R /\ Elems(s) = {<<"on", x>>} \cup R
        BY <1>1, <1>3, <2>1
  <2>3. MasterDoing(q)'
        BY <2>1, <2>2 DEF MasterDoing
  <2>4. synced' \/ CronFresh(q, u)'
        BY <2>1, FreshStays
  <2> QED BY <2>3, <2>4
<1>6. CASE CronRead(c)
  <2>1. NextUp(c, "cron_read", "ha") /\ Then(c, <<>>) /\ UNCHANGED <<on, cron, synced>>
        BY <1>6 DEF CronRead
  <2>2. Elems(q) = R /\ Elems(s) = {<<"cron_read", "ha">>} \cup R
        BY <1>1, <1>3, <2>1
  <2>3. MasterDoing(q)'
        BY <2>1, <2>2 DEF MasterDoing
  <2>4. synced' \/ CronFresh(q, u)'
        BY <1>6, <2>1, FreshRead
  <2> QED BY <2>3, <2>4
<1>7. ASSUME NEW j \in Jobs, CronWrite(c, j)
      PROVE  MasterDoing(q)' /\ (synced' \/ CronFresh(q, u)')
  <2>1. NextUp(c, "cron_on", j) /\ Then(c, <<>>) /\ UNCHANGED <<on, synced>> /\ cron' = t \cup {j}
        BY <1>2, <1>7 DEF CronWrite
  <2>2. Elems(q) = R /\ Elems(s) = {<<"cron_on", j>>} \cup R
        BY <1>1, <1>3, <2>1
  <2>3. synced \/ t = cron
        BY <2>1, FreshWrite
  <2>4. MasterDoing(q)'
        BY <2>1, <2>2, <2>3 DEF MasterDoing
  <2>5. synced' \/ CronFresh(q, u)'
        BY <2>1, FreshStays
  <2> QED BY <2>4, <2>5
<1> QED BY <1>2, <1>4, <1>5, <1>6, <1>7
        DEF Effect, Disable, Teardown, RestoreHotspot, Restore, SwitchOff

(* Each step of a NOTIFY_BACKUP chain on a node in BACKUP state. *)
LEMMA BackupEffect ==
    ASSUME NodeType, NEW c \in Chains, Effect(c), NEW s, s = todo[c], NEW q, q = todo'[c],
           NEW t, t = tab[c], NEW u, u = tab'[c],
           Elems(s) \subseteq May["NOTIFY_BACKUP"], vrrp = "BACKUP",
           BackupDoing(s), synced \/ CronFresh(s, t)
    PROVE  BackupDoing(q)' /\ (synced' \/ CronFresh(q, u)')
<1> DEFINE R == Elems(Tail(s))
<1>1. <<>> \in Seq(Steps) /\ IfDowns \in Seq(Steps) /\ Elems(<<>>) = {}
      BY ScriptTypes, ElemsOfScripts
<1>2. ASSUME NEW op, NEW x, NextUp(c, op, x)
      PROVE  op \notin {"enable", "teardown", "hotspot", "restore", "on", "cron_on"}
  <2>1. <<op, x>> \in May["NOTIFY_BACKUP"]
        BY <1>2, NextUpLeft
  <2> QED BY <2>1, MayTells DEF LockedEvents
<1>3. ASSUME NEW op, NEW x, NextUp(c, op, x), NEW steps \in Seq(Steps), Then(c, steps)
      PROVE  Elems(q) = Elems(steps) \cup R /\ Elems(s) = {<<op, x>>} \cup R
      BY <1>3, StepParts
<1> HIDE DEF R
<1>4. CASE Disable(c)
  <2>1. PICK steps \in {<<>>, IfDowns} :
           /\ NextUp(c, "disable", "ha") /\ Then(c, steps) /\ UNCHANGED <<role, on, cron, synced>>
           /\ steps = IF role = "backup" THEN IfDowns ELSE <<>>
        BY <1>4 DEF Disable
  <2>2. Elems(q) = Elems(steps) \cup R /\ Elems(s) = {<<"disable", "ha">>} \cup R
        BY <1>1, <1>3, <2>1
  <2>3. role = "backup" => {<<"off", "vpn">>, <<"off", "wan">>} \subseteq Elems(q)
        BY <2>1, <2>2, ElemsOfScripts
  <2>4. BackupDoing(q)'
        BY <2>1, <2>2, <2>3 DEF BackupDoing, Interfaces
  <2>5. synced' \/ CronFresh(q, u)'
        BY <2>1, FreshStays
  <2> QED BY <2>4, <2>5
<1>5. ASSUME NEW x \in Things, SwitchOff(c, x)
      PROVE  BackupDoing(q)' /\ (synced' \/ CronFresh(q, u)')
  <2>1. NextUp(c, "off", x) /\ Then(c, <<>>) /\ UNCHANGED <<role, cron, synced>> /\ on' = on \ {x}
        BY <1>5 DEF SwitchOff
  <2>2. Elems(q) = R /\ Elems(s) = {<<"off", x>>} \cup R
        BY <1>1, <1>3, <2>1
  <2>3. BackupDoing(q)'
        BY <2>1, <2>2 DEF BackupDoing
  <2>4. synced' \/ CronFresh(q, u)'
        BY <2>1, FreshStays
  <2> QED BY <2>3, <2>4
<1>6. CASE CronRead(c)
  <2>1. NextUp(c, "cron_read", "ha") /\ Then(c, <<>>) /\ UNCHANGED <<role, on, cron, synced>>
        BY <1>6 DEF CronRead
  <2>2. Elems(q) = R /\ Elems(s) = {<<"cron_read", "ha">>} \cup R
        BY <1>1, <1>3, <2>1
  <2>3. BackupDoing(q)'
        BY <2>1, <2>2 DEF BackupDoing
  <2>4. synced' \/ CronFresh(q, u)'
        BY <1>6, <2>1, FreshRead
  <2> QED BY <2>3, <2>4
<1>7. ASSUME NEW j \in Jobs, CronWrite(c, j)
      PROVE  BackupDoing(q)' /\ (synced' \/ CronFresh(q, u)')
  <2>1. NextUp(c, "cron_off", j) /\ Then(c, <<>>) /\ UNCHANGED <<role, on, synced>> /\ cron' = t \ {j}
        BY <1>2, <1>7 DEF CronWrite
  <2>2. Elems(q) = R /\ Elems(s) = {<<"cron_off", j>>} \cup R
        BY <1>1, <1>3, <2>1
  <2>3. synced \/ t = cron
        BY <2>1, FreshWrite
  <2>4. BackupDoing(q)'
        BY <2>1, <2>2, <2>3 DEF BackupDoing
  <2>5. synced' \/ CronFresh(q, u)'
        BY <2>1, FreshStays
  <2> QED BY <2>4, <2>5
<1> QED BY <1>2, <1>4, <1>5, <1>6, <1>7
        DEF Effect, Enable, Teardown, RestoreHotspot, Restore, SwitchOn

(* The order of hotspot and interfaces stays in the rest of a script. *)
LEMMA HotspotAfterTail ==
    ASSUME NEW s \in Seq(Steps), s # <<>>, HotspotAfter(s)
    PROVE  HotspotAfter(Tail(s))
<1>1. PICK r : r = Tail(s)
      OBVIOUS
<1>2. /\ Len(r) = Len(s) - 1 /\ Len(s) \in Nat
      /\ \A k \in 1..Len(r) : r[k] = s[k + 1]
      BY <1>1, ElemsOfTail
<1>3. ASSUME NEW i \in 1..Len(r), NEW j \in 1..Len(r),
             r[i] = <<"hotspot", "ha">>, r[j] \in {"off"} \X Interfaces
      PROVE  j < i
  <2>1. i + 1 \in 1..Len(s) /\ j + 1 \in 1..Len(s)
        BY <1>2
  <2>2. j + 1 < i + 1
        BY <1>2, <1>3, <2>1 DEF HotspotAfter
  <2> QED BY <2>2
<1>4. HotspotAfter(r)
      BY <1>3 DEF HotspotAfter
<1> QED BY <1>1, <1>4

(* Each step of a chain of NOTIFY_FAULT or NOTIFY_STOP. *)
LEMMA DownEffect ==
    ASSUME NodeType, NEW c \in Chains, Effect(c), NEW s, s = todo[c], NEW q, q = todo'[c],
           Elems(s) \subseteq May["NOTIFY_FAULT"] \cup May["NOTIFY_STOP"], DownDoing(s)
    PROVE  DownDoing(q)'
<1>1. PICK r : r = Tail(s)
      OBVIOUS
<1>2. <<>> \in Seq(Steps) /\ TeardownSteps \in Seq(Steps) /\ Elems(<<>>) = {}
      BY ScriptTypes, ElemsOfScripts
<1>3. ASSUME NEW op, NEW x, NextUp(c, op, x)
      PROVE  op \in {"teardown", "hotspot", "off"}
  <2>1. <<op, x>> \in May["NOTIFY_FAULT"] \/ <<op, x>> \in May["NOTIFY_STOP"]
        BY <1>3, NextUpLeft
  <2> QED BY <2>1 DEF May
<1>4. ASSUME NEW op, NEW x, NextUp(c, op, x)
      PROVE  /\ s \in Seq(Steps) /\ s # <<>> /\ s[1] = <<op, x>> /\ 1 \in 1..Len(s)
             /\ r \in Seq(Steps) /\ Elems(s) = {<<op, x>>} \cup Elems(r)
  <2>1. s \in Seq(Steps) /\ s # <<>> /\ Head(s) = <<op, x>>
        BY <1>4 DEF NextUp, NodeType
  <2>2. /\ r \in Seq(Steps) /\ Elems(s) = {<<op, x>>} \cup Elems(r) /\ s[1] = <<op, x>>
        BY <1>1, <2>1, ElemsOfTail
  <2> QED BY <2>1, <2>2
(* The script down to the teardown, and what that turns into.                *)
<1>5. CASE s = DownScript
  <2>1. s[1] = <<"off", "dnsmasq">> /\ r = << <<"teardown", "ha">> >>
        BY <1>1, <1>5 DEF DownScript
  <2>2. PICK x \in Things : NextUp(c, "off", x) /\ SwitchOff(c, x)
    <3>1. ASSUME NEW op, NEW x, NextUp(c, op, x)
          PROVE  op = "off"
          BY <1>4, <2>1, <3>1
    <3> QED BY <1>3, <3>1 DEF Effect, Enable, Disable, Teardown, RestoreHotspot, Restore, CronRead,
                              CronWrite, SwitchOn, SwitchOff
  <2>3. x = "dnsmasq"
        BY <1>4, <2>1, <2>2
  <2>4. q = r /\ on' = on \ {x}
        BY <1>1, <2>2, ThenRest DEF SwitchOff
  <2> QED BY <2>1, <2>3, <2>4 DEF DownDoing
<1>6. CASE s = << <<"teardown", "ha">> >>
  <2>1. s[1] = <<"teardown", "ha">> /\ r = <<>>
        BY <1>1, <1>6
  <2>2. Teardown(c)
    <3>1. ASSUME NEW op, NEW x, NextUp(c, op, x)
          PROVE  op = "teardown"
          BY <1>4, <2>1, <3>1
    <3> QED BY <3>1 DEF Effect, Enable, Disable, RestoreHotspot, Restore, CronRead,
                        CronWrite, SwitchOn, SwitchOff
  <2>3. q = TeardownSteps \o r /\ UNCHANGED <<on, hotspot>>
        BY <1>1, <2>2 DEF Teardown, Then, NodeType
  <2>4. q = TeardownSteps
        BY <1>2, <2>1, <2>3
  <2>5. HotspotAfter(TeardownSteps)
        BY DEF HotspotAfter, TeardownSteps, Interfaces
  <2>6. Elems(q) = {<<"off", "vpn">>, <<"off", "wan">>, <<"hotspot", "ha">>,
                    <<"off", "dnsmasq">>, <<"off", "services">>}
        BY <2>4, ElemsOfScripts
  <2>7. "dnsmasq" \notin on
        BY <1>6 DEF DownDoing, DownScript
  <2> QED BY <2>3, <2>4, <2>5, <2>6, <2>7 DEF DownDoing, Interfaces
<1>7. CASE s # DownScript /\ s # << <<"teardown", "ha">> >>
  <2>1. /\ "dnsmasq" \notin on
        /\ <<"teardown", "ha">> \notin Elems(s) /\ HotspotAfter(s)
        /\ \A x \in Interfaces : x \notin on \/ <<"off", x>> \in Elems(s)
        /\ hotspot \/ "services" \notin on \/ <<"off", "services">> \in Elems(s)
        BY <1>7 DEF DownDoing
  <2>2. ~NextUp(c, "teardown", "ha")
        BY <1>4, <2>1
  <2>3. CASE RestoreHotspot(c)
    <3>1. NextUp(c, "hotspot", "ha") /\ UNCHANGED <<on, hotspot>> /\ q = IF hotspot THEN <<>> ELSE r
          BY <1>1, <2>3 DEF RestoreHotspot, NodeType
    <3>2. \A x \in Interfaces : <<"off", x>> \notin Elems(s)
      <4>1. ASSUME NEW x \in Interfaces, NEW j \in 1..Len(s), s[j] = <<"off", x>>
            PROVE  FALSE
            BY <1>4, <2>1, <3>1, <4>1 DEF HotspotAfter
      <4> QED BY <4>1 DEF Elems
    <3>3. HotspotAfter(<<>>)
          BY DEF HotspotAfter
    <3>4. CASE hotspot
          BY <1>2, <2>1, <3>1, <3>2, <3>3, <3>4 DEF DownDoing
    <3>5. CASE ~hotspot
      <4>1. q = r /\ HotspotAfter(r)
            BY <1>1, <1>4, <2>1, <3>1, <3>5, HotspotAfterTail
      <4> QED BY <1>4, <2>1, <3>1, <3>5, <4>1 DEF DownDoing
    <3> QED BY <3>4, <3>5
  <2>4. ASSUME NEW x \in Things, SwitchOff(c, x)
        PROVE  DownDoing(q)'
    <3>1. NextUp(c, "off", x) /\ UNCHANGED hotspot /\ on' = on \ {x} /\ q = r
          BY <1>1, <2>4, ThenRest DEF SwitchOff
    <3>2. HotspotAfter(r)
          BY <1>1, <1>4, <2>1, <3>1, HotspotAfterTail
    <3> QED BY <1>4, <2>1, <3>1, <3>2 DEF DownDoing
  <2> QED BY <1>3, <2>2, <2>3, <2>4
          DEF Effect, Enable, Disable, Teardown, Restore, CronRead, CronWrite, SwitchOn
<1> QED BY <1>5, <1>6, <1>7

(* Every step of the chain of the last transition brings its node closer to  *)
(* what that asks for, and edits the crontab it has just listed.             *)
LEMMA DoingEffect ==
    ASSUME NodeType, Scripted, NEW c \in Chains, Effect(c), vrrp # "INIT", event[c] = EventOf[vrrp],
           NEW s, s = todo[c], NEW q, q = todo'[c], NEW t, t = tab[c], NEW u, u = tab'[c],
           Doing(s), synced \/ CronFresh(s, t)
    PROVE  Doing(q)' /\ (synced' \/ CronFresh(q, u)')
<1>1. UNCHANGED vrrp /\ vrrp \in VrrpStates \ {"INIT"}
      BY DEF Effect, Enable, Disable, Teardown, RestoreHotspot, Restore, SwitchOn, SwitchOff,
             CronRead, CronWrite, NodeType
<1>2. Elems(s) \subseteq May[EventOf[vrrp]] /\ Elems(q) \subseteq May[EventOf[vrrp]]
      BY EffectMay DEF Scripted
<1>3. CASE vrrp = "MASTER"
  <2>1. Elems(s) \subseteq May["NOTIFY_MASTER"]
        BY <1>2, <1>3 DEF EventOf
  <2>2. MasterDoing(q)' /\ (synced' \/ CronFresh(q, u)')
        BY <1>3, <2>1, MasterEffect DEF Doing
  <2> QED BY <1>1, <1>3, <2>2 DEF Doing
<1>4. CASE vrrp = "BACKUP"
  <2>1. Elems(s) \subseteq May["NOTIFY_BACKUP"]
        BY <1>2, <1>4 DEF EventOf
  <2>2. BackupDoing(q)' /\ (synced' \/ CronFresh(q, u)')
        BY <1>4, <2>1, BackupEffect DEF Doing
  <2> QED BY <1>1, <1>4, <2>2 DEF Doing
<1>5. CASE vrrp \in {"FAULT", "STOPPED"}
  <2>1. /\ Elems(s) \subseteq May["NOTIFY_FAULT"] \cup May["NOTIFY_STOP"]
        /\ Elems(q) \subseteq May["NOTIFY_FAULT"] \cup May["NOTIFY_STOP"]
        BY <1>2, <1>5 DEF EventOf
  <2>2. DownDoing(q)'
        BY <1>5, <2>1, DownEffect DEF Doing
  <2>3. \A i \in 1..Len(q) : q[i][1] \notin {"cron_on", "cron_off"}
    <3>1. \A i \in 1..Len(q) : q[i] \in May["NOTIFY_FAULT"] \cup May["NOTIFY_STOP"]
          BY <2>1 DEF Elems
    <3> QED BY <3>1 DEF May
  <2>4. CronFresh(q, u)'
        BY <2>3 DEF CronFresh
  <2> QED BY <1>1, <1>5, <2>2, <2>4 DEF Doing
<1> QED BY <1>1, <1>3, <1>4, <1>5 DEF VrrpStates

-----------------------------------------------------------------------------
(* What the settled node is left with.                                       *)

(* What is left to do depends on these variables only. *)
LEMMA DoingSame ==
    ASSUME NEW s, Doing(s), UNCHANGED <<role, hotspot, vrrp, on, cron, synced>>
    PROVE  Doing(s)'
BY DEF Doing, MasterDoing, BackupDoing, DownDoing

(* Until an overrun only one chain of a transition runs its scripts. *)
LEMMA OneInside ==
    ASSUME LockIInv, ~overrun, NEW c \in Chains, Inside(c)
    PROVE  \A d \in Chains \ {c} : ~Inside(d)
BY NoChainAssumption DEF LockIInv, Owned

(* The steps around the scripts change nothing on the node.                  *)
LEMMA SettlingSame ==
    ASSUME Settling, NodeType, UNCHANGED <<turns, overrun, role, hotspot, vrrp, on, cron, synced, tab, todo>>,
           \A d \in Chains : Inside(d)' => Inside(d),
           \A d \in Chains : Inside(d) => Inside(d)' \/ todo[d] = <<>>
    PROVE  Settling'
<1> SUFFICES ASSUME Orderly, newest = NoChain
             PROVE  /\ \A c \in Chains : Inside(c)' => Doing(todo[c])' /\ (synced' \/ CronFresh(todo[c], tab[c])')
                    /\ (\A c \in Chains : ~Inside(c)') => Doing(<<>>)'
    BY DEF Settling, Orderly, turns
<1>1. /\ \A c \in Chains : Inside(c) => Doing(todo[c]) /\ (synced \/ CronFresh(todo[c], tab[c]))
      /\ (\A c \in Chains : ~Inside(c)) => Doing(<<>>)
      BY DEF Settling
<1>2. ASSUME NEW c \in Chains, Inside(c)'
      PROVE  Doing(todo[c])' /\ (synced' \/ CronFresh(todo[c], tab[c])')
  <2>1. PICK s : s = todo[c]
        OBVIOUS
  <2>2. Doing(s) /\ (synced \/ CronFresh(s, tab[c]))
        BY <1>1, <1>2, <2>1
  <2>3. Doing(s)'
        BY <2>2, DoingSame
  <2>4. Doing(todo[c])'
        BY <2>1, <2>3
  <2>5. synced' \/ CronFresh(todo[c], tab[c])'
        BY <2>1, <2>2 DEF CronFresh
  <2> QED BY <2>4, <2>5
<1>3. ASSUME \A c \in Chains : ~Inside(c)'
      PROVE  Doing(<<>>)'
  <2>1. Doing(<<>>)
        BY <1>1, <1>3
  <2> QED BY <2>1, DoingSame
<1> QED BY <1>2, <1>3

(* Whatever is not as the state asks stays among the steps that are left. *)
LEMMA SettlingStep ==
    ASSUME LockIInv, NodeType, Scripted, SyncNoted, NewestKnown, Settling, [Next]_vars
    PROVE  Settling'
<1> USE NoChainAssumption
<1>1. pc \in [Chains -> Locations] /\ event \in [Chains -> Events \cup {"none"}] /\ overrun \in BOOLEAN
      BY DEF LockIInv, TypeIInv, LockTypeOK
<1>2. ASSUME NEW c \in Chains, NEW s \in VrrpStates, Transition(c, s)
      PROVE  Settling'
      BY <1>2 DEF Transition, Settling
<1>3. ASSUME NEW c \in Chains, ~Inside(c), ~Inside(c)', synced', synced => synced',
             UNCHANGED <<turns, overrun, role, hotspot, vrrp>>,
             on' \subseteq on, on \ on' \subseteq {"dnsmasq"},
             \A d \in Chains \ {c} : todo'[d] = todo[d] /\ (Inside(d)' <=> Inside(d))
      PROVE  Settling'
  <2> SUFFICES ASSUME Orderly, newest = NoChain
               PROVE  /\ \A d \in Chains : Inside(d)' => Doing(todo[d])'
                      /\ (\A d \in Chains : ~Inside(d)') => Doing(<<>>)'
      BY <1>3 DEF Settling, Orderly, turns
  <2>1. ASSUME NEW s, Doing(s)
        PROVE  Doing(s)'
        BY <1>3, <2>1, DoingStays
  <2>2. ASSUME NEW d \in Chains, Inside(d)'
        PROVE  Doing(todo[d])'
    <3>1. PICK s : s = todo[d]
          OBVIOUS
    <3>2. Doing(s) /\ s = todo'[d]
          BY <1>3, <2>2, <3>1 DEF Settling
    <3>3. Doing(s)'
          BY <2>1, <3>2
    <3> QED BY <3>2, <3>3
  <2>3. ASSUME \A d \in Chains : ~Inside(d)'
        PROVE  Doing(<<>>)'
    <3>1. Doing(<<>>)
          BY <1>3, <2>3 DEF Settling
    <3> QED BY <2>1, <3>1
  <2> QED BY <2>2, <2>3
<1>4. ASSUME NEW c \in Chains, Sync(c)
      PROVE  Settling'
  <2>1. Dispatch(c, "NOTIFY_SYNC") /\ "NOTIFY_SYNC" \notin LockedEvents
        BY <1>4 DEF Sync, Start, LockedEvents
  <2>2. /\ pc[c] = "idle" /\ pc' = [pc EXCEPT ![c] = "body"] /\ UNCHANGED overrun
        /\ event' = [event EXCEPT ![c] = "NOTIFY_SYNC"]
        BY <1>1, <2>1 DEF Dispatch
  <2>3. /\ UNCHANGED <<role, hotspot, vrrp, on, turns>> /\ synced'
        /\ \A d \in Chains \ {c} : todo'[d] = todo[d]
        BY <1>4 DEF Sync, Start, NodeType
  <2>4. ~Inside(c) /\ ~Inside(c)' /\ \A d \in Chains \ {c} : Inside(d)' <=> Inside(d)
        BY <1>1, <2>1, <2>2 DEF Inside
  <2> QED BY <1>3, <2>2, <2>3, <2>4
<1>5. ASSUME NEW c \in Chains, Effect(c), TakeTurn(c)
      PROVE  Settling'
  <2>1. /\ pc[c] = "body" /\ UNCHANGED lockVars
        /\ \A d \in Chains \ {c} : todo'[d] = todo[d]
        BY <1>5, EffectMay
  <2>2. UNCHANGED <<turns, overrun>> /\ \A d \in Chains : Inside(d)' <=> Inside(d)
        BY <1>5, <2>1 DEF TakeTurn, lockVars, Inside
  <2>3. UNCHANGED <<role, hotspot, vrrp, synced>>
        BY <1>5 DEF Effect, Enable, Disable, Teardown, RestoreHotspot, Restore, SwitchOn, SwitchOff,
                    CronRead, CronWrite
  <2>4. CASE event[c] \in LockedEvents
    <3> SUFFICES ASSUME Orderly, newest = NoChain
                 PROVE  /\ \A d \in Chains : Inside(d)' =>
                              Doing(todo[d])' /\ (synced' \/ CronFresh(todo[d], tab[d])')
                        /\ (\A d \in Chains : ~Inside(d)') => Doing(<<>>)'
        BY <2>2 DEF Settling, Orderly, turns
    <3>1. Inside(c) /\ \A d \in Chains \ {c} : ~Inside(d)
          BY <2>1, <2>4, OneInside DEF Inside, Orderly
    <3>2. event[c] = EventOf[vrrp] /\ vrrp # "INIT"
          BY <3>1 DEF NewestKnown
    <3>3. PICK s, q, t, u : s = todo[c] /\ q = todo'[c] /\ t = tab[c] /\ u = tab'[c]
          OBVIOUS
    <3>4. Doing(s) /\ (synced \/ CronFresh(s, t))
          BY <3>1, <3>3 DEF Settling
    <3>5. Doing(q)' /\ (synced' \/ CronFresh(q, u)')
          BY <1>5, <3>2, <3>3, <3>4, DoingEffect
    <3>6. Doing(todo[c])'
          BY <3>3, <3>5
    <3>7. synced' \/ CronFresh(todo[c], tab[c])'
          BY <3>3, <3>5 DEF CronFresh
    <3> QED BY <2>2, <3>1, <3>6, <3>7
  <2>5. CASE event[c] = "NOTIFY_SYNC"
    <3>1. synced /\ ~Inside(c)
          BY <2>5 DEF SyncNoted, Inside, LockedEvents
    <3>2. ASSUME NEW op, NEW x, NextUp(c, op, x)
          PROVE  op \notin {"enable", "on", "disable", "teardown", "hotspot"} /\ (op = "off" => x = "dnsmasq")
      <4>1. <<op, x>> \in May["NOTIFY_SYNC"]
            BY <2>5, <3>2, NextUpLeft DEF Scripted
      <4> QED BY <4>1, MayTells DEF LockedEvents
    <3>3. on' \subseteq on /\ on \ on' \subseteq {"dnsmasq"}
          BY <1>5, <3>2 DEF Effect, Enable, Disable, Teardown, RestoreHotspot, Restore, SwitchOn, SwitchOff,
                    CronRead, CronWrite
    <3> QED BY <1>3, <2>1, <2>2, <2>3, <3>1, <3>3
  <2> QED BY <2>1, <2>4, <2>5 DEF Scripted
<1>6. ASSUME NEW c \in Chains, ReachUnlock(c), TakeTurn(c)
      PROVE  Settling'
  <2>1. /\ pc[c] = "body" /\ pc' = [pc EXCEPT ![c] = "unlock"]
        /\ UNCHANGED <<event, overrun, nodeVars, turns>>
        BY <1>6 DEF ReachUnlock, EndBody, TakeTurn
  <2>2. \A d \in Chains : Inside(d)' <=> Inside(d)
        BY <1>1, <2>1 DEF Inside
  <2> QED BY <2>1, <2>2, SettlingSame DEF nodeVars
<1>7. ASSUME NEW c \in Chains, LockStep(c), UNCHANGED nodeVars, TakeTurn(c)
      PROVE  Settling'
  <2>1. CASE LockTimeout(c)
        BY <2>1 DEF LockTimeout, Settling, Orderly
  <2>2. CASE TryLock(c)
    <3>1. /\ holder = NoChain /\ pc[c] = "lock" /\ pc' = [pc EXCEPT ![c] = "touch"]
          /\ UNCHANGED <<event, overrun, vrrp, todo>>
          BY <1>7, <2>2 DEF TryLock, nodeVars
    <3>2. /\ newest' = (IF c = newest THEN NoChain ELSE newest)
          /\ late' = (late \/ newest = NoChain)
          BY <1>1, <1>7, <3>1 DEF TakeTurn
    <3> SUFFICES ASSUME Orderly', newest' = NoChain
                 PROVE  /\ \A d \in Chains : Inside(d)' =>
                              Doing(todo[d])' /\ (synced' \/ CronFresh(todo[d], tab[d])')
                        /\ (\A d \in Chains : ~Inside(d)') => Doing(<<>>)'
        BY DEF Settling
    <3>3. Orderly /\ c = newest
          BY <3>1, <3>2 DEF Orderly
    <3>4. vrrp # "INIT" /\ event[c] = EventOf[vrrp] /\ vrrp \in VrrpStates
          BY <3>3 DEF NewestKnown, NodeType
    <3>5. event[c] \in LockedEvents
          BY <3>4, ScriptOfEvent
    <3>6. /\ Inside(c)'
          /\ \A d \in Chains \ {c} : ~Inside(d)'
      <4>1. \A d \in Chains : ~Inside(d)
            BY <3>1, <3>3 DEF LockIInv, Owned, Orderly
      <4> QED BY <1>1, <3>1, <3>5, <4>1 DEF Inside
    <3>7. PICK s, t : s = todo[c] /\ t = tab'[c]
          OBVIOUS
    <3>8. s = Script[EventOf[vrrp]] /\ s = todo'[c]
          BY <3>1, <3>4, <3>7 DEF Scripted
    <3>9. Doing(s) /\ CronFresh(s, t)
          BY <3>4, <3>8, DoingStart
    <3>10. Doing(s)'
          BY <1>7, <3>9, DoingSame DEF nodeVars
    <3>11. Doing(todo[c])'
          BY <3>8, <3>10
    <3>12. CronFresh(todo[c], tab[c])'
          BY <1>7, <3>7, <3>8, <3>9 DEF CronFresh, nodeVars
    <3> QED BY <3>6, <3>11, <3>12
  <2>3. CASE LockBusy(c) \/ TouchFlag(c) \/ TestFlag(c) \/ RemoveFlag(c) \/ Release(c)
    <3>1. UNCHANGED <<overrun, turns>>
          BY <1>1, <1>7, <2>3 DEF LockBusy, TouchFlag, TestFlag, RemoveFlag, Release, TakeTurn
    <3>2. \A d \in Chains : Inside(d)' => Inside(d)
          BY <1>1, <2>3 DEF LockBusy, TouchFlag, TestFlag, RemoveFlag, Release, Exit, Inside, LockedEvents
    <3>3. \A d \in Chains : Inside(d) => Inside(d)' \/ todo[d] = <<>>
      <4>1. CASE LockBusy(c) \/ TouchFlag(c) \/ RemoveFlag(c)
            BY <1>1, <4>1 DEF LockBusy, TouchFlag, RemoveFlag, Inside
      <4>2. CASE TestFlag(c) \/ Release(c)
        <5>1. todo[c] = <<>>
              BY <4>2 DEF TestFlag, Release, Scripted
        <5>2. \A d \in Chains \ {c} : pc'[d] = pc[d] /\ event'[d] = event[d]
              BY <1>1, <4>2 DEF TestFlag, Release, Exit
        <5> QED BY <5>1, <5>2 DEF Inside
      <4> QED BY <2>3, <4>1, <4>2
    <3> QED BY <1>7, <3>1, <3>2, <3>3, SettlingSame DEF nodeVars
  <2> QED BY <1>7, <2>1, <2>2, <2>3 DEF LockStep
<1>8. ASSUME NEW t \in Timeouts, SetTimeout(t), UNCHANGED <<nodeVars, turns>>
      PROVE  Settling'
  <2>1. UNCHANGED <<pc, event, overrun>>
        BY <1>8 DEF SetTimeout
  <2> QED BY <1>8, <2>1, SettlingSame DEF Inside, nodeVars
<1>9. CASE UNCHANGED vars
  <2>1. UNCHANGED <<pc, event, overrun, nodeVars, turns>>
        BY <1>9 DEF vars, nodeVars, turns
  <2> QED BY <2>1, SettlingSame DEF Inside, nodeVars
<1> QED BY <1>2, <1>4, <1>5, <1>6, <1>7, <1>8, <1>9 DEF Next, Progress

(* A node that has just booted has nothing to settle. *)
LEMMA NodeIInvInit == Init => NodeIInv
<1> SUFFICES ASSUME Init PROVE NodeIInv
    OBVIOUS
<1>1. vrrp = "INIT" /\ newest = NoChain /\ \A c \in Chains : ~Inside(c)
      BY DEF Init, LockInit, Inside
<1>2. NewestKnown
      BY <1>1 DEF NewestKnown
<1>3. Settling
      BY <1>1 DEF Settling, Doing
<1> QED BY <1>2, <1>3, NodeTypeInit, ScriptedInit DEF NodeIInv

(* The invariant of the node. *)
LEMMA NodeInvariant == Spec => []NodeIInv
<1>1. LockIInv /\ NodeIInv /\ [Next]_vars => NodeIInv'
  <2> SUFFICES ASSUME LockIInv, NodeIInv, [Next]_vars PROVE NodeIInv'
      OBVIOUS
  <2>1. LockTypeOK
        BY DEF LockIInv, TypeIInv
  <2> QED BY <2>1, NodeTypeStep, ScriptedStep, SyncNotedStep, NewestKnownStep, SettlingStep DEF NodeIInv
<1> QED BY <1>1, NodeIInvInit, NodeLockInvariant, PTL DEF Spec

(* When every chain has ended, and ended in order, nothing is left to do.     *)
LEMMA SettledDoing ==
    ASSUME NodeIInv, InOrder
    PROVE  Doing(<<>>)
<1>1. \A c \in Chains : pc[c] = "idle" /\ ~Inside(c)
      BY DEF InOrder, AllIdle, Inside
<1>2. newest = NoChain
      BY <1>1 DEF NodeIInv, NewestKnown, NodeType, Orderly, InOrder
<1> QED BY <1>1, <1>2 DEF NodeIInv, Settling, Orderly, InOrder

(* README:601-606.  However many transitions and chains of NOTIFY_SYNC        *)
(* interleaved: when the chains got the lock in time and in order, a master   *)
(* node has everything up and every cron job enabled once they have ended.    *)
THEOREM NodeSettlesMaster == Spec => []SettledMaster
<1>1. NodeIInv => SettledMaster
      BY SettledDoing, ElemsOfScripts DEF SettledMaster, Doing, MasterDoing, NodeIInv, NodeType
<1> QED BY <1>1, NodeInvariant, PTL

(* README:610-613.  Likewise a backup node in BACKUP state has none of its HA *)
(* interfaces and services up and, on either node, no cron job enabled.       *)
THEOREM NodeSettlesBackup == Spec => []BackupQuiet
<1>1. NodeIInv => BackupQuiet
      BY SettledDoing, ElemsOfScripts DEF BackupQuiet, Quiet, Doing, BackupDoing, NodeIInv, NodeType
<1> QED BY <1>1, NodeInvariant, PTL

(* 999-stop-fault:3.  Likewise a node in fault, or with keepalived stopped,   *)
(* has everything down but what 800-netifyd names itself and, if             *)
(* ns-ha-disable died of a hotspot MAC, the services it would have found.    *)
THEOREM NodeSettlesDown == Spec => []SettledDown
<1>1. NodeIInv => SettledDown
  <2> SUFFICES ASSUME NodeIInv, InOrder, vrrp \in {"FAULT", "STOPPED"}
               PROVE  on \subseteq NotTornDown
      BY DEF SettledDown
  <2>1. DownDoing(<<>>)
        BY SettledDoing DEF Doing
  <2>2. <<>> # DownScript /\ <<>> # << <<"teardown", "ha">> >>
        BY DEF DownScript
  <2>3. on \cap (Interfaces \cup {"dnsmasq"}) = {} /\ (hotspot \/ "services" \notin on)
        BY <2>1, <2>2, ElemsOfScripts DEF DownDoing
  <2>4. on \subseteq Things
        BY DEF NodeIInv, NodeType
  <2> QED BY <2>3, <2>4 DEF Things, Interfaces, Services, NotTornDown
<1> QED BY <1>1, NodeInvariant, PTL
=============================================================================
