----------------------------- MODULE HaSyncProofs -----------------------------
(***************************************************************************)
(* Synchronisation implements Replica for any items, any number of faults  *)
(* and any edits, when the chains on the backup do not overlap.  A version *)
(* travels conf -> exported -> staging -> held -> root; Forward says that  *)
(* it is never older further up, unless nothing is there, and Ready that   *)
(* a chain never copies an entry that is not there.  Applying says of a    *)
(* run that recorded a success that its chain has put in place, or is      *)
(* still to put in place, all that was sent.                               *)
(***************************************************************************)
EXTENDS HaSync, TLAPS

OneChain == \A c, d \in Chains : c = d

(* What each step of ns-rsync.sh has done when the next one begins. *)
ExportReady ==
    /\ \A i \in Items : conf[i] >= 1
    /\ pc = "export" => \A p \in Parts \ left : exported[p] >= 1
    /\ pc \in {"list", "connect", "rsync", "notify"} => \A p \in Parts : exported[p] >= 1

StagingReady ==
    /\ pc = "rsync" /\ List \notin left => staged = list
    /\ pc = "rsync" /\ ~missed => \A i \in (Parts \cup list) \ left : staging[i] >= 1
    /\ pc = "notify" /\ staged # NoList => \A i \in Parts \cup staged : staging[i] >= 1

(* What a chain is still to copy is in the staging area. *)
ChainReady ==
    \A c \in Chains :
        /\ at[c] = "restore" => \A i \in todo[c] : staging[i] >= 1
        /\ at[c] # "restore" => item[c] = Nothing
        /\ item[c] # Nothing => held[c] >= 1

Ready == ExportReady /\ StagingReady /\ ChainReady

ForwardItem(i) ==
    /\ staging[i] # 0 => root[i] <= staging[i]
    /\ root[i] <= conf[i]
    /\ staging[i] <= conf[i]
ForwardPart(p) ==
    exported[p] # 0 =>
        staging[p] <= exported[p] /\ root[p] <= exported[p] /\ exported[p] <= conf[p]
ForwardChain(c) ==
    item[c] # Nothing => root[item[c]] <= held[c] /\ held[c] <= staging[item[c]]

Forward ==
    /\ \A i \in Items : ForwardItem(i)
    /\ \A p \in Parts : ForwardPart(p)
    /\ \A c \in Chains : ForwardChain(c)

SyncIInv == TypeOK /\ Ready /\ Forward

-----------------------------------------------------------------------------
(* A fault counts towards the bound. *)
LEMMA FaultStep ==
    ASSUME faults \in 0..MaxFaults, Fault
    PROVE  faults' \in 0..MaxFaults
  BY BoundsAssumption DEF Fault

(* An edit makes a version. *)
LEMMA EditStep ==
    ASSUME conf \in [Items -> Nat], NEW i \in Items, conf' = [conf EXCEPT ![i] = @ + 1]
    PROVE  /\ conf' \in [Items -> Nat]
           /\ conf'[i] > conf[i]
           /\ \A j \in Items : conf'[j] >= conf[j]
  OBVIOUS

(* Every step keeps the types. *)
LEMMA SyncTypeStep == TypeOK /\ [Next]_vars => TypeOK'
<1> SUFFICES ASSUME TypeOK, [Next]_vars
             PROVE  TypeOK'
  OBVIOUS
<1> USE ItemsAssumption, BoundsAssumption
    DEF TypeOK, Items, Outcomes, Failures, NoList, List
<1>1. ASSUME Begin
      PROVE  TypeOK'
  BY <1>1 DEF Begin, backupVars
<1>2. ASSUME NEW p \in Parts, Export(p)
      PROVE  TypeOK'
  BY <1>2 DEF Export, backupVars
<1>3. ASSUME MakeList
      PROVE  TypeOK'
  BY <1>3 DEF MakeList, backupVars
<1>4. ASSUME Connect
      PROVE  TypeOK'
  BY <1>4 DEF Connect, backupVars
<1>5. ASSUME NEW i \in Items, Send(i)
      PROVE  TypeOK'
  BY <1>5 DEF Send, backupVars
<1>6. ASSUME SendList
      PROVE  TypeOK'
  BY <1>6 DEF SendList, backupVars
<1>7. ASSUME NEW i \in Items, SendMissing(i)
      PROVE  TypeOK'
  BY <1>7 DEF SendMissing, backupVars
<1>8. ASSUME RsyncDone
      PROVE  TypeOK'
  BY <1>8 DEF RsyncDone, backupVars
<1>9. ASSUME NEW c \in Chains, Notify(c)
      PROVE  TypeOK'
  BY <1>9 DEF Notify, backupVars
<1>10. ASSUME Record
       PROVE  TypeOK'
  BY <1>10 DEF Record, backupVars
<1>11. ASSUME NEW c \in Chains, NEW i \in Items, ReadItem(c, i)
       PROVE  TypeOK'
  BY <1>11 DEF ReadItem, primaryVars
<1>12. ASSUME NEW c \in Chains, WriteItem(c)
       PROVE  TypeOK'
  BY <1>12 DEF WriteItem, primaryVars
<1>13. ASSUME NEW c \in Chains, Cleanup(c)
       PROVE  TypeOK'
  BY <1>13 DEF Cleanup, primaryVars
<1>14. ASSUME NEW c \in Chains, NEW p \in Parts, Import(c, p)
       PROVE  TypeOK'
  BY <1>14 DEF Import, primaryVars
<1>15. ASSUME NEW i \in Items, Edit(i)
       PROVE  TypeOK'
  <2>1. conf' \in [Items -> Nat]
    BY <1>15, EditStep DEF Edit
  <2>2. QED
    BY <1>15, <2>1 DEF Edit, backupVars
<1>16. ASSUME NEW f \in Files, Delete(f)
       PROVE  TypeOK'
  BY <1>16 DEF Delete, backupVars
<1>17. ASSUME ExportFails
       PROVE  TypeOK'
  <2>1. faults' \in 0..MaxFaults
    BY <1>17, FaultStep DEF ExportFails
  <2>2. QED
    BY <1>17, <2>1 DEF ExportFails, backupVars
<1>18. ASSUME ConnectFails
       PROVE  TypeOK'
  <2>1. faults' \in 0..MaxFaults
    BY <1>18, FaultStep DEF ConnectFails
  <2>2. QED
    BY <1>18, <2>1 DEF ConnectFails, backupVars
<1>19. ASSUME RsyncFails
       PROVE  TypeOK'
  <2>1. faults' \in 0..MaxFaults
    BY <1>19, FaultStep DEF RsyncFails
  <2>2. QED
    BY <1>19, <2>1 DEF RsyncFails, backupVars
<1>20. ASSUME NotifyLost
       PROVE  TypeOK'
  <2>1. faults' \in 0..MaxFaults
    BY <1>20, FaultStep DEF NotifyLost
  <2>2. QED
    BY <1>20, <2>1 DEF NotifyLost, backupVars
<1>21. ASSUME Kill
       PROVE  TypeOK'
  <2>1. faults' \in 0..MaxFaults
    BY <1>21, FaultStep DEF Kill
  <2>2. QED
    BY <1>21, <2>1 DEF Kill, backupVars
<1>22. ASSUME PrimaryReboot
       PROVE  TypeOK'
  <2>1. faults' \in 0..MaxFaults
    BY <1>22, FaultStep DEF PrimaryReboot
  <2>2. QED
    BY <1>22, <2>1 DEF PrimaryReboot, backupVars
<1>23. ASSUME BackupReboot
       PROVE  TypeOK'
  <2>1. faults' \in 0..MaxFaults
    BY <1>23, FaultStep DEF BackupReboot
  <2>2. QED
    BY <1>23, <2>1 DEF BackupReboot, backupVars
<1>24. CASE UNCHANGED vars
  BY <1>24 DEF vars, primaryVars, backupVars
<1>25. QED
  BY <1>1, <1>2, <1>3, <1>4, <1>5, <1>6, <1>7, <1>8, <1>9, <1>10,
     <1>11, <1>12, <1>13, <1>14, <1>15, <1>16, <1>17, <1>18, <1>19, <1>20,
     <1>21, <1>22, <1>23, <1>24
     DEF Next, SyncRun, Chain, Faults

(* The initial states have the types. *)
LEMMA SyncTypeInit == Init => TypeOK
<1> SUFFICES ASSUME Init
             PROVE  TypeOK
  OBVIOUS
<1>1. faults = 0
  BY DEF Init
<1>2. faults \in 0..MaxFaults
  BY <1>1, BoundsAssumption
<1>3. QED
  BY <1>2 DEF Init, TypeOK, Items, Outcomes, Failures, NoList, List

(* Every variable of the synchronisation has its type, for any items, chains *)
(* and bounds.                                                               *)
THEOREM SyncTypeCorrect == Spec => []TypeOK
<1>1. QED
  BY SyncTypeInit, SyncTypeStep, PTL DEF Spec

-----------------------------------------------------------------------------
(* A file that is there stays there. *)
LEMMA EditGrows ==
    ASSUME conf \in [Items -> Nat], \A j \in Items : conf[j] >= 1, NEW i \in Items, Edit(i)
    PROVE  \A j \in Items : conf'[j] >= 1
<1> TAKE j \in Items
<1>1. conf[j] >= 1 /\ conf'[j] >= conf[j] /\ conf[j] \in Nat /\ conf'[j] \in Nat
  BY EditStep DEF Edit
<1>2. QED
  BY <1>1

(* An export that is over has written every part, if it does not die; a      *)
(* killed one is started again from the beginning.                           *)
LEMMA ExportReadyStep ==
    ASSUME ~ExportDies
    PROVE  TypeOK /\ Ready /\ [Next]_vars => ExportReady'
<1> SUFFICES ASSUME TypeOK, Ready, [Next]_vars
             PROVE  ExportReady'
  OBVIOUS
<1> USE ItemsAssumption
    DEF TypeOK, Ready, ExportReady, StagingReady, ChainReady, Items, NoList, List
<1>1. ASSUME Begin
      PROVE  ExportReady'
  BY <1>1 DEF Begin, backupVars
<1>2. ASSUME NEW p \in Parts, Export(p)
      PROVE  ExportReady'
  BY <1>2 DEF Export, backupVars
<1>3. ASSUME MakeList
      PROVE  ExportReady'
  BY <1>3 DEF MakeList, backupVars
<1>4. ASSUME Connect
      PROVE  ExportReady'
  BY <1>4 DEF Connect, backupVars
<1>5. ASSUME NEW i \in Items, Send(i)
      PROVE  ExportReady'
  BY <1>5 DEF Send, backupVars
<1>6. ASSUME SendList
      PROVE  ExportReady'
  BY <1>6 DEF SendList, backupVars
<1>7. ASSUME NEW i \in Items, SendMissing(i)
      PROVE  ExportReady'
  BY <1>7 DEF SendMissing, backupVars
<1>8. ASSUME RsyncDone
      PROVE  ExportReady'
  BY <1>8 DEF RsyncDone, backupVars
<1>9. ASSUME NEW c \in Chains, Notify(c)
      PROVE  ExportReady'
  BY <1>9 DEF Notify, backupVars
<1>10. ASSUME Record
       PROVE  ExportReady'
  BY <1>10 DEF Record, backupVars
<1>11. ASSUME NEW c \in Chains, NEW i \in Items, ReadItem(c, i)
       PROVE  ExportReady'
  BY <1>11 DEF ReadItem, primaryVars
<1>12. ASSUME NEW c \in Chains, WriteItem(c)
       PROVE  ExportReady'
  BY <1>12 DEF WriteItem, primaryVars
<1>13. ASSUME NEW c \in Chains, Cleanup(c)
       PROVE  ExportReady'
  BY <1>13 DEF Cleanup, primaryVars
<1>14. ASSUME NEW c \in Chains, NEW p \in Parts, Import(c, p)
       PROVE  ExportReady'
  BY <1>14 DEF Import, primaryVars
<1>15. ASSUME NEW i \in Items, Edit(i)
       PROVE  ExportReady'
  <2>1. \A j \in Items : conf'[j] >= 1
    BY <1>15, EditGrows
  <2>2. QED
    BY <1>15, <2>1 DEF Edit, backupVars
<1>16. ASSUME NEW f \in Files, Delete(f)
       PROVE  ExportReady'
  BY <1>16 DEF Delete, backupVars
<1>17. ASSUME ExportFails
       PROVE  ExportReady'
  BY <1>17 DEF ExportFails
<1>18. ASSUME ConnectFails
       PROVE  ExportReady'
  BY <1>18 DEF ConnectFails, Fault, backupVars
<1>19. ASSUME RsyncFails
       PROVE  ExportReady'
  BY <1>19 DEF RsyncFails, Fault, backupVars
<1>20. ASSUME NotifyLost
       PROVE  ExportReady'
  BY <1>20 DEF NotifyLost, Fault, backupVars
<1>21. ASSUME Kill
       PROVE  ExportReady'
  BY <1>21 DEF Kill, Fault, backupVars
<1>22. ASSUME PrimaryReboot
       PROVE  ExportReady'
  BY <1>22 DEF PrimaryReboot, Fault, backupVars
<1>23. ASSUME BackupReboot
       PROVE  ExportReady'
  BY <1>23 DEF BackupReboot, Fault, backupVars
<1>24. CASE UNCHANGED vars
  BY <1>24 DEF vars, primaryVars, backupVars
<1>25. QED
  BY <1>1, <1>2, <1>3, <1>4, <1>5, <1>6, <1>7, <1>8, <1>9, <1>10,
     <1>11, <1>12, <1>13, <1>14, <1>15, <1>16, <1>17, <1>18, <1>19, <1>20,
     <1>21, <1>22, <1>23, <1>24
     DEF Next, SyncRun, Chain, Faults

(* rsync ends well only if every listed entry is in the staging area, and    *)
(* only a reboot of the backup, which empties the list too, takes it away.   *)
LEMMA StagingReadyStep == TypeOK /\ Ready /\ [Next]_vars => StagingReady'
<1> SUFFICES ASSUME TypeOK, Ready, [Next]_vars
             PROVE  StagingReady'
  OBVIOUS
<1> USE ItemsAssumption
    DEF TypeOK, Ready, ExportReady, StagingReady, ChainReady, Items, NoList, List
<1>1. ASSUME Begin
      PROVE  StagingReady'
  BY <1>1 DEF Begin, backupVars
<1>2. ASSUME NEW p \in Parts, Export(p)
      PROVE  StagingReady'
  BY <1>2 DEF Export, backupVars
<1>3. ASSUME MakeList
      PROVE  StagingReady'
  BY <1>3 DEF MakeList, backupVars
<1>4. ASSUME Connect
      PROVE  StagingReady'
  BY <1>4 DEF Connect, backupVars
<1>5. ASSUME NEW i \in Items, Send(i)
      PROVE  StagingReady'
  BY <1>5 DEF Send, backupVars
<1>6. ASSUME SendList
      PROVE  StagingReady'
  BY <1>6 DEF SendList, backupVars
<1>7. ASSUME NEW i \in Items, SendMissing(i)
      PROVE  StagingReady'
  BY <1>7 DEF SendMissing, backupVars
<1>8. ASSUME RsyncDone
      PROVE  StagingReady'
  BY <1>8 DEF RsyncDone, backupVars
<1>9. ASSUME NEW c \in Chains, Notify(c)
      PROVE  StagingReady'
  BY <1>9 DEF Notify, backupVars
<1>10. ASSUME Record
       PROVE  StagingReady'
  BY <1>10 DEF Record, backupVars
<1>11. ASSUME NEW c \in Chains, NEW i \in Items, ReadItem(c, i)
       PROVE  StagingReady'
  BY <1>11 DEF ReadItem, primaryVars
<1>12. ASSUME NEW c \in Chains, WriteItem(c)
       PROVE  StagingReady'
  BY <1>12 DEF WriteItem, primaryVars
<1>13. ASSUME NEW c \in Chains, Cleanup(c)
       PROVE  StagingReady'
  BY <1>13 DEF Cleanup, primaryVars
<1>14. ASSUME NEW c \in Chains, NEW p \in Parts, Import(c, p)
       PROVE  StagingReady'
  BY <1>14 DEF Import, primaryVars
<1>15. ASSUME NEW i \in Items, Edit(i)
       PROVE  StagingReady'
  BY <1>15 DEF Edit, backupVars
<1>16. ASSUME NEW f \in Files, Delete(f)
       PROVE  StagingReady'
  BY <1>16 DEF Delete, backupVars
<1>17. ASSUME ExportFails
       PROVE  StagingReady'
  BY <1>17 DEF ExportFails, Fault, backupVars
<1>18. ASSUME ConnectFails
       PROVE  StagingReady'
  BY <1>18 DEF ConnectFails, Fault, backupVars
<1>19. ASSUME RsyncFails
       PROVE  StagingReady'
  BY <1>19 DEF RsyncFails, Fault, backupVars
<1>20. ASSUME NotifyLost
       PROVE  StagingReady'
  BY <1>20 DEF NotifyLost, Fault, backupVars
<1>21. ASSUME Kill
       PROVE  StagingReady'
  BY <1>21 DEF Kill, Fault, backupVars
<1>22. ASSUME PrimaryReboot
       PROVE  StagingReady'
  BY <1>22 DEF PrimaryReboot, Fault, backupVars
<1>23. ASSUME BackupReboot
       PROVE  StagingReady'
  BY <1>23 DEF BackupReboot, Fault, backupVars
<1>24. CASE UNCHANGED vars
  BY <1>24 DEF vars, primaryVars, backupVars
<1>25. QED
  BY <1>1, <1>2, <1>3, <1>4, <1>5, <1>6, <1>7, <1>8, <1>9, <1>10,
     <1>11, <1>12, <1>13, <1>14, <1>15, <1>16, <1>17, <1>18, <1>19, <1>20,
     <1>21, <1>22, <1>23, <1>24
     DEF Next, SyncRun, Chain, Faults

(* A chain copies only entries that are in the staging area.                 *)
LEMMA ChainReadyStep == TypeOK /\ Ready /\ [Next]_vars => ChainReady'
<1> SUFFICES ASSUME TypeOK, Ready, [Next]_vars
             PROVE  ChainReady'
  OBVIOUS
<1> USE ItemsAssumption
    DEF TypeOK, Ready, ExportReady, StagingReady, ChainReady, Items, NoList, List
<1>1. ASSUME Begin
      PROVE  ChainReady'
  BY <1>1 DEF Begin, backupVars
<1>2. ASSUME NEW p \in Parts, Export(p)
      PROVE  ChainReady'
  BY <1>2 DEF Export, backupVars
<1>3. ASSUME MakeList
      PROVE  ChainReady'
  BY <1>3 DEF MakeList, backupVars
<1>4. ASSUME Connect
      PROVE  ChainReady'
  BY <1>4 DEF Connect, backupVars
<1>5. ASSUME NEW i \in Items, Send(i)
      PROVE  ChainReady'
  BY <1>5 DEF Send, backupVars
<1>6. ASSUME SendList
      PROVE  ChainReady'
  BY <1>6 DEF SendList, backupVars
<1>7. ASSUME NEW i \in Items, SendMissing(i)
      PROVE  ChainReady'
  BY <1>7 DEF SendMissing, backupVars
<1>8. ASSUME RsyncDone
      PROVE  ChainReady'
  BY <1>8 DEF RsyncDone, backupVars
<1>9. ASSUME NEW c \in Chains, Notify(c)
      PROVE  ChainReady'
  BY <1>9 DEF Notify, backupVars
<1>10. ASSUME Record
       PROVE  ChainReady'
  BY <1>10 DEF Record, backupVars
<1>11. ASSUME NEW c \in Chains, NEW i \in Items, ReadItem(c, i)
       PROVE  ChainReady'
  BY <1>11 DEF ReadItem, primaryVars
<1>12. ASSUME NEW c \in Chains, WriteItem(c)
       PROVE  ChainReady'
  BY <1>12 DEF WriteItem, primaryVars
<1>13. ASSUME NEW c \in Chains, Cleanup(c)
       PROVE  ChainReady'
  BY <1>13 DEF Cleanup, primaryVars
<1>14. ASSUME NEW c \in Chains, NEW p \in Parts, Import(c, p)
       PROVE  ChainReady'
  BY <1>14 DEF Import, primaryVars
<1>15. ASSUME NEW i \in Items, Edit(i)
       PROVE  ChainReady'
  BY <1>15 DEF Edit, backupVars
<1>16. ASSUME NEW f \in Files, Delete(f)
       PROVE  ChainReady'
  BY <1>16 DEF Delete, backupVars
<1>17. ASSUME ExportFails
       PROVE  ChainReady'
  BY <1>17 DEF ExportFails, Fault, backupVars
<1>18. ASSUME ConnectFails
       PROVE  ChainReady'
  BY <1>18 DEF ConnectFails, Fault, backupVars
<1>19. ASSUME RsyncFails
       PROVE  ChainReady'
  BY <1>19 DEF RsyncFails, Fault, backupVars
<1>20. ASSUME NotifyLost
       PROVE  ChainReady'
  BY <1>20 DEF NotifyLost, Fault, backupVars
<1>21. ASSUME Kill
       PROVE  ChainReady'
  BY <1>21 DEF Kill, Fault, backupVars
<1>22. ASSUME PrimaryReboot
       PROVE  ChainReady'
  BY <1>22 DEF PrimaryReboot, Fault, backupVars
<1>23. ASSUME BackupReboot
       PROVE  ChainReady'
  BY <1>23 DEF BackupReboot, Fault, backupVars
<1>24. CASE UNCHANGED vars
  BY <1>24 DEF vars, primaryVars, backupVars
<1>25. QED
  BY <1>1, <1>2, <1>3, <1>4, <1>5, <1>6, <1>7, <1>8, <1>9, <1>10,
     <1>11, <1>12, <1>13, <1>14, <1>15, <1>16, <1>17, <1>18, <1>19, <1>20,
     <1>21, <1>22, <1>23, <1>24
     DEF Next, SyncRun, Chain, Faults

-----------------------------------------------------------------------------
(* Versions are numbers. *)
LEMMA Versions ==
    ASSUME TypeOK
    PROVE  /\ \A i \in Items : conf[i] \in Nat /\ staging[i] \in Nat /\ root[i] \in Nat
           /\ \A p \in Parts : p \in Items /\ exported[p] \in Nat
           /\ \A c \in Chains : held[c] \in Nat /\ item[c] \in Items \cup {Nothing}
  BY DEF TypeOK, Items

(* An export reads a version that is no older than the one sent before. *)
LEMMA ForwardExport ==
    ASSUME TypeOK, Forward, NEW p \in Parts, Export(p)
    PROVE  Forward'
<1>1. UNCHANGED <<conf, staging, root>>
  BY DEF Export, backupVars
<1>2. ASSUME NEW q \in Parts
      PROVE  ForwardPart(q)'
  <2>1. CASE q = p
    <3>1. exported'[q] = conf[q]
      BY <2>1 DEF Export, TypeOK
    <3>2. QED
      BY <1>1, <3>1, Versions DEF Forward, ForwardItem, ForwardPart
  <2>2. CASE q # p
    <3>1. exported'[q] = exported[q]
      BY <2>2 DEF Export, TypeOK
    <3>2. QED
      BY <1>1, <3>1 DEF Forward, ForwardPart
  <2>3. QED
    BY <2>1, <2>2
<1>3. (\A i \in Items : ForwardItem(i)') /\ (\A c \in Chains : ForwardChain(c)')
  BY DEF Export, Forward, ForwardItem, ForwardChain, backupVars
<1>4. QED
  BY <1>2, <1>3 DEF Forward, Export

(* What is sent is no older than what is in the staging area. *)
LEMMA ForwardSend ==
    ASSUME TypeOK, Ready, Forward, NEW i \in Items, Send(i)
    PROVE  Forward'
<1>1. staging' = [staging EXCEPT ![i] = IF i \in Parts THEN exported[i] ELSE conf[i]]
      /\ UNCHANGED <<conf, exported, root, item, held>>
  BY DEF Send
<1>2. i \in Parts => exported[i] >= 1
  BY DEF Send, Ready, ExportReady
<1>3. staging'[i] \in Nat /\ staging[i] <= staging'[i] /\ staging'[i] <= conf[i]
      /\ root[i] <= staging'[i] /\ (i \in Parts => staging'[i] = exported[i])
  <2>1. CASE i \in Parts
    <3>1. staging'[i] = exported[i]
      BY <1>1, <2>1 DEF TypeOK
    <3>2. QED
      BY <1>2, <2>1, <3>1, Versions DEF Forward, ForwardPart
  <2>2. CASE i \notin Parts
    <3>1. staging'[i] = conf[i]
      BY <1>1, <2>2 DEF TypeOK
    <3>2. QED
      BY <2>2, <3>1, Versions DEF Forward, ForwardItem
  <2>3. QED
    BY <2>1, <2>2
<1>4. \A j \in Items : j # i => staging'[j] = staging[j]
  BY <1>1 DEF TypeOK
<1>5. ASSUME NEW j \in Items
      PROVE  ForwardItem(j)'
  BY <1>1, <1>3, <1>4 DEF Forward, ForwardItem
<1>6. ASSUME NEW p \in Parts
      PROVE  ForwardPart(p)'
  <2>1. CASE p = i
    BY <1>1, <1>3, <2>1, Versions DEF Forward, ForwardPart
  <2>2. CASE p # i
    BY <1>1, <1>4, <2>2, Versions DEF Forward, ForwardPart
  <2>3. QED
    BY <2>1, <2>2
<1>7. ASSUME NEW c \in Chains
      PROVE  ForwardChain(c)'
  <2>1. CASE item[c] = Nothing
    BY <1>1, <2>1 DEF ForwardChain
  <2>2. CASE item[c] = i
    BY <1>1, <1>3, <2>2, Versions DEF Forward, ForwardChain
  <2>3. CASE item[c] \in Items \ {i}
    <3>1. staging'[item[c]] = staging[item[c]]
      BY <1>4, <2>3
    <3>2. QED
      BY <1>1, <3>1 DEF Forward, ForwardChain
  <2>4. QED
    BY <2>1, <2>2, <2>3, Versions
<1>8. QED
  BY <1>5, <1>6, <1>7 DEF Forward

(* What a chain reads is in the staging area, and no older than what is in   *)
(* place.                                                                    *)
LEMMA ForwardRead ==
    ASSUME TypeOK, Ready, Forward, NEW c \in Chains, NEW i \in Items, ReadItem(c, i)
    PROVE  Forward'
<1>1. staging[i] >= 1 /\ root[i] <= staging[i]
  BY DEF ReadItem, Ready, ChainReady, Forward, ForwardItem
<1>2. UNCHANGED <<conf, exported, staging, root>>
  BY DEF ReadItem, primaryVars
<1>3. ASSUME NEW d \in Chains
      PROVE  ForwardChain(d)'
  <2>1. CASE d = c
    <3>1. item'[d] = i /\ held'[d] = staging[i] /\ staging[i] \in Nat
      BY <2>1 DEF ReadItem, TypeOK
    <3>2. QED
      BY <1>1, <1>2, <3>1 DEF ForwardChain
  <2>2. CASE d # c
    <3>1. item'[d] = item[d] /\ held'[d] = held[d]
      BY <2>2 DEF ReadItem, TypeOK
    <3>2. QED
      BY <1>2, <3>1 DEF Forward, ForwardChain
  <2>3. QED
    BY <2>1, <2>2
<1>4. QED
  BY <1>2, <1>3 DEF Forward, ForwardItem, ForwardPart

(* What a chain writes is no older than what it replaces, and no newer than  *)
(* what is in the staging area.                                              *)
LEMMA ForwardWrite ==
    ASSUME OneChain, TypeOK, Ready, Forward, NEW c \in Chains, WriteItem(c)
    PROVE  Forward'
<1> DEFINE i == item[c]
<1>1. i \in Items /\ held[c] \in Nat /\ held[c] >= 1
  BY DEF WriteItem, TypeOK, Ready, ChainReady
<1>2. root[i] <= held[c] /\ held[c] <= staging[i]
  BY DEF WriteItem, Forward, ForwardChain
<1>3. UNCHANGED <<conf, exported, staging>>
  BY DEF WriteItem, primaryVars
<1>4. root'[i] = held[c] /\ \A j \in Items : j # i => root'[j] = root[j]
  BY <1>1 DEF WriteItem, TypeOK
<1>5. staging[i] \in Nat /\ conf[i] \in Nat
  BY <1>1 DEF TypeOK
<1>6. ASSUME NEW j \in Items
      PROVE  ForwardItem(j)'
  <2>1. CASE j = i
    BY <1>1, <1>2, <1>3, <1>4, <1>5, <2>1 DEF Forward, ForwardItem
  <2>2. CASE j # i
    BY <1>3, <1>4, <2>2 DEF Forward, ForwardItem
  <2>3. QED
    BY <2>1, <2>2
<1>7. ASSUME NEW p \in Parts
      PROVE  ForwardPart(p)'
  <2>1. p \in Items /\ exported[p] \in Nat
    BY DEF Items, TypeOK
  <2>2. CASE p = i
    BY <1>1, <1>2, <1>3, <1>4, <1>5, <2>1, <2>2 DEF Forward, ForwardPart
  <2>3. CASE p # i
    BY <1>3, <1>4, <2>1, <2>3 DEF Forward, ForwardPart
  <2>4. QED
    BY <2>2, <2>3
<1>8. ASSUME NEW d \in Chains
      PROVE  ForwardChain(d)'
  <2>1. item'[d] = Nothing
    BY DEF OneChain, WriteItem, TypeOK
  <2>2. QED
    BY <2>1 DEF ForwardChain
<1>9. QED
  BY <1>6, <1>7, <1>8 DEF Forward

(* The configuration only gets newer. *)
LEMMA ForwardEdit ==
    ASSUME TypeOK, Forward, NEW i \in Items, Edit(i)
    PROVE  Forward'
<1>1. \A j \in Items : conf[j] \in Nat /\ conf'[j] \in Nat /\ conf'[j] >= conf[j]
  BY EditStep DEF Edit, TypeOK
<1>2. UNCHANGED <<exported, staging, root, item, held>>
  BY DEF Edit, backupVars
<1>3. ASSUME NEW j \in Items
      PROVE  ForwardItem(j)'
  BY <1>1, <1>2, Versions DEF Forward, ForwardItem
<1>4. ASSUME NEW p \in Parts
      PROVE  ForwardPart(p)'
  BY <1>1, <1>2, Versions DEF Forward, ForwardPart
<1>5. QED
  BY <1>2, <1>3, <1>4 DEF Forward, ForwardChain

(* A reboot of the backup leaves nothing to copy. *)
LEMMA ForwardReboot ==
    ASSUME TypeOK, Forward, BackupReboot
    PROVE  Forward'
<1>1. UNCHANGED <<conf, exported, root>>
  BY DEF BackupReboot
<1>2. \A i \in Items : staging'[i] = 0
  BY DEF BackupReboot
<1>3. \A c \in Chains : item'[c] = Nothing
  BY DEF BackupReboot
<1>4. ASSUME NEW i \in Items
      PROVE  ForwardItem(i)'
  <2>1. 0 <= conf[i]
    BY Versions
  <2>2. QED
    BY <1>1, <1>2, <2>1 DEF Forward, ForwardItem
<1>5. ASSUME NEW p \in Parts
      PROVE  ForwardPart(p)'
  <2>1. 0 <= exported[p] /\ p \in Items
    BY Versions
  <2>2. QED
    BY <1>1, <1>2, <2>1 DEF Forward, ForwardPart
<1>6. QED
  BY <1>3, <1>4, <1>5 DEF Forward, ForwardChain

(* With chains that do not overlap no copy is older than the one it replaces. *)
LEMMA ForwardStep ==
    ASSUME OneChain
    PROVE  TypeOK /\ Ready /\ Forward /\ [Next]_vars => Forward'
<1> SUFFICES ASSUME TypeOK, Ready, Forward, [Next]_vars
             PROVE  Forward'
  OBVIOUS
<1> USE ItemsAssumption
    DEF OneChain, TypeOK, Ready, ExportReady, StagingReady, ChainReady, Forward,
        ForwardItem, ForwardPart, ForwardChain, Items, NoList, List
<1>1. ASSUME Begin
      PROVE  Forward'
  BY <1>1 DEF Begin, backupVars
<1>2. ASSUME NEW p \in Parts, Export(p)
      PROVE  Forward'
  BY <1>2, ForwardExport
<1>3. ASSUME MakeList
      PROVE  Forward'
  BY <1>3 DEF MakeList, backupVars
<1>4. ASSUME Connect
      PROVE  Forward'
  BY <1>4 DEF Connect, backupVars
<1>5. ASSUME NEW i \in Items, Send(i)
      PROVE  Forward'
  BY <1>5, ForwardSend
<1>6. ASSUME SendList
      PROVE  Forward'
  BY <1>6 DEF SendList, backupVars
<1>7. ASSUME NEW i \in Items, SendMissing(i)
      PROVE  Forward'
  BY <1>7 DEF SendMissing, backupVars
<1>8. ASSUME RsyncDone
      PROVE  Forward'
  BY <1>8 DEF RsyncDone, backupVars
<1>9. ASSUME NEW c \in Chains, Notify(c)
      PROVE  Forward'
  BY <1>9 DEF Notify, backupVars
<1>10. ASSUME Record
       PROVE  Forward'
  BY <1>10 DEF Record, backupVars
<1>11. ASSUME NEW c \in Chains, NEW i \in Items, ReadItem(c, i)
       PROVE  Forward'
  BY <1>11, ForwardRead
<1>12. ASSUME NEW c \in Chains, WriteItem(c)
       PROVE  Forward'
  BY <1>12, ForwardWrite
<1>13. ASSUME NEW c \in Chains, Cleanup(c)
       PROVE  Forward'
  BY <1>13 DEF Cleanup, primaryVars
<1>14. ASSUME NEW c \in Chains, NEW p \in Parts, Import(c, p)
       PROVE  Forward'
  BY <1>14 DEF Import, primaryVars
<1>15. ASSUME NEW i \in Items, Edit(i)
       PROVE  Forward'
  BY <1>15, ForwardEdit
<1>16. ASSUME NEW f \in Files, Delete(f)
       PROVE  Forward'
  BY <1>16 DEF Delete, backupVars
<1>17. ASSUME ExportFails
       PROVE  Forward'
  BY <1>17 DEF ExportFails, Fault, backupVars
<1>18. ASSUME ConnectFails
       PROVE  Forward'
  BY <1>18 DEF ConnectFails, Fault, backupVars
<1>19. ASSUME RsyncFails
       PROVE  Forward'
  BY <1>19 DEF RsyncFails, Fault, backupVars
<1>20. ASSUME NotifyLost
       PROVE  Forward'
  BY <1>20 DEF NotifyLost, Fault, backupVars
<1>21. ASSUME Kill
       PROVE  Forward'
  BY <1>21 DEF Kill, Fault, backupVars
<1>22. ASSUME PrimaryReboot
       PROVE  Forward'
  BY <1>22 DEF PrimaryReboot, Fault, backupVars
<1>23. ASSUME BackupReboot
       PROVE  Forward'
  BY <1>23, ForwardReboot
<1>24. CASE UNCHANGED vars
  BY <1>24 DEF vars, primaryVars, backupVars
<1>25. QED
  BY <1>1, <1>2, <1>3, <1>4, <1>5, <1>6, <1>7, <1>8, <1>9, <1>10,
     <1>11, <1>12, <1>13, <1>14, <1>15, <1>16, <1>17, <1>18, <1>19, <1>20,
     <1>21, <1>22, <1>23, <1>24
     DEF Next, SyncRun, Chain, Faults

(* The invariant holds throughout. *)
LEMMA SyncInvariant ==
    ASSUME OneChain, ~ExportDies
    PROVE  Spec => []SyncIInv
<1>1. Init => SyncIInv
  <2> SUFFICES ASSUME Init
               PROVE  SyncIInv
    OBVIOUS
  <2>1. TypeOK
    BY SyncTypeInit
  <2>2. Ready
    <3>1. pc = "idle" /\ \A i \in Items : conf[i] = 1
      BY DEF Init
    <3>2. \A c \in Chains : at[c] = "idle" /\ item[c] = Nothing
      BY DEF Init
    <3>3. QED
      BY <3>1, <3>2 DEF Ready, ExportReady, StagingReady, ChainReady
  <2>3. /\ \A i \in Items : conf[i] = 1 /\ staging[i] = 0 /\ root[i] = 0
        /\ \A p \in Parts : exported[p] = 0
        /\ \A c \in Chains : item[c] = Nothing
    BY DEF Init
  <2>4. Forward
    BY <2>3 DEF Forward, ForwardItem, ForwardPart, ForwardChain
  <2>5. QED
    BY <2>1, <2>2, <2>4 DEF SyncIInv
<1>2. SyncIInv /\ [Next]_vars => SyncIInv'
  BY SyncTypeStep, ExportReadyStep, StagingReadyStep, ChainReadyStep, ForwardStep
     DEF SyncIInv, Ready
<1>3. QED
  BY <1>1, <1>2, PTL DEF Spec

-----------------------------------------------------------------------------
(* A step of the synchronisation is a step of Replica or a stutter. *)
LEMMA ReplicaStep == SyncIInv /\ [Next]_vars => [Replicated!Next]_<<conf, root>>
<1> SUFFICES ASSUME SyncIInv, [Next]_vars
             PROVE  [Replicated!Next]_<<conf, root>>
  OBVIOUS
<1> USE ItemsAssumption DEF Items
<1>1. ASSUME Begin
      PROVE  [Replicated!Next]_<<conf, root>>
  BY <1>1 DEF Begin, backupVars
<1>2. ASSUME NEW p \in Parts, Export(p)
      PROVE  [Replicated!Next]_<<conf, root>>
  BY <1>2 DEF Export, backupVars
<1>3. ASSUME MakeList
      PROVE  [Replicated!Next]_<<conf, root>>
  BY <1>3 DEF MakeList, backupVars
<1>4. ASSUME Connect
      PROVE  [Replicated!Next]_<<conf, root>>
  BY <1>4 DEF Connect, backupVars
<1>5. ASSUME NEW i \in Items, Send(i)
      PROVE  [Replicated!Next]_<<conf, root>>
  BY <1>5 DEF Send, backupVars
<1>6. ASSUME SendList
      PROVE  [Replicated!Next]_<<conf, root>>
  BY <1>6 DEF SendList, backupVars
<1>7. ASSUME NEW i \in Items, SendMissing(i)
      PROVE  [Replicated!Next]_<<conf, root>>
  BY <1>7 DEF SendMissing, backupVars
<1>8. ASSUME RsyncDone
      PROVE  [Replicated!Next]_<<conf, root>>
  BY <1>8 DEF RsyncDone, backupVars
<1>9. ASSUME NEW c \in Chains, Notify(c)
      PROVE  [Replicated!Next]_<<conf, root>>
  BY <1>9 DEF Notify, backupVars
<1>10. ASSUME Record
       PROVE  [Replicated!Next]_<<conf, root>>
  BY <1>10 DEF Record, backupVars
<1>11. ASSUME NEW c \in Chains, NEW i \in Items, ReadItem(c, i)
       PROVE  [Replicated!Next]_<<conf, root>>
  BY <1>11 DEF ReadItem, primaryVars
<1>12. ASSUME NEW c \in Chains, WriteItem(c)
       PROVE  [Replicated!Next]_<<conf, root>>
  <2> DEFINE i == item[c]
  <2>1. i \in Items /\ root[i] <= held[c] /\ held[c] <= staging[i] /\ staging[i] <= conf[i]
    BY <1>12, Versions DEF WriteItem, SyncIInv, Forward, ForwardItem, ForwardChain
  <2>2. root' = [root EXCEPT ![i] = held[c]] /\ UNCHANGED conf
    BY <1>12 DEF WriteItem, primaryVars
  <2>3. CASE held[c] = root[i]
    BY <2>1, <2>2, <2>3 DEF SyncIInv, TypeOK
  <2>4. CASE held[c] # root[i]
    <3>1. root'[i] = held[c] /\ held[c] > root[i] /\ held[c] <= conf[i]
      <4>1. root'[i] = held[c]
        BY <2>1, <2>2 DEF SyncIInv, TypeOK
      <4>2. QED
        BY <2>1, <2>4, <4>1, Versions DEF SyncIInv
    <3>2. Replicated!Catch(i)
      BY <2>2, <3>1 DEF Replicated!Catch
    <3>3. QED
      BY <2>1, <3>2 DEF Replicated!Next
  <2>5. QED
    BY <2>3, <2>4
<1>13. ASSUME NEW c \in Chains, Cleanup(c)
       PROVE  [Replicated!Next]_<<conf, root>>
  BY <1>13 DEF Cleanup, primaryVars
<1>14. ASSUME NEW c \in Chains, NEW p \in Parts, Import(c, p)
       PROVE  [Replicated!Next]_<<conf, root>>
  BY <1>14 DEF Import, primaryVars
<1>15. ASSUME NEW i \in Items, Edit(i)
       PROVE  [Replicated!Next]_<<conf, root>>
  <2>1. conf' = [conf EXCEPT ![i] = conf'[i]] /\ conf'[i] > conf[i]
    <3>1. conf \in [Items -> Nat] /\ conf' = [conf EXCEPT ![i] = @ + 1]
      BY <1>15 DEF Edit, SyncIInv, TypeOK
    <3>2. QED
      BY <3>1, EditStep
  <2>2. Replicated!Change(i)
    BY <1>15, <2>1 DEF Edit, Replicated!Change, backupVars
  <2>3. QED
    BY <2>2 DEF Replicated!Next
<1>16. ASSUME NEW f \in Files, Delete(f)
       PROVE  [Replicated!Next]_<<conf, root>>
  BY <1>16 DEF Delete, backupVars
<1>17. ASSUME ExportFails
       PROVE  [Replicated!Next]_<<conf, root>>
  BY <1>17 DEF ExportFails, Fault, backupVars
<1>18. ASSUME ConnectFails
       PROVE  [Replicated!Next]_<<conf, root>>
  BY <1>18 DEF ConnectFails, Fault, backupVars
<1>19. ASSUME RsyncFails
       PROVE  [Replicated!Next]_<<conf, root>>
  BY <1>19 DEF RsyncFails, Fault, backupVars
<1>20. ASSUME NotifyLost
       PROVE  [Replicated!Next]_<<conf, root>>
  BY <1>20 DEF NotifyLost, Fault, backupVars
<1>21. ASSUME Kill
       PROVE  [Replicated!Next]_<<conf, root>>
  BY <1>21 DEF Kill, Fault, backupVars
<1>22. ASSUME PrimaryReboot
       PROVE  [Replicated!Next]_<<conf, root>>
  BY <1>22 DEF PrimaryReboot, Fault, backupVars
<1>23. ASSUME BackupReboot
       PROVE  [Replicated!Next]_<<conf, root>>
  BY <1>23 DEF BackupReboot, Fault, backupVars
<1>24. CASE UNCHANGED vars
  BY <1>24 DEF vars, primaryVars, backupVars
<1>25. QED
  BY <1>1, <1>2, <1>3, <1>4, <1>5, <1>6, <1>7, <1>8, <1>9, <1>10,
     <1>11, <1>12, <1>13, <1>14, <1>15, <1>16, <1>17, <1>18, <1>19, <1>20,
     <1>21, <1>22, <1>23, <1>24
     DEF Next, SyncRun, Chain, Faults

(* Configuration synchronisation implements Replica: with chains that do not *)
(* overlap and exports that are complete or killed with the whole run, an    *)
(* item on the backup is always a version the primary has had and never goes *)
(* back to an older one, whatever edits, deletions, kills, reboots, broken   *)
(* transfers and lost notifications happen.                                  *)
THEOREM SyncReplicates ==
    ASSUME OneChain, ~ExportDies
    PROVE  Spec => ImplementsReplica
<1>1. Init => Replicated!Init
  <2> SUFFICES ASSUME Init
               PROVE  Replicated!Init
    OBVIOUS
  <2>1. conf \in [Items -> Nat]
    BY SyncTypeInit DEF TypeOK
  <2>2. root = [i \in Items |-> 0]
    BY DEF Init
  <2>3. QED
    BY <2>1, <2>2 DEF Replicated!Init
<1>2. QED
  BY <1>1, SyncInvariant, ReplicaStep, PTL
     DEF Spec, ImplementsReplica, Replicated!Spec

-----------------------------------------------------------------------------
(* What a run sent is what its chain puts in place.                          *)

(* The last run of ns-rsync.sh has started its chain.                        *)
Sent ==
    \/ pc = "record" /\ outcome = "Successful"
    \/ pc = "idle" /\ status = "Successful"

ListSent ==
    /\ pc = "rsync" /\ List \notin left => staged = list
    /\ faults = 0 /\ (pc = "notify" \/ Sent) => staged # NoList

HeldInRestore == \A c \in Chains : at[c] # "restore" => item[c] = Nothing

ToRestore(i) == \E c \in Chains : at[c] = "restore" /\ i \in todo[c]
ToImport(p) == \E c \in Chains : at[c] = "restore" \/ (at[c] = "import" /\ p \in todo[c])

(* What is not yet in place is still to be copied, or imported, as it is in   *)
(* the staging area.                                                         *)
Applying ==
    faults = 0 /\ Sent =>
        /\ \A i \in Parts \cup staged : root[i] = staging[i] \/ ToRestore(i)
        /\ \A c \in Chains : item[c] # Nothing => held[c] = staging[item[c]]
        /\ \A p \in Parts : imported[p] = root[p] \/ ToImport(p)

AppliedIInv == TypeOK /\ ListSent /\ HeldInRestore /\ Applying

(* A fault is counted.                                                       *)
LEMMA FaultCounted ==
    ASSUME TypeOK, Fault
    PROVE  faults' # 0
<1>1. faults \in 0..MaxFaults /\ faults' = faults + 1
  BY DEF TypeOK, Fault
<1>2. QED
  BY <1>1, BoundsAssumption

(* The list arrives with the transfer that announces it.                     *)
LEMMA ListSentStep == AppliedIInv /\ [Next]_vars => ListSent'
<1> SUFFICES ASSUME AppliedIInv, [Next]_vars
             PROVE  ListSent'
  OBVIOUS
<1> USE ItemsAssumption DEF AppliedIInv, ListSent, Sent
<1>1. CASE \/ Begin \/ MakeList \/ Connect \/ SendList \/ Record
           \/ \E p \in Parts : Export(p)
           \/ \E i \in Items : Send(i) \/ SendMissing(i)
           \/ \E c \in Chains : Notify(c)
  <2>1. ASSUME SendList
        PROVE  ListSent'
    BY <2>1 DEF SendList
  <2>2. CASE Begin \/ MakeList \/ Connect
    BY <2>2 DEF Begin, MakeList, Connect, backupVars
  <2>3. ASSUME NEW p \in Parts, Export(p)
        PROVE  ListSent'
    BY <2>3 DEF Export, backupVars
  <2>4. ASSUME NEW i \in Items, Send(i) \/ SendMissing(i)
        PROVE  ListSent'
    <3>1. i # List
      BY DEF List
    <3>2. QED
      BY <2>4, <3>1 DEF Send, SendMissing, backupVars
  <2>5. CASE Record \/ \E c \in Chains : Notify(c)
    BY <2>5 DEF Record, Notify, backupVars
  <2>6. QED
    BY <1>1, <2>1, <2>2, <2>3, <2>4, <2>5
<1>2. CASE RsyncDone
  <2>1. staged = list /\ list \subseteq Files
    BY <1>2 DEF RsyncDone, TypeOK
  <2>2. staged # NoList
    BY <2>1 DEF NoList, List, Items
  <2>3. QED
    BY <1>2, <2>2 DEF RsyncDone, backupVars, Failures
<1>3. ASSUME NEW c \in Chains, Chain(c)
      PROVE  ListSent'
  <2>1. UNCHANGED <<pc, left, list, staged, outcome, status, faults>>
    BY <1>3 DEF Chain, WriteItem, Cleanup, ReadItem, Import, primaryVars
  <2>2. QED
    BY <2>1
<1>4. CASE (\E i \in Items : Edit(i)) \/ (\E f \in Files : Delete(f))
  BY <1>4 DEF Edit, Delete, backupVars
<1>5. CASE Faults
  <2>1. Fault
    BY <1>5 DEF Faults, ExportFails, ConnectFails, RsyncFails, NotifyLost, Kill, PrimaryReboot, BackupReboot
  <2>2. faults' # 0
    BY <2>1, FaultCounted
  <2>3. pc' = "rsync" => pc = "rsync" /\ UNCHANGED <<left, list, staged>>
    BY <1>5 DEF Faults, ExportFails, ConnectFails, RsyncFails, NotifyLost, Kill, PrimaryReboot, BackupReboot,
                backupVars
  <2>4. QED
    BY <2>2, <2>3
<1>6. CASE UNCHANGED vars
  BY <1>6 DEF vars
<1>7. QED
  BY <1>1, <1>2, <1>3, <1>4, <1>5, <1>6 DEF Next, SyncRun

(* Only a chain that restores holds a copy.                                  *)
LEMMA HeldInRestoreStep == AppliedIInv /\ [Next]_vars => HeldInRestore'
<1> SUFFICES ASSUME AppliedIInv, [Next]_vars
             PROVE  HeldInRestore'
  OBVIOUS
<1>1. /\ at \in [Chains -> {"idle", "restore", "import"}]
      /\ item \in [Chains -> Items \cup {Nothing}]
      /\ \A c \in Chains : at[c] # "restore" => item[c] = Nothing
  BY DEF AppliedIInv, TypeOK, HeldInRestore
<1>2. CASE UNCHANGED <<at, item>>
  BY <1>1, <1>2 DEF HeldInRestore
<1>3. CASE BackupReboot
  BY <1>3 DEF BackupReboot, HeldInRestore
<1>4. ASSUME NEW c \in Chains, Notify(c) \/ Chain(c)
      PROVE  HeldInRestore'
  BY <1>1, <1>4 DEF Notify, Chain, WriteItem, Cleanup, ReadItem, Import, HeldInRestore
<1>5. QED
  BY <1>2, <1>3, <1>4
     DEF Next, SyncRun, Begin, MakeList, Connect, SendList, RsyncDone, Record, Export, Send, SendMissing,
         Edit, Delete, Faults, ExportFails, ConnectFails, RsyncFails, NotifyLost, Kill, PrimaryReboot,
         backupVars, vars

(* Each step of the one chain puts an item in place or leaves it to be done.  *)
LEMMA ApplyingStep ==
    ASSUME OneChain
    PROVE  AppliedIInv /\ [Next]_vars => Applying'
<1> SUFFICES ASSUME AppliedIInv, [Next]_vars, faults' = 0, Sent'
             PROVE  /\ \A i \in Parts \cup staged' : root'[i] = staging'[i] \/ ToRestore(i)'
                    /\ \A c \in Chains : item'[c] # Nothing => held'[c] = staging'[item'[c]]
                    /\ \A p \in Parts : imported'[p] = root'[p] \/ ToImport(p)'
  BY DEF Applying
<1> USE DEF AppliedIInv
<1>1. /\ at \in [Chains -> {"idle", "restore", "import"}]
      /\ item \in [Chains -> Items \cup {Nothing}]
      /\ held \in [Chains -> Nat]
      /\ todo \in [Chains -> SUBSET Items]
      /\ root \in [Items -> Nat] /\ imported \in [Parts -> Nat]
      /\ Parts \subseteq Items
  BY DEF TypeOK, Items
<1>2. ASSUME UNCHANGED <<staging, staged, root, imported, at, todo, item, held>>, faults = 0, Sent
      PROVE  /\ \A i \in Parts \cup staged' : root'[i] = staging'[i] \/ ToRestore(i)'
             /\ \A c \in Chains : item'[c] # Nothing => held'[c] = staging'[item'[c]]
             /\ \A p \in Parts : imported'[p] = root'[p] \/ ToImport(p)'
  BY <1>2 DEF Applying, ToRestore, ToImport
<1>3. ASSUME NEW c \in Chains, Notify(c)
      PROVE  /\ \A i \in Parts \cup staged' : root'[i] = staging'[i] \/ ToRestore(i)'
             /\ \A d \in Chains : item'[d] # Nothing => held'[d] = staging'[item'[d]]
             /\ \A p \in Parts : imported'[p] = root'[p] \/ ToImport(p)'
  <2>1. /\ pc = "notify" /\ at[c] = "idle" /\ UNCHANGED <<staged, item, faults>>
        /\ at' = [at EXCEPT ![c] = "restore"]
        /\ todo' = [todo EXCEPT ![c] = IF staged = NoList THEN {} ELSE Parts \cup staged]
    BY <1>3 DEF Notify
  <2>2. staged # NoList
    BY <2>1 DEF ListSent
  <2>3. at'[c] = "restore" /\ todo'[c] = Parts \cup staged
    BY <1>1, <2>1, <2>2
  <2>4. \A d \in Chains : item'[d] = Nothing
    BY <2>1 DEF OneChain, HeldInRestore
  <2>5. QED
    BY <2>1, <2>3, <2>4 DEF ToRestore, ToImport
<1>4. ASSUME NEW c \in Chains, Chain(c)
      PROVE  /\ \A i \in Parts \cup staged' : root'[i] = staging'[i] \/ ToRestore(i)'
             /\ \A d \in Chains : item'[d] # Nothing => held'[d] = staging'[item'[d]]
             /\ \A p \in Parts : imported'[p] = root'[p] \/ ToImport(p)'
  <2>1. UNCHANGED <<pc, outcome, status, faults, staging, staged>>
    BY <1>4 DEF Chain, WriteItem, Cleanup, ReadItem, Import, primaryVars
  <2>2. /\ \A i \in Parts \cup staged : root[i] = staging[i] \/ ToRestore(i)
        /\ \A d \in Chains : item[d] # Nothing => held[d] = staging[item[d]]
        /\ \A p \in Parts : imported[p] = root[p] \/ ToImport(p)
        /\ Parts \cup staged \subseteq Items
    <3>1. faults = 0 /\ Sent
      BY <2>1 DEF Sent
    <3>2. staged \subseteq Files
      BY <3>1 DEF ListSent, TypeOK
    <3>3. QED
      BY <3>1, <3>2 DEF Applying, Items
  <2>3. \A d \in Chains : d = c
    BY DEF OneChain
  <2>4. ASSUME NEW j \in Items, ReadItem(c, j)
        PROVE  /\ \A i \in Parts \cup staged' : root'[i] = staging'[i] \/ ToRestore(i)'
               /\ \A d \in Chains : item'[d] # Nothing => held'[d] = staging'[item'[d]]
               /\ \A p \in Parts : imported'[p] = root'[p] \/ ToImport(p)'
    <3>1. UNCHANGED <<root, imported, at, todo>> /\ item'[c] = j /\ held'[c] = staging[j]
      BY <1>1, <2>4 DEF ReadItem
    <3>2. QED
      BY <2>1, <2>2, <2>3, <3>1 DEF ToRestore, ToImport
  <2>5. ASSUME WriteItem(c)
        PROVE  /\ \A i \in Parts \cup staged' : root'[i] = staging'[i] \/ ToRestore(i)'
               /\ \A d \in Chains : item'[d] # Nothing => held'[d] = staging'[item'[d]]
               /\ \A p \in Parts : imported'[p] = root'[p] \/ ToImport(p)'
    <3>1. PICK j \in Items : j = item[c]
      BY <1>1, <2>5 DEF WriteItem
    <3>2. /\ at[c] = "restore" /\ UNCHANGED <<imported, at>> /\ item'[c] = Nothing
          /\ root' = [root EXCEPT ![j] = held[c]] /\ todo'[c] = todo[c] \ {j}
      BY <1>1, <2>5, <3>1 DEF WriteItem
    <3>3. held[c] = staging[j]
      BY <2>2, <2>5, <3>1 DEF WriteItem
    <3>4. root'[j] = staging[j] /\ \A i \in Items : i # j => root'[i] = root[i]
      BY <1>1, <3>2, <3>3
    <3>5. \A i \in Parts \cup staged : root'[i] = staging[i] \/ (i # j /\ i \in todo[c])
      BY <2>2, <2>3, <3>4 DEF ToRestore
    <3>6. QED
      BY <2>1, <2>3, <3>2, <3>5 DEF ToRestore, ToImport
  <2>6. ASSUME Cleanup(c)
        PROVE  /\ \A i \in Parts \cup staged' : root'[i] = staging'[i] \/ ToRestore(i)'
               /\ \A d \in Chains : item'[d] # Nothing => held'[d] = staging'[item'[d]]
               /\ \A p \in Parts : imported'[p] = root'[p] \/ ToImport(p)'
    <3>1. /\ todo[c] = {} /\ UNCHANGED <<root, item, held>>
          /\ at'[c] = "import" /\ todo'[c] = Parts
      BY <1>1, <2>6 DEF Cleanup
    <3>2. QED
      BY <2>1, <2>2, <2>3, <3>1 DEF ToRestore, ToImport
  <2>7. ASSUME NEW q \in Parts, Import(c, q)
        PROVE  /\ \A i \in Parts \cup staged' : root'[i] = staging'[i] \/ ToRestore(i)'
               /\ \A d \in Chains : item'[d] # Nothing => held'[d] = staging'[item'[d]]
               /\ \A p \in Parts : imported'[p] = root'[p] \/ ToImport(p)'
    <3>1. /\ at[c] = "import" /\ UNCHANGED <<root, item, held>> /\ todo'[c] = todo[c] \ {q}
          /\ imported'[q] = root[q] /\ \A p \in Parts : p # q => imported'[p] = imported[p]
          /\ at'[c] = IF todo[c] = {q} THEN "idle" ELSE "import"
      BY <1>1, <2>7 DEF Import
    <3>2. \A p \in Parts : imported'[p] = root'[p] \/ (p # q /\ p \in todo[c])
      BY <2>2, <2>3, <3>1 DEF ToImport
    <3>3. \A p \in Parts : p # q /\ p \in todo[c] => at'[c] = "import" /\ p \in todo'[c]
      BY <3>1
    <3>4. QED
      BY <2>1, <2>2, <2>3, <3>1, <3>2, <3>3 DEF ToRestore, ToImport
  <2>8. QED
    BY <1>4, <2>4, <2>5, <2>6, <2>7 DEF Chain
<1>5. CASE Record
  BY <1>2, <1>5 DEF Record, Sent, backupVars
<1>6. CASE (\E i \in Items : Edit(i)) \/ (\E f \in Files : Delete(f)) \/ UNCHANGED vars
  <2>1. UNCHANGED <<staging, staged, root, imported, at, todo, item, held>> /\ UNCHANGED <<pc, outcome, status, faults>>
    BY <1>6 DEF Edit, Delete, vars, backupVars
  <2>2. QED
    BY <1>2, <2>1 DEF Sent
<1>7. ~Faults
  <2>1. Faults => Fault
    BY DEF Faults, ExportFails, ConnectFails, RsyncFails, NotifyLost, Kill, PrimaryReboot, BackupReboot
  <2>2. QED
    BY <2>1, FaultCounted
<1>8. /\ ~Begin /\ ~MakeList /\ ~Connect /\ ~SendList /\ ~RsyncDone
      /\ \A p \in Parts : ~Export(p)
      /\ \A i \in Items : ~Send(i) /\ ~SendMissing(i)
  BY DEF Sent, Begin, MakeList, Connect, SendList, RsyncDone, Export, Send, SendMissing
<1>9. QED
  BY <1>3, <1>4, <1>5, <1>6, <1>7, <1>8 DEF Next, SyncRun

(* README, File synchronization.  When no fault happens and the chains on the *)
(* backup do not overlap, a run that recorded a success has its chain put     *)
(* every listed item in place as it was sent, and import the network          *)
(* sections: whatever is edited and deleted meanwhile, and whichever run      *)
(* sends new files while the chain of the one before still copies.            *)
THEOREM SyncApplied ==
    ASSUME OneChain
    PROVE  Spec => []AppliedAsSent
<1>1. Init => AppliedIInv
  <2> SUFFICES ASSUME Init
               PROVE  AppliedIInv
    OBVIOUS
  <2>1. ~Sent /\ pc = "idle" /\ \A c \in Chains : item[c] = Nothing
    BY DEF Init, Sent
  <2>2. QED
    BY <2>1, SyncTypeInit DEF AppliedIInv, ListSent, HeldInRestore, Applying
<1>2. AppliedIInv /\ [Next]_vars => AppliedIInv'
  BY SyncTypeStep, ListSentStep, HeldInRestoreStep, ApplyingStep DEF AppliedIInv
<1>3. AppliedIInv => AppliedAsSent
  BY DEF AppliedIInv, Applying, AppliedAsSent, Settled, Sent, ToRestore, ToImport
<1>4. QED
  BY <1>1, <1>2, <1>3, PTL DEF Spec
=============================================================================
