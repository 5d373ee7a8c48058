------------------------- MODULE UpdateApplyProofs -------------------------
(***************************************************************************)
(* Proofs about UpdateApply for any number of packages, versions and boot  *)
(* files, of power cuts and of failing commands.                           *)
(***************************************************************************)
EXTENDS UpdateApply, TLAPS

-----------------------------------------------------------------------------
(* The types.                                                              *)

\* TypeOK is inductive with this: the trap decrements tmpDirs only when there
\* is a directory to remove, unmounts /boot only when it is mounted, and runs
\* before the script ends.
TypeInv ==
  /\ TypeOK
  /\ tmpDirs >= tmp
  /\ bootMounted >= weMounted
  /\ pc \notin Steps => weMounted = 0

USE UpdateAssumption DEF Inbox, Archive, Places, Steps

\* What the file systems hold can be what the disk holds.
LEMMA CurrentType ==
  ASSUME loc \in [Files -> Places], stamp \in Contents \cup {NoSum},
         root \in Contents \cup {Factory, Torn},
         boot \in [1..BootFiles -> Contents \cup {Factory, Torn}]
  PROVE  Current \in Storage
  BY DEF Current, Storage

\* Every state of the service is of its type, whatever fails.
LEMMA TypeInit == Init => TypeInv
<1> SUFFICES ASSUME Init PROVE TypeInv
  OBVIOUS
<1>1. /\ loc \in [Files -> Places] /\ stamp \in Contents \cup {NoSum}
      /\ root \in Contents \cup {Factory, Torn}
      /\ boot \in [1..BootFiles -> Contents \cup {Factory, Torn}]
  BY DEF Init
<1>2. disk \in Storage
  BY <1>1, CurrentType DEF Init
<1> QED
  BY <1>1, <1>2 DEF Init, TypeInv, TypeOK

\* The files of a package are its content.
LEMMA SumType == TypeInv /\ pc \in Steps \ {"find"} => pkg \in Files /\ sum \in Contents
  BY DEF TypeInv, TypeOK, sum

LEMMA TypeNext == TypeInv /\ [Next]_vars => TypeInv'
<1> SUFFICES ASSUME TypeInv, [Next]_vars PROVE TypeInv'
  OBVIOUS
<1>a. Current \in Storage
  BY CurrentType DEF TypeInv, TypeOK
<1>0. pc \in Steps \ {"find"} => pkg \in Files /\ sum \in Contents
  BY SumType
<1>1. ASSUME NEW s, Goto(s), s \in Steps \ {"find"}, pc \in Steps \ {"find"},
             UNCHANGED disk, loc' \in [Files -> Places],
             stamp' \in Contents \cup {NoSum},
             root' \in Contents \cup {Factory, Torn},
             boot' \in [1..BootFiles -> Contents \cup {Factory, Torn}],
             nextFile' \in 1..(BootFiles + 1)
      PROVE TypeInv'
  BY <1>1 DEF TypeInv, TypeOK, Goto, Works, bounds
<1>2. CASE FindPackage
  <2>1. Candidates \subseteq Files
    BY DEF Candidates, InPlace, Newest
  <2> QED
    BY <1>2, <2>1 DEF FindPackage, TypeInv, TypeOK, Exit, Works, bounds, fs
<1>3. ASSUME NEW where \in {"idle", "halting"}, Exit(where),
             faults' \in {faults, faults + 1}, faults' \in 0..MaxFault,
             UNCHANGED <<disk, mtime, powerLoss, nextFile>>,
             loc' \in [Files -> Places],
             stamp' \in Contents \cup {NoSum},
             root' \in Contents \cup {Factory, Torn},
             boot' \in [1..BootFiles -> Contents \cup {Factory, Torn}]
      PROVE TypeInv'
  BY <1>3 DEF TypeInv, TypeOK, Exit
<1>4. ASSUME NEW place \in Archive, GiveUp(place), pc \in Steps \ {"find"}
      PROVE TypeInv'
  <2>1. loc' \in [Files -> Places]
    BY <1>0, <1>4 DEF GiveUp, TypeInv, TypeOK
  <2>2. /\ faults' \in {faults, faults + 1} /\ faults' \in 0..MaxFault
        /\ UNCHANGED <<mtime, powerLoss>>
    BY <1>4 DEF GiveUp, Works, Fault, bounds, TypeInv, TypeOK
  <2> QED
    BY <1>3, <1>4, <2>1, <2>2 DEF GiveUp, TypeInv, TypeOK
<1>5. CASE CheckStamp
  <2>1. CASE stamp = sum
    BY <1>4, <1>5, <2>1 DEF CheckStamp
  <2>2. CASE stamp # sum
    BY <1>1, <1>5, <2>2 DEF CheckStamp, fs, TypeInv, TypeOK
  <2> QED BY <2>1, <2>2
<1>6. CASE Extract
  <2>1. CASE /\ sum \in Extractable
             /\ pc' = "layout" /\ tmp' = 1 /\ tmpDirs' = tmpDirs + 1
             /\ Works
             /\ UNCHANGED <<fs, disk, nextFile, pkg, bootMounted, weMounted>>
    BY <1>0, <1>6, <2>1 DEF Extract, fs, Works, bounds, TypeInv, TypeOK
  <2>2. CASE sum \notin Extractable /\ GiveUp("failed")
    BY <1>4, <1>6, <2>2 DEF Extract
  <2>3. CASE loc' = [loc EXCEPT ![pkg] = "failed"] /\ Exit("idle") /\ Fault
             /\ UNCHANGED <<stamp, root, boot, disk, nextFile>>
    BY <1>0, <1>3, <1>6, <2>3 DEF Extract, Fault, TypeInv, TypeOK
  <2> QED BY <1>6, <2>1, <2>2, <2>3 DEF Extract
<1>7. CASE CheckLayout
  <2>1. CASE sum \in WithRootfs \cup WithBoot
    BY <1>1, <1>7, <2>1 DEF CheckLayout, fs, TypeInv, TypeOK
  <2>2. CASE sum \notin WithRootfs \cup WithBoot
    BY <1>4, <1>7, <2>2 DEF CheckLayout
  <2> QED BY <2>1, <2>2
<1>8. CASE ApplyRootfs
  BY <1>0, <1>1, <1>8 DEF ApplyRootfs, TypeInv, TypeOK
<1>9. CASE MountBoot
  <2>1. CASE Goto("stamp") /\ UNCHANGED nextFile
    BY <1>0, <1>1, <1>9, <2>1 DEF MountBoot, fs, TypeInv, TypeOK
  <2>2. CASE /\ pc' = "boot" /\ nextFile' = 1
             /\ bootMounted' = 1 /\ weMounted' = 1 - bootMounted
             /\ Works /\ UNCHANGED <<pkg, tmp, tmpDirs>>
    <3>1. bootMounted \in {0, 1} /\ weMounted' \in {0, 1} /\ bootMounted' >= weMounted'
      BY <1>0, <2>2 DEF TypeInv, TypeOK
    <3> QED
      BY <1>0, <1>9, <2>2, <3>1 DEF MountBoot, Works, fs, bounds, TypeInv, TypeOK
  <2>3. CASE /\ pc' = "stamp" /\ Fault
             /\ UNCHANGED <<pkg, tmp, tmpDirs, bootMounted, weMounted, nextFile>>
    BY <1>0, <1>9, <2>3 DEF MountBoot, Fault, fs, TypeInv, TypeOK
  <2> QED BY <1>9, <2>1, <2>2, <2>3 DEF MountBoot
<1>10. CASE InstallBoot
  BY <1>0, <1>1, <1>10 DEF InstallBoot, TypeInv, TypeOK
<1>11. CASE SyncBoot
  BY <1>a, <1>0, <1>11 DEF SyncBoot, Goto, Works, fs, bounds, TypeInv, TypeOK
<1>12. CASE WriteStamp
  BY <1>0, <1>1, <1>12 DEF WriteStamp, TypeInv, TypeOK
<1>13. CASE ArchiveApplied
  BY <1>0, <1>1, <1>13 DEF ArchiveApplied, TypeInv, TypeOK
<1>14. CASE SyncAll
  BY <1>a, <1>0, <1>14 DEF SyncAll, Goto, Works, fs, bounds, TypeInv, TypeOK
<1>15. CASE RequestReboot
  BY <1>3, <1>15 DEF RequestReboot, Works, fs, bounds, TypeInv, TypeOK
<1>16. CASE CommandFails
  <2>1. /\ root' \in Contents \cup {Factory, Torn}
        /\ boot' \in [1..BootFiles -> Contents \cup {Factory, Torn}]
        /\ stamp' \in Contents \cup {NoSum}
    BY <1>16 DEF CommandFails, TypeInv, TypeOK
  <2> QED
    BY <1>3, <1>16, <2>1 DEF CommandFails, Fault, TypeInv, TypeOK
<1>17. CASE PowerOn
  BY <1>17 DEF PowerOn, fs, bounds, TypeInv, TypeOK
<1>18. CASE Shutdown
  BY <1>a, <1>18 DEF Shutdown, fs, bounds, TypeInv, TypeOK
<1>19. CASE WriteBack
  BY <1>a, <1>19 DEF WriteBack, fs, process, bounds, TypeInv, TypeOK
<1>20. CASE PowerLoss
  <2>1. loc' \in [Files -> Places]
    <3>1. PICK moved \in SUBSET Files :
            loc' = [f \in Files |-> IF f \in moved THEN loc[f] ELSE disk.loc[f]]
      BY <1>20 DEF PowerLoss
    <3> QED
      BY <3>1 DEF TypeInv, TypeOK, Storage
  <2>2. /\ stamp' \in Contents \cup {NoSum}
        /\ root' \in Contents \cup {Factory, Torn}
    BY <1>20 DEF PowerLoss, Survives, Storage, TypeInv, TypeOK
  <2>3. boot' \in [1..BootFiles -> Contents \cup {Factory, Torn}]
    BY <1>20 DEF PowerLoss
  <2>4. disk' \in Storage
    BY <1>20, <2>1, <2>2, <2>3 DEF PowerLoss, Storage
  <2> QED
    BY <1>20, <2>1, <2>2, <2>3, <2>4 DEF PowerLoss, TypeInv, TypeOK
<1>21. CASE \E f \in Files, place \in Inbox : Drop(f, place)
  <2>1. PICK f \in Files, place \in Inbox : Drop(f, place)
    BY <1>21
  <2>2. loc' \in [Files -> Places] /\ disk' \in Storage
    BY <2>1 DEF Drop, TypeInv, TypeOK, Storage
  <2> QED
    BY <2>1, <2>2 DEF Drop, process, bounds, TypeInv, TypeOK
<1>22. CASE UNCHANGED vars
  BY <1>22 DEF vars, fs, process, bounds, TypeInv, TypeOK
<1> QED
  BY <1>2, <1>5, <1>6, <1>7, <1>8, <1>9, <1>10, <1>11, <1>12, <1>13, <1>14,
     <1>15, <1>16, <1>17, <1>18, <1>19, <1>20, <1>21, <1>22
     DEF Next, Script, Environment

\* In every run, with any faults and power cuts, TypeOK holds.
THEOREM TypeCorrect == Spec => []TypeOK
<1>1. TypeInv => TypeOK
  BY DEF TypeInv
<1> QED
  BY TypeInit, TypeNext, <1>1, PTL DEF Spec

-----------------------------------------------------------------------------
(* A reboot is asked for only once the update is recorded on disk.         *)

\* What the last steps of the script know, whatever fails before them.
RecordInv ==
  /\ pc \in {"archive", "sync"} => stamp = sum
  /\ pc = "sync" => loc[pkg] = "applied"
  /\ pc = "reboot" => disk.stamp = sum /\ disk.loc[pkg] = "applied"
  /\ pc = "reboot" => stamp = sum /\ loc[pkg] = "applied"

LEMMA RecordNext == TypeInv /\ RecordInv /\ [Next]_vars => RecordInv'
<1> SUFFICES ASSUME TypeInv, RecordInv, [Next]_vars PROVE RecordInv'
  OBVIOUS
<1> USE DEF sum
<1>1. CASE WriteStamp
  BY <1>1 DEF WriteStamp, Goto, RecordInv
<1>2. CASE ArchiveApplied
  BY <1>2 DEF ArchiveApplied, Goto, RecordInv, TypeInv, TypeOK
<1>3. CASE SyncAll
  BY <1>3 DEF SyncAll, Goto, Current, fs, RecordInv
<1>4. CASE WriteBack
  BY <1>4 DEF WriteBack, Current, fs, process, RecordInv
<1>5. CASE UNCHANGED vars
  BY <1>5 DEF vars, fs, process, RecordInv
<1>6. CASE pc' \notin {"archive", "sync", "reboot"}
  BY <1>6 DEF RecordInv
<1>7. CASE /\ Next /\ pc' \in {"archive", "sync", "reboot"}
           /\ ~WriteStamp /\ ~ArchiveApplied /\ ~SyncAll /\ ~WriteBack
  BY <1>7 DEF Next, Script, Environment, FindPackage, CheckStamp, Extract,
     CheckLayout, ApplyRootfs, MountBoot, InstallBoot, SyncBoot, RequestReboot,
     CommandFails, PowerOn, Shutdown, PowerLoss, Drop, Goto, Exit, GiveUp,
     process
<1> QED
  BY <1>1, <1>2, <1>3, <1>4, <1>5, <1>6, <1>7

\* For any faults and any power cuts, the script asks for a reboot only when
\* the stamp and the archived package are on disk.
THEOREM RebootsAreRecorded == Spec => []RebootsOnlyWhenRecorded
<1>1. Init => RecordInv
  BY DEF Init, RecordInv
<1>2. RecordInv => RebootsOnlyWhenRecorded
  BY DEF RecordInv, RebootsOnlyWhenRecorded
<1> QED
  BY TypeInit, TypeNext, RecordNext, <1>1, <1>2, PTL DEF Spec

-----------------------------------------------------------------------------
(* An update that power interrupts is done again.                          *)

Applicable == Extractable \cap WithRootfs \cap WithBoot

\* f waits in an inbox, and whatever a power cut leaves of loc and stamp, it
\* will be applied.
Pending(f) ==
  /\ loc[f] \in Inbox /\ disk.loc[f] \in Inbox
  /\ ContentOf[f] \in Applicable
  /\ ContentOf[f] # stamp /\ ContentOf[f] # disk.stamp

HoldsOnDisk(c) ==
  /\ root = c /\ disk.root = c
  /\ \A i \in 1..BootFiles : boot[i] = c /\ disk.boot[i] = c

BeforeStamp == {"off", "find", "check", "extract", "layout", "rootfs",
                "mount", "boot"}
AfterSync   == {"stamp", "archive", "sync", "reboot"}

\* What the script has checked and done by each of its steps.
ScriptInv ==
  /\ pc \in BeforeStamp => disk.stamp = stamp /\ disk.loc = loc
  /\ pc \in BeforeStamp \ {"off", "find"} => loc[pkg] \in Inbox
  /\ pc \in BeforeStamp \ {"off", "find", "check"} => stamp # sum
  /\ pc \in {"layout", "rootfs", "mount", "boot"} => sum \in Extractable
  /\ pc \in {"rootfs", "mount", "boot"} => sum \in WithRootfs
  /\ pc \in {"mount", "boot"} => root = sum
  /\ pc = "boot" => \A i \in 1..BootFiles : i < nextFile => boot[i] = sum
  /\ pc \in AfterSync => HoldsOnDisk(sum)

RetryInv ==
  \/ \E c \in Contents \cup {Factory} : HoldsOnDisk(c)
  \/ \E f \in Files : Pending(f)

\* The packages make_update_tar.sh builds.
Ordinary == WithRootfs = WithBoot

\* A step after which no command has failed is not a failing one.
LEMMA FaultsGrow ==
  ASSUME TypeInv, [Next]_vars, faults' = 0
  PROVE  faults = 0 /\ ~Fault
<1>1. ~Fault
  BY DEF Fault, TypeInv, TypeOK
<1>2. faults' = faults
  BY <1>1 DEF Next, Script, Environment, FindPackage, CheckStamp, Extract, CheckLayout,
     ApplyRootfs, MountBoot, InstallBoot, SyncBoot, WriteStamp, ArchiveApplied, SyncAll,
     RequestReboot, CommandFails, PowerOn, Shutdown, WriteBack, PowerLoss, Drop, GiveUp,
     Goto, Works, bounds, vars
<1> QED
  BY <1>1, <1>2

LEMMA ScriptNext ==
  ASSUME Ordinary, TypeInv, ScriptInv, [Next]_vars, faults' = 0
  PROVE  ScriptInv'
<1> USE DEF sum
<1>a. ~Fault
  BY FaultsGrow
<1>1. CASE pc' \notin BeforeStamp \cup AfterSync
  BY <1>1 DEF ScriptInv, BeforeStamp, AfterSync
<1>2. CASE FindPackage
  <2>1. \A f \in Candidates : loc[f] \in Inbox
    BY DEF Candidates, InPlace, Newest
  <2> QED
    BY <1>2, <2>1 DEF FindPackage, Exit, fs, ScriptInv, BeforeStamp, AfterSync
<1>3. CASE CheckStamp /\ stamp # sum
  BY <1>3 DEF CheckStamp, Goto, fs, ScriptInv, BeforeStamp, AfterSync
<1>4. CASE Extract /\ pc' = "layout"
  BY <1>4, <1>a DEF Extract, GiveUp, Exit, fs, ScriptInv, BeforeStamp, AfterSync
<1>5. CASE CheckLayout /\ pc' = "rootfs"
  BY <1>5 DEF CheckLayout, GiveUp, Exit, Goto, fs, ScriptInv, BeforeStamp,
     AfterSync, Ordinary
<1>6. CASE ApplyRootfs
  BY <1>6 DEF ApplyRootfs, Goto, ScriptInv, BeforeStamp, AfterSync
<1>7. CASE MountBoot
  BY <1>7, <1>a DEF MountBoot, Goto, fs, ScriptInv, BeforeStamp, AfterSync,
     Ordinary, TypeInv, TypeOK
<1>8. CASE InstallBoot
  BY <1>8 DEF InstallBoot, Goto, ScriptInv, BeforeStamp, AfterSync, TypeInv,
     TypeOK
<1>9. CASE SyncBoot
  <2>1. root = sum /\ \A i \in 1..BootFiles : boot[i] = sum
    BY <1>9 DEF SyncBoot, ScriptInv, TypeInv, TypeOK
  <2>2. HoldsOnDisk(sum)'
    BY <1>9, <2>1 DEF SyncBoot, Goto, Current, HoldsOnDisk, fs
  <2> QED
    BY <1>9, <2>2 DEF SyncBoot, Goto, ScriptInv, BeforeStamp, AfterSync
<1>10. CASE WriteStamp \/ ArchiveApplied
  BY <1>10 DEF WriteStamp, ArchiveApplied, Goto, ScriptInv, BeforeStamp,
     AfterSync, HoldsOnDisk
<1>11. CASE SyncAll
  BY <1>11 DEF SyncAll, Goto, Current, fs, ScriptInv, BeforeStamp, AfterSync,
     HoldsOnDisk
<1>12. CASE PowerOn
  BY <1>12 DEF PowerOn, fs, ScriptInv, BeforeStamp, AfterSync
<1>13. CASE Shutdown
  BY <1>13 DEF Shutdown, Current, fs, ScriptInv, BeforeStamp, AfterSync
<1>14. CASE WriteBack
  BY <1>14 DEF WriteBack, Current, fs, process, ScriptInv, BeforeStamp,
     AfterSync, HoldsOnDisk
<1>15. CASE PowerLoss
  <2>1. disk.stamp' = stamp' /\ disk.loc' = loc' /\ pc' = "off"
    BY <1>15 DEF PowerLoss
  <2> QED
    BY <2>1 DEF ScriptInv, BeforeStamp, AfterSync
<1>16. CASE \E f \in Files, place \in Inbox : Drop(f, place)
  <2>1. PICK f \in Files, place \in Inbox : Drop(f, place)
    BY <1>16
  <2>2. pc \in {"off", "idle"} /\ pc' = pc /\ stamp' = stamp
    BY <2>1 DEF Drop, process
  <2>3. pc = "off" => disk.stamp' = stamp' /\ disk.loc' = loc'
    BY <2>1 DEF Drop, ScriptInv, BeforeStamp, TypeInv, TypeOK, Storage
  <2> QED
    BY <2>2, <2>3 DEF ScriptInv, BeforeStamp, AfterSync
<1>17. CASE UNCHANGED vars
  BY <1>17 DEF vars, fs, process, ScriptInv, BeforeStamp, AfterSync, HoldsOnDisk
<1>18. CASE RequestReboot \/ CommandFails
  BY <1>18, <1>1 DEF RequestReboot, CommandFails, Exit, BeforeStamp, AfterSync
<1>19. CASE CheckStamp /\ stamp = sum
  BY <1>19, <1>1 DEF CheckStamp, GiveUp, Exit, BeforeStamp, AfterSync
<1>20. CASE Extract /\ pc' # "layout"
  BY <1>20, <1>1 DEF Extract, GiveUp, Exit, BeforeStamp, AfterSync
<1>21. CASE CheckLayout /\ pc' # "rootfs"
  BY <1>21, <1>1 DEF CheckLayout, GiveUp, Exit, Goto, BeforeStamp, AfterSync
<1> QED
  BY <1>2, <1>3, <1>4, <1>5, <1>6, <1>7, <1>8, <1>9, <1>10, <1>11, <1>12,
     <1>13, <1>14, <1>15, <1>16, <1>17, <1>18, <1>19, <1>20, <1>21
     DEF Next, Script, Environment

\* A package that waits for good still does after a step that neither archives
\* it nor writes a stamp with its checksum.
LEMMA PendingStays ==
  ASSUME NEW f \in Files, Pending(f),
         loc'[f] \in Inbox, disk'.loc[f] \in Inbox,
         ContentOf[f] # stamp', ContentOf[f] # disk'.stamp
  PROVE  Pending(f)'
  BY DEF Pending

LEMMA RetryNext ==
  ASSUME Ordinary, TypeInv, ScriptInv, RetryInv, [Next]_vars, faults' = 0
  PROVE  RetryInv'
<1> USE DEF sum
<1>a. ~Fault
  BY FaultsGrow
<1>b. ~CommandFails
  BY <1>a DEF CommandFails
<1>1. CASE pc \in AfterSync /\ UNCHANGED <<root, boot>>
           /\ (disk' = disk \/ disk' = Current)
  <2>1. HoldsOnDisk(ContentOf[pkg]) /\ ContentOf[pkg] \in Contents
    BY <1>1, SumType DEF ScriptInv, AfterSync
  <2>2. \A i \in 1..BootFiles : boot'[i] = ContentOf[pkg] /\ disk'.boot[i] = ContentOf[pkg]
    BY <1>1, <2>1 DEF HoldsOnDisk, Current
  <2>3. root' = ContentOf[pkg] /\ disk'.root = ContentOf[pkg]
    BY <1>1, <2>1 DEF HoldsOnDisk, Current
  <2> QED
    BY <2>1, <2>2, <2>3 DEF RetryInv, HoldsOnDisk
<1>2. CASE pc \in {"rootfs", "mount", "boot"} /\ UNCHANGED <<loc, stamp>>
           /\ pkg' = pkg /\ (disk' = disk \/ disk' = Current)
  \* The package being applied is the one that waits.
  <2>1. pkg \in Files /\ Pending(pkg)
    BY <1>2, SumType DEF ScriptInv, BeforeStamp, Pending, Applicable, Ordinary
  <2>2. Pending(pkg)'
    BY <1>2, <2>1 DEF Pending, Current
  <2> QED
    BY <1>2, <2>1, <2>2 DEF RetryInv
<1>3. CASE UNCHANGED <<root, boot, disk, stamp>>
           /\ \A f \in Files : Pending(f) => loc'[f] \in Inbox
  BY <1>3 DEF RetryInv, HoldsOnDisk, Pending
<1>4. CASE UNCHANGED fs /\ disk' = Current
  BY <1>4 DEF RetryInv, HoldsOnDisk, Pending, Current, fs
<1>5. CASE UNCHANGED fs /\ disk' = disk
  BY <1>5, <1>3 DEF fs, Pending
<1>6. CASE PowerLoss
  <2>1. CASE \E c \in Contents \cup {Factory} : HoldsOnDisk(c)
    <3>1. PICK c \in Contents \cup {Factory} : HoldsOnDisk(c)
      BY <2>1
    <3>2. root' = c /\ \A i \in 1..BootFiles : boot'[i] = c
      BY <1>6, <3>1 DEF PowerLoss, Survives, HoldsOnDisk
    <3>3. disk'.root = c /\ \A i \in 1..BootFiles : disk'.boot[i] = c
      BY <1>6, <3>2 DEF PowerLoss
    <3> QED
      BY <3>2, <3>3 DEF RetryInv, HoldsOnDisk
  <2>2. ASSUME NEW f \in Files, Pending(f) PROVE RetryInv'
    <3>1. loc'[f] \in Inbox /\ disk'.loc[f] \in Inbox
      BY <1>6, <2>2 DEF PowerLoss, Pending
    <3>2. ContentOf[f] # stamp' /\ ContentOf[f] # disk'.stamp
      BY <1>6, <2>2 DEF PowerLoss, Survives, Pending
    <3> QED
      BY <2>2, <3>1, <3>2, PendingStays DEF RetryInv
  <2> QED
    BY <2>1, <2>2 DEF RetryInv
<1>7. CASE \E f \in Files, place \in Inbox : Drop(f, place)
  <2>1. PICK f \in Files, place \in Inbox : Drop(f, place)
    BY <1>7
  <2>2. disk'.root = disk.root /\ disk'.boot = disk.boot /\ disk'.stamp = disk.stamp
    BY <2>1 DEF Drop, TypeInv, TypeOK, Storage
  <2>3. \A g \in Files : Pending(g) => loc'[g] \in Inbox /\ disk'.loc[g] \in Inbox
    BY <2>1 DEF Drop, Pending, TypeInv, TypeOK, Storage
  <2> QED
    BY <2>1, <2>2, <2>3 DEF Drop, RetryInv, Pending, HoldsOnDisk
<1>8. CASE Extract \/ CheckLayout \/ CheckStamp
  \* A package that is given up was not one that waits for good.
  <2>1. pkg \in Files /\ UNCHANGED <<root, boot, disk, stamp>>
    BY <1>8, SumType DEF Extract, CheckLayout, CheckStamp, GiveUp, fs
  <2>2. CASE GiveUp("failed") \/ GiveUp("duplicate")
    <3>1. ~Pending(pkg)
      BY <1>8, <2>2, <1>a DEF Extract, CheckLayout, CheckStamp, Pending,
         Applicable, GiveUp, Exit, Goto, Ordinary
    <3> QED
      BY <2>1, <2>2, <3>1, <1>3, <1>a DEF GiveUp, Pending, TypeInv, TypeOK
  <2>3. CASE loc' = loc
    BY <2>1, <2>3, <1>3 DEF Pending
  <2> QED
    BY <1>8, <2>2, <2>3, <1>a DEF Extract, CheckLayout, CheckStamp, fs
<1>9. CASE ApplyRootfs \/ MountBoot \/ InstallBoot \/ SyncBoot
  BY <1>9, <1>2 DEF ApplyRootfs, MountBoot, InstallBoot, SyncBoot, Goto, fs
<1>10. CASE WriteStamp \/ ArchiveApplied \/ SyncAll \/ RequestReboot
  BY <1>10, <1>1 DEF WriteStamp, ArchiveApplied, SyncAll, RequestReboot,
     AfterSync, fs
<1>11. CASE FindPackage \/ PowerOn \/ UNCHANGED vars
  BY <1>11, <1>5 DEF FindPackage, PowerOn, vars
<1>12. CASE Shutdown \/ WriteBack
  BY <1>12, <1>4 DEF Shutdown, WriteBack
<1> QED
  BY <1>b, <1>6, <1>7, <1>8, <1>9, <1>10, <1>11, <1>12
     DEF Next, Script, Environment

\* With ordinary packages, until a command fails, however often power is cut
\* and whatever a power cut leaves, a tablet that does not hold one version
\* throughout has a package to get there.
THEOREM InterruptedUpdatesAreRetried ==
  ASSUME Ordinary
  PROVE  Spec => []InterruptedUpdateIsRetried
<1>1. Init => ScriptInv /\ RetryInv
  <2> SUFFICES ASSUME Init PROVE ScriptInv /\ RetryInv
    OBVIOUS
  <2>1. HoldsOnDisk(Factory)
    BY DEF Init, Current, HoldsOnDisk
  <2> QED
    BY <2>1 DEF Init, Current, ScriptInv, RetryInv, BeforeStamp, AfterSync
<1> DEFINE SoFar == faults = 0 => ScriptInv /\ RetryInv
<1>2. TypeInv /\ SoFar /\ [Next]_vars => SoFar'
  BY FaultsGrow, ScriptNext, RetryNext
<1>3. SoFar => InterruptedUpdateIsRetried
  BY DEF RetryInv, InterruptedUpdateIsRetried, IsWhole, Holds, HoldsOnDisk,
     Pending, Applicable, Retriable, Waiting
<1>4. Init => SoFar
  BY <1>1
<1> HIDE DEF SoFar
<1> QED
  BY <1>4, TypeInit, TypeNext, <1>2, <1>3, PTL DEF Spec

\* A package in an inbox is in the same inbox on disk: only a complete copy of
\* the user, or a power cut, puts one there.
InboxInv == \A f \in Files : loc[f] \in Inbox => disk.loc[f] = loc[f]

LEMMA InboxNext == TypeInv /\ InboxInv /\ [Next]_vars => InboxInv'
<1> SUFFICES ASSUME TypeInv, InboxInv, [Next]_vars, NEW f \in Files,
                    loc'[f] \in Inbox
             PROVE  disk'.loc[f] = loc'[f]
  BY DEF InboxInv
<1>1. CASE disk' = Current /\ loc' = loc
  BY <1>1 DEF Current
<1>2. CASE disk' = disk /\ loc' = loc
  BY <1>2 DEF InboxInv
<1>3. CASE disk' = disk /\ \E place \in Archive : loc' = [loc EXCEPT ![pkg] = place]
  BY <1>3 DEF InboxInv, TypeInv, TypeOK
<1>4. CASE PowerLoss
  BY <1>4 DEF PowerLoss
<1>5. CASE \E g \in Files, place \in Inbox : Drop(g, place)
  BY <1>5 DEF Drop, InboxInv, TypeInv, TypeOK, Storage
<1>6. CASE CheckStamp \/ Extract \/ CheckLayout
  <2>1. \/ disk' = disk /\ loc' = loc
        \/ disk' = disk /\ \E place \in Archive : loc' = [loc EXCEPT ![pkg] = place]
    BY <1>6 DEF CheckStamp, Extract, CheckLayout, GiveUp, fs
  <2> QED
    BY <1>2, <1>3, <2>1
<1>7. CASE ArchiveApplied
  BY <1>3, <1>7 DEF ArchiveApplied
<1>8. CASE SyncBoot \/ SyncAll \/ Shutdown \/ WriteBack
  BY <1>1, <1>8 DEF SyncBoot, SyncAll, Shutdown, WriteBack, fs
<1>9. CASE \/ FindPackage \/ ApplyRootfs \/ MountBoot \/ InstallBoot \/ WriteStamp
           \/ RequestReboot \/ CommandFails \/ PowerOn \/ UNCHANGED vars
  BY <1>2, <1>9 DEF FindPackage, ApplyRootfs, MountBoot, InstallBoot, WriteStamp,
     RequestReboot, CommandFails, PowerOn, fs, vars
<1> QED
  BY <1>4, <1>5, <1>6, <1>7, <1>8, <1>9 DEF Next, Script, Environment

\* Under the same conditions a package is archived as applied only when the
\* tablet holds it throughout.
THEOREM AppliedIsInstalled ==
  ASSUME Ordinary
  PROVE  Spec => AppliedMeansInstalled
<1>1. Init => ScriptInv /\ InboxInv
  BY DEF Init, Current, ScriptInv, BeforeStamp, AfterSync, InboxInv
<1> DEFINE SoFar == faults = 0 => ScriptInv
<1>2. TypeInv /\ SoFar /\ [Next]_vars => SoFar'
  BY FaultsGrow, ScriptNext
<1>3. TypeInv /\ SoFar /\ InboxInv /\ [Next]_vars =>
        [\A f \in Files : loc[f] \in Inbox /\ loc'[f] = "applied" /\ faults = 0
                            => Holds(ContentOf[f])]_vars
  <2> SUFFICES ASSUME TypeInv, ScriptInv, InboxInv, Next, NEW f \in Files,
                      loc[f] \in Inbox, loc'[f] = "applied"
               PROVE  Holds(ContentOf[f])
    OBVIOUS
  <2>1. ArchiveApplied \/ PowerLoss
    BY DEF Next, Script, Environment, FindPackage, CheckStamp, Extract,
       CheckLayout, ApplyRootfs, MountBoot, InstallBoot, SyncBoot, WriteStamp,
       SyncAll, RequestReboot, CommandFails, PowerOn, Shutdown, WriteBack,
       Drop, GiveUp, Fault, fs, TypeInv, TypeOK
  <2>2. CASE ArchiveApplied
    <3>1. f = pkg
      BY <2>2 DEF ArchiveApplied, TypeInv, TypeOK
    <3> QED
      BY <2>2, <3>1 DEF ArchiveApplied, ScriptInv, AfterSync, HoldsOnDisk,
         Holds, sum
  <2>3. CASE PowerLoss
    BY <2>3 DEF PowerLoss, InboxInv
  <2> QED
    BY <2>1, <2>2, <2>3
<1>4. Init => SoFar /\ InboxInv
  BY <1>1
<1> HIDE DEF SoFar
<1> QED
  BY TypeInit, TypeNext, InboxNext, <1>2, <1>3, <1>4, PTL DEF Spec, AppliedMeansInstalled
-----------------------------------------------------------------------------
(* The temporary directories.                                              *)

\* The script has a directory of its own between Extract and its end, and
\* makes a second one at no time.
TmpInv ==
  /\ tmpDirs <= powerLoss + tmp
  /\ pc \in {"off", "find", "check", "extract", "idle", "halting"} => tmp = 0

LEMMA TmpNext == TypeInv /\ TmpInv /\ [Next]_vars => TmpInv'
<1> SUFFICES ASSUME TypeInv, TmpInv, [Next]_vars PROVE TmpInv'
  OBVIOUS
<1> USE DEF TmpInv
<1>0. tmp \in 0..1 /\ tmpDirs \in Nat /\ powerLoss \in Nat
  BY DEF TypeInv, TypeOK
<1>1. ASSUME NEW where, Exit(where), powerLoss' = powerLoss PROVE TmpInv'
  BY <1>0, <1>1 DEF Exit
<1>2. ASSUME NEW s \in Steps \ {"find", "check", "extract"}, Goto(s) PROVE TmpInv'
  BY <1>0, <1>2 DEF Goto, Works, bounds
<1>3. ASSUME NEW place, GiveUp(place) PROVE TmpInv'
  BY <1>1, <1>3 DEF GiveUp, Works, Fault, bounds
<1>4. CASE FindPackage \/ RequestReboot \/ CommandFails
  BY <1>0, <1>1, <1>4 DEF FindPackage, RequestReboot, CommandFails, Works, Fault, bounds
<1>5. CASE CheckStamp
  BY <1>0, <1>3, <1>5 DEF CheckStamp, Goto, Works, bounds
<1>6. CASE Extract
  BY <1>0, <1>1, <1>3, <1>6 DEF Extract, Works, Fault, bounds
<1>7. CASE CheckLayout
  BY <1>2, <1>3, <1>7 DEF CheckLayout
<1>8. CASE ApplyRootfs \/ InstallBoot \/ SyncBoot \/ WriteStamp \/ ArchiveApplied \/ SyncAll
  BY <1>2, <1>8 DEF ApplyRootfs, InstallBoot, SyncBoot, WriteStamp, ArchiveApplied, SyncAll
<1>9. CASE MountBoot
  BY <1>0, <1>2, <1>9 DEF MountBoot, Works, Fault, bounds
<1>10. CASE PowerLoss
  BY <1>0, <1>10 DEF PowerLoss
<1>11. CASE PowerOn \/ Shutdown \/ WriteBack \/ UNCHANGED vars
  BY <1>0, <1>11 DEF PowerOn, Shutdown, WriteBack, process, bounds, vars
<1>12. CASE \E f \in Files, place \in Inbox : Drop(f, place)
  BY <1>0, <1>12 DEF Drop, process, bounds
<1> QED
  BY <1>4, <1>5, <1>6, <1>7, <1>8, <1>9, <1>10, <1>11, <1>12
     DEF Next, Script, Environment

\* Whatever fails, and however often, only power cuts leave temporary
\* directories, one each.
THEOREM TmpLeaksAreCuts == Spec => []OnlyPowerLossLeaksTmp
<1>1. Init => TmpInv
  BY DEF Init, TmpInv
<1>2. TmpInv => OnlyPowerLossLeaksTmp
  BY DEF TmpInv, OnlyPowerLossLeaksTmp
<1> QED
  BY TypeInit, TypeNext, TmpNext, <1>1, <1>2, PTL DEF Spec

=============================================================================
