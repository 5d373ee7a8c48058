---------------------------- MODULE UpdateApply ----------------------------
(***************************************************************************)
(* The offline update service of the tablet: rk-apply-update.sh, run once  *)
(* per boot by rk-apply-update.service, before multi-user.target.          *)
(*                                                                         *)
(* Update packages are dropped in an inbox.  At boot the script picks one, *)
(* unpacks it over / and over the boot partition, writes the checksum of   *)
(* the package in a stamp file, archives the package and reboots.  Every   *)
(* command of the script may fail, and power may be cut between any two of *)
(* them: what was written since the last sync then survives or not, each   *)
(* file on its own.                                                        *)
(***************************************************************************)
EXTENDS Integers

CONSTANTS
  Files,         \* the package files a user may drop
  Contents,      \* what a package file can contain, told apart by SHA-256
  ContentOf,     \* [Files -> Contents]
  Extractable,   \* the contents "tar -xzf" can unpack
  WithRootfs,    \* the contents with a rootfs/ directory
  WithBoot,      \* the contents with a boot/ directory
  BootFiles,     \* how many files a boot payload installs
  MaxTime,       \* bound: modification times are 0..MaxTime
  MaxPowerLoss,  \* bound: how often power is cut
  MaxFault       \* bound: how often a command of the script fails

\* The values of root, boot and stamp that are not the content of a package.
Factory == "factory"   \* what the image was flashed with
Torn    == "torn"      \* written in part
NoSum   == "none"      \* no stamp file, or an empty one
NoFile  == "none"

ASSUME UpdateAssumption ==
  /\ ContentOf \in [Files -> Contents]
  /\ Extractable \subseteq Contents
  /\ WithRootfs \subseteq Contents
  /\ WithBoot \subseteq Contents
  /\ BootFiles \in Nat \ {0}
  /\ Factory \notin Contents /\ Torn \notin Contents /\ NoSum \notin Contents
  /\ NoFile \notin Files
  /\ MaxTime \in Nat /\ MaxPowerLoss \in Nat /\ MaxFault \in Nat

VARIABLES
  loc,          \* where each file is
  mtime,        \* the modification time of each file
  stamp,        \* the checksum in STAMP_FILE
  root,         \* what the root file system holds
  boot,         \* what each file of the boot partition holds
  disk,         \* the part of loc, stamp, root and boot a power cut leaves
  pc,           \* where the script, or the tablet, is
  pkg,          \* PKG_FILE
  nextFile,     \* the number of the next boot file to install
  tmp,          \* 1 when TMP_DIR is set
  tmpDirs,      \* the temporary directories left in /var/tmp
  bootMounted,  \* 1 when /boot is a mount point
  weMounted,    \* BOOT_WAS_MOUNTED
  powerLoss,    \* power cuts so far
  faults        \* failed commands so far

fs      == <<loc, stamp, root, boot>>
process == <<pc, pkg, nextFile, tmp, tmpDirs, bootMounted, weMounted>>
bounds  == <<powerLoss, faults>>
vars    == <<fs, mtime, disk, process, bounds>>

Inbox   == {"compat", "pending", "home"}
Archive == {"applied", "failed", "duplicate"}
Places  == {"absent"} \cup Inbox \cup Archive

Steps == {"find", "check", "extract", "layout", "rootfs", "mount", "boot",
          "stamp", "archive", "sync", "reboot"}

Storage == [loc : [Files -> Places], stamp : Contents \cup {NoSum},
            root : Contents \cup {Factory, Torn},
            boot : [1..BootFiles -> Contents \cup {Factory, Torn}]]

TypeOK ==
  /\ loc \in [Files -> Places]
  /\ mtime \in [Files -> 0..MaxTime]
  /\ stamp \in Contents \cup {NoSum}
  /\ root \in Contents \cup {Factory, Torn}
  /\ boot \in [1..BootFiles -> Contents \cup {Factory, Torn}]
  /\ disk \in Storage
  /\ pc \in Steps \cup {"off", "idle", "halting"}
  /\ pkg \in Files \cup {NoFile}
  /\ pc \in Steps \ {"find"} => pkg \in Files
  /\ nextFile \in 1..(BootFiles + 1)
  /\ tmp \in 0..1 /\ bootMounted \in 0..1 /\ weMounted \in 0..1
  /\ tmpDirs \in Nat
  /\ powerLoss \in 0..MaxPowerLoss
  /\ faults \in 0..MaxFault

Current == [loc |-> loc, stamp |-> stamp, root |-> root, boot |-> boot]

Init ==
  /\ loc = [f \in Files |-> "absent"]
  /\ mtime = [f \in Files |-> 0]
  /\ stamp = NoSum
  /\ root = Factory
  /\ boot = [i \in 1..BootFiles |-> Factory]
  /\ disk = Current
  /\ pc = "off" /\ pkg = NoFile /\ nextFile = 1
  /\ tmp = 0 /\ tmpDirs = 0 /\ bootMounted = 0 /\ weMounted = 0
  /\ powerLoss = 0 /\ faults = 0

-----------------------------------------------------------------------------
(* find_update_package                                                     *)

InPlace(p) == {f \in Files : loc[f] = p}

Newest(S) == {f \in S : \A g \in S : mtime[g] <= mtime[f]}

\* The compatibility file is taken before any other.  Of the inbox         
\* directories the later one wins only with a strictly newer file.
Candidates ==
  IF InPlace("compat") # {} THEN InPlace("compat")
  ELSE IF InPlace("home") = {} THEN Newest(InPlace("pending"))
  ELSE IF InPlace("pending") = {} THEN Newest(InPlace("home"))
  ELSE {h \in Newest(InPlace("home")) :
          \A p \in InPlace("pending") : mtime[h] > mtime[p]}
       \cup {p \in Newest(InPlace("pending")) :
          \A h \in InPlace("home") : mtime[h] <= mtime[p]}

sum == ContentOf[pkg]    \* PKG_SUM

-----------------------------------------------------------------------------
(* How the script goes on, and how it ends.                                *)

Works == UNCHANGED <<mtime, bounds>>

Goto(step) ==
  /\ pc' = step
  /\ UNCHANGED <<pkg, tmp, tmpDirs, bootMounted, weMounted>>
  /\ Works

\* Mutant: the trap forgets the temporary directory.
ExitLeavingTmp(where) ==
  /\ pc' = where
  /\ pkg' = NoFile
  /\ tmp' = 0
  /\ weMounted' = 0
  /\ bootMounted' = bootMounted - weMounted
  /\ UNCHANGED tmpDirs

\* The EXIT trap: TMP_DIR is removed, and /boot unmounted if the script
\* mounted it ("umount /boot || true" may fail).
Exit(where) ==
  /\ pc' = where
  /\ pkg' = NoFile
  /\ tmp' = 0
  /\ tmpDirs' = tmpDirs - tmp
  /\ weMounted' = 0
  /\ \/ bootMounted' = bootMounted - weMounted
     \/ bootMounted' = bootMounted

Fault ==
  /\ faults < MaxFault
  /\ faults' = faults + 1
  /\ UNCHANGED <<mtime, powerLoss>>

\* archive_package and exit: a failing move is ignored ("|| true").
GiveUp(place) ==
  /\ Exit("idle")
  /\ \/ loc' = [loc EXCEPT ![pkg] = place] /\ Works
     \/ UNCHANGED loc /\ Fault
  /\ UNCHANGED <<stamp, root, boot, disk, nextFile>>

-----------------------------------------------------------------------------
(* The script, step by step.                                               *)

FindPackage ==
  /\ pc = "find"
  /\ \/ /\ Candidates = {}
        /\ Exit("idle")
     \/ \E f \in Candidates :
          /\ pkg' = f
          /\ pc' = "check"
          /\ UNCHANGED <<tmp, tmpDirs, bootMounted, weMounted>>
  /\ Works
  /\ UNCHANGED <<fs, disk, nextFile>>

\* Mutant: a duplicate stays in the inbox.
CheckStampOnly ==
  /\ pc = "check"
  /\ IF stamp = sum THEN Exit("idle") /\ Works ELSE Goto("extract")
  /\ UNCHANGED <<fs, disk, nextFile>>

\* The package applied last is not applied again.
CheckStamp ==
  /\ pc = "check"
  /\ IF stamp = sum
     THEN GiveUp("duplicate")
     ELSE Goto("extract") /\ UNCHANGED <<fs, disk, nextFile>>

\* A package that does not unpack, whatever the reason, is given up.
Extract ==
  /\ pc = "extract"
  /\ \/ /\ sum \in Extractable
        /\ pc' = "layout" /\ tmp' = 1 /\ tmpDirs' = tmpDirs + 1
        /\ Works
        /\ UNCHANGED <<fs, disk, nextFile, pkg, bootMounted, weMounted>>
     \/ /\ sum \notin Extractable
        /\ GiveUp("failed")
     \/ /\ loc' = [loc EXCEPT ![pkg] = "failed"]   \* /var/tmp is full
        /\ Exit("idle") /\ Fault
        /\ UNCHANGED <<stamp, root, boot, disk, nextFile>>

CheckLayout ==
  /\ pc = "layout"
  /\ IF sum \in WithRootfs \cup WithBoot
     THEN Goto("rootfs") /\ UNCHANGED <<fs, disk, nextFile>>
     ELSE GiveUp("failed")

ApplyRootfs ==
  /\ pc = "rootfs"
  /\ root' = IF sum \in WithRootfs THEN sum ELSE root
  /\ Goto("mount")
  /\ UNCHANGED <<loc, stamp, boot, disk, nextFile>>

\* If no boot partition is found, or it does not mount, the boot payload is
\* skipped and the script goes on.
MountBoot ==
  /\ pc = "mount"
  /\ UNCHANGED <<fs, disk>>
  /\ \/ /\ sum \notin WithBoot
        /\ Goto("stamp") /\ UNCHANGED nextFile
     \/ /\ sum \in WithBoot
        /\ pc' = "boot" /\ nextFile' = 1
        /\ bootMounted' = 1 /\ weMounted' = 1 - bootMounted
        /\ Works /\ UNCHANGED <<pkg, tmp, tmpDirs>>
     \/ /\ sum \in WithBoot /\ bootMounted = 0
        /\ pc' = "stamp" /\ Fault
        /\ UNCHANGED <<pkg, tmp, tmpDirs, bootMounted, weMounted, nextFile>>

\* One "install -m 0644" for each boot file, in order, and then a sync.
InstallBoot ==
  /\ pc = "boot" /\ nextFile <= BootFiles
  /\ boot' = [boot EXCEPT ![nextFile] = sum]
  /\ nextFile' = nextFile + 1
  /\ Goto("boot")
  /\ UNCHANGED <<loc, stamp, root, disk>>

\* Mutants: no sync, and the last file forgotten.
SyncBootNot ==
  /\ pc = "boot" /\ nextFile > BootFiles
  /\ Goto("stamp")
  /\ UNCHANGED <<fs, disk, nextFile>>

SyncBootEarly ==
  /\ pc = "boot" /\ nextFile >= BootFiles
  /\ disk' = Current
  /\ Goto("stamp")
  /\ UNCHANGED <<fs, nextFile>>

SyncBoot ==
  /\ pc = "boot" /\ nextFile > BootFiles
  /\ disk' = Current
  /\ Goto("stamp")
  /\ UNCHANGED <<fs, nextFile>>

\* Mutant: the name of the package for its checksum.
WriteStampName ==
  /\ pc = "stamp"
  /\ stamp' = pkg
  /\ Goto("archive")
  /\ UNCHANGED <<loc, root, boot, disk, nextFile>>

WriteStamp ==
  /\ pc = "stamp"
  /\ stamp' = sum
  /\ Goto("archive")
  /\ UNCHANGED <<loc, root, boot, disk, nextFile>>

ArchiveApplied ==
  /\ pc = "archive"
  /\ loc' = [loc EXCEPT ![pkg] = "applied"]
  /\ Goto("sync")
  /\ UNCHANGED <<stamp, root, boot, disk, nextFile>>

\* Mutant: no sync before the reboot.
SyncAllNot ==
  /\ pc = "sync"
  /\ Goto("reboot")
  /\ UNCHANGED <<fs, disk, nextFile>>

SyncAll ==
  /\ pc = "sync"
  /\ disk' = Current
  /\ Goto("reboot")
  /\ UNCHANGED <<fs, nextFile>>

\* "systemctl --no-block reboot", and the script ends.
RequestReboot ==
  /\ pc = "reboot"
  /\ Exit("halting")
  /\ Works
  /\ UNCHANGED <<fs, disk, nextFile>>

\* "set -euo pipefail": any command of a step may fail, half done, and ends
\* the script.  The package stays where it is.
CommandFails ==
  /\ pc \in Steps
  /\ root' = IF pc = "rootfs" /\ sum \in WithRootfs THEN Torn ELSE root
  /\ boot' = IF pc = "boot" /\ nextFile <= BootFiles
             THEN [boot EXCEPT ![nextFile] = Torn] ELSE boot
  /\ stamp' = IF pc = "stamp" THEN NoSum ELSE stamp
  /\ Fault /\ Exit("idle")
  /\ UNCHANGED <<loc, disk, nextFile>>

Script ==
  \/ FindPackage \/ CheckStamp \/ Extract \/ CheckLayout \/ ApplyRootfs
  \/ MountBoot \/ InstallBoot \/ SyncBoot \/ WriteStamp \/ ArchiveApplied
  \/ SyncAll \/ RequestReboot

-----------------------------------------------------------------------------
(* The tablet and its user.                                                *)

\* The boot loader needs the kernel and the device tree whole.
Bootable == \A i \in 1..BootFiles : boot[i] # Torn

PowerOn ==
  /\ pc = "off"
  /\ Bootable
  /\ pc' = "find"
  /\ bootMounted' \in 0..1
  /\ UNCHANGED <<fs, mtime, disk, pkg, nextFile, tmp, tmpDirs, weMounted, bounds>>

\* An orderly shutdown writes everything back.
Shutdown ==
  /\ pc \in {"idle", "halting"}
  /\ pc' = "off"
  /\ bootMounted' = 0
  /\ disk' = Current
  /\ UNCHANGED <<fs, mtime, pkg, nextFile, tmp, tmpDirs, weMounted, bounds>>

\* The kernel writes everything back in the background.
WriteBack ==
  /\ disk # Current
  /\ disk' = Current
  /\ UNCHANGED <<fs, mtime, process, bounds>>

\* What a power cut leaves of something written since the last sync: the old
\* value, the new one, or, for file contents, a part of it.
Survives(old, new, part) == {old, new} \cup (IF old = new THEN {} ELSE {part})

PowerLoss ==
  /\ pc # "off"
  /\ powerLoss < MaxPowerLoss
  /\ powerLoss' = powerLoss + 1
  /\ \E moved \in SUBSET Files :
       loc' = [f \in Files |-> IF f \in moved THEN loc[f] ELSE disk.loc[f]]
  /\ stamp' \in Survives(disk.stamp, stamp, NoSum)
  /\ root' \in Survives(disk.root, root, Torn)
  /\ boot' \in {b \in [1..BootFiles -> Contents \cup {Factory, Torn}] :
                  \A i \in 1..BootFiles :
                    b[i] \in Survives(disk.boot[i], boot[i], Torn)}
  /\ disk' = [loc |-> loc', stamp |-> stamp', root |-> root', boot |-> boot']
  /\ pc' = "off" /\ pkg' = NoFile /\ nextFile' = 1
  /\ bootMounted' = 0 /\ weMounted' = 0 /\ tmp' = 0
  /\ UNCHANGED <<mtime, tmpDirs, faults>>

\* A user copies a package to an inbox, from the running tablet or on
\* another machine.  The copy is complete.
Drop(f, place) ==
  /\ pc \in {"off", "idle"}
  /\ loc[f] = "absent"
  /\ place = "compat" => InPlace("compat") = {}
  /\ loc' = [loc EXCEPT ![f] = place]
  /\ disk' = [disk EXCEPT !.loc[f] = place]
  /\ \E t \in 0..MaxTime : mtime' = [mtime EXCEPT ![f] = t]
  /\ UNCHANGED <<stamp, root, boot, process, bounds>>

Environment ==
  \/ PowerOn \/ Shutdown \/ WriteBack \/ PowerLoss
  \/ \E f \in Files, place \in Inbox : Drop(f, place)

Next == Script \/ CommandFails \/ Environment

Spec == Init /\ [][Next]_vars

\* systemd runs the script at every boot, and its user turns the tablet off
\* and on again.
FairSpec == Spec /\ WF_vars(Script) /\ WF_vars(PowerOn) /\ WF_vars(Shutdown)

-----------------------------------------------------------------------------
(* What the service is for.                                                *)

Holds(c)    == root = c /\ \A i \in 1..BootFiles : boot[i] = c
Waiting     == {f \in Files : loc[f] \in Inbox}
IsWhole     == \E c \in Contents \cup {Factory} : Holds(c)

\* The packages an inbox holds that unpack, have a payload, and are not taken
\* for duplicates.
Retriable ==
  {f \in Waiting : /\ ContentOf[f] \in Extractable \cap WithRootfs \cap WithBoot
                   /\ ContentOf[f] # stamp}

\* As long as no command has failed, a tablet that does not hold one version
\* throughout still has, in an inbox, a package that a next boot will apply:
\* wherever power is cut, the update is done again.
InterruptedUpdateIsRetried == faults = 0 => IsWhole \/ Retriable # {}

\* The script asks for a reboot only when a power cut can no longer lose the
\* record of the update: it is not applied, and the tablet not rebooted,
\* again and again.
RebootsOnlyWhenRecorded ==
  pc = "reboot" => disk.stamp = sum /\ disk.loc[pkg] = "applied"

\* Only a power cut leaves a temporary directory in /var/tmp: whatever step
\* fails, the EXIT trap removes it.
OnlyPowerLossLeaksTmp == tmpDirs <= powerLoss + tmp

\* A package is archived as applied only when both the root file system and
\* the boot partition hold it (README.md:372-375), as long as no command has
\* failed: a boot partition that does not mount is only logged.
AppliedMeansInstalled ==
  [][\A f \in Files :
       loc[f] \in Inbox /\ loc'[f] = "applied" /\ faults = 0
         => Holds(ContentOf[f])]_vars

\* Every package dropped in an inbox is dealt with in the end, unless the boot
\* partition was left half written and the tablet does not boot.
EveryPackageIsTaken ==
  []<>(Bootable => Waiting = {})

=============================================================================
