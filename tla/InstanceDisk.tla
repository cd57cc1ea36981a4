---------------------------- MODULE InstanceDisk ----------------------------
(***************************************************************************)
(* The disk of one instance on its host: the move from the legacy layout   *)
(* (provision/disk.go), backup and restore (provision/backup.go), kernel   *)
(* upgrade and rollback (provision/upgrade.go), resize (provision.go) and  *)
(* templates (provision/template.go).  Files and the instance row cannot   *)
(* change together, so every command is a sequence of durable steps; the   *)
(* instance lock admits one command at a time, and the control plane may   *)
(* fail or die before each step.                                           *)
(***************************************************************************)
EXTENDS Naturals

CONSTANTS
    MaxVer,     \* bound: guest writes
    MaxKernel,  \* bound: kernels the administrator installs
    MaxSize,    \* bound: disk sizes
    MaxCmds,    \* bound: commands
    MaxFaults,  \* bound: crashes and failed steps
    None

VARIABLES
    row,        \* the instance row: disk path, kernel, disk size
    conf,       \* the kernel of the configured image
    boot,       \* how the running VM was booted, or None
    legacy,     \* rootfs.img in the instance directory, or None
    disk,       \* disk/rootfs.img, or None
    stage,      \* the files of the staged subvolume, or None
    journal,    \* disk-migration.json, or None
    log,        \* the log files of the instance
    oldDisk, oldLog,    \* recovery hardlinks of a restore, or None
    stray,      \* temporary files left in disk/: a staged restore, a copy
    upgrade,    \* upgrade.json and the disk it retains, or None
    backup,     \* a backup directory, or None
    template,   \* a published template, or None
    op, pc,     \* the command under the instance lock, and its next step
    rec,        \* what it carries from step to step
    want,       \* the guest data that the user last put in place
    orig,       \* the files a restore began with, or None
    cmds, faults

files == <<legacy, disk, stage, journal>>
links == <<oldDisk, oldLog, stray>>
kept == <<upgrade, backup, template>>
running == <<op, pc, rec>>
ghosts == <<want, orig>>
vars == <<row, conf, boot, files, log, links, kept, running, ghosts, cmds, faults>>

ASSUME InstanceDiskAssumption ==
    /\ MaxVer \in Nat /\ MaxKernel \in Nat \ {0} /\ MaxSize \in Nat \ {0}
    /\ MaxCmds \in Nat /\ MaxFaults \in Nat

Versions == 0 .. MaxVer
Kernels == 1 .. MaxKernel
Sizes == 1 .. MaxSize

\* An image file: guest data, the modules inside, the size of the file and of
\* the filesystem in it, and whether a clone into it was finished.
File == [ver : Versions, mods : Kernels, file : Sizes, fs : Sizes, whole : BOOLEAN]
Whole == {f \in File : f.whole /\ f.fs <= f.file}
Journal == [id : BOOLEAN, ready : BOOLEAN]
Retained ==
    [pending : BOOLEAN, final : BOOLEAN, kernel : Kernels, size : Sizes,
     saved : Whole \cup {None}]
BackupDir ==
    [img : Whole, kernel : Kernels, size : Sizes, log : Nat, done : BOOLEAN]
TemplateDir == [img : Whole, kernel : Kernels, clean : BOOLEAN]
Booted == [kernel : Kernels, conf : Kernels]
Prepared == [old : Whole, new : Whole, kernel : Kernels]
Originals == [disk : Whole, log : Nat]
Commands == {"start", "backup", "restore", "undo", "keep", "upgrade", "rollback",
             "finalize", "resize", "template"}

ASSUME NoneAssumption ==
    /\ None \notin Commands
    /\ None \notin File \cup Journal \cup Booted \cup Retained \cup BackupDir
                        \cup TemplateDir \cup Originals
    /\ None # {} /\ \A f \in File : None # {f}

Image(v, k, s) == [ver |-> v, mods |-> k, file |-> s, fs |-> s, whole |-> TRUE]

Init ==
    /\ \E p \in {"legacy", "disk"} :
         /\ row = [path |-> p, kernel |-> 1, size |-> 1]
         /\ legacy = IF p = "legacy" THEN Image(0, 1, 1) ELSE None
         /\ disk = IF p = "disk" THEN Image(0, 1, 1) ELSE None
    /\ conf = 1 /\ boot = None
    /\ stage = None /\ journal = None
    /\ log = 0 /\ oldDisk = None /\ oldLog = None /\ stray = {}
    /\ upgrade = None /\ backup = None /\ template = None
    /\ op = None /\ pc = "done" /\ rec = None
    /\ want = 0 /\ orig = None
    /\ cmds = 0 /\ faults = 0

\* The image the row names.
Current == IF row.path = "legacy" THEN legacy ELSE disk

Stopped == boot = None
Idle == op = None
\* upgradeFence, and diskMutationFence.
Pending == upgrade # None /\ upgrade.pending

\* Mutant: the fence is not looked at.
UpgradeFenceOff == TRUE

UpgradeFence == ~Pending

MutationFence == journal = None

------------------------------------------------------------------------------
\* Mutant: other files beside the disk are ignored.
CleanUnchecked == TRUE

\* ValidateDiskSubvolume: rootfs.img is alone in disk/.
Clean == oldDisk = None /\ stray = {}

\* ensureDiskLayout: the steps still missing, read off the journal and the
\* files, or a refusal that asks for the operator.
InPlace == journal = None /\ row.path = "disk"
LayoutAccepts ==
    IF InPlace THEN legacy = None /\ stage = None /\ disk # None /\ Clean
    ELSE /\ Stopped
         /\ journal = None => legacy # None /\ disk = None
         /\ journal # None =>
              /\ legacy = None => row.path = "disk" /\ journal.ready
              /\ ~journal.id =>
                   row.path = "legacy" /\ disk = None /\ stage \in {None, {}}
              /\ disk # None => journal.ready /\ stage = None
              /\ (journal.id /\ disk = None) => stage # None

\* snapshotDiskImage and the comparison with the row: a host snapshot refuses an
\* unresolved layout move and never chooses between two layouts.
SnapshotTakes ==
    /\ Idle /\ journal = None /\ stage = None
    /\ (legacy = None) # (disk = None)
    /\ Current # None

\* The steps of each command, in order.  The row is changed before the legacy file
\* goes, and the journal goes last.
LayoutPlan ==
    [jopen |-> "mkstage", mkstage |-> "identify", identify |-> "clone",
     clone |-> "ready", ready |-> "rename", rename |-> "setpath",
     setpath |-> "unlink", unlink |-> "jclose"]
BackupPlan == [snapshot |-> "manifest", manifest |-> "done"]
\* Mutant: the recovery links go before the row is written.
RestorePlanDropsLinks ==
    [stagefiles |-> "linklog", linklog |-> "renlog", renlog |-> "linkdisk",
     linkdisk |-> "rendisk", rendisk |-> "droplinks", droplinks |-> "rowrestore",
     rowrestore |-> "done"]
RestorePlan ==
    [stagefiles |-> "linklog", linklog |-> "renlog", renlog |-> "linkdisk",
     linkdisk |-> "rendisk", rendisk |-> "rowrestore", rowrestore |-> "droplinks",
     droplinks |-> "done"]
\* A restore that failed puts the originals back; when a rename of that fails
\* too, it keeps every link.
UndoPlan ==
    [undodisk |-> "undolog", undolog |-> "droplinks", droplinks |-> "unstage",
     unstage |-> "done"]
KeepPlan == [undolog |-> "unstage", unstage |-> "done"]
UpgradePlan ==
    [prepare |-> "modules", modules |-> "jpending", jpending |-> "copy",
     copy |-> "swap", swap |-> "rowkernel", rowkernel |-> "jsettled",
     jsettled |-> "done"]
RollbackPlan ==
    [jreopen |-> "copy", copy |-> "unswap", unswap |-> "rowold",
     rowold |-> "jsettled", jsettled |-> "done"]
FinalizePlan == [jfinal |-> "unsave", unsave |-> "done"]
TemplatePlan == [tstage |-> "sanitize", sanitize |-> "tpublish", tpublish |-> "done"]
\* Mutant: the row is written before the filesystem grows.
GrowPlanRowFirst == [truncate |-> "rowsize", rowsize |-> "grow", grow |-> "done"]
GrowPlan == [truncate |-> "grow", grow |-> "rowsize", rowsize |-> "done"]

Plan(name) ==
    CASE name = "start" -> [boot |-> "done"]
      [] name = "backup" -> BackupPlan
      [] name = "restore" -> RestorePlan
      [] name = "undo" -> UndoPlan
      [] name = "keep" -> KeepPlan
      [] name = "upgrade" -> UpgradePlan
      [] name = "rollback" -> RollbackPlan
      [] name = "finalize" -> FinalizePlan
      [] name = "resize" -> GrowPlan
      [] name = "template" -> TemplatePlan

\* The first step of a command once the disk has its layout.
First(name) ==
    CASE name = "start" -> "boot"
      [] name = "backup" -> "snapshot"
      [] name = "restore" -> "stagefiles"
      [] name = "upgrade" -> "prepare"
      [] name = "rollback" -> "jreopen"
      [] name = "template" -> "tstage"

\* ensureDiskLayout goes on with the first step that the journal and the files
\* do not show to be done.
LayoutFirst(name) ==
    IF InPlace THEN First(name)
    ELSE IF journal = None THEN "jopen"
    ELSE IF ~journal.id THEN "mkstage"
    ELSE IF disk # None THEN "setpath"
    ELSE IF journal.ready THEN "rename" ELSE "clone"

After(s) ==
    IF s \in DOMAIN LayoutPlan THEN LayoutPlan[s]
    ELSE IF s = "jclose" THEN First(op) ELSE Plan(op)[s]

Begin(name, first) ==
    /\ op' = name /\ pc' = first
    /\ cmds < MaxCmds /\ cmds' = cmds + 1
    /\ orig' = None
    /\ UNCHANGED <<row, conf, boot, files, log, oldDisk, oldLog, kept, want,
                   faults>>

Start ==
    /\ Idle /\ Stopped /\ UpgradeFence /\ LayoutAccepts
    /\ Begin("start", LayoutFirst("start"))
    /\ rec' = None /\ UNCHANGED stray

Stop ==
    /\ Idle /\ boot # None
    /\ boot' = None
    /\ UNCHANGED <<row, conf, files, log, links, kept, running, ghosts, cmds, faults>>

\* The guest writes its disk and its console.
GuestWrite ==
    /\ boot # None /\ Idle /\ want < MaxVer
    /\ want' = want + 1
    /\ disk' = [disk EXCEPT !.ver = want + 1]
    /\ log' = log + 1
    /\ orig' = None
    /\ UNCHANGED <<row, conf, boot, legacy, stage, journal, links, kept, running,
                   cmds, faults>>

\* A running VM, and one with the legacy layout, may be backed up.
Backup ==
    /\ Idle /\ UpgradeFence /\ Current # None
    /\ row.path = "disk" => LayoutAccepts
    /\ backup # None => ~backup.done
    /\ Begin("backup", IF row.path = "disk" THEN LayoutFirst("backup") ELSE "snapshot")
    /\ rec' = None /\ UNCHANGED stray

DeleteBackup ==
    /\ Idle /\ backup # None /\ backup.done
    /\ backup' = None
    /\ UNCHANGED <<row, conf, boot, files, log, links, upgrade, template, running,
                   ghosts, cmds, faults>>

Restore ==
    /\ Idle /\ Stopped /\ UpgradeFence /\ Current # None /\ LayoutAccepts
    /\ backup # None /\ backup.done
    /\ Begin("restore", LayoutFirst("restore"))
    /\ rec' = None /\ UNCHANGED stray

Upgrade ==
    /\ Idle /\ Stopped /\ UpgradeFence /\ LayoutAccepts
    /\ Begin("upgrade", LayoutFirst("upgrade"))
    /\ rec' = None /\ UNCHANGED stray

\* It reclaims the copy of an interrupted attempt first.
RollbackAccepts ==
    /\ upgrade # None /\ ~upgrade.final
    /\ IF InPlace THEN legacy = None /\ stage = None /\ disk # None
                       /\ oldDisk = None /\ stray \subseteq {"copy"}
                  ELSE LayoutAccepts
Rollback ==
    /\ Idle /\ Stopped /\ RollbackAccepts
    /\ Begin("rollback", LayoutFirst("rollback"))
    /\ rec' = None /\ stray' = stray \ {"copy"}

\* Mutant: a pending upgrade may be finalized.
FinalizeAnyAccepts == upgrade # None
FinalizeAccepts == upgrade # None /\ ~upgrade.pending
Finalize ==
    /\ Idle /\ FinalizeAccepts
    /\ Begin("finalize", "jfinal")
    /\ rec' = None /\ UNCHANGED stray

\* Resize to s: nothing to grow when file and row have that size already.
Resize(s) ==
    /\ Idle /\ Stopped /\ UpgradeFence /\ MutationFence
    /\ s >= Current.file
    /\ Begin("resize", IF s > Current.file \/ s > row.size THEN "truncate"
                       ELSE "rowsize")
    /\ rec' = s /\ UNCHANGED stray

CreateTemplate ==
    /\ Idle /\ Stopped /\ UpgradeFence /\ LayoutAccepts /\ template = None
    /\ Begin("template", LayoutFirst("template"))
    /\ rec' = None /\ UNCHANGED stray

DeleteTemplate ==
    /\ Idle /\ template # None
    /\ template' = None
    /\ UNCHANGED <<row, conf, boot, files, log, links, upgrade, backup, running,
                   ghosts, cmds, faults>>

\* The administrator configures another kernel.  The configuration is read when the
\* control plane starts, and a restart under a command is a Crash first.
InstallKernel ==
    /\ Idle /\ conf < MaxKernel
    /\ conf' = conf + 1
    /\ UNCHANGED <<row, boot, files, log, links, kept, running, ghosts, cmds, faults>>

------------------------------------------------------------------------------
\* Steps.  The last one releases the lock.
At(s) == op # None /\ pc = s
Advance(s) ==
    /\ At(s)
    /\ pc' = After(s)
    /\ op' = IF After(s) = "done" THEN None ELSE op
    /\ UNCHANGED <<conf, cmds, faults>>
Step(s) == Advance(s) /\ rec' = IF After(s) = "done" THEN None ELSE rec

JournalOpen ==
    /\ Step("jopen") /\ journal' = [id |-> FALSE, ready |-> FALSE]
    /\ UNCHANGED <<row, boot, legacy, disk, stage, log, links, kept, ghosts>>
MakeStage ==
    /\ Step("mkstage") /\ stage' = IF stage = None THEN {} ELSE stage
    /\ UNCHANGED <<row, boot, legacy, disk, journal, log, links, kept, ghosts>>
Identify ==
    /\ Step("identify") /\ journal' = [journal EXCEPT !.id = TRUE]
    /\ UNCHANGED <<row, boot, legacy, disk, stage, log, links, kept, ghosts>>
\* A clone is first partial, then whole and synced.
CloneStage ==
    /\ At("clone") /\ op' = op /\ UNCHANGED <<conf, cmds, faults>>
    /\ \/ /\ \A f \in stage : f.whole
          /\ stage' = {[legacy EXCEPT !.whole = FALSE]} /\ pc' = pc
       \/ /\ \E f \in stage : ~f.whole
          /\ stage' = {legacy} /\ pc' = After("clone")
    /\ UNCHANGED <<row, boot, legacy, disk, journal, log, links, kept, rec, ghosts>>
StageReady ==
    /\ Step("ready") /\ journal' = [journal EXCEPT !.ready = TRUE]
    /\ UNCHANGED <<row, boot, legacy, disk, stage, log, links, kept, ghosts>>
RenameStage ==
    /\ Step("rename")
    /\ disk' = (CHOOSE f \in stage : TRUE) /\ stage' = None
    /\ UNCHANGED <<row, boot, legacy, journal, log, links, kept, ghosts>>
SetPath ==
    /\ Step("setpath") /\ row' = [row EXCEPT !.path = "disk"]
    /\ UNCHANGED <<boot, files, log, links, kept, ghosts>>
Unlink ==
    /\ Step("unlink") /\ legacy' = None
    /\ UNCHANGED <<row, boot, disk, stage, journal, log, links, kept, ghosts>>
JournalClose ==
    /\ Step("jclose") /\ journal' = None
    /\ UNCHANGED <<row, boot, legacy, disk, stage, log, links, kept, ghosts>>

\* The VM boots the kernel its row names, whatever is configured now.
Boot ==
    /\ Step("boot")
    /\ boot' = [kernel |-> row.kernel, conf |-> conf]
    /\ UNCHANGED <<row, files, log, links, kept, ghosts>>

\* A backup without its manifest is not a backup.
TakeSnapshot ==
    /\ Step("snapshot")
    /\ backup' = [img |-> Current, kernel |-> row.kernel, size |-> row.size,
                  log |-> log, done |-> FALSE]
    /\ UNCHANGED <<row, boot, files, log, links, upgrade, template, ghosts>>
WriteManifest ==
    /\ Step("manifest") /\ backup' = [backup EXCEPT !.done = TRUE]
    /\ UNCHANGED <<row, boot, files, log, links, upgrade, template, ghosts>>

\* A restore clones the backup beside its destinations, then per file links the
\* original aside and renames the clone over it, then writes the row.
StageFiles ==
    /\ Advance("stagefiles")
    /\ rec' = backup
    /\ orig' = [disk |-> disk, log |-> log]
    /\ stray' = stray \cup {"staged"}
    /\ UNCHANGED <<row, boot, files, log, oldDisk, oldLog, kept, want>>
LinkLog ==
    /\ Step("linklog") /\ oldLog' = log
    /\ UNCHANGED <<row, boot, files, log, oldDisk, stray, kept, ghosts>>
RenameLog ==
    /\ Step("renlog") /\ log' = rec.log
    /\ UNCHANGED <<row, boot, files, links, kept, ghosts>>
LinkDisk ==
    /\ Step("linkdisk") /\ oldDisk' = disk
    /\ UNCHANGED <<row, boot, files, log, oldLog, stray, kept, ghosts>>
RenameDisk ==
    /\ Step("rendisk") /\ disk' = rec.img
    /\ stray' = stray \ {"staged"}
    /\ UNCHANGED <<row, boot, legacy, stage, journal, log, oldDisk, oldLog, kept,
                   ghosts>>
RowRestore ==
    /\ Step("rowrestore")
    /\ row' = [row EXCEPT !.kernel = rec.kernel, !.size = rec.size]
    /\ want' = rec.img.ver /\ orig' = None
    /\ UNCHANGED <<boot, files, log, links, kept>>
DropLinks ==
    /\ Step("droplinks") /\ oldDisk' = None /\ oldLog' = None
    /\ UNCHANGED <<row, boot, files, log, stray, kept, ghosts>>

\* rollbackCommittedRestoreFiles: in reverse, over the replacements.  Renaming one
\* link of the disk over another, because it was not replaced yet, keeps both.
UndoDisk ==
    /\ Step("undodisk") /\ disk' = oldDisk
    /\ oldDisk' = IF "staged" \in stray THEN oldDisk ELSE None
    /\ UNCHANGED <<row, boot, legacy, stage, journal, log, oldLog, stray, kept,
                   ghosts>>
UndoLog ==
    /\ Step("undolog") /\ log' = oldLog /\ oldLog' = None
    /\ UNCHANGED <<row, boot, files, oldDisk, stray, kept, ghosts>>
Unstage ==
    /\ Step("unstage") /\ stray' = stray \ {"staged"}
    /\ UNCHANGED <<row, boot, files, log, oldDisk, oldLog, kept, ghosts>>

\* An upgrade keeps the pre-upgrade pair, and fences the disk while the new
\* pair is half in place.
PrepareUpgrade ==
    /\ Advance("prepare")
    /\ rec' = [old |-> disk, new |-> disk, kernel |-> conf]
    /\ UNCHANGED <<row, boot, files, log, links, kept, ghosts>>
\* upgradeModules: the modules of the copied base go into the prepared copy.
InstallModules ==
    /\ Advance("modules") /\ rec' = [rec EXCEPT !.new.mods = rec.kernel]
    /\ UNCHANGED <<row, boot, files, log, links, kept, ghosts>>
JournalPending ==
    /\ Step("jpending")
    /\ upgrade' = [pending |-> TRUE, final |-> FALSE, kernel |-> row.kernel,
                   size |-> row.size, saved |-> rec.old]
    /\ UNCHANGED <<row, boot, files, log, links, backup, template, ghosts>>
\* replaceUpgradeDisk: a copy beside the disk, renamed over it.
CopyDisk ==
    /\ Step("copy") /\ stray' = stray \cup {"copy"}
    /\ UNCHANGED <<row, boot, files, log, oldDisk, oldLog, kept, ghosts>>
SwapDisk ==
    /\ Step("swap") /\ disk' = rec.new /\ stray' = stray \ {"copy"}
    /\ UNCHANGED <<row, boot, legacy, stage, journal, log, oldDisk, oldLog, kept,
                   ghosts>>
RowKernel ==
    /\ Step("rowkernel") /\ row' = [row EXCEPT !.kernel = rec.kernel]
    /\ UNCHANGED <<boot, files, log, links, kept, ghosts>>
JournalSettled ==
    /\ Step("jsettled") /\ upgrade' = [upgrade EXCEPT !.pending = FALSE]
    /\ UNCHANGED <<row, boot, files, log, links, backup, template, ghosts>>
JournalReopen ==
    /\ Step("jreopen") /\ upgrade' = [upgrade EXCEPT !.pending = TRUE]
    /\ UNCHANGED <<row, boot, files, log, links, backup, template, ghosts>>
UnswapDisk ==
    /\ Step("unswap") /\ disk' = upgrade.saved /\ stray' = stray \ {"copy"}
    /\ want' = upgrade.saved.ver
    /\ UNCHANGED <<row, boot, legacy, stage, journal, log, oldDisk, oldLog, kept,
                   orig>>
RowOld ==
    /\ Step("rowold")
    /\ row' = [row EXCEPT !.kernel = upgrade.kernel, !.size = upgrade.size]
    /\ UNCHANGED <<boot, files, log, links, kept, ghosts>>
JournalFinal ==
    /\ Step("jfinal") /\ upgrade' = [upgrade EXCEPT !.final = TRUE]
    /\ UNCHANGED <<row, boot, files, log, links, backup, template, ghosts>>
DropSaved ==
    /\ Step("unsave") /\ upgrade' = [upgrade EXCEPT !.saved = None]
    /\ UNCHANGED <<row, boot, files, log, links, backup, template, ghosts>>

\* growRootFS: the file, then the filesystem in it.
SetCurrent(img) ==
    IF row.path = "legacy" THEN legacy' = img /\ UNCHANGED disk
                           ELSE disk' = img /\ UNCHANGED legacy
Truncate ==
    /\ Step("truncate") /\ SetCurrent([Current EXCEPT !.file = rec])
    /\ UNCHANGED <<row, boot, stage, journal, log, links, kept, ghosts>>
Grow ==
    /\ Step("grow") /\ SetCurrent([Current EXCEPT !.fs = Current.file])
    /\ UNCHANGED <<row, boot, stage, journal, log, links, kept, ghosts>>
RowSize ==
    /\ Step("rowsize") /\ row' = [row EXCEPT !.size = rec]
    /\ UNCHANGED <<boot, files, log, links, kept, ghosts>>

\* A template is a writable snapshot from which the identity of the source is
\* removed, staged with copies of the boot files and renamed into place.
StageTemplate ==
    /\ Advance("tstage")
    /\ rec' = [img |-> disk, kernel |-> row.kernel, clean |-> FALSE]
    /\ UNCHANGED <<row, boot, files, log, links, kept, ghosts>>
SanitizeTemplate ==
    /\ Advance("sanitize") /\ rec' = [rec EXCEPT !.clean = TRUE]
    /\ UNCHANGED <<row, boot, files, log, links, kept, ghosts>>
PublishTemplate ==
    /\ Step("tpublish") /\ template' = rec
    /\ UNCHANGED <<row, boot, files, log, links, upgrade, backup, ghosts>>

Steps ==
    \/ JournalOpen \/ MakeStage \/ Identify \/ CloneStage \/ StageReady
    \/ RenameStage \/ SetPath \/ Unlink \/ JournalClose \/ Boot
    \/ TakeSnapshot \/ WriteManifest
    \/ StageFiles \/ LinkLog \/ RenameLog \/ LinkDisk \/ RenameDisk \/ RowRestore
    \/ DropLinks \/ UndoDisk \/ UndoLog \/ Unstage
    \/ PrepareUpgrade \/ InstallModules \/ JournalPending \/ CopyDisk \/ SwapDisk
    \/ RowKernel \/ JournalSettled \/ JournalReopen \/ UnswapDisk \/ RowOld
    \/ JournalFinal \/ DropSaved \/ Truncate \/ Grow \/ RowSize \/ StageTemplate
    \/ SanitizeTemplate \/ PublishTemplate

------------------------------------------------------------------------------
\* The control plane dies.
Crash ==
    /\ op # None /\ faults < MaxFaults /\ faults' = faults + 1
    /\ op' = None /\ pc' = "done" /\ rec' = None
    /\ UNCHANGED <<row, conf, cmds, boot, files, log, links, kept, ghosts>>

\* A step fails.  A restore rolls back the files it has moved aside, and keeps the
\* links of what it could not; a backup removes its directory; temporary files are
\* removed.
Rolls == op = "restore" /\ pc \in {"renlog", "linkdisk", "rendisk", "rowrestore"}

FailRestore ==
    /\ Rolls /\ faults < MaxFaults /\ faults' = faults + 1
    /\ op' = "undo"
    /\ pc' = IF pc \in {"rendisk", "rowrestore"} THEN "undodisk" ELSE "undolog"
    /\ UNCHANGED <<row, conf, cmds, boot, files, log, links, kept, rec, ghosts>>

\* A failed rename of the rollback is skipped, and no link is removed then.
FailUndo ==
    /\ op # None /\ pc \in {"undodisk", "undolog"}
    /\ faults < MaxFaults /\ faults' = faults + 1
    /\ op' = "keep"
    /\ pc' = IF pc = "undodisk" THEN "undolog" ELSE "unstage"
    /\ UNCHANGED <<row, conf, cmds, boot, files, log, links, kept, rec, ghosts>>

Fail ==
    /\ op # None /\ ~Rolls /\ pc \notin {"undodisk", "undolog", "unstage"}
    /\ faults < MaxFaults /\ faults' = faults + 1
    /\ op' = None /\ pc' = "done" /\ rec' = None
    /\ stray' = IF op \in {"restore", "undo", "upgrade", "rollback"} THEN {} ELSE stray
    /\ backup' = IF op = "backup" /\ At("manifest") THEN None ELSE backup
    /\ UNCHANGED <<row, conf, cmds, boot, files, log, oldDisk, oldLog, upgrade,
                   template, ghosts>>

Next ==
    \/ Start \/ Stop \/ GuestWrite \/ Backup \/ DeleteBackup \/ Restore
    \/ Upgrade \/ Rollback \/ Finalize \/ CreateTemplate \/ DeleteTemplate
    \/ \E s \in 1 .. MaxSize : Resize(s)
    \/ InstallKernel \/ Steps \/ Crash \/ FailRestore \/ FailUndo \/ Fail

Spec == Init /\ [][Next]_vars

------------------------------------------------------------------------------
\* A disk that no fence protects: the next start would boot it.
Bootable == Idle /\ ~Pending /\ LayoutAccepts

\* What would be booted is a whole image with the guest data last put in place:
\* no crash or failure of a layout move, an upgrade, a restore or its rollback
\* leaves a lost, partial or half-replaced disk that a start would accept.  A
\* host snapshot that is not refused has that data too, in the image or, after an
\* interrupted restore, in the recovery link beside it.
PathHoldsData ==
    /\ Bootable => Current # None /\ Current.whole /\ Current.ver = want
    /\ SnapshotTakes => /\ Current.whole
                        /\ \/ Current.ver = want
                           \/ oldDisk # None /\ oldDisk.ver = want

\* The kernel that would boot, or that a backup or a template carries along, is
\* the one whose modules are in the image next to it; a template that can be used
\* has lost the identity of its source.  Starts keep the stored pair for this: the
\* documents that promise the configured kernel instead are BootsConfigured.
PairMatches ==
    /\ Bootable => Current.mods = row.kernel
    /\ (backup # None /\ backup.done) => backup.img.mods = backup.kernel
    /\ template # None => template.img.mods = template.kernel /\ template.clean

\* Until a restore has changed the row, the disk and the log it replaces are in
\* place or kept under a recovery link, even after a crash or a failed rollback.
OriginalKept ==
    orig # None => orig.disk \in {disk, oldDisk} /\ orig.log \in {log, oldLog}

\* Short of what an interrupted restore left in disk/, a stopped instance always
\* has a command that goes on: start, or, while an upgrade is pending, a rollback
\* to the pre-upgrade pair, which is whole and matches.
Recoverable ==
    (Idle /\ Stopped /\ oldDisk = None /\ "staged" \notin stray) =>
        IF Pending
          THEN /\ RollbackAccepts
               /\ upgrade.saved # None /\ upgrade.saved.whole
               /\ upgrade.saved.mods = upgrade.kernel
          ELSE LayoutAccepts

\* The row never promises a larger filesystem than there is, so that a failed
\* grow is resumed by the same request.
SizeIsReal == Bootable => row.size <= Current.fs

\* Documented of every stopped guest: it picks up "the currently configured
\* `SRV_BASE_KERNEL`" on its next start (README.md and docs/), also after a restore.
\* Boot takes the kernel of the row.
BootsConfigured == boot # None => boot.kernel = boot.conf

------------------------------------------------------------------------------
LayoutSteps == DOMAIN LayoutPlan \cup {"jclose"}
StepsOf(name) ==
    DOMAIN Plan(name) \cup
    IF name \in {"start", "backup", "restore", "upgrade", "rollback", "template"}
      THEN LayoutSteps ELSE {}

TypeOK ==
    /\ row \in [path : {"legacy", "disk"}, kernel : Kernels, size : Sizes]
    /\ conf \in Kernels /\ boot \in Booted \cup {None}
    /\ legacy \in Whole \cup {None} /\ disk \in Whole \cup {None}
    /\ stage = None \/ stage \subseteq File
    /\ journal \in Journal \cup {None}
    /\ log \in Nat
    /\ oldDisk \in Whole \cup {None} /\ (oldLog = None \/ oldLog \in Nat)
    /\ stray \subseteq {"staged", "copy"}
    /\ upgrade \in Retained \cup {None}
    /\ backup \in BackupDir \cup {None} /\ template \in TemplateDir \cup {None}
    /\ op \in Commands \cup {None}
    /\ pc \in IF op = None THEN {"done"} ELSE StepsOf(op)
    /\ want \in Versions /\ orig \in Originals \cup {None}
    /\ cmds \in Nat /\ faults \in Nat

\* The inductive invariant.  The files and the row agree on how far a layout move
\* has come: the legacy file goes only after its whole clone is in place and the
\* row names it.
LayoutInv ==
    /\ journal = None =>
         /\ stage = None
         /\ IF row.path = "legacy" THEN legacy # None /\ disk = None
                                   ELSE legacy = None /\ disk # None
    /\ journal # None =>
         /\ journal.ready => journal.id
         /\ ~journal.id => stage \in {None, {}}
         /\ (journal.id /\ disk = None) => stage # None
         /\ (journal.ready /\ disk = None) => stage = {legacy}
         /\ disk # None => journal.ready /\ stage = None /\ legacy \in {None, disk}
         /\ legacy = None => row.path = "disk"
         /\ row.path = "disk" => disk # None

\* An image that fits the row.
Good(f) == f.ver = want /\ f.mods = row.kernel /\ row.size <= f.fs

\* The image in place fits the row, but for what an upgrade or an interrupted
\* restore has replaced, and those leave something behind that says so.
DataInv ==
    /\ (oldDisk = None /\ ~Pending) => Good(Current)
    /\ Current.ver = want \/ (oldDisk # None /\ oldDisk.ver = want)
    /\ (oldDisk # None \/ stray # {} \/ Pending \/ boot # None) => InPlace
    /\ "copy" \in stray => Pending
    /\ Pending => oldDisk = None /\ "staged" \notin stray /\ boot = None
    /\ boot # None => Clean

\* What is kept aside is a matching pair.
KeptInv ==
    /\ upgrade # None =>
         /\ ~(upgrade.pending /\ upgrade.final)
         /\ upgrade.final
            \/ /\ upgrade.saved # None /\ upgrade.saved.mods = upgrade.kernel
               /\ upgrade.size <= upgrade.saved.fs
    /\ backup # None =>
         backup.img.mods = backup.kernel /\ backup.size <= backup.img.fs
    /\ template # None => template.img.mods = template.kernel /\ template.clean
    /\ orig # None =>
         /\ op \in {None, "restore", "undo", "keep"}
         /\ InPlace /\ ~Pending /\ Good(orig.disk)

\* How far a layout move, and a command that needed none, have come.
LayoutStepInv ==
    /\ op \notin {None, "backup", "finalize"} => boot = None
    /\ pc = "jopen" => journal = None /\ row.path = "legacy"
    /\ pc \in LayoutSteps \ {"jopen"} => journal # None
    /\ pc \in {"mkstage", "identify"} => ~journal.id
    /\ pc = "identify" => stage = {}
    /\ pc \in {"clone", "ready"} => journal.id /\ ~journal.ready
    /\ pc = "ready" => stage = {legacy}
    /\ pc = "rename" => journal.ready /\ disk = None
    /\ pc \in {"setpath", "unlink", "jclose"} => disk # None
    /\ pc \in {"unlink", "jclose"} => row.path = "disk"
    /\ pc = "jclose" => legacy = None
    /\ pc \in {"snapshot", "manifest"} => oldDisk = None /\ ~Pending
    /\ pc = "manifest" => backup # None
    /\ pc \in {"boot", "stagefiles", "prepare", "modules", "jpending", "tstage"} =>
         InPlace /\ Clean /\ ~Pending

\* How far a restore and its rollback have come.
RestoreInv ==
    /\ (op = "restore" /\ pc \in LayoutSteps \cup {"stagefiles"}) =>
         backup # None /\ orig = None
    /\ pc \in {"linklog", "renlog", "linkdisk", "rendisk", "rowrestore"} =>
         /\ orig # None
         /\ rec \in BackupDir
         /\ rec.img.mods = rec.kernel /\ rec.size <= rec.img.fs
    /\ pc \in {"linklog", "renlog", "linkdisk", "rendisk"} => disk = orig.disk
    /\ pc \in {"linklog", "renlog", "linkdisk"} => oldDisk = None
    /\ pc \in {"linklog", "renlog"} => log = orig.log
    /\ pc \in {"renlog", "linkdisk", "rendisk", "rowrestore", "undodisk", "undolog"} =>
         oldLog = orig.log
    /\ pc \in {"rendisk", "rowrestore", "undodisk"} => oldDisk = orig.disk
    /\ pc = "rowrestore" => disk = rec.img
    /\ (op = "restore" /\ pc = "droplinks") =>
         orig = None /\ InPlace /\ ~Pending /\ Good(disk)
    /\ op \in {"undo", "keep"} => orig # None
    /\ (op = "undo" /\ pc \in {"undolog", "droplinks", "unstage"}) => disk = orig.disk
    /\ (op = "undo" /\ pc = "droplinks") => log = orig.log

\* How far an upgrade, a rollback and a finalization have come.
UpgradeInv ==
    /\ op = "upgrade" /\ pc \notin LayoutSteps \cup {"prepare"} =>
         /\ rec \in Prepared
         /\ rec.new.ver = want /\ row.size <= rec.new.fs
         /\ pc \in {"modules", "jpending"} => rec.old = disk
         /\ pc # "modules" => rec.new.mods = rec.kernel
         /\ pc \in {"rowkernel", "jsettled"} => disk = rec.new
         /\ pc = "jsettled" => row.kernel = rec.kernel
    /\ op = "rollback" =>
         /\ upgrade # None /\ ~upgrade.final
         /\ pc \in {"rowold", "jsettled"} => disk = upgrade.saved
         /\ pc = "jsettled" => row.kernel = upgrade.kernel /\ row.size = upgrade.size
    /\ pc = "jreopen" => InPlace /\ Clean
    /\ pc \in {"copy", "swap", "unswap", "rowkernel", "rowold", "jsettled"} => Pending
    /\ pc \in {"rowkernel", "rowold", "jsettled"} => stray = {}
    /\ pc \in {"jfinal", "unsave"} => upgrade # None /\ ~upgrade.pending
    /\ pc = "unsave" => upgrade.final

\* How far a resize and a template have come.
GrowInv ==
    /\ op = "resize" => rec \in Sizes /\ journal = None /\ ~Pending
    /\ pc = "truncate" => Current.file <= rec
    /\ pc = "grow" => Current.file = rec
    /\ pc = "rowsize" => oldDisk # None \/ rec <= Current.fs
    /\ pc \in {"sanitize", "tpublish"} =>
         rec \in TemplateDir /\ rec.img.mods = rec.kernel
    /\ pc = "tpublish" => rec.clean

IInv ==
    /\ LayoutInv /\ DataInv /\ KeptInv /\ OriginalKept
    /\ LayoutStepInv /\ RestoreInv /\ UpgradeInv /\ GrowInv

==============================================================================
