------------------------- MODULE InstanceDiskProofs -------------------------
(***************************************************************************)
(* Proofs about InstanceDisk, for any number of writes, kernels, sizes,    *)
(* commands and faults.  One lemma per action keeps the invariant IInv,    *)
(* from which the properties follow.                                       *)
(***************************************************************************)
EXTENDS InstanceDisk, TLAPS

\* The order of the steps.
LEMMA Flow ==
    /\ After("jopen") = "mkstage" /\ After("mkstage") = "identify"
    /\ After("identify") = "clone" /\ After("clone") = "ready"
    /\ After("ready") = "rename" /\ After("rename") = "setpath"
    /\ After("setpath") = "unlink" /\ After("unlink") = "jclose"
    /\ After("jclose") = First(op)
    /\ op = "start" => After("boot") = "done"
    /\ op = "backup" => After("snapshot") = "manifest" /\ After("manifest") = "done"
    /\ op = "restore" =>
         /\ After("stagefiles") = "linklog" /\ After("linklog") = "renlog"
         /\ After("renlog") = "linkdisk" /\ After("linkdisk") = "rendisk"
         /\ After("rendisk") = "rowrestore" /\ After("rowrestore") = "droplinks"
         /\ After("droplinks") = "done"
    /\ op = "undo" =>
         /\ After("undodisk") = "undolog" /\ After("undolog") = "droplinks"
         /\ After("droplinks") = "unstage" /\ After("unstage") = "done"
    /\ op = "keep" => After("undolog") = "unstage" /\ After("unstage") = "done"
    /\ op = "upgrade" =>
         /\ After("prepare") = "modules" /\ After("modules") = "jpending"
         /\ After("jpending") = "copy" /\ After("copy") = "swap"
         /\ After("swap") = "rowkernel" /\ After("rowkernel") = "jsettled"
         /\ After("jsettled") = "done"
    /\ op = "rollback" =>
         /\ After("jreopen") = "copy" /\ After("copy") = "unswap"
         /\ After("unswap") = "rowold" /\ After("rowold") = "jsettled"
         /\ After("jsettled") = "done"
    /\ op = "finalize" => After("jfinal") = "unsave" /\ After("unsave") = "done"
    /\ op = "resize" =>
         /\ After("truncate") = "grow" /\ After("grow") = "rowsize"
         /\ After("rowsize") = "done"
    /\ op = "template" =>
         /\ After("tstage") = "sanitize" /\ After("sanitize") = "tpublish"
         /\ After("tpublish") = "done"
PROOF
<1> USE DEF After, LayoutPlan, Plan
<1>1. /\ After("jopen") = "mkstage" /\ After("mkstage") = "identify"
      /\ After("identify") = "clone" /\ After("clone") = "ready"
      /\ After("ready") = "rename" /\ After("rename") = "setpath"
      /\ After("setpath") = "unlink" /\ After("unlink") = "jclose"
      /\ After("jclose") = First(op)
  OBVIOUS
<1>2. op = "start" => After("boot") = "done"
  OBVIOUS
<1>3. op = "backup" => After("snapshot") = "manifest" /\ After("manifest") = "done"
  BY DEF BackupPlan
<1>4. op = "restore" =>
         /\ After("stagefiles") = "linklog" /\ After("linklog") = "renlog"
         /\ After("renlog") = "linkdisk" /\ After("linkdisk") = "rendisk"
         /\ After("rendisk") = "rowrestore" /\ After("rowrestore") = "droplinks"
         /\ After("droplinks") = "done"
  BY DEF RestorePlan
<1>5. op = "undo" =>
         /\ After("undodisk") = "undolog" /\ After("undolog") = "droplinks"
         /\ After("droplinks") = "unstage" /\ After("unstage") = "done"
  BY DEF UndoPlan
<1>6. op = "keep" => After("undolog") = "unstage" /\ After("unstage") = "done"
  BY DEF KeepPlan
<1>7. op = "upgrade" =>
         /\ After("prepare") = "modules" /\ After("modules") = "jpending"
         /\ After("jpending") = "copy" /\ After("copy") = "swap"
         /\ After("swap") = "rowkernel" /\ After("rowkernel") = "jsettled"
         /\ After("jsettled") = "done"
  BY DEF UpgradePlan
<1>8. op = "rollback" =>
         /\ After("jreopen") = "copy" /\ After("copy") = "unswap"
         /\ After("unswap") = "rowold" /\ After("rowold") = "jsettled"
         /\ After("jsettled") = "done"
  BY DEF RollbackPlan
<1>9. op = "finalize" => After("jfinal") = "unsave" /\ After("unsave") = "done"
  BY DEF FinalizePlan
<1>10. op = "resize" =>
         /\ After("truncate") = "grow" /\ After("grow") = "rowsize"
         /\ After("rowsize") = "done"
  BY DEF GrowPlan
<1>11. op = "template" =>
         /\ After("tstage") = "sanitize" /\ After("sanitize") = "tpublish"
         /\ After("tpublish") = "done"
  BY DEF TemplatePlan
<1>12. QED
  BY <1>1, <1>2, <1>3, <1>4, <1>5, <1>6, <1>7, <1>8, <1>9, <1>10, <1>11

\* The steps of each command.
LEMMA StepSets ==
    /\ LayoutSteps = {"jopen", "mkstage", "identify", "clone", "ready", "rename",
                      "setpath", "unlink", "jclose"}
    /\ StepsOf("start") = LayoutSteps \cup {"boot"}
    /\ StepsOf("backup") = LayoutSteps \cup {"snapshot", "manifest"}
    /\ StepsOf("restore") =
         LayoutSteps \cup {"stagefiles", "linklog", "renlog", "linkdisk", "rendisk",
                           "rowrestore", "droplinks"}
    /\ StepsOf("undo") = {"undodisk", "undolog", "droplinks", "unstage"}
    /\ StepsOf("keep") = {"undolog", "unstage"}
    /\ StepsOf("upgrade") =
         LayoutSteps \cup {"prepare", "modules", "jpending", "copy", "swap", "rowkernel",
                           "jsettled"}
    /\ StepsOf("rollback") =
         LayoutSteps \cup {"jreopen", "copy", "unswap", "rowold", "jsettled"}
    /\ StepsOf("finalize") = {"jfinal", "unsave"}
    /\ StepsOf("resize") = {"truncate", "grow", "rowsize"}
    /\ StepsOf("template") = LayoutSteps \cup {"tstage", "sanitize", "tpublish"}
PROOF
<1>1. LayoutSteps = {"jopen", "mkstage", "identify", "clone", "ready", "rename",
                     "setpath", "unlink", "jclose"}
  BY DEF LayoutSteps, LayoutPlan
<1> HIDE DEF LayoutSteps
<1>2. /\ StepsOf("start") = LayoutSteps \cup {"boot"}
      /\ StepsOf("backup") = LayoutSteps \cup {"snapshot", "manifest"}
  BY DEF StepsOf, Plan, BackupPlan
<1>3. /\ StepsOf("restore") =
           LayoutSteps \cup {"stagefiles", "linklog", "renlog", "linkdisk", "rendisk",
                             "rowrestore", "droplinks"}
      /\ StepsOf("undo") = {"undodisk", "undolog", "droplinks", "unstage"}
      /\ StepsOf("keep") = {"undolog", "unstage"}
  BY DEF StepsOf, Plan, RestorePlan, UndoPlan, KeepPlan
<1>4. /\ StepsOf("upgrade") =
           LayoutSteps \cup {"prepare", "modules", "jpending", "copy", "swap",
                             "rowkernel", "jsettled"}
      /\ StepsOf("rollback") =
           LayoutSteps \cup {"jreopen", "copy", "unswap", "rowold", "jsettled"}
      /\ StepsOf("finalize") = {"jfinal", "unsave"}
  BY DEF StepsOf, Plan, UpgradePlan, RollbackPlan, FinalizePlan
<1>5. /\ StepsOf("resize") = {"truncate", "grow", "rowsize"}
      /\ StepsOf("template") = LayoutSteps \cup {"tstage", "sanitize", "tpublish"}
  BY DEF StepsOf, Plan, GrowPlan, TemplatePlan
<1>6. QED
  BY <1>1, <1>2, <1>3, <1>4, <1>5

\* Which command a step belongs to.
LEMMA WhoseStep ==
    ASSUME TypeOK, op # None
    PROVE  /\ op \in Commands /\ pc \in StepsOf(op) /\ pc # "done"
           /\ pc \in LayoutSteps =>
                op \in {"start", "backup", "restore", "upgrade", "rollback", "template"}
           /\ pc = "boot" => op = "start"
           /\ pc \in {"snapshot", "manifest"} => op = "backup"
           /\ pc \in {"stagefiles", "linklog", "renlog", "linkdisk", "rendisk",
                      "rowrestore"} => op = "restore"
           /\ pc = "droplinks" => op \in {"restore", "undo"}
           /\ pc = "undodisk" => op = "undo"
           /\ pc \in {"undolog", "unstage"} => op \in {"undo", "keep"}
           /\ pc \in {"prepare", "modules", "jpending", "swap", "rowkernel"} =>
                op = "upgrade"
           /\ pc \in {"copy", "jsettled"} => op \in {"upgrade", "rollback"}
           /\ pc \in {"jreopen", "unswap", "rowold"} => op = "rollback"
           /\ pc \in {"jfinal", "unsave"} => op = "finalize"
           /\ pc \in {"truncate", "grow", "rowsize"} => op = "resize"
           /\ pc \in {"tstage", "sanitize", "tpublish"} => op = "template"
PROOF
<1>1. op \in Commands /\ pc \in StepsOf(op)
  BY DEF TypeOK
<1>2. op \in {"start", "backup", "restore", "undo", "keep", "upgrade", "rollback",
              "finalize", "resize", "template"}
  BY <1>1 DEF Commands
<1>3. QED
  BY <1>1, <1>2, StepSets

\* No command runs a step of its own before its first one, nor after "done".
LEMMA FirstIsStep ==
    ASSUME NEW name \in {"start", "backup", "restore", "upgrade", "rollback", "template"}
    PROVE  First(name) \in StepsOf(name) /\ First(name) # "done"
PROOF
  BY StepSets DEF First

\* A command that has ended has promised nothing about its steps.
LEMMA IdleSteps ==
    ASSUME op' = None, pc' = "done"
    PROVE  LayoutStepInv' /\ RestoreInv' /\ UpgradeInv' /\ GrowInv'
PROOF
<1> USE NoneAssumption, StepSets DEF Commands
<1>1. LayoutStepInv'
  BY DEF LayoutStepInv
<1>2. RestoreInv'
  BY DEF RestoreInv
<1>3. UpgradeInv'
  BY DEF UpgradeInv
<1>4. GrowInv'
  BY DEF GrowInv
<1>5. QED
  BY <1>1, <1>2, <1>3, <1>4

\* The step a layout move goes on with is the one the files ask for.
LEMMA LayoutFirstFacts ==
    ASSUME TypeOK, LayoutInv,
           NEW name \in {"start", "backup", "restore", "upgrade", "rollback", "template"}
    PROVE  /\ LayoutFirst(name) \in StepsOf(name)
           /\ InPlace => LayoutFirst(name) = First(name)
           /\ ~InPlace =>
                LayoutFirst(name) \in {"jopen", "mkstage", "clone", "rename", "setpath"}
           /\ LayoutFirst(name) = "jopen" => journal = None /\ row.path = "legacy"
           /\ LayoutFirst(name) \in {"mkstage", "clone", "rename", "setpath"} =>
                journal # None
           /\ LayoutFirst(name) = "mkstage" => ~journal.id
           /\ LayoutFirst(name) = "clone" => journal.id /\ ~journal.ready /\ disk = None
           /\ LayoutFirst(name) = "rename" => journal.ready /\ disk = None
           /\ LayoutFirst(name) = "setpath" => disk # None
PROOF
<1>1. First(name) \notin LayoutSteps
  BY StepSets DEF First
<1>2. CASE InPlace
  BY <1>1, <1>2, FirstIsStep, StepSets DEF LayoutFirst
<1>3. CASE ~InPlace
  <2>1. LayoutSteps \subseteq StepsOf(name)
    BY StepSets
  <2>2. row.path \in {"legacy", "disk"}
    BY DEF TypeOK
  <2>3. QED
    BY <1>3, <2>1, <2>2, StepSets DEF LayoutFirst, InPlace
<1>4. QED
  BY <1>2, <1>3

\* Taking the lock changes no file.
LEMMA BeginKeeps ==
    ASSUME TypeOK, IInv, op = None, NEW name \in Commands, NEW first \in StepsOf(name),
           Begin(name, first), stray' \in {stray, stray \ {"copy"}}
    PROVE  TypeOK' /\ LayoutInv' /\ DataInv' /\ KeptInv' /\ OriginalKept'
PROOF
<1> USE NoneAssumption DEF IInv, Begin, files, kept
<1>1. TypeOK'
  BY InstanceDiskAssumption DEF TypeOK
<1>2. LayoutInv'
  BY DEF LayoutInv
<1>3. DataInv'
  BY DEF DataInv, Good, Pending, InPlace, Clean, Current
<1>4. KeptInv'
  BY DEF KeptInv
<1>5. OriginalKept'
  BY DEF OriginalKept
<1>6. QED
  BY <1>1, <1>2, <1>3, <1>4, <1>5

\* A start finds a clean disk, or a layout move to go on with.
LEMMA StartKeeps ==
    ASSUME TypeOK, IInv, Start
    PROVE  TypeOK' /\ IInv'
PROOF
<1> USE StepSets DEF IInv, Start, Idle, Stopped, UpgradeFence, files, kept
<1>1. /\ op = None /\ boot = None /\ ~Pending /\ op' = "start"
      /\ pc' = LayoutFirst("start") /\ First("start") = "boot"
      /\ UNCHANGED <<row, boot, files, oldDisk, stray, kept>> /\ orig' = None
  BY DEF Begin, First
<1>2. InPlace => Clean
  BY DEF LayoutAccepts
<1>3. TypeOK' /\ LayoutInv' /\ DataInv' /\ KeptInv' /\ OriginalKept'
  BY <1>1, LayoutFirstFacts, BeginKeeps DEF Commands
<1>4. LayoutStepInv'
  BY <1>1, <1>2, LayoutFirstFacts DEF LayoutStepInv, InPlace, Clean, Pending
<1>5. RestoreInv' /\ UpgradeInv' /\ GrowInv'
  BY <1>1, LayoutFirstFacts DEF RestoreInv, UpgradeInv, GrowInv
<1>6. QED
  BY <1>3, <1>4, <1>5

\* A backup finds no recovery link and no pending upgrade.
LEMMA BackupKeeps ==
    ASSUME TypeOK, IInv, Backup
    PROVE  TypeOK' /\ IInv'
PROOF
<1> USE StepSets DEF IInv, Backup, Idle, UpgradeFence, files, kept
<1> DEFINE first == IF row.path = "disk" THEN LayoutFirst("backup") ELSE "snapshot"
<1>1. /\ op = None /\ ~Pending /\ op' = "backup" /\ Begin("backup", first)
      /\ pc' = first /\ First("backup") = "snapshot"
      /\ UNCHANGED <<row, boot, files, oldDisk, stray, kept>> /\ orig' = None
  BY DEF Begin, First
<1>2. oldDisk = None
  BY DEF DataInv, LayoutAccepts, InPlace, Clean
<1>3. first \in StepsOf("backup")
  BY LayoutFirstFacts
<1>4. TypeOK' /\ LayoutInv' /\ DataInv' /\ KeptInv' /\ OriginalKept'
  BY <1>1, <1>3, BeginKeeps DEF Commands
<1>5. LayoutStepInv'
  BY <1>1, <1>2, LayoutFirstFacts DEF LayoutStepInv, InPlace, Pending
<1>6. RestoreInv' /\ UpgradeInv' /\ GrowInv'
  BY <1>1, LayoutFirstFacts DEF RestoreInv, UpgradeInv, GrowInv
<1>7. QED
  BY <1>4, <1>5, <1>6

\* A restore finds a clean disk and a finished backup.
LEMMA RestoreKeeps ==
    ASSUME TypeOK, IInv, Restore
    PROVE  TypeOK' /\ IInv'
PROOF
<1> USE StepSets DEF IInv, Restore, Idle, Stopped, UpgradeFence, files, kept
<1>1. /\ op = None /\ boot = None /\ ~Pending /\ op' = "restore" /\ backup # None
      /\ pc' = LayoutFirst("restore") /\ First("restore") = "stagefiles"
      /\ UNCHANGED <<row, boot, files, oldDisk, stray, kept>> /\ orig' = None
  BY DEF Begin, First
<1>2. InPlace => Clean
  BY DEF LayoutAccepts
<1>3. TypeOK' /\ LayoutInv' /\ DataInv' /\ KeptInv' /\ OriginalKept'
  BY <1>1, LayoutFirstFacts, BeginKeeps DEF Commands
<1>4. LayoutStepInv'
  BY <1>1, <1>2, LayoutFirstFacts DEF LayoutStepInv, InPlace, Clean, Pending
<1>5. RestoreInv' /\ UpgradeInv' /\ GrowInv'
  BY <1>1, LayoutFirstFacts DEF RestoreInv, UpgradeInv, GrowInv
<1>6. QED
  BY <1>3, <1>4, <1>5

\* An upgrade finds a clean disk, and none pending.
LEMMA UpgradeKeeps ==
    ASSUME TypeOK, IInv, Upgrade
    PROVE  TypeOK' /\ IInv'
PROOF
<1> USE StepSets DEF IInv, Upgrade, Idle, Stopped, UpgradeFence, files, kept
<1>1. /\ op = None /\ boot = None /\ ~Pending /\ op' = "upgrade"
      /\ pc' = LayoutFirst("upgrade") /\ First("upgrade") = "prepare"
      /\ UNCHANGED <<row, boot, files, oldDisk, stray, kept>> /\ orig' = None
  BY DEF Begin, First
<1>2. InPlace => Clean
  BY DEF LayoutAccepts
<1>3. TypeOK' /\ LayoutInv' /\ DataInv' /\ KeptInv' /\ OriginalKept'
  BY <1>1, LayoutFirstFacts, BeginKeeps DEF Commands
<1>4. LayoutStepInv'
  BY <1>1, <1>2, LayoutFirstFacts DEF LayoutStepInv, InPlace, Clean, Pending
<1>5. RestoreInv' /\ UpgradeInv' /\ GrowInv'
  BY <1>1, LayoutFirstFacts DEF RestoreInv, UpgradeInv, GrowInv
<1>6. QED
  BY <1>3, <1>4, <1>5

\* A rollback finds a retained disk, and reclaims the copy of the last attempt.
LEMMA RollbackKeeps ==
    ASSUME TypeOK, IInv, Rollback
    PROVE  TypeOK' /\ IInv'
PROOF
<1> USE StepSets DEF IInv, Rollback, Idle, Stopped, files, kept
<1>1. /\ op = None /\ boot = None /\ op' = "rollback"
      /\ upgrade # None /\ ~upgrade.final
      /\ pc' = LayoutFirst("rollback") /\ First("rollback") = "jreopen"
      /\ UNCHANGED <<row, boot, files, oldDisk, kept>> /\ orig' = None
      /\ stray' = stray \ {"copy"}
  BY DEF Begin, First, RollbackAccepts
<1>2. InPlace => oldDisk = None /\ stray' = {}
  BY <1>1 DEF RollbackAccepts
<1>3. TypeOK' /\ LayoutInv' /\ DataInv' /\ KeptInv' /\ OriginalKept'
  BY <1>1, LayoutFirstFacts, BeginKeeps DEF Commands
<1>4. LayoutStepInv'
  BY <1>1, LayoutFirstFacts DEF LayoutStepInv
<1>5. RestoreInv' /\ UpgradeInv' /\ GrowInv'
  BY <1>1, <1>2, LayoutFirstFacts DEF RestoreInv, UpgradeInv, GrowInv, InPlace, Clean
<1>6. QED
  BY <1>3, <1>4, <1>5

\* A template starts from a clean disk.
LEMMA CreateTemplateKeeps ==
    ASSUME TypeOK, IInv, CreateTemplate
    PROVE  TypeOK' /\ IInv'
PROOF
<1> USE StepSets DEF IInv, CreateTemplate, Idle, Stopped, UpgradeFence, files, kept
<1>1. /\ op = None /\ boot = None /\ ~Pending /\ op' = "template"
      /\ pc' = LayoutFirst("template") /\ First("template") = "tstage"
      /\ UNCHANGED <<row, boot, files, oldDisk, stray, kept>> /\ orig' = None
  BY DEF Begin, First
<1>2. InPlace => Clean
  BY DEF LayoutAccepts
<1>3. TypeOK' /\ LayoutInv' /\ DataInv' /\ KeptInv' /\ OriginalKept'
  BY <1>1, LayoutFirstFacts, BeginKeeps DEF Commands
<1>4. LayoutStepInv'
  BY <1>1, <1>2, LayoutFirstFacts DEF LayoutStepInv, InPlace, Clean, Pending
<1>5. RestoreInv' /\ UpgradeInv' /\ GrowInv'
  BY <1>1, LayoutFirstFacts DEF RestoreInv, UpgradeInv, GrowInv
<1>6. QED
  BY <1>3, <1>4, <1>5

\* Only a settled upgrade is finalized.
LEMMA FinalizeKeeps ==
    ASSUME TypeOK, IInv, Finalize
    PROVE  TypeOK' /\ IInv'
PROOF
<1> USE StepSets DEF IInv, Finalize, FinalizeAccepts, Idle, files, kept
<1>1. /\ op = None /\ op' = "finalize" /\ upgrade # None /\ ~upgrade.pending
      /\ pc' = "jfinal" /\ UNCHANGED <<upgrade, stray>>
  BY DEF Begin
<1>2. TypeOK' /\ LayoutInv' /\ DataInv' /\ KeptInv' /\ OriginalKept'
  BY <1>1, BeginKeeps DEF Commands
<1>3. LayoutStepInv' /\ RestoreInv' /\ UpgradeInv' /\ GrowInv'
  BY <1>1 DEF LayoutStepInv, RestoreInv, UpgradeInv, GrowInv
<1>4. QED
  BY <1>2, <1>3

\* A resize to the size of file and row has nothing to grow.
LEMMA ResizeKeeps ==
    ASSUME TypeOK, IInv, NEW s \in 1 .. MaxSize, Resize(s)
    PROVE  TypeOK' /\ IInv'
PROOF
<1> USE StepSets, InstanceDiskAssumption
    DEF IInv, Resize, Idle, Stopped, UpgradeFence, MutationFence, files, kept
<1>1. /\ op = None /\ boot = None /\ ~Pending /\ op' = "resize" /\ journal = None
      /\ s >= Current.file /\ rec' = s
      /\ pc' = IF s > Current.file \/ s > row.size THEN "truncate" ELSE "rowsize"
      /\ UNCHANGED <<row, boot, files, oldDisk, stray, kept, want>>
  BY DEF Begin
<1>2. TypeOK' /\ LayoutInv' /\ DataInv' /\ KeptInv' /\ OriginalKept'
  BY <1>1, BeginKeeps DEF Commands
<1>3. Current \in Whole /\ row.size \in Sizes /\ Current' = Current
  BY <1>1 DEF LayoutInv, Current, TypeOK
<1>4. Current.file \in Nat /\ Current.fs \in Nat /\ row.size \in Nat
  BY <1>3 DEF Whole, File, Sizes
<1>5. pc' = "rowsize" => oldDisk # None \/ s <= Current.fs
  BY <1>1, <1>4 DEF DataInv, Good
<1>6. LayoutStepInv' /\ RestoreInv' /\ UpgradeInv'
  BY <1>1 DEF LayoutStepInv, RestoreInv, UpgradeInv
<1>7. GrowInv'
  BY <1>1, <1>3, <1>5 DEF GrowInv, Sizes, Pending
<1>8. QED
  BY <1>2, <1>6, <1>7

\* The journal opens before anything is staged.
LEMMA JournalOpenKeeps ==
    ASSUME TypeOK, IInv, JournalOpen
    PROVE  TypeOK' /\ IInv'
PROOF
<1> USE NoneAssumption, InstanceDiskAssumption, StepSets
    DEF IInv, JournalOpen, files, links, kept, ghosts, running
<1>1. /\ pc = "jopen" /\ op # None
      /\ op \in {"start", "backup", "restore", "upgrade", "rollback", "template"}
      /\ op' = op /\ pc' = "mkstage" /\ rec' = rec
      /\ UNCHANGED <<conf, cmds, faults>>
  BY WhoseStep, Flow DEF Step, Advance, At
<1> USE <1>1
<1>2. /\ journal' \in Journal /\ ~journal'.id /\ ~journal'.ready
  BY DEF Journal
<1>3. journal' # None
  BY <1>2
<1>4. TypeOK'
  BY <1>2, <1>3 DEF TypeOK
<1>5. LayoutInv'
  BY <1>2 DEF LayoutInv, LayoutStepInv
<1>6. DataInv'
  BY <1>2 DEF DataInv, LayoutStepInv, UpgradeInv, Good, Pending, InPlace, Current
<1>7. KeptInv'
  BY <1>2 DEF KeptInv, RestoreInv, Good, InPlace
<1>8. OriginalKept'
  BY DEF OriginalKept
<1>9. LayoutStepInv'
  BY <1>3 DEF LayoutStepInv
<1>10. RestoreInv' /\ UpgradeInv' /\ GrowInv'
  BY DEF RestoreInv, UpgradeInv, GrowInv
<1>11. QED
  BY <1>4, <1>5, <1>6, <1>7, <1>8, <1>9, <1>10 DEF IInv

\* The staged subvolume is made, or found, empty.
LEMMA MakeStageKeeps ==
    ASSUME TypeOK, IInv, MakeStage
    PROVE  TypeOK' /\ IInv'
PROOF
<1> USE NoneAssumption, InstanceDiskAssumption, StepSets
    DEF IInv, MakeStage, files, links, kept, ghosts, running
<1>1. /\ pc = "mkstage" /\ op # None
      /\ op \in {"start", "backup", "restore", "upgrade", "rollback", "template"}
      /\ op' = op /\ pc' = "identify" /\ rec' = rec
      /\ UNCHANGED <<conf, cmds, faults>>
  BY WhoseStep, Flow DEF Step, Advance, At
<1> USE <1>1
<1>2. /\ journal # None /\ ~journal.id /\ stage \in {None, {}} /\ stage' = {}
      /\ disk = None /\ legacy # None /\ row.path = "legacy"
  BY DEF LayoutStepInv, LayoutInv, LayoutSteps, TypeOK
<1>3. TypeOK'
  BY <1>2 DEF TypeOK
<1>4. LayoutInv'
  BY <1>2 DEF LayoutInv
<1>5. DataInv'
  BY DEF DataInv, Good, Pending, InPlace, Clean, Current
<1>6. KeptInv'
  BY DEF KeptInv, Good, Pending, InPlace
<1>7. OriginalKept'
  BY DEF OriginalKept
<1>8. LayoutStepInv'
  BY <1>2 DEF LayoutStepInv
<1>9. RestoreInv' /\ UpgradeInv' /\ GrowInv'
  BY DEF RestoreInv, UpgradeInv, GrowInv
<1>10. QED
  BY <1>3, <1>4, <1>5, <1>6, <1>7, <1>8, <1>9 DEF IInv

\* The journal names the staged subvolume.
LEMMA IdentifyKeeps ==
    ASSUME TypeOK, IInv, Identify
    PROVE  TypeOK' /\ IInv'
PROOF
<1> USE NoneAssumption, InstanceDiskAssumption, StepSets
    DEF IInv, Identify, files, links, kept, ghosts, running
<1>1. /\ pc = "identify" /\ op # None
      /\ op \in {"start", "backup", "restore", "upgrade", "rollback", "template"}
      /\ op' = op /\ pc' = "clone" /\ rec' = rec
      /\ UNCHANGED <<conf, cmds, faults>>
  BY WhoseStep, Flow DEF Step, Advance, At
<1> USE <1>1
<1>2. /\ journal # None /\ ~journal.id /\ ~journal.ready /\ stage = {}
      /\ disk = None /\ legacy # None /\ row.path = "legacy"
  BY DEF LayoutStepInv, LayoutInv, TypeOK
<1>3. /\ journal' \in Journal /\ journal'.id /\ ~journal'.ready
  BY <1>2 DEF Journal, TypeOK
<1>4. journal' # None
  BY <1>2, <1>3
<1>5. TypeOK'
  BY <1>2, <1>3, <1>4 DEF TypeOK
<1>6. LayoutInv'
  BY <1>2, <1>4 DEF LayoutInv
<1>7. DataInv'
  BY <1>2, <1>3 DEF DataInv, Good, Pending, InPlace, Current
<1>8. KeptInv'
  BY <1>2, <1>3 DEF KeptInv, Good, InPlace
<1>9. OriginalKept'
  BY DEF OriginalKept
<1>10. LayoutStepInv'
  BY <1>2, <1>4 DEF LayoutStepInv
<1>11. RestoreInv' /\ UpgradeInv' /\ GrowInv'
  BY DEF RestoreInv, UpgradeInv, GrowInv
<1>12. QED
  BY <1>5, <1>6, <1>7, <1>8, <1>9, <1>10, <1>11 DEF IInv

\* A clone is partial before it is whole, and only a whole one is declared ready.
LEMMA CloneStageKeeps ==
    ASSUME TypeOK, IInv, CloneStage
    PROVE  TypeOK' /\ IInv'
PROOF
<1> USE NoneAssumption, StepSets DEF IInv, links, kept, ghosts
<1>1. /\ pc = "clone" /\ op # None /\ op' = op
      /\ op \in {"start", "backup", "restore", "upgrade", "rollback", "template"}
      /\ UNCHANGED <<row, conf, boot, legacy, disk, journal, log, links, kept, rec, ghosts,
                     cmds, faults>>
  BY WhoseStep DEF CloneStage, At
<1>2. /\ journal # None /\ journal.id /\ ~journal.ready
      /\ disk = None /\ legacy # None /\ legacy \in Whole
  BY <1>1 DEF LayoutStepInv, LayoutInv, TypeOK
<1>3. legacy \in File /\ [legacy EXCEPT !.whole = FALSE] \in File
  BY <1>2 DEF Whole, File
<1>4. \/ stage' = {[legacy EXCEPT !.whole = FALSE]} /\ pc' = "clone"
      \/ stage' = {legacy} /\ pc' = "ready"
  BY <1>1, Flow DEF CloneStage
<1>5. stage' \subseteq File /\ stage' # None
  BY <1>3, <1>4
<1>6. TypeOK'
  BY <1>1, <1>4, <1>5 DEF TypeOK
<1>7. LayoutInv'
  BY <1>1, <1>2, <1>5 DEF LayoutInv
<1>8. DataInv' /\ KeptInv' /\ OriginalKept'
  BY <1>1 DEF DataInv, KeptInv, OriginalKept, Good, Pending, InPlace, Clean, Current
<1>9. LayoutStepInv'
  BY <1>1, <1>4 DEF LayoutStepInv
<1>10. RestoreInv' /\ UpgradeInv' /\ GrowInv'
  BY <1>1, <1>4 DEF RestoreInv, UpgradeInv, GrowInv
<1>11. QED
  BY <1>6, <1>7, <1>8, <1>9, <1>10

\* The stage is ready once it holds all of the legacy image.
LEMMA StageReadyKeeps ==
    ASSUME TypeOK, IInv, StageReady
    PROVE  TypeOK' /\ IInv'
PROOF
<1> USE NoneAssumption, InstanceDiskAssumption, StepSets
    DEF IInv, StageReady, files, links, kept, ghosts, running
<1>1. /\ pc = "ready" /\ op # None
      /\ op \in {"start", "backup", "restore", "upgrade", "rollback", "template"}
      /\ op' = op /\ pc' = "rename" /\ rec' = rec
      /\ UNCHANGED <<conf, cmds, faults>>
  BY WhoseStep, Flow DEF Step, Advance, At
<1> USE <1>1
<1>2. /\ journal # None /\ journal.id /\ stage = {legacy}
      /\ disk = None /\ legacy # None /\ row.path = "legacy"
  BY DEF LayoutStepInv, LayoutInv, TypeOK
<1>3. /\ journal' \in Journal /\ journal'.id /\ journal'.ready
  BY <1>2 DEF Journal, TypeOK
<1>4. journal' # None
  BY <1>2, <1>3
<1>5. TypeOK'
  BY <1>2, <1>3, <1>4 DEF TypeOK
<1>6. LayoutInv'
  BY <1>2, <1>4 DEF LayoutInv
<1>7. DataInv'
  BY <1>2, <1>3 DEF DataInv, Good, Pending, InPlace, Current
<1>8. KeptInv'
  BY <1>2, <1>3 DEF KeptInv, Good, InPlace
<1>9. OriginalKept'
  BY DEF OriginalKept
<1>10. LayoutStepInv'
  BY <1>2, <1>4 DEF LayoutStepInv
<1>11. RestoreInv' /\ UpgradeInv' /\ GrowInv'
  BY DEF RestoreInv, UpgradeInv, GrowInv
<1>12. QED
  BY <1>5, <1>6, <1>7, <1>8, <1>9, <1>10, <1>11 DEF IInv

\* The staged image goes into place beside the legacy one.
LEMMA RenameStageKeeps ==
    ASSUME TypeOK, IInv, RenameStage
    PROVE  TypeOK' /\ IInv'
PROOF
<1> USE NoneAssumption, InstanceDiskAssumption, StepSets
    DEF IInv, RenameStage, files, links, kept, ghosts, running
<1>1. /\ pc = "rename" /\ op # None
      /\ op \in {"start", "backup", "restore", "upgrade", "rollback", "template"}
      /\ op' = op /\ pc' = "setpath" /\ rec' = rec
      /\ UNCHANGED <<conf, cmds, faults>>
  BY WhoseStep, Flow DEF Step, Advance, At
<1> USE <1>1
<1>2. /\ journal # None /\ journal.ready /\ stage = {legacy}
      /\ disk = None /\ legacy # None /\ row.path = "legacy"
  BY DEF LayoutStepInv, LayoutInv, TypeOK
<1>3. disk' = legacy
  BY <1>2
<1>4. TypeOK'
  BY <1>2, <1>3 DEF TypeOK
<1>5. LayoutInv'
  BY <1>2 DEF LayoutInv
<1>6. DataInv'
  BY <1>2 DEF DataInv, Good, Pending, InPlace, Current
<1>7. KeptInv'
  BY DEF KeptInv, Good, Pending, InPlace
<1>8. OriginalKept'
  BY <1>2 DEF OriginalKept, RestoreInv, KeptInv
<1>9. LayoutStepInv'
  BY <1>2 DEF LayoutStepInv
<1>10. RestoreInv' /\ UpgradeInv' /\ GrowInv'
  BY DEF RestoreInv, UpgradeInv, GrowInv
<1>11. QED
  BY <1>4, <1>5, <1>6, <1>7, <1>8, <1>9, <1>10 DEF IInv

\* The row names the image that is in place.
LEMMA SetPathKeeps ==
    ASSUME TypeOK, IInv, SetPath
    PROVE  TypeOK' /\ IInv'
PROOF
<1> USE NoneAssumption, InstanceDiskAssumption, StepSets
    DEF IInv, SetPath, files, links, kept, ghosts, running
<1>1. /\ pc = "setpath" /\ op # None
      /\ op \in {"start", "backup", "restore", "upgrade", "rollback", "template"}
      /\ op' = op /\ pc' = "unlink" /\ rec' = rec
      /\ UNCHANGED <<conf, cmds, faults>>
  BY WhoseStep, Flow DEF Step, Advance, At
<1> USE <1>1
<1>2. /\ journal # None /\ disk # None /\ legacy \in {None, disk}
  BY DEF LayoutStepInv, LayoutInv
<1>3. /\ row' \in [path : {"legacy", "disk"}, kernel : Kernels, size : Sizes]
      /\ row'.path = "disk" /\ row'.kernel = row.kernel /\ row'.size = row.size
  BY <1>2 DEF TypeOK
<1>4. TypeOK'
  BY <1>2, <1>3 DEF TypeOK
<1>5. LayoutInv'
  BY <1>2 DEF LayoutInv
<1>6. DataInv'
  BY <1>2 DEF LayoutInv, DataInv, Good, Pending, InPlace, Current
<1>7. KeptInv'
  BY DEF KeptInv, Good, Pending, InPlace
<1>8. OriginalKept'
  BY DEF OriginalKept
<1>9. LayoutStepInv'
  BY DEF LayoutStepInv
<1>10. RestoreInv' /\ UpgradeInv' /\ GrowInv'
  BY DEF RestoreInv, UpgradeInv, GrowInv
<1>11. QED
  BY <1>4, <1>5, <1>6, <1>7, <1>8, <1>9, <1>10 DEF IInv

\* The legacy image goes once the row does not name it.
LEMMA UnlinkKeeps ==
    ASSUME TypeOK, IInv, Unlink
    PROVE  TypeOK' /\ IInv'
PROOF
<1> USE NoneAssumption, InstanceDiskAssumption, StepSets
    DEF IInv, Unlink, files, links, kept, ghosts, running
<1>1. /\ pc = "unlink" /\ op # None
      /\ op \in {"start", "backup", "restore", "upgrade", "rollback", "template"}
      /\ op' = op /\ pc' = "jclose" /\ rec' = rec
      /\ UNCHANGED <<conf, cmds, faults>>
  BY WhoseStep, Flow DEF Step, Advance, At
<1> USE <1>1
<1>2. /\ journal # None /\ disk # None /\ row.path = "disk"
  BY DEF LayoutStepInv, LayoutInv
<1>3. TypeOK'
  BY <1>2 DEF TypeOK
<1>4. LayoutInv'
  BY <1>2 DEF LayoutInv
<1>5. DataInv'
  BY <1>2 DEF DataInv, Good, Pending, InPlace, Current
<1>6. KeptInv'
  BY DEF KeptInv, Good, Pending, InPlace
<1>7. OriginalKept'
  BY DEF OriginalKept
<1>8. LayoutStepInv'
  BY DEF LayoutStepInv
<1>9. RestoreInv' /\ UpgradeInv' /\ GrowInv'
  BY DEF RestoreInv, UpgradeInv, GrowInv
<1>10. QED
  BY <1>3, <1>4, <1>5, <1>6, <1>7, <1>8, <1>9 DEF IInv

\* The journal goes last, and the command goes on with its own first step.
LEMMA JournalCloseKeeps ==
    ASSUME TypeOK, IInv, JournalClose
    PROVE  TypeOK' /\ IInv'
PROOF
<1> USE NoneAssumption, InstanceDiskAssumption, StepSets
    DEF IInv, JournalClose, files, links, kept, ghosts, running
<1>1. /\ pc = "jclose" /\ op # None
      /\ op \in {"start", "backup", "restore", "upgrade", "rollback", "template"}
      /\ op' = op /\ pc' = First(op) /\ rec' = rec
      /\ UNCHANGED <<conf, cmds, faults>>
  BY WhoseStep, FirstIsStep, Flow DEF Step, Advance, At
<1> USE <1>1
<1>2. /\ journal # None /\ disk # None /\ legacy = None /\ row.path = "disk" /\ stage = None
      /\ Clean /\ ~Pending /\ ~InPlace
  BY DEF LayoutStepInv, LayoutInv, DataInv, InPlace, Clean
<1>3. pc' \in StepsOf(op) /\ pc' \notin LayoutSteps
  BY <1>2, FirstIsStep DEF First
<1>4. /\ op = "start" => pc' = "boot"
      /\ op = "backup" => pc' = "snapshot"
      /\ op = "restore" => pc' = "stagefiles"
      /\ op = "upgrade" => pc' = "prepare"
      /\ op = "rollback" => pc' = "jreopen"
      /\ op = "template" => pc' = "tstage"
  BY <1>2, <1>3 DEF First
<1>5. TypeOK'
  BY <1>2, <1>3, <1>4 DEF TypeOK
<1>6. LayoutInv'
  BY <1>2, <1>3 DEF LayoutInv
<1>7. DataInv'
  BY DEF DataInv, Good, Pending, InPlace, Clean, Current
<1>8. KeptInv'
  BY <1>2, <1>3 DEF KeptInv
<1>9. OriginalKept'
  BY DEF OriginalKept
<1>10. LayoutStepInv'
  BY <1>2, <1>4 DEF LayoutStepInv, Pending, InPlace, Clean
<1>11. RestoreInv'
  BY <1>2, <1>4 DEF RestoreInv
<1>12. UpgradeInv'
  BY <1>2, <1>4 DEF UpgradeInv, InPlace, Clean
<1>13. GrowInv'
  BY <1>2, <1>4 DEF GrowInv
<1>14. QED
  BY <1>5, <1>6, <1>7, <1>8, <1>9, <1>10, <1>11, <1>12, <1>13 DEF IInv

\* The VM boots a clean disk.
LEMMA BootKeeps ==
    ASSUME TypeOK, IInv, Boot
    PROVE  TypeOK' /\ IInv'
PROOF
<1> USE NoneAssumption, InstanceDiskAssumption, StepSets
    DEF IInv, Boot, files, links, kept, ghosts, running
<1>1. /\ pc = "boot" /\ op # None /\ op = "start"
      /\ op' = None /\ pc' = "done" /\ rec' = None
      /\ UNCHANGED <<conf, cmds, faults>>
  BY WhoseStep, Flow DEF Step, Advance, At
<1> USE <1>1
<1>2. InPlace /\ Clean /\ ~Pending
  BY DEF LayoutStepInv
<1>3. boot' \in Booted
  BY <1>2 DEF Booted, TypeOK
<1>4. boot' # None
  BY <1>2, <1>3
<1>5. TypeOK'
  BY <1>2, <1>3, <1>4 DEF TypeOK
<1>6. LayoutInv'
  BY DEF LayoutInv
<1>7. DataInv'
  BY <1>2, <1>3 DEF DataInv, Good, Pending, InPlace, Clean, Current
<1>8. KeptInv'
  BY DEF KeptInv
<1>9. OriginalKept'
  BY DEF OriginalKept
<1>10. LayoutStepInv' /\ RestoreInv' /\ UpgradeInv' /\ GrowInv'
  BY IdleSteps
<1>11. QED
  BY <1>5, <1>6, <1>7, <1>8, <1>9, <1>10 DEF IInv

\* The snapshot takes kernel and image as the row has them.
LEMMA TakeSnapshotKeeps ==
    ASSUME TypeOK, IInv, TakeSnapshot
    PROVE  TypeOK' /\ IInv'
PROOF
<1> USE NoneAssumption, InstanceDiskAssumption, StepSets
    DEF IInv, TakeSnapshot, files, links, kept, ghosts, running
<1>1. /\ pc = "snapshot" /\ op # None /\ op = "backup"
      /\ op' = op /\ pc' = "manifest" /\ rec' = rec
      /\ UNCHANGED <<conf, cmds, faults>>
  BY WhoseStep, Flow DEF Step, Advance, At
<1> USE <1>1
<1>2. oldDisk = None /\ ~Pending /\ Current # None /\ Current \in Whole /\ Good(Current)
  BY DEF LayoutStepInv, LayoutInv, DataInv, Current, TypeOK
<1>3. /\ backup' \in BackupDir /\ backup'.img = Current /\ backup'.kernel = row.kernel
      /\ backup'.size = row.size
  BY <1>2 DEF BackupDir, TypeOK
<1>4. backup' # None
  BY <1>2, <1>3
<1>5. TypeOK'
  BY <1>2, <1>3, <1>4 DEF TypeOK
<1>6. LayoutInv'
  BY DEF LayoutInv
<1>7. DataInv'
  BY DEF DataInv, Good, Pending, InPlace, Clean, Current
<1>8. KeptInv'
  BY <1>2, <1>3 DEF KeptInv, Good, Pending
<1>9. OriginalKept'
  BY DEF OriginalKept
<1>10. LayoutStepInv'
  BY <1>2, <1>4 DEF LayoutStepInv, Pending, InPlace
<1>11. RestoreInv' /\ UpgradeInv' /\ GrowInv'
  BY DEF RestoreInv, UpgradeInv, GrowInv
<1>12. QED
  BY <1>5, <1>6, <1>7, <1>8, <1>9, <1>10, <1>11 DEF IInv

\* The manifest makes it a backup.
LEMMA WriteManifestKeeps ==
    ASSUME TypeOK, IInv, WriteManifest
    PROVE  TypeOK' /\ IInv'
PROOF
<1> USE NoneAssumption, InstanceDiskAssumption, StepSets
    DEF IInv, WriteManifest, files, links, kept, ghosts, running
<1>1. /\ pc = "manifest" /\ op # None /\ op = "backup"
      /\ op' = None /\ pc' = "done" /\ rec' = None
      /\ UNCHANGED <<conf, cmds, faults>>
  BY WhoseStep, Flow DEF Step, Advance, At
<1> USE <1>1
<1>2. backup # None
  BY DEF LayoutStepInv
<1>3. /\ backup' \in BackupDir /\ backup'.img = backup.img /\ backup'.kernel = backup.kernel
      /\ backup'.size = backup.size
  BY <1>2 DEF BackupDir, TypeOK
<1>4. backup' # None
  BY <1>2, <1>3
<1>5. TypeOK'
  BY <1>2, <1>3, <1>4 DEF TypeOK
<1>6. LayoutInv'
  BY DEF LayoutInv
<1>7. DataInv'
  BY DEF DataInv, Good, Pending, InPlace, Clean, Current
<1>8. KeptInv'
  BY <1>2, <1>3 DEF KeptInv
<1>9. OriginalKept'
  BY DEF OriginalKept
<1>10. LayoutStepInv' /\ RestoreInv' /\ UpgradeInv' /\ GrowInv'
  BY IdleSteps
<1>11. QED
  BY <1>5, <1>6, <1>7, <1>8, <1>9, <1>10 DEF IInv

\* The clones of a backup are staged beside what they will replace.
LEMMA StageFilesKeeps ==
    ASSUME TypeOK, IInv, StageFiles
    PROVE  TypeOK' /\ IInv'
PROOF
<1> USE NoneAssumption, InstanceDiskAssumption, StepSets
    DEF IInv, StageFiles, files, links, kept, ghosts, running
<1>1. /\ pc = "stagefiles" /\ op # None /\ op = "restore"
      /\ op' = op /\ pc' = "linklog"
      /\ UNCHANGED <<conf, cmds, faults>>
  BY WhoseStep, Flow DEF Advance, At
<1> USE <1>1
<1>2. InPlace /\ Clean /\ ~Pending /\ backup # None /\ backup \in BackupDir
  BY DEF LayoutStepInv, RestoreInv, TypeOK
<1>3. disk # None /\ disk \in Whole /\ Good(disk)
  BY <1>2 DEF LayoutInv, DataInv, InPlace, Clean, Current, TypeOK
<1>4. orig' \in Originals /\ orig'.disk = disk /\ orig'.log = log
  BY <1>2, <1>3 DEF Originals, TypeOK
<1>5. orig' # None
  BY <1>2, <1>3, <1>4
<1>6. TypeOK'
  BY <1>2, <1>3, <1>4, <1>5 DEF TypeOK
<1>7. LayoutInv'
  BY DEF LayoutInv
<1>8. DataInv'
  BY <1>2, <1>4 DEF DataInv, LayoutStepInv, UpgradeInv, Good, Pending, InPlace, Current
<1>9. KeptInv'
  BY <1>2, <1>3, <1>4 DEF KeptInv, Good, Pending, InPlace
<1>10. OriginalKept'
  BY DEF OriginalKept
<1>11. RestoreInv'
  BY <1>2, <1>4 DEF KeptInv, RestoreInv, Pending, Clean
<1>12. LayoutStepInv' /\ UpgradeInv' /\ GrowInv'
  BY DEF LayoutStepInv, UpgradeInv, GrowInv
<1>13. QED
  BY <1>6, <1>7, <1>8, <1>9, <1>10, <1>11, <1>12 DEF IInv

\* The log is linked aside before it is replaced.
LEMMA LinkLogKeeps ==
    ASSUME TypeOK, IInv, LinkLog
    PROVE  TypeOK' /\ IInv'
PROOF
<1> USE NoneAssumption, InstanceDiskAssumption, StepSets
    DEF IInv, LinkLog, files, links, kept, ghosts, running
<1>1. /\ pc = "linklog" /\ op # None /\ op = "restore"
      /\ op' = op /\ pc' = "renlog" /\ rec' = rec
      /\ UNCHANGED <<conf, cmds, faults>>
  BY WhoseStep, Flow DEF Step, Advance, At
<1> USE <1>1
<1>2. TypeOK'
  BY DEF TypeOK
<1>3. LayoutInv'
  BY DEF LayoutInv
<1>4. DataInv'
  BY DEF DataInv, Good, Pending, InPlace, Clean, Current
<1>5. KeptInv'
  BY DEF KeptInv, Good, Pending, InPlace
<1>6. OriginalKept'
  BY DEF OriginalKept, RestoreInv
<1>7. RestoreInv'
  BY DEF RestoreInv
<1>8. LayoutStepInv' /\ UpgradeInv' /\ GrowInv'
  BY DEF LayoutStepInv, UpgradeInv, GrowInv
<1>9. QED
  BY <1>2, <1>3, <1>4, <1>5, <1>6, <1>7, <1>8 DEF IInv

\* The restored log goes into place.
LEMMA RenameLogKeeps ==
    ASSUME TypeOK, IInv, RenameLog
    PROVE  TypeOK' /\ IInv'
PROOF
<1> USE NoneAssumption, InstanceDiskAssumption, StepSets
    DEF IInv, RenameLog, files, links, kept, ghosts, running
<1>1. /\ pc = "renlog" /\ op # None /\ op = "restore"
      /\ op' = op /\ pc' = "linkdisk" /\ rec' = rec
      /\ UNCHANGED <<conf, cmds, faults>>
  BY WhoseStep, Flow DEF Step, Advance, At
<1> USE <1>1
<1>2. rec.log \in Nat
  BY DEF RestoreInv, BackupDir
<1>3. TypeOK'
  BY <1>2 DEF TypeOK
<1>4. LayoutInv'
  BY DEF LayoutInv
<1>5. DataInv'
  BY DEF DataInv, Good, Pending, InPlace, Clean, Current
<1>6. KeptInv'
  BY DEF KeptInv, Good, Pending, InPlace
<1>7. OriginalKept'
  BY DEF OriginalKept, RestoreInv
<1>8. RestoreInv'
  BY DEF RestoreInv
<1>9. LayoutStepInv' /\ UpgradeInv' /\ GrowInv'
  BY DEF LayoutStepInv, UpgradeInv, GrowInv
<1>10. QED
  BY <1>3, <1>4, <1>5, <1>6, <1>7, <1>8, <1>9 DEF IInv

\* The disk is linked aside before it is replaced.
LEMMA LinkDiskKeeps ==
    ASSUME TypeOK, IInv, LinkDisk
    PROVE  TypeOK' /\ IInv'
PROOF
<1> USE NoneAssumption, InstanceDiskAssumption, StepSets
    DEF IInv, LinkDisk, files, links, kept, ghosts, running
<1>1. /\ pc = "linkdisk" /\ op # None /\ op = "restore"
      /\ op' = op /\ pc' = "rendisk" /\ rec' = rec
      /\ UNCHANGED <<conf, cmds, faults>>
  BY WhoseStep, Flow DEF Step, Advance, At
<1> USE <1>1
<1>2. /\ orig # None /\ orig.disk \in Whole /\ disk = orig.disk
      /\ InPlace /\ ~Pending /\ Good(disk)
  BY DEF RestoreInv, KeptInv, TypeOK, Originals
<1>3. disk # None
  BY <1>2 DEF Whole
<1>4. TypeOK'
  BY <1>2, <1>3 DEF TypeOK
<1>5. LayoutInv'
  BY DEF LayoutInv
<1>6. DataInv'
  BY <1>2, <1>3 DEF DataInv, LayoutStepInv, UpgradeInv, Good, Pending, InPlace, Clean
<1>7. KeptInv'
  BY DEF KeptInv, Good, Pending, InPlace
<1>8. OriginalKept'
  BY <1>2 DEF OriginalKept
<1>9. RestoreInv'
  BY DEF RestoreInv
<1>10. LayoutStepInv' /\ UpgradeInv' /\ GrowInv'
  BY DEF LayoutStepInv, UpgradeInv, GrowInv
<1>11. QED
  BY <1>4, <1>5, <1>6, <1>7, <1>8, <1>9, <1>10 DEF IInv

\* The restored disk goes into place; the row follows.
LEMMA RenameDiskKeeps ==
    ASSUME TypeOK, IInv, RenameDisk
    PROVE  TypeOK' /\ IInv'
PROOF
<1> USE NoneAssumption, InstanceDiskAssumption, StepSets
    DEF IInv, RenameDisk, files, links, kept, ghosts, running
<1>1. /\ pc = "rendisk" /\ op # None /\ op = "restore"
      /\ op' = op /\ pc' = "rowrestore" /\ rec' = rec
      /\ UNCHANGED <<conf, cmds, faults>>
  BY WhoseStep, Flow DEF Step, Advance, At
<1> USE <1>1
<1>2. /\ orig # None /\ orig.disk \in Whole /\ oldDisk = orig.disk /\ InPlace /\ ~Pending
      /\ rec.img \in Whole /\ Good(orig.disk)
  BY DEF RestoreInv, KeptInv, TypeOK, Originals, BackupDir
<1>3. disk' # None /\ oldDisk # None
  BY <1>2 DEF Whole
<1>4. TypeOK'
  BY <1>2, <1>3 DEF TypeOK
<1>5. LayoutInv'
  BY <1>2, <1>3 DEF LayoutInv, InPlace
<1>6. DataInv'
  BY <1>2, <1>3 DEF DataInv, Good, Pending, InPlace, Clean
<1>7. KeptInv'
  BY DEF KeptInv, Good, Pending, InPlace
<1>8. OriginalKept'
  BY <1>2 DEF OriginalKept
<1>9. RestoreInv'
  BY DEF RestoreInv
<1>10. LayoutStepInv' /\ UpgradeInv' /\ GrowInv'
  BY DEF LayoutStepInv, UpgradeInv, GrowInv
<1>11. QED
  BY <1>4, <1>5, <1>6, <1>7, <1>8, <1>9, <1>10 DEF IInv

\* The row takes the kernel and the size of the backup.
LEMMA RowRestoreKeeps ==
    ASSUME TypeOK, IInv, RowRestore
    PROVE  TypeOK' /\ IInv'
PROOF
<1> USE NoneAssumption, InstanceDiskAssumption, StepSets
    DEF IInv, RowRestore, files, links, kept, ghosts, running
<1>1. /\ pc = "rowrestore" /\ op # None /\ op = "restore"
      /\ op' = op /\ pc' = "droplinks" /\ rec' = rec
      /\ UNCHANGED <<conf, cmds, faults>>
  BY WhoseStep, Flow DEF Step, Advance, At
<1> USE <1>1
<1>2. /\ orig # None /\ oldDisk = orig.disk /\ InPlace /\ ~Pending /\ disk = rec.img
      /\ rec \in BackupDir /\ orig.disk \in Whole
  BY DEF RestoreInv, KeptInv, TypeOK, Originals
<1>3. /\ rec.img \in Whole /\ rec.kernel \in Kernels /\ rec.size \in Sizes
      /\ rec.img.ver \in Versions
  BY <1>2 DEF BackupDir, Whole, File
<1>4. /\ row' \in [path : {"legacy", "disk"}, kernel : Kernels, size : Sizes]
      /\ row'.path = row.path /\ row'.kernel = rec.kernel /\ row'.size = rec.size
  BY <1>2, <1>3 DEF TypeOK
<1>5. oldDisk # None
  BY <1>2, <1>3, <1>4 DEF Whole
<1>6. TypeOK'
  BY <1>2, <1>3, <1>4, <1>5 DEF TypeOK
<1>7. LayoutInv'
  BY DEF LayoutInv
<1>8. DataInv'
  BY <1>2, <1>3, <1>5 DEF DataInv, Pending, InPlace, Clean, Current
<1>9. KeptInv'
  BY DEF KeptInv
<1>10. OriginalKept'
  BY DEF OriginalKept
<1>11. RestoreInv'
  BY <1>2, <1>4 DEF RestoreInv, Good, Pending, InPlace
<1>12. LayoutStepInv' /\ UpgradeInv' /\ GrowInv'
  BY DEF LayoutStepInv, UpgradeInv, GrowInv
<1>13. QED
  BY <1>6, <1>7, <1>8, <1>9, <1>10, <1>11, <1>12 DEF IInv

\* The links go once the row and the disk agree again.
LEMMA DropLinksKeeps ==
    ASSUME TypeOK, IInv, DropLinks
    PROVE  TypeOK' /\ IInv'
PROOF
<1> USE NoneAssumption, InstanceDiskAssumption, StepSets
    DEF IInv, DropLinks, files, links, kept, ghosts, running
<1>1. /\ pc = "droplinks" /\ op # None /\ op \in {"restore", "undo"}
      /\ IF op = "restore" THEN op' = None /\ pc' = "done" /\ rec' = None
                          ELSE op' = op /\ pc' = "unstage" /\ rec' = rec
      /\ UNCHANGED <<conf, cmds, faults>>
  BY WhoseStep, Flow DEF Step, Advance, At
<1> USE <1>1
<1>2. /\ InPlace /\ ~Pending /\ Good(disk)
      /\ orig # None => op = "undo" /\ disk = orig.disk /\ log = orig.log
  BY DEF RestoreInv, KeptInv
<1>3. TypeOK'
  BY <1>2 DEF TypeOK
<1>4. LayoutInv'
  BY DEF LayoutInv
<1>5. DataInv'
  BY <1>2 DEF DataInv, Good, Pending, InPlace, Clean, Current
<1>6. KeptInv'
  BY DEF KeptInv, Good, Pending, InPlace
<1>7. OriginalKept'
  BY <1>2 DEF OriginalKept
<1>8. LayoutStepInv' /\ RestoreInv' /\ UpgradeInv' /\ GrowInv'
  <2>1. CASE op = "restore"
    BY <2>1, IdleSteps
  <2>2. CASE op = "undo"
    BY <1>2, <2>2 DEF TypeOK, LayoutStepInv, RestoreInv, UpgradeInv, GrowInv, KeptInv
  <2>3. QED
    BY <2>1, <2>2
<1>9. QED
  BY <1>3, <1>4, <1>5, <1>6, <1>7, <1>8 DEF IInv

\* The rollback of a restore puts the disk back.
LEMMA UndoDiskKeeps ==
    ASSUME TypeOK, IInv, UndoDisk
    PROVE  TypeOK' /\ IInv'
PROOF
<1> USE NoneAssumption, InstanceDiskAssumption, StepSets
    DEF IInv, UndoDisk, files, links, kept, ghosts, running
<1>1. /\ pc = "undodisk" /\ op # None /\ op = "undo"
      /\ op' = op /\ pc' = "undolog" /\ rec' = rec
      /\ UNCHANGED <<conf, cmds, faults>>
  BY WhoseStep, Flow DEF Step, Advance, At
<1> USE <1>1
<1>2. /\ orig # None /\ oldDisk = orig.disk /\ InPlace /\ ~Pending /\ Good(orig.disk)
      /\ orig.disk \in Whole
  BY DEF RestoreInv, KeptInv, TypeOK, Originals
<1>3. disk' # None
  BY <1>2 DEF Whole
<1>4. TypeOK'
  BY <1>2, <1>3 DEF TypeOK
<1>5. LayoutInv'
  BY <1>2, <1>3 DEF LayoutInv, InPlace
<1>6. DataInv'
  BY <1>2 DEF DataInv, Good, Pending, InPlace, Clean, Current
<1>7. KeptInv'
  BY DEF KeptInv, Good, Pending, InPlace
<1>8. OriginalKept'
  BY <1>2 DEF OriginalKept
<1>9. RestoreInv'
  BY DEF RestoreInv
<1>10. LayoutStepInv' /\ UpgradeInv' /\ GrowInv'
  BY DEF LayoutStepInv, UpgradeInv, GrowInv
<1>11. QED
  BY <1>4, <1>5, <1>6, <1>7, <1>8, <1>9, <1>10 DEF IInv

\* The rollback of a restore puts the log back.
LEMMA UndoLogKeeps ==
    ASSUME TypeOK, IInv, UndoLog
    PROVE  TypeOK' /\ IInv'
PROOF
<1> USE NoneAssumption, InstanceDiskAssumption, StepSets
    DEF IInv, UndoLog, files, links, kept, ghosts, running
<1>1. /\ pc = "undolog" /\ op # None /\ op \in {"undo", "keep"}
      /\ op' = op /\ rec' = rec
      /\ pc' = IF op = "undo" THEN "droplinks" ELSE "unstage"
      /\ UNCHANGED <<conf, cmds, faults>>
  BY WhoseStep, Flow DEF Step, Advance, At
<1> USE <1>1
<1>2. /\ orig # None /\ oldLog = orig.log /\ orig.log \in Nat
  BY DEF RestoreInv, TypeOK, Originals
<1>3. TypeOK'
  BY <1>2 DEF TypeOK
<1>4. LayoutInv'
  BY DEF LayoutInv
<1>5. DataInv'
  BY DEF DataInv, Good, Pending, InPlace, Clean, Current
<1>6. KeptInv'
  BY DEF KeptInv, Good, Pending, InPlace
<1>7. OriginalKept'
  BY <1>2 DEF OriginalKept
<1>8. RestoreInv'
  BY DEF RestoreInv
<1>9. LayoutStepInv' /\ UpgradeInv' /\ GrowInv'
  BY DEF LayoutStepInv, UpgradeInv, GrowInv
<1>10. QED
  BY <1>3, <1>4, <1>5, <1>6, <1>7, <1>8, <1>9 DEF IInv

\* The staged clones go, and the command ends.
LEMMA UnstageKeeps ==
    ASSUME TypeOK, IInv, Unstage
    PROVE  TypeOK' /\ IInv'
PROOF
<1> USE NoneAssumption, InstanceDiskAssumption, StepSets
    DEF IInv, Unstage, files, links, kept, ghosts, running
<1>1. /\ pc = "unstage" /\ op # None /\ op \in {"undo", "keep"}
      /\ op' = None /\ pc' = "done" /\ rec' = None
      /\ UNCHANGED <<conf, cmds, faults>>
  BY WhoseStep, Flow DEF Step, Advance, At
<1> USE <1>1
<1>2. orig # None
  BY DEF RestoreInv
<1>3. TypeOK'
  BY <1>2 DEF TypeOK
<1>4. LayoutInv'
  BY DEF LayoutInv
<1>5. DataInv'
  BY DEF DataInv, Good, Pending, InPlace, Clean, Current
<1>6. KeptInv'
  BY DEF KeptInv, Good, Pending, InPlace
<1>7. OriginalKept'
  BY DEF OriginalKept
<1>8. LayoutStepInv' /\ RestoreInv' /\ UpgradeInv' /\ GrowInv'
  BY IdleSteps
<1>9. QED
  BY <1>3, <1>4, <1>5, <1>6, <1>7, <1>8 DEF IInv

\* The disk is copied twice: to be retained, and to be upgraded.
LEMMA PrepareUpgradeKeeps ==
    ASSUME TypeOK, IInv, PrepareUpgrade
    PROVE  TypeOK' /\ IInv'
PROOF
<1> USE NoneAssumption, InstanceDiskAssumption, StepSets
    DEF IInv, PrepareUpgrade, files, links, kept, ghosts, running
<1>1. /\ pc = "prepare" /\ op # None /\ op = "upgrade"
      /\ op' = op /\ pc' = "modules"
      /\ UNCHANGED <<conf, cmds, faults>>
  BY WhoseStep, Flow DEF Advance, At
<1> USE <1>1
<1>2. InPlace /\ Clean /\ ~Pending
  BY DEF LayoutStepInv
<1>3. disk # None /\ disk \in Whole /\ Good(disk)
  BY <1>2 DEF LayoutInv, DataInv, InPlace, Clean, Current, TypeOK
<1>4. rec' \in Prepared /\ rec'.old = disk /\ rec'.new = disk
  BY <1>2, <1>3 DEF Prepared, TypeOK
<1>5. TypeOK'
  BY <1>2, <1>3, <1>4 DEF TypeOK
<1>6. LayoutInv'
  BY DEF LayoutInv
<1>7. DataInv'
  BY DEF DataInv, Good, Pending, InPlace, Clean, Current
<1>8. KeptInv'
  BY DEF KeptInv
<1>9. OriginalKept'
  BY DEF OriginalKept
<1>10. UpgradeInv'
  BY <1>3, <1>4 DEF DataInv, UpgradeInv, Good, Pending, Clean
<1>11. LayoutStepInv' /\ RestoreInv' /\ GrowInv'
  BY DEF LayoutStepInv, RestoreInv, Pending, InPlace, Clean, GrowInv
<1>12. QED
  BY <1>5, <1>6, <1>7, <1>8, <1>9, <1>10, <1>11 DEF IInv

\* The copy gets the modules of the new kernel.
LEMMA InstallModulesKeeps ==
    ASSUME TypeOK, IInv, InstallModules
    PROVE  TypeOK' /\ IInv'
PROOF
<1> USE NoneAssumption, InstanceDiskAssumption, StepSets
    DEF IInv, InstallModules, files, links, kept, ghosts, running
<1>1. /\ pc = "modules" /\ op # None /\ op = "upgrade"
      /\ op' = op /\ pc' = "jpending"
      /\ UNCHANGED <<conf, cmds, faults>>
  BY WhoseStep, Flow DEF Advance, At
<1> USE <1>1
<1>2. /\ rec \in Prepared /\ rec.old = disk /\ rec.new.ver = want /\ row.size <= rec.new.fs
  BY DEF UpgradeInv
<1>3. /\ rec.new \in Whole /\ rec.kernel \in Kernels
  BY <1>2 DEF Prepared
<1>4. /\ [rec.new EXCEPT !.mods = rec.kernel] \in Whole
  BY <1>2, <1>3 DEF Whole, File
<1>5. /\ rec' \in Prepared /\ rec'.old = disk /\ rec'.kernel = rec.kernel
      /\ rec'.new = [rec.new EXCEPT !.mods = rec.kernel]
  BY <1>2, <1>3, <1>4 DEF Prepared
<1>6. /\ rec'.new.ver = want /\ row.size <= rec'.new.fs /\ rec'.new.mods = rec.kernel
  BY <1>2, <1>3, <1>4, <1>5 DEF Whole, File
<1>7. TypeOK'
  BY <1>2, <1>3, <1>4, <1>5, <1>6 DEF TypeOK
<1>8. LayoutInv'
  BY DEF LayoutInv
<1>9. DataInv'
  BY DEF DataInv, Good, Pending, InPlace, Clean, Current
<1>10. KeptInv'
  BY DEF KeptInv
<1>11. OriginalKept'
  BY DEF OriginalKept
<1>12. UpgradeInv'
  BY <1>3, <1>5, <1>6 DEF UpgradeInv
<1>13. LayoutStepInv' /\ RestoreInv' /\ GrowInv'
  BY DEF LayoutStepInv, RestoreInv, Pending, InPlace, Clean, GrowInv
<1>14. QED
  BY <1>7, <1>8, <1>9, <1>10, <1>11, <1>12, <1>13 DEF IInv

\* The journal retains the old disk and its kernel before the disk is replaced.
LEMMA JournalPendingKeeps ==
    ASSUME TypeOK, IInv, JournalPending
    PROVE  TypeOK' /\ IInv'
PROOF
<1> USE NoneAssumption, InstanceDiskAssumption, StepSets
    DEF IInv, JournalPending, files, links, kept, ghosts, running
<1>1. /\ pc = "jpending" /\ op # None /\ op = "upgrade"
      /\ op' = op /\ pc' = "copy" /\ rec' = rec
      /\ UNCHANGED <<conf, cmds, faults>>
  BY WhoseStep, Flow DEF Step, Advance, At
<1> USE <1>1
<1>2. /\ InPlace /\ Clean /\ ~Pending /\ boot = None
      /\ rec \in Prepared /\ rec.old = disk /\ orig = None
  BY DEF LayoutStepInv, UpgradeInv, KeptInv, TypeOK
<1>3. disk # None /\ disk \in Whole /\ Good(disk)
  BY <1>2 DEF LayoutInv, DataInv, InPlace, Clean, Current, TypeOK
<1>4. /\ upgrade' \in Retained /\ upgrade'.pending /\ ~upgrade'.final /\ upgrade'.saved = disk
      /\ upgrade'.kernel = row.kernel /\ upgrade'.size = row.size
  BY <1>2, <1>3 DEF Retained, TypeOK
<1>5. upgrade' # None
  BY <1>2, <1>3, <1>4
<1>6. TypeOK'
  BY <1>2, <1>3, <1>4, <1>5 DEF TypeOK
<1>7. LayoutInv'
  BY DEF LayoutInv
<1>8. DataInv'
  BY <1>2, <1>4 DEF DataInv, Good, InPlace, Clean, Current
<1>9. KeptInv'
  BY <1>3, <1>4 DEF KeptInv, Good, Pending
<1>10. OriginalKept'
  BY DEF OriginalKept
<1>11. UpgradeInv'
  BY <1>3, <1>5 DEF UpgradeInv, Pending, InPlace
<1>12. LayoutStepInv' /\ RestoreInv' /\ GrowInv'
  BY DEF LayoutStepInv, RestoreInv, GrowInv
<1>13. QED
  BY <1>6, <1>7, <1>8, <1>9, <1>10, <1>11, <1>12 DEF IInv

\* A copy beside the disk is covered by the pending journal.
LEMMA CopyDiskKeeps ==
    ASSUME TypeOK, IInv, CopyDisk
    PROVE  TypeOK' /\ IInv'
PROOF
<1> USE NoneAssumption, InstanceDiskAssumption, StepSets
    DEF IInv, CopyDisk, files, links, kept, ghosts, running
<1>1. /\ pc = "copy" /\ op # None /\ op \in {"upgrade", "rollback"}
      /\ op' = op /\ rec' = rec
      /\ pc' = IF op = "upgrade" THEN "swap" ELSE "unswap"
      /\ UNCHANGED <<conf, cmds, faults>>
  BY WhoseStep, Flow DEF Step, Advance, At
<1> USE <1>1
<1>2. Pending /\ InPlace
  BY DEF UpgradeInv, DataInv
<1>3. TypeOK'
  BY <1>2 DEF TypeOK
<1>4. LayoutInv'
  BY DEF LayoutInv
<1>5. DataInv'
  BY <1>2 DEF DataInv, Pending, InPlace, Current
<1>6. KeptInv'
  BY DEF KeptInv
<1>7. OriginalKept'
  BY DEF OriginalKept
<1>8. UpgradeInv'
  BY DEF UpgradeInv, Pending, InPlace
<1>9. LayoutStepInv' /\ RestoreInv' /\ GrowInv'
  BY DEF LayoutStepInv, RestoreInv, GrowInv
<1>10. QED
  BY <1>3, <1>4, <1>5, <1>6, <1>7, <1>8, <1>9 DEF IInv

\* The upgraded disk goes into place; the row follows.
LEMMA SwapDiskKeeps ==
    ASSUME TypeOK, IInv, SwapDisk
    PROVE  TypeOK' /\ IInv'
PROOF
<1> USE NoneAssumption, InstanceDiskAssumption, StepSets
    DEF IInv, SwapDisk, files, links, kept, ghosts, running
<1>1. /\ pc = "swap" /\ op # None /\ op = "upgrade"
      /\ op' = op /\ pc' = "rowkernel" /\ rec' = rec
      /\ UNCHANGED <<conf, cmds, faults>>
  BY WhoseStep, Flow DEF Step, Advance, At
<1> USE <1>1
<1>2. /\ Pending /\ InPlace /\ rec \in Prepared /\ rec.new.ver = want
      /\ oldDisk = None /\ orig = None
  BY DEF UpgradeInv, DataInv, KeptInv
<1>3. disk' \in Whole
  BY <1>2 DEF Prepared
<1>4. disk' # None
  BY <1>2, <1>3 DEF Whole
<1>5. TypeOK'
  BY <1>2, <1>3, <1>4 DEF TypeOK
<1>6. LayoutInv'
  BY <1>2, <1>4 DEF LayoutInv, InPlace
<1>7. DataInv'
  BY <1>2, <1>3 DEF DataInv, Pending, InPlace, Current
<1>8. KeptInv'
  BY DEF KeptInv
<1>9. OriginalKept'
  BY <1>2, <1>3 DEF OriginalKept
<1>10. UpgradeInv'
  BY <1>3 DEF TypeOK, DataInv, KeptInv, UpgradeInv, Pending, Clean
<1>11. LayoutStepInv' /\ RestoreInv' /\ GrowInv'
  BY DEF LayoutStepInv, RestoreInv, GrowInv
<1>12. QED
  BY <1>5, <1>6, <1>7, <1>8, <1>9, <1>10, <1>11 DEF IInv

\* The row takes the new kernel.
LEMMA RowKernelKeeps ==
    ASSUME TypeOK, IInv, RowKernel
    PROVE  TypeOK' /\ IInv'
PROOF
<1> USE NoneAssumption, InstanceDiskAssumption, StepSets
    DEF IInv, RowKernel, files, links, kept, ghosts, running
<1>1. /\ pc = "rowkernel" /\ op # None /\ op = "upgrade"
      /\ op' = op /\ pc' = "jsettled" /\ rec' = rec
      /\ UNCHANGED <<conf, cmds, faults>>
  BY WhoseStep, Flow DEF Step, Advance, At
<1> USE <1>1
<1>2. /\ Pending /\ InPlace /\ rec \in Prepared /\ orig = None
  BY DEF UpgradeInv, DataInv, KeptInv
<1>3. /\ row' \in [path : {"legacy", "disk"}, kernel : Kernels, size : Sizes]
      /\ row'.path = row.path /\ row'.kernel = rec.kernel /\ row'.size = row.size
  BY <1>2 DEF TypeOK, Prepared
<1>4. TypeOK'
  BY <1>2, <1>3 DEF TypeOK
<1>5. LayoutInv'
  BY DEF LayoutInv
<1>6. DataInv'
  BY <1>2 DEF DataInv, Pending, InPlace, Current
<1>7. KeptInv'
  BY DEF KeptInv
<1>8. OriginalKept'
  BY DEF OriginalKept
<1>9. UpgradeInv'
  BY DEF UpgradeInv, Pending, InPlace
<1>10. LayoutStepInv' /\ RestoreInv' /\ GrowInv'
  BY DEF LayoutStepInv, RestoreInv, GrowInv
<1>11. QED
  BY <1>4, <1>5, <1>6, <1>7, <1>8, <1>9, <1>10 DEF IInv

\* The upgrade, or the rollback, is settled when the row and the disk agree.
LEMMA JournalSettledKeeps ==
    ASSUME TypeOK, IInv, JournalSettled
    PROVE  TypeOK' /\ IInv'
PROOF
<1> USE NoneAssumption, InstanceDiskAssumption, StepSets
    DEF IInv, JournalSettled, files, links, kept, ghosts, running
<1>1. /\ pc = "jsettled" /\ op # None /\ op \in {"upgrade", "rollback"}
      /\ op' = None /\ pc' = "done" /\ rec' = None
      /\ UNCHANGED <<conf, cmds, faults>>
  BY WhoseStep, Flow DEF Step, Advance, At
<1> USE <1>1
<1>2. /\ Pending /\ InPlace /\ stray = {} /\ oldDisk = None /\ upgrade # None /\ ~upgrade.final
      /\ disk.mods = row.kernel /\ row.size <= disk.fs /\ disk.ver = want /\ orig = None
  BY DEF UpgradeInv, DataInv, KeptInv, Pending, InPlace, Current
<1>3. /\ upgrade' \in Retained /\ ~upgrade'.pending /\ ~upgrade'.final
      /\ upgrade'.saved = upgrade.saved
      /\ upgrade'.kernel = upgrade.kernel /\ upgrade'.size = upgrade.size
  BY <1>2 DEF Retained, TypeOK
<1>4. upgrade' # None
  BY <1>2, <1>3
<1>5. TypeOK'
  BY <1>2, <1>3, <1>4 DEF TypeOK
<1>6. LayoutInv'
  BY DEF LayoutInv
<1>7. DataInv'
  BY <1>2, <1>3 DEF DataInv, Good, InPlace, Current
<1>8. KeptInv'
  BY <1>2, <1>3 DEF KeptInv
<1>9. OriginalKept'
  BY DEF OriginalKept
<1>10. LayoutStepInv' /\ RestoreInv' /\ UpgradeInv' /\ GrowInv'
  BY IdleSteps
<1>11. QED
  BY <1>5, <1>6, <1>7, <1>8, <1>9, <1>10 DEF IInv

\* A rollback is pending before it touches the disk.
LEMMA JournalReopenKeeps ==
    ASSUME TypeOK, IInv, JournalReopen
    PROVE  TypeOK' /\ IInv'
PROOF
<1> USE NoneAssumption, InstanceDiskAssumption, StepSets
    DEF IInv, JournalReopen, files, links, kept, ghosts, running
<1>1. /\ pc = "jreopen" /\ op # None /\ op = "rollback"
      /\ op' = op /\ pc' = "copy" /\ rec' = rec
      /\ UNCHANGED <<conf, cmds, faults>>
  BY WhoseStep, Flow DEF Step, Advance, At
<1> USE <1>1
<1>2. /\ InPlace /\ Clean /\ boot = None /\ upgrade # None /\ ~upgrade.final /\ orig = None
  BY DEF UpgradeInv, LayoutStepInv, KeptInv
<1>3. /\ upgrade' \in Retained /\ upgrade'.pending /\ ~upgrade'.final
      /\ upgrade'.saved = upgrade.saved
      /\ upgrade'.kernel = upgrade.kernel /\ upgrade'.size = upgrade.size
  BY <1>2 DEF Retained, TypeOK
<1>4. upgrade' # None
  BY <1>2, <1>3
<1>5. TypeOK'
  BY <1>2, <1>3, <1>4 DEF TypeOK
<1>6. LayoutInv'
  BY DEF LayoutInv
<1>7. DataInv'
  BY <1>2, <1>4 DEF DataInv, Pending, InPlace, Clean, Current
<1>8. KeptInv'
  BY <1>2, <1>3 DEF KeptInv
<1>9. OriginalKept'
  BY DEF OriginalKept
<1>10. UpgradeInv'
  BY <1>2, <1>4 DEF UpgradeInv, Pending, InPlace
<1>11. LayoutStepInv' /\ RestoreInv' /\ GrowInv'
  BY DEF LayoutStepInv, RestoreInv, GrowInv
<1>12. QED
  BY <1>5, <1>6, <1>7, <1>8, <1>9, <1>10, <1>11 DEF IInv

\* The retained disk goes back into place.
LEMMA UnswapDiskKeeps ==
    ASSUME TypeOK, IInv, UnswapDisk
    PROVE  TypeOK' /\ IInv'
PROOF
<1> USE NoneAssumption, InstanceDiskAssumption, StepSets
    DEF IInv, UnswapDisk, files, links, kept, ghosts, running
<1>1. /\ pc = "unswap" /\ op # None /\ op = "rollback"
      /\ op' = op /\ pc' = "rowold" /\ rec' = rec
      /\ UNCHANGED <<conf, cmds, faults>>
  BY WhoseStep, Flow DEF Step, Advance, At
<1> USE <1>1
<1>2. /\ Pending /\ InPlace /\ upgrade # None /\ ~upgrade.final /\ upgrade.saved # None
      /\ oldDisk = None /\ orig = None
  BY DEF UpgradeInv, KeptInv, DataInv
<1>3. upgrade.saved \in Whole /\ upgrade.saved.ver \in Versions
  BY <1>2 DEF TypeOK, Retained, Whole, File
<1>4. TypeOK'
  BY <1>2, <1>3 DEF TypeOK
<1>5. LayoutInv'
  BY <1>2 DEF LayoutInv, InPlace
<1>6. DataInv'
  BY <1>2 DEF DataInv, Pending, InPlace, Current
<1>7. KeptInv'
  BY DEF KeptInv
<1>8. OriginalKept'
  BY <1>2 DEF OriginalKept
<1>9. UpgradeInv'
  BY <1>2 DEF TypeOK, DataInv, KeptInv, UpgradeInv, Pending, Clean
<1>10. LayoutStepInv' /\ RestoreInv' /\ GrowInv'
  BY DEF LayoutStepInv, RestoreInv, GrowInv
<1>11. QED
  BY <1>4, <1>5, <1>6, <1>7, <1>8, <1>9, <1>10 DEF IInv

\* The row takes the kernel and the size it had.
LEMMA RowOldKeeps ==
    ASSUME TypeOK, IInv, RowOld
    PROVE  TypeOK' /\ IInv'
PROOF
<1> USE NoneAssumption, InstanceDiskAssumption, StepSets
    DEF IInv, RowOld, files, links, kept, ghosts, running
<1>1. /\ pc = "rowold" /\ op # None /\ op = "rollback"
      /\ op' = op /\ pc' = "jsettled" /\ rec' = rec
      /\ UNCHANGED <<conf, cmds, faults>>
  BY WhoseStep, Flow DEF Step, Advance, At
<1> USE <1>1
<1>2. /\ Pending /\ InPlace /\ upgrade # None /\ orig = None
  BY DEF UpgradeInv, KeptInv, DataInv
<1>3. /\ row' \in [path : {"legacy", "disk"}, kernel : Kernels, size : Sizes]
      /\ row'.path = row.path /\ row'.kernel = upgrade.kernel /\ row'.size = upgrade.size
  BY <1>2 DEF TypeOK, Retained
<1>4. TypeOK'
  BY <1>2, <1>3 DEF TypeOK
<1>5. LayoutInv'
  BY DEF LayoutInv
<1>6. DataInv'
  BY <1>2 DEF DataInv, Pending, InPlace, Current
<1>7. KeptInv'
  BY DEF KeptInv
<1>8. OriginalKept'
  BY DEF OriginalKept
<1>9. UpgradeInv'
  BY DEF UpgradeInv, Pending, InPlace
<1>10. LayoutStepInv' /\ RestoreInv' /\ GrowInv'
  BY DEF LayoutStepInv, RestoreInv, GrowInv
<1>11. QED
  BY <1>4, <1>5, <1>6, <1>7, <1>8, <1>9, <1>10 DEF IInv

\* The journal is final before the retained disk goes.
LEMMA JournalFinalKeeps ==
    ASSUME TypeOK, IInv, JournalFinal
    PROVE  TypeOK' /\ IInv'
PROOF
<1> USE NoneAssumption, InstanceDiskAssumption, StepSets
    DEF IInv, JournalFinal, files, links, kept, ghosts, running
<1>1. /\ pc = "jfinal" /\ op # None /\ op = "finalize"
      /\ op' = op /\ pc' = "unsave" /\ rec' = rec
      /\ UNCHANGED <<conf, cmds, faults>>
  BY WhoseStep, Flow DEF Step, Advance, At
<1> USE <1>1
<1>2. upgrade # None /\ ~upgrade.pending
  BY DEF UpgradeInv
<1>3. /\ upgrade' \in Retained /\ ~upgrade'.pending /\ upgrade'.final
  BY <1>2 DEF Retained, TypeOK
<1>4. upgrade' # None
  BY <1>2, <1>3
<1>5. TypeOK'
  BY <1>2, <1>3, <1>4 DEF TypeOK
<1>6. LayoutInv'
  BY DEF LayoutInv
<1>7. DataInv'
  BY <1>3 DEF DataInv, Good, Pending, InPlace, Clean, Current
<1>8. KeptInv'
  BY <1>3 DEF KeptInv
<1>9. OriginalKept'
  BY DEF OriginalKept
<1>10. UpgradeInv'
  BY <1>2, <1>4 DEF UpgradeInv
<1>11. LayoutStepInv' /\ RestoreInv' /\ GrowInv'
  BY DEF LayoutStepInv, RestoreInv, GrowInv
<1>12. QED
  BY <1>5, <1>6, <1>7, <1>8, <1>9, <1>10, <1>11 DEF IInv

\* The retained disk goes.
LEMMA DropSavedKeeps ==
    ASSUME TypeOK, IInv, DropSaved
    PROVE  TypeOK' /\ IInv'
PROOF
<1> USE NoneAssumption, InstanceDiskAssumption, StepSets
    DEF IInv, DropSaved, files, links, kept, ghosts, running
<1>1. /\ pc = "unsave" /\ op # None /\ op = "finalize"
      /\ op' = None /\ pc' = "done" /\ rec' = None
      /\ UNCHANGED <<conf, cmds, faults>>
  BY WhoseStep, Flow DEF Step, Advance, At
<1> USE <1>1
<1>2. upgrade # None /\ ~upgrade.pending /\ upgrade.final
  BY DEF UpgradeInv
<1>3. /\ upgrade' \in Retained /\ ~upgrade'.pending /\ upgrade'.final
  BY <1>2 DEF Retained, TypeOK
<1>4. upgrade' # None
  BY <1>2, <1>3
<1>5. TypeOK'
  BY <1>2, <1>3, <1>4 DEF TypeOK
<1>6. LayoutInv'
  BY DEF LayoutInv
<1>7. DataInv'
  BY <1>3 DEF DataInv, Good, Pending, InPlace, Clean, Current
<1>8. KeptInv'
  BY <1>3 DEF KeptInv
<1>9. OriginalKept'
  BY DEF OriginalKept
<1>10. LayoutStepInv' /\ RestoreInv' /\ UpgradeInv' /\ GrowInv'
  BY IdleSteps
<1>11. QED
  BY <1>5, <1>6, <1>7, <1>8, <1>9, <1>10 DEF IInv

\* The file grows; the filesystem in it stays.
LEMMA TruncateKeeps ==
    ASSUME TypeOK, IInv, Truncate
    PROVE  TypeOK' /\ IInv'
PROOF
<1> USE NoneAssumption, InstanceDiskAssumption, StepSets
    DEF IInv, Truncate, files, links, kept, ghosts, running
<1>1. /\ pc = "truncate" /\ op # None /\ op = "resize"
      /\ op' = op /\ pc' = "grow" /\ rec' = rec
      /\ UNCHANGED <<conf, cmds, faults>>
  BY WhoseStep, Flow DEF Step, Advance, At
<1> USE <1>1
<1>2. /\ rec \in Sizes /\ journal = None /\ ~Pending /\ orig = None
      /\ Current \in Whole /\ Current # None /\ Current.file <= rec
  BY DEF GrowInv, KeptInv, LayoutInv, Current, TypeOK
<1>3. /\ [Current EXCEPT !.file = rec] \in Whole
      /\ \A f \in {"ver", "mods", "fs"} : [Current EXCEPT !.file = rec][f] = Current[f]
      /\ [Current EXCEPT !.file = rec].file = rec
  BY <1>2 DEF Whole, File, Sizes
<1>4. /\ Current' = [Current EXCEPT !.file = rec]
      /\ IF row.path = "legacy" THEN legacy' = Current' /\ disk' = disk
                                ELSE disk' = Current' /\ legacy' = legacy
  BY <1>2, <1>3 DEF SetCurrent, Current
<1>5. Current' # None
  BY <1>2, <1>3, <1>4 DEF Whole
<1>6. /\ Current' \in Whole /\ Current'.ver = Current.ver /\ Current'.mods = Current.mods
      /\ Current'.fs = Current.fs /\ Current'.file = rec
  BY <1>2, <1>3, <1>4, <1>5
<1>7. TypeOK'
  BY <1>2, <1>3, <1>4, <1>5, <1>6 DEF TypeOK
<1>8. LayoutInv'
  BY <1>2, <1>4, <1>5 DEF LayoutInv
<1>9. DataInv'
  BY <1>2, <1>4, <1>5 DEF DataInv, Good, Pending, InPlace, Clean
<1>10. KeptInv'
  BY DEF KeptInv
<1>11. OriginalKept'
  BY <1>2, <1>3, <1>5 DEF OriginalKept
<1>12. GrowInv'
  BY <1>2, <1>4, <1>5 DEF GrowInv, Pending
<1>13. LayoutStepInv' /\ RestoreInv' /\ UpgradeInv'
  BY DEF LayoutStepInv, RestoreInv, UpgradeInv
<1>14. QED
  BY <1>7, <1>8, <1>9, <1>10, <1>11, <1>12, <1>13 DEF IInv

\* The filesystem grows to the size of its file.
LEMMA GrowKeeps ==
    ASSUME TypeOK, IInv, Grow
    PROVE  TypeOK' /\ IInv'
PROOF
<1> USE NoneAssumption, InstanceDiskAssumption, StepSets
    DEF IInv, Grow, files, links, kept, ghosts, running
<1>1. /\ pc = "grow" /\ op # None /\ op = "resize"
      /\ op' = op /\ pc' = "rowsize" /\ rec' = rec
      /\ UNCHANGED <<conf, cmds, faults>>
  BY WhoseStep, Flow DEF Step, Advance, At
<1> USE <1>1
<1>2. /\ rec \in Sizes /\ journal = None /\ ~Pending /\ orig = None
      /\ Current \in Whole /\ Current # None /\ Current.file = rec
  BY DEF GrowInv, KeptInv, LayoutInv, Current, TypeOK
<1>3. /\ [Current EXCEPT !.fs = Current.file] \in Whole
      /\ \A f \in {"ver", "mods", "file"} : [Current EXCEPT !.fs = Current.file][f] = Current[f]
      /\ [Current EXCEPT !.fs = Current.file].fs = rec /\ Current.fs <= rec
  BY <1>2 DEF Whole, File, Sizes
<1>4. /\ Current' = [Current EXCEPT !.fs = Current.file]
      /\ IF row.path = "legacy" THEN legacy' = Current' /\ disk' = disk
                                ELSE disk' = Current' /\ legacy' = legacy
  BY <1>2, <1>3 DEF SetCurrent, Current
<1>5. Current' # None
  BY <1>2, <1>3, <1>4 DEF Whole
<1>6. /\ Current' \in Whole /\ Current'.ver = Current.ver /\ Current'.mods = Current.mods
      /\ Current'.fs = rec /\ Current'.file = rec
  BY <1>2, <1>3, <1>4, <1>5
<1>7. rec \in Nat /\ row.size \in Nat /\ Current.fs \in Nat
  BY <1>2, <1>3, <1>4, <1>5, <1>6 DEF TypeOK, Whole, File, Sizes
<1>8. TypeOK'
  BY <1>2, <1>3, <1>4, <1>5, <1>6, <1>7 DEF TypeOK
<1>9. LayoutInv'
  BY <1>2, <1>4, <1>5, <1>6 DEF LayoutInv
<1>10. DataInv'
  BY <1>3, <1>4, <1>5, <1>7 DEF DataInv, Good, Pending, InPlace, Clean
<1>11. KeptInv'
  BY DEF KeptInv
<1>12. OriginalKept'
  BY <1>2, <1>4, <1>6 DEF OriginalKept
<1>13. GrowInv'
  BY <1>2, <1>4, <1>5, <1>7 DEF GrowInv, Pending
<1>14. LayoutStepInv' /\ RestoreInv' /\ UpgradeInv'
  BY DEF LayoutStepInv, RestoreInv, UpgradeInv
<1>15. QED
  BY <1>8, <1>9, <1>10, <1>11, <1>12, <1>13, <1>14 DEF IInv

\* The row takes the size that the filesystem has.
LEMMA RowSizeKeeps ==
    ASSUME TypeOK, IInv, RowSize
    PROVE  TypeOK' /\ IInv'
PROOF
<1> USE NoneAssumption, InstanceDiskAssumption, StepSets
    DEF IInv, RowSize, files, links, kept, ghosts, running
<1>1. /\ pc = "rowsize" /\ op # None /\ op = "resize"
      /\ op' = None /\ pc' = "done" /\ rec' = None
      /\ UNCHANGED <<conf, cmds, faults>>
  BY WhoseStep, Flow DEF Step, Advance, At
<1> USE <1>1
<1>2. /\ rec \in Sizes /\ journal = None /\ ~Pending /\ orig = None
  BY DEF GrowInv, KeptInv
<1>3. /\ row' \in [path : {"legacy", "disk"}, kernel : Kernels, size : Sizes]
      /\ row'.path = row.path /\ row'.kernel = row.kernel /\ row'.size = rec
  BY <1>2 DEF TypeOK
<1>4. TypeOK'
  BY <1>2, <1>3 DEF TypeOK
<1>5. LayoutInv'
  BY DEF LayoutInv
<1>6. DataInv'
  BY <1>2 DEF DataInv, LayoutStepInv, RestoreInv, GrowInv, Good, Pending, InPlace, Current
<1>7. KeptInv'
  BY DEF KeptInv
<1>8. OriginalKept'
  BY DEF OriginalKept
<1>9. LayoutStepInv' /\ RestoreInv' /\ UpgradeInv' /\ GrowInv'
  BY IdleSteps
<1>10. QED
  BY <1>4, <1>5, <1>6, <1>7, <1>8, <1>9 DEF IInv

\* The template is staged from a clean disk and its kernel.
LEMMA StageTemplateKeeps ==
    ASSUME TypeOK, IInv, StageTemplate
    PROVE  TypeOK' /\ IInv'
PROOF
<1> USE NoneAssumption, InstanceDiskAssumption, StepSets
    DEF IInv, StageTemplate, files, links, kept, ghosts, running
<1>1. /\ pc = "tstage" /\ op # None /\ op = "template"
      /\ op' = op /\ pc' = "sanitize"
      /\ UNCHANGED <<conf, cmds, faults>>
  BY WhoseStep, Flow DEF Advance, At
<1> USE <1>1
<1>2. InPlace /\ Clean /\ ~Pending
  BY DEF LayoutStepInv
<1>3. disk # None /\ disk \in Whole /\ Good(disk)
  BY <1>2 DEF LayoutInv, DataInv, InPlace, Clean, Current, TypeOK
<1>4. rec' \in TemplateDir /\ rec'.img = disk /\ rec'.kernel = row.kernel
  BY <1>2, <1>3 DEF TemplateDir, TypeOK
<1>5. TypeOK'
  BY <1>2, <1>3, <1>4 DEF TypeOK
<1>6. LayoutInv'
  BY DEF LayoutInv
<1>7. DataInv'
  BY DEF DataInv, Good, Pending, InPlace, Clean, Current
<1>8. KeptInv'
  BY DEF KeptInv
<1>9. OriginalKept'
  BY DEF OriginalKept
<1>10. GrowInv'
  BY <1>3, <1>4 DEF GrowInv, Good, Pending, InPlace
<1>11. LayoutStepInv' /\ RestoreInv' /\ UpgradeInv'
  BY DEF LayoutStepInv, RestoreInv, UpgradeInv
<1>12. QED
  BY <1>5, <1>6, <1>7, <1>8, <1>9, <1>10, <1>11 DEF IInv

\* The identity of the source is removed from the staged template.
LEMMA SanitizeTemplateKeeps ==
    ASSUME TypeOK, IInv, SanitizeTemplate
    PROVE  TypeOK' /\ IInv'
PROOF
<1> USE NoneAssumption, InstanceDiskAssumption, StepSets
    DEF IInv, SanitizeTemplate, files, links, kept, ghosts, running
<1>1. /\ pc = "sanitize" /\ op # None /\ op = "template"
      /\ op' = op /\ pc' = "tpublish"
      /\ UNCHANGED <<conf, cmds, faults>>
  BY WhoseStep, Flow DEF Advance, At
<1> USE <1>1
<1>2. rec' \in TemplateDir /\ rec'.img = rec.img /\ rec'.kernel = rec.kernel /\ rec'.clean
  BY DEF TemplateDir, GrowInv
<1>3. TypeOK'
  BY <1>2 DEF TypeOK
<1>4. LayoutInv'
  BY DEF LayoutInv
<1>5. DataInv'
  BY DEF DataInv, Good, Pending, InPlace, Clean, Current
<1>6. KeptInv'
  BY DEF KeptInv
<1>7. OriginalKept'
  BY DEF OriginalKept
<1>8. GrowInv'
  BY <1>2 DEF GrowInv
<1>9. LayoutStepInv' /\ RestoreInv' /\ UpgradeInv'
  BY DEF LayoutStepInv, RestoreInv, UpgradeInv
<1>10. QED
  BY <1>3, <1>4, <1>5, <1>6, <1>7, <1>8, <1>9 DEF IInv

\* What is published has been sanitized.
LEMMA PublishTemplateKeeps ==
    ASSUME TypeOK, IInv, PublishTemplate
    PROVE  TypeOK' /\ IInv'
PROOF
<1> USE NoneAssumption, InstanceDiskAssumption, StepSets
    DEF IInv, PublishTemplate, files, links, kept, ghosts, running
<1>1. /\ pc = "tpublish" /\ op # None /\ op = "template"
      /\ op' = None /\ pc' = "done" /\ rec' = None
      /\ UNCHANGED <<conf, cmds, faults>>
  BY WhoseStep, Flow DEF Step, Advance, At
<1> USE <1>1
<1>2. template' \in TemplateDir
  BY DEF GrowInv
<1>3. template' # None
  BY <1>2
<1>4. TypeOK'
  BY <1>2, <1>3 DEF TypeOK
<1>5. LayoutInv'
  BY DEF LayoutInv
<1>6. DataInv'
  BY DEF DataInv, Good, Pending, InPlace, Clean, Current
<1>7. KeptInv'
  BY <1>2 DEF KeptInv, LayoutStepInv, UpgradeInv, Pending, GrowInv
<1>8. OriginalKept'
  BY DEF OriginalKept
<1>9. LayoutStepInv' /\ RestoreInv' /\ UpgradeInv' /\ GrowInv'
  BY IdleSteps
<1>10. QED
  BY <1>4, <1>5, <1>6, <1>7, <1>8, <1>9 DEF IInv

\* The guest writes to the disk in place, beside which nothing is left.
LEMMA GuestWriteKeeps ==
    ASSUME TypeOK, IInv, GuestWrite
    PROVE  TypeOK' /\ IInv'
PROOF
<1> USE NoneAssumption, InstanceDiskAssumption
    DEF IInv, GuestWrite, Idle, links, kept, running
<1>1. /\ op = None /\ op' = None /\ pc' = "done" /\ InPlace /\ Clean /\ ~Pending
      /\ disk # None /\ disk \in Whole /\ Good(disk)
  BY DEF TypeOK, DataInv, LayoutInv, InPlace, Clean, Current
<1>2. want' \in Versions
  BY DEF TypeOK, Versions
<1>3. /\ disk' \in Whole /\ disk'.ver = want' /\ disk'.mods = disk.mods /\ disk'.fs = disk.fs
  BY <1>1, <1>2 DEF Whole, File
<1>4. disk' # None
  BY <1>3 DEF Whole
<1>5. TypeOK'
  BY <1>1, <1>2, <1>3 DEF TypeOK
<1>6. LayoutInv'
  BY <1>1, <1>4 DEF LayoutInv, InPlace
<1>7. DataInv'
  BY DEF DataInv, Good, Pending, InPlace, Clean, Current
<1>8. KeptInv' /\ OriginalKept'
  BY DEF KeptInv, OriginalKept
<1>9. LayoutStepInv' /\ RestoreInv' /\ UpgradeInv' /\ GrowInv'
  BY <1>1, IdleSteps
<1>10. QED
  BY <1>5, <1>6, <1>7, <1>8, <1>9

\* A stop, and what is deleted while no command runs, leave the disk alone.
LEMMA QuietKeeps ==
    ASSUME TypeOK, IInv, Stop \/ DeleteBackup \/ DeleteTemplate
    PROVE  TypeOK' /\ IInv'
PROOF
<1> USE NoneAssumption DEF IInv, Stop, DeleteBackup, DeleteTemplate, Idle
<1>1. /\ op = None /\ op' = None /\ pc' = "done"
      /\ UNCHANGED <<row, conf, files, log, links, upgrade, running, ghosts, cmds, faults>>
      /\ boot' \in {boot, None} /\ backup' \in {backup, None}
      /\ template' \in {template, None}
  BY DEF TypeOK, running, kept
<1> USE DEF files, links, running, ghosts
<1>2. TypeOK'
  BY <1>1 DEF TypeOK
<1>3. LayoutInv' /\ KeptInv' /\ OriginalKept'
  BY <1>1 DEF LayoutInv, KeptInv, OriginalKept, Good, Pending, InPlace
<1>4. DataInv'
  BY DEF DataInv, Good, Pending, InPlace, Clean, Current
<1>5. LayoutStepInv' /\ RestoreInv' /\ UpgradeInv' /\ GrowInv'
  BY <1>1, IdleSteps
<1>6. QED
  BY <1>2, <1>3, <1>4, <1>5

\* Another kernel in the catalogue, and no step at all, change nothing here.
LEMMA CatalogueKeeps ==
    ASSUME TypeOK, IInv, InstallKernel \/ UNCHANGED vars
    PROVE  TypeOK' /\ IInv'
PROOF
<1> USE DEF IInv
<1>1. /\ UNCHANGED <<row, boot, files, log, links, kept, running, ghosts, cmds, faults>>
      /\ conf' \in Kernels
  BY InstanceDiskAssumption DEF InstallKernel, vars, TypeOK, Kernels
<1> USE DEF files, links, kept, running, ghosts
<1>2. TypeOK'
  BY <1>1 DEF TypeOK
<1>3. LayoutInv' /\ KeptInv' /\ OriginalKept'
  BY <1>1 DEF LayoutInv, KeptInv, OriginalKept, Good, Pending, InPlace
<1>4. DataInv'
  BY <1>1 DEF DataInv, Good, Pending, InPlace, Clean, Current
<1>5. LayoutStepInv' /\ RestoreInv'
  BY <1>1 DEF LayoutStepInv, RestoreInv, Good, Pending, InPlace, Clean
<1>6. UpgradeInv' /\ GrowInv'
  BY <1>1 DEF UpgradeInv, GrowInv, Pending, InPlace, Clean, Current
<1>7. QED
  BY <1>2, <1>3, <1>4, <1>5, <1>6

\* A crash, and a failure that ends the command, leave the files as they are; the
\* temporary files that a failed command removes are its own.
LEMMA EndKeeps ==
    ASSUME TypeOK, IInv, Crash \/ Fail
    PROVE  TypeOK' /\ IInv'
PROOF
<1> USE NoneAssumption, InstanceDiskAssumption DEF IInv, files, links, kept, ghosts
<1>1. /\ op # None /\ op' = None /\ pc' = "done"
      /\ UNCHANGED <<row, conf, cmds, boot, files, log, oldDisk, oldLog, upgrade, template,
                     ghosts>>
      /\ stray' \in {stray, {}} /\ backup' \in {backup, None} /\ faults' \in Nat
  BY DEF Crash, Fail, TypeOK
<1>2. TypeOK'
  BY <1>1 DEF TypeOK
<1>3. LayoutInv' /\ OriginalKept'
  BY <1>1 DEF LayoutInv, OriginalKept
<1>4. DataInv'
  BY <1>1 DEF DataInv, Good, Pending, InPlace, Clean, Current
<1>5. KeptInv'
  BY <1>1 DEF KeptInv, Good, Pending, InPlace
<1>6. LayoutStepInv' /\ RestoreInv' /\ UpgradeInv' /\ GrowInv'
  BY <1>1, IdleSteps
<1>7. QED
  BY <1>2, <1>3, <1>4, <1>5, <1>6

\* A restore that fails turns to its rollback with a link for all it has replaced.
LEMMA FailRestoreKeeps ==
    ASSUME TypeOK, IInv, FailRestore
    PROVE  TypeOK' /\ IInv'
PROOF
<1> USE NoneAssumption, InstanceDiskAssumption, StepSets
    DEF IInv, files, links, kept, ghosts
<1>1. /\ op = "restore" /\ op' = "undo" /\ faults' \in Nat
      /\ \/ pc \in {"rendisk", "rowrestore"} /\ pc' = "undodisk"
         \/ pc \in {"renlog", "linkdisk"} /\ pc' = "undolog"
      /\ UNCHANGED <<row, conf, cmds, boot, files, log, links, kept, rec, ghosts>>
  BY DEF FailRestore, Rolls, TypeOK
<1>2. TypeOK'
  BY <1>1 DEF TypeOK, Commands
<1>3. LayoutInv' /\ OriginalKept'
  BY <1>1 DEF LayoutInv, OriginalKept
<1>4. DataInv'
  BY <1>1 DEF DataInv, Good, Pending, InPlace, Clean, Current
<1>5. KeptInv'
  BY <1>1 DEF KeptInv, Good, Pending, InPlace
<1>6. RestoreInv'
  BY <1>1 DEF RestoreInv
<1>7. LayoutStepInv' /\ UpgradeInv' /\ GrowInv'
  BY <1>1 DEF LayoutStepInv, UpgradeInv, GrowInv, Commands
<1>8. QED
  BY <1>2, <1>3, <1>4, <1>5, <1>6, <1>7

\* A rollback that fails goes on with the next file and keeps every link.
LEMMA FailUndoKeeps ==
    ASSUME TypeOK, IInv, FailUndo
    PROVE  TypeOK' /\ IInv'
PROOF
<1> USE NoneAssumption, InstanceDiskAssumption, StepSets
    DEF IInv, files, links, kept, ghosts
<1>1. /\ op \in {"undo", "keep"} /\ op' = "keep" /\ faults' \in Nat
      /\ \/ pc = "undodisk" /\ pc' = "undolog"
         \/ pc = "undolog" /\ pc' = "unstage"
      /\ UNCHANGED <<row, conf, cmds, boot, files, log, links, kept, rec, ghosts>>
  BY WhoseStep DEF FailUndo, TypeOK
<1>2. TypeOK'
  BY <1>1 DEF TypeOK, Commands
<1>3. LayoutInv' /\ OriginalKept'
  BY <1>1 DEF LayoutInv, OriginalKept
<1>4. DataInv'
  BY <1>1 DEF DataInv, Good, Pending, InPlace, Clean, Current
<1>5. KeptInv'
  BY <1>1 DEF KeptInv, Good, Pending, InPlace
<1>6. RestoreInv'
  BY <1>1 DEF RestoreInv
<1>7. LayoutStepInv' /\ UpgradeInv' /\ GrowInv'
  BY <1>1 DEF LayoutStepInv, UpgradeInv, GrowInv, Commands
<1>8. QED
  BY <1>2, <1>3, <1>4, <1>5, <1>6, <1>7

\* The invariant holds of an instance in either layout.
LEMMA InitHolds ==
    ASSUME Init
    PROVE  TypeOK /\ IInv
PROOF
<1> USE NoneAssumption, InstanceDiskAssumption DEF Init
<1>1. Image(0, 1, 1) \in Whole /\ Image(0, 1, 1).ver = 0 /\ Image(0, 1, 1).mods = 1
      /\ Image(0, 1, 1).fs = 1
  BY DEF Image, Whole, File, Versions, Kernels, Sizes
<1>2. Image(0, 1, 1) # None
  BY <1>1 DEF Whole
<1> HIDE DEF Image
<1>3. PICK p \in {"legacy", "disk"} :
         /\ row = [path |-> p, kernel |-> 1, size |-> 1]
         /\ legacy = IF p = "legacy" THEN Image(0, 1, 1) ELSE None
         /\ disk = IF p = "disk" THEN Image(0, 1, 1) ELSE None
  OBVIOUS
<1>4. row.path = p /\ row.kernel = 1 /\ row.size = 1
  BY <1>3
<1>5. TypeOK
  <2>1. 1 \in Kernels /\ 1 \in Sizes /\ 0 \in Versions
    BY DEF Kernels, Sizes, Versions
  <2>2. row \in [path : {"legacy", "disk"}, kernel : Kernels, size : Sizes]
    BY <1>3, <2>1
  <2>3. QED
    BY <1>1, <1>3, <2>1, <2>2 DEF TypeOK
<1>6. LayoutInv /\ KeptInv /\ OriginalKept
  BY <1>2, <1>3, <1>4 DEF LayoutInv, KeptInv, OriginalKept
<1>7. DataInv
  BY <1>1, <1>3, <1>4 DEF DataInv, Good, Pending, Clean, Current
<1>8. LayoutStepInv /\ RestoreInv /\ UpgradeInv /\ GrowInv
  BY StepSets DEF LayoutStepInv, RestoreInv, UpgradeInv, GrowInv, Commands
<1>9. QED
  BY <1>5, <1>6, <1>7, <1>8 DEF IInv

\* Every step of the command under way.
LEMMA StepsKeep ==
    ASSUME TypeOK, IInv, Steps
    PROVE  TypeOK' /\ IInv'
PROOF
<1>1. CASE \/ JournalOpen \/ MakeStage \/ Identify \/ CloneStage \/ StageReady
           \/ RenameStage \/ SetPath \/ Unlink \/ JournalClose \/ Boot
  BY <1>1, JournalOpenKeeps, MakeStageKeeps, IdentifyKeeps, CloneStageKeeps,
     StageReadyKeeps, RenameStageKeeps, SetPathKeeps, UnlinkKeeps, JournalCloseKeeps,
     BootKeeps
<1>2. CASE \/ TakeSnapshot \/ WriteManifest \/ StageFiles \/ LinkLog \/ RenameLog
           \/ LinkDisk \/ RenameDisk \/ RowRestore \/ DropLinks \/ UndoDisk \/ UndoLog
           \/ Unstage
  BY <1>2, TakeSnapshotKeeps, WriteManifestKeeps, StageFilesKeeps, LinkLogKeeps,
     RenameLogKeeps, LinkDiskKeeps, RenameDiskKeeps, RowRestoreKeeps, DropLinksKeeps,
     UndoDiskKeeps, UndoLogKeeps, UnstageKeeps
<1>3. CASE \/ PrepareUpgrade \/ InstallModules \/ JournalPending \/ CopyDisk \/ SwapDisk
           \/ RowKernel \/ JournalSettled \/ JournalReopen \/ UnswapDisk \/ RowOld
           \/ JournalFinal \/ DropSaved
  BY <1>3, PrepareUpgradeKeeps, InstallModulesKeeps, JournalPendingKeeps, CopyDiskKeeps,
     SwapDiskKeeps, RowKernelKeeps, JournalSettledKeeps, JournalReopenKeeps,
     UnswapDiskKeeps, RowOldKeeps, JournalFinalKeeps, DropSavedKeeps
<1>4. CASE \/ Truncate \/ Grow \/ RowSize \/ StageTemplate \/ SanitizeTemplate
           \/ PublishTemplate
  BY <1>4, TruncateKeeps, GrowKeeps, RowSizeKeeps, StageTemplateKeeps,
     SanitizeTemplateKeeps, PublishTemplateKeeps
<1>5. QED
  BY <1>1, <1>2, <1>3, <1>4 DEF Steps

\* Every step of the system keeps the invariant.
LEMMA NextKeeps ==
    ASSUME TypeOK, IInv, [Next]_vars
    PROVE  TypeOK' /\ IInv'
PROOF
<1>1. CASE Start \/ Backup \/ Restore \/ Upgrade \/ Rollback \/ Finalize \/ CreateTemplate
  BY <1>1, StartKeeps, BackupKeeps, RestoreKeeps, UpgradeKeeps, RollbackKeeps,
     FinalizeKeeps, CreateTemplateKeeps
<1>2. CASE \E s \in 1 .. MaxSize : Resize(s)
  BY <1>2, ResizeKeeps
<1>3. CASE Stop \/ DeleteBackup \/ DeleteTemplate
  BY <1>3, QuietKeeps
<1>4. CASE GuestWrite \/ Steps
  BY <1>4, GuestWriteKeeps, StepsKeep
<1>5. CASE Crash \/ Fail \/ FailRestore \/ FailUndo
  BY <1>5, EndKeeps, FailRestoreKeeps, FailUndoKeeps
<1>6. CASE InstallKernel \/ UNCHANGED vars
  BY <1>6, CatalogueKeeps
<1>7. QED
  BY <1>1, <1>2, <1>3, <1>4, <1>5, <1>6 DEF Next

\* At every moment, through every crash, failed step and failed rollback, the files,
\* the row and the command under way agree as IInv says.
THEOREM DiskInvariant == Spec => [](TypeOK /\ IInv)
PROOF
<1>1. Init => TypeOK /\ IInv
  BY InitHolds
<1>2. (TypeOK /\ IInv) /\ [Next]_vars => (TypeOK /\ IInv)'
  BY NextKeeps
<1>3. QED
  BY <1>1, <1>2, PTL DEF Spec

\* What a start would accept fits the row, whether the disk is in place or a layout
\* move is to be resumed.
LEMMA BootableIsGood ==
    ASSUME TypeOK, IInv, Bootable
    PROVE  Current # None /\ Current \in Whole /\ Good(Current)
PROOF
<1>1. oldDisk = None /\ ~Pending
  BY DEF Bootable, LayoutAccepts, IInv, DataInv, Clean
<1>2. Current # None /\ Current \in Whole
  BY DEF IInv, LayoutInv, Current, TypeOK
<1>3. QED
  BY <1>1, <1>2 DEF IInv, DataInv

\* What would be booted, or taken along by a host snapshot, is whole and holds the
\* guest data last put in place.
THEOREM DataIsKept == Spec => []PathHoldsData
PROOF
<1>1. TypeOK /\ IInv => PathHoldsData
  <2>1. SUFFICES ASSUME TypeOK, IInv PROVE PathHoldsData
    OBVIOUS
  <2>2. Bootable => Current # None /\ Current.whole /\ Current.ver = want
    BY <2>1, BootableIsGood DEF Good, Whole
  <2>3. SnapshotTakes => Current.whole
    BY <2>1 DEF SnapshotTakes, Current, TypeOK, Whole
  <2>4. Current.ver = want \/ (oldDisk # None /\ oldDisk.ver = want)
    BY <2>1 DEF IInv, DataInv
  <2>5. QED
    BY <2>2, <2>3, <2>4 DEF PathHoldsData
<1>2. QED
  BY <1>1, DiskInvariant, PTL

\* A kernel is booted, backed up or published only next to its own modules.
THEOREM PairsMatch == Spec => []PairMatches
PROOF
<1>1. TypeOK /\ IInv => PairMatches
  BY BootableIsGood DEF PairMatches, Good, IInv, KeptInv
<1>2. QED
  BY <1>1, DiskInvariant, PTL

\* Until a restore has changed the row, nothing it replaces is lost.
THEOREM OriginalStays == Spec => []OriginalKept
PROOF
<1>1. IInv => OriginalKept
  BY DEF IInv
<1>2. QED
  BY <1>1, DiskInvariant, PTL

\* A stopped instance can be started, or be rolled back to a whole and matching pair.
THEOREM AlwaysRecoverable == Spec => []Recoverable
PROOF
<1>1. TypeOK /\ IInv => Recoverable
  <2>1. SUFFICES ASSUME TypeOK, IInv, Idle, Stopped, oldDisk = None, "staged" \notin stray
                 PROVE  IF Pending
                          THEN /\ RollbackAccepts
                               /\ upgrade.saved # None /\ upgrade.saved.whole
                               /\ upgrade.saved.mods = upgrade.kernel
                          ELSE LayoutAccepts
    BY DEF Recoverable
  <2>2. stray \subseteq {"copy"}
    BY <2>1 DEF TypeOK
  <2>3. CASE Pending
    <3>1. /\ InPlace /\ upgrade # None /\ ~upgrade.final /\ upgrade.saved # None
          /\ upgrade.saved.mods = upgrade.kernel
      BY <2>1, <2>3 DEF IInv, DataInv, KeptInv, Pending
    <3>2. upgrade.saved.whole
      BY <2>1, <3>1 DEF TypeOK, Retained, Whole
    <3>3. RollbackAccepts
      BY <2>1, <2>2, <3>1 DEF RollbackAccepts, IInv, LayoutInv, InPlace
    <3>4. QED
      BY <2>3, <3>1, <3>2, <3>3
  <2>4. CASE ~Pending
    <3>1. stray = {}
      BY <2>1, <2>2, <2>4 DEF IInv, DataInv
    <3>2. row.path \in {"legacy", "disk"}
      BY <2>1 DEF TypeOK
    <3>3. LayoutAccepts
      BY <2>1, <3>1, <3>2 DEF LayoutAccepts, IInv, LayoutInv, InPlace, Clean
    <3>4. QED
      BY <2>4, <3>3
  <2>5. QED
    BY <2>3, <2>4
<1>2. QED
  BY <1>1, DiskInvariant, PTL

\* The row never promises a larger filesystem than there is.
THEOREM SizeStaysReal == Spec => []SizeIsReal
PROOF
<1>1. TypeOK /\ IInv => SizeIsReal
  BY BootableIsGood DEF SizeIsReal, Good
<1>2. QED
  BY <1>1, DiskInvariant, PTL
=============================================================================
