--------------------------- MODULE StartReceipts ---------------------------
(***************************************************************************)
(* The root runner's durable start receipts for ONE instance name          *)
(* (internal/vmrunner/receipts.go, ram_state.go, cleanup.go).              *)
(*                                                                         *)
(* The control plane names every launch attempt with a fresh request ID    *)
(* bound to an instance incarnation and to the host boot it was made in.   *)
(* Start, start-result, stop, fence and proof calls for an attempt may     *)
(* reach the runner late, more than once, and in any order: every handler  *)
(* below is enabled for every attempt that was ever issued.  Handlers run  *)
(* under the flock of the name, so a handler that only reads and writes    *)
(* journals is one step; launching and stopping a VM are split at the      *)
(* points where the runner can crash, the VM can exit or the host reboot.  *)
(*                                                                         *)
(* Abstractions: a (PID, start ticks) pair is the attempt that launched    *)
(* the process; the jailer workspace, API socket and cgroup directory are  *)
(* one flag; an API call, a journal write or a clean-up that fails is a    *)
(* nondeterministic error branch.  Starts without a request ID are not     *)
(* modelled (this control plane never sends one), but a VM left by such a  *)
(* start may occupy the name when the runner is upgraded.                  *)
(***************************************************************************)
EXTENDS Integers, FiniteSets

CONSTANTS
    Attempts,    \* request IDs the control plane may issue for this name
    Instances,   \* incarnations that use the name, one after the other
    InstOf,      \* the incarnation an attempt is bound to
    Legacy,      \* the process of a VM that has no receipt
    None,        \* no attempt
    MaxBoot,     \* bound: host reboots explored
    MaxDisk      \* bound: changes of the root disk explored

ASSUME ConstantsAssumption ==
    /\ InstOf \in [Attempts -> Instances]
    /\ Legacy \notin Attempts
    /\ None \notin Attempts
    /\ None # Legacy
    /\ MaxBoot \in Nat
    /\ MaxDisk \in Nat

NoBoot == -1

VARIABLES
    boot,      \* host boot ID
    reqBoot,   \* boot ID an attempt was issued under, NoBoot before that
    receipt,   \* durable receipt state of each attempt, "none" if no file
    saveReq,   \* durable SaveState flag of each receipt
    live,      \* VM processes on the host
    paused,    \* live VMs whose vCPUs are paused for a RAM capture
    paths,     \* jailer workspace, socket or cgroup directory exist
    ram,       \* attempt whose RAM image is published, or None
    ramDisk,   \* disk version that image was captured with
    disk,      \* version of the root disk
    fenced,    \* incarnations with a durable deletion fence
    admitted,  \* starts past the drain check, holding startAdmission.RLock
    drain,     \* open | closed | listed | stopping | done
    pc,        \* step of the handler that holds the name lock across steps
    holder,    \* attempt that handler works on, or None
    image,     \* attempt whose RAM image the launch in progress consumed
    imageDisk, \* and the disk version it belongs to
    \* History, read by the properties only.
    absent,    \* attempts some call answered "absent" for
    proved,    \* incarnations a cleanup proof was given for
    launches,  \* processes spawned for each attempt
    resumes    \* times the image of each attempt was loaded

durable == <<reqBoot, receipt, saveReq, ram, ramDisk, fenced>>
runtime == <<live, paused, paths, disk>>
op      == <<pc, holder, image, imageDisk>>
history == <<absent, proved, launches, resumes>>
vars    == <<boot, durable, runtime, admitted, drain, op, history>>

Procs == Attempts \cup {Legacy}

TypeOK ==
    /\ boot \in 0..MaxBoot
    /\ reqBoot \in [Attempts -> (0..MaxBoot) \cup {NoBoot}]
    /\ receipt \in [Attempts -> {"none", "accepted", "started", "closed"}]
    /\ saveReq \in [Attempts -> BOOLEAN]
    /\ live \in SUBSET Procs
    /\ paused \in SUBSET (live \cap Attempts)
    /\ paths \in BOOLEAN
    /\ ram \in Attempts \cup {None}
    /\ ramDisk \in 0..MaxDisk
    /\ disk \in 0..MaxDisk
    /\ fenced \in SUBSET Instances
    /\ admitted \in SUBSET Attempts
    /\ drain \in {"open", "closed", "listed", "stopping", "done"}
    /\ pc \in {"idle", "accepted", "staged", "spawned", "saving", "killing", "killed"}
    /\ holder \in Attempts \cup {None}
    /\ image \in Attempts \cup {None}
    /\ imageDisk \in 0..MaxDisk
    /\ absent \in SUBSET Attempts
    /\ proved \in SUBSET Instances
    /\ launches \in [Attempts -> Nat]
    /\ resumes \in [Attempts -> Nat]

Init ==
    /\ boot = 0
    /\ reqBoot = [a \in Attempts |-> NoBoot]
    /\ receipt = [a \in Attempts |-> "none"]
    /\ saveReq = [a \in Attempts |-> FALSE]
    /\ live \in {{}, {Legacy}}
    /\ paused = {}
    /\ paths = (live # {})
    /\ ram = None /\ ramDisk = 0 /\ disk = 0
    /\ fenced = {}
    /\ admitted = {} /\ drain = "open"
    /\ pc = "idle" /\ holder = None /\ image = None /\ imageDisk = 0
    /\ absent = {} /\ proved = {}
    /\ launches = [a \in Attempts |-> 0]
    /\ resumes = [a \in Attempts |-> 0]

-----------------------------------------------------------------------------
(* What a handler can observe under the name lock. *)

LockFree == pc = "idle"
Issued(a) == reqBoot[a] # NoBoot
Active == {a \in Attempts : receipt[a] \in {"accepted", "started"}}
NoLiveRuntime == live = {}
NameVacant == Active = {} /\ NoLiveRuntime /\ ~paths

-----------------------------------------------------------------------------
(* Outcomes shared by the handlers.  Each constrains receipt', paths' and   *)
(* absent' and nothing else.                                                *)

NoOutcome == UNCHANGED <<receipt, paths, absent>>

\* A finished attempt whose process is gone: clean up, then close durably. A
\* clean-up that fails half-way leaves the receipt as it was.
FinishDead(a) ==
    IF Active = {a} /\ NoLiveRuntime
      THEN \/ /\ paths' = FALSE
              /\ receipt' = [receipt EXCEPT ![a] = "closed"]
              /\ absent' = absent \cup {a}
           \/ /\ paths' \in {paths, FALSE}
              /\ UNCHANGED <<receipt, absent>>
      ELSE NoOutcome

\* Mutant: a closed receipt alone counts as absence.
AnswerClosedUnchecked(a) == absent' = absent \cup {a}

\* "absent" needs more than a closed receipt: the name must be vacant too.
AnswerClosed(a) ==
    absent' = IF NameVacant THEN absent \cup {a} ELSE absent

\* Mutant: a quarantined attempt without a process is treated as exited.
ResultLockedReleases(a) ==
    IF receipt[a] = "closed"
      THEN AnswerClosed(a) /\ UNCHANGED <<receipt, paths>>
      ELSE IF reqBoot[a] # boot \/ a \notin live THEN FinishDead(a) ELSE NoOutcome

\* What is known of an attempt; unknown or running, nothing is written.
ResultLocked(a) ==
    IF receipt[a] = "closed"
      THEN AnswerClosed(a) /\ UNCHANGED <<receipt, paths>>
      ELSE IF reqBoot[a] # boot \/ (receipt[a] = "started" /\ a \notin live)
             THEN FinishDead(a) ELSE NoOutcome

\* An attempt that never launched is fenced by a closed receipt.
CloseUnstarted(a) ==
    /\ receipt' = [receipt EXCEPT ![a] = "closed"]
    /\ AnswerClosed(a)
    /\ UNCHANGED paths

\* Mutant: only receipts are consulted, not processes and paths.
OccupiedByReceipt == Active # {}

\* Why a fresh attempt is not launched although nothing fences it: another
\* attempt, an unowned process or unowned runtime paths occupy the name.
Occupied == Active # {} \/ live # {} \/ paths

\* Mutant: the image of an older disk is accepted.
ImageFitsAnyDisk(a) ==
    InstOf[ram] = InstOf[a] /\ receipt[ram] = "closed" /\ saveReq[ram]

\* Mutant: the image is taken for the name's, whichever incarnation saved it.
ImageFitsAnyOwner(a) == receipt[ram] = "closed" /\ saveReq[ram] /\ disk = ramDisk

\* The published image may be resumed: same incarnation, source stopped after
\* a save, disk untouched since.  (A changed VM configuration is one more
\* reason to refuse, a changed snapshot format one to discard.)
ImageFits(a) ==
    /\ InstOf[ram] = InstOf[a]
    /\ receipt[ram] = "closed"
    /\ saveReq[ram]
    /\ disk = ramDisk

-----------------------------------------------------------------------------
(* The control plane's side of a launch: it persists a new request ID and   *)
(* the current boot ID before the first call (provision.startFirecracker).  *)

Issue(a) ==
    /\ ~Issued(a)
    /\ reqBoot' = [reqBoot EXCEPT ![a] = boot]
    /\ UNCHANGED <<boot, receipt, saveReq, ram, ramDisk, fenced, runtime,
                   admitted, drain, op, history>>

-----------------------------------------------------------------------------
(* POST /vm/start *)

\* Mutant: starts are admitted while draining.
AdmitStartDraining(a) ==
    /\ Issued(a)
    /\ admitted' = admitted \cup {a}
    /\ UNCHANGED <<boot, durable, runtime, drain, op, history>>

\* The start passed the drain check and holds startAdmission for reading
\* while it waits for the name lock.
AdmitStart(a) ==
    /\ Issued(a)
    /\ drain = "open"
    /\ admitted' = admitted \cup {a}
    /\ UNCHANGED <<boot, durable, runtime, drain, op, history>>

HandleStart(a) == a \in admitted /\ LockFree

\* The handler returns to its caller without launching anything.
StartReturns(a) ==
    /\ admitted' = admitted \ {a}
    /\ UNCHANGED <<boot, reqBoot, saveReq, ramDisk, fenced, live, paused, disk,
                   drain, op, proved, launches, resumes>>

\* A replay reports the recorded attempt; it never launches.
ReplayStart(a) ==
    /\ HandleStart(a)
    /\ receipt[a] # "none"
    /\ ResultLocked(a)
    /\ StartReturns(a)
    /\ UNCHANGED ram

\* The incarnation has deletion intent: error, and no receipt is written.
FencedStart(a) ==
    /\ HandleStart(a)
    /\ receipt[a] = "none"
    /\ InstOf[a] \in fenced
    /\ NoOutcome
    /\ StartReturns(a)
    /\ UNCHANGED ram

\* Mutant: the deletion fence is ignored.
NewStartUnfenced(a) ==
    HandleStart(a) /\ receipt[a] = "none"

NewStart(a) ==
    /\ HandleStart(a)
    /\ receipt[a] = "none"
    /\ InstOf[a] \notin fenced

\* Issued before a host reboot: close it durably instead of launching.
StaleBootStart(a) ==
    /\ NewStart(a)
    /\ reqBoot[a] # boot
    /\ CloseUnstarted(a)
    /\ StartReturns(a)
    /\ UNCHANGED ram

OccupiedStart(a) ==
    /\ NewStart(a)
    /\ reqBoot[a] = boot
    /\ Occupied
    /\ NoOutcome
    /\ StartReturns(a)
    /\ UNCHANGED ram

\* The saved RAM cannot be used and was not discarded: closed and absent.
RAMRefusedStart(a) ==
    /\ NewStart(a)
    /\ reqBoot[a] = boot
    /\ ~Occupied
    /\ ram # None
    /\ receipt' = [receipt EXCEPT ![a] = "closed"]
    /\ absent' = absent \cup {a}
    /\ StartReturns(a)
    /\ UNCHANGED <<ram, paths>>

\* checkRAMState succeeds: there is no image, the request or a foreign
\* snapshot format discards it, or it fits and is kept for the launch.
CheckRAMState(a) ==
    \/ ram' = None
    \/ ram # None /\ ImageFits(a) /\ ram' = ram

AcceptStart(a) ==
    /\ NewStart(a)
    /\ reqBoot[a] = boot
    /\ ~Occupied
    /\ CheckRAMState(a)
    /\ receipt' = [receipt EXCEPT ![a] = "accepted"]
    /\ pc' = "accepted"
    /\ holder' = a
    /\ UNCHANGED <<boot, reqBoot, saveReq, ramDisk, fenced, runtime, admitted,
                   drain, image, imageDisk, history>>

-----------------------------------------------------------------------------
(* The launch itself, startVM, under the accepted receipt *)

\* The handler ends and releases the name lock; ok is what a drain is told.
EndOp(ok) ==
    /\ pc' = "idle"
    /\ holder' = None
    /\ image' = None
    /\ imageDisk' = 0
    /\ admitted' = IF pc \in {"accepted", "staged", "spawned"}
                     THEN admitted \ {holder} ELSE admitted
    /\ drain' = IF drain # "stopping" THEN drain
                ELSE IF ok THEN "done" ELSE "closed"

\* An error before the launch is irrevocable: the jail directory is removed,
\* if that succeeds, with the image if it was already moved there.
LaunchAborts ==
    /\ pc = "accepted"
    /\ ram' \in {ram, None}
    /\ paths' \in BOOLEAN
    /\ EndOp(FALSE)
    /\ UNCHANGED <<boot, reqBoot, receipt, saveReq, ramDisk, fenced, live, paused,
                   disk, history>>

\* The jail directory exists and the image was renamed into it.
StageRAM ==
    /\ pc = "accepted"
    /\ pc' = "staged"
    /\ paths' = TRUE
    /\ image' = ram
    /\ imageDisk' = IF ram = None THEN 0 ELSE ramDisk
    /\ ram' = None
    /\ UNCHANGED <<boot, reqBoot, receipt, saveReq, ramDisk, fenced, live, paused,
                   disk, admitted, drain, holder, history>>

\* machine.Start returns an error without a process, or with one that the
\* accepted receipt then quarantines.
LaunchFails ==
    /\ pc = "staged"
    /\ EndOp(FALSE)
    /\ UNCHANGED <<boot, durable, runtime, history>>

Spawned ==
    /\ live' = live \cup {holder}
    /\ launches' = [launches EXCEPT ![holder] = @ + 1]
    /\ resumes' = IF image = None THEN resumes
                  ELSE [resumes EXCEPT ![image] = @ + 1]
    /\ UNCHANGED <<boot, durable, paused, paths, disk, absent, proved>>

LaunchFailsLive ==
    /\ pc = "staged"
    /\ Spawned
    /\ EndOp(FALSE)

Launch ==
    /\ pc = "staged"
    /\ Spawned
    /\ pc' = "spawned"
    /\ UNCHANGED <<admitted, drain, holder, image, imageDisk>>

\* The process identity is recorded while it can still be read.
RecordStarted ==
    /\ pc = "spawned"
    /\ holder \in live
    /\ receipt' = [receipt EXCEPT ![holder] = "started"]
    /\ EndOp(TRUE)
    /\ UNCHANGED <<boot, reqBoot, saveReq, ram, ramDisk, fenced, runtime, history>>

\* The process is gone, or the write fails: the attempt stays quarantined.
RecordFails ==
    /\ pc = "spawned"
    /\ EndOp(FALSE)
    /\ UNCHANGED <<boot, durable, runtime, history>>

-----------------------------------------------------------------------------
(* POST /vm/start-result *)

\* Asking about an attempt the runner never saw closes it first, so that the
\* start call, should it still arrive, finds a closed receipt.
ResolveStart(a) ==
    /\ Issued(a)
    /\ LockFree
    /\ IF receipt[a] = "none" THEN CloseUnstarted(a) ELSE ResultLocked(a)
    /\ UNCHANGED <<boot, reqBoot, saveReq, ram, ramDisk, fenced, live, paused, disk,
                   admitted, drain, op, proved, launches, resumes>>

-----------------------------------------------------------------------------
(* POST /vm/stop *)

\* Mutant: stopping a closed attempt cleans the name once more.
StopLockedCleans(a, save) ==
    \/ /\ receipt[a] = "closed"
       /\ paths' = FALSE
       /\ UNCHANGED <<receipt, absent, op>>
    \/ /\ receipt[a] = "started" /\ reqBoot[a] = boot
       /\ a \in live /\ Active = {a}
       /\ pc' = IF save THEN "saving" ELSE "killing"
       /\ holder' = a
       /\ NoOutcome
       /\ UNCHANGED <<image, imageDisk>>

\* stopReceiptLocked up to the point where it signals the verified process.
StopLocked(a, save) ==
    \/ /\ \/ receipt[a] = "closed"
          \/ receipt[a] = "accepted" /\ reqBoot[a] = boot
          \/ receipt[a] = "started" /\ reqBoot[a] = boot /\ a \in live
       /\ NoOutcome
       /\ UNCHANGED op
    \/ /\ receipt[a] \in {"accepted", "started"}
       /\ reqBoot[a] # boot \/ (receipt[a] = "started" /\ a \notin live)
       /\ FinishDead(a)
       /\ UNCHANGED op
    \/ /\ receipt[a] = "started" /\ reqBoot[a] = boot
       /\ a \in live /\ Active = {a}
       /\ pc' = IF save THEN "saving" ELSE "killing"
       /\ holder' = a
       /\ NoOutcome
       /\ UNCHANGED <<image, imageDisk>>

\* The save intent is durable before the VM is touched, and it sticks: a
\* retry without the option still saves.
ReceiptStop(a, save) ==
    /\ Issued(a)
    /\ LockFree
    /\ receipt[a] # "none"
    /\ save => saveReq[a] \/ receipt[a] = "started"
    /\ saveReq' = [saveReq EXCEPT ![a] = @ \/ save]
    /\ StopLocked(a, saveReq[a] \/ save)
    /\ UNCHANGED <<boot, reqBoot, ram, ramDisk, fenced, live, paused, disk,
                   admitted, drain, proved, launches, resumes>>

\* Pause, snapshot, publish.  An image of this attempt is already complete;
\* one of another attempt is never overwritten.
SaveRAMState ==
    /\ pc = "saving"
    /\ holder \in live
    /\ ram \in {None, holder}
    /\ pc' = "killing"
    /\ paused' = IF ram = None THEN paused \cup {holder} ELSE paused
    /\ ram' = holder
    /\ ramDisk' = IF ram = None THEN disk ELSE ramDisk
    /\ UNCHANGED <<boot, reqBoot, receipt, saveReq, fenced, live, paths, disk,
                   admitted, drain, holder, image, imageDisk, history>>

\* No space, an API error, or a foreign image; the VM may stay paused.
SaveFails ==
    /\ pc = "saving"
    /\ paused' \in {paused, paused \cup ({holder} \cap live)}
    /\ EndOp(FALSE)
    /\ UNCHANGED <<boot, durable, live, paths, disk, history>>

\* The process exits after the guest shutdown or SIGKILL on its pidfd.
Kill ==
    /\ pc = "killing"
    /\ live' = live \ {holder}
    /\ paused' = paused \ {holder}
    /\ pc' = "killed"
    /\ UNCHANGED <<boot, durable, paths, disk, admitted, drain, holder, image,
                   imageDisk, history>>

KillFails ==
    /\ pc = "killing"
    /\ EndOp(FALSE)
    /\ UNCHANGED <<boot, durable, runtime, history>>

CloseStopped ==
    /\ pc = "killed"
    /\ NoLiveRuntime
    /\ paths' = FALSE
    /\ receipt' = [receipt EXCEPT ![holder] = "closed"]
    /\ EndOp(TRUE)
    /\ UNCHANGED <<boot, reqBoot, saveReq, ram, ramDisk, fenced, live, paused, disk,
                   history>>

CloseFails ==
    /\ pc = "killed"
    /\ paths' \in {paths, FALSE}
    /\ EndOp(FALSE)
    /\ UNCHANGED <<boot, durable, live, paused, disk, history>>

\* A stop without a request ID: only a name no managed attempt occupies.
StopLegacyOutcome ==
    /\ Active = {}
    /\ live' = live \ {Legacy}
    /\ live' = {}
    /\ paths' = FALSE

LegacyStop(i) ==
    /\ LockFree
    /\ i \notin fenced
    /\ StopLegacyOutcome
    /\ UNCHANGED <<boot, durable, paused, disk, admitted, drain, op, history>>

-----------------------------------------------------------------------------
(* POST /vm/drain *)

\* Waits for every admitted start, then refuses new ones until a restart.
DrainAdmission ==
    /\ drain = "open"
    /\ admitted = {}
    /\ drain' = "closed"
    /\ UNCHANGED <<boot, durable, runtime, admitted, op, history>>

DrainInventory ==
    /\ drain = "closed"
    /\ drain' = IF live = {} THEN "done" ELSE "listed"
    /\ UNCHANGED <<boot, durable, runtime, admitted, op, history>>

\* shutdownRunningVM under the name lock: the active receipt decides, never
\* the processes enumerated before the lock was taken.
DrainStop(a) ==
    /\ drain = "listed"
    /\ LockFree
    /\ Active = {a}
    /\ StopLocked(a, saveReq[a])
    /\ UNCHANGED saveReq
    /\ drain' = IF pc' # "idle" THEN "stopping"
                ELSE IF receipt'[a] = "closed" THEN "done" ELSE "closed"
    /\ UNCHANGED <<boot, reqBoot, ram, ramDisk, fenced, live, paused, disk,
                   admitted, proved, launches, resumes>>

DrainStopLegacy ==
    /\ drain = "listed"
    /\ LockFree
    /\ StopLegacyOutcome
    /\ drain' = "done"
    /\ UNCHANGED <<boot, durable, paused, disk, admitted, op, history>>

-----------------------------------------------------------------------------
(* Deletion of an incarnation *)

\* POST /vm/cold-disk-v1 fence-delete (or delete): only for an idle name, and
\* refused while draining.  The incarnation's RAM image goes after the fence.
FenceDelete(i) ==
    /\ LockFree
    /\ drain = "open"
    /\ NameVacant
    /\ ram # None => InstOf[ram] = i
    /\ fenced' = fenced \cup {i}
    /\ ram' \in {ram, None}
    /\ UNCHANGED <<boot, reqBoot, receipt, saveReq, ramDisk, runtime, admitted,
                   drain, op, history>>

\* POST /vm/cleanup-proof-v2 for the last attempt the control plane knows of,
\* or for none if the incarnation never started.
VerifyDeletion(i, a) ==
    /\ LockFree
    /\ i \in fenced
    /\ a # None => InstOf[a] = i /\ receipt[a] = "closed"
    /\ NameVacant
    /\ proved' = proved \cup {i}
    /\ UNCHANGED <<boot, durable, runtime, admitted, drain, op, absent, launches,
                   resumes>>

-----------------------------------------------------------------------------
(* The environment *)

VMExit(p) ==
    /\ p \in live
    /\ live' = live \ {p}
    /\ paused' = paused \ {p}
    /\ UNCHANGED <<boot, durable, paths, disk, admitted, drain, op, history>>

GuestWrite(p) ==
    /\ p \in live \ paused
    /\ disk < MaxDisk
    /\ disk' = disk + 1
    /\ UNCHANGED <<boot, durable, live, paused, paths, admitted, drain, op, history>>

\* The control plane resizes, restores or replaces the disk of a stopped VM;
\* it holds its own instance lock and has been told the VM is absent.
HostDiskChange ==
    /\ LockFree
    /\ live = {} /\ Active = {}
    /\ disk < MaxDisk
    /\ disk' = disk + 1
    /\ UNCHANGED <<boot, durable, live, paused, paths, admitted, drain, op, history>>

\* The runner dies and is restarted; its flocks go with it, its VMs need not.
RunnerRestart ==
    /\ admitted' = {}
    /\ drain' = "open"
    /\ pc' = "idle" /\ holder' = None /\ image' = None /\ imageDisk' = 0
    /\ UNCHANGED <<boot, durable, runtime, history>>

HostReboot ==
    /\ boot < MaxBoot
    /\ boot' = boot + 1
    /\ live' = {} /\ paused' = {}
    /\ admitted' = {}
    /\ drain' = "open"
    /\ pc' = "idle" /\ holder' = None /\ image' = None /\ imageDisk' = 0
    /\ UNCHANGED <<durable, paths, disk, history>>

-----------------------------------------------------------------------------

Start(a) ==
    \/ ReplayStart(a) \/ FencedStart(a) \/ StaleBootStart(a)
    \/ OccupiedStart(a) \/ RAMRefusedStart(a) \/ AcceptStart(a)

StartCall == \E a \in Attempts : Issue(a) \/ AdmitStart(a) \/ Start(a)

LaunchStep ==
    LaunchAborts \/ StageRAM \/ LaunchFails \/ LaunchFailsLive \/ Launch
        \/ RecordStarted \/ RecordFails

StopCall ==
    \/ \E a \in Attempts : ResolveStart(a) \/ DrainStop(a)
    \/ \E a \in Attempts, save \in BOOLEAN : ReceiptStop(a, save)
    \/ \E i \in Instances : LegacyStop(i)
    \/ DrainStopLegacy

StopStep ==
    SaveRAMState \/ SaveFails \/ Kill \/ KillFails \/ CloseStopped \/ CloseFails

DrainStep == DrainAdmission \/ DrainInventory

DeletionCall ==
    \/ \E i \in Instances : FenceDelete(i)
    \/ \E i \in Instances, a \in Attempts \cup {None} : VerifyDeletion(i, a)

Environment ==
    \/ \E p \in Procs : VMExit(p) \/ GuestWrite(p)
    \/ HostDiskChange \/ RunnerRestart \/ HostReboot

Next ==
    StartCall \/ LaunchStep \/ StopCall \/ StopStep \/ DrainStep \/ DeletionCall
        \/ Environment

Spec == Init /\ [][Next]_vars

-----------------------------------------------------------------------------
(* Properties *)

\* However start, start-result and stop calls are delayed and repeated, and
\* wherever the runner crashes, at most one VM process runs under the name.
AtMostOneVM == Cardinality(live) <= 1

\* A request ID launches at most one process: replays, and a start that races
\* its own start-result call, never launch a second one.
LaunchedOnce == \A a \in Attempts : launches[a] <= 1

\* "absent" is final.  The control plane tears the network down and starts a
\* successor on that answer, so the attempt must not come to life later.
AbsentIsFinal == \A a \in absent : a \notin live /\ receipt[a] = "closed"

\* "absent" vouches for the whole name at that moment: no process, and no
\* runtime path a successor would trip over.
AbsentMeansVacant == [][absent' # absent => live' = {} /\ ~paths']_vars

\* Clean-up by name never removes the workspace or socket of a running VM,
\* whichever delayed stop or start-result call triggers it.
LiveVMKeepsPaths == live # {} => paths

\* The quarantine of a launch is released only by a reboot.
KeepsQuarantine ==
    \A a \in Attempts :
        receipt[a] = "accepted" /\ receipt'[a] = "closed" => reqBoot[a] # boot /\ live = {}

\* A launch of unknown outcome holds its name: on the boot it was made in,
\* nothing closes the accepted receipt.  Only a reboot proves the process gone.
QuarantineHolds == [][KeepsQuarantine]_vars

\* Once the runner has given a cleanup proof for an incarnation, none of its
\* attempts, however late they arrive, ever runs.
DeletionProofIsFinal ==
    \A a \in Attempts : InstOf[a] \in proved => a \notin live

\* A captured RAM image is loaded at most once.
ResumedOnce == \A a \in Attempts : resumes[a] <= 1

\* What a launch loads was captured from a VM that has stopped for good, and
\* belongs to the disk exactly as that VM left it.
ResumeFitsDisk ==
    pc = "staged" /\ image # None
      => /\ disk = imageDisk
         /\ image \notin live /\ receipt[image] = "closed"

\* A new incarnation under a reused name never resumes its predecessor's RAM.
ResumeOwnIncarnation ==
    pc = "staged" /\ image # None => InstOf[image] = InstOf[holder]

\* The source of a published image never executes another instruction: it is
\* paused until it is killed, across failed stops and runner crashes.
CapturedSourceStaysPaused ==
    \A a \in Attempts : ram = a /\ a \in live => a \in paused

\* A drain that reports success leaves no VM, and none appears until the
\* runner is restarted.
DrainedHostIsIdle == drain = "done" => live = {}

\* The runner keeps its contract: every step of the detailed protocol is one
\* step of RunnerContract or none.
Contract ==
    INSTANCE RunnerContract WITH
        spawned <- {a \in Attempts : launches[a] > 0},
        old     <- {a \in Attempts : Issued(a) /\ reqBoot[a] # boot}

ImplementsContract == Contract!CSpec

-----------------------------------------------------------------------------
(* The inductive invariant behind the properties, by the idea of each part. *)

Launching == pc \in {"accepted", "staged", "spawned"}
Stopping  == pc \in {"saving", "killing", "killed"}

\* The handler that holds the name lock across steps works on the receipt it
\* believes it works on, and a launch has not begun before its time.
HandlerInv ==
    /\ pc = "idle" <=> holder = None
    /\ Launching => receipt[holder] = "accepted" /\ holder \in admitted
    /\ pc \in {"accepted", "staged"} => live = {} /\ launches[holder] = 0
    /\ pc = "staged" => paths
    /\ Stopping => receipt[holder] = "started"
    /\ pc = "killed" => live = {}

\* One open receipt at most, and every process answers to it.
OwnerInv ==
    /\ \A a, b \in Active : a = b
    /\ live \subseteq Active \cup {Legacy}
    /\ Legacy \in live => Active = {}
    /\ live # {} => paths

\* What was launched has a receipt, and what was declared absent is closed.
ReceiptInv ==
    /\ \A a \in Attempts : launches[a] <= 1
    /\ \A a \in Attempts : launches[a] > 0 => receipt[a] # "none"
    /\ \A a \in absent : receipt[a] = "closed"

FenceInv ==
    /\ proved \subseteq fenced
    /\ \A a \in Active : InstOf[a] \notin fenced

DrainInv ==
    /\ drain # "open" => admitted = {}
    /\ drain = "stopping" => Stopping
    /\ drain = "done" => live = {}

\* An image is in one place: published, or with the launch that consumes it.
ImageInv ==
    /\ pc = "accepted" /\ ram # None
         => InstOf[ram] = InstOf[holder] /\ receipt[ram] = "closed" /\ disk = ramDisk
    /\ pc = "staged" => ram = None
    /\ pc = "staged" /\ image # None
         => /\ InstOf[image] = InstOf[holder]
            /\ receipt[image] = "closed"
            /\ disk = imageDisk
            /\ resumes[image] = 0
    /\ ram # None => resumes[ram] = 0
    /\ ram # None /\ ram \in live => ram \in paused
    /\ \A a \in Attempts : resumes[a] <= 1
    /\ \A a \in Attempts : resumes[a] > 0 => receipt[a] = "closed"

IInv ==
    HandlerInv /\ OwnerInv /\ ReceiptInv /\ FenceInv /\ DrainInv /\ ImageInv

=============================================================================
