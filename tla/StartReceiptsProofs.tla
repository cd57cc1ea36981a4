------------------------ MODULE StartReceiptsProofs ------------------------
(***************************************************************************)
(* Proofs about StartReceipts for every number of attempts, incarnations,  *)
(* reboots and disk changes: the invariant, the properties that follow     *)
(* from it, and the refinement of RunnerContract.                          *)
(***************************************************************************)
EXTENDS StartReceipts, FiniteSetTheorems, TLAPS

-----------------------------------------------------------------------------
(* Types *)

\* Initially every variable has its type.
LEMMA InitTyped == Init => TypeOK
BY ConstantsAssumption DEF Init, TypeOK, Procs, NoBoot

\* No start call leaves the types.
LEMMA StartTyped ==
    ASSUME TypeOK, StartCall
    PROVE  TypeOK'
PROOF
<1> USE DEF durable, runtime, op, history
<1>0. PICK a \in Attempts : Issue(a) \/ AdmitStart(a) \/ Start(a)
  BY DEF StartCall
<1>1. CASE Issue(a)
  BY <1>1 DEF Issue, TypeOK
<1>2. CASE AdmitStart(a)
  BY <1>2 DEF AdmitStart, TypeOK
<1>3. CASE ReplayStart(a)
  BY <1>3 DEF ReplayStart, StartReturns, ResultLocked, AnswerClosed, FinishDead,
              NoOutcome, TypeOK
<1>4. CASE FencedStart(a)
  BY <1>4 DEF FencedStart, StartReturns, NoOutcome, TypeOK
<1>5. CASE StaleBootStart(a)
  BY <1>5 DEF StaleBootStart, StartReturns, CloseUnstarted, AnswerClosed, TypeOK
<1>6. CASE OccupiedStart(a)
  BY <1>6 DEF OccupiedStart, StartReturns, NoOutcome, TypeOK
<1>7. CASE RAMRefusedStart(a)
  BY <1>7 DEF RAMRefusedStart, StartReturns, TypeOK
<1>8. CASE AcceptStart(a)
  BY <1>8 DEF AcceptStart, CheckRAMState, TypeOK
<1>9. QED
  BY <1>0, <1>1, <1>2, <1>3, <1>4, <1>5, <1>6, <1>7, <1>8 DEF Start

\* Nor does a launch, once its handler is known to work on an attempt.
LEMMA LaunchTyped ==
    ASSUME TypeOK, HandlerInv, LaunchStep
    PROVE  TypeOK'
PROOF
<1> USE DEF durable, runtime, op, history
<1>0. pc # "idle" => holder \in Attempts
  BY DEF TypeOK, HandlerInv
<1>1. CASE LaunchAborts
  BY <1>1, ConstantsAssumption DEF LaunchAborts, EndOp, TypeOK
<1>2. CASE StageRAM
  BY <1>2, ConstantsAssumption DEF StageRAM, TypeOK
<1>3. CASE LaunchFails
  BY <1>3, ConstantsAssumption DEF LaunchFails, EndOp, TypeOK
<1>4. CASE LaunchFailsLive
  BY <1>0, <1>4, ConstantsAssumption DEF LaunchFailsLive, Spawned, EndOp, TypeOK, Procs
<1>5. CASE Launch
  BY <1>0, <1>5 DEF Launch, Spawned, TypeOK, Procs
<1>6. CASE RecordStarted
  BY <1>0, <1>6, ConstantsAssumption DEF RecordStarted, EndOp, TypeOK
<1>7. CASE RecordFails
  BY <1>7, ConstantsAssumption DEF RecordFails, EndOp, TypeOK
<1>8. QED
  BY <1>1, <1>2, <1>3, <1>4, <1>5, <1>6, <1>7 DEF LaunchStep

\* Nor does a start-result or a stop call.
LEMMA StopCallTyped ==
    ASSUME TypeOK, StopCall
    PROVE  TypeOK'
PROOF
<1> USE DEF durable, runtime, op, history
<1>1. ASSUME NEW a \in Attempts, ResolveStart(a) PROVE TypeOK'
  BY <1>1 DEF ResolveStart, CloseUnstarted, ResultLocked, AnswerClosed, FinishDead,
              NoOutcome, TypeOK
<1>2. ASSUME NEW a \in Attempts, NEW save \in BOOLEAN, ReceiptStop(a, save) PROVE TypeOK'
  BY <1>2 DEF ReceiptStop, StopLocked, FinishDead, NoOutcome, TypeOK
<1>3. ASSUME NEW a \in Attempts, DrainStop(a) PROVE TypeOK'
  BY <1>3 DEF DrainStop, StopLocked, FinishDead, NoOutcome, TypeOK
<1>4. ASSUME NEW i \in Instances, LegacyStop(i) PROVE TypeOK'
  BY <1>4, ConstantsAssumption DEF LegacyStop, StopLegacyOutcome, TypeOK
<1>5. CASE DrainStopLegacy
  BY <1>5, ConstantsAssumption DEF DrainStopLegacy, StopLegacyOutcome, TypeOK
<1>6. QED
  BY <1>1, <1>2, <1>3, <1>4, <1>5 DEF StopCall

\* Nor does a stop that signals its process.
LEMMA StopStepTyped ==
    ASSUME TypeOK, HandlerInv, StopStep
    PROVE  TypeOK'
PROOF
<1> USE DEF durable, runtime, op, history
<1>0. pc # "idle" => holder \in Attempts
  BY DEF TypeOK, HandlerInv
<1>1. CASE SaveRAMState
  BY <1>0, <1>1 DEF SaveRAMState, TypeOK
<1>2. CASE SaveFails
  BY <1>0, <1>2, ConstantsAssumption DEF SaveFails, EndOp, TypeOK
<1>3. CASE Kill
  BY <1>3 DEF Kill, TypeOK
<1>4. CASE KillFails
  BY <1>4, ConstantsAssumption DEF KillFails, EndOp, TypeOK
<1>5. CASE CloseStopped
  <2>1. paths' \in BOOLEAN
    BY <1>5 DEF CloseStopped
  <2>2. receipt' \in [Attempts -> {"none", "accepted", "started", "closed"}]
    BY <1>0, <1>5 DEF CloseStopped, TypeOK
  <2>3. QED
    BY <1>5, <2>1, <2>2, ConstantsAssumption DEF CloseStopped, EndOp, TypeOK
<1>6. CASE CloseFails
  <2>1. paths' \in BOOLEAN
    BY <1>6 DEF CloseFails, TypeOK
  <2>2. QED
    BY <1>6, <2>1, ConstantsAssumption DEF CloseFails, EndOp, TypeOK
<1>7. QED
  BY <1>1, <1>2, <1>3, <1>4, <1>5, <1>6 DEF StopStep

\* Nor do drains, deletions and the environment.
LEMMA OtherTyped ==
    ASSUME TypeOK, DrainStep \/ DeletionCall \/ Environment
    PROVE  TypeOK'
PROOF
<1> USE DEF durable, runtime, op, history
<1>1. CASE DrainStep
  BY <1>1 DEF DrainStep, DrainAdmission, DrainInventory, TypeOK
<1>2. ASSUME NEW i \in Instances, FenceDelete(i) PROVE TypeOK'
  BY <1>2 DEF FenceDelete, TypeOK
<1>3. ASSUME NEW i \in Instances, NEW a \in Attempts \cup {None}, VerifyDeletion(i, a)
      PROVE  TypeOK'
  BY <1>3 DEF VerifyDeletion, TypeOK
<1>4. ASSUME NEW p \in Procs, VMExit(p) PROVE TypeOK'
  BY <1>4 DEF VMExit, TypeOK
<1>5. ASSUME NEW p \in Procs, GuestWrite(p) PROVE TypeOK'
  BY <1>5, ConstantsAssumption DEF GuestWrite, TypeOK
<1>6. CASE HostDiskChange
  BY <1>6, ConstantsAssumption DEF HostDiskChange, TypeOK
<1>7. CASE RunnerRestart
  BY <1>7, ConstantsAssumption DEF RunnerRestart, TypeOK
<1>8. CASE HostReboot
  BY <1>8, ConstantsAssumption DEF HostReboot, TypeOK
<1>9. QED
  BY <1>1, <1>2, <1>3, <1>4, <1>5, <1>6, <1>7, <1>8 DEF DeletionCall, Environment

\* Every step keeps the types.
LEMMA NextTyped ==
    ASSUME TypeOK, HandlerInv, [Next]_vars
    PROVE  TypeOK'
PROOF
<1>1. CASE UNCHANGED vars
  BY <1>1 DEF vars, durable, runtime, op, history, TypeOK
<1>2. CASE Next
  BY <1>2, StartTyped, LaunchTyped, StopCallTyped, StopStepTyped, OtherTyped DEF Next
<1>3. QED
  BY <1>1, <1>2

-----------------------------------------------------------------------------
(* What the shared outcomes of the handlers amount to *)

\* A call that settles what is known of a: it closes the receipt only if no
\* process runs or none was ever launched, answers "absent" only for a vacant
\* name, and removes paths only when nothing runs.
Settles(a) ==
    /\ \/ receipt' = receipt
       \/ /\ receipt' = [receipt EXCEPT ![a] = "closed"]
          /\ live = {} \/ receipt[a] = "none"
    /\ \/ absent' = absent
       \/ /\ absent' = absent \cup {a}
          /\ live = {} /\ ~paths' /\ receipt'[a] = "closed"
    /\ paths' = paths \/ live = {}

\* A stop that goes on to signal the process of a.
Signals(a) ==
    /\ receipt[a] = "started"
    /\ pc' \in {"saving", "killing"}
    /\ holder' = a
    /\ UNCHANGED <<receipt, paths, absent, image, imageDisk>>

\* Finishing a dead attempt settles it.
LEMMA FinishDeadSettles ==
    ASSUME TypeOK, NEW a \in Attempts, FinishDead(a)
    PROVE  Settles(a)
BY DEF TypeOK, FinishDead, NoOutcome, NoLiveRuntime, Settles

\* So does looking up what is recorded of an attempt.
LEMMA ResultLockedSettles ==
    ASSUME TypeOK, NEW a \in Attempts, ResultLocked(a)
    PROVE  Settles(a)
BY FinishDeadSettles
   DEF TypeOK, ResultLocked, AnswerClosed, NoOutcome, NameVacant, NoLiveRuntime, Settles

\* So does fencing an attempt that was never launched.
LEMMA CloseUnstartedSettles ==
    ASSUME TypeOK, NEW a \in Attempts, receipt[a] = "none", CloseUnstarted(a)
    PROVE  Settles(a)
BY DEF TypeOK, CloseUnstarted, AnswerClosed, NameVacant, NoLiveRuntime, Settles

\* A stop settles the attempt at once or goes on to signal its process.
LEMMA StopLockedCases ==
    ASSUME TypeOK, NEW a \in Attempts, NEW save \in BOOLEAN, pc = "idle",
           StopLocked(a, save)
    PROVE  (Settles(a) /\ UNCHANGED op) \/ Signals(a)
BY FinishDeadSettles DEF StopLocked, NoOutcome, Settles, Signals, op

\* The invariant survives a call that settles an attempt and returns; a drain
\* reports success only if nothing runs.
LEMMA Settled ==
    ASSUME TypeOK, IInv, NEW a \in Attempts, Settles(a),
           pc = "idle", UNCHANGED <<pc, holder, image, imageDisk>>,
           admitted' \subseteq admitted,
           \/ drain' = drain
           \/ drain = "listed" /\ (drain' = "closed" \/ (drain' = "done" /\ live = {})),
           UNCHANGED <<live, paused, ram, ramDisk, disk, fenced, proved, launches, resumes>>
    PROVE  IInv'
PROOF
<1> USE ConstantsAssumption DEF TypeOK, IInv, Settles, Active, Launching, Stopping
<1>1. HandlerInv'
  BY DEF HandlerInv
<1>2. OwnerInv'
  BY DEF OwnerInv, Procs
<1>3. ReceiptInv'
  BY DEF ReceiptInv
<1>4. FenceInv'
  BY DEF FenceInv
<1>5. DrainInv'
  BY DEF DrainInv
<1>6. ImageInv'
  BY DEF ImageInv
<1>7. QED
  BY <1>1, <1>2, <1>3, <1>4, <1>5, <1>6

-----------------------------------------------------------------------------
(* The inductive invariant *)

\* It holds initially.
LEMMA InitIInv == Init => IInv
PROOF
<1> SUFFICES ASSUME Init PROVE IInv
  OBVIOUS
<1>1. Active = {} /\ ~Launching /\ ~Stopping
  BY DEF Init, Active, Launching, Stopping
<1>2. OwnerInv
  <2>1. live # {} => paths
    BY DEF Init
  <2>2. live \subseteq {Legacy}
    BY DEF Init
  <2>3. QED
    BY <1>1, <2>1, <2>2 DEF OwnerInv
<1>3. HandlerInv /\ ReceiptInv /\ FenceInv /\ DrainInv /\ ImageInv
  BY <1>1, ConstantsAssumption
     DEF Init, HandlerInv, ReceiptInv, FenceInv, DrainInv, ImageInv
<1>4. QED
  BY <1>2, <1>3 DEF IInv

\* A start call keeps the invariant: it launches nothing unless the name is
\* vacant, and closes only what never launched or has provably ended.
LEMMA StartPreserves ==
    ASSUME TypeOK, TypeOK', IInv, StartCall
    PROVE  IInv'
PROOF
<1> USE ConstantsAssumption
    DEF TypeOK, Procs, Active, Launching, Stopping, IInv, HandlerInv, OwnerInv,
        ReceiptInv, FenceInv, DrainInv, ImageInv, durable, runtime, op, history
<1>1. ASSUME NEW a \in Attempts, Issue(a) PROVE IInv'
  BY <1>1 DEF Issue
<1>2. ASSUME NEW a \in Attempts, AdmitStart(a) PROVE IInv'
  BY <1>2 DEF AdmitStart
<1>3. ASSUME NEW a \in Attempts, ReplayStart(a) PROVE IInv'
  <2>1. Settles(a)
    BY <1>3, ResultLockedSettles DEF ReplayStart
  <2>2. QED
    BY <1>3, <2>1, Settled DEF ReplayStart, HandleStart, LockFree, StartReturns
<1>4. ASSUME NEW a \in Attempts, FencedStart(a) PROVE IInv'
  BY <1>4 DEF FencedStart, HandleStart, LockFree, StartReturns, NoOutcome
<1>5. ASSUME NEW a \in Attempts, StaleBootStart(a) PROVE IInv'
  <2>1. Settles(a)
    BY <1>5, CloseUnstartedSettles DEF StaleBootStart, NewStart
  <2>2. QED
    BY <1>5, <2>1, Settled DEF StaleBootStart, NewStart, HandleStart, LockFree, StartReturns
<1>6. ASSUME NEW a \in Attempts, OccupiedStart(a) PROVE IInv'
  BY <1>6 DEF OccupiedStart, NewStart, HandleStart, LockFree, StartReturns,
     NoOutcome
<1>7. ASSUME NEW a \in Attempts, RAMRefusedStart(a) PROVE IInv'
  BY <1>7 DEF RAMRefusedStart, NewStart, HandleStart, LockFree, StartReturns,
     Occupied
<1>8. ASSUME NEW a \in Attempts, AcceptStart(a) PROVE IInv'
  BY <1>8 DEF AcceptStart, NewStart, HandleStart, LockFree, Occupied,
     CheckRAMState, ImageFits
<1>9. QED
  BY <1>1, <1>2, <1>3, <1>4, <1>5, <1>6, <1>7, <1>8 DEF StartCall, Start

\* A launch keeps the invariant: its receipt stays accepted until the process
\* is recorded, and the image it consumes is nowhere else.
LEMMA LaunchPreserves ==
    ASSUME TypeOK, TypeOK', IInv, LaunchStep
    PROVE  IInv'
PROOF
<1> USE ConstantsAssumption
    DEF TypeOK, Procs, Active, Launching, Stopping, IInv, HandlerInv, OwnerInv,
        ReceiptInv, FenceInv, DrainInv, ImageInv, durable, runtime, op, history
<1>1. CASE LaunchAborts
  BY <1>1 DEF LaunchAborts, EndOp
<1>2. CASE StageRAM
  BY <1>2 DEF StageRAM
<1>3. CASE LaunchFails
  BY <1>3 DEF LaunchFails, EndOp
<1>4. CASE LaunchFailsLive
  BY <1>4 DEF LaunchFailsLive, Spawned, EndOp
<1>5. CASE Launch
  BY <1>5 DEF Launch, Spawned
<1>6. CASE RecordStarted
  BY <1>6 DEF RecordStarted, EndOp
<1>7. CASE RecordFails
  BY <1>7 DEF RecordFails, EndOp
<1>8. QED
  BY <1>1, <1>2, <1>3, <1>4, <1>5, <1>6, <1>7 DEF LaunchStep

\* Start-result and stop calls keep the invariant.
LEMMA StopCallPreserves ==
    ASSUME TypeOK, TypeOK', IInv, StopCall
    PROVE  IInv'
PROOF
<1> USE ConstantsAssumption
    DEF TypeOK, Procs, Active, Launching, Stopping, IInv, HandlerInv, OwnerInv,
        ReceiptInv, FenceInv, DrainInv, ImageInv, durable, runtime, op, history
<1>1. ASSUME NEW a \in Attempts, ResolveStart(a) PROVE IInv'
  <2>1. Settles(a)
    BY <1>1, ResultLockedSettles, CloseUnstartedSettles DEF ResolveStart
  <2>2. QED
    BY <1>1, <2>1, Settled DEF ResolveStart, LockFree
<1>2. ASSUME NEW a \in Attempts, NEW save \in BOOLEAN, ReceiptStop(a, save) PROVE IInv'
  <2>1. CASE Settles(a) /\ UNCHANGED op
    BY <1>2, <2>1, Settled DEF ReceiptStop, LockFree
  <2>2. CASE Signals(a)
    BY <1>2, <2>2 DEF ReceiptStop, Signals, LockFree
  <2>3. QED
    BY <1>2, <2>1, <2>2, StopLockedCases DEF ReceiptStop, LockFree
<1>3. ASSUME NEW a \in Attempts, DrainStop(a) PROVE IInv'
  <2>1. CASE Settles(a) /\ UNCHANGED op
    <3>1. drain' = "closed" \/ (drain' = "done" /\ live = {})
      BY <1>3, <2>1 DEF DrainStop, Settles, LockFree
    <3>2. QED
      BY <1>3, <2>1, <3>1, Settled DEF DrainStop, LockFree
  <2>2. CASE Signals(a)
    BY <1>3, <2>2 DEF DrainStop, Signals, LockFree
  <2>3. QED
    BY <1>3, <2>1, <2>2, StopLockedCases DEF DrainStop, LockFree
<1>4. ASSUME NEW i \in Instances, LegacyStop(i) PROVE IInv'
  BY <1>4 DEF LegacyStop, LockFree, StopLegacyOutcome
<1>5. CASE DrainStopLegacy
  BY <1>5 DEF DrainStopLegacy, LockFree, StopLegacyOutcome
<1>6. QED
  BY <1>1, <1>2, <1>3, <1>4, <1>5 DEF StopCall

\* A stop that signals its process keeps the invariant.
LEMMA StopStepPreserves ==
    ASSUME TypeOK, TypeOK', IInv, StopStep
    PROVE  IInv'
PROOF
<1> USE ConstantsAssumption
    DEF TypeOK, Procs, Active, Launching, Stopping, IInv, HandlerInv, OwnerInv,
        ReceiptInv, FenceInv, DrainInv, ImageInv, durable, runtime, op, history
<1>1. CASE SaveRAMState
  BY <1>1 DEF SaveRAMState
<1>2. CASE SaveFails
  BY <1>2 DEF SaveFails, EndOp
<1>3. CASE Kill
  BY <1>3 DEF Kill
<1>4. CASE KillFails
  BY <1>4 DEF KillFails, EndOp
<1>5. CASE CloseStopped
  BY <1>5 DEF CloseStopped, EndOp, NoLiveRuntime
<1>6. CASE CloseFails
  BY <1>6 DEF CloseFails, EndOp
<1>7. QED
  BY <1>1, <1>2, <1>3, <1>4, <1>5, <1>6 DEF StopStep

\* Drains, deletions and the environment keep the invariant.
LEMMA OtherPreserves ==
    ASSUME TypeOK, TypeOK', IInv, DrainStep \/ DeletionCall \/ Environment
    PROVE  IInv'
PROOF
<1> USE ConstantsAssumption
    DEF TypeOK, Procs, Active, Launching, Stopping, IInv, HandlerInv, OwnerInv,
        ReceiptInv, FenceInv, DrainInv, ImageInv, durable, runtime, op, history
<1>1. CASE DrainAdmission
  BY <1>1 DEF DrainAdmission
<1>2. CASE DrainInventory
  BY <1>2 DEF DrainInventory
<1>3. ASSUME NEW i \in Instances, FenceDelete(i) PROVE IInv'
  BY <1>3 DEF FenceDelete, LockFree, NameVacant, NoLiveRuntime
<1>4. ASSUME NEW i \in Instances, NEW b \in Attempts \cup {None}, VerifyDeletion(i, b) PROVE IInv'
  BY <1>4 DEF VerifyDeletion
<1>5. ASSUME NEW p \in Procs, VMExit(p) PROVE IInv'
  BY <1>5 DEF VMExit
<1>6. ASSUME NEW p \in Procs, GuestWrite(p) PROVE IInv'
  BY <1>6 DEF GuestWrite
<1>7. CASE HostDiskChange
  BY <1>7 DEF HostDiskChange, LockFree
<1>8. CASE RunnerRestart
  BY <1>8 DEF RunnerRestart
<1>9. CASE HostReboot
  BY <1>9 DEF HostReboot
<1>10. QED
  BY <1>1, <1>2, <1>3, <1>4, <1>5, <1>6, <1>7, <1>8, <1>9 DEF DrainStep,
     DeletionCall, Environment

\* Every step keeps it.
LEMMA NextPreserves ==
    ASSUME TypeOK, TypeOK', IInv, [Next]_vars
    PROVE  IInv'
PROOF
<1>1. CASE UNCHANGED vars
  BY <1>1 DEF vars, durable, runtime, op, history, IInv, HandlerInv, OwnerInv,
              ReceiptInv, FenceInv, DrainInv, ImageInv, Active, Launching, Stopping
<1>2. CASE Next
  BY <1>2, StartPreserves, LaunchPreserves, StopCallPreserves, StopStepPreserves,
     OtherPreserves DEF Next
<1>3. QED
  BY <1>1, <1>2

\* The inductive invariant holds in every reachable state.
THEOREM Invariance == Spec => [](TypeOK /\ IInv)
PROOF
<1>1. Init => TypeOK /\ IInv
  BY InitTyped, InitIInv
<1>2. TypeOK /\ IInv /\ [Next]_vars => (TypeOK /\ IInv)'
  BY NextTyped, NextPreserves DEF IInv
<1>3. QED
  BY <1>1, <1>2, PTL DEF Spec

-----------------------------------------------------------------------------
(* What follows from it *)

\* The runner's state keeps its types.
THEOREM TypeCorrect == Spec => []TypeOK
BY Invariance, PTL

\* At most one VM process runs under a name.
THEOREM OneVM == Spec => []AtMostOneVM
PROOF
<1>1. TypeOK /\ IInv => AtMostOneVM
  <2> SUFFICES ASSUME TypeOK, IInv PROVE AtMostOneVM
    OBVIOUS
  <2>1. CASE live = {}
    BY <2>1, FS_EmptySet DEF AtMostOneVM
  <2>2. CASE live # {}
    <3>1. PICK p \in live : TRUE
      BY <2>2
    <3>2. \A q \in live : q = p
      BY <3>1 DEF IInv, OwnerInv
    <3>3. live = {p}
      BY <3>1, <3>2
    <3>4. Cardinality(live) = 1
      BY <3>3, FS_Singleton
    <3>5. QED
      BY <3>4 DEF AtMostOneVM
  <2>3. QED
    BY <2>1, <2>2
<1>2. QED
  BY <1>1, Invariance, PTL

\* A request ID launches at most one process.
THEOREM NoSecondLaunch == Spec => []LaunchedOnce
PROOF
<1>1. IInv => LaunchedOnce
  BY DEF IInv, ReceiptInv, LaunchedOnce
<1>2. QED
  BY <1>1, Invariance, PTL

\* An attempt that was declared absent never comes to life.
THEOREM AbsenceIsFinal == Spec => []AbsentIsFinal
PROOF
<1>1. TypeOK /\ IInv => AbsentIsFinal
  BY ConstantsAssumption DEF TypeOK, IInv, OwnerInv, ReceiptInv, Active, AbsentIsFinal
<1>2. QED
  BY <1>1, Invariance, PTL

\* Clean-up by name never touches a running VM.
THEOREM RunningVMKeepsPaths == Spec => []LiveVMKeepsPaths
PROOF
<1>1. IInv => LiveVMKeepsPaths
  BY DEF IInv, OwnerInv, LiveVMKeepsPaths
<1>2. QED
  BY <1>1, Invariance, PTL

\* After a cleanup proof no attempt of the incarnation runs.
THEOREM ProofIsFinal == Spec => []DeletionProofIsFinal
PROOF
<1>1. TypeOK /\ IInv => DeletionProofIsFinal
  BY ConstantsAssumption DEF TypeOK, IInv, OwnerInv, FenceInv, Active, DeletionProofIsFinal
<1>2. QED
  BY <1>1, Invariance, PTL

\* A drained runner has no VM.
THEOREM DrainIsComplete == Spec => []DrainedHostIsIdle
PROOF
<1>1. IInv => DrainedHostIsIdle
  BY DEF IInv, DrainInv, DrainedHostIsIdle
<1>2. QED
  BY <1>1, Invariance, PTL

\* A RAM image is loaded at most once, by its own incarnation, with the disk
\* it was captured with, after its source stopped for good.
THEOREM ResumeIsSafe ==
    Spec => [](ResumedOnce /\ ResumeOwnIncarnation /\ ResumeFitsDisk
                 /\ CapturedSourceStaysPaused)
PROOF
<1>1. TypeOK /\ IInv => ResumedOnce /\ CapturedSourceStaysPaused
  BY ConstantsAssumption DEF TypeOK, IInv, ImageInv, ResumedOnce, CapturedSourceStaysPaused
<1>2. TypeOK /\ IInv => ResumeOwnIncarnation /\ ResumeFitsDisk
  BY ConstantsAssumption
     DEF TypeOK, IInv, HandlerInv, ImageInv, ResumeOwnIncarnation, ResumeFitsDisk
<1>3. QED
  BY <1>1, <1>2, Invariance, PTL

\* A RAM image is only loaded by an attempt of the incarnation that was captured,
\* however often the name was deleted and created again since.
THEOREM ResumesItsOwn == Spec => []ResumeOwnIncarnation
PROOF
  BY ResumeIsSafe, PTL

\* Whoever is told "absent" is told so of a vacant name.
THEOREM AbsenceVouchesForName == Spec => AbsentMeansVacant
PROOF
<1> DEFINE Vacates == absent' # absent => live' = {} /\ ~paths'
<1>1. ASSUME TypeOK, [Next]_vars PROVE Vacates
  <2> USE DEF durable, runtime, op, history
  <2>1. CASE UNCHANGED vars
    BY <2>1 DEF vars
  <2>2. CASE StartCall
    <3>1. PICK a \in Attempts : Issue(a) \/ AdmitStart(a) \/ Start(a)
      BY <2>2 DEF StartCall
    <3>2. CASE ReplayStart(a)
      BY <1>1, <3>2, ResultLockedSettles DEF ReplayStart, StartReturns, Settles
    <3>3. CASE StaleBootStart(a)
      BY <1>1, <3>3, CloseUnstartedSettles
         DEF StaleBootStart, NewStart, StartReturns, Settles
    <3>4. CASE RAMRefusedStart(a)
      BY <3>4 DEF RAMRefusedStart, Occupied, StartReturns
    <3>5. CASE Issue(a) \/ AdmitStart(a) \/ FencedStart(a) \/ OccupiedStart(a) \/ AcceptStart(a)
      BY <3>5 DEF Issue, AdmitStart, FencedStart, OccupiedStart, AcceptStart, NoOutcome
    <3>6. QED
      BY <3>1, <3>2, <3>3, <3>4, <3>5 DEF Start
  <2>3. CASE LaunchStep
    BY <2>3 DEF LaunchStep, LaunchAborts, StageRAM, LaunchFails, LaunchFailsLive, Launch,
                Spawned, RecordStarted, RecordFails
  <2>4. CASE StopCall
    <3>1. ASSUME NEW a \in Attempts, ResolveStart(a) PROVE Vacates
      BY <1>1, <3>1, ResultLockedSettles, CloseUnstartedSettles DEF ResolveStart, Settles
    <3>2. ASSUME NEW a \in Attempts, NEW save \in BOOLEAN, ReceiptStop(a, save)
          PROVE  Vacates
      BY <1>1, <3>2, StopLockedCases DEF ReceiptStop, LockFree, Settles, Signals, TypeOK
    <3>3. ASSUME NEW a \in Attempts, DrainStop(a) PROVE Vacates
      BY <1>1, <3>3, StopLockedCases DEF DrainStop, LockFree, Settles, Signals, TypeOK
    <3>4. QED
      BY <2>4, <3>1, <3>2, <3>3 DEF StopCall, LegacyStop, DrainStopLegacy
  <2>5. CASE StopStep
    BY <2>5 DEF StopStep, SaveRAMState, SaveFails, Kill, KillFails, CloseStopped, CloseFails
  <2>6. CASE DrainStep \/ DeletionCall
    BY <2>6 DEF DrainStep, DrainAdmission, DrainInventory, DeletionCall, FenceDelete,
                VerifyDeletion
  <2>7. CASE Environment
    BY <2>7 DEF Environment, VMExit, GuestWrite, HostDiskChange, RunnerRestart, HostReboot
  <2>8. QED
    BY <1>1, <2>1, <2>2, <2>3, <2>4, <2>5, <2>6, <2>7 DEF Next
<1>2. TypeOK /\ IInv /\ [Next]_vars => [Vacates]_vars
  BY <1>1
<1>3. QED
  BY <1>2, Invariance, PTL DEF Spec, AbsentMeansVacant

\* On the boot it was made in, a launch of unknown outcome keeps its name.
THEOREM QuarantineIsKept == Spec => QuarantineHolds
PROOF
<1>1. ASSUME TypeOK, HandlerInv, [Next]_vars PROVE KeepsQuarantine
  <2> USE DEF durable, runtime, op, history, KeepsQuarantine
  <2>1. CASE UNCHANGED vars
    BY <2>1 DEF vars
  <2>2. ASSUME NEW a \in Attempts, ResultLocked(a) PROVE KeepsQuarantine
    BY <1>1, <2>2 DEF ResultLocked, FinishDead, NoLiveRuntime, NoOutcome, TypeOK
  <2>3. ASSUME NEW a \in Attempts, NEW save \in BOOLEAN, StopLocked(a, save) PROVE KeepsQuarantine
    BY <1>1, <2>3 DEF StopLocked, FinishDead, NoLiveRuntime, NoOutcome, TypeOK
  <2>4. ASSUME NEW a \in Attempts, receipt[a] = "none",
               receipt' = [receipt EXCEPT ![a] = "closed"]
        PROVE  KeepsQuarantine
    BY <1>1, <2>4 DEF TypeOK
  <2>5. CASE StartCall
    <3>1. PICK a \in Attempts : Issue(a) \/ AdmitStart(a) \/ Start(a)
      BY <2>5 DEF StartCall
    <3>2. CASE ReplayStart(a)
      BY <2>2, <3>2 DEF ReplayStart
    <3>3. CASE StaleBootStart(a) \/ RAMRefusedStart(a)
      BY <2>4, <3>3 DEF StaleBootStart, RAMRefusedStart, NewStart, CloseUnstarted
    <3>4. CASE Issue(a) \/ AdmitStart(a) \/ FencedStart(a) \/ OccupiedStart(a)
      BY <3>4 DEF Issue, AdmitStart, FencedStart, OccupiedStart, NoOutcome
    <3>5. CASE AcceptStart(a)
      BY <1>1, <3>5 DEF AcceptStart, TypeOK
    <3>6. QED
      BY <3>1, <3>2, <3>3, <3>4, <3>5 DEF Start
  <2>6. CASE LaunchStep
    BY <1>1, <2>6 DEF LaunchStep, LaunchAborts, StageRAM, LaunchFails, LaunchFailsLive,
                      Launch, Spawned, RecordStarted, RecordFails, TypeOK
  <2>7. CASE StopCall
    <3>1. ASSUME NEW a \in Attempts, ResolveStart(a) PROVE KeepsQuarantine
      BY <2>2, <2>4, <3>1 DEF ResolveStart, CloseUnstarted
    <3>2. ASSUME NEW a \in Attempts, NEW save \in BOOLEAN, ReceiptStop(a, save) PROVE KeepsQuarantine
      BY <1>1, <2>3, <3>2 DEF ReceiptStop, TypeOK
    <3>3. ASSUME NEW a \in Attempts, DrainStop(a) PROVE KeepsQuarantine
      BY <1>1, <2>3, <3>3 DEF DrainStop, TypeOK
    <3>4. QED
      BY <2>7, <3>1, <3>2, <3>3 DEF StopCall, LegacyStop, DrainStopLegacy
  <2>8. CASE CloseStopped
    BY <1>1, <2>8 DEF CloseStopped, HandlerInv, Stopping, TypeOK
  <2>9. CASE SaveRAMState \/ SaveFails \/ Kill \/ KillFails \/ CloseFails
    BY <2>9 DEF SaveRAMState, SaveFails, Kill, KillFails, CloseFails
  <2>10. CASE DrainStep \/ DeletionCall \/ Environment
    BY <2>10 DEF DrainStep, DrainAdmission, DrainInventory, DeletionCall, FenceDelete,
                 VerifyDeletion, Environment, VMExit, GuestWrite, HostDiskChange,
                 RunnerRestart, HostReboot
  <2>11. QED
    BY <1>1, <2>1, <2>5, <2>6, <2>7, <2>8, <2>9, <2>10 DEF Next, StopStep
<1>2. TypeOK /\ IInv /\ [Next]_vars => [KeepsQuarantine]_vars
  BY <1>1 DEF IInv
<1>3. QED
  BY <1>2, Invariance, PTL DEF Spec, QuarantineHolds

-----------------------------------------------------------------------------
(* The refinement: initial states map to initial states of the contract,   *)
(* and each step is a step of the contract or leaves its variables alone.  *)

\* What the mapping of "old" needs on top of IInv: boot IDs are not from the
\* future, and the runner knows only attempts that were issued.
IssuedInv ==
    \A a \in Attempts :
        /\ reqBoot[a] <= boot
        /\ a \in admitted \/ receipt[a] # "none" => Issued(a)

\* Steps that neither issue an attempt nor reboot, and what they mean to the
\* contract: nothing, or the life of one attempt.
SameBoot == UNCHANGED <<reqBoot, boot>>

Moves ==
    \/ UNCHANGED <<receipt, live, launches>>
    \/ \E a \in Attempts :
          /\ \/ receipt[a] = "none" /\ Active = {} /\ live = {}
                  /\ receipt' = [receipt EXCEPT ![a] = "accepted"]
             \/ receipt[a] = "accepted" /\ a \in live
                  /\ receipt' = [receipt EXCEPT ![a] = "started"]
             \/ /\ \/ receipt[a] = "none"
                   \/ receipt[a] = "started" /\ live = {}
                   \/ receipt[a] = "accepted" /\ reqBoot[a] # boot /\ live = {}
                /\ receipt' = [receipt EXCEPT ![a] = "closed"]
          /\ UNCHANGED <<live, launches>>
    \/ \E a \in Attempts :
          /\ receipt[a] = "accepted" /\ launches[a] = 0 /\ live = {}
          /\ live' = {a}
          /\ launches' = [launches EXCEPT ![a] = @ + 1]
          /\ UNCHANGED receipt
    \/ \E p \in Procs :
          /\ p \in live /\ live' = live \ {p}
          /\ UNCHANGED <<receipt, launches>>

-----------------------------------------------------------------------------
(* The issued attempts *)

\* No handler changes a boot ID, and only admitted or known attempts get a
\* receipt.
LEMMA IssuedPreserved ==
    ASSUME TypeOK, TypeOK', HandlerInv, IssuedInv, [Next]_vars
    PROVE  IssuedInv'
PROOF
<1> USE DEF durable, runtime, op, history, IssuedInv, Issued, TypeOK, NoBoot
<1>1. CASE UNCHANGED vars
  BY <1>1 DEF vars
<1>2. CASE StartCall
  <2>1. PICK a \in Attempts : Issue(a) \/ AdmitStart(a) \/ Start(a)
    BY <1>2 DEF StartCall
  <2>2. CASE Issue(a)
    BY <2>2 DEF Issue
  <2>3. CASE AdmitStart(a)
    BY <2>3 DEF AdmitStart
  <2>4. CASE ReplayStart(a)
    BY <2>4, ResultLockedSettles DEF ReplayStart, StartReturns, Settles
  <2>5. CASE StaleBootStart(a) \/ RAMRefusedStart(a)
    BY <2>5 DEF StaleBootStart, RAMRefusedStart, NewStart, HandleStart, StartReturns,
                CloseUnstarted
  <2>6. CASE FencedStart(a) \/ OccupiedStart(a)
    BY <2>6 DEF FencedStart, OccupiedStart, StartReturns, NoOutcome
  <2>7. CASE AcceptStart(a)
    BY <2>7 DEF AcceptStart, NewStart, HandleStart
  <2>8. QED
    BY <2>1, <2>2, <2>3, <2>4, <2>5, <2>6, <2>7 DEF Start
<1>3. CASE LaunchStep
  BY <1>3 DEF LaunchStep, LaunchAborts, StageRAM, LaunchFails, LaunchFailsLive, Launch,
              Spawned, RecordStarted, RecordFails, EndOp, HandlerInv, Launching
<1>4. CASE StopCall
  <2>1. ASSUME NEW a \in Attempts, ResolveStart(a) PROVE IssuedInv'
    BY <2>1, ResultLockedSettles, CloseUnstartedSettles DEF ResolveStart, Settles
  <2>2. ASSUME NEW a \in Attempts, NEW save \in BOOLEAN, ReceiptStop(a, save)
        PROVE  IssuedInv'
    BY <2>2, StopLockedCases DEF ReceiptStop, LockFree, Settles, Signals
  <2>3. ASSUME NEW a \in Attempts, DrainStop(a) PROVE IssuedInv'
    BY <2>3, StopLockedCases DEF DrainStop, LockFree, Settles, Signals, Active
  <2>4. QED
    BY <1>4, <2>1, <2>2, <2>3 DEF StopCall, LegacyStop, DrainStopLegacy
<1>5. CASE StopStep
  BY <1>5 DEF StopStep, SaveRAMState, SaveFails, Kill, KillFails, CloseStopped, CloseFails,
              EndOp, HandlerInv, Stopping
<1>6. CASE DrainStep \/ DeletionCall
  BY <1>6 DEF DrainStep, DrainAdmission, DrainInventory, DeletionCall, FenceDelete,
              VerifyDeletion
<1>7. CASE Environment
  BY <1>7 DEF Environment, VMExit, GuestWrite, HostDiskChange, RunnerRestart, HostReboot
<1>8. QED
  BY <1>1, <1>2, <1>3, <1>4, <1>5, <1>6, <1>7 DEF Next

\* It holds in every reachable state.
LEMMA IssuedInvariance == Spec => []IssuedInv
PROOF
<1>1. Init => IssuedInv
  BY DEF Init, IssuedInv, Issued, NoBoot
<1>2. TypeOK /\ TypeOK' /\ IInv /\ IssuedInv /\ [Next]_vars => IssuedInv'
  BY IssuedPreserved DEF IInv
<1>3. QED
  BY <1>1, <1>2, Invariance, PTL DEF Spec

-----------------------------------------------------------------------------
(* Every step is a step of the contract *)

\* Finishing a dead attempt closes what the contract lets be closed.
LEMMA FinishDeadMoves ==
    ASSUME TypeOK, NEW a \in Attempts, FinishDead(a),
           reqBoot[a] # boot \/ receipt[a] = "started",
           UNCHANGED <<live, launches>>
    PROVE  Moves
BY DEF FinishDead, Active, NoLiveRuntime, NoOutcome, Moves

\* So does looking up an attempt.
LEMMA ResultLockedMoves ==
    ASSUME TypeOK, NEW a \in Attempts, ResultLocked(a), UNCHANGED <<live, launches>>
    PROVE  Moves
PROOF
<1>1. CASE UNCHANGED receipt
  BY <1>1 DEF Moves
<1>2. CASE ~UNCHANGED receipt
  BY <1>2, FinishDeadMoves DEF ResultLocked, NoOutcome
<1>3. QED
  BY <1>1, <1>2

\* And a stop that finds its process gone.
LEMMA StopLockedMoves ==
    ASSUME TypeOK, NEW a \in Attempts, NEW save \in BOOLEAN, StopLocked(a, save),
           UNCHANGED <<live, launches>>
    PROVE  Moves
PROOF
<1>1. CASE UNCHANGED receipt
  BY <1>1 DEF Moves
<1>2. CASE ~UNCHANGED receipt
  BY <1>2, FinishDeadMoves DEF StopLocked, NoOutcome
<1>3. QED
  BY <1>1, <1>2

\* Handlers and processes move the contract by one of its own steps.
LEMMA StepMoves ==
    ASSUME TypeOK, TypeOK', IInv, [Next]_vars,
           ~(\E a \in Attempts : Issue(a)), ~HostReboot
    PROVE  SameBoot /\ Moves
PROOF
<1> USE DEF durable, runtime, op, history, SameBoot
<1>1. CASE UNCHANGED vars
  BY <1>1 DEF vars, Moves
<1>2. CASE StartCall
  <2>1. PICK a \in Attempts : AdmitStart(a) \/ Start(a)
    BY <1>2 DEF StartCall
  <2>2. CASE AdmitStart(a)
    BY <2>2 DEF AdmitStart, Moves
  <2>3. CASE ReplayStart(a)
    BY <2>3, ResultLockedMoves DEF ReplayStart, StartReturns
  <2>4. CASE StaleBootStart(a) \/ RAMRefusedStart(a)
    BY <2>4 DEF StaleBootStart, RAMRefusedStart, NewStart, StartReturns, CloseUnstarted, Moves
  <2>5. CASE FencedStart(a) \/ OccupiedStart(a)
    BY <2>5 DEF FencedStart, OccupiedStart, StartReturns, NoOutcome, Moves
  <2>6. CASE AcceptStart(a)
    BY <2>6 DEF AcceptStart, NewStart, Occupied, Moves
  <2>7. QED
    BY <2>1, <2>2, <2>3, <2>4, <2>5, <2>6 DEF Start
<1>3. CASE LaunchStep
  <2>1. CASE LaunchFailsLive \/ Launch
    <3>1. holder \in Attempts /\ receipt[holder] = "accepted" /\ launches[holder] = 0 /\ live = {}
      BY <2>1, ConstantsAssumption
         DEF LaunchFailsLive, Launch, IInv, HandlerInv, Launching, TypeOK
    <3>2. Spawned
      BY <2>1 DEF LaunchFailsLive, Launch
    <3>3. QED
      BY <3>1, <3>2 DEF Spawned, Moves
  <2>2. CASE RecordStarted
    BY <2>2, ConstantsAssumption
       DEF RecordStarted, IInv, HandlerInv, Launching, TypeOK, Moves
  <2>3. CASE LaunchAborts \/ StageRAM \/ LaunchFails \/ RecordFails
    BY <2>3 DEF LaunchAborts, StageRAM, LaunchFails, RecordFails, Moves
  <2>4. QED
    BY <1>3, <2>1, <2>2, <2>3 DEF LaunchStep
<1>4. CASE StopCall
  <2>1. ASSUME NEW a \in Attempts, ResolveStart(a) PROVE SameBoot /\ Moves
    <3>1. CASE receipt[a] = "none"
      BY <2>1, <3>1 DEF ResolveStart, CloseUnstarted, Moves
    <3>2. CASE receipt[a] # "none"
      BY <2>1, <3>2, ResultLockedMoves DEF ResolveStart
    <3>3. QED
      BY <3>1, <3>2
  <2>2. ASSUME NEW a \in Attempts, NEW save \in BOOLEAN, ReceiptStop(a, save)
        PROVE  SameBoot /\ Moves
    BY <2>2, StopLockedMoves DEF ReceiptStop, TypeOK
  <2>3. ASSUME NEW a \in Attempts, DrainStop(a) PROVE SameBoot /\ Moves
    BY <2>3, StopLockedMoves DEF DrainStop, TypeOK
  <2>4. ASSUME StopLegacyOutcome, UNCHANGED <<receipt, launches>> PROVE Moves
    BY <2>4 DEF StopLegacyOutcome, Procs, Moves
  <2>5. QED
    BY <1>4, <2>1, <2>2, <2>3, <2>4 DEF StopCall, LegacyStop, DrainStopLegacy
<1>5. CASE StopStep
  <2>1. CASE Kill
    BY <2>1, ConstantsAssumption
       DEF Kill, Procs, IInv, HandlerInv, Stopping, TypeOK, Moves
  <2>2. CASE CloseStopped
    BY <2>2, ConstantsAssumption
       DEF CloseStopped, NoLiveRuntime, IInv, HandlerInv, Stopping, TypeOK, Moves
  <2>3. CASE SaveRAMState \/ SaveFails \/ KillFails \/ CloseFails
    BY <2>3 DEF SaveRAMState, SaveFails, KillFails, CloseFails, Moves
  <2>4. QED
    BY <1>5, <2>1, <2>2, <2>3 DEF StopStep
<1>6. CASE DrainStep \/ DeletionCall
  BY <1>6 DEF DrainStep, DrainAdmission, DrainInventory, DeletionCall, FenceDelete,
              VerifyDeletion, Moves
<1>7. CASE Environment
  BY <1>7 DEF Environment, VMExit, GuestWrite, HostDiskChange, RunnerRestart, Moves
<1>8. QED
  BY <1>1, <1>2, <1>3, <1>4, <1>5, <1>6, <1>7 DEF Next

\* Such a move is a step of the contract.
LEMMA MovesMap ==
    ASSUME TypeOK, TypeOK', IssuedInv, SameBoot, Moves
    PROVE  [Contract!CNext]_(Contract!contract)
PROOF
<1> DEFINE spawned == {a \in Attempts : launches[a] > 0}
           old     == {a \in Attempts : Issued(a) /\ reqBoot[a] # boot}
<1>1. UNCHANGED old
  BY DEF SameBoot, Issued
<1>2. CASE UNCHANGED <<receipt, live, launches>>
  BY <1>1, <1>2 DEF Contract!contract
<1>3. CASE UNCHANGED <<live, launches>> /\ ~UNCHANGED receipt
  <2>1. UNCHANGED spawned
    BY <1>3
  <2>2. PICK a \in Attempts :
          \/ receipt[a] = "none" /\ Active = {} /\ live = {}
               /\ receipt' = [receipt EXCEPT ![a] = "accepted"]
          \/ receipt[a] = "accepted" /\ a \in live
               /\ receipt' = [receipt EXCEPT ![a] = "started"]
          \/ /\ \/ receipt[a] = "none"
                \/ receipt[a] = "started" /\ live = {}
                \/ receipt[a] = "accepted" /\ reqBoot[a] # boot /\ live = {}
             /\ receipt' = [receipt EXCEPT ![a] = "closed"]
    BY <1>3 DEF Moves
  <2>3. Contract!Accept(a) \/ Contract!Record(a) \/ Contract!Close(a)
    BY <1>1, <1>3, <2>1, <2>2
       DEF Contract!Accept, Contract!Record, Contract!Close, Contract!Closable,
           Contract!Open, Active, IssuedInv
  <2>4. QED
    BY <2>3 DEF Contract!CNext
<1>4. CASE UNCHANGED receipt /\ ~UNCHANGED launches
  <2>1. PICK a \in Attempts :
          /\ receipt[a] = "accepted" /\ launches[a] = 0 /\ live = {}
          /\ live' = {a}
          /\ launches' = [launches EXCEPT ![a] = @ + 1]
    BY <1>4 DEF Moves
  <2>2. a \notin spawned /\ spawned' = spawned \cup {a}
    BY <2>1 DEF TypeOK
  <2>3. Contract!Spawn(a)
    BY <1>1, <1>4, <2>1, <2>2 DEF Contract!Spawn
  <2>4. QED
    BY <2>3 DEF Contract!CNext
<1>5. CASE UNCHANGED <<receipt, launches>> /\ ~UNCHANGED live
  <2>1. PICK p \in Procs : p \in live /\ live' = live \ {p}
    BY <1>5 DEF Moves, TypeOK
  <2>2. UNCHANGED spawned
    BY <1>5
  <2>3. Contract!Exit(p)
    BY <1>1, <1>5, <2>1, <2>2 DEF Contract!Exit
  <2>4. QED
    BY <2>3 DEF Contract!CNext
<1>6. QED
  BY <1>2, <1>3, <1>4, <1>5 DEF Moves

\* The runner keeps its contract with the control plane.
THEOREM KeepsContract == Spec => ImplementsContract
PROOF
<1> DEFINE spawned == {a \in Attempts : launches[a] > 0}
           old     == {a \in Attempts : Issued(a) /\ reqBoot[a] # boot}
<1>1. Init => Contract!CInit
  <2> SUFFICES ASSUME Init PROVE Contract!CInit
    OBVIOUS
  <2>1. spawned = {} /\ old = {}
    BY DEF Init, Issued
  <2>2. live \in SUBSET (Procs \ Attempts)
    BY ConstantsAssumption DEF Init, Procs
  <2>3. QED
    BY <2>1, <2>2 DEF Init, Contract!CInit
<1>2. ASSUME TypeOK, TypeOK', IInv, IssuedInv, [Next]_vars
      PROVE  [Contract!CNext]_(Contract!contract)
  <2>1. CASE \E a \in Attempts : Issue(a)
    <3>1. PICK a \in Attempts : Issue(a)
      BY <2>1
    <3>2. UNCHANGED <<receipt, live, launches>>
      BY <3>1 DEF Issue, runtime, history
    <3>3. UNCHANGED old
      BY <1>2, <3>1 DEF Issue, Issued, TypeOK, NoBoot
    <3>4. QED
      BY <3>2, <3>3 DEF Contract!contract
  <2>2. CASE HostReboot
    <3>1. UNCHANGED <<receipt, launches>> /\ live' = {}
      BY <2>2 DEF HostReboot, durable, history
    <3>2. PICK made \in SUBSET Attempts : made = {a \in Attempts : reqBoot[a] = boot}
      OBVIOUS
    <3>3. old' = old \cup made
      BY <1>2, <2>2, <3>2 DEF HostReboot, durable, Issued, IssuedInv, TypeOK, NoBoot
    <3>4. Contract!Reboot(made)
      BY <3>1, <3>3 DEF Contract!Reboot
    <3>5. QED
      BY <3>4 DEF Contract!CNext
  <2>3. CASE ~(\E a \in Attempts : Issue(a)) /\ ~HostReboot
    BY <1>2, <2>3, StepMoves, MovesMap
  <2>4. QED
    BY <2>1, <2>2, <2>3
<1>3. QED
  BY <1>1, <1>2, Invariance, IssuedInvariance, PTL DEF Spec, ImplementsContract, Contract!CSpec

=============================================================================
