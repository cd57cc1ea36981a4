---------------------- MODULE LifecycleRequestsProofs ----------------------
(***************************************************************************)
(* The promises of the durable requests of one name, for every set of      *)
(* incarnations and requests, any number of stages, duplicates, failures   *)
(* and restarts.  The inductive invariant ties each row to what its        *)
(* command has done: OpInv for starts, stops and bootstraps, BootInv for   *)
(* the generations, CleanupInv for the deletion that owns the fence.       *)
(***************************************************************************)
EXTENDS LifecycleRequests, TLAPS

\* What the client sends, and what a restart makes of the rows.
Admission ==
    \/ \E i \in Instances : CreateInstance(i) \/ Delete(i)
    \/ \E r \in StartReqs \cup StopReqs : AdmitOperation(r) \/ CancelOperation(r)
    \/ \E r \in BootReqs, g \in 1..MaxGen : AdmitBootstrap(r, g)
    \/ \E r \in OpReqs : OperationResult(r)
    \/ \E r \in ProofReqs : DeleteExpected(r)

OperationStep ==
    \/ \E r \in StartReqs \cup StopReqs : BeginOperation(r)
    \/ \E r \in OpReqs : RunOperation(r) \/ FinishOperation(r) \/ FailOperation(r)
    \/ \E r \in StartReqs : RejectStart(r)

CleanupStep ==
    \E r \in DeleteReqs : BeginCleanup(r) \/ Teardown(r) \/ CommitCleanup(r) \/ DeleteFails(r)

-----------------------------------------------------------------------------

\* A request that arrives, again or for the first time, gets the lock only with
\* a row that fits.
LEMMA AdmissionKeeps ==
    ASSUME TypeOK, IInv, Admission
    PROVE  TypeOK' /\ IInv'
PROOF
<1> USE RequestsAssumption
    DEF rows, Unlocked, Exists, Acquire, Phases, OpReqs, DeleteReqs, Requests, TypeOK, IInv,
        OpInv, BootInv, CleanupInv, FencedInstanceUntouched, ReceiptMeansTornDown
<1>1. ASSUME NEW i \in Instances, CreateInstance(i)
      PROVE  TypeOK' /\ IInv'
  BY <1>1 DEF CreateInstance
<1>2. ASSUME NEW i \in Instances, Delete(i)
      PROVE  TypeOK' /\ IInv'
  BY <1>2 DEF Delete, DeleteOwner
<1>3. ASSUME NEW r \in StartReqs \cup StopReqs, AdmitOperation(r)
      PROVE  TypeOK' /\ IInv'
  BY <1>3 DEF AdmitOperation, CheckOrbIdentity
<1>4. ASSUME NEW r \in StartReqs \cup StopReqs, CancelOperation(r)
      PROVE  TypeOK' /\ IInv'
  BY <1>4 DEF CancelOperation, CheckOrbIdentity
<1>5. ASSUME NEW r \in BootReqs, NEW g \in 1..MaxGen, AdmitBootstrap(r, g)
      PROVE  TypeOK' /\ IInv'
  BY <1>5 DEF AdmitBootstrap, CheckOrbIdentity
<1>6. ASSUME NEW r \in OpReqs, OperationResult(r)
      PROVE  TypeOK' /\ IInv'
  BY <1>6 DEF OperationResult
<1>7. ASSUME NEW r \in ProofReqs, DeleteExpected(r)
      PROVE  TypeOK' /\ IInv'
  BY <1>7 DEF DeleteExpected
<1>8. QED
  BY <1>1, <1>2, <1>3, <1>4, <1>5, <1>6, <1>7, Zenon DEF Admission

\* The command of a bound operation counts its effect once, between the row that
\* says executing and the one that says how it ended.
LEMMA OperationStepKeeps ==
    ASSUME TypeOK, IInv, OperationStep
    PROVE  TypeOK' /\ IInv'
PROOF
<1> USE RequestsAssumption
    DEF rows, Release, Phases, OpReqs, DeleteReqs, Requests, TypeOK, IInv,
        OpInv, BootInv, CleanupInv, FencedInstanceUntouched, ReceiptMeansTornDown
<1>1. ASSUME NEW r \in StartReqs \cup StopReqs, BeginOperation(r)
      PROVE  TypeOK' /\ IInv'
  BY <1>1 DEF BeginOperation
<1>2. ASSUME NEW r \in OpReqs, RunOperation(r)
      PROVE  TypeOK' /\ IInv'
  BY <1>2 DEF RunOperation
<1>3. ASSUME NEW r \in OpReqs, FinishOperation(r)
      PROVE  TypeOK' /\ IInv'
  BY <1>3 DEF FinishOperation
<1>4. ASSUME NEW r \in OpReqs, FailOperation(r)
      PROVE  TypeOK' /\ IInv'
  BY <1>4 DEF FailOperation
<1>5. ASSUME NEW r \in StartReqs, RejectStart(r)
      PROVE  TypeOK' /\ IInv'
  BY <1>5 DEF RejectStart
<1> HIDE DEF TypeOK, IInv, OpReqs
<1>6. QED
  BY <1>1, <1>2, <1>3, <1>4, <1>5, Zenon DEF OperationStep

\* A deletion goes from its fence through every stage to its receipt.
LEMMA CleanupStepKeeps ==
    ASSUME TypeOK, IInv, CleanupStep
    PROVE  TypeOK' /\ IInv'
PROOF
<1> USE RequestsAssumption
    DEF rows, Release, Phases, OpReqs, DeleteReqs, Requests, TypeOK, IInv
<1>1. ASSUME NEW r \in DeleteReqs, BeginCleanup(r)
      PROVE  TypeOK' /\ IInv'
  <2> USE <1>1 DEF BeginCleanup, CleanupPhases, CleanupStates
  <2>1. TypeOK'
    OBVIOUS
  <2>2. OpInv' /\ BootInv'
    BY DEF OpInv, BootInv
  <2>3. CleanupInv'
    BY DEF CleanupInv
  <2>4. FencedInstanceUntouched'
    BY DEF FencedInstanceUntouched
  <2>5. ReceiptMeansTornDown'
    <3>1. SUFFICES ASSUME NEW i \in Instances
                   PROVE  /\ (inst'[i] = "deleted") <=> (proof'[i] # None)
                          /\ proof'[i] # None => /\ torn'[i] = 1..Stages
                                                 /\ phase'[proof'[i]] = "done"
                                                 /\ Bind[proof'[i]] = i
                                                 /\ fence'[i] = None
      BY DEF ReceiptMeansTornDown
    <3>2. Bind[r] \in Instances /\ inst[Bind[r]] # "deleted" /\ phase[r] # "done"
      OBVIOUS
    <3>3. CASE i = Bind[r]
      BY <3>2, <3>3 DEF ReceiptMeansTornDown
    <3>4. CASE i # Bind[r]
      BY <3>2, <3>4 DEF ReceiptMeansTornDown
    <3>5. QED
      BY <3>3, <3>4
  <2>6. QED
    BY <2>1, <2>2, <2>3, <2>4, <2>5
<1>2. ASSUME NEW r \in DeleteReqs, Teardown(r)
      PROVE  TypeOK' /\ IInv'
  BY <1>2 DEF Teardown, OpInv, BootInv, CleanupInv, FencedInstanceUntouched,
     ReceiptMeansTornDown
<1>3. ASSUME NEW r \in DeleteReqs, CommitCleanup(r)
      PROVE  TypeOK' /\ IInv'
  <2> USE <1>3 DEF CommitCleanup
  <2>1. TypeOK'
    OBVIOUS
  <2>2. OpInv' /\ BootInv'
    BY DEF OpInv, BootInv
  <2>3. CleanupInv'
    BY DEF CleanupInv
  <2>4. FencedInstanceUntouched'
    BY DEF FencedInstanceUntouched
  <2>5. ReceiptMeansTornDown'
    <3>1. SUFFICES ASSUME NEW i \in Instances
                   PROVE  /\ (inst'[i] = "deleted") <=> (proof'[i] # None)
                          /\ proof'[i] # None => /\ torn'[i] = 1..Stages
                                                 /\ phase'[proof'[i]] = "done"
                                                 /\ Bind[proof'[i]] = i
                                                 /\ fence'[i] = None
      BY DEF ReceiptMeansTornDown
    <3>2. Bind[r] \in Instances /\ torn[Bind[r]] = 1..Stages
      <4>1. Bind[r] \in Instances /\ torn[Bind[r]] \subseteq 1..Stages
        OBVIOUS
      <4>2. stage > 0 /\ stage - 1 = Stages
        OBVIOUS
      <4>3. 1..(stage - 1) \subseteq torn[Bind[r]]
        BY <4>2 DEF CleanupInv
      <4>4. QED
        BY <4>1, <4>2, <4>3
    <3>3. CASE i = Bind[r]
      BY <3>2, <3>3
    <3>4. CASE i # Bind[r]
      BY <3>2, <3>4 DEF ReceiptMeansTornDown
    <3>5. QED
      BY <3>3, <3>4
  <2>6. QED
    BY <2>1, <2>2, <2>3, <2>4, <2>5
<1>4. ASSUME NEW r \in DeleteReqs, DeleteFails(r)
      PROVE  TypeOK' /\ IInv'
  BY <1>4 DEF DeleteFails, OpInv, BootInv, CleanupInv, FencedInstanceUntouched,
     ReceiptMeansTornDown
<1> HIDE DEF TypeOK, IInv, DeleteReqs
<1>5. QED
  BY <1>1, <1>2, <1>3, <1>4, Zenon DEF CleanupStep

\* A restart cancels only what was admitted, and interrupts what had begun.
LEMMA RestartKeeps ==
    ASSUME TypeOK, IInv, Restart
    PROVE  TypeOK' /\ IInv'
PROOF
  BY RequestsAssumption
     DEF Restart, InterruptedPhase, Release, Phases, OpReqs, DeleteReqs, Requests, TypeOK, IInv,
         OpInv, BootInv, CleanupInv, FencedInstanceUntouched, ReceiptMeansTornDown

-----------------------------------------------------------------------------
(* The theorems *)

\* There are no rows at the start, but perhaps an instance in deleting that an
\* older release left without a fence.
LEMMA InitInv == Init => TypeOK /\ IInv
PROOF
  BY RequestsAssumption
     DEF Init, Phases, OpReqs, DeleteReqs, Requests, TypeOK, IInv,
         OpInv, BootInv, CleanupInv, FencedInstanceUntouched, ReceiptMeansTornDown

\* Every step keeps types and invariant.
LEMMA NextInv == TypeOK /\ IInv /\ [Next]_vars => TypeOK' /\ IInv'
PROOF
<1> SUFFICES ASSUME TypeOK, IInv, [Next]_vars PROVE TypeOK' /\ IInv'
  OBVIOUS
<1>1. CASE UNCHANGED vars
  BY <1>1 DEF vars, rows, TypeOK, IInv, OpInv, BootInv, CleanupInv, FencedInstanceUntouched,
     ReceiptMeansTornDown
<1>2. CASE Next
  <2>1. Admission \/ OperationStep \/ CleanupStep \/ Restart
    BY <1>2, Zenon DEF Next, WorkerStep, Admission, OperationStep, CleanupStep
  <2>2. QED
    BY <2>1, AdmissionKeeps, OperationStepKeeps, CleanupStepKeeps, RestartKeeps
<1>3. QED
  BY <1>1, <1>2

\* Types and inductive invariant hold in every reachable state.
THEOREM RequestsInvariant == Spec => [](TypeOK /\ IInv)
PROOF
  BY InitInv, NextInv, PTL DEF Spec

\* A request ID acts at most once, and so does a bootstrap generation.
THEOREM RequestsExecuteOnce == Spec => []ExecutedOnce
PROOF
<1>1. TypeOK /\ IInv => ExecutedOnce
  BY RequestsAssumption DEF TypeOK, IInv, OpInv, BootInv, ExecutedOnce, OpReqs, Requests
<1>2. QED
  BY <1>1, RequestsInvariant, PTL

\* A client that was told "cancelled" can rely on it.
THEOREM CancelledIsFinal == Spec => []CancelledNeverRuns
PROOF
<1>1. TypeOK /\ IInv => CancelledNeverRuns
  BY DEF IInv, OpInv, CancelledNeverRuns
<1>2. QED
  BY <1>1, RequestsInvariant, PTL

\* No start, stop or bootstrap touches an incarnation behind a cleanup fence.
THEOREM FenceHolds == Spec => []FencedInstanceUntouched
PROOF
<1>1. TypeOK /\ IInv => FencedInstanceUntouched
  BY DEF IInv
<1>2. QED
  BY <1>1, RequestsInvariant, PTL

\* A cleanup receipt proves that every stage of the teardown was carried out.
THEOREM ReceiptsAreTrue == Spec => []ReceiptMeansTornDown
PROOF
<1>1. TypeOK /\ IInv => ReceiptMeansTornDown
  BY DEF IInv
<1>2. QED
  BY <1>1, RequestsInvariant, PTL
=============================================================================
