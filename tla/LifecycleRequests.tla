------------------------- MODULE LifecycleRequests -------------------------
(***************************************************************************)
(* Durable lifecycle requests of the control plane for ONE instance name:  *)
(* the store's request rows, cleanup fences, cleanup receipts and bootstrap *)
(* high-water marks (internal/store/requests.go, cleanup.go) as the service *)
(* and the deletion engine drive them (internal/service/orb_operation.go,  *)
(* orb.go, cleanup.go, internal/provision/cleanup.go).                     *)
(*                                                                         *)
(* A client may send any request at any time and again after any answer.   *)
(* Commands hold the instance lock, so one worker runs at a time; a store  *)
(* call is one transaction and one step.  Between two store calls a worker *)
(* can fail (an error, or its SSH session going away) and the service can  *)
(* crash; the restart marks unfinished requests before it serves commands. *)
(*                                                                         *)
(* Abstractions: the four actor, argument and identity columns a row is    *)
(* bound by are the incarnation Bind[r]; the start, stop or bootstrap that *)
(* an admitted operation performs is one counted step; the teardown of an  *)
(* instance is its ordered list of idempotent stages.                      *)
(***************************************************************************)
EXTENDS Integers, FiniteSets

CONSTANTS
    Instances,   \* incarnations of the name, one alive at a time
    StartReqs,   \* request IDs of bound start operations
    StopReqs,    \* ... of bound stop operations
    BootReqs,    \* ... of orb bootstraps
    ProofReqs,   \* ... of delete --expect
    PlainReqs,   \* derived IDs of plain deletes
    PlainReq,    \* PlainReq[i]: the derived ID for incarnation i
    Bind,        \* the incarnation a request is bound to
    None,
    MaxGen,      \* bound: bootstrap generations explored
    Stages       \* gateways, runtime, network, tailnet, directory: 1..Stages

OpReqs == StartReqs \cup StopReqs \cup BootReqs
DeleteReqs == ProofReqs \cup PlainReqs
Requests == OpReqs \cup DeleteReqs

ASSUME RequestsAssumption ==
    /\ Bind \in [Requests -> Instances]
    /\ PlainReq \in [Instances -> PlainReqs]
    /\ \A i \in Instances : Bind[PlainReq[i]] = i
    /\ OpReqs \cap DeleteReqs = {}
    /\ ProofReqs \cap PlainReqs = {}
    /\ BootReqs \cap (StartReqs \cup StopReqs) = {}
    /\ None \notin Requests
    /\ MaxGen \in Nat
    /\ Stages \in Nat \ {0}

VARIABLES
    phase,    \* row of each request, "none" if there is no row
    inst,     \* instance row: none | live | deleting | deleted
    fence,    \* cleanup_fences: request that owns the deletion, or None
    proof,    \* cleanup_receipts: request whose receipt names the instance
    gen,      \* orb_bootstrap high-water mark
    torn,     \* stages of the teardown that have been carried out
    worker,   \* request whose command holds the instance lock, or None
    stage,    \* how far that command is; 0 before its request executes
    \* History, read by the properties only.
    runs,     \* times an operation's effect was started
    bootGen,  \* generation a bootstrap was admitted with, 0 if none
    acked     \* requests a client was told are cancelled

rows == <<phase, inst, fence, proof, gen>>
vars == <<rows, torn, worker, stage, runs, bootGen, acked>>

Phases == {"none", "admitted", "executing", "done", "failed", "rejected",
           "cancelled", "interrupted"}

TypeOK ==
    /\ phase \in [Requests -> Phases]
    /\ inst \in [Instances -> {"none", "live", "deleting", "deleted"}]
    /\ fence \in [Instances -> DeleteReqs \cup {None}]
    /\ proof \in [Instances -> DeleteReqs \cup {None}]
    /\ gen \in [Instances -> 0..MaxGen]
    /\ torn \in [Instances -> SUBSET (1..Stages)]
    /\ worker \in Requests \cup {None}
    /\ stage \in 0..(Stages + 1)
    /\ runs \in [OpReqs -> Nat]
    /\ bootGen \in [BootReqs -> 0..MaxGen]
    /\ acked \in SUBSET Requests

\* An older release may have left one instance in deleting without a fence.
Init ==
    /\ phase = [r \in Requests |-> "none"]
    /\ inst \in {f \in [Instances -> {"none", "deleting"}] :
                    Cardinality({i \in Instances : f[i] = "deleting"}) <= 1}
    /\ fence = [i \in Instances |-> None]
    /\ proof = [i \in Instances |-> None]
    /\ gen = [i \in Instances |-> 0]
    /\ torn = [i \in Instances |-> {}]
    /\ worker = None /\ stage = 0
    /\ runs = [r \in OpReqs |-> 0]
    /\ bootGen = [r \in BootReqs |-> 0]
    /\ acked = {}

-----------------------------------------------------------------------------

Unlocked == worker = None
Exists(i) == inst[i] \in {"live", "deleting"}

Release == worker' = None /\ stage' = 0

\* A command holds the instance lock for r and has its row.
Acquire(r, s, p) ==
    /\ worker' = r
    /\ stage' = s
    /\ phase' = [phase EXCEPT ![r] = p]

\* The name is free only when no incarnation of it is left.
CreateInstance(i) ==
    /\ Unlocked
    /\ inst[i] = "none"
    /\ \A j \in Instances : ~Exists(j)
    /\ inst' = [inst EXCEPT ![i] = "live"]
    /\ UNCHANGED <<phase, fence, proof, gen, torn, worker, stage, runs, bootGen, acked>>

-----------------------------------------------------------------------------
(* Bound operations: start, stop and bootstrap with --expect *)

\* Mutant: the incarnation is compared, the cleanup fence is not consulted.
CheckOrbIdentityUnfenced(r) == Exists(Bind[r])

\* checkOrbIdentity, under the instance lock.
CheckOrbIdentity(r) ==
    /\ Exists(Bind[r])
    /\ fence[Bind[r]] = None

\* Mutant: a request that failed or was interrupted is admitted once more.
AdmitOperationAgain(r) ==
    /\ Unlocked
    /\ CheckOrbIdentity(r)
    /\ phase[r] \in {"none", "interrupted"}
    /\ Acquire(r, 0, "admitted")
    /\ UNCHANGED <<inst, fence, proof, gen, torn, runs, bootGen, acked>>

\* Only the call that inserts the row goes on; every duplicate is refused.
AdmitOperation(r) ==
    /\ Unlocked
    /\ CheckOrbIdentity(r)
    /\ phase[r] = "none"
    /\ Acquire(r, 0, "admitted")
    /\ UNCHANGED <<inst, fence, proof, gen, torn, runs, bootGen, acked>>

BeginOperation(r) ==
    /\ worker = r
    /\ stage = 0
    /\ phase[r] = "admitted"
    /\ phase' = [phase EXCEPT ![r] = "executing"]
    /\ stage' = 1
    /\ UNCHANGED <<inst, fence, proof, gen, torn, worker, runs, bootGen, acked>>

\* The high-water mark and the row commit together or not at all.
AdmitBootstrap(r, g) ==
    /\ Unlocked
    /\ CheckOrbIdentity(r) /\ inst[Bind[r]] = "live"
    /\ gen[Bind[r]] < g
    /\ gen' = [gen EXCEPT ![Bind[r]] = g]
    /\ phase[r] = "none"
    /\ Acquire(r, 1, "executing")
    /\ bootGen' = [bootGen EXCEPT ![r] = g]
    /\ UNCHANGED <<inst, fence, proof, torn, runs, acked>>

\* The effect: provisioner.StartWithOptions, StopWithOptions or the guest call.
RunOperation(r) ==
    /\ worker = r
    /\ stage = 1
    /\ stage' = 2
    /\ runs' = [runs EXCEPT ![r] = @ + 1]
    /\ UNCHANGED <<rows, torn, worker, bootGen, acked>>

FinishOperation(r) ==
    /\ worker = r
    /\ stage = 2
    /\ phase[r] = "executing"
    /\ phase' = [phase EXCEPT ![r] = "done"]
    /\ Release
    /\ UNCHANGED <<inst, fence, proof, gen, torn, runs, bootGen, acked>>

\* ErrStartRejected: proven to have launched nothing.
RejectStart(r) ==
    /\ worker = r
    /\ stage = 1
    /\ phase[r] = "executing"
    /\ phase' = [phase EXCEPT ![r] = "rejected"]
    /\ Release
    /\ UNCHANGED <<inst, fence, proof, gen, torn, runs, bootGen, acked>>

\* Any other error: the row stays as it is and stays fenced against replay.
FailOperation(r) ==
    /\ worker = r
    /\ Release
    /\ UNCHANGED <<rows, torn, runs, bootGen, acked>>

\* operation-cancel closes admission of a request that never arrived.
CancelOperation(r) ==
    /\ Unlocked
    /\ CheckOrbIdentity(r)
    /\ phase[r] = "none"
    /\ phase' = [phase EXCEPT ![r] = "cancelled"]
    /\ acked' = acked \cup {r}
    /\ UNCHANGED <<inst, fence, proof, gen, torn, worker, stage, runs, bootGen>>

\* operation-result reads the row without any lock.
OperationResult(r) ==
    /\ phase[r] = "cancelled"
    /\ acked' = acked \cup {r}
    /\ UNCHANGED <<rows, torn, worker, stage, runs, bootGen>>

-----------------------------------------------------------------------------
(* Deletion *)

\* cmdDelete, and every reconciliation pass over a deleting instance: the
\* owner of the fence is resumed, or the derived request is admitted.
DeleteOwner(i) == IF fence[i] = None THEN PlainReq[i] ELSE fence[i]

Delete(i) ==
    /\ Unlocked
    /\ Exists(i)
    /\ LET r == DeleteOwner(i)
       IN  Acquire(r, 0, IF phase[r] = "none" THEN "admitted" ELSE phase[r])
    /\ UNCHANGED <<inst, fence, proof, gen, torn, runs, bootGen, acked>>

ReconcileDelete(i) == inst[i] = "deleting" /\ Delete(i)

\* delete --expect: a request that already has its receipt only returns it.
DeleteExpected(r) ==
    /\ Unlocked
    /\ Exists(Bind[r])
    /\ proof[Bind[r]] # r
    /\ Acquire(r, 0, IF phase[r] = "none" THEN "admitted" ELSE phase[r])
    /\ UNCHANGED <<inst, fence, proof, gen, torn, runs, bootGen, acked>>

\* The deletion stops with an error, at any point.  Only a delete --expect that
\* is still admitted is finished; an executing request keeps its fence.
DeleteFails(r) ==
    /\ worker = r
    /\ phase' = IF r \in ProofReqs /\ phase[r] = "admitted"
                  THEN [phase EXCEPT ![r] = "failed"] ELSE phase
    /\ Release
    /\ UNCHANGED <<inst, fence, proof, gen, torn, runs, bootGen, acked>>

\* Mutant: only a request that is still executing is resumed.
CleanupPhasesLive(resume) ==
    IF resume THEN {"executing"} ELSE {"admitted", "failed", "cancelled"}

CleanupPhases(resume) ==
    IF resume THEN {"executing", "interrupted"} ELSE {"admitted", "failed", "cancelled"}

\* Only a plain delete may adopt a deleting row that has no fence, and not
\* when some unfinished delete of the name lost its fence.
CleanupStates(r, resume) ==
    IF resume THEN {"deleting"}
    ELSE IF r \in PlainReqs THEN {"live", "deleting"} ELSE {"live"}

NoUnresolvedDelete ==
    \A q \in DeleteReqs : phase[q] \notin {"executing", "interrupted"}

BeginCleanup(r) ==
    /\ worker = r
    /\ stage = 0
    /\ LET i == Bind[r]
           resume == fence[i] # None
       IN  /\ resume => fence[i] = r
           /\ ~resume /\ r \in PlainReqs => NoUnresolvedDelete
           /\ phase[r] \in CleanupPhases(resume)
           /\ inst[i] \in CleanupStates(r, resume)
           /\ inst' = [inst EXCEPT ![i] = "deleting"]
           /\ fence' = [fence EXCEPT ![i] = r]
    /\ phase' = [phase EXCEPT ![r] = "executing"]
    /\ stage' = 1
    /\ UNCHANGED <<proof, gen, torn, worker, runs, bootGen, acked>>

\* Mutant: a failing stage is logged and passed over.
TeardownBestEffort(r) ==
    /\ worker = r
    /\ stage \in 1..Stages
    /\ stage' = stage + 1
    /\ \E done \in SUBSET {stage} :
          torn' = [torn EXCEPT ![Bind[r]] = @ \cup done]
    /\ UNCHANGED <<rows, worker, runs, bootGen, acked>>

\* Gateways, runtime, network, tailnet device, directory: in this order.
Teardown(r) ==
    /\ worker = r
    /\ stage \in 1..Stages
    /\ stage' = stage + 1
    /\ torn' = [torn EXCEPT ![Bind[r]] = @ \cup {stage}]
    /\ UNCHANGED <<rows, worker, runs, bootGen, acked>>

\* Request, tombstone, receipt and fence change in one transaction.
CommitCleanup(r) ==
    /\ worker = r
    /\ stage = Stages + 1
    /\ phase[r] = "executing"
    /\ inst[Bind[r]] = "deleting"
    /\ fence[Bind[r]] = r
    /\ phase' = [phase EXCEPT ![r] = "done"]
    /\ inst' = [inst EXCEPT ![Bind[r]] = "deleted"]
    /\ proof' = [proof EXCEPT ![Bind[r]] = r]
    /\ fence' = [fence EXCEPT ![Bind[r]] = None]
    /\ Release
    /\ UNCHANGED <<gen, torn, runs, bootGen, acked>>

-----------------------------------------------------------------------------

\* Mutant: every unfinished request is declared cancelled.
InterruptedPhaseCancels(p) ==
    IF p \in {"admitted", "executing"} THEN "cancelled" ELSE p

InterruptedPhase(p) ==
    CASE p = "admitted"  -> "cancelled"
      [] p = "executing" -> "interrupted"
      [] OTHER           -> p

\* The service crashes and, before it serves a command again, marks every
\* unfinished request.
Restart ==
    /\ phase' = [r \in Requests |-> InterruptedPhase(phase[r])]
    /\ Release
    /\ UNCHANGED <<inst, fence, proof, gen, torn, runs, bootGen, acked>>

\* A step of the command that holds the instance lock.
WorkerStep ==
    \/ \E r \in StartReqs \cup StopReqs : BeginOperation(r)
    \/ \E r \in OpReqs : RunOperation(r) \/ FinishOperation(r) \/ FailOperation(r)
    \/ \E r \in StartReqs : RejectStart(r)
    \/ \E r \in DeleteReqs :
          BeginCleanup(r) \/ Teardown(r) \/ CommitCleanup(r) \/ DeleteFails(r)

Next ==
    \/ \E i \in Instances : CreateInstance(i) \/ Delete(i)
    \/ \E r \in StartReqs \cup StopReqs : AdmitOperation(r) \/ CancelOperation(r)
    \/ \E r \in BootReqs, g \in 1..MaxGen : AdmitBootstrap(r, g)
    \/ \E r \in OpReqs : OperationResult(r)
    \/ \E r \in ProofReqs : DeleteExpected(r)
    \/ WorkerStep
    \/ Restart

Spec == Init /\ [][Next]_vars

\* Every command returns; reconciliation gets the instance lock again and
\* again; a stage that is retried forever is not refused forever.
Fairness ==
    /\ WF_vars(WorkerStep)
    /\ SF_vars(\E i \in Instances : ReconcileDelete(i))
    /\ SF_vars(\E r \in DeleteReqs : BeginCleanup(r))
    /\ \A k \in 1..Stages : SF_vars(stage = k /\ \E r \in DeleteReqs : Teardown(r))
    /\ SF_vars(\E r \in DeleteReqs : CommitCleanup(r))

FairSpec == Spec /\ Fairness

-----------------------------------------------------------------------------
(* Properties *)

\* A request ID performs its start, stop or bootstrap at most once, whatever
\* is replayed after errors, lost answers and restarts, and so does a bootstrap
\* generation of an incarnation, whichever of several requests claim it.
ExecutedOnce ==
    /\ \A r \in OpReqs : runs[r] <= 1
    /\ \A r, q \in BootReqs :
          r # q /\ Bind[r] = Bind[q] /\ bootGen[r] = bootGen[q] => runs[r] + runs[q] <= 1

\* A client that was told a request is cancelled can rely on it: the request
\* had no effect and never will.
CancelledNeverRuns == \A r \in acked \cap OpReqs : runs[r] = 0

\* No bound operation acts on an incarnation whose deletion has begun.
FencedInstanceUntouched ==
    \A r \in OpReqs : worker = r => fence[Bind[r]] = None

\* An instance is a tombstone exactly when a receipt for it was published, by
\* the request that finished the deletion and took its fence away, and a receipt
\* is only published after every stage of the teardown succeeded.
ReceiptMeansTornDown ==
    \A i \in Instances :
        /\ (inst[i] = "deleted") <=> (proof[i] # None)
        /\ proof[i] # None => /\ torn[i] = 1..Stages
                              /\ phase[proof[i]] = "done"
                              /\ Bind[proof[i]] = i
                              /\ fence[i] = None

\* A deletion, once begun, completes, through errors, restarts and the loss of
\* the client: reconciliation keeps resuming it.
DeletionCompletes ==
    \A i \in Instances : (inst[i] = "deleting") ~> (inst[i] = "deleted")

-----------------------------------------------------------------------------
(* The inductive invariant behind the safety properties *)

\* A request has its effect behind it only if it got beyond admission; a command
\* that holds the lock is where its row says; a cancellation is final.
OpInv ==
    \A r \in OpReqs :
        /\ runs[r] <= 1
        /\ phase[r] \in {"none", "admitted", "cancelled"} => runs[r] = 0
        /\ worker = r => \/ stage = 0 /\ phase[r] = "admitted"
                         \/ stage \in {1, 2} /\ phase[r] = "executing" /\ runs[r] = stage - 1
        /\ r \in acked => phase[r] = "cancelled"

\* Generations are given out in increasing order, one to a request.
BootInv ==
    \A r \in BootReqs :
        /\ bootGen[r] = 0 <=> phase[r] = "none"
        /\ bootGen[r] <= gen[Bind[r]]
        /\ \A q \in BootReqs \ {r} :
              Bind[q] = Bind[r] /\ bootGen[q] = bootGen[r] => bootGen[r] = 0

\* A fence belongs to the deletion of its own instance; the command at work on
\* it has carried out all stages before its own.
CleanupInv ==
    /\ \A i \in Instances : fence[i] # None => inst[i] = "deleting" /\ Bind[fence[i]] = i
    /\ \A r \in DeleteReqs : worker = r /\ stage > 0 =>
          /\ fence[Bind[r]] = r /\ phase[r] = "executing"
          /\ 1..(stage - 1) \subseteq torn[Bind[r]]

IInv == OpInv /\ BootInv /\ CleanupInv /\ FencedInstanceUntouched /\ ReceiptMeansTornDown

=============================================================================
