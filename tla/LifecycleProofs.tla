-------------------------- MODULE LifecycleProofs --------------------------
(***************************************************************************)
(* The safety properties of Lifecycle for every set of attempts, any       *)
(* number of crashes, reboots and commands.  They follow from IInv, which  *)
(* is inductive: StoppedMeansGone and SupersededAreClosed need RunnerInv   *)
(* and StepInv (what each step of an operation already found out), the     *)
(* network needs MayRun (a start call still under way may yet bring up a   *)
(* VM), the intent needs IntentInv (a stop is not followed by a start).    *)
(***************************************************************************)
EXTENDS Lifecycle, TLAPS

\* The columns of the row.
Rows == [st : States, pid : Attempts \cup {None}, req : Attempts \cup {None},
         joined : BOOLEAN]

\* What an absent runtime may change in the row ...
AbsentChange ==
    /\ row' \in Rows /\ row'.req = row.req
    /\ \/ row' = row
       \/ /\ row'.pid = None /\ row'.st \in {"stopped", "failed"}
          /\ row.st \in Active \/ (row.pid # None /\ row.st \notin {"stopping", "deleting"})
       \/ row'.pid = None /\ row'.st = row.st /\ row.st \in {"stopping", "deleting"}

\* ... and what the cleanup of a failed start may.
CleanupChange ==
    /\ row' \in Rows /\ row'.req = row.req
    /\ \/ row' = row
       \/ row'.pid = None /\ row'.st = IF op = "create" THEN "failed" ELSE "stopped"

-----------------------------------------------------------------------------
(* The writes of the row whose columns depend on a Boolean *)

\* The row that is written once a receipt is known to be closed.
LEMMA AbsentRowWritten ==
    ASSUME TypeOK, ResolveAbsent
    PROVE  AbsentChange
PROOF
<1> USE DEF TypeOK, Rows, AbsentChange
<1>1. CASE row.pid # None \/ row.st \in Active
  <2> DEFINE s == IF row.st \in {"stopping", "deleting"} THEN row.st
                  ELSE IF row.joined THEN "stopped" ELSE "failed"
  <2>1. \/ s \in {"stopped", "failed"} /\ row.st \notin {"stopping", "deleting"}
        \/ s = row.st /\ row.st \in {"stopping", "deleting"}
    BY Zenon
  <2>2. row' = [row EXCEPT !.pid = None, !.st = s]
    BY <1>1, Zenon DEF ResolveAbsent, AbsentRow
  <2> HIDE DEF s
  <2>3. QED
    BY <1>1, <2>1, <2>2 DEF States
<1>2. CASE ~(row.pid # None \/ row.st \in Active)
  BY <1>2 DEF ResolveAbsent
<1>3. QED
  BY <1>1, <1>2

\* The row of a command that failed.
LEMMA FailedRow ==
    ASSUME TypeOK, Failed
    PROVE  CleanupChange
PROOF
<1> DEFINE s == IF op = "create" THEN "failed" ELSE "stopped"
<1>1. PICK j \in {row.joined, op = "start" \/ row.joined} :
         row' \in {row, [row EXCEPT !.pid = None, !.joined = j, !.st = s]}
  BY Zenon DEF Failed
<1>2. j \in BOOLEAN
  BY DEF TypeOK
<1>3. s \in States
  BY DEF States
<1>4. CASE row' = row
  BY <1>4, Zenon DEF CleanupChange, TypeOK, Rows
<1>5. CASE row' = [row EXCEPT !.pid = None, !.joined = j, !.st = s]
  <2> HIDE DEF s
  <2>1. row' \in Rows /\ row'.req = row.req /\ row'.pid = None /\ row'.st = s
    BY <1>2, <1>3, <1>5 DEF TypeOK, Rows
  <2>2. QED
    BY <2>1, Zenon DEF CleanupChange, s
<1>6. QED
  BY <1>1, <1>4, <1>5

\* The row of an attempt that is issued.
LEMMA IssuedRow ==
    ASSUME TypeOK, NEW a \in Attempts, Issue(a)
    PROVE  row' \in Rows /\ row'.req = a /\ row'.pid = row.pid
PROOF
<1> DEFINE j == row.joined \/ op = "start"
<1>1. j \in BOOLEAN
  BY Zenon
<1>2. row' = [row EXCEPT !.req = a, !.joined = j]
  BY Zenon DEF Issue
<1> HIDE DEF j
<1>3. QED
  BY <1>1, <1>2 DEF TypeOK, Rows

-----------------------------------------------------------------------------
(* Every step keeps the invariant *)

\* A user's command keeps the types ...
LEMMA CommandTypes ==
    ASSUME TypeOK, StepInv, Command
    PROVE  TypeOK'
PROOF
<1> USE LifecycleAssumption
    DEF contract, control, wire, Goto, Return, Begin, States, Ops, Steps, TypeOK
<1>1. CASE Create
  BY <1>1 DEF Create, Reusable, AnswersAbsent, Close, Closable
<1>2. CASE Start
  BY <1>2 DEF Start
<1>3. CASE Stop
  BY <1>3 DEF Stop, Stoppable, StopIntent
<1>4. CASE Restart
  BY <1>4 DEF Restart, Stoppable, StopIntent
<1>5. CASE Delete
  BY <1>5 DEF Delete
<1>6. CASE Look
  BY <1>6 DEF Look
<1>7. QED
  BY <1>1, <1>2, <1>3, <1>4, <1>5, <1>6 DEF Command

\* ... and the inductive invariant.
LEMMA CommandInv ==
    ASSUME TypeOK, TypeOK', IInv, Command
    PROVE  IInv'
PROOF
<1> USE LifecycleAssumption
    DEF contract, control, wire, Goto, Return, Begin, RuntimeAlive, Active, TypeOK,
        IInv, RunnerInv, NetInv, StepInv, RowInv, IntentInv,
        StoppedMeansGone, SupersededAreClosed, StopHolds, Gone, MayRun, Open
<1>1. CASE Create
  BY <1>1 DEF Create, Reusable, AnswersAbsent, Close, Closable
<1>2. CASE Start
  BY <1>2 DEF Start
<1>3. CASE Stop
  BY <1>3 DEF Stop, Stoppable, StopIntent
<1>4. CASE Restart
  BY <1>4 DEF Restart, Stoppable, StopIntent
<1>5. CASE Delete
  BY <1>5 DEF Delete
<1>6. CASE Look
  BY <1>6 DEF Look
<1>7. QED
  BY <1>1, <1>2, <1>3, <1>4, <1>5, <1>6 DEF Command

\* The sweep or the startup pass, as it takes the instance lock, keeps the types ...
LEMMA BackgroundTypes ==
    ASSUME TypeOK, StepInv, Background
    PROVE  TypeOK'
PROOF
<1> USE LifecycleAssumption
    DEF contract, control, wire, Goto, Return, Begin, States, Ops, Steps, TypeOK
<1>1. CASE Sweep
  BY <1>1 DEF Sweep
<1>2. CASE SweepDeletes
  BY <1>2 DEF SweepDeletes, Delete
<1>3. CASE Restore
  BY <1>3 DEF Restore, AutoStart
<1>4. QED
  BY <1>1, <1>2, <1>3 DEF Background

\* ... and the inductive invariant.
LEMMA BackgroundInv ==
    ASSUME TypeOK, TypeOK', IInv, Background
    PROVE  IInv'
PROOF
<1> USE LifecycleAssumption
    DEF contract, control, wire, Goto, Return, Begin, RuntimeAlive, Active, TypeOK,
        IInv, RunnerInv, NetInv, StepInv, RowInv, IntentInv,
        StoppedMeansGone, SupersededAreClosed, StopHolds, Gone, MayRun, Open
<1>1. CASE Sweep
  BY <1>1 DEF Sweep
<1>2. CASE SweepDeletes
  BY <1>2 DEF SweepDeletes, Delete
<1>3. CASE Restore
  BY <1>3 DEF Restore, AutoStart
<1>4. QED
  BY <1>1, <1>2, <1>3 DEF Background

\* The resolution of a runtime keeps the types ...
LEMMA ResolutionTypes ==
    ASSUME TypeOK, StepInv, Resolution
    PROVE  TypeOK'
PROOF
<1> USE LifecycleAssumption
    DEF contract, control, wire, Goto, Return, Begin, States, Ops, Steps, TypeOK
<1>1. CASE ResolveSkips
  BY <1>1 DEF ResolveSkips
<1>2. CASE ResolveRunning
  BY <1>2 DEF ResolveRunning, AnswersRunning, RunningRow
<1>3. CASE ResolveAbsent
  <2>1. net' \in BOOLEAN /\ AbsentChange
    BY <1>3, AbsentRowWritten DEF ResolveAbsent
  <2>2. QED
    BY <1>3, <2>1 DEF ResolveAbsent, AnswersAbsent, Close, Closable, AbsentChange, Rows
<1>4. CASE ResolveFails
  BY <1>4 DEF ResolveFails, AnswersAbsent, Uncertain, AnswersUnknown, Close, Closable
<1>5. QED
  BY <1>1, <1>2, <1>3, <1>4 DEF Resolution

\* ... and the inductive invariant.
LEMMA ResolutionInv ==
    ASSUME TypeOK, TypeOK', IInv, Resolution
    PROVE  IInv'
PROOF
<1> USE LifecycleAssumption
    DEF contract, control, wire, Goto, Return, Begin, RuntimeAlive, Active, TypeOK,
        IInv, RunnerInv, NetInv, StepInv, RowInv, IntentInv,
        StoppedMeansGone, SupersededAreClosed, StopHolds, Gone, MayRun, Open
<1>1. CASE ResolveSkips
  BY <1>1 DEF ResolveSkips
<1>2. CASE ResolveRunning
  BY <1>2 DEF ResolveRunning, AnswersRunning, RunningRow
<1>3. CASE ResolveAbsent
  <2>1. AbsentChange
    BY <1>3, AbsentRowWritten
  <2>2. RunnerInv'
    BY <1>3, <2>1 DEF ResolveAbsent, AnswersAbsent, Close, Closable, AbsentChange
  <2>3. NetInv'
    BY <1>3, <2>1 DEF ResolveAbsent, AnswersAbsent, Close, Closable, AbsentChange
  <2>4. StepInv'
    BY <1>3, <2>1 DEF ResolveAbsent, AnswersAbsent, Close, Closable, AbsentChange
  <2>5. RowInv'
    BY <1>3, <2>1 DEF ResolveAbsent, AnswersAbsent, Close, Closable, AbsentChange
  <2>6. IntentInv'
    BY <1>3, <2>1 DEF ResolveAbsent, AnswersAbsent, Close, Closable, AbsentChange
  <2>7. StoppedMeansGone'
    BY <1>3, <2>1 DEF ResolveAbsent, AnswersAbsent, Close, Closable, AbsentChange
  <2>8. SupersededAreClosed'
    BY <1>3, <2>1 DEF ResolveAbsent, AnswersAbsent, Close, Closable, AbsentChange
  <2>9. StopHolds'
    BY <1>3, <2>1 DEF ResolveAbsent, AnswersAbsent, Close, Closable, AbsentChange
  <2> QED
    BY <2>2, <2>3, <2>4, <2>5, <2>6, <2>7, <2>8, <2>9 DEF IInv
<1>4. CASE ResolveFails
  BY <1>4 DEF ResolveFails, AnswersAbsent, Uncertain, AnswersUnknown, Close, Closable
<1>5. QED
  BY <1>1, <1>2, <1>3, <1>4 DEF Resolution

\* A step of a start keeps the types ...
LEMMA StartStepTypes ==
    ASSUME TypeOK, StepInv, StartStep
    PROVE  TypeOK'
PROOF
<1> USE LifecycleAssumption
    DEF contract, control, wire, Goto, Return, Begin, States, Ops, Steps, TypeOK
<1>1. CASE StartFindsRuntime
  BY <1>1 DEF StartFindsRuntime
<1>2. CASE AdmitStart
  BY <1>2 DEF AdmitStart, Admissible
<1>3. CASE StartRefused
  BY <1>3 DEF StartRefused
<1>4. CASE UnplugOld
  <2>1. net' \in BOOLEAN
    BY <1>4 DEF UnplugOld
  <2>2. QED
    BY <1>4, <2>1 DEF UnplugOld
<1>5. CASE Plug
  BY <1>5 DEF Plug
<1>6. CASE \E a \in Attempts : Issue(a)
  <2>1. PICK a \in Attempts : Issue(a)
    BY <1>6
  <2>2. row' \in Rows /\ row'.req = a /\ row'.pid = row.pid
    BY <2>1, IssuedRow
  <2>3. QED
    BY <2>1, <2>2 DEF Issue, Rows, StepInv
<1>7. CASE \E a \in Attempts : IssueFails(a)
  BY <1>7 DEF IssueFails
<1>8. CASE Call
  BY <1>8 DEF Call, StepInv
<1>9. CASE StartFails
  <2>1. net' \in BOOLEAN /\ CleanupChange
    BY <1>9, FailedRow DEF StartFails, Failed
  <2>2. QED
    BY <1>9, <2>1 DEF StartFails, Failed, CleanupChange, Rows
<1>10. CASE StartAnswered
  BY <1>10 DEF StartAnswered, AnswersRunning
<1>11. CASE StartAbsent
  <2>1. net' \in BOOLEAN /\ CleanupChange
    BY <1>11, FailedRow DEF StartAbsent, Failed
  <2>2. QED
    BY <1>11, <2>1 DEF StartAbsent, Failed, AnswersAbsent, Close, Closable, CleanupChange, Rows
<1>12. CASE StartUncertain
  BY <1>12 DEF StartUncertain, Uncertain, AnswersUnknown, Close, Closable
<1>13. CASE Ready
  BY <1>13 DEF Ready, GuestSeen
<1>14. CASE NotReady
  BY <1>14 DEF NotReady
<1>15. QED
  BY <1>1, <1>2, <1>3, <1>4, <1>5, <1>6, <1>7, <1>8, <1>9, <1>10, <1>11,
     <1>12, <1>13, <1>14 DEF StartStep

\* ... and the inductive invariant.
LEMMA StartStepInv ==
    ASSUME TypeOK, TypeOK', IInv, StartStep
    PROVE  IInv'
PROOF
<1> USE LifecycleAssumption
    DEF contract, control, wire, Goto, Return, Begin, RuntimeAlive, Active, TypeOK,
        IInv, RunnerInv, NetInv, StepInv, RowInv, IntentInv,
        StoppedMeansGone, SupersededAreClosed, StopHolds, Gone, MayRun, Open
<1>1. CASE StartFindsRuntime
  BY <1>1 DEF StartFindsRuntime
<1>2. CASE AdmitStart
  <2>1. Gone
    BY <1>2 DEF AdmitStart, Admissible, States
  <2>2. RunnerInv'
    BY <1>2, <2>1 DEF AdmitStart, Admissible
  <2>3. NetInv'
    BY <1>2, <2>1 DEF AdmitStart, Admissible
  <2>4. StepInv'
    BY <1>2, <2>1 DEF AdmitStart, Admissible
  <2>5. RowInv'
    BY <1>2, <2>1 DEF AdmitStart, Admissible
  <2>6. IntentInv'
    BY <1>2, <2>1 DEF AdmitStart, Admissible
  <2>7. StoppedMeansGone'
    BY <1>2, <2>1 DEF AdmitStart, Admissible
  <2>8. SupersededAreClosed'
    BY <1>2, <2>1 DEF AdmitStart, Admissible
  <2>9. StopHolds'
    BY <1>2, <2>1 DEF AdmitStart, Admissible
  <2> QED
    BY <2>2, <2>3, <2>4, <2>5, <2>6, <2>7, <2>8, <2>9 DEF IInv
<1>3. CASE StartRefused
  BY <1>3 DEF StartRefused
<1>4. CASE UnplugOld
  BY <1>4 DEF UnplugOld
<1>5. CASE Plug
  BY <1>5 DEF Plug
<1>6. CASE \E a \in Attempts : Issue(a)
  <2>1. PICK a \in Attempts : Issue(a)
    BY <1>6
  <2>2. RunnerInv'
    BY <2>1 DEF Issue
  <2>3. NetInv'
    BY <2>1 DEF Issue
  <2>4. StepInv'
    BY <2>1 DEF Issue
  <2>5. RowInv'
    BY <2>1 DEF Issue
  <2>6. IntentInv'
    BY <2>1 DEF Issue
  <2>7. StoppedMeansGone'
    BY <2>1 DEF Issue
  <2>8. SupersededAreClosed'
    BY <2>1 DEF Issue
  <2>9. StopHolds'
    BY <2>1 DEF Issue
  <2> QED
    BY <2>2, <2>3, <2>4, <2>5, <2>6, <2>7, <2>8, <2>9 DEF IInv
<1>7. CASE \E a \in Attempts : IssueFails(a)
  BY <1>7 DEF IssueFails
<1>8. CASE Call
  BY <1>8 DEF Call
<1>9. CASE StartFails
  <2>1. CleanupChange
    BY <1>9, FailedRow DEF StartFails
  <2>2. RunnerInv'
    BY <1>9, <2>1 DEF StartFails, Failed, CleanupChange
  <2>3. NetInv'
    BY <1>9, <2>1 DEF StartFails, Failed, CleanupChange
  <2>4. StepInv'
    BY <1>9, <2>1 DEF StartFails, Failed, CleanupChange
  <2>5. RowInv'
    BY <1>9, <2>1 DEF StartFails, Failed, CleanupChange
  <2>6. IntentInv'
    BY <1>9, <2>1 DEF StartFails, Failed, CleanupChange
  <2>7. StoppedMeansGone'
    BY <1>9, <2>1 DEF StartFails, Failed, CleanupChange
  <2>8. SupersededAreClosed'
    BY <1>9, <2>1 DEF StartFails, Failed, CleanupChange
  <2>9. StopHolds'
    BY <1>9, <2>1 DEF StartFails, Failed, CleanupChange
  <2> QED
    BY <2>2, <2>3, <2>4, <2>5, <2>6, <2>7, <2>8, <2>9 DEF IInv
<1>10. CASE StartAnswered
  BY <1>10 DEF StartAnswered, AnswersRunning
<1>11. CASE StartAbsent
  <2>1. CleanupChange
    BY <1>11, FailedRow DEF StartAbsent
  <2>2. RunnerInv'
    BY <1>11, <2>1 DEF StartAbsent, Failed, AnswersAbsent, Close, Closable, CleanupChange
  <2>3. NetInv'
    BY <1>11, <2>1 DEF StartAbsent, Failed, AnswersAbsent, Close, Closable, CleanupChange
  <2>4. StepInv'
    BY <1>11, <2>1 DEF StartAbsent, Failed, AnswersAbsent, Close, Closable, CleanupChange
  <2>5. RowInv'
    BY <1>11, <2>1 DEF StartAbsent, Failed, AnswersAbsent, Close, Closable, CleanupChange
  <2>6. IntentInv'
    BY <1>11, <2>1 DEF StartAbsent, Failed, AnswersAbsent, Close, Closable, CleanupChange
  <2>7. StoppedMeansGone'
    BY <1>11, <2>1 DEF StartAbsent, Failed, AnswersAbsent, Close, Closable, CleanupChange
  <2>8. SupersededAreClosed'
    BY <1>11, <2>1 DEF StartAbsent, Failed, AnswersAbsent, Close, Closable, CleanupChange
  <2>9. StopHolds'
    BY <1>11, <2>1 DEF StartAbsent, Failed, AnswersAbsent, Close, Closable, CleanupChange
  <2> QED
    BY <2>2, <2>3, <2>4, <2>5, <2>6, <2>7, <2>8, <2>9 DEF IInv
<1>12. CASE StartUncertain
  BY <1>12 DEF StartUncertain, Uncertain, AnswersUnknown, Close, Closable
<1>13. CASE Ready
  BY <1>13 DEF Ready, GuestSeen
<1>14. CASE NotReady
  BY <1>14 DEF NotReady
<1>15. QED
  BY <1>1, <1>2, <1>3, <1>4, <1>5, <1>6, <1>7, <1>8, <1>9, <1>10, <1>11,
     <1>12, <1>13, <1>14 DEF StartStep

\* A step of a stop keeps the types ...
LEMMA StopStepTypes ==
    ASSUME TypeOK, StepInv, StopStep
    PROVE  TypeOK'
PROOF
<1> USE LifecycleAssumption
    DEF contract, control, wire, Goto, Return, Begin, States, Ops, Steps, TypeOK
<1>1. CASE StopDecides
  BY <1>1 DEF StopDecides
<1>2. CASE Halt
  BY <1>2 DEF Halt
<1>3. CASE HaltReturns
  BY <1>3 DEF HaltReturns, Halted
<1>4. CASE HaltFails
  BY <1>4 DEF HaltFails
<1>5. CASE Unplug
  <2>1. net' \in BOOLEAN
    BY <1>5 DEF Unplug
  <2>2. QED
    BY <1>5, <2>1 DEF Unplug
<1>6. CASE Settle
  BY <1>6 DEF Settle
<1>7. CASE StopFails
  BY <1>7 DEF StopFails
<1>8. QED
  BY <1>1, <1>2, <1>3, <1>4, <1>5, <1>6, <1>7 DEF StopStep

\* ... and the inductive invariant.
LEMMA StopStepInv ==
    ASSUME TypeOK, TypeOK', IInv, StopStep
    PROVE  IInv'
PROOF
<1> USE LifecycleAssumption
    DEF contract, control, wire, Goto, Return, Begin, RuntimeAlive, Active, TypeOK,
        IInv, RunnerInv, NetInv, StepInv, RowInv, IntentInv,
        StoppedMeansGone, SupersededAreClosed, StopHolds, Gone, MayRun, Open
<1>1. CASE StopDecides
  BY <1>1 DEF StopDecides
<1>2. CASE Halt
  BY <1>2 DEF Halt
<1>3. CASE HaltReturns
  BY <1>3 DEF HaltReturns, Halted
<1>4. CASE HaltFails
  BY <1>4 DEF HaltFails
<1>5. CASE Unplug
  BY <1>5 DEF Unplug
<1>6. CASE Settle
  BY <1>6 DEF Settle
<1>7. CASE StopFails
  BY <1>7 DEF StopFails
<1>8. QED
  BY <1>1, <1>2, <1>3, <1>4, <1>5, <1>6, <1>7 DEF StopStep

\* A decision of reconciliation keeps the types ...
LEMMA ReconcileStepTypes ==
    ASSUME TypeOK, StepInv, ReconcileStep
    PROVE  TypeOK'
PROOF
<1> USE LifecycleAssumption
    DEF contract, control, wire, Goto, Return, Begin, States, Ops, Steps, TypeOK
<1>1. CASE RuntimeExited
  BY <1>1 DEF RuntimeExited
<1>2. CASE GuestHalted
  BY <1>2 DEF GuestHalted, StopIntent
<1>3. CASE LookReturns
  BY <1>3 DEF LookReturns
<1>4. CASE SweepResumes
  BY <1>4 DEF SweepResumes
<1>5. CASE RestoreLeaves
  BY <1>5 DEF RestoreLeaves
<1>6. CASE RestoreStops
  BY <1>6 DEF RestoreStops, StopIntent
<1>7. CASE RestoreStarts
  BY <1>7 DEF RestoreStarts, RestoreSettled
<1>8. QED
  BY <1>1, <1>2, <1>3, <1>4, <1>5, <1>6, <1>7 DEF ReconcileStep

\* ... and the inductive invariant.
LEMMA ReconcileStepInv ==
    ASSUME TypeOK, TypeOK', IInv, ReconcileStep
    PROVE  IInv'
PROOF
<1> USE LifecycleAssumption
    DEF contract, control, wire, Goto, Return, Begin, RuntimeAlive, Active, TypeOK,
        IInv, RunnerInv, NetInv, StepInv, RowInv, IntentInv,
        StoppedMeansGone, SupersededAreClosed, StopHolds, Gone, MayRun, Open
<1>1. CASE RuntimeExited
  BY <1>1 DEF RuntimeExited
<1>2. CASE GuestHalted
  BY <1>2 DEF GuestHalted, StopIntent
<1>3. CASE LookReturns
  BY <1>3 DEF LookReturns
<1>4. CASE SweepResumes
  BY <1>4 DEF SweepResumes
<1>5. CASE RestoreLeaves
  BY <1>5 DEF RestoreLeaves
<1>6. CASE RestoreStops
  BY <1>6 DEF RestoreStops, StopIntent
<1>7. CASE RestoreStarts
  BY <1>7 DEF RestoreStarts, RestoreSettled
<1>8. QED
  BY <1>1, <1>2, <1>3, <1>4, <1>5, <1>6, <1>7 DEF ReconcileStep

\* A step of a delete keeps the types ...
LEMMA DeleteStepTypes ==
    ASSUME TypeOK, StepInv, DeleteStep
    PROVE  TypeOK'
PROOF
<1> USE LifecycleAssumption
    DEF contract, control, wire, Goto, Return, Begin, States, Ops, Steps, TypeOK
<1>1. CASE DeleteResolves
  BY <1>1 DEF DeleteResolves, AnswersRunning, AnswersAbsent, Close, Closable
<1>2. CASE DeleteUncertain
  BY <1>2 DEF DeleteUncertain, Uncertain, AnswersUnknown, Close, Closable
<1>3. CASE DeleteSkips
  BY <1>3 DEF DeleteSkips
<1>4. CASE Prove
  BY <1>4 DEF Prove
<1>5. CASE Finalize
  BY <1>5 DEF Finalize
<1>6. CASE DeleteFails
  <2>1. net' \in BOOLEAN
    BY <1>6 DEF DeleteFails
  <2>2. QED
    BY <1>6, <2>1 DEF DeleteFails
<1>7. QED
  BY <1>1, <1>2, <1>3, <1>4, <1>5, <1>6 DEF DeleteStep

\* ... and the inductive invariant.
LEMMA DeleteStepInv ==
    ASSUME TypeOK, TypeOK', IInv, DeleteStep
    PROVE  IInv'
PROOF
<1> USE LifecycleAssumption
    DEF contract, control, wire, Goto, Return, Begin, RuntimeAlive, Active, TypeOK,
        IInv, RunnerInv, NetInv, StepInv, RowInv, IntentInv,
        StoppedMeansGone, SupersededAreClosed, StopHolds, Gone, MayRun, Open
<1>1. CASE DeleteResolves
  BY <1>1 DEF DeleteResolves, AnswersRunning, AnswersAbsent, Close, Closable
<1>2. CASE DeleteUncertain
  BY <1>2 DEF DeleteUncertain, Uncertain, AnswersUnknown, Close, Closable
<1>3. CASE DeleteSkips
  BY <1>3 DEF DeleteSkips
<1>4. CASE Prove
  BY <1>4 DEF Prove
<1>5. CASE Finalize
  BY <1>5 DEF Finalize
<1>6. CASE DeleteFails
  BY <1>6 DEF DeleteFails
<1>7. QED
  BY <1>1, <1>2, <1>3, <1>4, <1>5, <1>6 DEF DeleteStep

\* The runner, at work on the calls it was sent, keeps the types ...
LEMMA RunnerTypes ==
    ASSUME TypeOK, StepInv, Runner
    PROVE  TypeOK'
PROOF
<1> USE LifecycleAssumption
    DEF contract, control, wire, Goto, Return, Begin, States, Ops, Steps, TypeOK
<1>1. CASE \E a \in Attempts : RunnerStart(a)
  BY <1>1 DEF RunnerStart, Accept, Close, Closable
<1>2. CASE RunnerSpawns
  BY <1>2 DEF RunnerSpawns, Spawn
<1>3. CASE RunnerRecords
  BY <1>3 DEF RunnerRecords, Record
<1>4. CASE RunnerLoses
  BY <1>4 DEF RunnerLoses
<1>5. CASE RunnerStops
  BY <1>5 DEF RunnerStops
<1>6. CASE RunnerKills
  BY <1>6 DEF RunnerKills, Exit
<1>7. CASE RunnerCloses
  BY <1>7 DEF RunnerCloses, Close, Closable
<1>8. CASE RunnerGivesUp
  BY <1>8 DEF RunnerGivesUp
<1>9. QED
  BY <1>1, <1>2, <1>3, <1>4, <1>5, <1>6, <1>7, <1>8 DEF Runner

\* ... and the inductive invariant.
LEMMA RunnerInvariant ==
    ASSUME TypeOK, TypeOK', IInv, Runner
    PROVE  IInv'
PROOF
<1> USE LifecycleAssumption
    DEF contract, control, wire, Goto, Return, Begin, RuntimeAlive, Active, TypeOK,
        IInv, RunnerInv, NetInv, StepInv, RowInv, IntentInv,
        StoppedMeansGone, SupersededAreClosed, StopHolds, Gone, MayRun, Open
<1>1. CASE \E a \in Attempts : RunnerStart(a)
  BY <1>1 DEF RunnerStart, Accept, Close, Closable
<1>2. CASE RunnerSpawns
  BY <1>2 DEF RunnerSpawns, Spawn
<1>3. CASE RunnerRecords
  BY <1>3 DEF RunnerRecords, Record
<1>4. CASE RunnerLoses
  BY <1>4 DEF RunnerLoses
<1>5. CASE RunnerStops
  BY <1>5 DEF RunnerStops
<1>6. CASE RunnerKills
  BY <1>6 DEF RunnerKills, Exit
<1>7. CASE RunnerCloses
  BY <1>7 DEF RunnerCloses, Close, Closable
<1>8. CASE RunnerGivesUp
  BY <1>8 DEF RunnerGivesUp
<1>9. QED
  BY <1>1, <1>2, <1>3, <1>4, <1>5, <1>6, <1>7, <1>8 DEF Runner

\* The end of a VM, a crash or a reboot keeps the types ...
LEMMA FailureTypes ==
    ASSUME TypeOK, StepInv, Failure
    PROVE  TypeOK'
PROOF
<1> USE LifecycleAssumption
    DEF contract, control, wire, Goto, Return, Begin, States, Ops, Steps, TypeOK
<1>1. CASE VMExit
  BY <1>1 DEF VMExit, Exit
<1>2. CASE Crash
  BY <1>2 DEF Crash
<1>3. CASE HostReboot
  BY <1>3 DEF HostReboot, Reboot
<1>4. QED
  BY <1>1, <1>2, <1>3 DEF Failure

\* ... and the inductive invariant.
LEMMA FailureInv ==
    ASSUME TypeOK, TypeOK', IInv, Failure
    PROVE  IInv'
PROOF
<1> USE LifecycleAssumption
    DEF contract, control, wire, Goto, Return, Begin, RuntimeAlive, Active, TypeOK,
        IInv, RunnerInv, NetInv, StepInv, RowInv, IntentInv,
        StoppedMeansGone, SupersededAreClosed, StopHolds, Gone, MayRun, Open
<1>1. CASE VMExit
  BY <1>1 DEF VMExit, Exit
<1>2. CASE Crash
  BY <1>2 DEF Crash
<1>3. CASE HostReboot
  BY <1>3 DEF HostReboot, Reboot
<1>4. QED
  BY <1>1, <1>2, <1>3 DEF Failure

-----------------------------------------------------------------------------
(* The theorems *)

\* Types and inductive invariant hold in the initial states.
LEMMA InitInv == Init => TypeOK /\ IInv
PROOF
<1> SUFFICES ASSUME Init PROVE TypeOK /\ IInv
  OBVIOUS
<1>1. TypeOK
  BY LifecycleAssumption DEF Init, CInit, TypeOK, States, Ops, Steps
<1>2. IInv
  BY <1>1, LifecycleAssumption
     DEF Init, CInit, TypeOK, IInv, RunnerInv, NetInv, StepInv, RowInv, IntentInv,
         StoppedMeansGone, SupersededAreClosed, StopHolds, Gone, MayRun, Open
<1>3. QED
  BY <1>1, <1>2

\* Every step of the control plane, the runner or a failure keeps both.
LEMMA NextInv == TypeOK /\ IInv /\ [Next]_vars => TypeOK' /\ IInv'
PROOF
<1> SUFFICES ASSUME TypeOK, IInv, [Next]_vars PROVE TypeOK' /\ IInv'
  OBVIOUS
<1>1. CASE UNCHANGED vars
  BY <1>1 DEF vars, contract, control, wire, TypeOK, IInv, RunnerInv, NetInv, StepInv,
     RowInv, IntentInv, StoppedMeansGone, SupersededAreClosed, StopHolds, Gone, MayRun, Open
<1>2. StepInv
  BY DEF IInv
<1>3. CASE Next
  <2>1. TypeOK'
    BY <1>2, <1>3, CommandTypes, BackgroundTypes, ResolutionTypes, StartStepTypes,
       StopStepTypes, ReconcileStepTypes, DeleteStepTypes, RunnerTypes, FailureTypes
       DEF Next, Step
  <2>2. IInv'
    BY <1>3, <2>1, CommandInv, BackgroundInv, ResolutionInv, StartStepInv,
       StopStepInv, ReconcileStepInv, DeleteStepInv, RunnerInvariant, FailureInv
       DEF Next, Step
  <2>3. QED
    BY <2>1, <2>2
<1>4. QED
  BY <1>1, <1>3

\* The control plane, the runner and their calls keep their types, and the
\* inductive invariant holds in every reachable state.
THEOREM LifecycleInvariant == Spec => [](TypeOK /\ IInv)
PROOF
  BY InitInv, NextInv, PTL DEF Spec

\* The network helpers never take tap and rules away under a VM, whatever the
\* order of late starts, crashes and cleanups.
THEOREM NetworkStaysUnderVM == Spec => []NetworkUnderVM
PROOF
<1>1. TypeOK /\ IInv => NetworkUnderVM
  BY DEF IInv, NetInv, MayRun, NetworkUnderVM
<1>2. QED
  BY <1>1, LifecycleInvariant, PTL

\* A row that says that nothing runs is the truth, and stays so when start calls
\* that are still under way reach the runner.
THEOREM StoppedIsTrue == Spec => []StoppedMeansGone
PROOF
<1>1. TypeOK /\ IInv => StoppedMeansGone
  BY DEF IInv
<1>2. QED
  BY <1>1, LifecycleInvariant, PTL

\* Whatever request IDs the row no longer names are closed at the runner.
THEOREM SupersededStayClosed == Spec => []SupersededAreClosed
PROOF
<1>1. TypeOK /\ IInv => SupersededAreClosed
  BY DEF IInv
<1>2. QED
  BY <1>1, LifecycleInvariant, PTL

\* Only a user's command takes back a stop or a delete.
THEOREM IntentHolds == Spec => []StopHolds
PROOF
<1>1. TypeOK /\ IInv => StopHolds
  BY DEF IInv
<1>2. QED
  BY <1>1, LifecycleInvariant, PTL
=============================================================================

