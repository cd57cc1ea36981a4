----------------------------- MODULE Lifecycle -----------------------------
(***************************************************************************)
(* One instance as the control plane sees it: its row in the store, its    *)
(* tap device and NAT rules, and the runner that starts and stops its VM.  *)
(* The operations are those of the provisioner (new, start, stop, restart, *)
(* delete, the reconciliation of list and inspect, the background sweep,   *)
(* the pass over all instances at startup), each broken where a crash, a   *)
(* lost answer or the end of the VM can fall.                              *)
(*                                                                         *)
(* The service's instance lock is held for a whole operation, so at most   *)
(* one is in progress: op, pc.  Calls to the runner outlive their caller.  *)
(* The runner is RunnerContract, which StartReceipts implements.           *)
(*                                                                         *)
(* Left out: disk contents, capacity checks and pools (a start may be      *)
(* refused at any time), migration and upgrade fences, PID reuse.          *)
(***************************************************************************)
EXTENDS RunnerContract

CONSTANT None

ASSUME LifecycleAssumption == None \notin Attempts /\ Procs = Attempts

VARIABLES
    row,     \* [st, pid, req, joined]: the columns of the instances table
    net,     \* the tap device and its rules are in place
    op,      \* the operation that holds the instance lock
    pc,      \* its next step
    again,   \* what follows a completed stop: "start" or "nothing"
    pass,    \* startup pass: pending | done
    calls,   \* start calls under way to the runner
    hold,    \* the attempt whose start or stop handler has the runner's name
    halting, \* a stop call is under way to the runner for this attempt
    issued,  \* history: attempts whose request ID was stored
    want     \* history: "down" since a user's stop or delete, "up" since a host
             \* reboot hit a running VM, else "any"

control == <<op, pc, again, pass>>
wire    == <<calls, hold, halting>>
vars    == <<contract, row, net, control, wire, issued, want>>

States == {"none", "provisioning", "awaiting", "ready", "stopping", "stopped",
           "failed", "deleting", "deleted"}
Ops    == {"none", "create", "start", "stop", "delete", "look", "sweep", "restore"}
Steps  == {"idle", "resolve", "decide", "unplugOld", "plug", "issue", "call", "await",
           "ready", "halt", "wait", "unplug", "settle", "prove", "finalize"}
Active == {"provisioning", "awaiting", "ready"}

TypeOK ==
    /\ receipt \in [Attempts -> {"none", "accepted", "started", "closed"}]
    /\ live \subseteq Attempts /\ spawned \subseteq Attempts /\ old \subseteq issued
    /\ row \in [st : States, pid : Attempts \cup {None}, req : Attempts \cup {None},
                joined : BOOLEAN]
    /\ row.req \in issued \cup {None} /\ row.pid \in {None, row.req}
    /\ net \in BOOLEAN
    /\ op \in Ops /\ pc \in Steps /\ (pc = "idle" <=> op = "none")
    /\ again \in {"start", "nothing"} /\ pass \in {"pending", "done"}
    /\ calls \subseteq issued /\ issued \subseteq Attempts
    /\ hold \in issued \cup {None} /\ halting \in issued \cup {None}
    /\ want \in {"any", "up", "down"}

Init ==
    /\ CInit
    /\ row = [st |-> "none", pid |-> None, req |-> None, joined |-> FALSE]
    /\ net = FALSE
    /\ op = "none" /\ pc = "idle" /\ again = "nothing" /\ pass = "pending"
    /\ calls = {} /\ hold = None /\ halting = None
    /\ issued = {} /\ want = "any"

\* The instance lock is held from Begin to Return.
Goto(step) == pc' = step /\ UNCHANGED <<op, again, pass>>

Return == pc' = "idle" /\ op' = "none" /\ again' = "nothing" /\ UNCHANGED pass
Begin(o, step, a) ==
    /\ op = "none"
    /\ op' = o /\ pc' = step /\ again' = a
    /\ UNCHANGED pass

\* The VM the row points to runs.
RuntimeAlive == row.pid # None /\ row.pid \in live

-----------------------------------------------------------------------------
(* What the runner answers about an attempt *)

AnswersRunning(a) ==
    /\ hold = None
    /\ receipt[a] = "started" /\ a \in live
    /\ UNCHANGED contract

AnswersAbsent(a) ==
    /\ hold = None
    /\ live = {} /\ Open \subseteq {a}
    /\ \/ receipt[a] = "closed" /\ UNCHANGED contract
       \/ Close(a)

\* No answer, a refusal, or a launch of unknown outcome; the runner may have
\* closed the attempt all the same.
AnswersUnknown(a) ==
    \/ UNCHANGED contract
    \/ hold = None /\ Close(a)

-----------------------------------------------------------------------------
(* resolveRuntime: called under the instance lock before any decision *)

ResolveSkips ==
    /\ pc = "resolve" /\ op # "delete"
    /\ row.req = None \/ row.st = "deleted"
    /\ Goto("decide")
    /\ UNCHANGED <<contract, row, net, wire, issued, want>>

\* Mutant: a start that turns out to run takes the row back from a stop.
RunningRowOverrides == [row EXCEPT !.pid = row.req, !.st = "awaiting"]

\* Mutant: the row learns the PID but not that the start is over.
RunningRowKeeps == [row EXCEPT !.pid = row.req]

RunningRow ==
    [row EXCEPT !.pid = row.req, !.st = IF @ = "provisioning" THEN "awaiting" ELSE @]

ResolveRunning ==
    /\ pc = "resolve" /\ op # "delete"
    /\ row.req # None
    /\ AnswersRunning(row.req)
    /\ row.st \notin {"stopped", "failed"}
    /\ row' = RunningRow
    /\ Goto("decide")
    /\ UNCHANGED <<net, wire, issued, want>>

\* An absent runtime releases the network before the row says so.
AbsentRow ==
    [row EXCEPT !.pid = None,
                !.st = IF @ \in {"stopping", "deleting"} THEN @
                       ELSE IF row.joined THEN "stopped" ELSE "failed"]

ResolveAbsent ==
    /\ pc = "resolve" /\ op # "delete"
    /\ row.req # None
    /\ AnswersAbsent(row.req)
    /\ IF row.pid # None \/ row.st \in Active
       THEN net' = FALSE /\ row' = AbsentRow
       ELSE UNCHANGED <<net, row>>
    /\ Goto("decide")
    /\ UNCHANGED <<wire, issued, want>>

\* Mutant: an unknown outcome is treated as permission to clean up.
UncertainReleases(a) ==
    /\ AnswersUnknown(a)
    /\ net' = FALSE
    /\ UNCHANGED row

\* Unknown outcomes are never converted into permission to clean up.
Uncertain(a) ==
    /\ AnswersUnknown(a)
    /\ UNCHANGED <<net, row>>

\* Unknown, or a running attempt under a row that says stopped, or a failed
\* network cleanup or row write after an absent one.
ResolveFails ==
    /\ pc = "resolve" /\ op # "delete"
    /\ row.req # None
    /\ \/ Uncertain(row.req)
       \/ AnswersAbsent(row.req) /\ net' = FALSE /\ UNCHANGED row
    /\ Return
    /\ UNCHANGED <<wire, issued, want>>

-----------------------------------------------------------------------------
(* new, start *)

\* A failed incarnation is replaced once its last attempt is known to be gone.
Reusable ==
    /\ row.st \in {"none", "failed", "deleted"}
    /\ IF row.st = "failed" /\ row.req # None
       THEN AnswersAbsent(row.req) ELSE UNCHANGED contract

\* The row of a new incarnation, under admissionMu.  An orb needs no tailnet
\* identity to be restarted.
Create ==
    /\ Reusable
    /\ \E orb \in BOOLEAN :
          row' = [st |-> "provisioning", pid |-> None, req |-> None, joined |-> orb]
    /\ want' = "any"
    /\ Begin("create", "plug", "nothing")
    /\ UNCHANGED <<net, wire, issued>>

Start ==
    /\ row.st \notin {"none", "deleting", "deleted"}
    /\ want' = IF row.st = "stopping" THEN want ELSE "any"
    /\ Begin("start", "resolve", "nothing")
    /\ UNCHANGED <<contract, row, net, wire, issued>>

\* A running VM still awaiting its guest gets another readiness check.
StartFindsRuntime ==
    /\ pc = "decide" /\ op = "start"
    /\ RuntimeAlive
    /\ \/ row.st = "awaiting" /\ Goto("ready")
       \/ Return
    /\ UNCHANGED <<contract, row, net, wire, issued, want>>

\* Mutant: a dead process is enough; the second reconciliation is left out.
AdmissibleDead ==
    ~RuntimeAlive /\ row.st \notin {"provisioning", "stopping", "deleting", "deleted"}

\* A process seen dead was resolved again under admissionMu, which cleared pid.
Admissible ==
    row.pid = None /\ row.st \notin {"provisioning", "stopping", "deleting", "deleted"}

\* admissionMu: the row is read, resolved and set to provisioning as one.
AdmitStart ==
    /\ pc = "decide" /\ op = "start"
    /\ Admissible
    /\ row' = [row EXCEPT !.st = "provisioning", !.pid = None]
    /\ want' = IF want = "up" THEN "any" ELSE want
    /\ Goto("unplugOld")
    /\ UNCHANGED <<contract, net, wire, issued>>

\* Wrong state, or no capacity, disk, prerequisites or memory pool.
StartRefused ==
    /\ pc = "decide" /\ op = "start"
    /\ ~RuntimeAlive
    /\ Return
    /\ UNCHANGED <<contract, row, net, wire, issued, want>>

UnplugOld ==
    /\ pc = "unplugOld"
    /\ net' = FALSE
    /\ Goto("plug")
    /\ UNCHANGED <<contract, row, wire, issued, want>>

Plug ==
    /\ pc = "plug"
    /\ net' = TRUE
    /\ Goto("issue")
    /\ UNCHANGED <<contract, row, wire, issued, want>>

\* The attempt is stored before the runner hears of it.  A start also stores
\* the tailnet identity it found.
Issue(a) ==
    /\ pc = "issue"
    /\ a \notin issued
    /\ issued' = issued \cup {a}
    /\ row' = [row EXCEPT !.req = a, !.joined = @ \/ op = "start"]
    /\ Goto("call")
    /\ UNCHANGED <<contract, net, wire, want>>

Call ==
    /\ pc = "call"
    /\ calls' = calls \cup {row.req}
    /\ Goto("await")
    /\ UNCHANGED <<contract, row, net, hold, halting, issued, want>>

\* The deferred cleanup of a start that left no runtime.  Everything it does
\* is best effort.
Failed ==
    /\ net' \in {net, FALSE}
    /\ \E joined \in {row.joined, op = "start" \/ row.joined} :
          row' \in {row, [row EXCEPT !.pid = None, !.joined = joined,
                                     !.st = IF op = "create" THEN "failed" ELSE "stopped"]}
    /\ Return

StartFails ==
    /\ pc \in {"unplugOld", "plug", "issue"}
    /\ Failed
    /\ UNCHANGED <<contract, wire, issued, want>>

\* The write of a new request ID fails, and the cleanup stores the ID after all.
IssueFails(a) ==
    /\ pc = "issue"
    /\ a \notin issued
    /\ issued' = issued \cup {a}
    /\ net' \in {net, FALSE}
    /\ row' = [row EXCEPT !.pid = None, !.req = a, !.joined = @ \/ op = "start",
                          !.st = IF op = "create" THEN "failed" ELSE "stopped"]
    /\ Return
    /\ UNCHANGED <<contract, wire, want>>

\* Either the start call or, after an error, startResult says running.
StartAnswered ==
    /\ pc = "await"
    /\ AnswersRunning(row.req)
    /\ \/ /\ row' = [row EXCEPT !.pid = row.req, !.st = "awaiting"]
          /\ Goto("ready")
       \/ UNCHANGED row /\ Return
    /\ UNCHANGED <<net, wire, issued, want>>

StartAbsent ==
    /\ pc = "await"
    /\ AnswersAbsent(row.req)
    /\ Failed
    /\ UNCHANGED <<wire, issued, want>>

\* errStartUncertain: everything stays for reconciliation to resolve.
StartUncertain ==
    /\ pc = "await"
    /\ Uncertain(row.req)
    /\ Return
    /\ UNCHANGED <<wire, issued, want>>

\* Enrolment, the tailnet peer and the session of an orb: whatever is waited for,
\* only a live runtime is ever seen.
GuestSeen == RuntimeAlive

\* The guest was seen, and the runtime is the same before and after.
Ready ==
    /\ pc = "ready"
    /\ GuestSeen
    /\ row' = [row EXCEPT !.st = "ready", !.joined = TRUE]
    /\ Return
    /\ UNCHANGED <<contract, net, wire, issued, want>>

NotReady ==
    /\ pc = "ready"
    /\ Return
    /\ UNCHANGED <<contract, row, net, wire, issued, want>>

-----------------------------------------------------------------------------
(* stop, restart *)

Stoppable == row.st \notin {"none", "deleting", "deleted", "stopped"}

\* Intent first: a timed-out call may still be shutting the guest down.
StopIntent == row' = [row EXCEPT !.st = "stopping"]

Stop ==
    /\ Stoppable
    /\ StopIntent
    /\ want' = "down"
    /\ Begin("stop", "resolve", "nothing")
    /\ UNCHANGED <<contract, net, wire, issued>>

Restart ==
    /\ Stoppable
    /\ StopIntent
    /\ want' = "any"
    /\ Begin("stop", "resolve", "start")
    /\ UNCHANGED <<contract, net, wire, issued>>

StopDecides ==
    /\ pc = "decide" /\ op = "stop"
    /\ Goto("halt")
    /\ UNCHANGED <<contract, row, net, wire, issued, want>>

\* The call to the runner; without an attempt there is nothing to stop.
Halt ==
    /\ pc = "halt"
    /\ halting' = IF row.req = None THEN halting ELSE row.req
    /\ Goto("wait")
    /\ UNCHANGED <<contract, row, net, calls, hold, issued, want>>

\* Mutant: a stop call that times out counts as done.
HaltedUnconfirmed == TRUE

Halted == row.req # None => receipt[row.req] = "closed"

HaltReturns ==
    /\ pc = "wait"
    /\ Halted
    /\ Goto(IF op = "delete" THEN "prove" ELSE "unplug")
    /\ UNCHANGED <<contract, row, net, wire, issued, want>>

\* The runner refuses, or 20 seconds pass while it goes on working.
HaltFails ==
    /\ pc = "wait"
    /\ Return
    /\ UNCHANGED <<contract, row, net, wire, issued, want>>

Unplug ==
    /\ pc = "unplug"
    /\ net' = FALSE
    /\ Goto("settle")
    /\ UNCHANGED <<contract, row, wire, issued, want>>

Settle ==
    /\ pc = "settle"
    /\ row' = [row EXCEPT !.st = "stopped", !.pid = None]
    /\ IF again = "start"
       THEN op' = "start" /\ pc' = "resolve" /\ again' = "nothing" /\ UNCHANGED pass
       ELSE Return
    /\ UNCHANGED <<contract, net, wire, issued, want>>

\* A helper or the store fails: the row keeps the intent.
StopFails ==
    /\ pc \in {"unplug", "settle"}
    /\ Return
    /\ UNCHANGED <<contract, row, net, wire, issued, want>>

-----------------------------------------------------------------------------
(* list, inspect, the sweep, the startup pass *)

\* ReconcileInstanceRuntime; refused behind a cleanup fence.
Look ==
    /\ row.st \notin {"none", "deleting", "deleted"}
    /\ Begin("look", "resolve", "nothing")
    /\ UNCHANGED <<contract, row, net, wire, issued, want>>

\* Every 30 seconds once the startup pass is over; a deletion is resumed by Delete.
Sweep ==
    /\ pass = "done"
    /\ row.st \notin {"none", "deleting", "deleted"}
    /\ Begin("sweep", "resolve", "nothing")
    /\ UNCHANGED <<contract, row, net, wire, issued, want>>

\* The process can exit just after resolution: the runner confirms it first.
RuntimeExited ==
    /\ pc = "decide" /\ op \in {"look", "sweep", "start"}
    /\ row.st \in Active /\ row.pid # None /\ ~RuntimeAlive
    /\ Goto("resolve")
    /\ UNCHANGED <<contract, row, net, wire, issued, want>>

\* The serial log shows that the guest halted.
GuestHalted ==
    /\ pc = "decide" /\ op \in {"look", "sweep", "start"}
    /\ row.st \in Active /\ RuntimeAlive
    /\ StopIntent
    /\ op' = "stop" /\ pc' = "resolve" /\ UNCHANGED pass
    /\ again' = IF op = "start" THEN "start" ELSE "nothing"
    /\ UNCHANGED <<contract, net, wire, issued, want>>

LookReturns ==
    /\ pc = "decide" /\ op \in {"look", "sweep"}
    /\ row.st \in Active => (row.pid = None \/ RuntimeAlive)
    /\ op = "sweep" => row.st \notin {"stopping", "awaiting"}
    /\ Return
    /\ UNCHANGED <<contract, row, net, wire, issued, want>>

\* Mutant: the sweep resumes readiness checks only.
SweepResumesReady ==
    /\ pc = "decide" /\ op = "sweep"
    /\ row.st \in {"stopping", "awaiting"}
    /\ IF row.st = "awaiting" THEN Goto("ready") ELSE Return
    /\ UNCHANGED <<contract, row, net, wire, issued, want>>

SweepResumes ==
    /\ pc = "decide" /\ op = "sweep"
    /\ \/ /\ row.st = "stopping"
          /\ op' = "stop" /\ pc' = "resolve" /\ UNCHANGED <<again, pass>>
       \/ row.st = "awaiting" /\ Goto("ready")
    /\ UNCHANGED <<contract, row, net, wire, issued, want>>

\* shouldAutoStartAfterStartup, decided on the row as the last run left it.
AutoStart == row.st \notin {"deleted", "deleting", "failed", "stopped", "stopping"}

Restore ==
    /\ pass = "pending"
    /\ op = "none"
    /\ pass' = "done"
    /\ IF row.st \in {"none", "deleted"}
       THEN UNCHANGED <<op, pc, again>>
       ELSE op' = "restore" /\ pc' = "resolve" /\ again' = IF AutoStart THEN "start" ELSE "nothing"
    /\ UNCHANGED <<contract, row, net, wire, issued, want>>

\* Resumed by the sweep, or still running: nothing for the startup pass to do.
RestoreSettled == row.st \in {"stopping", "deleting"} \/ RuntimeAlive

RestoreLeaves ==
    /\ pc = "decide" /\ op = "restore"
    /\ RestoreSettled \/ (row.pid = None /\ ~(again = "start" /\ row.joined))
    /\ Return
    /\ UNCHANGED <<contract, row, net, wire, issued, want>>

\* A dead process, or a halted guest, is stopped first.
RestoreStops ==
    /\ pc = "decide" /\ op = "restore"
    /\ row.st \notin {"stopping", "deleting"} /\ row.pid # None
    /\ StopIntent
    /\ op' = "stop" /\ pc' = "resolve" /\ UNCHANGED pass
    /\ again' = IF row.joined THEN again ELSE "nothing"
    /\ UNCHANGED <<contract, net, wire, issued, want>>

RestoreStarts ==
    /\ pc = "decide" /\ op = "restore"
    /\ ~RestoreSettled /\ row.pid = None
    /\ again = "start" /\ row.joined
    /\ op' = "start" /\ pc' = "resolve" /\ again' = "nothing" /\ UNCHANGED pass
    /\ UNCHANGED <<contract, row, net, wire, issued, want>>

-----------------------------------------------------------------------------
(* delete *)

\* BeginCleanup puts up the fence.
Delete ==
    /\ row.st \notin {"none", "deleted"}
    /\ row' = [row EXCEPT !.st = "deleting"]
    /\ want' = "down"
    /\ Begin("delete", "resolve", "nothing")
    /\ UNCHANGED <<contract, net, wire, issued>>

\* The sweep runs the same engine again.
SweepDeletes == pass = "done" /\ row.st = "deleting" /\ Delete

\* startResult alone: no network cleanup before the runtime is proved absent.
DeleteResolves ==
    /\ pc = "resolve" /\ op = "delete"
    /\ row.req # None
    /\ AnswersRunning(row.req) \/ AnswersAbsent(row.req)
    /\ Goto("halt")
    /\ UNCHANGED <<row, net, wire, issued, want>>

DeleteUncertain ==
    /\ pc = "resolve" /\ op = "delete"
    /\ row.req # None
    /\ Uncertain(row.req)
    /\ Return
    /\ UNCHANGED <<wire, issued, want>>

DeleteSkips ==
    /\ pc = "resolve" /\ op = "delete"
    /\ row.req = None
    /\ Goto("halt")
    /\ UNCHANGED <<contract, row, net, wire, issued, want>>

\* VerifyInstanceAbsent: the runner vouches for the whole name.
Prove ==
    /\ pc = "prove"
    /\ hold = None /\ live = {} /\ Open = {}
    /\ Goto("finalize")
    /\ UNCHANGED <<contract, row, net, wire, issued, want>>

\* FinalizeInstanceNetwork, removal of the disk, CommitCleanup.
Finalize ==
    /\ pc = "finalize"
    /\ net' = FALSE
    /\ row' = [row EXCEPT !.st = "deleted", !.pid = None]
    /\ Return
    /\ UNCHANGED <<contract, wire, issued, want>>

\* A step fails, the last ones perhaps after the network is gone.
DeleteFails ==
    /\ pc \in {"prove", "finalize"}
    /\ net' \in IF pc = "prove" THEN {net} ELSE {net, FALSE}
    /\ Return
    /\ UNCHANGED <<contract, row, wire, issued, want>>

-----------------------------------------------------------------------------
(* The runner works through the calls it was sent, whoever still listens *)

RunnerStart(a) ==
    /\ a \in calls /\ hold = None
    /\ calls' = calls \ {a}
    /\ \/ Accept(a) /\ hold' = a
       \/ receipt[a] = "none" /\ Close(a) /\ UNCHANGED hold
       \/ UNCHANGED <<contract, hold>>
    /\ UNCHANGED <<row, net, control, halting, issued, want>>

RunnerSpawns ==
    /\ hold # None
    /\ Spawn(hold)
    /\ UNCHANGED <<row, net, control, wire, issued, want>>

RunnerRecords ==
    /\ hold # None
    /\ Record(hold)
    /\ hold' = None
    /\ UNCHANGED <<row, net, control, calls, halting, issued, want>>

\* Quarantined: accepted, and nobody will ever say more.
RunnerLoses ==
    /\ hold # None /\ receipt[hold] = "accepted"
    /\ hold' = None
    /\ UNCHANGED <<contract, row, net, control, calls, halting, issued, want>>

\* The stop handler takes the name; it has nothing to do for a closed attempt.
RunnerStops ==
    /\ halting # None /\ hold = None
    /\ halting' = None
    /\ hold' = IF receipt[halting] = "started" THEN halting ELSE None
    /\ UNCHANGED <<contract, row, net, control, calls, issued, want>>

RunnerKills ==
    /\ hold # None /\ receipt[hold] = "started"
    /\ Exit(hold)
    /\ UNCHANGED <<row, net, control, wire, issued, want>>

RunnerCloses ==
    /\ hold # None /\ receipt[hold] = "started"
    /\ Close(hold)
    /\ hold' = None
    /\ UNCHANGED <<row, net, control, calls, halting, issued, want>>

\* The stop handler gives up, or the runner restarts.
RunnerGivesUp ==
    /\ hold # None /\ receipt[hold] = "started"
    /\ hold' = None
    /\ UNCHANGED <<contract, row, net, control, calls, halting, issued, want>>

-----------------------------------------------------------------------------
(* Failures *)

VMExit ==
    /\ \E a \in Attempts : Exit(a)
    /\ UNCHANGED <<row, net, control, wire, issued, want>>

\* The control plane dies; the runner and the VMs do not notice.
Crash ==
    /\ op' = "none" /\ pc' = "idle" /\ again' = "nothing" /\ pass' = "pending"
    /\ UNCHANGED <<contract, row, net, wire, issued, want>>

HostReboot ==
    /\ want' = IF row.st \in {"awaiting", "ready"} /\ row.joined /\ RuntimeAlive
                  /\ op = "none" THEN "up" ELSE want
    /\ Reboot(issued)
    /\ net' = FALSE
    /\ calls' = {} /\ hold' = None /\ halting' = None
    /\ op' = "none" /\ pc' = "idle" /\ again' = "nothing" /\ pass' = "pending"
    /\ UNCHANGED <<row, issued>>

-----------------------------------------------------------------------------
Command == Create \/ Start \/ Stop \/ Restart \/ Delete \/ Look
Background == Sweep \/ SweepDeletes \/ Restore

Resolution == ResolveSkips \/ ResolveRunning \/ ResolveAbsent \/ ResolveFails

StartStep ==
    \/ StartFindsRuntime \/ AdmitStart \/ StartRefused \/ UnplugOld \/ Plug
    \/ \E a \in Attempts : Issue(a) \/ IssueFails(a)
    \/ Call \/ StartFails \/ StartAnswered \/ StartAbsent \/ StartUncertain
    \/ Ready \/ NotReady

StopStep == StopDecides \/ Halt \/ HaltReturns \/ HaltFails \/ Unplug \/ Settle \/ StopFails

ReconcileStep ==
    \/ RuntimeExited \/ GuestHalted \/ LookReturns \/ SweepResumes
    \/ RestoreLeaves \/ RestoreStops \/ RestoreStarts

DeleteStep ==
    DeleteResolves \/ DeleteUncertain \/ DeleteSkips \/ Prove \/ Finalize \/ DeleteFails

Step == Resolution \/ StartStep \/ StopStep \/ ReconcileStep \/ DeleteStep

Runner ==
    \/ \E a \in Attempts : RunnerStart(a)
    \/ RunnerSpawns \/ RunnerRecords \/ RunnerLoses
    \/ RunnerStops \/ RunnerKills \/ RunnerCloses \/ RunnerGivesUp

Failure == VMExit \/ Crash \/ HostReboot

Next == Command \/ Background \/ Step \/ Runner \/ Failure

Spec == Init /\ [][Next]_vars

(* The goroutines of the service and the runner are scheduled, and the      *)
(* startup pass and the 30-second sweep recur.  From some time on nothing   *)
(* disturbs them: no command, no failure, no helper that gives an error     *)
(* where it could have answered.  Before that time everything may go wrong. *)
Answerable(a) == hold # None \/ receipt[a] # "accepted" \/ a \in old

Error ==
    \/ (ResolveFails \/ StartUncertain \/ DeleteUncertain) /\ Answerable(row.req)
    \/ HaltFails /\ (Halted \/ halting # None \/ hold # None)
    \/ StopFails \/ DeleteFails \/ RunnerGivesUp

ServiceMoves == Step /\ ~Error
RunnerMoves  == Runner /\ ~Error

Fairness ==
    /\ WF_vars(ServiceMoves) /\ WF_vars(RunnerMoves)
    /\ WF_vars(Restore) /\ WF_vars(Sweep)
    /\ <>[][Background \/ ServiceMoves \/ RunnerMoves]_vars

FairSpec == Spec /\ Fairness

-----------------------------------------------------------------------------
(* Properties *)

\* The tap device and its rules are never taken away from a running VM, however
\* late the runner executes a start and however an operation was cut off.
NetworkUnderVM == live # {} => net

\* A row that says stopped, failed or deleted is the truth: no VM runs, no
\* attempt is open, and no start call still under way can launch one.  Deleted
\* also means that the network is gone.
StoppedMeansGone ==
    /\ row.st \in {"none", "stopped", "failed", "deleted"} =>
          /\ live = {} /\ Open = {}
          /\ \A a \in calls : receipt[a] = "closed"
    /\ row.st = "deleted" => ~net

\* A row forgets a request ID only after the runner closed that attempt, so that
\* nothing the row no longer names can run or block the name.
SupersededAreClosed ==
    \A a \in issued \ {row.req} :
        a \notin live /\ receipt[a] \in {"none", "closed"} /\ (a \in calls => receipt[a] = "closed")

\* A stop or delete that a user began outlives crashes, host reboots, late start
\* answers and the startup pass; only another user command undoes a stop.
StopHolds == want = "down" => row.st \in {"stopping", "stopped", "deleting", "deleted"}

\* Accepted on this boot, with no handler left to say how the launch ended.
Quarantined ==
    row.req # None /\ receipt[row.req] = "accepted" /\ row.req \notin old /\ hold # row.req

\* An interrupted stop is finished by the sweep, unless the launch it would have
\* to stop is quarantined.
StopCompletes == row.st = "stopping" ~> (row.st # "stopping" \/ Quarantined)

\* A start of unknown outcome does not stay "provisioning": reconciliation finds
\* out whether it runs, unless it is quarantined.
StartIsResolved ==
    (row.st = "provisioning" /\ row.req # None) ~> (row.st # "provisioning" \/ Quarantined)

\* Instances that ran when the host went down are still due for the automatic
\* restart until the startup pass has looked at them.
StillDueForRestart == want = "up" /\ pass = "pending" => row.st \notin {"stopped", "failed"}

-----------------------------------------------------------------------------
(* The inductive invariant behind the safety properties *)

\* Nothing runs, nothing is open, and no call under way can change that.
Gone == live = {} /\ Open = {} /\ \A a \in calls : receipt[a] = "closed"

\* The runner knows issued attempts only, and runs what it has open; the handler
\* that has the name works on an open attempt.
RunnerInv ==
    /\ live \subseteq Open
    /\ \A a \in Attempts : receipt[a] # "none" => a \in issued
    /\ hold # None => hold \in Open

\* A VM runs, or a launch that was accepted or is still to be accepted may bring
\* one up.
MayRun ==
    \/ live # {}
    \/ hold # None /\ receipt[hold] = "accepted"
    \/ \E a \in calls : receipt[a] = "none"

NetInv == MayRun \/ pc \in {"issue", "call"} => net

\* The steps that replace the attempt, release the network or write that nothing
\* runs find that so.
StepInv ==
    /\ pc \in {"unplugOld", "plug", "issue", "call", "await"} =>
          row.st = "provisioning" /\ row.pid = None /\ op \in {"create", "start"}
    /\ pc \in {"unplugOld", "plug", "issue", "call", "unplug", "settle", "prove",
               "finalize"} => Gone
    /\ pc \in {"call", "await"} => row.req # None
    /\ pc = "call" => receipt[row.req] = "none" /\ row.req \notin calls
    /\ pc = "ready" => row.st = "awaiting"

RowInv ==
    /\ row.st \in {"awaiting", "ready"} => row.pid # None
    /\ row.st \in {"none", "stopped", "failed", "deleted"} => row.pid = None

\* A stop that a user asked for is not followed by a start.
IntentInv ==
    want = "down" =>
        /\ again = "nothing"
        /\ op = "start" => row.st = "stopping"
        /\ op = "create" => FALSE

IInv ==
    /\ RunnerInv /\ NetInv /\ StepInv /\ RowInv /\ IntentInv
    /\ StoppedMeansGone /\ SupersededAreClosed /\ StopHolds
=============================================================================
