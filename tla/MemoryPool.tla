----------------------------- MODULE MemoryPool -----------------------------
(***************************************************************************)
(* Host memory: the reservation of a memory pool in the store, the limit   *)
(* of its cgroup at the runner, its members, and the VMs with memory of    *)
(* their own (internal/provision/provision.go, internal/store/sqlite.go,   *)
(* internal/vmrunner/pools.go).  One pool name, under which pools with     *)
(* different IDs may exist one after the other.                            *)
(*                                                                         *)
(* Admission decisions are made under admissionMu and are one step, except *)
(* that the resize and the deletion of a pool keep it across their call to *)
(* the runner, and the resize of an instance gives it up in its middle.    *)
(* Calls to resize and delete a pool may reach the runner late and twice;  *)
(* a late deletion may come between the preparation of a pool's directory  *)
(* and the launch of the VM it was prepared for.                           *)
(*                                                                         *)
(* Of an instance's life only what admission looks at is kept: an awaiting *)
(* row is provisioning, a deletion passes through stopping.  A start       *)
(* call that was not answered is under way as long as the row says         *)
(* provisioning: Lifecycle shows that a row leaves that state only when    *)
(* the runner has closed or launched the attempt.  Sizes are small units;  *)
(* memory usage is free, so that any shrink may find the pool too busy.    *)
(***************************************************************************)
EXTENDS Integers, FiniteSets

CONSTANTS
    Pools,      \* pool IDs
    Insts,      \* instances
    Reqs,       \* request IDs of pool resizes
    MaxSize,    \* bound: largest pool and guest explored
    Budget,     \* host memory less the host's own reserve
    Overhead,   \* what a VM with fixed memory costs on top of its RAM
    None

ASSUME PoolAssumption ==
    /\ IsFiniteSet(Insts)
    /\ None \notin Pools /\ None \notin Reqs
    /\ MaxSize \in Nat \ {0} /\ Budget \in Nat /\ Overhead \in Nat

Sizes == 1..MaxSize
NoDir == 0                  \* the pool has no cgroup directory
Unlimited == MaxSize + 1    \* memory.max of a new directory

VARIABLES
    pool,      \* ID of the pool with the name, or None
    reserved,  \* reserved_bytes of its row
    pending,   \* memory_pool_resizes: [req, size, running], req None if no row
    mu,        \* admissionMu: free | begun | resize | delete | deleted
    inst,      \* [st, mem, pool]: rows of the instances; pool None is fixed memory
    change,    \* the new mem and pool while an instance is resized, or same
    start,     \* start calls: [at: none | called | prepared | live, size];
               \*   size is the MemoryPoolSizeBytes of a call that has not launched
    limit,     \* memory.max of the pool's cgroup
    lost,      \* kept for the properties: the directory was removed under a
               \*   prepared start, and no limit has been written since
    receipt,   \* resize receipts: none | seen | done | rejected
    args,      \* size and running of each resize request
    sent,      \* resize calls the runner may still get
    late,      \* a deletion that its caller gave up may still reach the runner
    spent      \* pool IDs that were used

store  == <<pool, reserved, pending, spent>>
rows   == <<inst, change, start>>
runner == <<limit, lost, receipt>>
calls  == <<args, sent, late>>
vars   == <<store, mu, rows, runner, calls>>

NoOp == [req |-> None, size |-> 0, running |-> FALSE]
Ops  == {NoOp} \cup [req : Reqs, size : Sizes, running : BOOLEAN]
NoRow == [st |-> "none", mem |-> 0, pool |-> None]
Idle == [at |-> "none", size |-> 0]
Live == [at |-> "live", size |-> 0]
Same == [mem |-> 0, pool |-> None]
States == {"none", "importing", "provisioning", "ready", "stopping", "stopped", "failed"}

TypeOK ==
    /\ pool \in Pools \cup {None} /\ spent \subseteq Pools
    /\ reserved \in 0..MaxSize
    /\ pending \in Ops
    /\ mu \in {"free", "begun", "resize", "delete", "deleted"}
    /\ inst \in [Insts -> [st : States, mem : 0..MaxSize, pool : Pools \cup {None}]]
    /\ change \in [Insts -> [mem : 0..MaxSize, pool : Pools \cup {None}]]
    /\ start \in [Insts -> [at : {"none", "called", "prepared", "live"}, size : 0..MaxSize]]
    /\ limit \in 0..Unlimited
    /\ receipt \in [Reqs -> {"none", "seen", "done", "rejected"}]
    /\ args \in [Reqs -> Ops] /\ sent \subseteq Reqs
    /\ late \in BOOLEAN /\ lost \in BOOLEAN

Init ==
    /\ pool = None /\ spent = {} /\ reserved = 0 /\ pending = NoOp /\ mu = "free"
    /\ inst = [i \in Insts |-> NoRow]
    /\ change = [i \in Insts |-> Same]
    /\ start = [i \in Insts |-> Idle]
    /\ limit = NoDir /\ lost = FALSE /\ receipt = [r \in Reqs |-> "none"]
    /\ args = [r \in Reqs |-> NoOp] /\ sent = {} /\ late = FALSE

-----------------------------------------------------------------------------
(* Accounting *)

FixedMemoryLimit(m) == m + Overhead

Members == {i \in Insts : inst[i].st # "none" /\ inst[i].pool # None}

\* Rows with fixed memory that count against the host.
ReservesFixed(i) ==
    inst[i].pool = None /\ inst[i].st \in {"importing", "provisioning", "ready", "stopping"}

\* The sum of what the instances of S cost, counted unit by unit.
Units(S) ==
    {u \in S \X (1..FixedMemoryLimit(MaxSize)) : u[2] <= FixedMemoryLimit(inst[u[1]].mem)}
FixedMemory(S) == Cardinality(Units(S))

TotalReserved(except) ==
    FixedMemory({i \in Insts \ except : ReservesFixed(i)})
      + (IF pool = None THEN 0 ELSE reserved)

HostHasRoom(except, bytes) == TotalReserved(except) + bytes <= Budget

\* requireMemoryPoolByName and requireMemoryPoolForInstance.
RequirePool(p) == p = pool /\ pending = NoOp

\* ensureMemoryPoolSupportsGuestMemory.
SupportsGuest(m) == m <= reserved

-----------------------------------------------------------------------------
(* pool create, pool resize, pool delete *)

\* Mutant: a pool is created without asking what the host has left.
CreateMemoryPoolUnchecked(p, size) ==
    /\ mu = "free" /\ pool = None /\ p \notin spent
    /\ pool' = p /\ reserved' = size /\ spent' = spent \cup {p}
    /\ UNCHANGED <<pending, mu, rows, runner, calls>>

CreateMemoryPool(p, size) ==
    /\ mu = "free" /\ pool = None /\ p \notin spent
    /\ HostHasRoom({}, size)
    /\ pool' = p /\ reserved' = size /\ spent' = spent \cup {p}
    /\ UNCHANGED <<pending, mu, rows, runner, calls>>

\* Every member is settled and fits the new size.
Resizable(size) ==
    \A i \in Members : inst[i].st \in {"ready", "stopped"} /\ inst[i].mem <= size

\* Growth is reserved at once, a shrink is not released yet.
ReservedMeanwhile(size) == IF size > reserved THEN size ELSE reserved

GrowthFits(size) == size > reserved => HostHasRoom({}, size - reserved)

\* The fence and the reservation are stored before anything is sent.
BeginMemoryPoolResize(r, size) ==
    /\ mu = "free" /\ pool # None /\ pending = NoOp /\ args[r] = NoOp
    /\ Resizable(size)
    /\ GrowthFits(size)
    /\ pending' = [req |-> r, size |-> size,
                   running |-> \E i \in Members : inst[i].st = "ready"]
    /\ reserved' = ReservedMeanwhile(size)
    /\ args' = [args EXCEPT ![r] = pending']
    /\ mu' = "begun"
    /\ UNCHANGED <<pool, spent, rows, runner, sent, late>>

\* The same command again finds the operation and finishes it; a different size
\* is refused.
RetryMemoryPoolResize(size) ==
    /\ mu = "free" /\ pool # None /\ pending # NoOp /\ size = pending.size
    /\ mu' = "begun"
    /\ UNCHANGED <<store, rows, runner, calls>>

SendResize ==
    /\ mu = "begun"
    /\ sent' = sent \cup {pending.req}
    /\ mu' = "resize"
    /\ UNCHANGED <<store, rows, runner, args, late>>

\* A durable outcome clears the fence.  A rejected growth keeps its reservation.
FinishMemoryPoolResize ==
    /\ mu = "resize" /\ receipt[pending.req] \in {"done", "rejected"}
    /\ reserved' = IF receipt[pending.req] = "done" THEN pending.size ELSE reserved
    /\ pending' = NoOp
    /\ mu' = "free"
    /\ UNCHANGED <<pool, spent, rows, runner, calls>>

\* No answer, an error, or the store did not take the result: all is retained.
ResizePending ==
    /\ mu \in {"begun", "resize"}
    /\ mu' = "free"
    /\ UNCHANGED <<store, rows, runner, calls>>

Deletable == pool # None /\ pending = NoOp /\ Members = {}

BeginDeletePool ==
    /\ mu = "free" /\ Deletable
    /\ mu' = "delete"
    /\ UNCHANGED <<store, rows, runner, calls>>

\* The runner answered that the directory is gone.
DeleteMemoryPool ==
    /\ mu = "deleted"
    /\ pool' = None /\ reserved' = 0
    /\ mu' = "free"
    /\ UNCHANGED <<pending, spent, rows, runner, calls>>

\* What becomes of a deletion when its caller stops waiting: it was refused or
\* carried out, or the runner may still get to it.
GivenUp == IF mu = "delete" THEN {late, TRUE} ELSE {late}

\* The runner refused or did not answer, or the store kept the row.
DeletePoolFails ==
    /\ mu \in {"delete", "deleted"}
    /\ mu' = "free"
    /\ late' \in GivenUp
    /\ UNCHANGED <<store, rows, runner, args, sent>>

-----------------------------------------------------------------------------
(* Instances *)

Admitted(i, m, p) ==
    IF p = None THEN HostHasRoom({i}, FixedMemoryLimit(m))
    ELSE RequirePool(p) /\ SupportsGuest(m)

\* The row becomes provisioning, and the start call carries the size of the
\* pool that admission saw.
Launching(i, m, p) ==
    /\ inst' = [inst EXCEPT ![i] = [st |-> "provisioning", mem |-> m, pool |-> p]]
    /\ start' = [start EXCEPT ![i] = [at |-> "called",
                                      size |-> IF p = None THEN 0 ELSE reserved]]
    /\ UNCHANGED change

Create(i, m, p) ==
    /\ mu = "free" /\ inst[i].st = "none"
    /\ Admitted(i, m, p)
    /\ Launching(i, m, p)
    /\ UNCHANGED <<store, mu, runner, calls>>

\* An import is admitted to a pool like a new instance, but not against the
\* host's memory.  Its row is provisioning under a fence that keeps others off.
Import(i, m, p) ==
    /\ mu = "free" /\ inst[i].st = "none"
    /\ p # None => RequirePool(p) /\ SupportsGuest(m)
    /\ inst' = [inst EXCEPT ![i] = [st |-> "importing", mem |-> m, pool |-> p]]
    /\ UNCHANGED <<store, mu, change, start, runner, calls>>

\* It ends stopped, or the row is taken back.
ImportEnds(i) ==
    /\ inst[i].st = "importing"
    /\ \E row \in {[inst[i] EXCEPT !.st = "stopped"], NoRow} :
          inst' = [inst EXCEPT ![i] = row]
    /\ UNCHANGED <<store, mu, change, start, runner, calls>>

Start(i) ==
    /\ mu = "free" /\ change[i] = Same
    /\ inst[i].st \in {"stopped", "failed"}
    /\ Admitted(i, inst[i].mem, inst[i].pool)
    /\ Launching(i, inst[i].mem, inst[i].pool)
    /\ UNCHANGED <<store, mu, runner, calls>>

\* The answer arrives (failed), or reconciliation asks for it (stopped); an
\* attempt that has not launched is closed by the question.
StartAnswered(i) ==
    /\ inst[i].st = "provisioning" /\ start[i].at # "prepared"
    /\ \E st \in IF start[i].at = "live" THEN {"ready"} ELSE {"failed", "stopped"} :
          inst' = [inst EXCEPT ![i].st = st]
    /\ start' = [start EXCEPT ![i] = IF @ = Live THEN Live ELSE Idle]
    /\ UNCHANGED <<store, mu, change, runner, calls>>

Stop(i) ==
    /\ change[i] = Same
    /\ inst[i].st \in {"provisioning", "ready", "failed"}
    /\ inst' = [inst EXCEPT ![i].st = "stopping"]
    /\ UNCHANGED <<store, mu, change, start, runner, calls>>

\* A stop completes, or reconciliation finds that the VM of a ready row is gone.
Stopped(i) ==
    /\ \/ inst[i].st = "stopping" /\ start[i].at # "prepared"
       \/ inst[i].st = "ready" /\ start[i].at = "none"
    /\ inst' = [inst EXCEPT ![i].st = "stopped"]
    /\ start' = [start EXCEPT ![i] = Idle]
    /\ UNCHANGED <<store, mu, change, runner, calls>>

Delete(i) ==
    /\ mu = "free" /\ change[i] = Same
    /\ inst[i].st \in {"stopped", "failed"}
    /\ inst' = [inst EXCEPT ![i] = NoRow]
    /\ UNCHANGED <<store, mu, change, start, runner, calls>>

\* resize: the pool is checked if the command names it or the memory, then
\* admissionMu is given up while a cold disk is fetched.
Resize(i, m, p) ==
    /\ mu = "free" /\ change[i] = Same /\ inst[i].st = "stopped"
    /\ \/ p = None
       \/ p = inst[i].pool /\ m = inst[i].mem
       \/ RequirePool(p) /\ SupportsGuest(m)
    /\ change' = [change EXCEPT ![i] = [mem |-> m, pool |-> p]]
    /\ UNCHANGED <<store, mu, inst, start, runner, calls>>

\* Mutant: the check made before the wait is trusted.
ResizeCommitsUnchecked(i) ==
    /\ mu = "free" /\ change[i] # Same
    /\ inst' = [inst EXCEPT ![i].mem = change[i].mem, ![i].pool = change[i].pool]
    /\ change' = [change EXCEPT ![i] = Same]
    /\ UNCHANGED <<store, mu, start, runner, calls>>

\* Everything about the pool is checked again, by its ID.
ResizeCommits(i) ==
    /\ mu = "free" /\ change[i] # Same
    /\ change[i].pool # None => RequirePool(change[i].pool) /\ SupportsGuest(change[i].mem)
    /\ inst' = [inst EXCEPT ![i].mem = change[i].mem, ![i].pool = change[i].pool]
    /\ change' = [change EXCEPT ![i] = Same]
    /\ UNCHANGED <<store, mu, start, runner, calls>>

\* A restore gives the row the RAM it had when the backup was made, which may be
\* any size: outside a pool a stopped instance is resized without a check.
RestoreBackup(i, m) ==
    /\ change[i] = Same /\ inst[i].st = "stopped"
    /\ inst' = [inst EXCEPT ![i].mem = m]
    /\ UNCHANGED <<store, mu, change, start, runner, calls>>

ResizeFails(i) ==
    /\ change[i] # Same
    /\ change' = [change EXCEPT ![i] = Same]
    /\ UNCHANGED <<store, mu, inst, start, runner, calls>>

-----------------------------------------------------------------------------
(* The runner.  poolMu makes each of its handlers one step. *)

Pooled(i) == inst[i].pool # None

\* A limit that is written is in force again.
LostUnlessWritten == lost' = (lost /\ limit' \notin Sizes)

\* prepareMemoryPoolCgroupParent.  poolMu is not kept for the launch.
PrepareCgroup(i) ==
    /\ start[i].at = "called" /\ Pooled(i)
    /\ start' = [start EXCEPT ![i].at = "prepared"]
    /\ limit' = start[i].size
    /\ LostUnlessWritten
    /\ UNCHANGED <<store, mu, inst, change, receipt, calls>>

\* The directory may be there before its limit could be written.
PrepareFails(i) ==
    /\ start[i].at = "called" /\ Pooled(i)
    /\ start' = [start EXCEPT ![i] = Idle]
    /\ limit' \in {limit, start[i].size} \cup (IF limit = NoDir THEN {Unlimited} ELSE {})
    /\ LostUnlessWritten
    /\ UNCHANGED <<store, mu, inst, change, receipt, calls>>

\* The jailer (external) makes the cgroup of the VM below the directory it is given.
\* One that is missing it may make as well, without a limit, or it may fail.
JailerLimit(i) == IF Pooled(i) /\ limit = NoDir THEN Unlimited ELSE limit

LaunchVM(i) ==
    /\ start[i].at = IF Pooled(i) THEN "prepared" ELSE "called"
    /\ \/ start' = [start EXCEPT ![i] = Live] /\ limit' = JailerLimit(i)
       \/ start' = [start EXCEPT ![i] = Idle] /\ limit' \in {limit, JailerLimit(i)}
    /\ UNCHANGED <<store, mu, inst, change, lost, receipt, calls>>

VMExit(i) ==
    /\ start[i].at = "live"
    /\ start' = [start EXCEPT ![i] = Idle]
    /\ UNCHANGED <<store, mu, inst, change, runner, calls>>

\* resizeMemoryPoolCgroup: what becomes of the limit and what the receipt says.
\* A pool that has never run gets its limit with its first start.  An error does
\* not prove that the limit was not written.
CgroupOutcomes(q) ==
    {<<limit, "rejected">>} \cup
        IF limit = NoDir THEN (IF q.running THEN {} ELSE {<<limit, "done">>})
        ELSE {<<q.size, "done">>, <<q.size, "rejected">>}

\* Mutant: an operation that is done is done again.
UnfinishedAlways(r) == TRUE

Unfinished(r) == receipt[r] \in {"none", "seen"}

\* The receipt is durable before and after the limit is touched; in between the
\* runner may die, or the second write fail.
ResizeMemoryPool(r) ==
    /\ r \in sent /\ Unfinished(r)
    /\ \E o \in CgroupOutcomes(args[r]) :
          /\ limit' = o[1]
          /\ \E s \in {o[2], "seen"} : receipt' = [receipt EXCEPT ![r] = s]
    /\ LostUnlessWritten
    /\ UNCHANGED <<store, mu, rows, calls>>

\* rmdir fails while a VM has its cgroup in the directory, but not because a
\* start has prepared it: a deletion that its caller gave up, and that arrives
\* then, removes the directory and its limit before the launch.
DeleteMemoryPoolCgroup ==
    /\ \/ mu = "delete" /\ mu' = "deleted" /\ late' = late
       \/ late /\ late' \in BOOLEAN /\ mu' = mu
    /\ \A i \in Insts : Pooled(i) => start[i].at # "live"
    /\ limit' = NoDir
    /\ lost' = (lost \/ \E i \in Insts : Pooled(i) /\ start[i].at = "prepared")
    /\ UNCHANGED <<store, rows, receipt, args, sent>>

-----------------------------------------------------------------------------
(* The environment *)

Crash ==
    /\ mu' = "free" /\ change' = [i \in Insts |-> Same]
    /\ late' \in GivenUp
    /\ UNCHANGED <<store, inst, start, runner, args, sent>>

HostReboot ==
    /\ mu' = "free" /\ change' = [i \in Insts |-> Same]
    /\ start' = [i \in Insts |-> Idle]
    /\ limit' = NoDir /\ lost' = FALSE
    /\ sent' = {} /\ late' = FALSE
    /\ UNCHANGED <<store, inst, receipt, args>>

PoolCommand ==
    \/ \E p \in Pools, s \in Sizes : CreateMemoryPool(p, s)
    \/ \E r \in Reqs, s \in Sizes : BeginMemoryPoolResize(r, s)
    \/ \E s \in Sizes : RetryMemoryPoolResize(s)
    \/ SendResize \/ FinishMemoryPoolResize \/ ResizePending
    \/ BeginDeletePool \/ DeleteMemoryPool \/ DeletePoolFails

InstanceCommand ==
    \E i \in Insts :
        \/ \E m \in Sizes, p \in Pools \cup {None} :
              Create(i, m, p) \/ Import(i, m, p) \/ Resize(i, m, p)
        \/ ImportEnds(i) \/ Start(i) \/ StartAnswered(i) \/ Stop(i) \/ Stopped(i) \/ Delete(i)
        \/ ResizeCommits(i) \/ ResizeFails(i)
        \/ \E m \in Sizes : RestoreBackup(i, m)

Runner ==
    \/ \E i \in Insts : PrepareCgroup(i) \/ PrepareFails(i) \/ LaunchVM(i) \/ VMExit(i)
    \/ \E r \in Reqs : ResizeMemoryPool(r)
    \/ DeleteMemoryPoolCgroup

Next == PoolCommand \/ InstanceCommand \/ Runner \/ Crash \/ HostReboot

Spec == Init /\ [][Next]_vars

-----------------------------------------------------------------------------
(* Properties *)

\* However resizes and starts are delayed and repeated, and whatever a crash or a
\* reboot leaves behind, the VMs of a pool run under a limit that is not above what
\* the host has reserved.  The exception is named: after a late deletion has removed
\* the directory of a prepared start, until a start or a resize writes the limit.
PooledVMsAreCapped ==
    \A i \in Insts : start[i].at = "live" /\ Pooled(i) => limit \in 1..reserved \/ lost

\* However resizes of instances and of their pool, imports, restores and deletions
\* interleave, a row names a pool that exists, and a member that starts or runs is
\* one its pool can hold.
MembersFit ==
    \A i \in Members :
        /\ inst[i].pool = pool
        /\ inst[i].st \in {"provisioning", "ready"} => inst[i].mem <= reserved

\* The VMs with fixed memory that run or may come up.
FixedVMs == {i \in Insts : inst[i].pool = None /\ start[i].at # "none"}

\* What was promised to VMs that run or may come up, and to the pool, never
\* exceeds the memory of the host.
PromisesFitHost ==
    FixedMemory(FixedVMs)
      + (IF limit \in Sizes /\ limit > reserved THEN limit ELSE reserved) <= Budget

\* Documented of pooled guest RAM: a change "must stay within the current pool's
\* reserved size" (docs/reference/operations.md).  RestoreBackup does not look.
GuestRAMStaysInPool == \A i \in Members : inst[i].mem <= reserved

-----------------------------------------------------------------------------
(* The inductive invariant *)

\* A start call is under way only for a row that says so, and only a stopped
\* instance is being resized.
RowInv ==
    \A i \in Insts :
        /\ inst[i].st \in {"none", "importing", "stopped", "failed"} => start[i].at = "none"
        /\ start[i].at \in {"called", "prepared"} => inst[i].st \in {"provisioning", "stopping"}
        /\ inst[i].st = "none" => inst[i].pool = None
        /\ change[i] # Same => inst[i].st = "stopped"

\* The pool has a reservation; a resize it waits for was issued; it is deleted
\* without members.
StoreInv ==
    /\ pool = None => reserved = 0 /\ pending = NoOp
    /\ pool # None => reserved \in Sizes
    /\ pending # NoOp => args[pending.req] = pending /\ pending.size <= reserved
    /\ mu \in {"begun", "resize"} => pending # NoOp
    /\ mu \in {"delete", "deleted"} => pool # None /\ pending = NoOp /\ Members = {}
    /\ mu = "deleted" => limit = NoDir

\* A resize call that may still act at the runner is the pending one, and a
\* finished one left no other limit than its own.
CallInv ==
    /\ \A r \in Reqs : args[r] = NoOp => r \notin sent /\ receipt[r] = "none"
    /\ \A r \in sent : Unfinished(r) => pending.req = r
    /\ pending # NoOp /\ receipt[pending.req] = "done" => limit \in {NoDir, pending.size}

\* While a resize is pending no member starts, and those that run fit it.
FenceInv ==
    pending # NoOp =>
        \A i \in Members :
            /\ start[i].at \in {"none", "live"}
            /\ inst[i].st \in {"provisioning", "ready"} =>
                  inst[i].st = "ready" /\ inst[i].mem <= pending.size

\* A start carries no more than is reserved.  Once its cgroup is prepared the limit
\* is in force or was lost, and a VM that runs keeps the directory.
CapInv ==
    /\ lost => limit \in {NoDir, Unlimited}
    /\ \A i \in Members :
          /\ start[i].at = "called" => start[i].size \in 1..reserved
          /\ start[i].at \in {"prepared", "live"} => limit \in 1..reserved \/ lost
          /\ start[i].at = "live" => limit # NoDir

\* What the host is asked for before a VM, a pool or the growth of one is admitted:
\* what may run, not what the rows count, since an import is not admitted and a
\* failed row that is stopped counts for a while without a VM.
HostInv ==
    /\ limit \in Sizes => limit <= reserved
    /\ FixedMemory(FixedVMs) + reserved <= Budget

IInv == RowInv /\ StoreInv /\ CallInv /\ FenceInv /\ CapInv /\ MembersFit
=============================================================================
