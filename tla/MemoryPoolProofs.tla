-------------------------- MODULE MemoryPoolProofs --------------------------
(***************************************************************************)
(* The limit of the pool's cgroup, the fit of its members and the memory   *)
(* of the host, for every set of pools, instances and requests and any     *)
(* sizes.  The invariant says that a pending resize is the only one the    *)
(* runner may still carry out (CallInv), that no member starts under it    *)
(* (FenceInv), that a start carries no more than is reserved until it has  *)
(* launched, and that only a late deletion takes its limit (CapInv).       *)
(*                                                                         *)
(* HostInv is about a sum over the instances.  The sum is the cardinality  *)
(* of a set of units, so that what a VM adds to it follows from the        *)
(* theorems on finite sets and needs no induction.                         *)
(***************************************************************************)
EXTENDS MemoryPool, FiniteSetTheorems, TLAPS

Rows == [st : States, mem : 0..MaxSize, pool : Pools \cup {None}]

-----------------------------------------------------------------------------

\* The commands on a pool keep its reservation ahead of what the runner may do.
LEMMA PoolCommandKeeps ==
    ASSUME TypeOK, IInv, PoolCommand
    PROVE  TypeOK' /\ IInv'
PROOF
<1> USE PoolAssumption DEF store, rows, runner, calls, Sizes, NoDir, Unlimited, NoOp, Ops, Same
<1>1. ASSUME NEW p \in Pools, NEW s \in Sizes, CreateMemoryPool(p, s)
      PROVE  TypeOK' /\ IInv'
  <2>1. TypeOK'
    BY <1>1 DEF TypeOK, States, CreateMemoryPool
  <2>2. IInv'
    BY <1>1, <2>1
       DEF CreateMemoryPool, TypeOK, IInv, RowInv, StoreInv,
           CallInv, FenceInv, CapInv, MembersFit, Members, Unfinished
  <2>3. QED
    BY <2>1, <2>2
<1>2. ASSUME NEW r \in Reqs, NEW s \in Sizes, BeginMemoryPoolResize(r, s)
      PROVE  TypeOK' /\ IInv'
  <2>1. TypeOK'
    BY <1>2 DEF TypeOK, States, BeginMemoryPoolResize, Resizable, ReservedMeanwhile
  <2>2. IInv'
    BY <1>2, <2>1
       DEF BeginMemoryPoolResize, Resizable, ReservedMeanwhile, TypeOK, IInv, RowInv, StoreInv,
           CallInv, FenceInv, CapInv, MembersFit, Members, Unfinished
  <2>3. QED
    BY <2>1, <2>2
<1>3. ASSUME NEW s \in Sizes, RetryMemoryPoolResize(s)
      PROVE  TypeOK' /\ IInv'
  <2>1. TypeOK'
    BY <1>3 DEF TypeOK, States, RetryMemoryPoolResize
  <2>2. IInv'
    BY <1>3, <2>1
       DEF RetryMemoryPoolResize, TypeOK, IInv, RowInv, StoreInv,
           CallInv, FenceInv, CapInv, MembersFit, Members, Unfinished
  <2>3. QED
    BY <2>1, <2>2
<1>4. ASSUME SendResize
      PROVE  TypeOK' /\ IInv'
  <2>1. TypeOK'
    BY <1>4 DEF SendResize, StoreInv, IInv, TypeOK
  <2>2. IInv'
    BY <1>4, <2>1
       DEF SendResize, TypeOK, IInv, RowInv, StoreInv,
           CallInv, FenceInv, CapInv, MembersFit, Members, Unfinished
  <2>3. QED
    BY <2>1, <2>2
<1>5. ASSUME FinishMemoryPoolResize
      PROVE  TypeOK' /\ IInv'
  <2>1. TypeOK'
    BY <1>5 DEF TypeOK, States, FinishMemoryPoolResize
  <2>2. IInv'
    BY <1>5, <2>1
       DEF FinishMemoryPoolResize, TypeOK, IInv, RowInv, StoreInv,
           CallInv, FenceInv, CapInv, MembersFit, Members, Unfinished
  <2>3. QED
    BY <2>1, <2>2
<1>6. ASSUME ResizePending
      PROVE  TypeOK' /\ IInv'
  <2>1. TypeOK'
    BY <1>6 DEF TypeOK, States, ResizePending
  <2>2. IInv'
    BY <1>6, <2>1
       DEF ResizePending, TypeOK, IInv, RowInv, StoreInv,
           CallInv, FenceInv, CapInv, MembersFit, Members, Unfinished
  <2>3. QED
    BY <2>1, <2>2
<1>7. ASSUME BeginDeletePool
      PROVE  TypeOK' /\ IInv'
  <2>1. TypeOK'
    BY <1>7 DEF TypeOK, States, BeginDeletePool, Deletable
  <2>2. IInv'
    BY <1>7, <2>1
       DEF BeginDeletePool, Deletable, TypeOK, IInv, RowInv, StoreInv,
           CallInv, FenceInv, CapInv, MembersFit, Members, Unfinished
  <2>3. QED
    BY <2>1, <2>2
<1>8. ASSUME DeleteMemoryPool
      PROVE  TypeOK' /\ IInv'
  <2>1. TypeOK'
    BY <1>8 DEF TypeOK, States, DeleteMemoryPool
  <2>2. IInv'
    BY <1>8, <2>1
       DEF DeleteMemoryPool, TypeOK, IInv, RowInv, StoreInv,
           CallInv, FenceInv, CapInv, MembersFit, Members, Unfinished
  <2>3. QED
    BY <2>1, <2>2
<1>9. ASSUME DeletePoolFails
      PROVE  TypeOK' /\ IInv'
  <2>1. TypeOK'
    BY <1>9 DEF TypeOK, States, DeletePoolFails, GivenUp
  <2>2. IInv'
    BY <1>9, <2>1
       DEF DeletePoolFails, GivenUp, TypeOK, IInv, RowInv, StoreInv,
           CallInv, FenceInv, CapInv, MembersFit, Members, Unfinished
  <2>3. QED
    BY <2>1, <2>2
<1>10. QED
  BY <1>1, <1>2, <1>3, <1>4, <1>5, <1>6, <1>7, <1>8, <1>9, Zenon DEF PoolCommand

\* The commands on instances admit members only to a pool that is not being resized
\* and holds them.
LEMMA InstanceCommandKeeps ==
    ASSUME TypeOK, IInv, InstanceCommand
    PROVE  TypeOK' /\ IInv'
PROOF
<1> USE PoolAssumption DEF store, rows, runner, calls, Sizes, NoDir, Unlimited, NoOp, Ops, Same
<1>1. ASSUME NEW i \in Insts, NEW m \in Sizes, NEW p \in Pools \cup {None}, Create(i, m, p)
      PROVE  TypeOK' /\ IInv'
  <2>1. TypeOK'
    BY <1>1 DEF TypeOK, States, Create, Admitted, RequirePool, SupportsGuest, Launching
  <2>2. IInv'
    BY <1>1, <2>1
       DEF Create, Admitted, RequirePool, SupportsGuest, Launching, TypeOK,
           IInv, RowInv, StoreInv, CallInv, FenceInv, CapInv, MembersFit, Members, Unfinished
  <2>3. QED
    BY <2>1, <2>2
<1>2. ASSUME NEW i \in Insts, NEW m \in Sizes, NEW p \in Pools \cup {None}, Import(i, m, p)
      PROVE  TypeOK' /\ IInv'
  <2>1. TypeOK'
    BY <1>2 DEF TypeOK, States, Import, Admitted, RequirePool, SupportsGuest, Launching
  <2>2. IInv'
    BY <1>2, <2>1
       DEF Import, RequirePool, SupportsGuest, TypeOK, IInv, RowInv, StoreInv,
           CallInv, FenceInv, CapInv, MembersFit, Members, Unfinished
  <2>3. QED
    BY <2>1, <2>2
<1>3. ASSUME NEW i \in Insts, NEW m \in Sizes, NEW p \in Pools \cup {None}, Resize(i, m, p)
      PROVE  TypeOK' /\ IInv'
  <2>1. TypeOK'
    BY <1>3 DEF TypeOK, States, Resize
  <2>2. IInv'
    BY <1>3, <2>1
       DEF Resize, TypeOK, IInv, RowInv, StoreInv,
           CallInv, FenceInv, CapInv, MembersFit, Members, Unfinished
  <2>3. QED
    BY <2>1, <2>2
<1>4. ASSUME NEW i \in Insts, ImportEnds(i)
      PROVE  TypeOK' /\ IInv'
  <2>1. TypeOK'
    <3> USE DEF TypeOK
    <3>1. \A row \in {[inst[i] EXCEPT !.st = "stopped"], NoRow} : row \in Rows
      BY DEF Rows, NoRow, States
    <3>2. inst' \in [Insts -> Rows]
      BY <1>4, <3>1 DEF ImportEnds, Rows
    <3>3. QED
      BY <1>4, <3>2 DEF ImportEnds, Rows
  <2>2. IInv'
    BY <1>4, <2>1
       DEF ImportEnds, NoRow, TypeOK, IInv, RowInv, StoreInv,
           CallInv, FenceInv, CapInv, MembersFit, Members, Unfinished
  <2>3. QED
    BY <2>1, <2>2
<1>5. ASSUME NEW i \in Insts, Start(i)
      PROVE  TypeOK' /\ IInv'
  <2>1. TypeOK'
    BY <1>5 DEF TypeOK, States, Start, Admitted, RequirePool, SupportsGuest, Launching
  <2>2. IInv'
    BY <1>5, <2>1
       DEF Start, Admitted, RequirePool, SupportsGuest, Launching, TypeOK,
           IInv, RowInv, StoreInv, CallInv, FenceInv, CapInv, MembersFit, Members, Unfinished
  <2>3. QED
    BY <2>1, <2>2
<1>6. ASSUME NEW i \in Insts, StartAnswered(i)
      PROVE  TypeOK' /\ IInv'
  <2>1. TypeOK'
    <3> USE DEF TypeOK
    <3>1. inst' \in [Insts -> Rows]
      BY <1>6 DEF StartAnswered, Rows, States
    <3>2. start' \in [Insts -> [at : {"none", "called", "prepared", "live"},
                                size : 0..MaxSize]]
      BY <1>6 DEF StartAnswered, Idle, Live
    <3>3. QED
      BY <1>6, <3>1, <3>2 DEF StartAnswered, Rows
  <2>2. IInv'
    BY <1>6, <2>1
       DEF StartAnswered, Idle, Live, TypeOK, IInv, RowInv, StoreInv,
           CallInv, FenceInv, CapInv, MembersFit, Members, Unfinished
  <2>3. QED
    BY <2>1, <2>2
<1>7. ASSUME NEW i \in Insts, Stop(i)
      PROVE  TypeOK' /\ IInv'
  <2>1. TypeOK'
    BY <1>7 DEF TypeOK, States, Stop
  <2>2. IInv'
    BY <1>7, <2>1
       DEF Stop, TypeOK, IInv, RowInv, StoreInv,
           CallInv, FenceInv, CapInv, MembersFit, Members, Unfinished
  <2>3. QED
    BY <2>1, <2>2
<1>8. ASSUME NEW i \in Insts, Stopped(i)
      PROVE  TypeOK' /\ IInv'
  <2>1. TypeOK'
    BY <1>8 DEF TypeOK, States, Stopped, Idle
  <2>2. IInv'
    BY <1>8, <2>1
       DEF Stopped, Idle, TypeOK, IInv, RowInv, StoreInv,
           CallInv, FenceInv, CapInv, MembersFit, Members, Unfinished
  <2>3. QED
    BY <2>1, <2>2
<1>9. ASSUME NEW i \in Insts, Delete(i)
      PROVE  TypeOK' /\ IInv'
  <2>1. TypeOK'
    BY <1>9 DEF TypeOK, States, Delete, NoRow
  <2>2. IInv'
    BY <1>9, <2>1
       DEF Delete, NoRow, TypeOK, IInv, RowInv, StoreInv,
           CallInv, FenceInv, CapInv, MembersFit, Members, Unfinished
  <2>3. QED
    BY <2>1, <2>2
<1>10. ASSUME NEW i \in Insts, ResizeCommits(i)
      PROVE  TypeOK' /\ IInv'
  <2>1. TypeOK'
    <3> USE DEF TypeOK
    <3> DEFINE sized == [inst[i] EXCEPT !.mem = change[i].mem]
               row   == [sized EXCEPT !.pool = change[i].pool]
    <3>1. /\ inst[i] \in Rows
          /\ change[i].mem \in 0..MaxSize /\ change[i].pool \in Pools \cup {None}
      BY DEF Rows
    <3>2. sized \in Rows
      BY <3>1 DEF Rows
    <3>3. row \in Rows
      <4> HIDE DEF sized
      <4> QED BY <3>1, <3>2 DEF Rows
    <3>4. inst' = [inst EXCEPT ![i] = row]
      BY <1>10 DEF ResizeCommits
    <3>5. inst' \in [Insts -> Rows]
      <4> HIDE DEF row
      <4> QED BY <3>3, <3>4 DEF Rows
    <3>6. QED
      BY <1>10, <3>5 DEF ResizeCommits, Rows
  <2>2. IInv'
    BY <1>10, <2>1
       DEF ResizeCommits, RequirePool, SupportsGuest, TypeOK, IInv, RowInv, StoreInv,
           CallInv, FenceInv, CapInv, MembersFit, Members, Unfinished
  <2>3. QED
    BY <2>1, <2>2
<1>11. ASSUME NEW i \in Insts, ResizeFails(i)
      PROVE  TypeOK' /\ IInv'
  <2>1. TypeOK'
    BY <1>11 DEF TypeOK, States, ResizeFails
  <2>2. IInv'
    BY <1>11, <2>1
       DEF ResizeFails, TypeOK, IInv, RowInv, StoreInv,
           CallInv, FenceInv, CapInv, MembersFit, Members, Unfinished
  <2>3. QED
    BY <2>1, <2>2
<1>12. ASSUME NEW i \in Insts, NEW m \in Sizes, RestoreBackup(i, m)
      PROVE  TypeOK' /\ IInv'
  <2>1. TypeOK'
    <3> USE DEF TypeOK
    <3>1. inst' \in [Insts -> Rows]
      BY <1>12 DEF RestoreBackup, Rows
    <3>2. QED
      BY <1>12, <3>1 DEF RestoreBackup, Rows
  <2>2. IInv'
    BY <1>12, <2>1
       DEF RestoreBackup, TypeOK, IInv, RowInv, StoreInv,
           CallInv, FenceInv, CapInv, MembersFit, Members, Unfinished
  <2>3. QED
    BY <2>1, <2>2
<1>13. QED
  BY <1>1, <1>2, <1>3, <1>4, <1>5, <1>6, <1>7, <1>8, <1>9, <1>10, <1>11, <1>12, Zenon
     DEF InstanceCommand

\* The runner writes only limits that were admitted, however late.
LEMMA RunnerKeeps ==
    ASSUME TypeOK, IInv, Runner
    PROVE  TypeOK' /\ IInv'
PROOF
<1> USE PoolAssumption DEF store, rows, runner, calls, Sizes, NoDir, Unlimited, NoOp, Ops, Same
<1>1. ASSUME NEW i \in Insts, PrepareCgroup(i)
      PROVE  TypeOK' /\ IInv'
  <2>1. TypeOK'
    BY <1>1 DEF TypeOK, States, PrepareCgroup, Pooled, LostUnlessWritten
  <2>2. IInv'
    <3>1. i \in Members /\ start[i].size \in 1..reserved
      BY <1>1 DEF PrepareCgroup, Pooled, IInv, RowInv, CapInv, Members
    <3>2. limit' \in 1..reserved /\ limit' \in Sizes
      BY <1>1, <3>1 DEF PrepareCgroup, TypeOK
    <3>3. ~lost'
      BY <1>1, <3>2, Zenon DEF PrepareCgroup, LostUnlessWritten
    <3>4. QED
      BY <1>1, <2>1, <3>1, <3>2, <3>3
         DEF PrepareCgroup, Pooled, TypeOK, IInv, RowInv, StoreInv,
             CallInv, FenceInv, CapInv, MembersFit, Members, Unfinished
  <2>3. QED
    BY <2>1, <2>2
<1>2. ASSUME NEW i \in Insts, PrepareFails(i)
      PROVE  TypeOK' /\ IInv'
  <2>1. TypeOK'
    BY <1>2 DEF TypeOK, States, PrepareFails, Pooled, Idle, LostUnlessWritten
  <2>2. IInv'
    <3>1. i \in Members /\ start[i].size \in 1..reserved
      BY <1>2 DEF PrepareFails, Pooled, IInv, RowInv, CapInv, Members
    <3>2. lost' <=> lost /\ limit' \notin Sizes
      BY <1>2, Zenon DEF PrepareFails, LostUnlessWritten
    <3>3. QED
      BY <1>2, <2>1, <3>1, <3>2
         DEF PrepareFails, Pooled, Idle, TypeOK, IInv, RowInv, StoreInv,
             CallInv, FenceInv, CapInv, MembersFit, Members, Unfinished
  <2>3. QED
    BY <2>1, <2>2
<1>3. ASSUME NEW i \in Insts, LaunchVM(i)
      PROVE  TypeOK' /\ IInv'
  <2>1. TypeOK'
    <3> USE DEF TypeOK
    <3>1. limit' \in 0..Unlimited
      BY <1>3 DEF LaunchVM, JailerLimit
    <3>2. PICK s \in {Live, Idle} : start' = [start EXCEPT ![i] = s]
      BY <1>3 DEF LaunchVM
    <3>3. start' \in [Insts -> [at : {"none", "called", "prepared", "live"},
                                size : 0..MaxSize]]
      BY <3>2 DEF Idle, Live
    <3>4. QED
      BY <1>3, <3>1, <3>3 DEF LaunchVM
  <2>2. IInv'
    <3>1. /\ lost' = lost /\ UNCHANGED <<store, mu, inst, change, receipt, calls>>
          /\ start[i].at \in {"called", "prepared"}
      BY <1>3 DEF LaunchVM
    <3>2. /\ limit' = limit \/ (limit = NoDir /\ limit' = Unlimited /\ start[i].at = "prepared"
                                /\ i \in Members)
          /\ i \in Members /\ start'[i].at = "live" =>
                limit' # NoDir /\ start[i].at = "prepared"
          /\ start'[i].at \in {"none", "live"}
          /\ \A j \in Insts \ {i} : start'[j] = start[j]
      BY <1>3 DEF LaunchVM, JailerLimit, Pooled, Idle, Live, TypeOK, IInv, RowInv, Members
    <3>3. limit' = limit \/ (lost /\ pending = NoOp /\ mu # "deleted")
      BY <3>2 DEF IInv, CapInv, FenceInv, StoreInv, TypeOK
    <3>4. RowInv' /\ StoreInv'
      BY <3>1, <3>2, <3>3 DEF IInv, RowInv, StoreInv, Members, TypeOK
    <3>5. CallInv' /\ FenceInv'
      BY <3>1, <3>2, <3>3 DEF IInv, CallInv, FenceInv, Members, Unfinished, TypeOK
    <3>6. CapInv' /\ MembersFit'
      BY <3>1, <3>2, <3>3 DEF IInv, CapInv, MembersFit, Members, TypeOK
    <3>7. QED
      BY <3>4, <3>5, <3>6 DEF IInv
  <2>3. QED
    BY <2>1, <2>2
<1>4. ASSUME NEW i \in Insts, VMExit(i)
      PROVE  TypeOK' /\ IInv'
  <2>1. TypeOK'
    BY <1>4 DEF TypeOK, States, VMExit, Idle
  <2>2. IInv'
    BY <1>4, <2>1
       DEF VMExit, Idle, TypeOK, IInv, RowInv, StoreInv,
           CallInv, FenceInv, CapInv, MembersFit, Members, Unfinished
  <2>3. QED
    BY <2>1, <2>2
<1>5. ASSUME NEW r \in Reqs, ResizeMemoryPool(r)
      PROVE  TypeOK' /\ IInv'
  <2>1. TypeOK'
    BY <1>5 DEF TypeOK, States, ResizeMemoryPool, CgroupOutcomes, LostUnlessWritten
  <2>2. IInv'
    <3>1. lost' <=> lost /\ limit' \notin Sizes
      BY <1>5, Zenon DEF ResizeMemoryPool, LostUnlessWritten
    <3>2. pending.req = r /\ pending # NoOp /\ args[r] = pending
      BY <1>5 DEF ResizeMemoryPool, IInv, CallInv, StoreInv
    <3>3. QED
      BY <1>5, <2>1, <3>1, <3>2
         DEF ResizeMemoryPool, CgroupOutcomes, TypeOK, IInv, RowInv, StoreInv,
             CallInv, FenceInv, CapInv, MembersFit, Members, Unfinished
  <2>3. QED
    BY <2>1, <2>2
<1>6. ASSUME DeleteMemoryPoolCgroup
      PROVE  TypeOK' /\ IInv'
  <2>1. TypeOK'
    BY <1>6 DEF TypeOK, States, DeleteMemoryPoolCgroup, Pooled, Idle
  <2>2. IInv'
    BY <1>6, <2>1
       DEF DeleteMemoryPoolCgroup, Pooled, Idle, TypeOK, IInv, RowInv, StoreInv,
           CallInv, FenceInv, CapInv, MembersFit, Members, Unfinished
  <2>3. QED
    BY <2>1, <2>2
<1>7. QED
  BY <1>1, <1>2, <1>3, <1>4, <1>5, <1>6, Zenon DEF Runner

\* A crash frees the mutex, a reboot also empties the runner.
LEMMA FailureKeeps ==
    ASSUME TypeOK, IInv, Crash \/ HostReboot
    PROVE  TypeOK' /\ IInv'
PROOF
<1> USE PoolAssumption DEF store, rows, runner, calls, Sizes, NoDir, Unlimited, NoOp, Ops, Same
<1>1. ASSUME Crash
      PROVE  TypeOK' /\ IInv'
  <2>1. TypeOK'
    <3> USE DEF TypeOK
    <3>1. late' \in BOOLEAN
      BY <1>1, Zenon DEF Crash, GivenUp
    <3>2. QED
      BY <1>1, <3>1 DEF Crash
  <2>2. IInv'
    BY <1>1, <2>1
       DEF Crash, GivenUp, TypeOK, IInv, RowInv, StoreInv,
           CallInv, FenceInv, CapInv, MembersFit, Members, Unfinished
  <2>3. QED
    BY <2>1, <2>2
<1>2. ASSUME HostReboot
      PROVE  TypeOK' /\ IInv'
  <2>1. TypeOK'
    <3> USE DEF TypeOK
    <3>1. late' \in BOOLEAN /\ lost' \in BOOLEAN
      BY <1>2 DEF HostReboot
    <3>2. QED
      BY <1>2, <3>1 DEF HostReboot, Idle
  <2>2. IInv'
    BY <1>2, <2>1
       DEF HostReboot, Idle, TypeOK, IInv, RowInv, StoreInv,
           CallInv, FenceInv, CapInv, MembersFit, Members, Unfinished
  <2>3. QED
    BY <2>1, <2>2
<1>3. QED
  BY <1>1, <1>2, Zenon

-----------------------------------------------------------------------------
(* The theorems *)

\* There is no pool, no instance and no call at the start.
LEMMA InitInv == Init => TypeOK /\ IInv
PROOF
<1> SUFFICES ASSUME Init PROVE TypeOK /\ IInv
  OBVIOUS
<1>1. late \in BOOLEAN /\ lost \in BOOLEAN /\ pending \in Ops /\ args \in [Reqs -> Ops]
  BY DEF Init, Ops
<1>2. TypeOK
  BY <1>1, PoolAssumption DEF Init, TypeOK, Unlimited, NoDir, NoRow, Idle, Same, States
<1>3. Members = {}
  BY DEF Init, Members, NoRow
<1>4. RowInv /\ StoreInv
  BY <1>3 DEF Init, RowInv, StoreInv, NoRow, Idle, Same
<1>5. CallInv /\ FenceInv
  BY <1>3 DEF Init, CallInv, FenceInv, NoOp
<1>6. CapInv /\ MembersFit
  BY <1>3 DEF Init, CapInv, MembersFit
<1>7. QED
  BY <1>2, <1>4, <1>5, <1>6 DEF IInv

\* Every step keeps types and invariant.
LEMMA NextInv == TypeOK /\ IInv /\ [Next]_vars => TypeOK' /\ IInv'
PROOF
<1> SUFFICES ASSUME TypeOK, IInv, [Next]_vars PROVE TypeOK' /\ IInv'
  OBVIOUS
<1>1. CASE UNCHANGED vars
  BY <1>1 DEF vars, store, rows, runner, calls, TypeOK, IInv, RowInv, StoreInv, CallInv,
     FenceInv, CapInv, MembersFit, Members, Unfinished
<1>2. CASE Next
  BY <1>2, PoolCommandKeeps, InstanceCommandKeeps, RunnerKeeps, FailureKeeps DEF Next
<1>3. QED
  BY <1>1, <1>2

\* Types and inductive invariant hold in every reachable state.
THEOREM PoolInvariant == Spec => [](TypeOK /\ IInv)
PROOF
  BY InitInv, NextInv, PTL DEF Spec

\* The VMs of a pool run under a limit within what the host has reserved, however
\* resizes and starts are delayed and repeated.  Nothing but a deletion that removes
\* the directory of a prepared start takes the limit away, and the next start or
\* resize of the pool writes it again.
THEOREM PoolsAreCapped == Spec => []PooledVMsAreCapped
PROOF
<1>1. TypeOK /\ IInv => PooledVMsAreCapped
  BY DEF TypeOK, IInv, RowInv, CapInv, Members, Pooled, PooledVMsAreCapped
<1>2. QED
  BY <1>1, PoolInvariant, PTL

\* A row names a pool that exists, and a member that starts or runs fits it.
THEOREM PoolMembersFit == Spec => []MembersFit
PROOF
<1>1. TypeOK /\ IInv => MembersFit
  BY DEF IInv
<1>2. QED
  BY <1>1, PoolInvariant, PTL

-----------------------------------------------------------------------------
(* The memory of the host *)

\* What any instances cost is a number.
LEMMA UnitsAreFinite ==
    ASSUME NEW U \in SUBSET (Insts \X (1..FixedMemoryLimit(MaxSize)))
    PROVE  IsFiniteSet(U) /\ Cardinality(U) \in Nat
PROOF
<1>1. IsFiniteSet(1..FixedMemoryLimit(MaxSize))
  BY PoolAssumption, FS_Interval DEF FixedMemoryLimit
<1>2. IsFiniteSet(Insts \X (1..FixedMemoryLimit(MaxSize)))
  BY <1>1, PoolAssumption, FS_Product
<1>3. IsFiniteSet(U)
  BY <1>2, FS_Subset
<1>4. QED
  BY <1>3, FS_CardinalityType

\* Fewer units are a smaller number.
LEMMA FewerUnits ==
    ASSUME NEW U \in SUBSET (Insts \X (1..FixedMemoryLimit(MaxSize))), NEW V \in SUBSET U
    PROVE  Cardinality(V) <= Cardinality(U)
PROOF
  BY UnitsAreFinite, FS_Subset

\* One instance of m units adds no more than m.
LEMMA UnitsOfOne ==
    ASSUME NEW U \in SUBSET (Insts \X (1..FixedMemoryLimit(MaxSize))), NEW i \in Insts,
           NEW m \in 0..FixedMemoryLimit(MaxSize)
    PROVE  Cardinality(U \cup ({i} \X (1..m))) <= Cardinality(U) + m
PROOF
<1> USE PoolAssumption DEF FixedMemoryLimit
<1>1. IsFiniteSet(1..m) /\ Cardinality(1..m) = m
  BY FS_Interval
<1>2. IsFiniteSet({i}) /\ Cardinality({i}) = 1
  BY FS_Singleton
<1>3. IsFiniteSet({i} \X (1..m)) /\ Cardinality({i} \X (1..m)) = 1 * m
  BY <1>1, <1>2, FS_Product
<1>4. IsFiniteSet(U) /\ Cardinality(U) \in Nat
  BY UnitsAreFinite
<1>5. Cardinality(U \cap ({i} \X (1..m))) \in Nat
  BY UnitsAreFinite
<1>6. Cardinality(U \cup ({i} \X (1..m))) =
        Cardinality(U) + Cardinality({i} \X (1..m)) - Cardinality(U \cap ({i} \X (1..m)))
  BY <1>3, <1>4, FS_Union
<1>7. QED
  BY <1>3, <1>4, <1>5, <1>6

\* What may run is counted by the rows.
LEMMA RowsCountVMs ==
    ASSUME TypeOK, IInv
    PROVE  \A i \in FixedVMs : i \in Insts /\ ReservesFixed(i)
PROOF
  BY DEF FixedVMs, ReservesFixed, TypeOK, States, IInv, RowInv

\* The room that admission has found is there for what may run.
LEMMA RoomIsReal ==
    ASSUME TypeOK, IInv, NEW n \in Nat, HostHasRoom({}, n)
    PROVE  FixedMemory(FixedVMs) + reserved + n <= Budget
PROOF
<1> DEFINE All == {i \in Insts \ {} : ReservesFixed(i)}
<1>1. Units(FixedVMs) \subseteq Units(All)
  BY RowsCountVMs DEF Units
<1>2. Units(All) \subseteq Insts \X (1..FixedMemoryLimit(MaxSize))
  BY DEF Units
<1>3. FixedMemory(FixedVMs) <= FixedMemory(All)
  BY <1>1, <1>2, FewerUnits DEF FixedMemory
<1>4. FixedMemory(FixedVMs) \in Nat /\ FixedMemory(All) \in Nat
  BY <1>1, <1>2, UnitsAreFinite DEF FixedMemory
<1>5. reserved \in Nat /\ (pool = None => reserved = 0)
  BY PoolAssumption DEF TypeOK, IInv, StoreInv
<1>6. FixedMemory(All) + reserved + n <= Budget
  BY <1>4, <1>5 DEF HostHasRoom, TotalReserved
<1>7. QED
  BY <1>3, <1>4, <1>5, <1>6, PoolAssumption

\* So is what may run.
LEMMA VMsCostANumber == FixedMemory(FixedVMs) \in Nat
PROOF
<1>1. Units(FixedVMs) \subseteq Insts \X (1..FixedMemoryLimit(MaxSize))
  BY DEF Units, FixedVMs
<1>2. QED
  BY <1>1, UnitsAreFinite DEF FixedMemory

\* A step that starts nothing, and changes no memory of what may run, costs nothing.
LEMMA CostStays ==
    ASSUME \A i \in Insts : inst'[i].pool = None /\ start'[i].at # "none" =>
              i \in FixedVMs /\ inst'[i].mem = inst[i].mem
    PROVE  /\ FixedMemory(FixedVMs)' <= FixedMemory(FixedVMs)
           /\ FixedMemory(FixedVMs)' \in Nat /\ FixedMemory(FixedVMs) \in Nat
PROOF
<1>1. Units(FixedVMs)' \subseteq Units(FixedVMs)
  BY DEF Units, FixedVMs
<1>2. Units(FixedVMs) \subseteq Insts \X (1..FixedMemoryLimit(MaxSize))
  BY DEF Units, FixedVMs
<1>3. QED
  BY <1>1, <1>2, UnitsAreFinite, FewerUnits DEF FixedMemory

\* One more VM costs what it was admitted for.
LEMMA LaunchFits ==
    ASSUME TypeOK, IInv, HostInv, NEW i \in Insts, NEW m \in 0..MaxSize,
           NEW p \in Pools \cup {None}, Admitted(i, m, p), Launching(i, m, p),
           UNCHANGED <<store, runner>>
    PROVE  HostInv'
PROOF
<1> USE PoolAssumption DEF store, runner
<1>1. /\ inst'[i].mem = m /\ inst'[i].pool = p
      /\ \A j \in Insts \ {i} : inst'[j] = inst[j] /\ start'[j] = start[j]
  BY DEF TypeOK, Launching
<1>2. reserved \in Nat /\ (pool = None => reserved = 0)
  BY DEF TypeOK, IInv, StoreInv
<1>3. CASE p # None
  <2>1. \A j \in Insts : inst'[j].pool = None /\ start'[j].at # "none" =>
           j \in FixedVMs /\ inst'[j].mem = inst[j].mem
    BY <1>1, <1>3 DEF FixedVMs
  <2>2. QED
    BY <1>2, <2>1, CostStays DEF HostInv
<1>4. CASE p = None
  <2> DEFINE Others == {j \in Insts \ {i} : ReservesFixed(j)}
             one == {i} \X (1..FixedMemoryLimit(m))
  <2>1. Units(FixedVMs)' \subseteq Units(Others) \cup one
    <3>1. SUFFICES ASSUME NEW u \in Units(FixedVMs)', u \notin one
                   PROVE  u \in Units(Others)
      OBVIOUS
    <3>2. /\ u \in Insts \X (1..FixedMemoryLimit(MaxSize)) /\ u[1] \in FixedVMs'
          /\ u[2] <= FixedMemoryLimit(inst'[u[1]].mem)
      BY DEF Units, FixedVMs
    <3>3. u[1] # i
      BY <1>1, <3>1, <3>2 DEF FixedMemoryLimit
    <3>4. u[1] \in FixedVMs /\ inst'[u[1]].mem = inst[u[1]].mem
      BY <1>1, <3>2, <3>3 DEF FixedVMs
    <3>5. QED
      BY <3>2, <3>3, <3>4, RowsCountVMs DEF Units
  <2>2. /\ Units(Others) \subseteq Insts \X (1..FixedMemoryLimit(MaxSize))
        /\ one \subseteq Insts \X (1..FixedMemoryLimit(MaxSize))
    BY DEF Units, FixedMemoryLimit
  <2>3. FixedMemory(FixedVMs)' <= Cardinality(Units(Others) \cup one)
    BY <2>1, <2>2, FewerUnits DEF FixedMemory
  <2>4. Cardinality(Units(Others) \cup one) <= FixedMemory(Others) + FixedMemoryLimit(m)
    <3>1. FixedMemoryLimit(m) \in 0..FixedMemoryLimit(MaxSize)
      BY DEF FixedMemoryLimit
    <3>2. QED
      BY <2>2, <3>1, UnitsOfOne DEF FixedMemory
  <2>5. /\ FixedMemory(FixedVMs)' \in Nat /\ FixedMemory(Others) \in Nat
        /\ Cardinality(Units(Others) \cup one) \in Nat
    BY <2>1, <2>2, UnitsAreFinite DEF FixedMemory
  <2>6. FixedMemory(Others) + reserved + FixedMemoryLimit(m) <= Budget
    BY <1>2, <1>4, <2>5 DEF Admitted, HostHasRoom, TotalReserved, FixedMemoryLimit
  <2>7. FixedMemory(FixedVMs)' + reserved <= Budget
    BY <1>2, <2>3, <2>4, <2>5, <2>6 DEF FixedMemoryLimit
  <2>8. QED
    BY <2>7 DEF HostInv
<1>5. QED
  BY <1>3, <1>4

\* A step that starts no VM with fixed memory leaves the host as it was, if the
\* reservation of the pool fits.
LEMMA HostStays ==
    ASSUME HostInv, reserved \in Nat, reserved' \in Nat,
           limit' \in Sizes => limit' <= reserved',
           reserved' <= reserved \/ FixedMemory(FixedVMs) + reserved' <= Budget,
           \A j \in Insts : inst'[j].pool = None /\ start'[j].at # "none" =>
              j \in FixedVMs /\ inst'[j].mem = inst[j].mem
    PROVE  HostInv'
PROOF
<1>1. /\ FixedMemory(FixedVMs)' <= FixedMemory(FixedVMs)
      /\ FixedMemory(FixedVMs)' \in Nat /\ FixedMemory(FixedVMs) \in Nat
  BY CostStays
<1>2. FixedMemory(FixedVMs) + reserved' <= Budget
  BY <1>1, PoolAssumption DEF HostInv
<1>3. FixedMemory(FixedVMs)' + reserved' <= Budget
  BY <1>1, <1>2, PoolAssumption
<1>4. limit' \in Sizes' => limit' <= reserved'
  BY DEF Sizes
<1>5. QED
  BY <1>3, <1>4 DEF HostInv

\* Only a new pool, and one that grows, take more of the host.
LEMMA PoolCommandFits ==
    ASSUME TypeOK, IInv, HostInv, PoolCommand
    PROVE  HostInv'
PROOF
<1> USE PoolAssumption DEF store, rows, runner, calls, Sizes, NoDir, Unlimited
<1>1. reserved \in 0..MaxSize /\ limit \in 0..MaxSize + 1
  BY DEF TypeOK
<1>2. ASSUME NEW p \in Pools, NEW s \in Sizes, CreateMemoryPool(p, s)
      PROVE  HostInv'
  <2>1. reserved = 0 /\ limit \notin Sizes
    BY <1>1, <1>2 DEF CreateMemoryPool, IInv, StoreInv, HostInv
  <2>2. FixedMemory(FixedVMs) + s <= Budget
    <3>1. FixedMemory(FixedVMs) + reserved + s <= Budget /\ FixedMemory(FixedVMs) \in Nat
      BY <1>2, RoomIsReal, VMsCostANumber DEF CreateMemoryPool
    <3>2. QED
      BY <2>1, <3>1
  <2>3. QED
    BY <1>1, <1>2, <2>1, <2>2, HostStays DEF CreateMemoryPool, FixedVMs
<1>3. ASSUME NEW r \in Reqs, NEW s \in Sizes, BeginMemoryPoolResize(r, s)
      PROVE  HostInv'
  <2>1. s > reserved => FixedMemory(FixedVMs) + s <= Budget
    <3>1. HAVE s > reserved
    <3>2. s - reserved \in Nat
      BY <1>1, <3>1
    <3>3. FixedMemory(FixedVMs) + reserved + (s - reserved) <= Budget
      BY <1>3, <3>1, <3>2, RoomIsReal DEF BeginMemoryPoolResize, GrowthFits
    <3>4. QED
      BY <1>1, <3>3, VMsCostANumber
  <2>2. /\ reserved' = IF s > reserved THEN s ELSE reserved
        /\ UNCHANGED <<inst, start, limit>>
    BY <1>3 DEF BeginMemoryPoolResize, ReservedMeanwhile
  <2>3. limit' \in Sizes => limit' <= reserved'
    BY <1>1, <2>2 DEF HostInv
  <2>4. QED
    BY <1>1, <2>1, <2>2, <2>3, HostStays DEF FixedVMs
<1>4. CASE FinishMemoryPoolResize
  <2>1. pending # NoOp /\ pending.size \in Sizes /\ pending.size <= reserved
    BY <1>4 DEF FinishMemoryPoolResize, TypeOK, Ops, IInv, StoreInv
  <2>2. receipt[pending.req] = "done" => limit \in {NoDir, pending.size}
    BY <2>1 DEF IInv, CallInv
  <2>3. /\ reserved' = IF receipt[pending.req] = "done" THEN pending.size ELSE reserved
        /\ UNCHANGED <<inst, start, limit>>
    BY <1>4 DEF FinishMemoryPoolResize
  <2>4. limit' \in Sizes => limit' <= reserved'
    BY <1>1, <2>1, <2>2, <2>3 DEF HostInv
  <2>5. QED
    BY <1>1, <2>1, <2>3, <2>4, HostStays DEF FixedVMs
<1>5. CASE DeleteMemoryPool
  <2>1. reserved' = 0 /\ limit' = 0 /\ UNCHANGED <<inst, start>>
    BY <1>5 DEF DeleteMemoryPool, IInv, StoreInv
  <2>2. QED
    BY <1>1, <2>1, HostStays DEF FixedVMs
<1>6. CASE \/ \E s \in Sizes : RetryMemoryPoolResize(s)
           \/ SendResize \/ ResizePending \/ BeginDeletePool \/ DeletePoolFails
  <2>1. UNCHANGED <<inst, start, limit, reserved>>
    BY <1>6 DEF RetryMemoryPoolResize, SendResize, ResizePending, BeginDeletePool,
       DeletePoolFails
  <2>2. QED
    BY <1>1, <2>1, HostStays DEF FixedVMs, HostInv
<1>7. QED
  BY <1>2, <1>3, <1>4, <1>5, <1>6, Zenon DEF PoolCommand

\* Only a create and a start launch a VM; no row changes its memory under one.
LEMMA InstanceCommandFits ==
    ASSUME TypeOK, IInv, HostInv, InstanceCommand
    PROVE  HostInv'
PROOF
<1> USE PoolAssumption DEF store, rows, runner, calls, Sizes
<1>1. reserved \in 0..MaxSize /\ (limit \in Sizes => limit <= reserved)
  BY DEF TypeOK, HostInv
<1>2. /\ inst \in [Insts -> [st : States, mem : 0..MaxSize, pool : Pools \cup {None}]]
      /\ start \in [Insts -> [at : {"none", "called", "prepared", "live"}, size : 0..MaxSize]]
      /\ change \in [Insts -> [mem : 0..MaxSize, pool : Pools \cup {None}]]
  BY DEF TypeOK
<1>3. PICK i \in Insts :
        \/ \E m \in Sizes, p \in Pools \cup {None} :
              Create(i, m, p) \/ Import(i, m, p) \/ Resize(i, m, p)
        \/ ImportEnds(i) \/ Start(i) \/ StartAnswered(i) \/ Stop(i) \/ Stopped(i) \/ Delete(i)
        \/ ResizeCommits(i) \/ ResizeFails(i)
        \/ \E m \in Sizes : RestoreBackup(i, m)
  BY Zenon DEF InstanceCommand
<1>4. /\ inst[i].st \in {"none", "importing", "stopped", "failed"} => start[i].at = "none"
      /\ change[i] # Same => inst[i].st = "stopped"
  BY DEF IInv, RowInv
<1>5. ASSUME NEW m \in Sizes, NEW p \in Pools \cup {None}, Create(i, m, p)
      PROVE  HostInv'
  BY <1>5, LaunchFits DEF Create
<1>6. CASE Start(i)
  <2>1. inst[i].mem \in 0..MaxSize /\ inst[i].pool \in Pools \cup {None}
    BY <1>2
  <2>2. QED
    BY <1>6, <2>1, LaunchFits DEF Start
<1>7. CASE \/ \E m \in Sizes, p \in Pools \cup {None} : Import(i, m, p) \/ Resize(i, m, p)
           \/ ImportEnds(i) \/ Delete(i) \/ ResizeCommits(i) \/ ResizeFails(i)
           \/ \E m \in Sizes : RestoreBackup(i, m)
  <2>1. /\ start[i].at = "none" \/ inst' = inst
        /\ UNCHANGED <<start, limit, reserved>>
        /\ \A j \in Insts \ {i} : inst'[j] = inst[j]
    BY <1>2, <1>4, <1>7
       DEF Import, Resize, ImportEnds, Delete, ResizeCommits, ResizeFails, RestoreBackup
  <2>2. QED
    BY <1>1, <2>1, HostStays DEF FixedVMs
<1>8. CASE StartAnswered(i) \/ Stop(i) \/ Stopped(i)
  <2>1. /\ UNCHANGED <<limit, reserved>>
        /\ \A j \in Insts :
             /\ inst'[j].mem = inst[j].mem /\ inst'[j].pool = inst[j].pool
             /\ start'[j].at # "none" => start[j].at # "none"
    <3>1. CASE StartAnswered(i)
      BY <1>2, <3>1 DEF StartAnswered, Idle, Live
    <3>2. CASE Stop(i)
      BY <1>2, <3>2 DEF Stop
    <3>3. CASE Stopped(i)
      BY <1>2, <3>3 DEF Stopped, Idle
    <3>4. QED
      BY <1>8, <3>1, <3>2, <3>3
  <2>2. QED
    BY <1>1, <2>1, HostStays DEF FixedVMs
<1>9. QED
  BY <1>3, <1>5, <1>6, <1>7, <1>8, Zenon

\* The runner launches only what was called for, and writes only limits that are
\* reserved.
LEMMA RunnerFits ==
    ASSUME TypeOK, IInv, HostInv, Runner \/ Crash \/ HostReboot \/ UNCHANGED vars
    PROVE  HostInv'
PROOF
<1> USE PoolAssumption DEF store, rows, runner, calls, Sizes, NoDir, Unlimited
<1>1. /\ reserved \in 0..MaxSize /\ limit \in 0..MaxSize + 1
      /\ limit \in Sizes => limit <= reserved
  BY DEF TypeOK, HostInv
<1>2. start \in [Insts -> [at : {"none", "called", "prepared", "live"}, size : 0..MaxSize]]
  BY DEF TypeOK
<1>3. ASSUME NEW i \in Insts, PrepareCgroup(i) \/ PrepareFails(i)
      PROVE  HostInv'
  <2>1. i \in Members
    BY <1>3 DEF PrepareCgroup, PrepareFails, Pooled, Members, IInv, RowInv
  <2>2. start[i].size \in 1..reserved
    BY <1>3, <2>1 DEF PrepareCgroup, PrepareFails, IInv, CapInv
  <2>3. /\ limit' \in Sizes => limit' <= reserved
        /\ UNCHANGED <<inst, reserved>>
        /\ \A j \in Insts : start'[j].at # "none" => start[j].at # "none"
    BY <1>1, <1>2, <1>3, <2>2 DEF PrepareCgroup, PrepareFails, Idle
  <2>4. QED
    BY <1>1, <2>3, HostStays DEF FixedVMs
<1>4. ASSUME NEW i \in Insts, LaunchVM(i) \/ VMExit(i)
      PROVE  HostInv'
  <2>1. /\ limit' \in {limit, Unlimited} /\ UNCHANGED <<inst, reserved>>
        /\ \A j \in Insts : start'[j].at # "none" => start[j].at # "none"
    BY <1>2, <1>4 DEF LaunchVM, JailerLimit, VMExit, Idle, Live
  <2>2. QED
    BY <1>1, <2>1, HostStays DEF FixedVMs
<1>5. ASSUME NEW r \in Reqs, ResizeMemoryPool(r)
      PROVE  HostInv'
  <2>1. pending.req = r /\ pending # NoOp
    BY <1>5 DEF ResizeMemoryPool, IInv, CallInv, NoOp
  <2>2. args[r].size <= reserved
    BY <2>1 DEF IInv, StoreInv
  <2>3. limit' \in {limit, args[r].size} /\ UNCHANGED <<inst, start, reserved>>
    BY <1>5 DEF ResizeMemoryPool, CgroupOutcomes, LostUnlessWritten
  <2>4. QED
    BY <1>1, <2>2, <2>3, HostStays DEF FixedVMs
<1>6. CASE DeleteMemoryPoolCgroup \/ HostReboot
  <2>1. /\ limit' = 0 /\ UNCHANGED <<inst, reserved>>
        /\ \A j \in Insts : start'[j].at # "none" => start[j].at # "none"
    BY <1>2, <1>6 DEF DeleteMemoryPoolCgroup, HostReboot, Idle
  <2>2. QED
    BY <1>1, <2>1, HostStays DEF FixedVMs
<1>7. CASE Crash \/ UNCHANGED vars
  <2>1. UNCHANGED <<inst, start, reserved, limit>>
    BY <1>7 DEF Crash, vars
  <2>2. QED
    BY <1>1, <2>1, HostStays DEF FixedVMs
<1>8. QED
  BY <1>3, <1>4, <1>5, <1>6, <1>7, Zenon DEF Runner

\* What was promised to VMs that run or may come up, and to the pool, never exceeds
\* the memory of the host, for any number of instances, pools and resizes.
THEOREM PromisesAreCovered == Spec => []PromisesFitHost
PROOF
<1>1. Init => HostInv
  <2>1. SUFFICES ASSUME Init PROVE HostInv
    OBVIOUS
  <2>2. FixedVMs = {} /\ reserved = 0 /\ limit = 0
    BY <2>1 DEF Init, FixedVMs, Idle, NoDir
  <2>3. Units({}) = {}
    BY DEF Units
  <2>4. QED
    BY <2>2, <2>3, FS_EmptySet, PoolAssumption DEF HostInv, FixedMemory, Sizes
<1>2. (TypeOK /\ IInv) /\ HostInv /\ [Next]_vars => HostInv'
  BY PoolCommandFits, InstanceCommandFits, RunnerFits DEF Next
<1>3. TypeOK /\ HostInv => PromisesFitHost
  BY DEF TypeOK, HostInv, PromisesFitHost
<1>4. QED
  BY <1>1, <1>2, <1>3, PoolInvariant, PTL DEF Spec
=============================================================================
