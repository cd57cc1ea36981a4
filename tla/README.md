# A TLA+ model of srv

`srv` is a self-hosted control plane that serves SSH commands and runs one
Firecracker microVM per instance. This directory holds TLA+ specifications of
the parts of it that are stateful, concurrent or must survive failures, TLC
configurations that check them on small instances, and TLAPS proofs.
`PROJECT.json` maps every definition to the lines it models.

Paths below are relative to `src/internal/` unless they begin with `src/`.

## 1. The system

Three processes cooperate on a host, and talk over unix sockets:

```
 SSH clients ──> srv (control plane)  ──> srv-vm-runner (root)  ──> Firecracker
                 service, provision,  ──> srv-net-helper (root) ──> tap, nftables
                 store (SQLite)
```

The control plane decides and remembers; the two helpers have the privileges.
A helper call can time out while the helper goes on working, any of the
processes can die and be restarted by systemd, and the host can reboot.

### Inventory

| Component | State it keeps | Operations | What makes it hard | What makes it correct |
|---|---|---|---|---|
| Start receipts (`vmrunner/receipts.go`, `cleanup.go`) | one durable receipt per launch attempt; processes, jails, sockets; deletion fences | start, start-result, stop, drain, fence, proof | calls arrive late, twice, out of order; runner dies between acceptance and launch; VMs of older releases without receipt | one VM per name, one launch per attempt, "absent" and "deleted" are final |
| RAM state (`vmrunner/ram_state.go`) | published RAM image and the identity of its disk | capture on stop, check, stage on start | disk changed between capture and resume; failed launch after the image was consumed | an image is resumed at most once and only on its own disk |
| Instance lifecycle (`provision/provision.go`, `start_outcome.go`) | the instance row, the network of the instance | create, start, stop, restart, delete, reconcile, sweep, startup pass | each operation is several durable steps on three processes | row, network and runner agree; what was requested happens |
| Lifecycle requests and cleanup receipts (`store/requests.go`, `store/cleanup.go`, `service/orb*.go`, `provision/cleanup.go`) | request rows, cleanup fences, receipts, tombstones, generation marks | admit, begin, finish, cancel, interrupt, bootstrap, delete with proof | replay after a lost answer, restart in the middle, two kinds of delete | effects happen once; a receipt is true; a deletion completes |
| Command gate and locks (`service/snapshot.go`, `service/service.go`) | barrier flag, in-flight count, condition variable, lock map, service mutex | begin, promote, release, lock, unlock, audit | goroutines in any order, cancelled contexts | exclusion, exact counters, no lost wake-up |
| Memory pools and admission (`provision/provision.go`, `store/sqlite.go`, `vmrunner/pools.go`) | pool rows, pending resizes, resize receipts, cgroup limits | create, resize, delete, admit | two-phase resize against starts; late calls to a pool with the same name | running VMs are capped; promises fit the host |
| Cold disks (`vmrunner/cold_disk.go`, `provision/cold_disk.go`, `service/cold_retention.go`) | root-owned journal, public marker, restore candidate, tombstones | offload, hydrate, purge, delete, retention pass | remote publication and local removal cannot be atomic; late calls | the contents exist in one place the journal names |
| Cold store (`coldstore/`) | objects with parents, permanent deletion records | put, get, stat, delete, discard | commands that outlive their client | nothing comes back after a deletion; a child keeps its parent |
| Backup and restore (`provision/backup.go`) | backup directories, recovery links | create, restore, export, import | several renames with a rollback that can fail | the replaced files are kept until the row has changed |
| Disk layout and resize (`provision/disk.go`, `base_disk.go`, `provision.go`) | subvolumes, layout journal | move into a subvolume, grow | interruption at any step, resumed by another command | what a start accepts is whole |
| Kernel upgrade (`provision/upgrade.go`) | upgrade journal, retained disk | upgrade, rollback, finalize | disk and kernel change separately | kernel and modules are a pair; a way back exists |
| Templates (`provision/template*.go`) | template directories | create, verify, delete | source changes | the pair is carried along, the identity is not |
| Migration (`provision/migration.go`, `service/migration.go`, `store/migration.go`, `vmrunner/migration_disk.go`, `front/front.go`) | migration record on the source, import receipt on the target, transfer objects | prepare, transfer, import, finish, recover | lost peer, lost frontend, no retries | one live copy, and the current one |
| Balloon controller (`vmrunner/balloon_pool.go`) | targets | tick | arithmetic at limits | bounded targets |
| Network helper (`nethelper/`) | taps, rules | up, down, forget | late calls | nothing left behind |
| Gateways, routing of the front, orb dispatcher, images | mostly requests in flight | | | |

Who calls whom: `service` serialises commands per instance name with
`lockInstance` and calls `provision`; `provision` writes rows through `store`
and calls the two helpers; a background goroutine restores instances after a
start of the service and then sweeps every 30 seconds (`service.go` 582-702).
Nothing is called back: an answer that is lost is looked up later with the
request ID that was stored before the call.

## 2. The modules

```
 RunnerContract  <── implemented by ──  StartReceipts  <──  StartReceiptsProofs
       ^                                     ^
   EXTENDS                             MCStartReceipts
       |
   Lifecycle         <── MCLifecycle,         LifecycleProofs
   LifecycleRequests <── MCLifecycleRequests, LifecycleRequestsProofs
   CommandGate       <── MCCommandGate,       CommandGateProofs
   MemoryPool        <── MCMemoryPool,        MemoryPoolProofs
   Migration         <── MCMigration,         MigrationProofs
   InstanceDisk      <── MCInstanceDisk,      InstanceDiskProofs

 DiskContract <── implemented by ── ColdDisk <── MCColdDisk, ColdDiskProofs
                                       |  EXTENDS
                                    ColdStore
```

**StartReceipts** models the runner for one instance name. An attempt is a
request ID bound to an incarnation (`InstanceID`) and to a host boot. Every
handler is an action that is enabled for every attempt issued so far, which is
how late, repeated and reordered calls come in. A handler that only reads and
writes journals under the flock of the name (`lockNameInherited`) is one step.
A launch is the steps accept, stage, spawn, record (`receiptStart`, `startVM`),
a stop is save, kill, close (`stopReceiptLocked`): between them the runner can
die (`RunnerRestart`), the VM can end (`VMExit`) and the host can reboot
(`HostReboot`). `pc` and `holder` say which handler has the name. A VM without
a receipt, left by an older release, is the process `Legacy`. A drain
(`handleDrain`) is admission closed, inventory, stops. RAM images carry the
version of the disk they were captured with; `HostDiskChange` is what disk
commands of the control plane do to it.

**RunnerContract** is the abstract specification: the life of a receipt and of
the process launched under it, without locks, journals, images and drains.
StartReceipts implements it (`ImplementsContract`; `spawned` is the attempts
launched, `old` those issued under an earlier boot).

**Lifecycle** composes the contract with the control plane: one instance row,
its network, and every operation of the provisioner on it. The instance lock
makes operations exclusive, so there is one `op`/`pc`; it does not make them
atomic. Calls to the runner outlive their caller (`calls`, `halting`, `hold`).
`Crash` loses the operation and keeps row, network and runner; `HostReboot` also
ends VMs and the network. `Resolve*` is `resolveRuntime`, shared by start, stop,
delete, list and the sweep. `ResolveFails`, `StartUncertain`, `HaltFails` and the
others are the error returns.

**LifecycleRequests** models the durable request rows, the cleanup fences and
receipts of one name over several incarnations. A store call is one transaction
and one step; a worker holds the instance lock, can fail between any two store
calls, and the service can restart (`InterruptLifecycleRequests`). The teardown
is its ordered list of stages, each of which can fail.

**CommandGate** models the goroutines of the service: the snapshot barrier with
its explicit condition variable, the three stages of the host snapshot taken behind
it, the reference-counted lock map, the service mutex, and the audit row written after
the lease was given up. What the snapshot accepts as the disk of an instance is
`SnapshotTakes` in InstanceDisk.

**MemoryPool** models admission against the memory of the host and of a pool:
the pool row with its pending resize, the rows of the instances, the limit of the
pool's cgroup, the receipts of resizes, and the calls still under way. A command
that decides under `admissionMu` is one step; `mu` keeps the lock for a pool
resize or deletion that waits for the runner, and the resize of an instance is
two steps because it gives the lock up in between. There is one pool name and
several pool IDs, since the runner knows names only. Of the lifecycle only the
states that admission looks at are kept: what `Lifecycle` shows is assumed, namely
that a row leaves `provisioning` only when its attempt is launched or closed. A
deletion whose caller gave up is `late`: the runner may still carry it out, in
particular between the preparation of a start (`PrepareCgroup`) and its launch, since
`poolMu` is not kept for the launch. The jailer is external; in a directory that is
gone it fails or makes it anew, without a limit (`JailerLimit`). The ghost `lost` marks
that the limit went that way and was not written since. The migration fence is left out, memory usage is
free, and a restore may bring back any RAM size, because outside a pool a stopped
instance can be resized to any. The sum that `sumReservedCapacity` forms over the rows
is the number of units of memory they have (`FixedMemory`, the size of a set of pairs
of an instance and a unit).

**ColdStore** is the remote object store. Every forced command holds the namespace
lock from its first check to its last rename, so an operation is one step; a crash
after the deletion record and before the rename is a second outcome. A command
whose client is gone is on `wire` and runs later or never.

**ColdDisk** puts the cold disk of one name on top of it. The runner holds the
flock of the name from admission to reply, so there is one `op`, whose next step is
`pc`; before each step it can fail (`StepFails`) or the runner can die (`Crash`).
`After` gives the order of the steps, and an action performs the step it names. Every write of the record is journal first, then marker. Calls wait
in `calls` and are admitted at any time, or never. Incarnations follow one another
under the name. `DiskContract` is the abstract specification: contents are local or
remote, move unchanged, change only on the host and are given up only for a
condemned incarnation. The mapping takes "remote" to be what hydration could really
bring back (`Retrievable`), so an object that nobody could find counts as lost.

**Migration** moves one instance between hosts. Each host has the row, the migration
record and the import receipt of its store, its disk, and one command at a time; the
frontend is a process that sends the host commands in order and never retries. A
command may outlive the frontend. `Operator*` are the rows of the recovery table in
`src/docs/getting-started/multi-host.md` (276-330), taken only when the frontend is
gone. Before they import again, discard or abort they look at every host
(`NoLaterCopy`): the guide asks that "all destination copies of the guest identity are
destroyed", and a copy may have been moved on from the target. Tokens name the transfer
snapshots and objects (`coldstore/local.go`). `ver` is the last write of the guest, so a
stale copy can be told from the current one.

**InstanceDisk** is the disk of one instance on its host: layout move, backup,
restore, upgrade, rollback, finalization, growth and template. A command is a plan, a
function from each durable step to the next one (`Plan`, `After`), and `pc` is the step
to come; a command that needs the layout move has its missing steps in front
(`LayoutFirst`). Each step can fail (with the error path of the code: rollback, removal of
the stage) or be the last one before a crash. An image carries the guest data, the
kernel modules inside, and the sizes of file and filesystem, which is what the
properties compare. A kernel is the path of it: `configuration.md` (136-141) tells
operators to use versioned paths, and an upgrade draws private ones. The administrator
configures another one between commands (`InstallKernel`), because the configuration is
read when the control plane starts. Leftovers in `disk/` are explicit, because
`ValidateDiskSubvolume` refuses them.

Each module has, next to some definitions, mutated forms of them (`Mutant:`):
plausible bugs, each of which makes TLC find one property violated. They are not
part of any specification.

## 3. What is checked

| Run | Instance | States | Shows |
|---|---|---|---|
| `start_receipts` | 3 attempts (2 of the old incarnation, 1 of the new), legacy VM, 1 reboot, 1 disk change | 2.1M | `AtMostOneVM`, `LiveVMKeepsPaths`, `DeletionProofIsFinal`, `DrainedHostIsIdle`, `ResumeOwnIncarnation`, `ResumeFitsDisk`, `AbsentMeansVacant`, refinement `ImplementsContract` |
| `lifecycle` | 2 attempts, crashes and reboots unbounded | 145k | `NetworkUnderVM`, `StoppedMeansGone`, `SupersededAreClosed`, `StopHolds`; liveness `StopCompletes`, `StartIsResolved` |
| `lifecycle_requests` | 2 incarnations; start, 2 bootstraps and a proof deletion of the first, a stop of the second, a plain deletion of each, 1 generation, 2 stages | 204k | `ExecutedOnce`, `CancelledNeverRuns`, `FencedInstanceUntouched`, `ReceiptMeansTornDown`; liveness `DeletionCompletes` |
| `command_gate` | 3 goroutines, 2 names | 28k | `NoCommandDuringCapture`, `InstanceExclusion`; liveness `SnapshotProceeds`, `LockIsGranted` |
| `memory_pool` | 2 pools of one name, 2 instances, 1 resize, sizes 1-2, a budget of 4 with 1 overhead per fixed VM | 2.3M | `PooledVMsAreCapped`, `MembersFit`, `PromisesFitHost` |
| `cold_disk` | 2 incarnations, 2 generations, 2 subvolumes, 1 guest write, 1 waiting call beside a delete, 1 remote command without client | 3.3M | `DeletedLeavesNoObject`, `ParentsKept`, `MarkerHasJournal`, `RuntimeHasDisk`, refinement `ImplementsDisk` |
| `migration` | 3 hosts, 3 incarnations, 2 migrations, 1 guest write, 2 faults | 787k | `OneLiveCopy`, `StartableIsCurrent`, `CopyAndDeviceKept`; liveness `NeverStranded` |
| `instance_disk` | 7 commands, 2 faults, 2 writes, 2 kernels, 2 sizes | 3.2M | `PathHoldsData`, `PairMatches`, `OriginalKept`, `Recoverable`, `SizeIsReal` |
| `host_restart`, `audit_write`, `pool_restore`, `stored_kernel` | as small as shows the point | | violations, see Findings |

Why the bounds are enough to be interesting. Receipts are compared pairwise (an
attempt against the attempt that has the name), so two attempts show every
conflict; the third belongs to a second incarnation. One reboot separates "this
boot" from "an earlier boot", which is all the code distinguishes. One disk change
can fall between capture and check or between check and resume. In Lifecycle the
second attempt is the successor of one whose call is still under way. Two teardown
stages are enough for "first done, second failed". Three goroutines are a snapshot,
a command it waits for, and one that arrives meanwhile. The second pool is the
replacement that a late resize or deletion could hit, also in the middle of a start;
with a budget of 4 a pool of 2
and a fixed VM of 2 do not fit together. In `cold_disk` the second generation is the
offload after a hydrate, the guest write makes the first copy stale, and the second
incarnation is the one a late call could hit; two subvolumes are one hydrate or one
re-creation, and longer chains are left to the proof. In `migration` the second token is a
move back, a move on to the third host or a second try, and the third incarnation is
what a second import draws. Seven commands in `instance_disk` are a backup, an upgrade,
a restore and what follows them.

Symmetry is used where nothing tells the values apart and no liveness is checked: the
two attempts of the old incarnation, pools, instances, requests, generations,
incarnations. Bounds are `MaxBoot`, `MaxDisk`, `MaxGen`, `Stages`, `MaxSize`,
`MaxDisks`, `MaxVer`, `MaxCalls`, `MaxWire`, `MaxInsts`, `MaxTokens`, `MaxKernel`,
`MaxCmds`, `MaxFaults` and the finite sets.

Deadlock is checked, except in `cold_disk`, `migration` and `instance_disk` (with
`stored_kernel`): there the user may delete the instance, or every bounded command
has been used.

### Fairness

- CommandGate: goroutines are scheduled (weak fairness of their own steps), and
  `sync.Mutex` in starvation mode hands itself to a long waiter (strong fairness
  of taking a lock). Nobody has to begin a command. The startup pass holds the
  service mutex while it waits for the lock of an instance, so `LockIsGranted` rests on
  what the code does not do: a command that has the lock of an instance never waits for
  the service mutex. Releasing a lock under that mutex would be enough to break it
  (`UnlockEntryUnderService`).
- LifecycleRequests: a command returns; the reconciliation pass reaches some fenced
  instance again and again, and whoever holds a deletion goes on; a stage of the
  teardown that is retried for ever is not refused for ever. Fairness is of the stage,
  not of the request that happens to run it.
- Lifecycle: the service and the runner go on; startup pass and sweep recur; and
  from some time on no user command, failure or avoidable error disturbs them.
  Before that time all of these may happen in any order, so the properties say
  that recovery works from every state the system can get into. An error that
  the runner cannot avoid (the outcome of a quarantined launch) stays allowed,
  and is the exception both properties name.
- Migration: a host finishes or fails the command it holds, the frontend goes on or
  gives up, and an interrupted migration is attended to by the operator of the guide.
  The code recovers nothing by itself, so without the operator `NeverStranded` would
  not hold; that each row of the table is accepted by the code and leads out is what
  the run shows. Faults are bounded, users are not fair.

## 4. What is proved

`StartReceiptsProofs` proves, for any set of attempts, any incarnations and any
bounds, from `ConstantsAssumption` alone:

- `OneVM`, `RunningVMKeepsPaths`, `ProofIsFinal`, `DrainIsComplete`, `ResumeIsSafe`,
  `ResumesItsOwn`: the invariants of the run;
- `AbsenceVouchesForName`: its action property;
- `TypeCorrect`, `NoSecondLaunch` (`LaunchedOnce`), `AbsenceIsFinal`,
  `QuarantineIsKept`, and in `ResumeIsSafe` also `ResumedOnce` and
  `CapturedSourceStaysPaused`. These are not in the run: what TLC would say of them
  it says with `ImplementsContract`, and the proof covers every instance.

The argument is one inductive invariant, `IInv`, in `StartReceipts`. None of the
safety invariants is inductive alone: that a VM runs at most once per name, say,
depends on what the receipts say of an attempt whose handler is still at work.

- `HandlerInv`: the handler in progress works on a receipt in the state its step
  requires; a launch that has not spawned finds the name empty and has not
  launched before.
- `OwnerInv`: at most one receipt is open; every process is that attempt's, or
  the legacy VM while nothing is open; a running VM has its paths.
- `ReceiptInv`: nothing is launched twice or without a receipt; an attempt that
  was answered absent is closed.
- `FenceInv`: a proved incarnation is fenced, and no open attempt is of a fenced
  incarnation.
- `DrainInv`: once admission is closed no start is inside, and after "done"
  nothing runs.
- `ImageInv`: an image is either published or with the launch that consumes it,
  was never resumed, and at that launch fits incarnation and disk; its source is
  closed, or still there and paused.

The proofs first show what the shared outcomes of handlers amount to (`Settles`,
`Signals`), then preservation action group by action group.

`KeepsContract`, in the same module, is the refinement: the detailed protocol implements
RunnerContract. It needs one more invariant, `IssuedInv` (boot IDs are not from
the future, the runner knows only issued attempts), shows that every step but the
issue of an attempt and a reboot is one of five moves (`Moves`), and maps each
move to an action of the contract.

The other proof modules have the same shape: one lemma per action or group of
actions that keeps the module's `TypeOK` and `IInv`, an `Invariant` theorem, and the
properties as consequences. Each `IInv` was checked by TLC on the bounds of the run
before it was proved. All of them are for every value of the constants; the
assumptions are typing of the constants, positive bounds, and that the marker `None`
(and `Removed`) is not one of the values it stands beside.

- `LifecycleProofs` (`LifecycleInvariant`): `NetworkStaysUnderVM`, `StoppedIsTrue`,
  `SupersededStayClosed`, `IntentHolds`. The invariant says which attempts may still be
  open (the one the row names, and while it is replaced the one being resolved), what
  the row says at every `pc`, and that whoever takes the network down has seen the
  attempt closed. It uses the contract only, so it holds over anything that implements
  it, and `KeepsContract` says that StartReceipts does.
- `LifecycleRequestsProofs` (`RequestsInvariant`): `RequestsExecuteOnce`,
  `CancelledIsFinal`, `FenceHolds`, `ReceiptsAreTrue`. The invariant ties the phase of
  a row to what its worker has done, also after a restart, and a fence to the one
  deletion that owns it.
- `CommandGateProofs` (`GateInvariant`): `CaptureIsAlone`, `InstancesAreExclusive`, for
  any number of goroutines. The counter of the barrier is the number of leases, the
  reference count of a lock object is the number of goroutines that hold a pointer to
  it, and an object with references is the one in the map. Cardinalities come from
  `FiniteSetTheorems`.
- `MemoryPoolProofs` (`PoolInvariant`): `PoolsAreCapped`, `PoolMembersFit`,
  `PromisesAreCovered`. A resize call that may still act at the runner is the pending one
  (`CallInv`); while it is pending no member starts and those that run fit it
  (`FenceInv`); a start carries no more than is reserved, and once its cgroup is prepared
  the limit is in force or was lost (`CapInv`). What is proved of the cap has the
  exception that `PooledVMsAreCapped` names, and no assumption on the jailer: only a
  deletion that falls between preparation and launch takes the limit away, and the next
  start or resize of the pool brings it back. `PromisesAreCovered` needs `HostInv` on top: it counts
  the VMs that may run, not the rows, whose sum can exceed the budget, because an
  import is not admitted against it and a failed row counts again while it is stopped,
  without a VM. Admission compares the rows with the budget, and the rows that reserve
  cover the VMs (`RowsCountVMs`), so that a launch fits when it was admitted; that one
  more VM adds at most its own cost is a fact about cardinalities (`FewerUnits`,
  `UnitsOfOne`).
- `MigrationProofs` (`MigrationInvariant`): `OneCopyIsLive`, `StartedIsCurrent`,
  `CopyIsKept`, for any number of hosts. Call an incarnation settled when its row is
  visible and not a partial import. The settled incarnation drawn last is the head
  (`Head`); all others are prepared or completed (`ChainInv`), hence fenced. A VM runs
  on the head only (`VMInv`), an import is alone and nothing can start while it goes on
  (`ImportInv`), a token belongs to one incarnation and its receipts to later ones
  (`TokInv`), and every snapshot, object and artifact of the head's token holds every
  write (`HeadInv`). A source is completed only after a later incarnation was seen
  (`FrontInv`), and released only when there is none. Thirteen actions change nothing of
  this (`FrameStep`); the others have a lemma each.
- `ColdDiskProofs` (`ColdInvariant`): `DeletedIsGone`, `ParentsStay`, `MarkerIsJournaled`,
  `RuntimeKeepsDisk`, and the refinement `ColdImplementsDisk`. The journal names at most
  one generation, and nothing of any other can be published any more (`GenInv`,
  `NoUpload`: it is recorded as deleted, or no upload of it is under way); a record in a
  phase in which the local disk may be gone names a verified object with the contents it
  promises, unless a delete has begun (`JournalInv`). `OpInv`, `RecInv` and `StepInv` say for
  each `pc` what the handler has established, and the working copy of the record differs
  from the journal only between a write to one and to the other; `RowInv` keeps the
  incarnations apart. `DataSafe` (the disk is here or can be brought back) is what the
  refinement rests on: it is kept by a step only together with the rest, since a purge
  of the remote copy is safe because `StepInv` has the local disk, and an eviction
  because it has the verified object. Late calls are harmless because admission looks at
  the same facts again.
- `InstanceDiskProofs` (`DiskInvariant`): `DataIsKept`, `PairsMatch`, `OriginalStays`,
  `AlwaysRecoverable`, `SizeStaysReal`. `LayoutInv` says how far a layout move has come,
  from the files alone, so that any command can resume it; `DataInv` that the image in
  place fits the row (`Good`) unless a recovery link or a pending upgrade says otherwise,
  and those are what a start refuses; `KeptInv` that what is kept aside is a matching
  pair. `LayoutStepInv`, `RestoreInv`, `UpgradeInv` and `GrowInv` say for each `pc` what the
  command has done. Most of the properties speak of idle states, and are not inductive: that
  a rollback is accepted after a crash, say, depends on the step that was reached. Each of
  the steps has a lemma; a crash ends the command and leaves the files as they are, and
  keeps the invariant because its first parts speak of files and row at any step; a
  failed step also removes its temporary files, or turns a restore into its rollback.

In `ColdDisk` and `InstanceDisk` a lemma `Flow` computes the step that follows each step
of a plan, so the order in which the code acts enters the proofs in one place.

Every invariant and every safety action property of the passing runs is proved, and both
refinements are. Only model-checked:

- the liveness properties (`StopCompletes`, `StartIsResolved`, `DeletionCompletes`,
  `SnapshotProceeds`, `LockIsGranted`, `NeverStranded`): they rest on fairness, whose
  `ENABLED` is outside the prover's reach;
- the four violations, which are counterexamples.

## 5. Findings

- `audit_write`: `handleSession` gives up its lease, waits for the barrier to
  lift and writes the audit row without a lease (`service/service.go` 737-739).
  A snapshot that closes the gate in between captures while the row is written,
  although the documentation says that a snapshot waits for admitted commands.
- `host_restart`: SSH is served while the startup pass runs. `list` or `inspect`
  (or a crash after the write) can turn an instance that ran before a host reboot
  into "stopped" before the pass reaches it, and it is then not restarted, as the
  documentation says it is.
- `pool_restore`: `RestoreBackup` writes the RAM of the backup to a pooled
  instance without looking at its pool (`provision/backup.go` 357), although
  `docs/reference/operations.md` says that pooled guest RAM changes must stay
  within the pool. The next start is refused, so no VM outgrows the pool
  (`MembersFit`).
- `stored_kernel`: a start boots the kernel and initrd stored in the row
  (`applyConfiguredBootArtifacts`, `provision/provision.go` 1026, 1399-1413), and a
  restore stores those of the backup (`provision/backup.go` 354-355). `src/README.md`
  (54-55) and `src/docs/reference/configuration.md` (136-137) say so. The other
  documents say that every stopped guest picks up the configured `SRV_BASE_KERNEL` on
  its next start: `src/README.md` (280), `src/docs/reference/operations.md` (17, and the
  rollout and rollback procedure in 529-537), `src/docs/tasks/instance-lifecycle.md`
  (121, 192), `src/docs/tasks/build-custom-image.md` (94-99),
  `src/images/arch-base/README.md` (179), and of restored guests
  `src/docs/tasks/backup-and-restore.md` (68). The counterexample is an ordinary start.
  `PairMatches` holds because the code keeps the stored pair: the modules in the image
  belong to that kernel. It does not say that the configured kernel is booted.

Not a finding, because it depends on a program outside `src/`, but the reason for the
exception in `PooledVMsAreCapped`: `deleteMemoryPoolCgroup` ignores the context of its
request and removes the directory under `poolMu` (`vmrunner/vmrunner.go` 2364-2380), and
a start gives `poolMu` up between preparing the directory and launching (1974-2004).
Without the exception TLC finds, in seven steps: a pool is created; its deletion is
sent and its caller gives up; an instance is created in the pool; the runner prepares
the directory; the late deletion removes it; the VM is launched. If the jailer makes
the directory anew, the VM runs without the hard `memory.max` that
`src/docs/reference/operations.md` (557) promises until the next start or resize of the
pool writes it; if it does not, the start fails.

Not a disagreement with any document, but seen while looking for the invariant of
Migration: the recovery table of the guide (`src/docs/getting-started/multi-host.md`)
has the operator inspect the source and the target. With three hosts that is not enough
to abort: the target may have completed a migration of its own and been deleted, and the
copy is then on the third host. The sentence after the table ("all destination copies
of the guest identity are destroyed") covers the case and is what the model does.

Nor is this, seen in `instance_disk`: a crash in a
restore, a rollback that fails, or a recovery link that cannot be removed leaves files
in `disk/` that every later start refuses. Nothing is lost (`OriginalKept`), and
nothing wrong is booted (`PathHoldsData`), but an operator has to clean up;
`Recoverable` excepts exactly this state.

## 6. Not modelled

- The network rules; the balloon controller (arithmetic on samples); cgroups, jailer
  and mounts (one step that may fail); gateways and integrations (a stage of the
  teardown); routing and placement of the front; the orb dispatcher (any client of
  LifecycleRequests may do what it does); the refresh of the base disk; events,
  integrations and the schema migration of the store; configuration, formatting, the
  manual, images and units.
- Storage primitives (btrfs, flock, fsync) are assumed to work.
- Commands on a stopped disk against an offload that the runner admits late: ColdDisk
  and InstanceDisk are not composed.
- The `fence-delete` action of cold disks, which nothing but tests calls; the check of
  a filesystem (`CheckRootFS`), which changes nothing a property tells apart.
- Two states that no property forbids. A control plane that dies in the first start of
  a row before it stored a request ID (`provision/provision.go` 1028) leaves
  "provisioning" until the user runs stop, which is the documented way out; Lifecycle
  reaches it. Back-to-back snapshots can keep a finished session waiting for the
  barrier (`service/snapshot.go` 132), since the waiter re-checks a flag; the code
  promises no fairness between them.
- PIDs are not reused; starts without a request ID are not made by this control plane;
  the readiness protocol of a guest is one success or failure; an upload arrives whole
  or not at all.
- Details that are merged or left out because no property tells them apart. The two log
  files of an instance are one, and there is one to replace (`LinkLog`, `RenameLog`;
  `provision/backup.go` 1331, 1355-1358). A put of a base that outlives its client
  (`vmrunner/cold_disk.go` 567) is not on `wire`: a base has no parent, and a fenced one
  is refused. A failed import cleans up at once (`ImportFails`); the leftovers of a failed
  cleanup (`provision/backup.go` 824-825) are those of a crash. `CheckOrbBinding` drops
  the guards of `service/orb_operation.go` 46-53, which refuse more. A `create` over a
  failed row replaces it in one step (`provision/provision.go` 1258-1268).
- An export or import by a user of an instance that is not being migrated: which of the
  two copies is to live is left to the operator by the guide.

## 7. Where it could go on

1. The hazard without a property: composing `ColdDisk` with `InstanceDisk`, so that
   an offload admitted late meets a command on the stopped disk
   (`provision/cold_disk.go` 66).
2. The durable deletion binding of the network helper, next to the stages of
   LifecycleRequests.
3. The refresh of the base disk and the placement of the front, which are now part of
   their components' environment.
