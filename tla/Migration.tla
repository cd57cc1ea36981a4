------------------------------ MODULE Migration ------------------------------
(***************************************************************************)
(* Moving one named instance between hosts: the source's migration record, *)
(* the native disk transfer, the destination's import and its receipt      *)
(* (provision/migration.go, provision/backup.go, vmrunner/migration_disk.go*)
(* coldstore/local.go), driven by srv-front, which never retries, and by   *)
(* an operator who follows the recovery table of the multi-host guide.     *)
(* Each host runs one command on the name at a time (the instance lock);   *)
(* a command may outlive the frontend that sent it, and die with its host. *)
(***************************************************************************)
EXTENDS Naturals, FiniteSets

CONSTANTS
    Hosts,
    Origin,     \* the host the instance was created on
    MaxInsts,   \* bound: incarnations ever created
    MaxTokens,  \* bound: frontend migrations
    MaxVer,     \* bound: guest writes
    MaxFaults,  \* bound: crashes, lost connections and failed steps
    None,
    Removed     \* what remains of a transfer object: a fence of its ID

VARIABLES
    row,    \* the name's row on each host, or None
    mig,    \* the migrations row of each incarnation, or None
    rcpt,   \* its import_receipts row, or None
    disk,   \* the disk in the instance directory of each host, or None
    snap,   \* the source snapshot of each token, or None
    store,  \* per host and token: the transferred object, None or Removed
    base,   \* hosts whose migration store holds the shared image base
    art,    \* a saved portable artifact, or None
    vm,     \* hosts on which the instance's VM runs
    op,     \* the command under the instance lock of each host, or None
    front,  \* the migrate command of srv-front, or None
    insts, tokens,  \* incarnations and tokens drawn so far
    ver,    \* the last write of the guest
    device, \* whether the tailnet still knows the guest's device
    gone,   \* a user deleted the live copy
    faults

hostVars == <<row, mig, rcpt, disk>>
moveVars == <<snap, store, base, art>>
ghostVars == <<ver, device, gone>>
vars == <<hostVars, moveVars, vm, op, front, insts, tokens, ghostVars, faults>>

ASSUME MigrationAssumption ==
    /\ Origin \in Hosts
    /\ MaxInsts \in Nat \ {0} /\ MaxTokens \in Nat /\ MaxVer \in Nat
    /\ MaxFaults \in Nat

Ids == 1 .. MaxInsts
Toks == 1 .. MaxTokens
Vers == 0 .. MaxVer

Rows == [id : Ids, state : {"provisioning", "ready", "stopped", "deleted"}, node : BOOLEAN]
Migs == [tok : Toks, target : Hosts,
         phase : {"preparing", "prepared", "completed", "aborted"}, was : BOOLEAN]
Rcpts == [tok : Toks, src : Ids, phase : {"importing", "imported"}]
Disks == [ver : Vers, whole : BOOLEAN]
Snaps == [inst : Ids, ver : Vers, sealed : BOOLEAN]
Arts == [tok : Toks, src : Ids, ver : Vers, nat : BOOLEAN]
Prepares == [kind : {"prepare"}, tok : Toks, step : {"stop", "finish", "reply"}]
Snapshots == [kind : {"snapshot"}, tok : Toks]
Imports == [kind : {"import"}, tok : Toks, src : Ids, ver : Vers, nat : BOOLEAN,
            step : {"mkdir", "reserve", "publish", "finalize", "discard"}]
Fronts == [src : Hosts, dst : Hosts, tok : Toks,
           step : {"prepare", "preparing", "snapshot", "snapshotting", "base", "send",
                   "import", "importing", "receipt", "complete", "cleanup", "start"},
           inst : Ids \cup {None}, was : BOOLEAN]

ASSUME NoneAssumption ==
    /\ None \notin Rows \cup Migs \cup Rcpts \cup Disks \cup Snaps \cup Arts
    /\ None \notin Prepares \cup Snapshots \cup Imports \cup Fronts
    /\ None \notin Vers /\ Removed \notin Vers /\ None # Removed

TypeOK ==
    /\ row \in [Hosts -> Rows \cup {None}]
    /\ mig \in [Ids -> Migs \cup {None}]
    /\ rcpt \in [Ids -> Rcpts \cup {None}]
    /\ disk \in [Hosts -> Disks \cup {None}]
    /\ snap \in [Toks -> Snaps \cup {None}]
    /\ store \in [Hosts -> [Toks -> Vers \cup {None, Removed}]]
    /\ base \subseteq Hosts /\ vm \subseteq Hosts
    /\ art \in Arts \cup {None}
    /\ op \in [Hosts -> Prepares \cup Snapshots \cup Imports \cup {None}]
    /\ front \in Fronts \cup {None}
    /\ insts \in Ids /\ tokens \in 0 .. MaxTokens /\ faults \in 0 .. MaxFaults
    /\ ver \in Vers /\ device \in BOOLEAN /\ gone \in BOOLEAN

Init ==
    /\ \E s \in {"ready", "stopped"} :
         /\ row = [h \in Hosts |->
                     IF h = Origin THEN [id |-> 1, state |-> s, node |-> TRUE]
                                   ELSE None]
         /\ vm = IF s = "ready" THEN {Origin} ELSE {}
    /\ mig = [i \in Ids |-> None] /\ rcpt = [i \in Ids |-> None]
    /\ disk = [h \in Hosts |->
                 IF h = Origin THEN [ver |-> 0, whole |-> TRUE] ELSE None]
    /\ snap = [t \in Toks |-> None]
    /\ store = [h \in Hosts |-> [t \in Toks |-> None]]
    /\ base = {Origin} /\ art = None
    /\ op = [h \in Hosts |-> None] /\ front = None
    /\ insts = 1 /\ tokens = 0
    /\ ver = 0 /\ device = TRUE /\ gone = FALSE /\ faults = 0

------------------------------------------------------------------------------
\* The row of a host and the records of its incarnation.
Visible(h) == row[h] # None /\ row[h].state # "deleted"
MigOf(h) == mig[row[h].id]
RcptOf(h) == rcpt[row[h].id]
InPhase(h, t, phases) ==
    Visible(h) /\ MigOf(h) # None /\ MigOf(h).tok = t /\ MigOf(h).phase \in phases

\* Mutant: a completed source may start again.
FencedUntilCompleted(h) ==
    \/ RcptOf(h) # None /\ RcptOf(h).phase # "imported"
    \/ MigOf(h) # None /\ MigOf(h).phase \in {"preparing", "prepared"}

\* Mutant: an incomplete import may start.
FencedBySource(h) == MigOf(h) # None /\ MigOf(h).phase # "aborted"

\* migrationOnlyFence: what keeps an incarnation from starting.
Fenced(h) ==
    \/ RcptOf(h) # None /\ RcptOf(h).phase # "imported"
    \/ MigOf(h) # None /\ MigOf(h).phase # "aborted"

Startable(h) == Visible(h) /\ ~Fenced(h)

------------------------------------------------------------------------------
\* Users, under the instance lock.  A start needs the disk the row names.
Start(h) ==
    /\ op[h] = None /\ Startable(h) /\ h \notin vm
    /\ disk[h] # None
    /\ vm' = vm \cup {h}
    /\ row' = [row EXCEPT ![h].state = "ready", ![h].node = TRUE]
    /\ UNCHANGED <<mig, rcpt, disk, moveVars, op, front, insts, tokens, ghostVars,
                   faults>>

Stop(h) ==
    /\ op[h] = None /\ Visible(h) /\ h \in vm
    /\ vm' = vm \ {h}
    /\ row' = [row EXCEPT ![h].state = "stopped"]
    /\ UNCHANGED <<mig, rcpt, disk, moveVars, op, front, insts, tokens, ghostVars,
                   faults>>

GuestWrite(h) ==
    /\ h \in vm /\ ver < MaxVer
    /\ ver' = ver + 1
    /\ disk' = [disk EXCEPT ![h].ver = ver + 1]
    /\ UNCHANGED <<row, mig, rcpt, moveVars, vm, op, front, insts, tokens, device,
                   gone, faults>>

\* Mutant: an active migration does not exclude deletion.
MayDeleteAny(h) == op[h] = None /\ Visible(h)

\* Mutant: a fenced incarnation cannot be deleted.
MayDeleteUnfenced(h) == op[h] = None /\ Visible(h) /\ ~Fenced(h)

\* DeleteWithProof: an active migration excludes deletion; a completed source
\* and a partial import are removed without revoking the shared device.
MayDelete(h) ==
    /\ op[h] = None /\ Visible(h)
    /\ MigOf(h) # None => MigOf(h).phase \in {"completed", "aborted"}
RevokesDevice(h) ==
    /\ row[h].node
    /\ ~(MigOf(h) # None /\ MigOf(h).phase = "completed")
    /\ ~(RcptOf(h) # None /\ RcptOf(h).phase = "importing")
Delete(h) ==
    /\ MayDelete(h)
    /\ vm' = vm \ {h}
    /\ row' = [row EXCEPT ![h].state = "deleted"]
    /\ disk' = [disk EXCEPT ![h] = None]
    /\ device' = (device /\ ~RevokesDevice(h))
    /\ gone' = (gone \/ Startable(h))
    /\ UNCHANGED <<mig, rcpt, moveVars, op, front, insts, tokens, ver, faults>>

------------------------------------------------------------------------------
\* PrepareMigration.
PrepareAccepts(h, t, d) ==
    /\ op[h] = None /\ Visible(h)
    /\ IF MigOf(h) = None THEN ~Fenced(h)
       ELSE IF MigOf(h).phase = "aborted" THEN MigOf(h).tok # t /\ ~Fenced(h)
       ELSE MigOf(h).tok = t /\ MigOf(h).target = d

\* A settled record is answered at once; otherwise the fence is written before
\* the runtime is stopped.
Prepare(h, t, d) ==
    /\ PrepareAccepts(h, t, d)
    /\ op' = [op EXCEPT ![h] =
                [kind |-> "prepare", tok |-> t,
                 step |-> IF InPhase(h, t, {"prepared", "completed"})
                            THEN "reply" ELSE "stop"]]
    /\ mig' = IF InPhase(h, t, {"preparing", "prepared", "completed"}) THEN mig
              ELSE [mig EXCEPT ![row[h].id] =
                      [tok |-> t, target |-> d, phase |-> "preparing",
                       was |-> row[h].state = "ready"]]
    /\ UNCHANGED <<row, rcpt, disk, moveVars, vm, insts, tokens, ghostVars, faults>>

PrepareStop(h) ==
    /\ op[h] # None /\ op[h].kind = "prepare" /\ op[h].step = "stop"
    /\ vm' = vm \ {h}
    /\ row' = [row EXCEPT ![h].state = "stopped"]
    /\ op' = [op EXCEPT ![h].step = "finish"]
    /\ UNCHANGED <<mig, rcpt, disk, moveVars, front, insts, tokens, ghostVars,
                   faults>>

\* Hydration is over and the phase becomes prepared.
PrepareFinish(h) ==
    /\ op[h] # None /\ op[h].kind = "prepare" /\ op[h].step = "finish"
    /\ mig' = [mig EXCEPT ![row[h].id].phase = "prepared"]
    /\ op' = [op EXCEPT ![h].step = "reply"]
    /\ UNCHANGED <<row, rcpt, disk, moveVars, vm, front, insts, tokens, ghostVars,
                   faults>>

\* A reply reaches the frontend that still waits for it.
Waits(kind, t) == front # None /\ front.step = kind /\ front.tok = t
PrepareReply(h) ==
    /\ op[h] # None /\ op[h].kind = "prepare" /\ op[h].step = "reply"
    /\ op' = [op EXCEPT ![h] = None]
    /\ front' = IF Waits("preparing", op[h].tok) /\ MigOf(h).phase = "prepared"
                  THEN [front EXCEPT !.step = "snapshot", !.inst = row[h].id,
                                     !.was = MigOf(h).was]
                  ELSE front
    /\ UNCHANGED <<hostVars, moveVars, vm, insts, tokens, ghostVars, faults>>

\* FinishMigration.
CompleteAccepts(h, t) == op[h] = None /\ InPhase(h, t, {"prepared", "completed"})
AbortAccepts(h, t) ==
    op[h] = None /\ InPhase(h, t, {"preparing", "prepared", "aborted"})
SetPhase(h, p) == mig' = [mig EXCEPT ![row[h].id].phase = p]

------------------------------------------------------------------------------
\* handleMigrationDisk: every transfer command needs the name's lock and a host on
\* which nothing runs under the name.
StorageIdle(h) == op[h] = None /\ h \notin vm

\* The native snapshot of the source disk.  One without a manifest is never
\* adopted; one with a manifest is replayed.
SourcePrepared(h, t) ==
    StorageIdle(h) /\ InPhase(h, t, {"prepared"}) /\ disk[h] # None

SnapshotAccepts(h, t) ==
    /\ SourcePrepared(h, t)
    /\ snap[t] # None => snap[t].sealed /\ snap[t].inst = row[h].id
Snapshot(h, t) ==
    /\ SnapshotAccepts(h, t)
    /\ snap' = IF snap[t] # None THEN snap
               ELSE [snap EXCEPT ![t] = [inst |-> row[h].id, ver |-> disk[h].ver,
                                         sealed |-> FALSE]]
    /\ op' = [op EXCEPT ![h] = [kind |-> "snapshot", tok |-> t]]
    /\ UNCHANGED <<hostVars, store, base, art, vm, insts, tokens, ghostVars, faults>>

SnapshotSeal(h) ==
    /\ op[h] # None /\ op[h].kind = "snapshot"
    /\ snap' = [snap EXCEPT ![op[h].tok].sealed = TRUE]
    /\ op' = [op EXCEPT ![h] = None]
    /\ front' = IF Waits("snapshotting", op[h].tok)
                  THEN [front EXCEPT !.step = "base"] ELSE front
    /\ UNCHANGED <<hostVars, store, base, art, vm, insts, tokens, ghostVars, faults>>

\* send-disk on the source into receive-disk on the target.  An exact object is
\* kept, a removed token is fenced, an object needs its base.
TransferAccepts(s, d, t) ==
    /\ SourcePrepared(s, t) /\ StorageIdle(d)
    /\ snap[t] # None /\ snap[t].sealed /\ snap[t].inst = row[s].id
    /\ store[d][t] \in {None, snap[t].ver} /\ d \in base

------------------------------------------------------------------------------
\* ImportInstanceWithOptions, native or portable (nat).  The directory, its
\* receipt and row, the published disk and the final transaction are separate
\* durable steps.
\* checkInstanceDirReusable:
Reusable(h) ==
    /\ row[h] # None => row[h].state = "deleted"
                        /\ (MigOf(h) # None =>
                              MigOf(h).phase \in {"aborted", "completed"})
    /\ row[h] = None => disk[h] = None

ImportOp(a) == [kind |-> "import", tok |-> a.tok, src |-> a.src, ver |-> a.ver,
                nat |-> a.nat, step |-> "mkdir"]

\* prepareInstanceDir removes the previous incarnation.
ImportMkdir(h) ==
    /\ op[h] # None /\ op[h].kind = "import" /\ op[h].step = "mkdir"
    /\ Reusable(h) /\ insts < MaxInsts
    /\ row' = [row EXCEPT ![h] = None]
    /\ disk' = [disk EXCEPT ![h] = [ver |-> 0, whole |-> FALSE]]
    /\ op' = [op EXCEPT ![h].step = "reserve"]
    /\ UNCHANGED <<mig, rcpt, moveVars, vm, front, insts, tokens, ghostVars, faults>>

\* ReserveImportReceipt, then CreateInstance, of a fresh incarnation.
ImportReserve(h) ==
    /\ op[h] # None /\ op[h].kind = "import" /\ op[h].step = "reserve"
    /\ LET i == insts + 1 IN
         /\ rcpt' = [rcpt EXCEPT ![i] =
                       [tok |-> op[h].tok, src |-> op[h].src, phase |-> "importing"]]
         /\ row' = [row EXCEPT ![h] =
                      [id |-> i, state |-> "provisioning", node |-> FALSE]]
    /\ insts' = insts + 1
    /\ op' = [op EXCEPT ![h].step = "publish"]
    /\ UNCHANGED <<mig, disk, moveVars, vm, front, tokens, ghostVars, faults>>

\* Clone of the stored object, or the commit of the staged rootfs.
Received(h) == IF op[h].nat THEN store[h][op[h].tok] ELSE op[h].ver
ImportPublish(h) ==
    /\ op[h] # None /\ op[h].kind = "import" /\ op[h].step = "publish"
    /\ op[h].nat => store[h][op[h].tok] \notin {None, Removed}
    /\ disk' = [disk EXCEPT ![h] =
                  [ver |-> Received(h), whole |-> TRUE]]
    /\ op' = [op EXCEPT ![h].step = "finalize"]
    /\ UNCHANGED <<row, mig, rcpt, moveVars, vm, front, insts, tokens, ghostVars,
                   faults>>

\* FinalizeImport: row and receipt in one transaction.
ImportFinalize(h) ==
    /\ op[h] # None /\ op[h].kind = "import" /\ op[h].step = "finalize"
    /\ row' = [row EXCEPT ![h].state = "stopped"]
    /\ rcpt' = [rcpt EXCEPT ![row[h].id].phase = "imported"]
    /\ op' = [op EXCEPT ![h].step = "discard"]
    /\ UNCHANGED <<mig, disk, moveVars, vm, front, insts, tokens, ghostVars, faults>>

\* A committed native import gives up its transfer object; failing is harmless.
ImportDiscard(h) ==
    /\ op[h] # None /\ op[h].kind = "import" /\ op[h].step = "discard"
    /\ store' = IF op[h].nat THEN [store EXCEPT ![h][op[h].tok] = Removed] ELSE store
    /\ op' = [op EXCEPT ![h] = None]
    /\ front' = IF Waits("importing", op[h].tok)
                  THEN [front EXCEPT !.step = "receipt"] ELSE front
    /\ UNCHANGED <<hostVars, snap, base, art, vm, insts, tokens, ghostVars, faults>>

\* An error before the commit: the deferred cleanup removes row and tree.
ImportFails(h) ==
    /\ op[h] # None /\ op[h].kind = "import"
    /\ op[h].step \in {"mkdir", "reserve", "publish", "finalize"}
    /\ IF op[h].step = "mkdir" THEN UNCHANGED <<row, disk>>
       ELSE /\ row' = [row EXCEPT ![h] = None]
            /\ disk' = [disk EXCEPT ![h] = None]
    /\ op' = [op EXCEPT ![h] = None]
    /\ front' = IF Waits("importing", op[h].tok) THEN None ELSE front
    /\ UNCHANGED <<mig, rcpt, moveVars, vm, insts, tokens, ghostVars>>
ImportFailure(h) == faults < MaxFaults /\ faults' = faults + 1 /\ ImportFails(h)
ImportRefused(h) ==
    /\ op[h] # None /\ op[h].kind = "import"
    /\ \/ op[h].step = "mkdir" /\ ~(Reusable(h) /\ insts < MaxInsts)
       \/ op[h].step = "publish" /\ op[h].nat
          /\ store[h][op[h].tok] \in {None, Removed}
    /\ ImportFails(h)
    /\ UNCHANGED faults

------------------------------------------------------------------------------
\* srv-front: Router.migrate.  Any error ends it.
FrontBegin(s, d) ==
    /\ front = None /\ tokens < MaxTokens /\ s # d
    /\ Visible(s) /\ (row[d] # None => row[d].state = "deleted")
    /\ tokens' = tokens + 1
    /\ front' = [src |-> s, dst |-> d, tok |-> tokens + 1, step |-> "prepare",
                 inst |-> None, was |-> FALSE]
    /\ UNCHANGED <<hostVars, moveVars, vm, op, insts, ghostVars, faults>>

FrontPrepare ==
    /\ front # None /\ front.step = "prepare"
    /\ Prepare(front.src, front.tok, front.dst)
    /\ front' = [front EXCEPT !.step = "preparing"]

FrontSnapshot ==
    /\ front # None /\ front.step = "snapshot"
    /\ Snapshot(front.src, front.tok)
    /\ front' = [front EXCEPT !.step = "snapshotting"]

\* base-present, and send-base into receive-base where it is missing.
FrontBase ==
    /\ front # None /\ front.step = "base"
    /\ op[front.dst] = None
    /\ front.dst \notin base => SourcePrepared(front.src, front.tok)
    /\ base' = base \cup {front.dst}
    /\ front' = [front EXCEPT !.step = "send"]
    /\ UNCHANGED <<hostVars, snap, store, art, vm, op, insts, tokens, ghostVars,
                   faults>>

FrontSend ==
    /\ front # None /\ front.step = "send"
    /\ TransferAccepts(front.src, front.dst, front.tok)
    /\ store' = [store EXCEPT ![front.dst][front.tok] = snap[front.tok].ver]
    /\ front' = [front EXCEPT !.step = "import"]
    /\ UNCHANGED <<hostVars, snap, base, art, vm, op, insts, tokens, ghostVars, faults>>

\* ExportNativeMetadata on the source streams into the import of the target.
FrontImport ==
    /\ front # None /\ front.step = "import"
    /\ SourcePrepared(front.src, front.tok) /\ op[front.dst] = None
    /\ op' = [op EXCEPT ![front.dst] =
                ImportOp([tok |-> front.tok, src |-> row[front.src].id, ver |-> 0,
                          nat |-> TRUE])]
    /\ front' = [front EXCEPT !.step = "importing"]
    /\ UNCHANGED <<hostVars, moveVars, vm, insts, tokens, ghostVars, faults>>

HasReceipt(d, t, i) ==
    /\ Visible(d) /\ RcptOf(d) # None
    /\ RcptOf(d) = [tok |-> t, src |-> i, phase |-> "imported"]
FrontReceipt ==
    /\ front # None /\ front.step = "receipt" /\ op[front.dst] = None
    /\ HasReceipt(front.dst, front.tok, front.inst)
    /\ front' = [front EXCEPT !.step = "complete"]
    /\ UNCHANGED <<hostVars, moveVars, vm, op, insts, tokens, ghostVars, faults>>

FrontComplete ==
    /\ front # None /\ front.step = "complete"
    /\ CompleteAccepts(front.src, front.tok)
    /\ SetPhase(front.src, "completed")
    /\ front' = [front EXCEPT !.step = "cleanup"]
    /\ UNCHANGED <<row, rcpt, disk, moveVars, vm, op, insts, tokens, ghostVars, faults>>

\* The source snapshot is removed, best effort.
FrontCleanup ==
    /\ front # None /\ front.step = "cleanup" /\ op[front.src] = None
    /\ snap' = IF InPhase(front.src, front.tok, {"completed"})
                 THEN [snap EXCEPT ![front.tok] = None] ELSE snap
    /\ front' = IF front.was THEN [front EXCEPT !.step = "start"] ELSE None
    /\ UNCHANGED <<hostVars, store, base, art, vm, op, insts, tokens, ghostVars, faults>>

FrontStart ==
    /\ front # None /\ front.step = "start"
    /\ op[front.dst] = None /\ Startable(front.dst) /\ disk[front.dst] # None
    /\ vm' = vm \cup {front.dst}
    /\ row' = [row EXCEPT ![front.dst].state = "ready", ![front.dst].node = TRUE]
    /\ front' = None
    /\ UNCHANGED <<mig, rcpt, disk, moveVars, op, insts, tokens, ghostVars, faults>>

FrontSteps ==
    \/ FrontPrepare \/ FrontSnapshot \/ FrontBase \/ FrontSend \/ FrontImport
    \/ FrontReceipt \/ FrontComplete \/ FrontCleanup \/ FrontStart

\* A command is refused by the host it was sent to: the frontend gives up.
\* The waiting steps end with their reply, or when their command dies.
Refusal ==
    CASE front.step = "prepare" ->
            op[front.src] = None /\ ~PrepareAccepts(front.src, front.tok, front.dst)
      [] front.step = "preparing" ->
            op[front.src] = None
      [] front.step = "snapshot" ->
            op[front.src] = None /\ ~SnapshotAccepts(front.src, front.tok)
      [] front.step = "snapshotting" -> op[front.src] = None
      [] front.step = "base" ->
            op[front.src] = None /\ front.dst \notin base
            /\ ~SourcePrepared(front.src, front.tok)
      [] front.step = "send" ->
            op[front.src] = None /\ op[front.dst] = None
            /\ ~TransferAccepts(front.src, front.dst, front.tok)
      [] front.step = "import" ->
            op[front.src] = None /\ ~SourcePrepared(front.src, front.tok)
      [] front.step = "importing" -> op[front.dst] = None
      [] front.step = "receipt" ->
            op[front.dst] = None
            /\ ~HasReceipt(front.dst, front.tok, front.inst)
      [] front.step = "complete" ->
            op[front.src] = None /\ ~CompleteAccepts(front.src, front.tok)
      [] front.step = "start" ->
            op[front.dst] = None
            /\ ~(Startable(front.dst) /\ disk[front.dst] # None)
      [] OTHER -> FALSE
FrontRefused ==
    /\ front # None /\ Refusal
    /\ front' = None
    /\ UNCHANGED <<hostVars, moveVars, vm, op, insts, tokens, ghostVars, faults>>

------------------------------------------------------------------------------
\* Faults: the frontend is gone while its command goes on; the control plane
\* dies with the command it runs; the host reboots.
FrontLost ==
    /\ front # None /\ faults < MaxFaults
    /\ front' = None /\ faults' = faults + 1
    /\ UNCHANGED <<hostVars, moveVars, vm, op, insts, tokens, ghostVars>>

Crash(h) ==
    /\ faults < MaxFaults /\ faults' = faults + 1
    /\ op' = [op EXCEPT ![h] = None]
    /\ vm' \in {vm, vm \ {h}}
    /\ op' # op \/ vm' # vm
    /\ UNCHANGED <<hostVars, moveVars, front, insts, tokens, ghostVars>>

\* The stop or the hydration of a prepare fails and leaves the fence.
PrepareFails(h) ==
    /\ op[h] # None /\ op[h].kind = "prepare" /\ op[h].step \in {"stop", "finish"}
    /\ faults < MaxFaults /\ faults' = faults + 1
    /\ op' = [op EXCEPT ![h] = None]
    /\ UNCHANGED <<hostVars, moveVars, vm, front, insts, tokens, ghostVars>>

\* restoreInstance after a restart: the same fence, then a start or the
\* correction of the row.
Restore(h) ==
    /\ op[h] = None /\ Visible(h) /\ row[h].state = "ready" /\ h \notin vm
    /\ Startable(h) /\ disk[h] # None
    /\ vm' = vm \cup {h}
    /\ UNCHANGED <<hostVars, moveVars, op, front, insts, tokens, ghostVars, faults>>

------------------------------------------------------------------------------
\* The operator, once the frontend is gone, by the table of the guide.
Active(s) == Visible(s) /\ MigOf(s) # None /\ MigOf(s).phase \in {"preparing", "prepared"}

OperatorPrepare(s) ==
    /\ front = None /\ Active(s) /\ MigOf(s).phase = "preparing"
    /\ Prepare(s, MigOf(s).tok, MigOf(s).target)
    /\ UNCHANGED front

OperatorComplete(s) ==
    /\ front = None /\ Active(s)
    /\ CompleteAccepts(s, MigOf(s).tok) /\ op[MigOf(s).target] = None
    /\ HasReceipt(MigOf(s).target, MigOf(s).tok, row[s].id)
    /\ SetPhase(s, "completed")
    /\ UNCHANGED <<row, rcpt, disk, moveVars, vm, op, front, insts, tokens, ghostVars,
                   faults>>

\* Nothing is under way under the name, and no host has a copy that came out of
\* this migration, also not one that was moved on from the target.
NoLaterCopy(s) ==
    \A d \in Hosts : op[d] = None /\ (Visible(d) => row[d].id <= row[s].id)

\* A portable export of the prepared source, and its import on the target.
OperatorExport(s) ==
    /\ front = None /\ Active(s) /\ SourcePrepared(s, MigOf(s).tok) /\ art = None
    /\ op[MigOf(s).target] = None
    /\ ~HasReceipt(MigOf(s).target, MigOf(s).tok, row[s].id)
    /\ store[MigOf(s).target][MigOf(s).tok] # Removed
    /\ art' = [tok |-> MigOf(s).tok, src |-> row[s].id, ver |-> disk[s].ver,
               nat |-> FALSE]
    /\ UNCHANGED <<hostVars, snap, store, base, vm, op, front, insts, tokens,
                   ghostVars, faults>>

OperatorImport(s) ==
    /\ front = None /\ Active(s) /\ art # None /\ art.tok = MigOf(s).tok
    /\ NoLaterCopy(s)
    /\ LET d == MigOf(s).target IN
         /\ Reusable(d) /\ insts < MaxInsts
         /\ op' = [op EXCEPT ![d] = ImportOp(art)]
    /\ UNCHANGED <<hostVars, moveVars, vm, front, insts, tokens, ghostVars, faults>>

\* A partial import is deleted; a directory without a row is removed by hand.
OperatorClears(s) ==
    /\ front = None /\ Active(s)
    /\ LET d == MigOf(s).target IN
         /\ op[d] = None
         /\ \/ row[d] = None /\ disk[d] # None
            \/ Visible(d) /\ RcptOf(d) # None /\ RcptOf(d).phase = "importing"
               /\ MayDelete(d)
         /\ row' = IF row[d] = None THEN row
                   ELSE [row EXCEPT ![d].state = "deleted"]
         /\ disk' = [disk EXCEPT ![d] = None]
         /\ device' = (device /\ (row[d] # None => ~RevokesDevice(d)))
    /\ UNCHANGED <<mig, rcpt, moveVars, vm, op, front, insts, tokens, ver, gone, faults>>

\* Giving up: every destination copy is destroyed, the object is fenced, and
\* only then is the source released.
DestinationGone(s) == NoLaterCopy(s) /\ disk[MigOf(s).target] = None
OperatorDiscards(s) ==
    /\ front = None /\ Active(s) /\ DestinationGone(s)
    /\ LET d == MigOf(s).target t == MigOf(s).tok IN
         /\ store[d][t] # Removed
         /\ store' = [store EXCEPT ![d][t] = Removed]
         /\ art' = None
    /\ UNCHANGED <<hostVars, snap, base, vm, op, front, insts, tokens, ghostVars, faults>>

OperatorAborts(s) ==
    /\ front = None /\ Active(s) /\ AbortAccepts(s, MigOf(s).tok)
    /\ DestinationGone(s) /\ store[MigOf(s).target][MigOf(s).tok] = Removed
    /\ art = None
    /\ SetPhase(s, "aborted")
    /\ UNCHANGED <<row, rcpt, disk, moveVars, vm, op, front, insts, tokens, ghostVars,
                   faults>>

Operator(s) ==
    \/ OperatorPrepare(s) \/ OperatorComplete(s) \/ OperatorExport(s)
    \/ OperatorImport(s) \/ OperatorClears(s) \/ OperatorDiscards(s)
    \/ OperatorAborts(s)

HostSteps(h) ==
    \/ PrepareStop(h) \/ PrepareFinish(h) \/ PrepareReply(h) \/ SnapshotSeal(h)
    \/ ImportMkdir(h) \/ ImportReserve(h) \/ ImportPublish(h) \/ ImportFinalize(h)
    \/ ImportDiscard(h) \/ ImportRefused(h)

Next ==
    \/ \E h \in Hosts :
         \/ Start(h) \/ Stop(h) \/ GuestWrite(h) \/ Delete(h) \/ Restore(h)
         \/ HostSteps(h) \/ ImportFailure(h) \/ PrepareFails(h) \/ Crash(h)
         \/ Operator(h)
    \/ \E s, d \in Hosts : FrontBegin(s, d)
    \/ FrontSteps \/ FrontRefused \/ FrontLost

Spec == Init /\ [][Next]_vars

\* A host goes on with a command it holds, the frontend with its migration, and
\* an interrupted one is attended to.
FairSpec ==
    /\ Spec
    /\ \A h \in Hosts : WF_vars(HostSteps(h)) /\ WF_vars(Operator(h))
    /\ WF_vars(FrontSteps \/ FrontRefused)

------------------------------------------------------------------------------
\* The guest identity is live on at most one host: where its VM runs, or where
\* it could be started at any moment (migrationOnlyFence and the two records).
OneLiveCopy ==
    \A a, b \in Hosts :
        (a \in vm \/ Startable(a)) /\ (b \in vm \/ Startable(b)) => a = b

\* What can be started is a whole disk that has every write the guest ever made,
\* whichever snapshot, object or artifact it came from, unless the user deleted
\* the copy that had them.
StartableIsCurrent ==
    gone \/ \A h \in Hosts :
        Startable(h) => disk[h] # None /\ disk[h].whole /\ disk[h].ver = ver

\* Until its owner deletes it, a whole current copy of the instance is on some
\* host and the tailnet knows its device, at every point of a migration.
CopyAndDeviceKept ==
    gone \/ (/\ device
             /\ \E h \in Hosts :
                  disk[h] # None /\ disk[h].whole /\ disk[h].ver = ver)

\* Every interrupted migration has a way out: with an operator who follows the
\* guide the instance always becomes startable again somewhere.
NeverStranded == []<>(gone \/ \E h \in Hosts : Startable(h))

------------------------------------------------------------------------------
(* The inductive invariant behind the three *)

Phase(h) == IF MigOf(h) = None THEN "none" ELSE MigOf(h).phase

\* A row with a whole import, or none, and one that may start now or later.
Settled(h) == Visible(h) /\ (RcptOf(h) = None \/ RcptOf(h).phase = "imported")
Claim(h) == Settled(h) /\ Phase(h) # "completed"

\* The last settled incarnation.
Head(h) == Claim(h) /\ \A g \in Hosts \ {h} : Settled(g) => row[g].id < row[h].id

Importing(h) ==
    /\ op[h] # None /\ op[h].kind = "import"
    /\ op[h].step \in {"mkdir", "reserve", "publish", "finalize"}

Current(h) == disk[h] # None /\ disk[h].whole /\ disk[h].ver = ver

\* Incarnations are drawn in order and are on one host.
IdInv ==
    /\ \A g, h \in Hosts :
          row[g] # None /\ row[h] # None /\ row[g].id = row[h].id => g = h
    /\ \A h \in Hosts : row[h] # None => row[h].id <= insts
    /\ \A i \in Ids : mig[i] # None \/ rcpt[i] # None => i <= insts
    /\ \A h \in Hosts : Visible(h) => disk[h] # None
    /\ \A h \in Hosts : Visible(h) /\ MigOf(h) # None => Settled(h)

\* A VM runs on a claim that is not prepared yet.
VMInv == \A h \in vm : Claim(h) /\ Phase(h) # "prepared"

\* A command that prepares or takes a snapshot works on the record of its token.
OpInv ==
    \A h \in Hosts :
        op[h] # None /\ op[h].kind \in {"prepare", "snapshot"} =>
            /\ Visible(h) /\ MigOf(h) # None /\ MigOf(h).tok = op[h].tok
            /\ op[h].kind = "snapshot" => snap[op[h].tok] # None
            /\ op[h].kind = "prepare" /\ op[h].step \in {"stop", "finish"} =>
                  Phase(h) = "preparing"
            /\ op[h].kind = "prepare" /\ op[h].step = "finish" => h \notin vm

\* Every settled incarnation but the last is prepared or completed.
ChainInv ==
    \A g, h \in Hosts :
        Settled(g) /\ Settled(h) /\ row[g].id < row[h].id =>
            Phase(g) \in {"prepared", "completed"}

\* An import is alone; while it goes on nothing can start; its incarnation will be
\* the last.
ImportInv ==
    \A h \in Hosts :
        Importing(h) =>
            /\ \A g \in Hosts : Importing(g) => g = h
            /\ \A g \in Hosts : Claim(g) => Phase(g) = "prepared"
            /\ op[h].step = "reserve" => row[h] = None /\ insts < MaxInsts
            /\ op[h].step # "mkdir" => disk[h] # None
            /\ op[h].step \in {"publish", "finalize"} =>
                  /\ Visible(h) /\ RcptOf(h) # None /\ RcptOf(h).phase = "importing"
                  /\ \A g \in Hosts : Settled(g) => row[g].id < row[h].id

\* A token belongs to one incarnation, is unused when the frontend draws it, and
\* its receipts are of later incarnations.
Unused(t) ==
    /\ \A i \in Ids : (mig[i] # None => mig[i].tok # t) /\ (rcpt[i] # None => rcpt[i].tok # t)
    /\ \A h \in Hosts : op[h] # None => op[h].tok # t

NoObject(t) ==
    /\ snap[t] = None /\ (art # None => art.tok # t)
    /\ \A h \in Hosts : store[h][t] \in {None, Removed}

TokInv ==
    /\ \A t \in Toks : t > tokens => Unused(t) /\ NoObject(t)
    /\ front # None => front.tok <= tokens
    /\ front # None /\ front.step = "prepare" => Unused(front.tok) /\ NoObject(front.tok)
    /\ \A i, j \in Ids : mig[i] # None /\ mig[j] # None /\ mig[i].tok = mig[j].tok => i = j
    /\ \A i, j \in Ids : mig[i] # None /\ rcpt[j] # None /\ mig[i].tok = rcpt[j].tok => i < j
    /\ \A i \in Ids : mig[i] # None /\ mig[i].phase = "preparing" => NoObject(mig[i].tok)

\* Until the frontend has sent its import, its source is the last incarnation and
\* there is no other import; when it completes the source there is a later one.
FrontInv ==
    front # None =>
        /\ /\ front.step \in {"prepare", "preparing", "snapshot", "snapshotting",
                              "base", "send", "import"}
           /\ InPhase(front.src, front.tok, {"preparing", "prepared"})
           => Head(front.src) /\ \A h \in Hosts : ~Importing(h)
        /\ /\ front.step = "complete"
           /\ InPhase(front.src, front.tok, {"preparing", "prepared"})
           => gone \/ \E h \in Hosts \ {front.src} : Head(h)

\* The last incarnation has every write, and so has what was made of it for its
\* migration.
HeadInv ==
    gone \/
      /\ device
      /\ \E h \in Hosts : Head(h)
      /\ \A h \in Hosts : Head(h) =>
            /\ Current(h)
            /\ Phase(h) = "prepared" =>
                  LET t == MigOf(h).tok IN
                  /\ snap[t] # None => snap[t].ver = ver
                  /\ \A d \in Hosts : store[d][t] \in {None, Removed, ver}
                  /\ art # None /\ art.tok = t => art.ver = ver /\ ~art.nat
      /\ \A h \in Hosts : Importing(h) =>
            /\ IF op[h].nat THEN store[h][op[h].tok] \in {None, Removed, ver}
                           ELSE op[h].ver = ver
            /\ op[h].step = "finalize" => Current(h)

IInv ==
    /\ IdInv /\ VMInv /\ OpInv /\ ChainInv /\ ImportInv /\ TokInv /\ FrontInv /\ HeadInv
==============================================================================
