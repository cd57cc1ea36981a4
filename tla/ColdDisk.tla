------------------------------- MODULE ColdDisk -------------------------------
(***************************************************************************)
(* The cold disk of one instance name (vmrunner/cold_disk.go and its       *)
(* callers in provision and service) on top of the object store.  The      *)
(* runner holds the name's flock from admission to reply, so one operation *)
(* is under way at a time; it is a sequence of durable steps with a crash  *)
(* or an error possible before each.  Calls of the control plane may be    *)
(* lost, or be admitted long after their caller gave up.                   *)
(***************************************************************************)
EXTENDS ColdStore, FiniteSets

CONSTANTS
    Insts,      \* incarnations that hold the name one after the other
    MaxDisks,   \* bound: subvolumes ever created
    MaxVer,     \* bound: guest writes
    MaxCalls,   \* bound: calls outstanding at the runner beside a delete
    MaxWire     \* bound: remote commands that outlived their client

VARIABLES
    row,        \* the incarnation in the instance table, or None
    deleting,   \* its deletion has begun
    used,       \* incarnations created so far
    disk,       \* the subvolume at instances/<name>/disk, or None
    cand,       \* the staged restore candidate, or None
    journal,    \* the root-owned cold record, or None
    marker,     \* whether the public marker is in the instance directory
    tomb,       \* incarnations with a cold-deleted tombstone
    ram,        \* saved RAM and the disk it belongs to, or None
    vm,         \* the incarnation whose VM runs, or None
    calls,      \* requests not yet admitted by the runner
    op,         \* the operation that holds the flock, or None
    pc,         \* the step it takes next
    rec,        \* its copy of the record
    acked,      \* incarnations whose delete was acknowledged
    gens,       \* who drew each generation ID
    disks       \* subvolumes created so far

localVars == <<disk, cand, journal, marker, tomb, ram, gens, disks>>
runVars == <<op, pc, rec>>
cpVars == <<row, deleting, used, acked>>
vars == <<storeVars, localVars, runVars, cpVars, vm, calls>>

ASSUME InstsAssumption ==
    /\ IsFiniteSet(Insts) /\ Insts # {} /\ None \notin Insts
    /\ MaxDisks \in Nat \ {0} /\ MaxVer \in Nat /\ MaxCalls \in Nat
    /\ MaxWire \in Nat

Phases == {"offloading", "evicting", "cold", "restoring", "hot", "purged"}
DiskIds == 1 .. MaxDisks

Record ==
    [inst : Insts, phase : Phases, remote : BOOLEAN, disk : DiskIds,
     cand : DiskIds \cup {None}, id : Gens, ver : 0 .. MaxVer,
     parent : {Base, None}]

Acts == {"offload", "hydrate", "purge", "delete"}
Call == [act : Acts, inst : Insts, disk : DiskIds \cup {None}]
Operation == [act : Acts, inst : Insts, rescue : BOOLEAN]
Disk == [id : DiskIds, ver : 0 .. MaxVer, owner : Insts]
Candidate == [id : DiskIds, ver : 0 .. MaxVer]
RAM == [inst : Insts, disk : DiskIds, ver : 0 .. MaxVer]

ASSUME NoneAssumption ==
    /\ None \notin Object \cup Record \cup Operation \cup Disk \cup Candidate \cup RAM
    /\ None \notin DiskIds

Init ==
    /\ StoreInit
    /\ \E i \in Insts :
         /\ row = i /\ used = {i}
         /\ disk = [id |-> 1, ver |-> 0, owner |-> i]
    /\ disks = 1
    /\ deleting = FALSE
    /\ cand = None /\ journal = None /\ marker = FALSE
    /\ tomb = {} /\ ram = None /\ vm = None
    /\ calls = {} /\ op = None /\ pc = "done" /\ rec = None
    /\ acked = {}
    /\ gens = [g \in Gens |-> None]

------------------------------------------------------------------------------
\* The steps of each function, in order.  Each write of the record replaces the
\* journal and then the marker.
Recover == [hot |-> "markHot", markHot |-> "cleanHot"]
Purge ==
    [delete |-> "local", local |-> "markLocal", markLocal |-> "cleanPurge",
     cleanPurge |-> "purged", purged |-> "markPurged"]
\* Mutant: the journal goes before the marker.
FinishJournalFirst == <<"unjournal", "unmark">>
Finish == <<"unmark", "unjournal">>
New == [new |-> "markNew", markNew |-> "snapshot"]
\* Mutant: the local disk goes before the object is published.
UploadEvictsFirst ==
    [snapshot |-> "base", base |-> "remote", remote |-> "markRemote",
     markRemote |-> "evicting", evicting |-> "markEvicting",
     markEvicting |-> "evict", evict |-> "put", put |-> "cold",
     cold |-> "markCold", markCold |-> "done"]
Upload ==
    [snapshot |-> "base", base |-> "remote", remote |-> "markRemote",
     markRemote |-> "put", put |-> "evicting", evicting |-> "markEvicting",
     markEvicting |-> "evict", evict |-> "cold", cold |-> "markCold",
     markCold |-> "done"]
Fetch ==
    [restoring |-> "markRestoring", markRestoring |-> "cleanFetch",
     cleanFetch |-> "get", get |-> "candidate", candidate |-> "markCandidate",
     markCandidate |-> "install"]
Install == [install |-> "hot"]

\* The first step of a purge: nothing remote, nothing to delete there.
PurgeFrom(r) == IF r.remote THEN "delete" ELSE "cleanPurge"

\* What follows a recovery, a purge and the intent of a delete depends on the
\* action; every other step has one successor.
After(s) ==
    CASE s \in DOMAIN Recover -> Recover[s]
      [] s = "cleanHot" ->
            IF op.rescue \/ op.act = "hydrate" THEN "done" ELSE PurgeFrom(rec)
      [] s \in DOMAIN Purge -> Purge[s]
      [] s = "markPurged" -> Finish[1]
      [] s = Finish[1] -> Finish[2]
      [] s = Finish[2] -> IF op.act = "offload" THEN "new" ELSE "done"
      [] s \in DOMAIN New -> New[s]
      [] s \in DOMAIN Upload -> Upload[s]
      [] s \in DOMAIN Fetch -> Fetch[s]
      [] s \in DOMAIN Install -> Install[s]
      [] s = "tombstone" -> "discard"
      [] s = "discard" ->
            IF rec = None THEN "done"
            ELSE IF rec.phase = "purged" THEN Finish[1] ELSE PurgeFrom(rec)

Marks == {"markHot", "markLocal", "markPurged", "markNew", "markRemote",
          "markEvicting", "markCold", "markRestoring", "markCandidate"}
Cleans == {"cleanHot", "cleanPurge", "cleanFetch"}

DiskIs(id) == disk # None /\ disk.id = id

\* The disk a hot record may be made of: the recorded one or its candidate.
Recognised(r) == DiskIs(r.disk) \/ (r.cand # None /\ DiskIs(r.cand))

\* The step each admitted action begins with, read off the record it finds;
\* "done" for the cases that return without effect, which are Reject.
OffloadPlan(q) ==
    CASE journal = None ->
            IF ~marker /\ DiskIs(q.disk) THEN "new" ELSE "done"
      [] journal # None /\ journal.phase = "hot" ->
            IF DiskIs(q.disk) THEN "hot" ELSE "done"
      [] journal # None /\ journal.phase = "purged" ->
            IF DiskIs(q.disk) /\ DiskIs(journal.disk) THEN Finish[1] ELSE "done"
      [] journal # None /\ journal.phase = "offloading" -> "snapshot"
      [] OTHER -> "done"

HydratePlan ==
    CASE journal = None -> "done"
      [] journal # None /\ journal.phase = "purged" ->
            IF DiskIs(journal.disk) THEN Finish[1] ELSE "done"
      [] journal # None /\ journal.phase # "purged" /\ disk # None ->
            IF journal.phase = "cold" THEN "done" ELSE "hot"
      [] OTHER ->
            IF journal.phase \in {"hot", "offloading"} \/ ~journal.remote
              THEN "done"
              ELSE IF journal.cand = None THEN "restoring"
              ELSE IF cand # None /\ cand.id = journal.cand THEN "install"
              ELSE "done"

PurgePlan ==
    CASE journal = None -> "done"
      [] journal # None /\ journal.phase = "purged" ->
            IF DiskIs(journal.disk) THEN Finish[1] ELSE "done"
      [] OTHER -> IF Recognised(journal) THEN "hot" ELSE "done"

Plan(q) ==
    CASE q.act = "offload" -> OffloadPlan(q)
      [] q.act = "hydrate" -> HydratePlan
      [] q.act = "purge" -> PurgePlan
      [] q.act = "delete" -> "tombstone"

\* Mutant: saved RAM is not looked at.
AdmissibleOverRAM(q) ==
    /\ journal # None => journal.inst = q.inst
    /\ vm = None
    /\ q.act # "delete" => q.inst \notin tomb
    /\ (q.act = "delete" /\ journal = None) => ~marker

\* The refusals before anything is changed: a record of another incarnation,
\* a deletion intent, saved RAM, a running VM.
Admissible(q) ==
    /\ journal # None => journal.inst = q.inst
    /\ vm = None
    /\ IF q.act = "delete"
         THEN /\ ram # None => ram.inst = q.inst
              /\ journal = None => ~marker
         ELSE q.inst \notin tomb /\ ram = None

\* coldDiskLocked takes the flock.
Admit(q) ==
    /\ q \in calls /\ op = None
    /\ Admissible(q)
    /\ Plan(q) # "done"
    /\ calls' = calls \ {q}
    /\ op' = [act |-> q.act, inst |-> q.inst, rescue |-> FALSE]
    /\ pc' = Plan(q)
    /\ rec' = journal
    /\ UNCHANGED <<storeVars, localVars, cpVars, vm>>

\* A call that is lost, refused, or answered from the record alone.
Reject(q) ==
    /\ q \in calls
    /\ calls' = calls \ {q}
    /\ UNCHANGED <<storeVars, localVars, runVars, cpVars, vm>>

At(step) == pc = step /\ pc' = After(step)

WriteJournal(r) == rec' = r /\ journal' = r

\* The steps that only rewrite the record.
SetHot ==
    /\ At("hot") /\ Recognised(rec)
    /\ WriteJournal([rec EXCEPT !.disk = disk.id, !.phase = "hot"])

SetRemote == At("remote") /\ WriteJournal([rec EXCEPT !.remote = TRUE])

SetLocal == At("local") /\ WriteJournal([rec EXCEPT !.remote = FALSE])

SetCandidate == At("candidate") /\ WriteJournal([rec EXCEPT !.cand = cand.id])

SetPhase ==
    \E phase \in {"evicting", "cold", "restoring", "purged"} :
        At(phase) /\ WriteJournal([rec EXCEPT !.phase = phase])

RewriteRecord ==
    /\ SetHot \/ SetRemote \/ SetLocal \/ SetCandidate \/ SetPhase
    /\ UNCHANGED <<storeVars, cpVars, vm, calls, op, disk, cand, marker, tomb,
                   ram, gens, disks>>

WriteMarker ==
    /\ \E step \in Marks : At(step)
    /\ marker' = TRUE
    /\ UNCHANGED <<storeVars, cpVars, vm, calls, op, rec, disk, cand, journal,
                   tomb, ram, gens, disks>>

\* A new generation draws a new object ID and is bound to the disk it finds.
NewGeneration ==
    /\ At("new") /\ disk # None
    /\ \E g \in Gens :
         /\ gens[g] = None
         /\ gens' = [gens EXCEPT ![g] = op.inst]
         /\ WriteJournal([inst |-> op.inst, phase |-> "offloading",
                          remote |-> FALSE, disk |-> disk.id, cand |-> None,
                          id |-> g, ver |-> 0, parent |-> None])
    /\ UNCHANGED <<storeVars, cpVars, vm, calls, op, disk, cand, marker, tomb,
                   ram, disks>>

\* offloadCold: nothing is sent twice, and only the disk of the record.
TakeSnapshot ==
    /\ At("snapshot") /\ DiskIs(rec.disk) /\ ~rec.remote
    /\ rec' = [rec EXCEPT !.ver = disk.ver]
    /\ UNCHANGED <<storeVars, localVars, cpVars, vm, calls, op>>

\* The base is optional; if it is used it is published first.
PutBase ==
    /\ At("base")
    /\ \/ /\ rec' = rec
          /\ UNCHANGED objects
       \/ /\ rec' = [rec EXCEPT !.parent = Base]
          /\ \/ Available(Base) /\ UNCHANGED objects
             \/ Accepts(Base, None) /\ Publish(Base, 0, None)
    /\ UNCHANGED <<deleted, wire, localVars, cpVars, vm, calls, op>>

PutObject ==
    /\ At("put")
    /\ Accepts(rec.id, rec.parent)
    /\ Publish(rec.id, rec.ver, rec.parent)
    /\ UNCHANGED <<deleted, wire, localVars, cpVars, vm, calls, op, rec>>

\* DeleteSubvolume checks the identity it was given.
Evict ==
    /\ At("evict") /\ DiskIs(rec.disk)
    /\ disk' = None
    /\ UNCHANGED <<storeVars, cpVars, vm, calls, op, rec, cand, journal, marker,
                   tomb, ram, gens, disks>>

CleanStages ==
    /\ \E step \in Cleans : At(step)
    /\ cand' = None
    /\ UNCHANGED <<storeVars, cpVars, vm, calls, op, rec, disk, journal, marker,
                   tomb, ram, gens, disks>>

\* Get verifies what it received against the record; the candidate is a
\* writable snapshot of it.
GetObject ==
    /\ At("get")
    /\ Verified(rec.id, rec.ver)
    /\ disks < MaxDisks /\ disks' = disks + 1
    /\ cand' = [id |-> disks', ver |-> objects[rec.id].ver]
    /\ UNCHANGED <<storeVars, cpVars, vm, calls, op, rec, disk, journal, marker,
                   tomb, ram, gens>>

InstallCandidate ==
    /\ At("install")
    /\ disk = None /\ cand # None
    /\ disk' = [id |-> cand.id, ver |-> cand.ver, owner |-> op.inst]
    /\ cand' = None
    /\ UNCHANGED <<storeVars, cpVars, vm, calls, op, rec, journal, marker, tomb,
                   ram, gens, disks>>

RemoteDelete ==
    /\ At("delete")
    /\ DeleteObject(rec.id)
    /\ UNCHANGED <<wire, localVars, cpVars, vm, calls, op, rec>>

RemoveMarker ==
    /\ At("unmark")
    /\ marker' = FALSE
    /\ UNCHANGED <<storeVars, cpVars, vm, calls, op, rec, disk, cand, journal,
                   tomb, ram, gens, disks>>

RemoveJournal ==
    /\ At("unjournal")
    /\ journal' = None
    /\ UNCHANGED <<storeVars, cpVars, vm, calls, op, rec, disk, cand, marker,
                   tomb, ram, gens, disks>>

WriteTombstone ==
    /\ At("tombstone")
    /\ tomb' = tomb \cup {op.inst}
    /\ UNCHANGED <<storeVars, cpVars, vm, calls, op, rec, disk, cand, journal,
                   marker, ram, gens, disks>>

DiscardRAM ==
    /\ At("discard")
    /\ ram' = None
    /\ UNCHANGED <<storeVars, cpVars, vm, calls, op, rec, disk, cand, journal,
                   marker, tomb, gens, disks>>

\* The answer reaches the control plane, which acts on that of a delete.
Reply ==
    /\ op # None /\ pc = "done"
    /\ op' = None /\ rec' = None /\ pc' = pc
    /\ acked' = IF op.act = "delete" THEN acked \cup {op.inst} ELSE acked
    /\ UNCHANGED <<storeVars, localVars, row, deleting, used, vm, calls>>

\* What a failed or abandoned remote command may still do.
Orphaned ==
    CASE pc = "put" ->
            {[op |-> "put", id |-> rec.id, ver |-> rec.ver, parent |-> rec.parent]}
      [] pc = "delete" -> {[op |-> "delete", id |-> rec.id]}
      [] OTHER -> {}

\* A step fails, or the context ends.  An upload that fails makes the local
\* disk hot again; every other operation just returns.
Uploading == op.act = "offload" /\ ~op.rescue /\ pc \in DOMAIN Upload

StepFails ==
    /\ op # None /\ pc # "done"
    /\ \E q \in SUBSET Orphaned : wire' = wire \cup q
    /\ Cardinality(wire') <= MaxWire
    /\ IF Uploading
         THEN /\ op' = [op EXCEPT !.rescue = TRUE]
              /\ pc' = "hot"
              /\ rec' = rec
         ELSE op' = None /\ pc' = "done" /\ rec' = None
    /\ UNCHANGED <<objects, deleted, localVars, cpVars, vm, calls>>

\* The runner or the host goes down: the flock and the working copy are lost,
\* the VM only with the host.  An answer on its way is lost too.
Crash ==
    /\ op # None
    /\ \E q \in SUBSET Orphaned : wire' = wire \cup q
    /\ Cardinality(wire') <= MaxWire
    /\ op' = None /\ pc' = "done" /\ rec' = None
    /\ UNCHANGED <<objects, deleted, localVars, cpVars, vm, calls>>

------------------------------------------------------------------------------
\* The control plane, under the instance lock.  An offload first reads the status
\* and binds the call to the disk it sees.
Expected ==
    IF disk # None /\ (journal = None \/ journal.phase \in {"hot", "purged"})
      THEN disk.id ELSE None

ColdDiskCall(act) ==
    /\ row # None /\ ~deleting /\ vm = None
    /\ Cardinality(calls) < MaxCalls
    /\ calls' = calls \cup {[act |-> act, inst |-> row,
                             disk |-> IF act = "offload" THEN Expected ELSE None]}
    /\ UNCHANGED <<storeVars, localVars, runVars, cpVars, vm>>

\* The disk command of a user, and the retention pass over idle instances.
DiskCommand == \E act \in {"offload", "hydrate", "purge"} : ColdDiskCall(act)
RetentionOffload == ColdDiskCall("offload")

\* cleanupColdForRemoval, repeated until it is acknowledged.
DeleteCall ==
    /\ row # None /\ row \notin acked /\ vm = None
    /\ Cardinality(calls) <= MaxCalls
    /\ deleting' = TRUE
    /\ calls' = calls \cup {[act |-> "delete", inst |-> row, disk |-> None]}
    /\ UNCHANGED <<storeVars, localVars, runVars, row, used, acked, vm>>

\* The directory goes after the acknowledged cold deletion.
RemoveInstance ==
    /\ deleting /\ row \in acked /\ vm = None
    /\ ~marker
    /\ row' = None /\ deleting' = FALSE
    /\ disk' = None
    /\ UNCHANGED <<storeVars, runVars, used, acked, vm, calls, cand, journal,
                   marker, tomb, ram, gens, disks>>

\* The name is used again by another incarnation.
CreateInstance(i) ==
    /\ row = None /\ i \notin used
    /\ disks < MaxDisks /\ disks' = disks + 1
    /\ row' = i /\ used' = used \cup {i}
    /\ disk' = [id |-> disks', ver |-> 0, owner |-> i]
    /\ UNCHANGED <<storeVars, runVars, deleting, acked, vm, calls, cand, journal,
                   marker, tomb, ram, gens>>

\* coldStartFence, under the same flock.
StartFence(i) ==
    /\ i \notin tomb
    /\ journal # None =>
         /\ journal.inst = i
         /\ journal.phase \in {"hot", "purged"}
         /\ DiskIs(journal.disk)

\* Any start request ever made may still be waiting; saved RAM is resumed only
\* on the disk it was taken with.
StartVM(i) ==
    /\ i \in used /\ vm = None /\ op = None
    /\ StartFence(i)
    /\ disk # None
    /\ ram # None => ram.inst = i /\ ram.disk = disk.id
    /\ vm' = i /\ ram' = None
    /\ UNCHANGED <<storeVars, runVars, cpVars, calls, disk, cand, journal,
                   marker, tomb, gens, disks>>

GuestWrites ==
    /\ vm # None /\ disk # None /\ disk.ver < MaxVer
    /\ disk' = [disk EXCEPT !.ver = @ + 1]
    /\ UNCHANGED <<storeVars, runVars, cpVars, vm, calls, cand, journal, marker,
                   tomb, ram, gens, disks>>

StopVM(save) ==
    /\ vm # None /\ op = None
    /\ vm' = None
    /\ ram' = IF save THEN [inst |-> vm, disk |-> disk.id, ver |-> disk.ver]
                      ELSE None
    /\ UNCHANGED <<storeVars, runVars, cpVars, calls, disk, cand, journal,
                   marker, tomb, gens, disks>>

\* The administrator abandons published objects that no generation needs.
Abandon ==
    /\ \E ids \in SUBSET {id \in Ids : objects[id] # None} :
         /\ journal # None => journal.id \notin ids
         /\ rec # None => rec.id \notin ids
         /\ DiscardObjects(ids)
    /\ UNCHANGED <<localVars, runVars, cpVars, vm, calls>>

StoreNext ==
    /\ \E q \in wire : ServePut(q) \/ ServeDelete(q) \/ DropCommand(q)
    /\ UNCHANGED <<localVars, runVars, cpVars, vm, calls>>

Step ==
    \/ RewriteRecord \/ WriteMarker \/ NewGeneration \/ TakeSnapshot
    \/ PutBase \/ PutObject \/ Evict \/ CleanStages \/ GetObject
    \/ InstallCandidate \/ RemoteDelete \/ RemoveMarker \/ RemoveJournal
    \/ WriteTombstone \/ DiscardRAM

Next ==
    \/ Step
    \/ StepFails \/ Crash \/ Reply
    \/ \E q \in calls : Admit(q) \/ Reject(q)
    \/ DiskCommand \/ RetentionOffload
    \/ DeleteCall \/ RemoveInstance
    \/ \E i \in Insts : CreateInstance(i) \/ StartVM(i)
    \/ GuestWrites
    \/ \E save \in BOOLEAN : StopVM(save)
    \/ Abandon \/ StoreNext

Spec == Init /\ [][Next]_vars

------------------------------------------------------------------------------
\* The steps an operation may be at.
RecoverSteps == {"hot", "markHot", "cleanHot"}
PurgeSteps ==
    {"delete", "local", "markLocal", "cleanPurge", "purged", "markPurged",
     "unmark", "unjournal"}
UploadSteps ==
    {"snapshot", "base", "remote", "markRemote", "put", "evicting",
     "markEvicting", "evict", "cold", "markCold"}
FetchSteps ==
    {"restoring", "markRestoring", "cleanFetch", "get", "candidate",
     "markCandidate", "install"}
StepsOf(act) ==
    {"done"} \cup
    CASE act = "offload" ->
            RecoverSteps \cup PurgeSteps \cup {"new", "markNew"} \cup UploadSteps
      [] act = "hydrate" -> RecoverSteps \cup {"unmark", "unjournal"} \cup FetchSteps
      [] act = "purge" -> RecoverSteps \cup PurgeSteps
      [] act = "delete" -> {"tombstone", "discard"} \cup PurgeSteps
Labels == UNION {StepsOf(act) : act \in Acts}

TypeOK ==
    /\ objects \in [Ids -> Object \cup {None}]
    /\ deleted \subseteq Ids /\ wire \subseteq Command
    /\ row \in Insts \cup {None} /\ deleting \in BOOLEAN
    /\ used \subseteq Insts /\ tomb \subseteq Insts /\ acked \subseteq Insts
    /\ disk \in Disk \cup {None} /\ cand \in Candidate \cup {None}
    /\ journal \in Record \cup {None} /\ marker \in BOOLEAN
    /\ ram \in RAM \cup {None} /\ vm \in Insts \cup {None}
    /\ calls \subseteq Call
    /\ op \in Operation \cup {None} /\ pc \in Labels
    /\ rec \in Record \cup {None}
    /\ gens \in [Gens -> Insts \cup {None}] /\ disks \in DiskIds

\* What hydration could bring back while there is no local disk.
Retrievable ==
    /\ journal # None /\ journal.inst = row
    /\ journal.phase \in {"evicting", "cold", "restoring"}
    /\ journal.remote
    /\ IF journal.cand = None
         THEN Verified(journal.id, journal.ver)
         ELSE cand # None /\ cand.id = journal.cand

Place ==
    IF disk # None THEN "local" ELSE IF Retrievable THEN "remote" ELSE "none"

Contents ==
    CASE Place = "local" -> disk.ver
      [] Place = "remote" -> IF journal.cand = None THEN journal.ver ELSE cand.ver
      [] Place = "none" -> 0

Contract == INSTANCE DiskContract WITH
    owner <- row, place <- Place, contents <- Contents, condemned <- tomb

\* Through every crash, failed step, lost answer and late command of an
\* offload, hydrate or purge, the last contents the guest wrote are in the
\* local disk or can be hydrated; they move unchanged, and a stale remote copy
\* never takes their place.
ImplementsDisk == Contract!Spec

\* Once a delete of an incarnation is acknowledged, none of its objects is in
\* the store, and no late upload brings one back.
DeletedLeavesNoObject ==
    \A g \in Gens : gens[g] \in acked => objects[g] = None

\* Deleting or discarding a base never strips a published disk of its parent,
\* even when the upload of the child arrives late.
ParentsKept ==
    \A id \in Ids :
        (objects[id] # None /\ objects[id].parent # None)
            => objects[objects[id].parent] # None

\* No interruption leaves a marker without a journal, the state in which every
\* operation asks for an operator.
MarkerHasJournal == marker => journal # None

\* A VM runs on the disk of its own incarnation: the disk does not disappear, and
\* the incarnation is not condemned, under it.  Saved RAM still fits the disk it was
\* taken with.
RuntimeHasDisk ==
    /\ vm # None => /\ disk # None /\ disk.owner = vm /\ vm \notin tomb
                    /\ journal # None => journal.phase \in {"hot", "purged"}
    /\ ram # None => /\ disk # None
                     /\ disk.id = ram.disk /\ disk.ver = ram.ver

------------------------------------------------------------------------------
\* The inductive invariant.  Every incarnation but the one in the row was
\* deleted; whatever belongs to a disk belongs to that one.
RowInv ==
    /\ row = None => disk = None
    /\ row # None => row \in used
    /\ acked \subseteq tomb /\ tomb \subseteq used
    /\ used \ tomb \subseteq {row}
    /\ \A q \in calls : q.inst \in used
    /\ disk # None => disk.owner = row
    /\ vm # None => vm = row /\ row \notin tomb /\ ram = None
    /\ ram # None => ram.inst = row /\ row \notin acked

\* Who holds the flock, for which incarnation, and what it may be about to do.
OpInv ==
    /\ op = None => pc = "done" /\ rec = None
    /\ op # None =>
         /\ vm = None /\ op.inst \in used /\ pc \in StepsOf(op.act)
         /\ op.rescue => op.act = "offload" /\ pc \in RecoverSteps \cup {"done"}
         /\ journal # None => journal.inst = op.inst
         /\ IF op.act = "delete"
              THEN /\ pc # "tombstone" => op.inst \in tomb
                   /\ pc \notin {"tombstone", "discard"} => ram = None
                   /\ pc = "done" => journal = None
              ELSE op.inst = row /\ row \notin tomb /\ ram = None

\* The working copy is the record, but for what the upload has not written yet.
RecInv ==
    /\ pc = "new" => journal = None
    /\ pc \in {"hot", "base", "remote"} =>
         /\ journal # None /\ rec # None
         /\ rec.inst = journal.inst /\ rec.id = journal.id
         /\ rec.phase = journal.phase /\ rec.remote = journal.remote
         /\ rec.cand = journal.cand
    /\ pc \notin {"hot", "base", "remote", "new", "done"} => rec = journal
    /\ pc \notin {"tombstone", "discard", "new", "done"} => journal # None

\* What an upload, a recovery, a purge and a fetch have established so far.
StepInv ==
    /\ pc = "unjournal" => ~marker
    /\ (pc \in {"markHot", "cleanHot", "new", "markNew"} \cup PurgeSteps
          /\ op.act # "delete") => disk # None
    /\ pc \in {"base", "remote", "markRemote", "put", "evicting",
               "markEvicting", "evict"} => disk # None /\ disk.ver = rec.ver
    /\ pc \in {"markNew", "snapshot", "base", "remote", "markRemote", "put",
               "evicting"} => journal.phase = "offloading"
    /\ pc \in {"markRemote", "put", "evicting"} => journal.remote
    /\ pc = "evicting" => Verified(journal.id, journal.ver)
    /\ pc \in {"markEvicting", "evict", "cold"} => journal.phase = "evicting"
    /\ (pc \in {"markHot", "cleanHot", "delete", "local", "markLocal", "cleanPurge",
                "purged"} /\ op.act # "delete") => journal.phase = "hot"
    /\ pc = "delete" => journal.remote
    /\ pc = "local" => journal.id \in deleted /\ objects[journal.id] = None
    /\ pc \in {"markLocal", "cleanPurge", "purged"} => ~journal.remote
    /\ pc \in {"markPurged", "unmark", "unjournal"} => journal.phase = "purged"
    /\ pc \in FetchSteps => journal.phase \in {"evicting", "cold", "restoring"}
    /\ pc \in {"restoring", "markRestoring", "cleanFetch", "get", "candidate"}
         => journal.cand = None
    /\ pc \in {"markRestoring", "cleanFetch", "get", "candidate"}
         => journal.phase = "restoring"
    /\ pc = "candidate" => cand # None /\ cand.ver = journal.ver
    /\ pc \in {"markCandidate", "install"} => cand # None /\ journal.cand = cand.id

\* No upload of an object can still succeed that nobody will delete.
NoUpload(id) ==
    /\ objects[id] = None
    /\ id \in deleted \/ \A q \in wire : q.op = "put" => q.id # id

\* What the record promises of the object it names.
JournalInv ==
    journal # None =>
        /\ gens[journal.id] = journal.inst
        /\ journal.inst \in used \ acked
        /\ journal.phase = "purged" => ~journal.remote
        /\ journal.phase \in {"offloading", "evicting"} => journal.cand = None
        /\ ~journal.remote => NoUpload(journal.id)
        /\ journal.phase \in {"evicting", "cold", "restoring"} =>
             \/ journal.remote /\ Verified(journal.id, journal.ver)
             \/ journal.id \in deleted /\ journal.inst \in tomb

\* An object is published only while the record names it, and a delete that
\* outlived its client is not of one that is needed.
GenInv ==
    /\ \A g \in Gens : (journal = None \/ journal.id # g) => NoUpload(g)
    /\ \A id \in Ids : objects[id] # None => objects[id].parent \in {Base, None}
    /\ \A q \in wire :
         /\ q.id \in Gens /\ gens[q.id] # None
         /\ q.op = "put" => q.parent \in {Base, None}
         /\ (q.op = "delete" /\ journal # None /\ journal.id = q.id) =>
              journal.phase \in {"hot", "purged"} \/ journal.inst \in tomb

\* The disk of a living incarnation is on the host or can be brought back.
DataSafe == (row # None /\ row \notin tomb /\ disk = None) => Retrievable

IInv ==
    /\ RowInv /\ OpInv /\ RecInv /\ StepInv /\ JournalInv /\ GenInv /\ DataSafe
    /\ ParentsKept /\ MarkerHasJournal /\ RuntimeHasDisk

==============================================================================
