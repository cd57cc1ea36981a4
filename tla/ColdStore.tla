------------------------------ MODULE ColdStore ------------------------------
(***************************************************************************)
(* The object namespace of the cold store (internal/coldstore).  Every     *)
(* forced command holds one exclusive lock from its first check to its     *)
(* last rename, so an operation is one step here; what a crash can leave   *)
(* behind between two of its durable writes is a separate outcome of that  *)
(* step.  A command whose client is gone stays on the wire and may run     *)
(* later or never.                                                         *)
(***************************************************************************)
EXTENDS Naturals

CONSTANTS
    Gens,   \* the UUIDs a runner can draw for its generations
    Base,   \* the object ID of the image base disks are cloned from
    None

VARIABLES
    objects,    \* the published object of each ID
    deleted,    \* IDs with a permanent deletion record
    wire        \* commands still running without a client

storeVars == <<objects, deleted, wire>>

Ids == Gens \cup {Base}

ASSUME StoreAssumption == Base \notin Gens /\ None \notin Ids

Object == [ver : Nat, parent : Ids \cup {None}]

Command ==
    [op : {"put"}, id : Ids, ver : Nat, parent : Ids \cup {None}]
        \cup [op : {"delete"}, id : Ids]

StoreInit ==
    /\ objects = [id \in Ids |-> None]
    /\ deleted = {}
    /\ wire = {}

\* stat: a fenced ID is refused even while its disk is still in place.
Available(id) == id \notin deleted /\ objects[id] # None

\* verifyDisk: what was received is the object, byte for byte.
Verified(id, ver) == Available(id) /\ objects[id].ver = ver

\* Mutant: the deletion record is not looked at.
AcceptsDeleted(id, parent) ==
    objects[id] = None /\ (parent # None => Available(parent))

\* Mutant: nor the parent.
AcceptsOrphan(id, parent) == id \notin deleted /\ objects[id] = None

\* put refuses a deleted ID, an overwrite and a missing parent.
Accepts(id, parent) ==
    /\ id \notin deleted
    /\ objects[id] = None
    /\ parent # None => Available(parent)

Publish(id, ver, parent) ==
    objects' = [objects EXCEPT ![id] = [ver |-> ver, parent |-> parent]]

\* delete refuses an object that another published object is a child of.
Unreferenced(ids, outside) ==
    \A id \in outside : objects[id] # None => objects[id].parent \notin ids

\* The record first, then the rename out of the namespace: the removal of the
\* tombstone directory is redone by the next command's recoverStages.
Remove(ids) ==
    /\ deleted' = deleted \cup ids
    /\ objects' = [id \in Ids |-> IF id \in ids THEN None ELSE objects[id]]

DeleteObject(id) == Unreferenced({id}, Ids) /\ Remove({id})

\* A crash after the record and before the rename.
FenceOnly(ids) == deleted' = deleted \cup ids /\ UNCHANGED objects

\* A put whose client is gone: the stream had already arrived.
ServePut(q) ==
    /\ q \in wire /\ q.op = "put"
    /\ Accepts(q.id, q.parent)
    /\ Publish(q.id, q.ver, q.parent)
    /\ wire' = wire \ {q}
    /\ UNCHANGED deleted

\* A delete whose client is gone.
ServeDelete(q) ==
    /\ q \in wire /\ q.op = "delete"
    /\ \/ DeleteObject(q.id)
       \/ Unreferenced({q.id}, Ids) /\ FenceOnly({q.id})
    /\ wire' = wire \ {q}

\* A command refused, or interrupted before anything durable: a put's stage is
\* removed by the next command.
DropCommand(q) ==
    /\ q \in wire
    /\ wire' = wire \ {q}
    /\ UNCHANGED <<objects, deleted>>

\* The administrator abandons a set of IDs.  The whole set is validated, then
\* fenced, then renamed member by member; an interruption leaves some of them
\* fenced, or all fenced and some renamed.
DiscardObjects(ids) ==
    /\ ids # {}
    /\ Unreferenced(ids, Ids \ ids)
    /\ \/ \E part \in SUBSET ids : FenceOnly(part)
       \/ \E gone \in SUBSET ids :
            /\ deleted' = deleted \cup ids
            /\ objects' = [id \in Ids |->
                               IF id \in gone THEN None ELSE objects[id]]
    /\ UNCHANGED wire

==============================================================================
