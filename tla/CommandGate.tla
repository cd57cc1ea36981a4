---------------------------- MODULE CommandGate ----------------------------
(***************************************************************************)
(* Concurrency control of the control-plane service: the snapshot barrier  *)
(* every SSH command and background pass goes through                      *)
(* (internal/service/snapshot.go), the reference-counted map of instance   *)
(* locks and the service mutex (internal/service/service.go), and the      *)
(* audit write after a command gave up its lease (handleSession).          *)
(*                                                                         *)
(* A member of Cmds is a goroutine that runs one command or background     *)
(* pass after another; which one is a free choice at every step.  Critical *)
(* sections of commandMu and lockMu are one step.  The condition variable  *)
(* is explicit: a waiter sleeps until a Broadcast, so that a wake-up that  *)
(* is not sent is a wake-up that is lost.                                  *)
(***************************************************************************)
EXTENDS Integers, FiniteSets

CONSTANTS
    Cmds,      \* goroutines
    Names,     \* instance names
    Entries,   \* identities of lock entries; enough for one per goroutine
    None

ASSUME GateAssumption ==
    /\ IsFiniteSet(Cmds)
    /\ None \notin Cmds
    /\ None \notin Entries
    /\ None \notin Names

VARIABLES
    snapshotOn,  \* a snapshot is waiting for the gate or holds it
    inFlight,    \* commands the snapshot has to wait for
    lease,       \* commandGateLease of each goroutine: none|held|snapshot
    pc,          \* where each goroutine is
    asleep,      \* goroutines in commandCond.Wait
    gone,        \* snapshot commands whose context is cancelled
    mu,          \* holder of the service mutex App.mu
    locks,       \* App.locks: the entry of a name, None if not in the map
    refs,        \* instanceLockEntry.refs
    owner,       \* holder of instanceLockEntry.mu
    at           \* the name and entry a goroutine works on

gate  == <<snapshotOn, inFlight, lease, asleep, gone>>
map   == <<locks, refs, owner, at>>
vars  == <<gate, pc, mu, map>>

PCs == {"idle", "run", "ref", "crit", "unref", "end",
        "drain", "snapmu", "inventory", "checkpoint", "bundle", "barrier", "audit"}
Nowhere == [name |-> None, entry |-> None]

TypeOK ==
    /\ snapshotOn \in BOOLEAN
    /\ inFlight \in Nat
    /\ lease \in [Cmds -> {"none", "held", "snapshot"}]
    /\ pc \in [Cmds -> PCs]
    /\ asleep \in SUBSET Cmds
    /\ gone \in SUBSET Cmds
    /\ mu \in Cmds \cup {None}
    /\ locks \in [Names -> Entries \cup {None}]
    /\ refs \in [Entries -> Nat]
    /\ owner \in [Entries -> Cmds \cup {None}]
    /\ at \in [Cmds -> [name : Names \cup {None}, entry : Entries \cup {None}]]

Init ==
    /\ snapshotOn = FALSE
    /\ inFlight = 0
    /\ lease = [c \in Cmds |-> "none"]
    /\ pc = [c \in Cmds |-> "idle"]
    /\ asleep = {} /\ gone = {}
    /\ mu = None
    /\ locks = [n \in Names |-> None]
    /\ refs = [e \in Entries |-> 0]
    /\ owner = [e \in Entries |-> None]
    /\ at = [c \in Cmds |-> Nowhere]

Goto(c, from, to) == pc[c] = from /\ pc' = [pc EXCEPT ![c] = to]

-----------------------------------------------------------------------------
(* The snapshot barrier *)

BeginCommand(c) ==
    /\ Goto(c, "idle", "run")
    /\ ~snapshotOn
    /\ inFlight' = inFlight + 1
    /\ lease' = [lease EXCEPT ![c] = "held"]
    /\ UNCHANGED <<snapshotOn, asleep, gone, mu, map>>

\* PromoteToSnapshot up to its wait loop; refused if another one is on.
Promote(c) ==
    /\ lease[c] = "held"
    /\ IF snapshotOn
         THEN Goto(c, "run", "end") /\ UNCHANGED <<snapshotOn, inFlight>>
         ELSE /\ Goto(c, "run", "drain")
              /\ snapshotOn' = TRUE
              /\ inFlight' = inFlight - 1
    /\ UNCHANGED <<lease, asleep, gone, mu, map>>

\* Mutant: the barrier does not wait for the commands in flight.
DrainedAtOnce(c) ==
    /\ Goto(c, "drain", "snapmu")
    /\ c \notin asleep
    /\ lease' = [lease EXCEPT ![c] = "snapshot"]
    /\ UNCHANGED <<snapshotOn, inFlight, asleep, gone, mu, map>>

\* One round of the wait loop: the gate is drained, ...
Drained(c) ==
    /\ Goto(c, "drain", "snapmu")
    /\ c \notin asleep
    /\ inFlight = 0
    /\ lease' = [lease EXCEPT ![c] = "snapshot"]
    /\ UNCHANGED <<snapshotOn, inFlight, asleep, gone, mu, map>>

\* ... or the caller is gone and the barrier is lifted again, ...
DrainCancelled(c) ==
    /\ Goto(c, "drain", "end")
    /\ c \notin asleep
    /\ inFlight > 0 /\ c \in gone
    /\ snapshotOn' = FALSE
    /\ inFlight' = inFlight + 1
    /\ asleep' = {}
    /\ UNCHANGED <<lease, gone, mu, map>>

\* ... or commandCond.Wait.
DrainSleep(c) ==
    /\ pc[c] = "drain"
    /\ c \notin asleep
    /\ inFlight > 0 /\ c \notin gone
    /\ asleep' = asleep \cup {c}
    /\ UNCHANGED <<snapshotOn, inFlight, lease, gone, pc, mu, map>>

\* The session's context ends; context.AfterFunc broadcasts.
Disconnect(c) ==
    /\ pc[c] = "drain"
    /\ c \notin gone
    /\ gone' = gone \cup {c}
    /\ asleep' = {}
    /\ UNCHANGED <<snapshotOn, inFlight, lease, pc, mu, map>>

\* Mutant: the last command leaves without waking the snapshot.
ReleaseQuietly(c) ==
    /\ lease' = [lease EXCEPT ![c] = "none"]
    /\ gone' = gone \ {c}
    /\ IF lease[c] = "snapshot"
         THEN snapshotOn' = FALSE /\ asleep' = {} /\ UNCHANGED inFlight
         ELSE inFlight' = inFlight - 1 /\ UNCHANGED <<snapshotOn, asleep>>

\* commandGateLease.Release of a lease that is still held.
Release(c) ==
    /\ lease' = [lease EXCEPT ![c] = "none"]
    /\ gone' = gone \ {c}
    /\ IF lease[c] = "snapshot"
         THEN snapshotOn' = FALSE /\ asleep' = {} /\ UNCHANGED inFlight
         ELSE /\ inFlight' = inFlight - 1
              /\ asleep' = IF inFlight' = 0 THEN {} ELSE asleep
              /\ UNCHANGED snapshotOn

\* The snapshot is taken under the service mutex.
LockSnapshot(c) ==
    /\ Goto(c, "snapmu", "inventory")
    /\ mu = None
    /\ mu' = c
    /\ UNCHANGED <<gate, map>>

Inventory(c) == Goto(c, "inventory", "checkpoint") /\ UNCHANGED <<gate, mu, map>>

Checkpoint(c) == Goto(c, "checkpoint", "bundle") /\ UNCHANGED <<gate, mu, map>>

\* The bundle is captured component by component and published at the end.
Bundle(c) ==
    /\ Goto(c, "bundle", "end")
    /\ mu' = None
    /\ UNCHANGED <<gate, map>>

\* Each of the three may fail; the mutex goes with the return.
Capturing(c) == pc[c] \in {"inventory", "checkpoint", "bundle"}
CaptureFails(c) ==
    /\ Capturing(c)
    /\ pc' = [pc EXCEPT ![c] = "end"]
    /\ mu' = None
    /\ UNCHANGED <<gate, map>>

-----------------------------------------------------------------------------
(* Instance locks *)

\* cmdNew, delete --expect, template commands and the startup pass take the
\* service mutex before they lock an instance.
LockService(c) ==
    /\ pc[c] = "run"
    /\ mu = None
    /\ mu' = c
    /\ UNCHANGED <<gate, pc, map>>

Unused(e) == refs[e] = 0 /\ \A n \in Names : locks[n] # e

\* acquireInstance under lockMu: the entry of the name, or a new one.
RefEntry(c, n, e) ==
    /\ Goto(c, "run", "ref")
    /\ e = locks[n] \/ (locks[n] = None /\ Unused(e))
    /\ locks' = [locks EXCEPT ![n] = e]
    /\ refs' = [refs EXCEPT ![e] = @ + 1]
    /\ at' = [at EXCEPT ![c] = [name |-> n, entry |-> e]]
    /\ UNCHANGED <<gate, mu, owner>>

\* Background passes do not queue: a name in the map is skipped.
TryEntryBusy(c, n) ==
    /\ pc[c] = "run"
    /\ mu # c
    /\ locks[n] # None
    /\ pc' = [pc EXCEPT ![c] = "idle"]
    /\ Release(c)
    /\ UNCHANGED <<mu, map>>

LockEntry(c) ==
    /\ Goto(c, "ref", "crit")
    /\ owner[at[c].entry] = None
    /\ owner' = [owner EXCEPT ![at[c].entry] = c]
    /\ UNCHANGED <<gate, mu, locks, refs, at>>

\* Mutant: the service mutex is wanted inside the instance lock, against the order
\* of the commands that hold both.
UnlockEntryUnderService(c) ==
    /\ Goto(c, "crit", "unref")
    /\ mu \in {None, c}
    /\ owner' = [owner EXCEPT ![at[c].entry] = None]
    /\ UNCHANGED <<gate, mu, locks, refs, at>>

UnlockEntry(c) ==
    /\ Goto(c, "crit", "unref")
    /\ owner' = [owner EXCEPT ![at[c].entry] = None]
    /\ UNCHANGED <<gate, mu, locks, refs, at>>

\* Mutant: the entry leaves the map although others wait on it.
UnrefEntryAlways(c) ==
    /\ Goto(c, "unref", "end")
    /\ refs' = [refs EXCEPT ![at[c].entry] = @ - 1]
    /\ locks' = [locks EXCEPT ![at[c].name] = None]
    /\ at' = [at EXCEPT ![c] = Nowhere]
    /\ mu' = IF mu = c THEN None ELSE mu
    /\ UNCHANGED <<gate, owner>>

\* The last reference removes the entry.
UnrefEntry(c) ==
    /\ Goto(c, "unref", "end")
    /\ refs' = [refs EXCEPT ![at[c].entry] = @ - 1]
    /\ locks' = IF refs[at[c].entry] = 1
                  THEN [locks EXCEPT ![at[c].name] = None] ELSE locks
    /\ at' = [at EXCEPT ![c] = Nowhere]
    /\ mu' = IF mu = c THEN None ELSE mu
    /\ UNCHANGED <<gate, owner>>

-----------------------------------------------------------------------------
(* The end of a command *)

\* A command that locks no instance, or logs -f and top, which give up their
\* lease before they stream.
RunDone(c) ==
    /\ Goto(c, "run", "end")
    /\ mu' = IF mu = c THEN None ELSE mu
    /\ UNCHANGED <<gate, map>>

\* A background pass ends without an audit row, ...
EndPass(c) ==
    /\ Goto(c, "end", "idle")
    /\ Release(c)
    /\ UNCHANGED <<mu, map>>

\* ... a session goes on to finalize.
EndCommand(c) ==
    /\ Goto(c, "end", "barrier")
    /\ Release(c)
    /\ UNCHANGED <<mu, map>>

\* waitForSnapshotBarrierToLift
BarrierSleep(c) ==
    /\ pc[c] = "barrier"
    /\ c \notin asleep
    /\ snapshotOn
    /\ asleep' = asleep \cup {c}
    /\ UNCHANGED <<snapshotOn, inFlight, lease, gone, pc, mu, map>>

BarrierLifted(c) ==
    /\ Goto(c, "barrier", "audit")
    /\ c \notin asleep
    /\ ~snapshotOn
    /\ UNCHANGED <<gate, mu, map>>

RecordCommand(c) ==
    /\ Goto(c, "audit", "idle")
    /\ UNCHANGED <<gate, mu, map>>

-----------------------------------------------------------------------------

\* Steps a goroutine takes once it has begun a command.
Proceed(c) ==
    \/ Drained(c) \/ DrainCancelled(c) \/ DrainSleep(c)
    \/ LockSnapshot(c) \/ Inventory(c) \/ Checkpoint(c) \/ Bundle(c)
    \/ CaptureFails(c)
    \/ UnlockEntry(c) \/ UnrefEntry(c)
    \/ EndPass(c) \/ EndCommand(c)
    \/ BarrierSleep(c) \/ BarrierLifted(c) \/ RecordCommand(c)

\* What a running command does next.
Choose(c) ==
    \/ Promote(c) /\ mu # c
    \/ LockService(c)
    \/ \E n \in Names : TryEntryBusy(c, n) \/ \E e \in Entries : RefEntry(c, n, e)
    \/ RunDone(c)

Next ==
    \E c \in Cmds :
        BeginCommand(c) \/ Choose(c) \/ LockEntry(c) \/ Disconnect(c) \/ Proceed(c)

Spec == Init /\ [][Next]_vars

\* Goroutines are scheduled, and sync.Mutex hands itself to a waiter that has
\* waited for long (its starvation mode).  Nobody need begin a command.
Fairness ==
    \A c \in Cmds :
        /\ WF_vars(Proceed(c))
        /\ WF_vars(Choose(c))
        /\ SF_vars(LockEntry(c))
        /\ SF_vars(LockSnapshot(c))

FairSpec == Spec /\ Fairness

-----------------------------------------------------------------------------
(* Properties *)

\* While a snapshot is captured nobody holds a lease or an instance lock, and
\* the counter the barrier waits for is the number of commands it has to wait
\* for, also after a snapshot was given up.
NoCommandDuringCapture ==
    /\ inFlight = Cardinality({c \in Cmds : lease[c] = "held" /\ pc[c] # "drain"})
    /\ \A c, d \in Cmds :
          Capturing(c) /\ c # d
            => lease[d] = "none" /\ pc[d] \in {"idle", "barrier", "audit"}

\* Two commands never work on one instance at the same time, although lock
\* entries come and go with their users; and the map holds a name exactly while
\* some command uses it: entries neither leak nor vanish under a waiter.
InstanceExclusion ==
    /\ \A c, d \in Cmds :
          pc[c] = "crit" /\ pc[d] = "crit" /\ at[c].name = at[d].name => c = d
    /\ \A n \in Names : locks[n] # None <=> \E c \in Cmds : at[c].name = n

\* A snapshot that closed the gate gets it, or its caller gives up: the last
\* command in flight never leaves it asleep.
SnapshotProceeds ==
    \A c \in Cmds : (pc[c] = "drain") ~> (pc[c] # "drain")

\* A command that waits for an instance lock gets it.
LockIsGranted ==
    \A c \in Cmds : (pc[c] = "ref") ~> (pc[c] = "crit")

\* What the documentation of the barrier promises: no admitted command is
\* still writing to the store while the snapshot is captured.
AuditOutsideCapture ==
    [][\A c \in Cmds : pc[c] = "audit" /\ pc'[c] = "idle"
          => \A d \in Cmds : ~Capturing(d)]_vars

-----------------------------------------------------------------------------
(* The inductive invariant behind the safety properties *)

InFlight == {c \in Cmds : lease[c] = "held" /\ pc[c] # "drain"}
Users(e) == {c \in Cmds : at[c].entry = e}

\* A goroutine that closed the gate: it drains the commands, or has the snapshot
\* lease.
Closes(c) == pc[c] = "drain" \/ lease[c] = "snapshot"

\* The lease a goroutine has at each of its steps.
LeaseInv ==
    \A c \in Cmds :
        /\ lease[c] = "none" <=> pc[c] \in {"idle", "barrier", "audit"}
        /\ pc[c] \in {"run", "ref", "crit", "unref", "drain"} => lease[c] = "held"
        /\ pc[c] \in {"snapmu", "inventory", "checkpoint", "bundle"} => lease[c] = "snapshot"

\* The flag tells whether one goroutine has closed the gate; when that one has
\* the snapshot lease, nobody else has any.
GateInv ==
    /\ inFlight = Cardinality(InFlight)
    /\ snapshotOn <=> \E c \in Cmds : Closes(c)
    /\ \A c, d \in Cmds : Closes(c) /\ Closes(d) => c = d
    /\ \A c, d \in Cmds : lease[c] = "snapshot" /\ c # d => lease[d] = "none"

\* A goroutine is at an instance from its reference to the end of it, and uses
\* the entry the map has for that name.
AtInv ==
    \A c \in Cmds :
        IF pc[c] \in {"ref", "crit", "unref"}
        THEN /\ at[c].name \in Names /\ at[c].entry \in Entries
             /\ locks[at[c].name] = at[c].entry
        ELSE at[c] = Nowhere

\* The references count the users; an entry in the map has one, and belongs to
\* one name; its mutex is held by the user inside.
EntryInv ==
    /\ \A e \in Entries : refs[e] = Cardinality(Users(e))
    /\ \A n \in Names : locks[n] # None => Users(locks[n]) # {}
    /\ \A m, n \in Names : locks[m] = locks[n] /\ locks[m] # None => m = n
    /\ \A e \in Entries, c \in Cmds : owner[e] = c <=> pc[c] = "crit" /\ at[c].entry = e

IInv == LeaseInv /\ GateInv /\ AtInv /\ EntryInv

=============================================================================
