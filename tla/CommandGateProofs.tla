------------------------- MODULE CommandGateProofs -------------------------
(***************************************************************************)
(* The safety of the snapshot barrier and of the instance locks, for every *)
(* finite set of goroutines and any names and lock entries.  The steps are *)
(* those of the gate (leases and barrier), of the locks (references and    *)
(* entry mutexes) and the rest, which only moves one goroutine on.         *)
(***************************************************************************)
EXTENDS CommandGate, FiniteSetTheorems, TLAPS

GateStep(c) ==
    \/ BeginCommand(c) \/ Promote(c) \/ Drained(c) \/ DrainCancelled(c) \/ DrainSleep(c)
    \/ Disconnect(c) \/ (\E n \in Names : TryEntryBusy(c, n)) \/ EndPass(c) \/ EndCommand(c)
    \/ BarrierSleep(c)

LockStep(c) ==
    \/ \E n \in Names, e \in Entries : RefEntry(c, n, e)
    \/ LockEntry(c) \/ UnlockEntry(c) \/ UnrefEntry(c)

OtherStep(c) ==
    \/ LockSnapshot(c) \/ Inventory(c) \/ Checkpoint(c) \/ Bundle(c) \/ CaptureFails(c)
    \/ LockService(c) \/ RunDone(c) \/ BarrierLifted(c) \/ RecordCommand(c)

\* The users of an entry after a step.
UsersAfter(e) == {c \in Cmds : at'[c].entry = e}

-----------------------------------------------------------------------------
(* Counting goroutines *)

\* Two sets of goroutines that differ in c at most: their sizes differ by one
\* at most.
LEMMA OneChanges ==
    ASSUME NEW S \in SUBSET Cmds, NEW T \in SUBSET Cmds, NEW c \in Cmds, S \ {c} = T \ {c}
    PROVE  /\ Cardinality(S) \in Nat /\ Cardinality(T) \in Nat
           /\ (c \in S <=> c \in T) => Cardinality(T) = Cardinality(S)
           /\ c \in T /\ c \notin S => Cardinality(T) = Cardinality(S) + 1
           /\ c \in S /\ c \notin T => Cardinality(T) = Cardinality(S) - 1
PROOF
<1>1. IsFiniteSet(S) /\ IsFiniteSet(T)
  BY GateAssumption, FS_Subset
<1>2. Cardinality(S) \in Nat /\ Cardinality(T) \in Nat
  BY <1>1, FS_CardinalityType
<1>3. Cardinality(S \ {c}) = IF c \in S THEN Cardinality(S) - 1 ELSE Cardinality(S)
  BY <1>1, FS_RemoveElement
<1>4. Cardinality(T \ {c}) = IF c \in T THEN Cardinality(T) - 1 ELSE Cardinality(T)
  BY <1>1, FS_RemoveElement
<1>5. QED
  BY <1>2, <1>3, <1>4

\* A count of zero means that there is none.
LEMMA NoneCounted ==
    ASSUME NEW S \in SUBSET Cmds, Cardinality(S) = 0
    PROVE  S = {}
PROOF
<1>1. IsFiniteSet(S)
  BY GateAssumption, FS_Subset
<1>2. QED
  BY <1>1, FS_EmptySet

-----------------------------------------------------------------------------
(* The barrier *)

\* Leases and barrier agree after a step of the gate: the counter follows the
\* commands in flight, the flag the goroutine that closed the gate.
LEMMA GateStepKeepsGate ==
    ASSUME TypeOK, IInv, NEW c \in Cmds, GateStep(c)
    PROVE  TypeOK' /\ LeaseInv' /\ GateInv'
PROOF
<1> USE DEF IInv, gate, map, Goto, Release, GateStep, BeginCommand, Promote, Drained,
        DrainCancelled, DrainSleep, Disconnect, TryEntryBusy, EndPass, EndCommand, BarrierSleep
<1>1. /\ InFlight \in SUBSET Cmds /\ InFlight' \in SUBSET Cmds
      /\ InFlight' \ {c} = InFlight \ {c}
  BY DEF InFlight, TypeOK
<1>2. /\ Cardinality(InFlight) \in Nat /\ Cardinality(InFlight') \in Nat
      /\ (c \in InFlight <=> c \in InFlight') => Cardinality(InFlight') = Cardinality(InFlight)
      /\ c \in InFlight' /\ c \notin InFlight =>
            Cardinality(InFlight') = Cardinality(InFlight) + 1
      /\ c \in InFlight /\ c \notin InFlight' =>
            Cardinality(InFlight') = Cardinality(InFlight) - 1
  BY <1>1, OneChanges
<1>3. LeaseInv'
  BY DEF LeaseInv, TypeOK
<1>4. inFlight' = Cardinality(InFlight')
  BY <1>2 DEF InFlight, LeaseInv, GateInv, TypeOK
<1>5. TypeOK'
  BY <1>2, <1>4 DEF TypeOK, PCs
<1>6. GateInv'
  <2>1. CASE Drained(c)
    <3>1. InFlight = {}
      BY <2>1, <1>1, NoneCounted DEF GateInv
    <3>2. QED
      BY <2>1, <1>4, <3>1 DEF InFlight, Closes, LeaseInv, GateInv, TypeOK
  <2>2. CASE BeginCommand(c)
    BY <2>2, <1>4 DEF Closes, LeaseInv, GateInv, TypeOK
  <2>3. CASE Promote(c)
    BY <2>3, <1>4 DEF Closes, LeaseInv, GateInv, TypeOK
  <2>4. CASE DrainCancelled(c)
    BY <2>4, <1>4 DEF Closes, LeaseInv, GateInv, TypeOK
  <2>5. CASE (\E n \in Names : TryEntryBusy(c, n)) \/ EndPass(c) \/ EndCommand(c)
    BY <2>5, <1>4 DEF Closes, LeaseInv, GateInv, TypeOK
  <2>6. CASE DrainSleep(c) \/ Disconnect(c) \/ BarrierSleep(c)
    BY <2>6, <1>4 DEF Closes, LeaseInv, GateInv, TypeOK
  <2>7. QED
    BY <2>1, <2>2, <2>3, <2>4, <2>5, <2>6
<1>7. QED
  BY <1>3, <1>5, <1>6

\* A step of the gate is taken outside the instances: who uses which lock entry
\* does not change.
LEMMA GateStepKeepsLocks ==
    ASSUME TypeOK, IInv, NEW c \in Cmds, GateStep(c)
    PROVE  AtInv' /\ EntryInv'
PROOF
<1> USE DEF IInv, gate, map, Goto, GateStep, BeginCommand, Promote, Drained,
        DrainCancelled, DrainSleep, Disconnect, TryEntryBusy, EndPass, EndCommand, BarrierSleep
<1>1. /\ pc' \in [Cmds -> PCs] /\ UNCHANGED map
      /\ \A d \in Cmds : pc'[d] # pc[d] =>
            pc[d] \notin {"ref", "crit", "unref"} /\ pc'[d] \notin {"ref", "crit", "unref"}
  BY DEF TypeOK, PCs
<1>2. AtInv'
  BY <1>1 DEF AtInv, TypeOK, Nowhere
<1>3. \A e : Users(e)' = Users(e)
  BY <1>1 DEF Users
<1>4. EntryInv'
  BY <1>1, <1>3 DEF EntryInv, TypeOK, Users
<1>5. QED
  BY <1>2, <1>4

-----------------------------------------------------------------------------
(* The locks *)

\* A step at an instance lock leaves leases and barrier alone.
LEMMA LockStepKeepsGate ==
    ASSUME TypeOK, IInv, NEW c \in Cmds, LockStep(c)
    PROVE  LeaseInv' /\ GateInv'
PROOF
<1> USE DEF IInv, gate, map, Goto, LockStep, RefEntry, LockEntry, UnlockEntry, UnrefEntry
<1>1. LeaseInv'
  BY DEF LeaseInv, TypeOK
<1>2. InFlight' = InFlight
  BY DEF InFlight, TypeOK
<1>3. GateInv'
  BY <1>2 DEF GateInv, Closes, TypeOK
<1>4. QED
  BY <1>1, <1>3

\* The references of an entry are its users, and the map has it while there is
\* one, also when several goroutines come and go at once.
LEMMA LockStepKeepsLocks ==
    ASSUME TypeOK, IInv, NEW c \in Cmds, LockStep(c)
    PROVE  TypeOK' /\ AtInv' /\ EntryInv'
PROOF
<1> USE DEF IInv, gate, map, Goto
<1>1. CASE \E n \in Names, e \in Entries : RefEntry(c, n, e)
  <2>1. PICK n \in Names, e \in Entries : RefEntry(c, n, e)
    BY <1>1
  <2>2. TypeOK'
    BY <2>1 DEF RefEntry, TypeOK, PCs
  <2>3. AtInv'
    BY <2>1, GateAssumption DEF RefEntry, AtInv, TypeOK, Unused, Nowhere
  <2>4. /\ UsersAfter(e) = Users(e) \cup {c} /\ c \notin Users(e)
        /\ \A f \in Entries \ {e} : UsersAfter(f) = Users(f)
    BY <2>1, GateAssumption DEF RefEntry, Users, UsersAfter, AtInv, TypeOK, Nowhere
  <2>5. \A f \in Entries : refs'[f] = Cardinality(UsersAfter(f))
    <3>1. Cardinality(UsersAfter(e)) = Cardinality(Users(e)) + 1
      BY <2>4, OneChanges DEF Users, UsersAfter
    <3>2. TAKE f \in Entries
    <3>3. refs[f] = Cardinality(Users(f)) /\ refs[f] \in Nat
      BY DEF EntryInv, TypeOK
    <3>4. CASE f = e
      BY <2>1, <3>1, <3>3, <3>4 DEF RefEntry, TypeOK
    <3>5. CASE f # e
      BY <2>1, <2>4, <3>3, <3>5 DEF RefEntry, TypeOK
    <3>6. QED
      BY <3>4, <3>5
  <2>6. \A m \in Names : locks'[m] # None => UsersAfter(locks'[m]) # {}
    <3>1. SUFFICES ASSUME NEW m \in Names, locks'[m] # None PROVE UsersAfter(locks'[m]) # {}
      OBVIOUS
    <3>2. CASE m = n
      <4>1. locks'[m] = e
        BY <2>1, <3>2 DEF RefEntry, TypeOK
      <4>2. QED
        BY <2>4, <4>1
    <3>3. CASE m # n
      <4>1. locks'[m] = locks[m] /\ Users(locks[m]) # {} /\ locks[m] \in Entries
        BY <2>1, <3>1, <3>3 DEF RefEntry, TypeOK, EntryInv
      <4>2. QED
        BY <2>4, <4>1
    <3>4. QED
      BY <3>2, <3>3
  <2>7. \A l, m \in Names : locks'[l] = locks'[m] /\ locks'[l] # None => l = m
    BY <2>1 DEF RefEntry, Unused, EntryInv, TypeOK
  <2>8. \A f \in Entries, d \in Cmds : owner'[f] = d <=> pc'[d] = "crit" /\ at'[d].entry = f
    BY <2>1 DEF RefEntry, EntryInv, TypeOK
  <2>9. EntryInv'
    BY <2>5, <2>6, <2>7, <2>8 DEF EntryInv, Users, UsersAfter
  <2>10. QED
    BY <2>2, <2>3, <2>9
<1>2. CASE LockEntry(c)
  <2>1. TypeOK' /\ AtInv'
    BY <1>2 DEF LockEntry, TypeOK, PCs, AtInv
  <2>2. \A e : Users(e)' = Users(e)
    BY <1>2 DEF LockEntry, Users
  <2>3. \A e \in Entries, d \in Cmds : owner'[e] = d <=> pc'[d] = "crit" /\ at'[d].entry = e
    BY <1>2, GateAssumption DEF LockEntry, EntryInv, AtInv, TypeOK
  <2>4. EntryInv'
    BY <1>2, <2>2, <2>3 DEF LockEntry, EntryInv
  <2>5. QED
    BY <2>1, <2>4
<1>3. CASE UnlockEntry(c)
  <2>1. TypeOK' /\ AtInv'
    BY <1>3 DEF UnlockEntry, TypeOK, PCs, AtInv
  <2>2. \A e : Users(e)' = Users(e)
    BY <1>3 DEF UnlockEntry, Users
  <2>3. \A e \in Entries, d \in Cmds : owner'[e] = d <=> pc'[d] = "crit" /\ at'[d].entry = e
    BY <1>3, GateAssumption DEF UnlockEntry, EntryInv, AtInv, TypeOK
  <2>4. EntryInv'
    BY <1>3, <2>2, <2>3 DEF UnlockEntry, EntryInv
  <2>5. QED
    BY <2>1, <2>4
<1>4. CASE UnrefEntry(c)
  <2>1. PICK e \in Entries, n \in Names : at[c].entry = e /\ at[c].name = n /\ locks[n] = e
    BY <1>4 DEF UnrefEntry, AtInv
  <2>2. /\ UsersAfter(e) = Users(e) \ {c} /\ c \in Users(e)
        /\ \A f \in Entries \ {e} : UsersAfter(f) = Users(f)
    BY <1>4, <2>1, GateAssumption DEF UnrefEntry, Users, UsersAfter, TypeOK, Nowhere
  <2>3. /\ Cardinality(UsersAfter(e)) = Cardinality(Users(e)) - 1
        /\ Cardinality(UsersAfter(e)) \in Nat
    BY <2>2, OneChanges DEF Users, UsersAfter
  <2>4. TypeOK'
    BY <1>4, <2>1, <2>3 DEF UnrefEntry, TypeOK, PCs, EntryInv, Nowhere
  <2>5. \A f \in Entries : refs'[f] = Cardinality(UsersAfter(f))
    <3>1. TAKE f \in Entries
    <3>2. refs[f] = Cardinality(Users(f)) /\ refs[f] \in Nat
      BY DEF EntryInv, TypeOK
    <3>3. CASE f = e
      BY <1>4, <2>1, <2>3, <3>2, <3>3 DEF UnrefEntry, TypeOK
    <3>4. CASE f # e
      BY <1>4, <2>1, <2>2, <3>2, <3>4 DEF UnrefEntry, TypeOK
    <3>5. QED
      BY <3>3, <3>4
  <2>6. refs[e] = 1 <=> UsersAfter(e) = {}
    <3>1. refs[e] = 1 <=> Cardinality(UsersAfter(e)) = 0
      BY <2>3 DEF EntryInv, TypeOK
    <3>2. UsersAfter(e) \in SUBSET Cmds
      BY DEF UsersAfter
    <3>3. QED
      BY <3>1, <3>2, NoneCounted, FS_EmptySet
  <2>7. AtInv'
    BY <1>4, <2>1, <2>2, <2>6 DEF UnrefEntry, AtInv, EntryInv, TypeOK, UsersAfter
  <2>8. \A m \in Names : locks'[m] # None => UsersAfter(locks'[m]) # {}
    <3>1. SUFFICES ASSUME NEW m \in Names, locks'[m] # None PROVE UsersAfter(locks'[m]) # {}
      OBVIOUS
    <3>2. locks'[m] = locks[m] /\ locks[m] \in Entries /\ Users(locks[m]) # {}
      BY <1>4, <2>1, <3>1 DEF UnrefEntry, EntryInv, TypeOK
    <3>3. CASE m = n
      BY <1>4, <2>1, <2>6, <3>1, <3>2, <3>3 DEF UnrefEntry, TypeOK
    <3>4. CASE m # n
      <4>1. locks[m] # e
        BY <2>1, <3>2, <3>4, GateAssumption DEF EntryInv
      <4>2. QED
        BY <2>2, <3>2, <4>1
    <3>5. QED
      BY <3>3, <3>4
  <2>9. /\ \A l, m \in Names : locks'[l] = locks'[m] /\ locks'[l] # None => l = m
        /\ \A f \in Entries, d \in Cmds : owner'[f] = d <=> pc'[d] = "crit" /\ at'[d].entry = f
    BY <1>4, GateAssumption DEF UnrefEntry, EntryInv, TypeOK, Nowhere
  <2>10. EntryInv'
    BY <2>5, <2>8, <2>9 DEF EntryInv, Users, UsersAfter
  <2>11. QED
    BY <2>4, <2>7, <2>10
<1>5. QED
  BY <1>1, <1>2, <1>3, <1>4 DEF LockStep

-----------------------------------------------------------------------------
(* The rest *)

\* The capture, the service mutex and the audit write move one goroutine on and
\* change neither lease nor lock.
LEMMA OtherStepKeeps ==
    ASSUME TypeOK, IInv, NEW c \in Cmds, OtherStep(c)
    PROVE  TypeOK' /\ IInv'
PROOF
<1> USE DEF IInv, gate, map, Goto, OtherStep, LockSnapshot, Inventory, Checkpoint, Bundle,
        CaptureFails, Capturing, LockService, RunDone, BarrierLifted, RecordCommand
<1>1. /\ pc' \in [Cmds -> PCs] /\ UNCHANGED gate /\ UNCHANGED map
      /\ \A d \in Cmds : pc'[d] # pc[d] =>
            /\ pc[d] \notin {"ref", "crit", "unref", "drain"}
            /\ pc'[d] \notin {"ref", "crit", "unref", "drain"}
  BY DEF TypeOK, PCs
<1>2. TypeOK'
  BY DEF TypeOK, PCs
<1>3. LeaseInv'
  BY DEF LeaseInv, TypeOK
<1>4. InFlight' = InFlight /\ \A e : Users(e)' = Users(e)
  BY <1>1 DEF InFlight, Users
<1>5. GateInv'
  BY <1>1, <1>4 DEF GateInv, Closes, TypeOK
<1>6. AtInv'
  BY <1>1 DEF AtInv, TypeOK, Nowhere
<1>7. EntryInv'
  BY <1>1, <1>4 DEF EntryInv, TypeOK, Users
<1>8. QED
  BY <1>2, <1>3, <1>5, <1>6, <1>7

-----------------------------------------------------------------------------
(* The theorems *)

\* Nobody has a lease, a lock or a reference at the start.
LEMMA InitInv == Init => TypeOK /\ IInv
PROOF
<1> SUFFICES ASSUME Init PROVE TypeOK /\ IInv
  OBVIOUS
<1>1. TypeOK
  BY DEF Init, TypeOK, PCs, Nowhere
<1>2. InFlight = {} /\ \A e \in Entries : Users(e) = {}
  BY GateAssumption DEF Init, InFlight, Users, Nowhere
<1>3. LeaseInv /\ GateInv
  BY <1>2, FS_EmptySet DEF Init, LeaseInv, GateInv, Closes
<1>4. AtInv /\ EntryInv
  BY <1>2, FS_EmptySet, GateAssumption DEF Init, AtInv, EntryInv
<1>5. QED
  BY <1>1, <1>3, <1>4 DEF IInv

\* Every step of a goroutine keeps types and invariant.
LEMMA NextInv == TypeOK /\ IInv /\ [Next]_vars => TypeOK' /\ IInv'
PROOF
<1> SUFFICES ASSUME TypeOK, IInv, [Next]_vars PROVE TypeOK' /\ IInv'
  OBVIOUS
<1>1. CASE UNCHANGED vars
  <2>1. InFlight' = InFlight /\ \A e : Users(e)' = Users(e)
    BY <1>1 DEF vars, gate, map, InFlight, Users
  <2>2. QED
    BY <1>1, <2>1 DEF vars, gate, map, TypeOK, IInv, LeaseInv, GateInv, AtInv, EntryInv, Closes
<1>2. CASE Next
  <2>1. PICK c \in Cmds : GateStep(c) \/ LockStep(c) \/ OtherStep(c)
    BY <1>2 DEF Next, Choose, Proceed, GateStep, LockStep, OtherStep
  <2>2. QED
    BY <2>1, GateStepKeepsGate, GateStepKeepsLocks, LockStepKeepsGate, LockStepKeepsLocks,
       OtherStepKeeps DEF IInv
<1>3. QED
  BY <1>1, <1>2

\* Types and inductive invariant hold in every reachable state.
THEOREM GateInvariant == Spec => [](TypeOK /\ IInv)
PROOF
  BY InitInv, NextInv, PTL DEF Spec

\* While a snapshot is captured no command is admitted and none still runs; the
\* counter the barrier waits for counts exactly those commands.
THEOREM CaptureIsAlone == Spec => []NoCommandDuringCapture
PROOF
<1>1. TypeOK /\ IInv => NoCommandDuringCapture
  BY DEF IInv, GateInv, LeaseInv, InFlight, NoCommandDuringCapture, Capturing
<1>2. QED
  BY <1>1, GateInvariant, PTL

\* One command at a time works on an instance, and the lock map holds exactly the
\* names in use.
THEOREM InstancesAreExclusive == Spec => []InstanceExclusion
PROOF
<1>1. ASSUME TypeOK, IInv PROVE InstanceExclusion
  <2>1. ASSUME NEW c \in Cmds, NEW d \in Cmds, pc[c] = "crit", pc[d] = "crit",
               at[c].name = at[d].name
        PROVE  c = d
    <3>1. at[c].entry \in Entries /\ at[c].entry = at[d].entry
      BY <1>1, <2>1 DEF IInv, AtInv
    <3>2. owner[at[c].entry] = c /\ owner[at[c].entry] = d
      BY <1>1, <2>1, <3>1 DEF IInv, EntryInv
    <3>3. QED
      BY <3>2
  <2>2. ASSUME NEW n \in Names, locks[n] # None
        PROVE  \E c \in Cmds : at[c].name = n
    <3>1. PICK c \in Cmds : at[c].entry = locks[n]
      BY <1>1, <2>2 DEF IInv, EntryInv, Users
    <3>2. at[c].name \in Names /\ locks[at[c].name] = locks[n]
      BY <1>1, <2>2, <3>1 DEF IInv, AtInv, TypeOK, Nowhere
    <3>3. QED
      BY <1>1, <2>2, <3>2 DEF IInv, EntryInv
  <2>3. ASSUME NEW n \in Names, NEW c \in Cmds, at[c].name = n
        PROVE  locks[n] # None
    BY <1>1, <2>3, GateAssumption DEF IInv, AtInv, Nowhere
  <2>4. QED
    BY <2>1, <2>2, <2>3 DEF InstanceExclusion
<1>2. QED
  BY <1>1, GateInvariant, PTL
=============================================================================
