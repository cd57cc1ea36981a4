--------------------------- MODULE RunnerContract ---------------------------
(***************************************************************************)
(* What the root runner promises the control plane about one name, without *)
(* locks, journals, RAM images or drains: the life of an attempt's receipt *)
(* and of the process launched under it.  StartReceipts implements it;     *)
(* Lifecycle relies on nothing else.                                       *)
(***************************************************************************)
CONSTANTS
    Attempts,   \* request IDs
    Procs       \* processes: attempts, and VMs of an older release

VARIABLES
    receipt,    \* none | accepted | started | closed
    live,       \* processes that run
    spawned,    \* attempts a process was ever launched for
    old         \* attempts made before the last host reboot

contract == <<receipt, live, spawned, old>>

Open == {a \in Attempts : receipt[a] \in {"accepted", "started"}}

CInit ==
    /\ receipt = [a \in Attempts |-> "none"]
    /\ live \in SUBSET (Procs \ Attempts)
    /\ spawned = {}
    /\ old = {}

\* A new attempt is taken up only when nothing else has the name.
Accept(a) ==
    /\ receipt[a] = "none"
    /\ Open = {} /\ live = {}
    /\ receipt' = [receipt EXCEPT ![a] = "accepted"]
    /\ UNCHANGED <<live, spawned, old>>

\* Its process is launched at most once, into an empty name.
Spawn(a) ==
    /\ receipt[a] = "accepted"
    /\ a \notin spawned
    /\ live = {}
    /\ live' = {a}
    /\ spawned' = spawned \cup {a}
    /\ UNCHANGED <<receipt, old>>

Record(a) ==
    /\ receipt[a] = "accepted"
    /\ a \in live
    /\ receipt' = [receipt EXCEPT ![a] = "started"]
    /\ UNCHANGED <<live, spawned, old>>

\* An attempt is closed for good if it never launched, if its recorded process
\* is gone, or if the host rebooted.  A launch of unknown outcome is not.
Closable(a) ==
    \/ receipt[a] = "none"
    \/ receipt[a] = "started" /\ live = {}
    \/ receipt[a] = "accepted" /\ a \in old /\ live = {}

Close(a) ==
    /\ Closable(a)
    /\ receipt' = [receipt EXCEPT ![a] = "closed"]
    /\ UNCHANGED <<live, spawned, old>>

Exit(p) ==
    /\ p \in live
    /\ live' = live \ {p}
    /\ UNCHANGED <<receipt, spawned, old>>

Reboot(made) ==
    /\ live' = {}
    /\ UNCHANGED receipt
    /\ old' = old \cup made
    /\ UNCHANGED spawned

CNext ==
    \/ \E made \in SUBSET Attempts : Reboot(made)
    \/ \E p \in Procs : Exit(p)
    \/ \E a \in Attempts : Accept(a) \/ Spawn(a) \/ Record(a) \/ Close(a)

CSpec == CInit /\ [][CNext]_contract

=============================================================================
