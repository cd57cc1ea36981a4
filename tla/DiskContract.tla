---------------------------- MODULE DiskContract ----------------------------
(***************************************************************************)
(* What the cold storage of a disk promises, without journal, stages or    *)
(* objects: the contents of an instance's disk are in one place, move      *)
(* between the host and the remote store unchanged, change only on the     *)
(* host, and are given up only for an incarnation condemned to deletion.   *)
(***************************************************************************)
EXTENDS Naturals

CONSTANTS Insts, None

VARIABLES
    owner,      \* the incarnation that holds the name, or None
    place,      \* "local", "remote" or "none"
    contents,   \* the version the disk holds
    condemned   \* incarnations with a deletion intent

contractVars == <<owner, place, contents, condemned>>

Init ==
    /\ owner # None
    /\ place = "local"
    /\ contents = 0
    /\ condemned = {}

Write ==
    /\ place = "local" /\ place' = place
    /\ contents' = contents + 1
    /\ UNCHANGED <<owner, condemned>>

Move ==
    /\ {place, place'} = {"local", "remote"}
    /\ UNCHANGED <<owner, contents, condemned>>

Condemn ==
    /\ \E i \in Insts : condemned' = condemned \cup {i}
    /\ UNCHANGED <<owner, place, contents>>

\* The last copy of a condemned incarnation goes.
Drop ==
    /\ owner \in condemned
    /\ place' = "none" /\ contents' = 0
    /\ UNCHANGED <<owner, condemned>>

Retire ==
    /\ owner \in condemned
    /\ owner' = None /\ place' = "none" /\ contents' = 0
    /\ UNCHANGED condemned

Create ==
    /\ owner = None
    /\ owner' # None /\ owner' \notin condemned
    /\ place' = "local" /\ contents' = 0
    /\ UNCHANGED condemned

Next == Write \/ Move \/ Condemn \/ Drop \/ Retire \/ Create

Spec == Init /\ [][Next]_contractVars

==============================================================================
