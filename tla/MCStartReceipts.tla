-------------------------- MODULE MCStartReceipts --------------------------
(* Two interchangeable attempts of one incarnation and one of its successor *)
(* on the name.                                                             *)
EXTENDS StartReceipts, TLC

CONSTANTS a1, a2, a3, old, new

MCAttempts == {a1, a2, a3}
MCInstances == {old, new}
MCInstOf == a1 :> old @@ a2 :> old @@ a3 :> new
Symmetry == Permutations({a1, a2})

=============================================================================
