---------------------------- MODULE MCMemoryPool ----------------------------
(* Two instances, and a resize that may reach the second of two pools that *)
(* have one name.                                                          *)
EXTENDS MemoryPool, TLC

Symmetry == Permutations(Pools) \cup Permutations(Insts) \cup Permutations(Reqs)

=============================================================================
