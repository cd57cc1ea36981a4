----------------------------- MODULE MCColdDisk -----------------------------
EXTENDS ColdDisk, TLC

Symmetry == Permutations(Insts) \cup Permutations(Gens)

==============================================================================
