---------------------------- MODULE MCLifecycle ----------------------------
(* Instances of Lifecycle.  Attempts are spent one by one; when the last is   *)
(* spent a start can only fail before it issues one.                          *)
EXTENDS Lifecycle, TLC

Symmetry == Permutations(Attempts)
=============================================================================
