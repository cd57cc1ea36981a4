--------------------------- MODULE MCInstanceDisk ---------------------------
(* One instance, two kernels, two disk sizes and two faults. *)
EXTENDS InstanceDisk
==============================================================================
