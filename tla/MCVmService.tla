---------------------------- MODULE MCVmService -----------------------------
(* Small instances of VmService, with the faults of MCExecution, for TLC. *)
EXTENDS VmService, MCExecution

CONSTANT b1
=============================================================================
