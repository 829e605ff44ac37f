---------------------------- MODULE MCExecution -----------------------------
(* Execution for TLC: the bounds are given in execution.cfg. *)
EXTENDS Execution
=============================================================================
