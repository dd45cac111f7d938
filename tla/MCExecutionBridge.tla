-------------------------- MODULE MCExecutionBridge ---------------------------
(* Small instances of ExecutionBridge for TLC. *)
EXTENDS ExecutionBridge

CONSTANTS restart, fetch
=============================================================================
