---------------------------- MODULE MCExecBridge ----------------------------
(* A small instance of ExecBridge for TLC. *)
EXTENDS ExecBridge
=============================================================================
