---------------------------- MODULE MCSandboxRuntime ---------------------------
(* A small instance of SandboxRuntime for TLC: two jobs, one after the     *)
(* other, with what their cancellations leave behind.                      *)
EXTENDS SandboxRuntime
===============================================================================
