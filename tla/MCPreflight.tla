------------------------------ MODULE MCPreflight ------------------------------
(* A small instance of Preflight for TLC: the three stages and a job of     *)
(* another client, and requests for a profile that come in time or too late.*)
EXTENDS Preflight

CONSTANTS compile, correctness, events, other
MCStages == <<compile, correctness, events>>
MCRemaining == {0, 1}
================================================================================
