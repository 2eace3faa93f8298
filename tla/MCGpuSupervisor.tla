---------------------------- MODULE MCGpuSupervisor ----------------------------
(* A small instance of GpuSupervisor for TLC: an executor succeeds, raises  *)
(* or runs out of time (the last two are ExecutorEnds' own), and one        *)
(* finished job is remembered, so that the others are trimmed.              *)
EXTENDS GpuSupervisor

MCReported == {"succeeded"}
MCRecentLimit == 1
===============================================================================
