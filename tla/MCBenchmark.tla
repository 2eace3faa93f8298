---------------------------- MODULE MCBenchmark ----------------------------
(* The instance of Benchmark that TLC checks.                              *)
EXTENDS Benchmark

MCMinimum == [discovery |-> 1, confirmation |-> 2]
MCOrder == <<"t1">>
=============================================================================
