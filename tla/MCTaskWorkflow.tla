----------------------------- MODULE MCTaskWorkflow ----------------------------
(* A small instance of TaskWorkflow for TLC: a rollout measures nothing, or *)
(* ends slower than it began, or in another unit, so that the order of      *)
(* steps and of rollouts tells.                                             *)
EXTENDS TaskWorkflow

us(v) == [class |-> "us", value |-> v]
cycles(v) == [class |-> "cycles", value |-> v]

MCTrajectories == {<<>>, <<us(1), us(2)>>, <<us(2)>>, <<cycles(1), us(1)>>}
===============================================================================
