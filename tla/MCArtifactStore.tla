---------------------------- MODULE MCArtifactStore ----------------------------
(* One payload that is sent again and again to Control and registered by   *)
(* the script, next to two recorded launches, the second of which may use  *)
(* the folder of the first again.                                          *)
EXTENDS ArtifactStore, TLC
CONSTANTS u1

(* Bound: a run records two events as long as nothing but the recorder     *)
(* writes to the store, and one beside other writers.                      *)
OnlyRecords == /\ visible \cap Upload = {}
               /\ \A w \in Uploaders : puts[w] = NoPut
Bounded == OnlyRecords \/ (recorder.seq <= 1 /\ \A e \in folder.log : e[2] = 1)
================================================================================
