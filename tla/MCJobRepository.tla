---------------------------- MODULE MCJobRepository ----------------------------
(* Small instances of JobRepository for TLC.  Idempotency keys and digests  *)
(* are only compared for equality, so both are symmetric; job ids are not.  *)
EXTENDS JobRepository, TLC

KeySymmetry == Permutations(Keys)

(* The payloads that the profiler lookup tells apart.                      *)
MCWorks == [kind : {"compile"}, digest : Digests \cup {None}]
           \cup [kind : {"correctness"}, digest : Digests]

(* Bounds.  Two ordinary jobs compete while time passes; no timestamp and *)
(* no lease reads a payload.  Three jobs of one moment are two that may     *)
(* compile one executable and a third that examines it.                     *)
Present(j) == jobs[j].status # "absent"
Competing == issued <= 2 /\ \A j \in Jobs : Present(j) => j # 3 /\ jobs[j].work = NoJob.work
Examined == /\ clock = 0 /\ \A r \in Runs : runs[r] # "finished"
            /\ \A j \in Jobs : Present(j) =>
                 /\ jobs[j].work.kind = IF j = 3 THEN "correctness" ELSE "compile"
                 /\ \A i \in Jobs : i < j => Present(i)
Bounded == Competing \/ Examined
===============================================================================
