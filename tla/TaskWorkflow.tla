------------------------------ MODULE TaskWorkflow -----------------------------
(***************************************************************************)
(* One problem's optimization, from scripts/run_RL.py through run_workflow *)
(* and the graph's node to RLNCUAgent.run, and the folder that outlives    *)
(* the process.                                                            *)
(*                                                                         *)
(* A launch considers every problem and starts those it does not skip, a   *)
(* few at a time.  A workflow runs under a deadline: it measures a         *)
(* baseline, starts its rollouts as tasks of their own, keeps the fastest  *)
(* candidate, has the gate confirm it and writes the final file.  An       *)
(* action is the code between two awaits, or between two writes to the     *)
(* folder, as the process may be killed anywhere.                          *)
(***************************************************************************)
EXTENDS Naturals, Sequences, FiniteSets, SequencesExt

CONSTANTS Problems,
          Concurrency,    \* --concurrency
          Rollouts,       \* the rollouts of a workflow
          Trajectories,   \* what a rollout may return: sequences of measurements
          MaxLaunches,    \* bound: processes started
          None

ASSUME ConcurrencyAssumption == Concurrency \in Nat \ {0}
ASSUME ProblemsAssumption == IsFiniteSet(Problems) /\ MaxLaunches \in Nat

(* A measurement is positive.  Its class is the comparison_key; of its     *)
(* value only the order counts.                                            *)
Measurements == [class : STRING, value : Nat \ {0}]

ASSUME TrajectoriesAssumption ==
    /\ <<>> \in Trajectories /\ Trajectories \subseteq Seq(Measurements)
    /\ None \notin Measurements

VARIABLES folders,    \* survives the process: final file, failure and .finished marker
          launches, up,
          retry,      \* --retry of the running process
          at,         \* where a problem's process_problem stands
          rollouts, best,
          baseline,   \* is initial_measurement known?
          outcome,
          reports     \* history: the outcome the folder's last run was reported with

process == <<at, rollouts, best, baseline, outcome>>
vars == <<folders, launches, up, retry, process, reports>>

-------------------------------------------------------------------------------
Statuses == {"improved", "no_improvement", "failed", "timeout"}
Awaiting == {"initializing", "rolling", "rebaselining", "confirming", "leaving"}
InWorkflow == Awaiting \cup {"promoting", "writing", "marking", "finishing"}
Ended == {"skipped", "reported", "escaped"}
Places == InWorkflow \cup Ended \cup {"idle", "queued"}

Folder == [final : {"absent", "torn", "whole"}, failed : BOOLEAN, finished : BOOLEAN]
EmptyFolder == [final |-> "absent", failed |-> FALSE, finished |-> FALSE]

NoRollout == [at |-> "none", steps |-> <<>>]
Rollout == [at : {"none", "running", "ended", "collected"}, steps : Trajectories]

Busy == {p \in Problems : at[p] \in InWorkflow}
Running(p) == {i \in Rollouts : rollouts[p][i].at = "running"}

-------------------------------------------------------------------------------
(* The process.                                                            *)

(* should_skip_folder, for a run that asks for RL CUDA. *)
Skips(f, again) == f.final # "absent" \/ (f.failed /\ f.finished /\ ~again)

(* The loop over the dataset runs before any of its tasks; --no-resume     *)
(* (`fresh`) removes the folders that are not skipped.                     *)
Launch ==
    /\ ~up /\ launches < MaxLaunches
    /\ up' = TRUE /\ launches' = launches + 1
    /\ \E again, fresh \in BOOLEAN :
        LET skipped == {p \in Problems : Skips(folders[p], again)}
            cleared == IF fresh THEN Problems \ skipped ELSE {}
        IN /\ retry' = again
           /\ at' = [p \in Problems |-> IF p \in skipped THEN "skipped" ELSE "queued"]
           /\ folders' = [p \in Problems |-> IF p \in cleared THEN EmptyFolder ELSE folders[p]]
           /\ reports' = [p \in Problems |-> IF p \in cleared THEN "none" ELSE reports[p]]
    /\ UNCHANGED <<rollouts, best, baseline, outcome>>

Gone ==
    /\ up' = FALSE /\ retry' = FALSE
    /\ at' = [p \in Problems |-> "idle"]
    /\ rollouts' = [p \in Problems |-> [i \in Rollouts |-> NoRollout]]
    /\ best' = [p \in Problems |-> None]
    /\ baseline' = [p \in Problems |-> FALSE]
    /\ outcome' = [p \in Problems |-> "none"]
    /\ UNCHANGED <<folders, launches, reports>>

(* The end of gather; asyncio.run cancels what still runs. *)
Exit == up /\ (\A p \in Problems : at[p] \in Ended) /\ Gone

(* A signal's sys.exit or a kill: no handler catches it. *)
Crash == up /\ Gone

-------------------------------------------------------------------------------
(* The workflow and its node.                                              *)

Goes(p, from, to) == at[p] = from /\ at' = [at EXCEPT ![p] = to]

(* Mutant: the markers of the last run are left alone. *)
StartKeepsFiles(p) ==
    /\ Goes(p, "queued", "initializing") /\ Cardinality(Busy) < Concurrency
    /\ reports' = [reports EXCEPT ![p] = "none"]
    /\ UNCHANGED <<folders, launches, up, retry, rollouts, best, baseline, outcome>>

(* The semaphore, and remove_existing_files: with --retry the agent's      *)
(* directory goes, .finished with it.                                      *)
Start(p) ==
    /\ Goes(p, "queued", "initializing") /\ Cardinality(Busy) < Concurrency
    /\ folders' = [folders EXCEPT ![p].failed = FALSE,
                                  ![p].finished = @ /\ ~(folders[p].failed /\ retry)]
    /\ reports' = [reports EXCEPT ![p] = "none"]
    /\ UNCHANGED <<launches, up, retry, rollouts, best, baseline, outcome>>

(* What is left of the rollouts when nobody collects them: tasks on their  *)
(* own.                                                                    *)
Abandoned(p) == [i \in Rollouts |->
    IF i \in Running(p) THEN [at |-> "running", steps |-> <<>>] ELSE NoRollout]

EndsWith(p, status, place) ==
    /\ at' = [at EXCEPT ![p] = place]
    /\ outcome' = [outcome EXCEPT ![p] = status]
    /\ rollouts' = [rollouts EXCEPT ![p] = Abandoned(p)]
    /\ best' = [best EXCEPT ![p] = None]
    /\ baseline' = [baseline EXCEPT ![p] = FALSE]

(* Mutant: the deadline only covers the search. *)
TimeOutSearch(p) ==
    /\ at[p] \in Awaiting \ {"initializing"}
    /\ EndsWith(p, "timeout", "marking")
    /\ UNCHANGED <<folders, launches, up, retry, reports>>

(* wait_for's deadline cancels the workflow at the await it has reached,   *)
(* which may come after the node's last line.                              *)
TimeOut(p) ==
    /\ at[p] \in Awaiting
    /\ EndsWith(p, "timeout", "marking")
    /\ UNCHANGED <<folders, launches, up, retry, reports>>

(* An exception leaves the node: the baseline failed for another reason    *)
(* than the candidate's feedback, or a file could not be written, the      *)
(* state.json after the final file included.                               *)
Raise(p) ==
    /\ at[p] \in {"initializing", "rolling", "promoting", "writing", "leaving"}
    /\ EndsWith(p, "failed", "marking")
    /\ UNCHANGED <<folders, launches, up, retry, reports>>

(* Without its sources a problem fails; otherwise the rollouts start, with *)
(* or without a baseline.                                                  *)
Initialize(p) ==
    /\ at[p] = "initializing"
    /\ \/ EndsWith(p, "failed", "leaving")
       \/ /\ at' = [at EXCEPT ![p] = "rolling"]
          /\ \E known \in BOOLEAN : baseline' = [baseline EXCEPT ![p] = known]
          /\ rollouts' = [rollouts EXCEPT ![p] =
                            [i \in Rollouts |-> [at |-> "running", steps |-> <<>>]]]
          /\ UNCHANGED <<best, outcome>>
    /\ UNCHANGED <<folders, launches, up, retry, reports>>

-------------------------------------------------------------------------------
(* The agent's search.                                                     *)

(* A rollout returns its measured steps; one that raised, or whose first   *)
(* step failed, has none.                                                  *)
RolloutEnds(p, i) ==
    /\ i \in Running(p)
    /\ IF at[p] = "rolling"
       THEN \E s \in Trajectories :
              rollouts' = [rollouts EXCEPT ![p][i] = [at |-> "ended", steps |-> s]]
       ELSE rollouts' = [rollouts EXCEPT ![p][i] = NoRollout]
    /\ UNCHANGED <<folders, launches, up, retry, at, best, baseline, outcome, reports>>

(* Measurements of different protocols are not comparable: the step is     *)
(* skipped.                                                                *)
Faster(b, m) == IF b = None \/ (m.class = b.class /\ m.value < b.value) THEN m ELSE b

(* Mutant: only the last step of a trajectory counts. *)
CollectLast(p, i) ==
    /\ at[p] = "rolling" /\ rollouts[p][i].at = "ended"
    /\ rollouts' = [rollouts EXCEPT ![p][i].at = "collected"]
    /\ best' = [best EXCEPT ![p] = LET s == rollouts[p][i].steps
                                   IN IF s = <<>> THEN @ ELSE Faster(@, s[Len(s)])]
    /\ UNCHANGED <<folders, launches, up, retry, at, baseline, outcome, reports>>

(* as_completed hands out the trajectories in the order they end. *)
Collect(p, i) ==
    /\ at[p] = "rolling" /\ rollouts[p][i].at = "ended"
    /\ rollouts' = [rollouts EXCEPT ![p][i].at = "collected"]
    /\ best' = [best EXCEPT ![p] = FoldLeft(Faster, @, rollouts[p][i].steps)]
    /\ UNCHANGED <<folders, launches, up, retry, at, baseline, outcome, reports>>

NextPlace(p) == IF baseline[p] THEN "confirming" ELSE "rebaselining"

(* Mutant: the first candidate ends the search. *)
SearchStops(p) ==
    /\ at[p] = "rolling"
    /\ \/ best[p] # None /\ at' = [at EXCEPT ![p] = NextPlace(p)]
                         /\ UNCHANGED <<rollouts, best, baseline, outcome>>
       \/ /\ best[p] = None /\ \A i \in Rollouts : rollouts[p][i].at = "collected"
          /\ EndsWith(p, "failed", "leaving")
    /\ UNCHANGED <<folders, launches, up, retry, reports>>

SearchOver(p) ==
    /\ at[p] = "rolling" /\ \A i \in Rollouts : rollouts[p][i].at = "collected"
    /\ IF best[p] = None /\ baseline[p]
       THEN EndsWith(p, "failed", "leaving")
       ELSE /\ at' = [at EXCEPT ![p] = NextPlace(p)]
            /\ UNCHANGED <<rollouts, best, baseline, outcome>>
    /\ UNCHANGED <<folders, launches, up, retry, reports>>

(* A baseline that could not be measured at first is tried again, even     *)
(* without a candidate; without a baseline there is no gate.               *)
Rebaseline(p) ==
    /\ at[p] = "rebaselining"
    /\ \/ /\ best[p] # None
          /\ at' = [at EXCEPT ![p] = "confirming"]
          /\ baseline' = [baseline EXCEPT ![p] = TRUE]
          /\ UNCHANGED <<rollouts, best, outcome>>
       \/ best[p] # None /\ EndsWith(p, "no_improvement", "leaving")
       \/ best[p] = None /\ EndsWith(p, "failed", "leaving")
    /\ UNCHANGED <<folders, launches, up, retry, reports>>

(* confirm_pair passes the candidate, fails it or raises. *)
Confirm(p) ==
    /\ at[p] = "confirming"
    /\ \/ /\ at' = [at EXCEPT ![p] = "promoting"]
          /\ UNCHANGED <<rollouts, best, baseline, outcome>>
       \/ EndsWith(p, "no_improvement", "leaving")
    /\ UNCHANGED <<folders, launches, up, retry, reports>>

(* write_text truncates the final file, then fills it; nothing is awaited  *)
(* from the gate to the node's return.                                     *)
OpenFinal(p) ==
    /\ Goes(p, "promoting", "writing")
    /\ folders' = [folders EXCEPT ![p].final = "torn"]
    /\ UNCHANGED <<launches, up, retry, rollouts, best, baseline, outcome, reports>>

WriteFinal(p) ==
    /\ at[p] = "writing"
    /\ folders' = [folders EXCEPT ![p].final = "whole"]
    /\ EndsWith(p, "improved", "leaving")
    /\ UNCHANGED <<launches, up, retry, reports>>

-------------------------------------------------------------------------------
(* run_workflow's end.                                                     *)

Reported(p) == reports' = [reports EXCEPT ![p] = outcome[p]]

(* RunOutcome.success looks for the final file. *)
Leave(p) ==
    /\ at[p] = "leaving"
    /\ IF outcome[p] = "improved" /\ folders[p].final # "absent"
       THEN at' = [at EXCEPT ![p] = "reported"] /\ Reported(p)
       ELSE at' = [at EXCEPT ![p] = "marking"] /\ UNCHANGED reports
    /\ UNCHANGED <<folders, launches, up, retry, rollouts, best, baseline, outcome>>

MarkFailed(p) ==
    /\ Goes(p, "marking", "finishing")
    /\ folders' = [folders EXCEPT ![p].failed = TRUE]
    /\ UNCHANGED <<launches, up, retry, rollouts, best, baseline, outcome, reports>>

MarkFinished(p) ==
    /\ Goes(p, "finishing", "reported")
    /\ folders' = [folders EXCEPT ![p].finished = TRUE]
    /\ Reported(p)
    /\ UNCHANGED <<launches, up, retry, rollouts, best, baseline, outcome>>

(* A marker that cannot be written is an exception of process_problem,     *)
(* which gather returns.                                                   *)
Escape(p) ==
    /\ at[p] \in {"marking", "finishing"}
    /\ at' = [at EXCEPT ![p] = "escaped"]
    /\ UNCHANGED <<folders, launches, up, retry, rollouts, best, baseline, outcome, reports>>

-------------------------------------------------------------------------------
Init == /\ folders = [p \in Problems |-> EmptyFolder]
        /\ launches = 0 /\ up = FALSE /\ retry = FALSE
        /\ at = [p \in Problems |-> "idle"]
        /\ rollouts = [p \in Problems |-> [i \in Rollouts |-> NoRollout]]
        /\ best = [p \in Problems |-> None]
        /\ baseline = [p \in Problems |-> FALSE]
        /\ outcome = [p \in Problems |-> "none"]
        /\ reports = [p \in Problems |-> "none"]

(* What needs nothing but the event loop. *)
Prompt(p) == \/ Start(p) \/ SearchOver(p) \/ OpenFinal(p) \/ WriteFinal(p)
             \/ Leave(p) \/ MarkFailed(p) \/ MarkFinished(p)
             \/ \E i \in Rollouts : Collect(p, i)

Next == \/ Launch \/ Exit \/ Crash
        \/ \E p \in Problems :
             \/ Prompt(p) \/ TimeOut(p) \/ Raise(p) \/ Escape(p)
             \/ Initialize(p) \/ Rebaseline(p) \/ Confirm(p)
             \/ \E i \in Rollouts : RolloutEnds(p, i)

Spec == Init /\ [][Next]_vars

(* Ready callbacks run and deadlines pass.  Nothing is assumed of the      *)
(* model, the GPU or the rollouts: each may hang.                          *)
FairSpec == Spec /\ \A p \in Problems : WF_vars(Prompt(p)) /\ WF_vars(TimeOut(p))

-------------------------------------------------------------------------------
(* Folders, problems and rollouts keep their shape. *)
TypeOK == /\ folders \in [Problems -> Folder]
          /\ launches \in 0 .. MaxLaunches
          /\ up \in BOOLEAN /\ retry \in BOOLEAN
          /\ at \in [Problems -> Places]
          /\ rollouts \in [Problems -> [Rollouts -> Rollout]]
          /\ baseline \in [Problems -> BOOLEAN]
          /\ outcome \in [Problems -> Statuses \cup {"none"}]
          /\ reports \in [Problems -> Statuses \cup {"none"}]

(* Resuming agrees with what was reported: between launches a folder is    *)
(* skipped exactly when its last run was reported, or left a final file    *)
(* behind when it was killed.                                              *)
ResumeAgreesWithReports ==
    \A p \in Problems : at[p] \in {"idle", "skipped"} =>
        (Skips(folders[p], FALSE)
           <=> reports[p] # "none" \/ folders[p].final # "absent")

(* What is reported is what the folder shows: an improvement has its whole *)
(* final file and no failure marker; anything else has both markers, and a *)
(* final file only if the node had passed the gate when the deadline came  *)
(* or the file or the state after it could not be written.                 *)
ReportsMatchFolder ==
    \A p \in Problems : at[p] = "reported" =>
        IF outcome[p] = "improved"
        THEN folders[p].final = "whole" /\ ~folders[p].failed
        ELSE /\ folders[p].failed /\ folders[p].finished
             /\ folders[p].final = "whole" => outcome[p] \in {"timeout", "failed"}
             /\ folders[p].final = "torn" => outcome[p] = "failed"

(* Reports, folders and what a resumed run skips agree, between launches   *)
(* and after them.                                                         *)
FoldersAgree == ResumeAgreesWithReports /\ ReportsMatchFolder

(* The gate is given a candidate no measured step of any rollout beats,    *)
(* among those it can be compared with, whatever order they ended in.      *)
GateSeesTheFastest ==
    \A p \in Problems : at[p] = "confirming" =>
        LET steps == UNION {Range(rollouts[p][i].steps) : i \in Rollouts}
        IN /\ best[p] \in steps
           /\ \A m \in steps : m.class = best[p].class => best[p].value <= m.value

(* While the gate compares a candidate with its baseline, the rollouts     *)
(* that still use the GPU are another workflow's, or were left behind by   *)
(* one that timed out or failed.                                           *)
OnlyOrphansDisturbTheGate ==
    \A p, q \in Problems : at[p] = "confirming" /\ Running(q) # {} =>
        /\ p # q
        /\ at[q] = "rolling" => Concurrency > 1
        /\ at[q] # "rolling" => outcome[q] \in {"timeout", "failed"}

(* Every problem that is let in is done with, even if its rollouts, its    *)
(* baseline or its gate hang.                                              *)
ProblemsEnd == \A p \in Problems :
    at[p] \in {"queued"} \cup InWorkflow ~> at[p] \in Ended \cup {"idle"}

===============================================================================
