------------------------------- MODULE Preflight -------------------------------
(***************************************************************************)
(* A capability preflight (preflight/runner.py over preflight/client.py)   *)
(* against the services: Dispatch's Control and Supervisor and the         *)
(* ProfilerWorker.  It checks the services in a fixed order, has three     *)
(* stages executed as GPU jobs, has the executable profiled, and writes    *)
(* the report from which a later run (scripts/run_RL.py) learns whether    *)
(* and how it may work.                                                    *)
(*                                                                         *)
(* Everything it does is bounded by timeouts of its own, of the requests   *)
(* (30 s) and of the wait for a job: what it gave up may go on.  The       *)
(* registry holds no job of an earlier preflight, which with the same      *)
(* executable would vouch for this one's.                                  *)
(***************************************************************************)
EXTENDS Dispatch, ProfilerWorker, Sequences

CONSTANTS Stages        \* the jobs of the three stages, in order

(* Each stage has a job of its own, under a key that names the stage.      *)
ASSUME StagesAreJobs ==
    /\ Stages \in [1 .. 3 -> Jobs]
    /\ \A i, k \in 1 .. 3 : Stages[i] = Stages[k] => i = k

VARIABLES at,           \* where run() stands
          available,    \* checks found available
          report        \* the mode it reports

preflighting == <<at, available, report>>
vars == <<dispatched, profiled, preflighting>>

-------------------------------------------------------------------------------
StageJobs == {Stages[i] : i \in 1 .. 3}

EarlyChecks == <<"provider_auth", "sqlite_writable", "artifact_store", "gpu_visible",
                 "target_arch", "free_vram", "sandbox_enabled">>
StageChecks == <<"compile_target_arch", "kernel_launch", "cuda_events">>
PlanOrder == <<"nsys_timeline_v1", "ncu_triage_v1">>
PlanCheck == [nsys_timeline_v1 |-> "nsys_cuda_trace", ncu_triage_v1 |-> "ncu_metrics"]

(* target_arch and sandbox_enabled only record what is not there. *)
Recorded == {"provider_auth", "sqlite_writable", "artifact_store", "gpu_visible", "free_vram"}

HardChecks == Recorded \cup {"compile_target_arch", "kernel_launch", "cuda_events",
                             "sandbox_executor"}
CheckNames == HardChecks \cup {"nsys_cuda_trace", "ncu_metrics"}

Place == {"check", "submit", "answer", "poll", "plan", "listen", "reported", "started"}
Modes == {"unavailable", "events_only", "full_diagnostics"}

Init ==
    /\ DispatchInit /\ WorkerInit
    /\ at = [place |-> "check", n |-> 1]
    /\ available = {}
    /\ report = "none"

Go(place, n) == at' = [place |-> place, n |-> n]
Here(place) == at.place = place
Recording(checks) == available' = available \cup checks
ServicesUnchanged == UNCHANGED <<dispatched, profiled>>

-------------------------------------------------------------------------------
(* _finish: the report's mode, from the checks that were available. *)
Mode(checks) ==
    IF ~(HardChecks \subseteq checks) THEN "unavailable"
    ELSE IF "ncu_metrics" \notin checks THEN "events_only" ELSE "full_diagnostics"

Finish == Go("reported", 0) /\ report' = Mode(available')

GiveUp == Recording({}) /\ Finish

(* The checks before the stages: the first that fails ends the preflight. *)
Check ==
    /\ Here("check")
    /\ \/ /\ IF at.n < Len(EarlyChecks) THEN Go("check", at.n + 1) ELSE Go("submit", 1)
          /\ Recording({EarlyChecks[at.n]} \cap Recorded)
          /\ UNCHANGED report
       \/ GiveUp
    /\ ServicesUnchanged

(* The stages: one job each, sent, and polled until it shows a terminal    *)
(* status.                                                                 *)
Stage == Stages[at.n]

SubmitStage ==
    /\ Here("submit")
    /\ \/ Submit(Stage) /\ Go("answer", at.n) /\ UNCHANGED <<available, report>>
       \/ SubmitRefused(Stage) /\ GiveUp
    /\ UNCHANGED profiled

(* The answer comes, or the request fails, or has had its 30 seconds. *)
SubmitAnswered ==
    /\ Here("answer")
    /\ \/ posts[Stage] = "accepted" /\ Go("poll", at.n) /\ UNCHANGED <<available, report>>
       \/ GiveUp
    /\ ServicesUnchanged

(* A succeeded stage may still lack the role or the measurement it is for. *)
StageSucceeds ==
    /\ Recording({StageChecks[at.n]} \cup (IF at.n = 3 THEN {"sandbox_executor"} ELSE {}))
    /\ IF at.n < 3 THEN Go("submit", at.n + 1) ELSE Go("plan", 1)
    /\ UNCHANGED report

(* A poll that fails (a job the Supervisor does not know is a 404) ends     *)
(* the preflight and leaves the job to itself.                              *)
Poll ==
    /\ Here("poll")
    /\ \/ view[Stage].at = "over" /\ view[Stage].shown = "succeeded" /\ StageSucceeds
       \/ GiveUp
    /\ ServicesUnchanged

(* The time is up: the job is cancelled, and then the preflight gives up.  *)
TimeUp ==
    /\ Here("poll") /\ GiveUp
    /\ Cancel(Stage)
    /\ UNCHANGED profiled

-------------------------------------------------------------------------------
(* The profiles. *)
Plan == PlanOrder[at.n]
NextPlan == IF at.n = 1 THEN Go("plan", 2) /\ UNCHANGED report ELSE Finish

(* Mutant: an executable is given out before its correctness is known. *)
CompiledCandidate == rows[Stages[1]].status = "succeeded"

(* profiler_candidate: Control's rows of the compilation and of the        *)
(* correctness stage, not what the Supervisor shows.                       *)
Candidate == \A i \in {1, 2} : rows[Stages[i]].status = "succeeded"

(* POST /v1/profiles: refused without a candidate; or the plan is not      *)
(* supported.                                                              *)
AskProfile ==
    /\ Here("plan")
    /\ \/ Candidate /\ Send(Plan) /\ Go("listen", at.n) /\ UNCHANGED <<available, report>>
       \/ Recording({}) /\ NextPlan /\ UNCHANGED requests
    /\ UNCHANGED <<dispatched, strays, crashes>>

(* The answer, or after 30 seconds none; the worker goes on.               *)
HearProfile ==
    /\ Here("listen")
    /\ \/ /\ requests[Plan].at = "answered" /\ requests[Plan].verdict = "succeeded"
          /\ Recording({PlanCheck[Plan]})
       \/ Recording({})
    /\ NextPlan
    /\ ServicesUnchanged

(* scripts/run_RL.py with the report's digest, unless it was not stored,   *)
(* the report has expired or the hardware is another.                      *)
StartRun ==
    /\ Here("reported") /\ report # "unavailable"
    /\ Go("started", 0)
    /\ UNCHANGED <<available, report>> /\ ServicesUnchanged

PreflightStep ==
    \/ Check \/ SubmitStage \/ SubmitAnswered \/ Poll \/ TimeUp
    \/ AskProfile \/ HearProfile \/ StartRun

(* Bound: the faults of all services count together. *)
FaultsBounded == faults' + crashes' <= MaxFaults

(* Other clients of Control have jobs of their own. *)
OthersStep ==
    /\ \E j \in Jobs \ StageJobs : Submit(j) \/ Cancel(j)
    /\ UNCHANGED <<profiled, preflighting>>

Next ==
    \/ PreflightStep
    \/ OthersStep
    \/ ServicesStep /\ UNCHANGED <<profiled, preflighting>> /\ FaultsBounded
    \/ WorkerStep(Candidate) /\ UNCHANGED <<dispatched, preflighting>> /\ FaultsBounded

Spec == Init /\ [][Next]_vars

-------------------------------------------------------------------------------
(* Types, those of the services among them. *)
TypeOK ==
    /\ DispatchTypeOK /\ WorkerTypeOK
    /\ at \in [place : Place, n : 0 .. 7]
    /\ available \subseteq CheckNames
    /\ report \in Modes \cup {"none"}

(* A report is what the services have, not what the Supervisor showed for  *)
(* a moment: full diagnostics mean that Control has recorded the success   *)
(* of compilation and correctness, however late or lost the Supervisor's   *)
(* reports were; and once a run may start on the strength of a report, no  *)
(* stage of the preflight runs any more but one that outlived its          *)
(* Supervisor, or a container its coroutine left behind.                   *)
FullModeIsEarned ==
    /\ report = "full_diagnostics"
         => \A i \in {1, 2} : rows[Stages[i]].status = "succeeded"
    /\ Here("started")
         => \A p \in programs : p.job \in StageJobs => p.orphan
================================================================================
