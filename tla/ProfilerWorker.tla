----------------------------- MODULE ProfilerWorker -----------------------------
(***************************************************************************)
(* The fixed-plan Profiler Worker (profiler_jobs/worker.py): requests for  *)
(* a profile queue for the worker's GPU semaphore, download the candidate, *)
(* run the tool and its export (nsys on WSL a second time when the trace   *)
(* is empty), upload what they have and answer.                            *)
(*                                                                         *)
(* Time is counted in ticks that a phase of the tool took.  The end of the *)
(* worker loses its requests and may leave their tools running, in         *)
(* sessions of their own.                                                  *)
(***************************************************************************)
EXTENDS Integers

CONSTANTS PlanTimeout,   \* PLAN_TIMEOUTS, in ticks
          ExportLimit,   \* the 120 seconds an export may take
          Remaining,     \* what may be left until a request's deadline
          MaxCrashes     \* bound: ends of the worker

ASSUME WorkerBounds ==
    /\ PlanTimeout \in Nat /\ ExportLimit \in Nat /\ MaxCrashes \in Nat
    /\ Remaining \subseteq Int

VARIABLES requests,   \* one request per plan
          strays,     \* plans whose tool outlived the worker
          crashes

profiled == <<requests, strays, crashes>>

-------------------------------------------------------------------------------
Plans == {"nsys_timeline_v1", "ncu_triage_v1"}
Answers == {"succeeded", "failed"}    \* failed: blocked and timed_out too
ToolPhases == {"profile", "export", "profile_again", "export_again"}
HoldsGpu == ToolPhases \cup {"download", "upload"}
Csv == {"empty", "without_kernel", "metrics"}

Shorter(a, b) == IF a < b THEN a ELSE b

Request == [at : {"none", "sent", "waiting", "answered"} \cup HoldsGpu,
            budget : 0 .. PlanTimeout,    \* the timeout computed on arrival
            held : 0 .. 4 * PlanTimeout,  \* of the GPU, in all phases
            verdict : {"none"} \cup Answers]

NoRequest == [at |-> "none", budget |-> 0, held |-> 0, verdict |-> "none"]

WorkerInit ==
    /\ requests = [p \in Plans |-> NoRequest]
    /\ strays = {} /\ crashes = 0

Moved(p, at) == [requests EXCEPT ![p].at = at]
Answered(p, verdict) ==
    [requests EXCEPT ![p] = [NoRequest EXCEPT !.at = "answered", !.verdict = verdict]]

-------------------------------------------------------------------------------
(* POST /v1/profiles. *)

Send(p) ==
    /\ requests[p].at = "none"
    /\ requests' = Moved(p, "sent")

(* The tool is missing, not permitted or not to be run automatically; or    *)
(* the deadline has passed; or the request queues, its time fixed now.      *)
Arrive(p) ==
    /\ requests[p].at = "sent"
    /\ \/ requests' = Answered(p, "failed")
       \/ \E remaining \in Remaining :
            LET timeout == Shorter(PlanTimeout, remaining) IN
            requests' = IF timeout <= 0 THEN Answered(p, "failed")
                        ELSE [Moved(p, "waiting") EXCEPT ![p].budget = timeout]
    /\ UNCHANGED <<strays, crashes>>

EnterWorker(p) ==
    /\ requests[p].at = "waiting"
    /\ \A q \in Plans : requests[q].at \notin HoldsGpu
    /\ requests' = Moved(p, "download")
    /\ UNCHANGED <<strays, crashes>>

(* candidate: whether Control gives the executable out.  A download that    *)
(* fails is a failure, a tool that cannot be started blocks the plan.       *)
Download(p, candidate) ==
    /\ requests[p].at = "download"
    /\ \/ candidate /\ requests' = Moved(p, "profile")
       \/ requests' = Answered(p, "failed")
    /\ UNCHANGED <<strays, crashes>>

-------------------------------------------------------------------------------
(* The tool. *)

PhaseLimit(p) ==
    IF requests[p].at \in {"export", "export_again"}
    THEN Shorter(requests[p].budget, ExportLimit) ELSE requests[p].budget

(* What an execution amounts to: the permission of the counters first, then *)
(* the exit code, the report, and last the rows of the asked kernel.        *)
Judged(permitted, code, report, csv) ==
    IF permitted /\ code = 0 /\ report /\ csv = "metrics" THEN "succeeded" ELSE "failed"

(* After a phase that took the GPU for some time. *)
Then(p, at, ticks) == [Moved(p, at) EXCEPT ![p].held = @ + ticks]
Finished(p, verdict, ticks) == [Then(p, "upload", ticks) EXCEPT ![p].verdict = verdict]

(* Mutant: the workaround is tried whatever attempt it is. *)
RetriesForever(p, report, csv) ==
    p = "nsys_timeline_v1" /\ report /\ csv = "empty"

(* The workaround for empty nsys traces on WSL. *)
Retries(p, report, csv) ==
    /\ p = "nsys_timeline_v1" /\ report /\ csv = "empty"
    /\ requests[p].at \in {"profile", "export"}

(* A phase that ends in time: the export follows a profile that succeeded, *)
(* and then, or after one that failed, the workaround.                      *)
ToolEnds(p) ==
    /\ requests[p].at \in ToolPhases
    /\ \E code \in {0, 1}, permitted, report \in BOOLEAN, csv \in Csv, ticks \in 0 .. PhaseLimit(p) :
         /\ requests[p].at \in {"profile", "profile_again"} => csv = "empty"
         /\ requests' =
              IF requests[p].at = "profile" /\ code = 0 THEN Then(p, "export", ticks)
              ELSE IF requests[p].at = "profile_again" /\ code = 0
                   THEN Then(p, "export_again", ticks)
              ELSE IF Retries(p, report, csv) THEN Then(p, "profile_again", ticks)
              ELSE Finished(p, Judged(permitted, code, report, csv), ticks)
    /\ UNCHANGED <<strays, crashes>>

(* The process group is killed; there is no second attempt. *)
TimesOut(p) ==
    /\ requests[p].at \in ToolPhases
    /\ requests' = Finished(p, "failed", PhaseLimit(p))
    /\ UNCHANGED <<strays, crashes>>

(* The artifacts are uploaded; one upload that fails spoils the answer. *)
Upload(p) ==
    /\ requests[p].at = "upload"
    /\ \E verdict \in {requests[p].verdict, "failed"} : requests' = Answered(p, verdict)
    /\ UNCHANGED <<strays, crashes>>

(* The worker ends and is started again. *)
WorkerCrash ==
    /\ crashes < MaxCrashes
    /\ \E p \in Plans : requests[p].at \in {"sent", "waiting"} \cup HoldsGpu
    /\ crashes' = crashes + 1
    /\ \E left \in SUBSET {p \in Plans : requests[p].at \in ToolPhases} :
         strays' = strays \cup left
    /\ requests' = [p \in Plans |->
         IF requests[p].at \in {"sent", "waiting"} \cup HoldsGpu
         THEN Answered(p, "failed")[p] ELSE requests[p]]

StrayEnds ==
    /\ \E p \in strays : strays' = strays \ {p}
    /\ UNCHANGED <<requests, crashes>>

WorkerStep(candidate) ==
    \/ \E p \in Plans :
         \/ Arrive(p) \/ EnterWorker(p) \/ Download(p, candidate)
         \/ ToolEnds(p) \/ TimesOut(p) \/ Upload(p)
    \/ WorkerCrash \/ StrayEnds

-------------------------------------------------------------------------------
(* Types of the requests. *)
WorkerTypeOK ==
    /\ requests \in [Plans -> Request]
    /\ strays \subseteq Plans /\ crashes \in 0 .. MaxCrashes

(* Whatever the tool does and however long the request waited, its tools    *)
(* have the GPU for at most two runs and two exports of the time computed   *)
(* on arrival, those of ncu for one of each.  (Its deadline may be past all  *)
(* the same: the wait is not counted.)                                      *)
GpuHeldBounded ==
    \A p \in Plans :
        LET q == requests[p] IN
        /\ q.held <= 2 * (q.budget + Shorter(q.budget, ExportLimit))
        /\ p = "ncu_triage_v1" => q.held <= q.budget + Shorter(q.budget, ExportLimit)
================================================================================
