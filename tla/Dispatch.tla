-------------------------------- MODULE Dispatch --------------------------------
(***************************************************************************)
(* A GPU job on its way from a client through Control                      *)
(* (servers/control.py) to the Supervisor (gpu_jobs/supervisor.py), its    *)
(* stage executor (gpu_jobs/executor.py) and back, when requests and       *)
(* answers get lost and the Supervisor is restarted.                       *)
(*                                                                         *)
(* Control's row is durable; the Supervisor's view of a job is in memory.  *)
(* The Supervisor's own interleavings are GpuSupervisor's subject and the  *)
(* tables' JobRepository's: here a conversation is the steps the two       *)
(* processes take in it.  A trusted program runs in a session of its own,  *)
(* so the end of the Supervisor may leave it running; a generated one runs *)
(* in a container started by a thread, which may outlive its coroutine.    *)
(***************************************************************************)
EXTENDS Integers, FiniteSets

CONSTANTS Jobs,          \* job ids, each with its own idempotency key
          Generated,     \* jobs of kind generated_v1, which the sandbox executes
          MaxAttempts,   \* bound: leases ever granted
          MaxFaults,     \* bound: faults, lost requests and answers, leases that end
          RecentLimit    \* recent_limit of the Supervisor

ASSUME GeneratedAssumption == Generated \subseteq Jobs

ASSUME DispatchBounds == MaxAttempts \in Nat /\ MaxFaults \in Nat /\ RecentLimit \in Nat

VARIABLES rows,       \* Control's job rows with the attempt that holds the lease
          granted,    \* attempts so far
          posts,      \* POST /v1/gpu/jobs of each job's client
          view,       \* the Supervisor's SupervisorJob objects
          programs,   \* stage programs that run
          reports,    \* verdicts on their way to Control
          wire,       \* jobs whose lease request outlived its task
          clearing,   \* cancelled jobs whose row is still to be cancelled
          faults      \* faults so far

dispatched == <<rows, granted, posts, view, programs, reports, wire, clearing,
                faults>>

-------------------------------------------------------------------------------
Outcomes == {"succeeded", "failed"}
Decided == Outcomes \cup {"cancelled"}
Attempts == 1 .. MaxAttempts

Row == [status : {"absent", "pending", "leased"} \cup Decided, holder : 0 .. MaxAttempts]
View == [at : {"unknown", "queued", "leasing", "running", "over"},
         shown : {"queued", "running"} \cup Decided, attempt : 0 .. MaxAttempts]
Program == [job : Jobs, attempt : Attempts,
            orphan : BOOLEAN,    \* it outlived its coroutine or its Supervisor
            lapsed : BOOLEAN]    \* its lease ended and was taken back
Callback == [job : Jobs, attempt : Attempts, status : Decided]

NoView == [at |-> "unknown", shown |-> "queued", attempt |-> 0]
Known == {j \in Jobs : view[j].at # "unknown"}
OnGpu == {j \in Jobs : view[j].at \in {"leasing", "running"}}
Over(j, shown) == [view EXCEPT ![j].at = "over", ![j].shown = shown]
Open(j) == rows[j].status \in {"pending", "leased"}

DispatchInit ==
    /\ rows = [j \in Jobs |-> [status |-> "absent", holder |-> 0]]
    /\ granted = 0
    /\ posts = [j \in Jobs |-> "idle"]
    /\ view = [j \in Jobs |-> NoView]
    /\ programs = {} /\ reports = {} /\ wire = {} /\ clearing = {}
    /\ faults = 0

(* The environment strikes. *)
Fault == faults < MaxFaults /\ faults' = faults + 1

-------------------------------------------------------------------------------
(* POST /v1/gpu/jobs.  The inputs are verified, the Supervisor is asked    *)
(* for its capabilities; then the row is made, if there is none under the  *)
(* key, and the job is sent on.                                            *)

Submit(j) ==
    /\ posts[j] # "sent"
    /\ posts' = [posts EXCEPT ![j] = "sent"]
    /\ rows' = [rows EXCEPT ![j].status = IF @ = "absent" THEN "pending" ELSE @]
    /\ UNCHANGED <<granted, view, programs, reports, wire, clearing, faults>>

(* An input is missing, or the Supervisor does not tell its capabilities. *)
SubmitRefused(j) ==
    /\ posts[j] # "sent"
    /\ posts' = [posts EXCEPT ![j] = "failed"]
    /\ UNCHANGED <<rows, granted, view, programs, reports, wire, clearing, faults>>

Lesser(a, b) == IF a < b THEN a ELSE b

(* Mutant: a job that runs may be dropped, and its key with it. *)
TrimmableAny == Known

(* _trim_recent drops jobs with a terminal status. *)
Trimmable == {j \in Known : view[j].at = "over"}

(* As many as the new job makes too many, the oldest first. *)
Dropped ==
    LET excess == Cardinality(Known) + 1 - RecentLimit IN
    {dropped \in SUBSET Trimmable :
        Cardinality(dropped) = IF excess <= 0 THEN 0 ELSE Lesser(excess, Cardinality(Trimmable))}

(* The Supervisor keeps the job it knows under the key, whatever became of *)
(* it, or makes a new one.                                                 *)
Accepted(j) ==
    IF j \in Known THEN {view}
    ELSE {[k \in Jobs |-> IF k = j THEN [NoView EXCEPT !.at = "queued"]
                          ELSE IF k \in dropped THEN NoView ELSE view[k]] :
              dropped \in Dropped}

Receive(j) ==
    /\ posts[j] = "sent"
    /\ posts' = [posts EXCEPT ![j] = "accepted"]
    /\ view' \in Accepted(j)
    /\ UNCHANGED <<rows, granted, programs, reports, wire, clearing, faults>>

(* The request is lost, or refused, or its answer is lost: the row stays.  *)
ReceiveFails(j) ==
    /\ Fault
    /\ posts[j] = "sent"
    /\ posts' = [posts EXCEPT ![j] = "failed"]
    /\ view' \in Accepted(j) \cup {view}
    /\ UNCHANGED <<rows, granted, programs, reports, wire, clearing>>

-------------------------------------------------------------------------------
(* The Supervisor's task, and Control's side of each of its requests. *)

Enter(j) ==
    /\ view[j].at = "queued" /\ OnGpu = {}
    /\ view' = [view EXCEPT ![j].at = "leasing", ![j].shown = "running"]
    /\ UNCHANGED <<rows, granted, posts, programs, reports, wire, clearing, faults>>

(* Mutant: a lease held under the same worker id is given again. *)
MayLeaseAgain(j) == granted < MaxAttempts /\ rows[j].status \in {"pending", "leased"}

MayLease(j) == granted < MaxAttempts /\ rows[j].status = "pending"

Leased(j) == [rows EXCEPT ![j] = [status |-> "leased", holder |-> granted + 1]]

Start(j) ==
    /\ view[j].at = "leasing" /\ MayLease(j)
    /\ rows' = Leased(j)
    /\ granted' = granted + 1
    /\ view' = [view EXCEPT ![j].at = "running", ![j].attempt = granted + 1]
    /\ programs' = programs \cup {[job |-> j, attempt |-> granted + 1,
                                  orphan |-> FALSE, lapsed |-> FALSE]}
    /\ UNCHANGED <<posts, reports, wire, clearing, faults>>

(* The lease is granted and its answer lost, or the request is. *)
LeaseFails(j) ==
    /\ Fault
    /\ view[j].at = "leasing"
    /\ view' = Over(j, "failed")
    /\ \/ MayLease(j) /\ rows' = Leased(j) /\ granted' = granted + 1
       \/ UNCHANGED <<rows, granted>>
    /\ UNCHANGED <<posts, programs, reports, wire, clearing>>

(* 409: the job is leased, or decided. *)
LeaseRefused(j) ==
    /\ view[j].at = "leasing" /\ rows[j].status # "pending"
    /\ view' = Over(j, "failed")
    /\ UNCHANGED <<rows, granted, posts, programs, reports, wire, clearing, faults>>

ProgramsOf(j) == {p \in programs : p.job = j /\ ~p.orphan}

Stopped(j) == programs \ ProgramsOf(j)
LeftBehind(j) == Stopped(j) \cup {[p EXCEPT !.orphan = TRUE] : p \in ProgramsOf(j)}

(* The end of j's coroutine kills a trusted program.  In the sandbox        *)
(* cancel_active may find no container yet, which the thread starts and     *)
(* watches all the same; and Docker may refuse the kill and the removal.    *)
Abandons(j, outcome) ==
    \/ programs' = Stopped(j) /\ UNCHANGED faults
    \/ /\ j \in Generated /\ programs' = LeftBehind(j)
       /\ IF outcome = "succeeded" THEN Fault ELSE UNCHANGED faults

(* The stage ends, in whatever way, its deadline (a failure) among them;   *)
(* the GPU is free for the next job and the status is shown before Control *)
(* has the verdict.                                                        *)
End(j, outcome) ==
    /\ view[j].at = "running"
    /\ Abandons(j, outcome)
    /\ view' = Over(j, outcome)
    /\ reports' = reports \cup {[job |-> j, attempt |-> view[j].attempt, status |-> outcome]}
    /\ UNCHANGED <<rows, granted, posts, wire, clearing>>

Holds(r) == rows[r.job] = [status |-> "leased", holder |-> r.attempt]

(* complete: without effect on a job that is decided. *)
Completed(r) == IF Holds(r) THEN [rows EXCEPT ![r.job].status = r.status] ELSE rows

(* What a callback that fails does to the status shown: a cancelled job    *)
(* shows that in the end.                                                  *)
CallbackFailed(r) ==
    IF view[r.job].attempt = r.attempt /\ r.status # "cancelled"
    THEN Over(r.job, "failed") ELSE view

(* A decided job is answered like a verdict that is taken, whose verdict   *)
(* it is; on another the lease has to be this attempt's still.             *)
Answerable(r) == Holds(r) \/ rows[r.job].status \in Decided

Report(r) ==
    /\ reports' = reports \ {r}
    /\ rows' = Completed(r)
    /\ view' = IF Answerable(r) THEN view ELSE CallbackFailed(r)
    /\ UNCHANGED <<granted, posts, programs, wire, clearing, faults>>

(* The report or its answer is lost. *)
ReportFails(r) ==
    /\ Fault
    /\ reports' = reports \ {r}
    /\ rows' \in {rows, Completed(r)}
    /\ view' = CallbackFailed(r)
    /\ UNCHANGED <<granted, posts, programs, wire, clearing>>

Reporting(j) == \E r \in reports : r.job = j

(* A lease that is over: the next transaction makes the job pending. *)
Expire(j) ==
    /\ Fault
    /\ rows[j].status = "leased"
    /\ rows' = [rows EXCEPT ![j] = [status |-> "pending", holder |-> 0]]
    /\ programs' = {[p EXCEPT !.lapsed = @ \/ p.attempt = rows[j].holder] : p \in programs}
    /\ UNCHANGED <<granted, posts, view, reports, wire, clearing>>

(* A request for a lease arrives after its task has ended. *)
LateLease(j) ==
    /\ j \in wire
    /\ wire' = wire \ {j}
    /\ IF MayLease(j)
       THEN rows' = Leased(j) /\ granted' = granted + 1
       ELSE UNCHANGED <<rows, granted>>
    /\ UNCHANGED <<posts, view, programs, reports, clearing, faults>>

-------------------------------------------------------------------------------
(* POST .../cancel.  A job without a lease id is also cancelled in Control. *)

CancelWaiting(j) ==
    /\ view[j].at \in {"queued", "leasing"}
    /\ view' = Over(j, "cancelled")
    /\ clearing' = clearing \cup {j}
    /\ IF view[j].at = "leasing"
       THEN wire' = wire \cup {j} /\ Fault
       ELSE UNCHANGED <<wire, faults>>
    /\ UNCHANGED <<rows, granted, posts, programs, reports>>

CancelRunning(j) == view[j].at = "running" /\ End(j, "cancelled")

Cancel(j) == CancelWaiting(j) \/ CancelRunning(j)

MayCancel(j) == rows[j].status = "pending"

ClearRow(j) ==
    /\ j \in clearing
    /\ clearing' = clearing \ {j}
    /\ rows' = IF MayCancel(j) THEN [rows EXCEPT ![j].status = "cancelled"] ELSE rows
    /\ UNCHANGED <<granted, posts, view, programs, reports, wire, faults>>

ClearFails(j) ==
    /\ Fault
    /\ j \in clearing
    /\ clearing' = clearing \ {j}
    /\ UNCHANGED <<rows, granted, posts, view, programs, reports, wire>>

(* The Supervisor ends and starts again: its view is empty, and a program  *)
(* it ran may still run.                                                   *)
Restart ==
    /\ Fault /\ Known # {}
    /\ view' = [j \in Jobs |-> NoView]
    /\ \E survivors \in SUBSET {p \in programs : ~p.orphan} :
         programs' = {p \in programs : p.orphan}
                     \cup {[p EXCEPT !.orphan = TRUE] : p \in survivors}
    /\ wire' = wire \cup {j \in Jobs : view[j].at = "leasing"}
    /\ reports' \in SUBSET reports
    /\ clearing' = {}
    /\ UNCHANGED <<rows, granted, posts>>

OrphanEnds ==
    /\ \E p \in programs : p.orphan /\ programs' = programs \ {p}
    /\ UNCHANGED <<rows, granted, posts, view, reports, wire, clearing, faults>>

(* What happens without a client: all of the above but Submit and Cancel. *)
ServiceStep(j) ==
    \/ Receive(j) \/ ReceiveFails(j) \/ Enter(j) \/ Start(j) \/ LeaseFails(j) \/ LeaseRefused(j)
    \/ \E outcome \in Outcomes : End(j, outcome)
    \/ Expire(j) \/ LateLease(j) \/ ClearRow(j) \/ ClearFails(j)

ServicesStep ==
    \/ \E j \in Jobs : ServiceStep(j)
    \/ \E r \in reports : Report(r) \/ ReportFails(r)
    \/ Restart \/ OrphanEnds

DispatchNext ==
    \/ ServicesStep
    \/ \E j \in Jobs : Submit(j) \/ SubmitRefused(j) \/ Cancel(j)

DispatchSpec == DispatchInit /\ [][DispatchNext]_dispatched

-------------------------------------------------------------------------------
(* Types of Control's rows, the Supervisor's objects and the programs. *)
DispatchTypeOK ==
    /\ rows \in [Jobs -> Row] /\ granted \in 0 .. MaxAttempts
    /\ posts \in [Jobs -> {"idle", "sent", "accepted", "failed"}]
    /\ view \in [Jobs -> View] /\ programs \subseteq Program
    /\ reports \subseteq Callback /\ wire \subseteq Jobs /\ clearing \subseteq Jobs
    /\ faults \in 0 .. MaxFaults

(* Every program of a stage, also one that outlived the Supervisor that    *)
(* started it, runs under a lease that Control still has for it or took    *)
(* back when it expired; or it is a container that its coroutine left      *)
(* behind, and the job was decided under its own lease: resubmission after *)
(* a restart, cancellation and late requests never start a job a second    *)
(* time beside a program whose lease is in force, nor one that is decided, *)
(* and no other attempt's verdict decides a job whose program runs on.     *)
ProgramsAreLeased ==
    \A p \in programs :
        LET row == rows[p.job] IN
        \/ row.status = "leased" /\ row.holder = p.attempt
        \/ p.lapsed
        \/ /\ p.orphan /\ p.job \in Generated
           /\ row.status \in Decided /\ row.holder = p.attempt

(* As long as no request, answer or lease is lost, no restart happens and  *)
(* no cancellation meets a lease being granted, a job whose client was     *)
(* told 202 is decided in Control or somebody works on it.  And whatever   *)
(* happens, a success the Supervisor shows in the end is the verdict: the  *)
(* only other one, and that after a fault, is the cancellation of an       *)
(* earlier submission that came when the lease had ended, which Control    *)
(* answers the late success with.                                          *)
StrandedOnlyByFault ==
    \A j \in Jobs :
        /\ posts[j] = "accepted" /\ Open(j) /\ view[j].at \in {"unknown", "over"}
             => faults > 0 \/ j \in clearing \/ Reporting(j)
        /\ view[j].at = "over" /\ view[j].shown = "succeeded" /\ ~Reporting(j)
             => rows[j].status = "succeeded" \/ (rows[j].status = "cancelled" /\ faults > 0)
================================================================================
