----------------------------- MODULE GpuSupervisor -----------------------------
(***************************************************************************)
(* The in-memory GPU queue of gpu_jobs/supervisor.py and its conversation  *)
(* with Control over HTTP (gpu_jobs/client.py).                            *)
(*                                                                         *)
(* One event loop runs a task per SupervisorJob (_run), the HTTP handlers  *)
(* that submit and the handlers that cancel.  Only an await lets another   *)
(* of them run, so an action is the code from one await to the next.  A    *)
(* task is numbered in the order of its creation, which is the order of    *)
(* the dict _jobs, of the loop's ready queue and of the semaphore's        *)
(* waiters.  A cancelled HTTP request may already be on the wire: Control  *)
(* handles it all the same, after the task has gone on.                    *)
(***************************************************************************)
EXTENDS Integers, FiniteSets

CONSTANTS Jobs,           \* job ids, each with its own (run, idempotency key)
          Callers,        \* concurrent POST .../cancel handlers
          MaxTasks,       \* bound: SupervisorJob objects ever created
          RecentLimit,    \* recent_limit
          Reported,       \* statuses an executor returns
          LossyNetwork,   \* may a request or its response be lost?
          LeasesExpire,   \* may Control take a lease back during the run?
          None

Terminal == {"succeeded", "failed", "blocked", "timed_out", "cancelled"}

ASSUME TasksAssumption == MaxTasks \in Nat /\ RecentLimit \in Nat
ASSUME ReportedAssumption == Reported \subseteq Terminal
ASSUME NoneAssumption == None \notin Jobs
ASSUME SwitchAssumption == LossyNetwork \in BOOLEAN /\ LeasesExpire \in BOOLEAN

VARIABLES tasks,     \* SupervisorJob objects and where their _run stands
          made,      \* how many objects were created
          permits,   \* value of the semaphore _gpu
          callers,   \* the cancel handlers
          control    \* Control's job rows, with the task holding the lease

vars == <<tasks, made, permits, callers, control>>

-------------------------------------------------------------------------------
Tasks == 1 .. MaxTasks

PCs == {"none", "created", "queued", "granted", "leasing", "executing",
        "reporting", "done"}

NoTask == [job |-> None, pc |-> "none", status |-> "queued", result |-> "none",
           leased |-> FALSE, known |-> FALSE, killed |-> FALSE, wire |-> "idle"]
(* killed: task.cancel() was called and its CancelledError not yet raised. *)
(* known: the object is in _jobs and _idempotency.  wire: the task's last  *)
(* request to Control, then "ok" or "error" once it is answered.           *)
TaskRow == [job : Jobs \cup {None}, pc : PCs,
            status : {"queued", "running"} \cup Terminal,
            result : {"none"} \cup Terminal,
            leased : BOOLEAN, known : BOOLEAN, killed : BOOLEAN,
            wire : {"idle", "lease", "report", "ok", "error"}]

HandlerRow == [at : {"idle", "awaiting", "asking"}, task : 0 .. MaxTasks]
ControlRow == [status : {"pending", "leased"} \cup Terminal, holder : 0 .. MaxTasks]

Known == {t \in Tasks : tasks[t].known}
OnGpu == {t \in Tasks : tasks[t].pc \in {"leasing", "executing"}}
Waiters(T) == {t \in Tasks : T[t].pc = "queued" /\ ~T[t].killed}

(* Mutant: the permit is returned and nobody is woken. *)
ReleaseGpuSilently(T) ==
    /\ tasks' = T
    /\ permits' = permits + 1

(* Semaphore.release() once the tasks are as in T: the permit goes to the  *)
(* first waiter whose future is not done, or back to the semaphore.        *)
ReleaseGpu(T) ==
    \/ \E u \in Waiters(T) :
         /\ \A v \in Waiters(T) : u <= v
         /\ tasks' = [T EXCEPT ![u].pc = "granted"]
         /\ permits' = permits
    \/ /\ Waiters(T) = {}
       /\ tasks' = T
       /\ permits' = permits + 1

-------------------------------------------------------------------------------
(* Mutant: the oldest objects are dropped whatever their status. *)
TrimmedByAge(T) ==
    LET kept == {t \in Tasks : T[t].known}
    IN [t \in Tasks |->
          IF t \in kept /\ Cardinality({u \in kept : u < t})
                            < Cardinality(kept) - RecentLimit
          THEN [T[t] EXCEPT !.known = FALSE] ELSE T[t]]

(* submit and _trim_recent: the known tasks beyond the limit are dropped,  *)
(* oldest first, if their status is terminal, even while they report.      *)
Trimmed(T) ==
    LET kept == {t \in Tasks : T[t].known}
        over == {t \in kept : T[t].status \in Terminal}
    IN [t \in Tasks |->
          IF t \in over /\ Cardinality({u \in over : u < t})
                            < Cardinality(kept) - RecentLimit
          THEN [T[t] EXCEPT !.known = FALSE] ELSE T[t]]

(* A job that is known is returned as it stands. *)
Submit(j) ==
    /\ made < MaxTasks
    /\ \A t \in Known : tasks[t].job # j
    /\ made' = made + 1
    /\ tasks' = Trimmed([tasks EXCEPT ![made + 1] =
                   [NoTask EXCEPT !.job = j, !.pc = "created", !.known = TRUE]])
    /\ UNCHANGED <<permits, callers, control>>

(* Past the semaphore: the job runs, and the lease is asked for. *)
Entered(t) == [tasks EXCEPT ![t].pc = "leasing", ![t].status = "running",
                            ![t].wire = "lease"]

(* The loop runs a created task up to its first await; one cancelled by    *)
(* then ends before its first statement.                                   *)
Start(t) ==
    /\ tasks[t].pc = "created"
    /\ \A u \in Tasks : tasks[u].pc = "created" => t <= u
    /\ \/ /\ tasks[t].killed
          /\ tasks' = [tasks EXCEPT ![t].pc = "done", ![t].killed = FALSE]
          /\ UNCHANGED permits
       \/ /\ ~tasks[t].killed
          /\ permits > 0 /\ Waiters(tasks) = {}
          /\ permits' = permits - 1
          /\ tasks' = Entered(t)
       \/ /\ ~tasks[t].killed
          /\ permits = 0 \/ Waiters(tasks) # {}
          /\ tasks' = [tasks EXCEPT ![t].pc = "queued"]
          /\ UNCHANGED permits
    /\ UNCHANGED <<made, callers, control>>

Enter(t) ==
    /\ tasks[t].pc = "granted" /\ ~tasks[t].killed
    /\ tasks' = Entered(t)
    /\ UNCHANGED <<made, permits, callers, control>>

(* The task leaves the semaphore with terminal status s, and reports it    *)
(* if it got a lease.                                                      *)
Leave(t, s) ==
    /\ ReleaseGpu([tasks EXCEPT ![t].status = s, ![t].result = s,
                     ![t].killed = FALSE,
                     ![t].pc = IF tasks[t].leased THEN "reporting" ELSE "done",
                     ![t].wire = IF tasks[t].leased THEN "report" ELSE @])
    /\ UNCHANGED <<made, callers, control>>

(* The lease is granted; by then the deadline may have passed. *)
LeaseReturned(t) ==
    /\ tasks[t].pc = "leasing" /\ ~tasks[t].killed /\ tasks[t].wire = "ok"
    /\ \/ /\ tasks' = [tasks EXCEPT ![t].pc = "executing", ![t].leased = TRUE]
          /\ UNCHANGED permits
       \/ ReleaseGpu([tasks EXCEPT ![t].status = "timed_out",
                        ![t].result = "timed_out", ![t].leased = TRUE,
                        ![t].pc = "reporting", ![t].wire = "report"])
    /\ UNCHANGED <<made, callers, control>>

LeaseFailed(t) ==
    /\ tasks[t].pc = "leasing" /\ ~tasks[t].killed /\ tasks[t].wire = "error"
    /\ Leave(t, "failed")

(* The executor returns a result, raises, or is stopped at the deadline. *)
ExecutorEnds(t, s) ==
    /\ tasks[t].pc = "executing" /\ ~tasks[t].killed
    /\ s \in Reported \cup {"failed", "timed_out"}
    /\ Leave(t, s)

(* CancelledError is raised at the await where the task stands. *)
CancelledInside(t) ==
    /\ tasks[t].pc \in {"granted", "leasing", "executing"} /\ tasks[t].killed
    /\ Leave(t, "cancelled")

CancelledInQueue(t) ==
    /\ tasks[t].pc = "queued" /\ tasks[t].killed
    /\ tasks' = [tasks EXCEPT ![t].status = "cancelled", ![t].pc = "done",
                              ![t].result = "cancelled", ![t].killed = FALSE]
    /\ UNCHANGED <<made, permits, callers, control>>

(* reporter.complete returned or raised. *)
ReportReturned(t) ==
    /\ tasks[t].pc = "reporting"
    /\ \/ /\ tasks[t].wire = "ok"
          /\ tasks' = [tasks EXCEPT ![t].pc = "done"]
       \/ /\ tasks[t].wire = "error"
          /\ tasks' = [tasks EXCEPT ![t].pc = "done", ![t].status = "failed",
                                    ![t].result = "failed"]
    /\ UNCHANGED <<made, permits, callers, control>>

-------------------------------------------------------------------------------
(* Mutant: whatever its status, the job is cancelled. *)
CancelAnyCalled(c, t) ==
    /\ callers[c].at = "idle"
    /\ tasks[t].known
    /\ tasks' = [tasks EXCEPT ![t].killed = (tasks[t].pc # "done")]
    /\ callers' = [callers EXCEPT ![c] = [at |-> "awaiting", task |-> t]]
    /\ UNCHANGED <<made, permits, control>>

(* cancel(job_id): a terminal job is returned unchanged. *)
CancelCalled(c, t) ==
    /\ callers[c].at = "idle"
    /\ tasks[t].known /\ tasks[t].status \notin Terminal
    /\ tasks' = [tasks EXCEPT ![t].killed = (tasks[t].pc # "done")]
    /\ callers' = [callers EXCEPT ![c] = [at |-> "awaiting", task |-> t]]
    /\ UNCHANGED <<made, permits, control>>

(* Mutant: the caller waits for a result, which a task cancelled before     *)
(* its first statement never has.                                          *)
CancelResumesOnResult(c) ==
    LET t == callers[c].task IN
    /\ callers[c].at = "awaiting"
    /\ tasks[t].pc = "done" /\ tasks[t].result # "none"
    /\ tasks' = [tasks EXCEPT ![t].status = "cancelled"]
    /\ callers' = [callers EXCEPT ![c] =
                     IF tasks[t].leased THEN [at |-> "idle", task |-> 0]
                                        ELSE [at |-> "asking", task |-> t]]
    /\ UNCHANGED <<made, permits, control>>

(* The awaited task is over: the caller stamps it cancelled, and tells     *)
(* Control itself if the task never saw a lease.                           *)
CancelResumes(c) ==
    LET t == callers[c].task IN
    /\ callers[c].at = "awaiting"
    /\ tasks[t].pc = "done"
    /\ tasks' = [tasks EXCEPT ![t].status = "cancelled",
                    ![t].result = IF @ = "none" THEN "cancelled" ELSE @]
    /\ callers' = [callers EXCEPT ![c] =
                     IF tasks[t].leased THEN [at |-> "idle", task |-> 0]
                                        ELSE [at |-> "asking", task |-> t]]
    /\ UNCHANGED <<made, permits, control>>

-------------------------------------------------------------------------------
(* Control's side of the requests. *)

Answer(t, answer) ==
    tasks' = [tasks EXCEPT ![t].wire = answer]

(* Once the request is handled its response may still be lost. *)
Answered(t) == Answer(t, "ok") \/ (LossyNetwork /\ Answer(t, "error"))

ControlLeases(t) ==
    /\ tasks[t].wire = "lease"
    /\ IF control[tasks[t].job].status = "pending"
       THEN /\ control' = [control EXCEPT ![tasks[t].job] =
                             [status |-> "leased", holder |-> t]]
            /\ Answered(t)
       ELSE Answer(t, "error") /\ UNCHANGED control
    /\ UNCHANGED <<made, permits, callers>>

(* Mutant: a late report overwrites the verdict. *)
ControlCompletesAgain(t) ==
    LET row == control[tasks[t].job] IN
    /\ tasks[t].wire = "report"
    /\ IF row.status \in Terminal \/ row.holder = t
       THEN /\ control' = [control EXCEPT ![tasks[t].job].status = tasks[t].result]
            /\ Answered(t)
       ELSE Answer(t, "error") /\ UNCHANGED control
    /\ UNCHANGED <<made, permits, callers>>

ControlCompletes(t) ==
    LET row == control[tasks[t].job] IN
    /\ tasks[t].wire = "report"
    /\ \/ /\ row.status \in Terminal
          /\ Answered(t)
          /\ UNCHANGED control
       \/ /\ row = [status |-> "leased", holder |-> t]
          /\ control' = [control EXCEPT ![tasks[t].job] =
                           [status |-> tasks[t].result, holder |-> t]]
          /\ Answered(t)
       \/ /\ row.status \notin Terminal /\ row.holder # t
          /\ Answer(t, "error")
          /\ UNCHANGED control
    /\ UNCHANGED <<made, permits, callers>>

(* Cancelling a pending job; a terminal one is returned, a leased one      *)
(* refused.                                                                *)
ControlCancels(c) ==
    LET j == tasks[callers[c].task].job IN
    /\ callers[c].at = "asking"
    /\ control' = [control EXCEPT ![j] =
                     IF @.status = "pending" THEN [@ EXCEPT !.status = "cancelled"]
                                             ELSE @]
    /\ callers' = [callers EXCEPT ![c] = [at |-> "idle", task |-> 0]]
    /\ UNCHANGED <<tasks, made, permits>>

(* A request that never reaches Control. *)
RequestLost(t) ==
    /\ LossyNetwork /\ tasks[t].wire \in {"lease", "report"}
    /\ Answer(t, "error")
    /\ UNCHANGED <<made, permits, callers, control>>

CancelRequestLost(c) ==
    /\ LossyNetwork /\ callers[c].at = "asking"
    /\ callers' = [callers EXCEPT ![c] = [at |-> "idle", task |-> 0]]
    /\ UNCHANGED <<tasks, made, permits, control>>

LeaseExpires(j) ==
    /\ LeasesExpire /\ control[j].status = "leased"
    /\ control' = [control EXCEPT ![j] = [status |-> "pending", holder |-> 0]]
    /\ UNCHANGED <<tasks, made, permits, callers>>

-------------------------------------------------------------------------------
Init == /\ tasks = [t \in Tasks |-> NoTask]
        /\ made = 0
        /\ permits = 1
        /\ callers = [c \in Callers |-> [at |-> "idle", task |-> 0]]
        /\ control = [j \in Jobs |-> [status |-> "pending", holder |-> 0]]

TaskStep(t) == \/ Start(t) \/ Enter(t) \/ LeaseReturned(t) \/ LeaseFailed(t)
               \/ \E s \in Terminal : ExecutorEnds(t, s)
               \/ CancelledInside(t) \/ CancelledInQueue(t) \/ ReportReturned(t)

ControlStep(t) == ControlLeases(t) \/ ControlCompletes(t) \/ RequestLost(t)

CallerStep(c) == CancelResumes(c) \/ ControlCancels(c) \/ CancelRequestLost(c)

Next == \/ \E j \in Jobs : Submit(j) \/ LeaseExpires(j)
        \/ \E t \in Tasks : TaskStep(t) \/ ControlStep(t)
        \/ \E c \in Callers : CallerStep(c) \/ \E t \in Tasks : CancelCalled(c, t)

Spec == Init /\ [][Next]_vars

(* The loop runs every ready task, wait_for ends every executor at its     *)
(* deadline, and the HTTP client's timeout ends every request.             *)
FairSpec == /\ Spec
            /\ \A t \in Tasks : WF_vars(TaskStep(t)) /\ WF_vars(ControlStep(t))
            /\ \A c \in Callers : WF_vars(CallerStep(c))

-------------------------------------------------------------------------------
(* The objects, handlers and rows keep their shape. *)
TypeOK == /\ tasks \in [Tasks -> TaskRow]
          /\ made \in 0 .. MaxTasks
          /\ permits \in {0, 1}
          /\ callers \in [Callers -> HandlerRow]
          /\ control \in [Jobs -> ControlRow]

(* One job at a time on the GPU, whatever is cancelled, refused, lost or   *)
(* out of time while others wait.                                          *)
OneJobOnGpu == \A t, u \in OnGpu : t = u

(* The GPU is never left free while a live job waits for it: a waiter that *)
(* is cancelled after it was handed the permit passes it on.               *)
NoIdleGpu == permits > 0 => Waiters(tasks) = {}

(* The GPU is shared one job at a time, and handed on.                     *)
GpuShared == OneJobOnGpu /\ NoIdleGpu

(* Idempotent submission: whatever is trimmed and submitted again, a job   *)
(* never has two tasks that have not reached a terminal status.            *)
OneLiveTaskPerJob ==
    \A t, u \in Tasks :
        /\ tasks[t].job = tasks[u].job /\ tasks[t].job # None
        /\ tasks[t].status \notin Terminal /\ tasks[u].status \notin Terminal
        => t = u

(* Control's verdict on a job it leased is the result of the task that     *)
(* held the lease; the task's own view differs only if it never heard.     *)
VerdictIsTheHolders ==
    \A j \in Jobs :
        control[j].status \in Terminal /\ control[j].holder # 0
        => LET t == control[j].holder IN
           /\ tasks[t].job = j /\ tasks[t].pc \in {"reporting", "done"}
           /\ tasks[t].result \in {control[j].status, "failed"}

(* Once a task is over with a status other than failed no cancel handler,  *)
(* response or trim changes it.                                            *)
FinishedStays ==
    [][\A t \in Tasks :
          tasks[t].pc = "done" /\ tasks[t].status \in Terminal \ {"failed"}
          => tasks'[t].status = tasks[t].status]_vars

(* Every submitted job comes to an end and every cancel request is         *)
(* answered: once the last job is submitted, nothing stays under way.      *)
EveryoneIsAnswered ==
    <>[](/\ \A t \in Tasks : tasks[t].pc \in {"none", "done"}
         /\ \A c \in Callers : callers[c].at = "idle")

===============================================================================
