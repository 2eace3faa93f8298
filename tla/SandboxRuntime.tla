---------------------------- MODULE SandboxRuntime -----------------------------
(***************************************************************************)
(* Generated GPU jobs in Docker containers (gpu_jobs/sandbox.py).          *)
(*                                                                         *)
(* The Supervisor's semaphore lets one SandboxStageExecutor coroutine run  *)
(* at a time.  It hands DockerSandboxRuntime.execute to a worker thread    *)
(* and, when cancelled (a cancel request, or wait_for's deadline), has     *)
(* another thread call cancel_active.  Threads are not cancelled with the  *)
(* coroutine, and the runtime object they share is only guarded by the     *)
(* lock around _active_job.  A thread's step is one call to Docker or one  *)
(* critical section.                                                       *)
(***************************************************************************)
EXTENDS Naturals, FiniteSets

CONSTANTS Jobs,           \* generated jobs, each executed once
          MaxCancels,     \* bound: CancelledErrors thrown into one coroutine
          DockerFails,    \* may Docker refuse to create or start something?
          None

ASSUME NoneAssumption == None \notin Jobs
ASSUME SwitchAssumption == DockerFails \in BOOLEAN /\ MaxCancels \in Nat

VARIABLES tasks,     \* where each coroutine stands
          cancels,   \* CancelledErrors it was thrown
          workers,   \* where the thread in execute stands
          boxes,     \* the job's container
          inputs,    \* its volume and stager container, while they exist
          killers,   \* the thread in cancel_active, and what it read
          active     \* _active_job

vars == <<tasks, cancels, workers, boxes, inputs, killers, active>>

-------------------------------------------------------------------------------
TaskStates == {"queued", "archiving", "executing", "killing", "uploading", "over"}
WorkerStates == {"none", "submitted", "volume", "stager", "archive", "unstage", "job",
                 "register", "start", "polling", "stopping", "clearing", "removing", "ended"}
BoxStates == {"absent", "created", "running", "published", "exited"}
KillerRow == [at : {"none", "submitted", "ended"}, target : Jobs \cup {None}]
             \cup [at : {"killing"}, target : Jobs]

Running == {j \in Jobs : boxes[j] \in {"running", "published"}}
InExecutor == {j \in Jobs : tasks[j] \notin {"queued", "over"}}

(* SIGKILL stops a running container; on any other Docker reports an error *)
(* that _kill_and_wait swallows.                                           *)
Killed(j) == IF j \in Running THEN [boxes EXCEPT ![j] = "exited"] ELSE boxes

-------------------------------------------------------------------------------
(* The coroutine.                                                          *)

Begin(j) ==
    /\ tasks[j] = "queued" /\ InExecutor = {}
    /\ tasks' = [tasks EXCEPT ![j] = "archiving"]
    /\ UNCHANGED <<cancels, workers, boxes, inputs, killers, active>>

(* The inputs are downloaded and packed, or the executor gives up. *)
Archived(j) ==
    /\ tasks[j] = "archiving"
    /\ \/ /\ tasks' = [tasks EXCEPT ![j] = "executing"]
          /\ workers' = [workers EXCEPT ![j] = "submitted"]
       \/ /\ tasks' = [tasks EXCEPT ![j] = "over"]
          /\ UNCHANGED workers
    /\ UNCHANGED <<cancels, boxes, inputs, killers, active>>

(* Mutant: the outputs are uploaded while the thread still cleans up. *)
ReturnedEarly(j) ==
    /\ tasks[j] = "executing" /\ (boxes[j] = "published" \/ workers[j] = "ended")
    /\ tasks' = [tasks EXCEPT ![j] = "uploading"]
    /\ UNCHANGED <<cancels, workers, boxes, inputs, killers, active>>

Returned(j) ==
    /\ tasks[j] = "executing" /\ workers[j] = "ended"
    /\ tasks' = [tasks EXCEPT ![j] = "uploading"]
    /\ UNCHANGED <<cancels, workers, boxes, inputs, killers, active>>

Uploaded(j) ==
    /\ tasks[j] = "uploading"
    /\ tasks' = [tasks EXCEPT ![j] = "over"]
    /\ UNCHANGED <<cancels, workers, boxes, inputs, killers, active>>

(* Mutant: cancel_active is not awaited. *)
CancelledUnawaited(j) ==
    /\ cancels[j] < MaxCancels /\ j \in InExecutor
    /\ tasks' = [tasks EXCEPT ![j] = "over"]
    /\ killers' = [killers EXCEPT ![j].at = IF tasks[j] = "executing" THEN "submitted" ELSE @]
    /\ cancels' = [cancels EXCEPT ![j] = @ + 1]
    /\ UNCHANGED <<workers, boxes, inputs, active>>

(* While execute is awaited, its thread is withdrawn if no thread of the   *)
(* pool has taken it yet and cancel_active is started.  Anywhere else, the *)
(* wait for cancel_active included, the coroutine ends at once.            *)
Cancelled(j) ==
    /\ cancels[j] < MaxCancels /\ j \in InExecutor
    /\ cancels' = [cancels EXCEPT ![j] = @ + 1]
    /\ IF tasks[j] = "executing"
       THEN /\ tasks' = [tasks EXCEPT ![j] = "killing"]
            /\ killers' = [killers EXCEPT ![j].at = "submitted"]
            /\ workers' = [workers EXCEPT ![j] = IF @ = "submitted" THEN "none" ELSE @]
       ELSE /\ tasks' = [tasks EXCEPT ![j] = "over"]
            /\ UNCHANGED <<killers, workers>>
    /\ UNCHANGED <<boxes, inputs, active>>

CancelDone(j) ==
    /\ tasks[j] = "killing" /\ killers[j].at = "ended"
    /\ tasks' = [tasks EXCEPT ![j] = "over"]
    /\ UNCHANGED <<cancels, workers, boxes, inputs, killers, active>>

-------------------------------------------------------------------------------
(* The thread in execute.                                                  *)

Goes(j, from, to) == workers[j] = from /\ workers' = [workers EXCEPT ![j] = to]

(* The call of Docker made at `from` fails: the finally block is next. *)
Refused(j, from) ==
    /\ DockerFails /\ Goes(j, from, "clearing")
    /\ UNCHANGED <<boxes, inputs, active>>

Taken(j) == Goes(j, "submitted", "volume") /\ UNCHANGED <<boxes, inputs, active>>

CreateVolume(j) ==
    \/ /\ Goes(j, "volume", "stager")
       /\ inputs' = [inputs EXCEPT ![j] = {"volume"}]
       /\ UNCHANGED <<boxes, active>>
    \/ Refused(j, "volume")

CreateStager(j) ==
    \/ /\ Goes(j, "stager", "archive")
       /\ inputs' = [inputs EXCEPT ![j] = @ \cup {"stager"}]
       /\ UNCHANGED <<boxes, active>>
    \/ Refused(j, "stager")

PutArchive(j) ==
    \/ Goes(j, "archive", "unstage") /\ UNCHANGED <<boxes, inputs, active>>
    \/ Refused(j, "archive")

RemoveStager(j) ==
    /\ Goes(j, "unstage", "job")
    /\ inputs' = [inputs EXCEPT ![j] = @ \ {"stager"}]
    /\ UNCHANGED <<boxes, active>>

CreateJob(j) ==
    \/ /\ Goes(j, "job", "register")
       /\ boxes' = [boxes EXCEPT ![j] = "created"]
       /\ UNCHANGED <<inputs, active>>
    \/ Refused(j, "job")

Register(j) ==
    /\ Goes(j, "register", "start")
    /\ active' = j
    /\ UNCHANGED <<boxes, inputs>>

StartJob(j) ==
    \/ /\ Goes(j, "start", "polling")
       /\ boxes' = [boxes EXCEPT ![j] = "running"]
       /\ UNCHANGED <<inputs, active>>
    \/ Refused(j, "start")

(* The poll ends when the outputs are there, the container is not running  *)
(* or the stage's deadline has passed.                                     *)
Poll(j) ==
    /\ \/ boxes[j] = "published" /\ Goes(j, "polling", "stopping")
       \/ boxes[j] = "exited" /\ Goes(j, "polling", "clearing")
       \/ Goes(j, "polling", "stopping")
    /\ UNCHANGED <<boxes, inputs, active>>

StopJob(j) ==
    /\ Goes(j, "stopping", "clearing")
    /\ boxes' = Killed(j)
    /\ UNCHANGED <<inputs, active>>

ClearActive(j) ==
    /\ Goes(j, "clearing", "removing")
    /\ active' = IF active = j THEN None ELSE active
    /\ UNCHANGED <<boxes, inputs>>

(* Mutant: the volume goes first, while a container still mounts it, and   *)
(* Docker refuses; the refusal is swallowed.                               *)
RemoveVolumeFirst(j) ==
    /\ Goes(j, "removing", "ended")
    /\ boxes' = [boxes EXCEPT ![j] = "absent"]
    /\ inputs' = [inputs EXCEPT ![j] =
                    IF boxes[j] # "absent" \/ "stager" \in @ THEN @ \ {"stager"} ELSE {}]
    /\ UNCHANGED active

(* Mutant: a container that never started is not removed. *)
RemoveStarted(j) ==
    /\ Goes(j, "removing", "ended")
    /\ boxes' = [boxes EXCEPT ![j] = IF @ = "created" THEN @ ELSE "absent"]
    /\ inputs' = [inputs EXCEPT ![j] = IF boxes[j] = "created" THEN @ ELSE {}]
    /\ UNCHANGED active

(* Job, stager, volume, in this order: each removal is forced, and a       *)
(* volume can go once no container mounts it.                              *)
RemoveAll(j) ==
    /\ Goes(j, "removing", "ended")
    /\ boxes' = [boxes EXCEPT ![j] = "absent"]
    /\ inputs' = [inputs EXCEPT ![j] = {}]
    /\ UNCHANGED active

Work(j) ==
    /\ \/ Taken(j) \/ CreateVolume(j) \/ CreateStager(j) \/ PutArchive(j) \/ RemoveStager(j)
       \/ CreateJob(j) \/ Register(j) \/ StartJob(j) \/ Poll(j) \/ StopJob(j)
       \/ ClearActive(j) \/ RemoveAll(j)
    /\ UNCHANGED <<tasks, cancels, killers>>

-------------------------------------------------------------------------------
(* The thread in cancel_active: it reads _active_job under the lock and    *)
(* kills what it read after releasing it.                                  *)

ReadActive(j) ==
    /\ killers[j].at = "submitted"
    /\ killers' = [killers EXCEPT ![j] =
                     [at |-> IF active = None THEN "ended" ELSE "killing", target |-> active]]
    /\ UNCHANGED <<tasks, cancels, workers, boxes, inputs, active>>

KillActive(j) ==
    /\ killers[j].at = "killing"
    /\ boxes' = Killed(killers[j].target)
    /\ killers' = [killers EXCEPT ![j].at = "ended"]
    /\ UNCHANGED <<tasks, cancels, workers, inputs, active>>

(* The program in the container publishes its outputs and then waits, or   *)
(* ends on its own.                                                        *)
Program(j) ==
    /\ j \in Running
    /\ \E s \in {"published", "exited"} : boxes' = [boxes EXCEPT ![j] = s]
    /\ UNCHANGED <<tasks, cancels, workers, inputs, killers, active>>

-------------------------------------------------------------------------------
Init == /\ tasks = [j \in Jobs |-> "queued"]
        /\ cancels = [j \in Jobs |-> 0]
        /\ workers = [j \in Jobs |-> "none"]
        /\ boxes = [j \in Jobs |-> "absent"]
        /\ inputs = [j \in Jobs |-> {}]
        /\ killers = [j \in Jobs |-> [at |-> "none", target |-> None]]
        /\ active = None

Coroutine(j) == Archived(j) \/ Returned(j) \/ Uploaded(j) \/ CancelDone(j)
Killer(j) == ReadActive(j) \/ KillActive(j)

Next == \E j \in Jobs : \/ Begin(j) \/ Coroutine(j) \/ Cancelled(j)
                        \/ Work(j) \/ Killer(j) \/ Program(j)

Spec == Init /\ [][Next]_vars

(* Downloads, uploads and Docker calls have timeouts, threads and the      *)
(* event loop are scheduled.  Nothing is assumed of the program inside a   *)
(* container, nor of the Supervisor's queue.                               *)
FairSpec == /\ Spec
            /\ \A j \in Jobs : /\ WF_vars(Coroutine(j))
                               /\ WF_vars(Work(j))
                               /\ WF_vars(Killer(j))

-------------------------------------------------------------------------------
(* Coroutines, threads and Docker objects keep their shape: a thread that   *)
(* is about to kill has a container to kill.                               *)
TypeOK == /\ tasks \in [Jobs -> TaskStates]
          /\ cancels \in [Jobs -> 0 .. MaxCancels]
          /\ workers \in [Jobs -> WorkerStates]
          /\ boxes \in [Jobs -> BoxStates]
          /\ inputs \in [Jobs -> SUBSET {"volume", "stager"}]
          /\ killers \in [Jobs -> KillerRow]
          /\ active \in Jobs \cup {None}

(* A coroutine that was never cancelled ends with its container, stager    *)
(* and volume removed, whichever step of the execution failed.             *)
UncancelledLeavesNothing ==
    \A j \in Jobs : tasks[j] = "over" /\ cancels[j] = 0 =>
                      boxes[j] = "absent" /\ inputs[j] = {} /\ active # j

(* Two containers are on the GPU at once only if the coroutine of one of   *)
(* them was cancelled and has left it behind.                              *)
OnlyOrphansOverlap ==
    \A j, k \in Running : j # k =>
        \E i \in {j, k} : tasks[i] = "over" /\ cancels[i] > 0

(* The container of a job nobody cancelled is in no danger from the        *)
(* cancellation of another one, unless that one was cancelled twice.       *)
StrayKillsAreRepeated ==
    \A j \in Jobs :
        killers[j].at = "killing" /\ killers[j].target \in Running \ {j}
        => cancels[j] > 1 \/ cancels[killers[j].target] > 0

(* A coroutine that holds the GPU ends, and what execute creates is        *)
(* removed in the end, also when the coroutine that asked for it is long   *)
(* gone.                                                                   *)
ExecutionsEnd ==
    \A j \in Jobs :
        /\ j \in InExecutor ~> tasks[j] = "over"
        /\ boxes[j] # "absent" \/ inputs[j] # {} ~> boxes[j] = "absent" /\ inputs[j] = {}

===============================================================================
