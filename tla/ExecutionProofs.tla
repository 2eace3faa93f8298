--------------------------- MODULE ExecutionProofs ----------------------------
(***************************************************************************)
(* The safety invariants of the two places where programs run.             *)
(*                                                                         *)
(* SandboxRuntime, for every set of jobs and every number of cancellations:*)
(* what is left of a job is told by where its threads stand.               *)
(*                                                                         *)
(* LegacyServers, for any number of callers, builders and GPUs: a source   *)
(* and an upload are each in one place, and what is in that place is its   *)
(* own.                                                                    *)
(***************************************************************************)
EXTENDS SandboxRuntime, LegacyServers, TLAPS

USE NoneAssumption, SwitchAssumption

-------------------------------------------------------------------------------
(* The inductive invariant.  What is left of a job is told by where its    *)
(* two threads stand, and where they may stand by the coroutine and by the *)
(* cancellations it has had.                                               *)

(* Places of the thread in execute with a container, which may run. *)
WithBox == {"polling", "stopping", "clearing", "removing"}

(* A coroutine at t that was cancelled c times: its thread at w, its       *)
(* cancel_active thread at k.                                              *)
ThreadsOK(t, c, w, k) ==
    /\ t \in {"queued", "archiving"} => w = "none"
    /\ t = "executing" => w # "none"
    /\ t = "uploading" => w = "ended"
    /\ t = "over" /\ c = 0 => w \in {"none", "ended"}
    /\ t = "killing" => c > 0
    /\ t \in {"queued", "archiving", "executing", "uploading"} \/ c = 0 => k = "none"
    /\ t = "over" /\ k \in {"submitted", "killing"} => c > 1

(* A thread at w: its container b, its volume and stager i, and whether it *)
(* is the active job.                                                      *)
DockerOK(w, b, i, own) ==
    /\ w \in {"none", "submitted", "volume", "ended"} => i = {}
    /\ w \in {"register", "start"} => b = "created"
    /\ w \notin {"register", "start"} \cup WithBox => b = "absent"
    /\ own => w \in {"start", "polling", "stopping", "clearing"}

JobOK(j) == /\ ThreadsOK(tasks[j], cancels[j], workers[j], killers[j].at)
            /\ DockerOK(workers[j], boxes[j], inputs[j], active = j)

(* The Supervisor's semaphore. *)
OneInExecutor == \A j, k \in InExecutor : j = k

IInv == TypeOK /\ OneInExecutor /\ \A j \in Jobs : JobOK(j)

-------------------------------------------------------------------------------
(* A step of the thread in execute changes only what belongs to its job.   *)
LEMMA ThreadStep ==
  ASSUME IInv, NEW j \in Jobs, NEW w \in WorkerStates, NEW b \in BoxStates,
         NEW i \in SUBSET {"volume", "stager"},
         workers' = [workers EXCEPT ![j] = w], boxes' = [boxes EXCEPT ![j] = b],
         inputs' = [inputs EXCEPT ![j] = i], active' \in {active, j, None},
         UNCHANGED <<tasks, cancels, killers>>,
         ThreadsOK(tasks[j], cancels[j], w, killers[j].at),
         DockerOK(w, b, i, active' = j)
  PROVE  IInv'
<1>1. TypeOK'
  BY DEF IInv, TypeOK
<1>2. OneInExecutor'
  BY DEF IInv, OneInExecutor, InExecutor
<1>3. ASSUME NEW k \in Jobs PROVE JobOK(k)'
  <2>1. CASE k = j
    BY <2>1 DEF IInv, TypeOK, JobOK
  <2>2. CASE k # j
    <3>1. /\ workers'[k] = workers[k] /\ boxes'[k] = boxes[k] /\ inputs'[k] = inputs[k]
          /\ active' = k => active = k
      BY <2>2 DEF IInv, TypeOK
    <3>2. QED
      BY <3>1 DEF IInv, JobOK, DockerOK
  <2>3. QED
    BY <2>1, <2>2
<1>4. QED
  BY <1>1, <1>2, <1>3 DEF IInv

LEMMA WorkStep ==
  ASSUME IInv, NEW j \in Jobs, Work(j)
  PROVE  IInv'
<1> DEFINE t == tasks[j]
           Good(w, b, i, own) == /\ ThreadsOK(t, cancels[j], w, killers[j].at)
                                 /\ DockerOK(w, b, i, own)
<1>1. /\ tasks[j] \in TaskStates /\ workers[j] \in WorkerStates /\ boxes[j] \in BoxStates
      /\ inputs[j] \in SUBSET {"volume", "stager"} /\ active \in Jobs \cup {None}
      /\ workers = [workers EXCEPT ![j] = workers[j]]
      /\ boxes = [boxes EXCEPT ![j] = boxes[j]]
      /\ inputs = [inputs EXCEPT ![j] = inputs[j]]
  BY DEF IInv, TypeOK
<1>2. Good(workers[j], boxes[j], inputs[j], active = j)
  BY DEF IInv, JobOK
<1>3. UNCHANGED <<tasks, cancels, killers>>
  BY DEF Work
<1>4. ASSUME NEW from \in WorkerStates \ {"none", "ended"}, NEW to \in WorkerStates \ {"none"},
             to = "ended" => from = "removing",
             NEW b \in BoxStates, NEW i \in SUBSET {"volume", "stager"},
             Goes(j, from, to), boxes' = [boxes EXCEPT ![j] = b],
             inputs' = [inputs EXCEPT ![j] = i], active' \in {active, j, None},
             DockerOK(to, b, i, active' = j)
      PROVE  IInv'
  <2>1. workers[j] = from /\ workers' = [workers EXCEPT ![j] = to]
    BY <1>4 DEF Goes
  <2>2. ThreadsOK(t, cancels[j], to, killers[j].at)
    BY <1>1, <1>2, <1>4, <2>1 DEF ThreadsOK, TaskStates
  <2>3. QED
    BY <1>3, <1>4, <2>1, <2>2, ThreadStep
<1>5. ASSUME NEW from \in {"volume", "stager", "archive", "job", "start"}, Refused(j, from)
      PROVE  IInv'
  <2>1. /\ Goes(j, from, "clearing") /\ workers[j] = from /\ active' = active
        /\ boxes' = boxes /\ inputs' = inputs
    BY <1>5 DEF Refused, Goes
  <2>2. DockerOK("clearing", boxes[j], inputs[j], active' = j)
    BY <1>2, <2>1 DEF DockerOK, WithBox
  <2>3. QED
    BY <1>1, <1>4, <2>1, <2>2 DEF WorkerStates
<1>6. CASE Taken(j)
  <2>1. /\ Goes(j, "submitted", "volume") /\ workers[j] = "submitted"
        /\ boxes' = boxes /\ inputs' = inputs /\ active' = active
    BY <1>6 DEF Taken, Goes
  <2>2. DockerOK("volume", boxes[j], inputs[j], active' = j)
    BY <1>2, <2>1 DEF DockerOK, WithBox
  <2>3. QED
    BY <1>1, <1>4, <2>1, <2>2 DEF WorkerStates
<1>7. CASE CreateVolume(j)
  <2>1. CASE /\ Goes(j, "volume", "stager")
             /\ inputs' = [inputs EXCEPT ![j] = {"volume"}]
             /\ UNCHANGED <<boxes, active>>
    <3>1. DockerOK("stager", boxes[j], {"volume"}, active' = j)
      BY <1>2, <2>1 DEF Goes, DockerOK, WithBox
    <3>2. QED
      BY <1>1, <1>4, <2>1, <3>1 DEF WorkerStates
  <2>2. QED
    BY <1>5, <1>7, <2>1 DEF CreateVolume
<1>8. CASE CreateStager(j)
  <2>1. CASE /\ Goes(j, "stager", "archive")
             /\ inputs' = [inputs EXCEPT ![j] = @ \cup {"stager"}]
             /\ UNCHANGED <<boxes, active>>
    <3>1. DockerOK("archive", boxes[j], inputs[j] \cup {"stager"}, active' = j)
      BY <1>2, <2>1 DEF Goes, DockerOK, WithBox
    <3>2. inputs[j] \cup {"stager"} \in SUBSET {"volume", "stager"}
      BY <1>1
    <3>3. QED
      BY <1>1, <1>4, <2>1, <3>1, <3>2 DEF WorkerStates
  <2>2. QED
    BY <1>5, <1>8, <2>1 DEF CreateStager
<1>9. CASE PutArchive(j)
  <2>1. CASE Goes(j, "archive", "unstage") /\ UNCHANGED <<boxes, inputs, active>>
    <3>1. DockerOK("unstage", boxes[j], inputs[j], active' = j)
      BY <1>2, <2>1 DEF Goes, DockerOK, WithBox
    <3>2. QED
      BY <1>1, <1>4, <2>1, <3>1 DEF WorkerStates
  <2>2. QED
    BY <1>5, <1>9, <2>1 DEF PutArchive
<1>10. CASE RemoveStager(j)
  <2>1. /\ Goes(j, "unstage", "job") /\ workers[j] = "unstage"
        /\ inputs' = [inputs EXCEPT ![j] = inputs[j] \ {"stager"}]
        /\ boxes' = boxes /\ active' = active
    BY <1>10 DEF RemoveStager, Goes
  <2>2. DockerOK("job", boxes[j], inputs[j] \ {"stager"}, active' = j)
    BY <1>2, <2>1 DEF DockerOK, WithBox
  <2>3. inputs[j] \ {"stager"} \in SUBSET {"volume", "stager"}
    BY <1>1
  <2>4. QED
    BY <1>1, <1>4, <2>1, <2>2, <2>3 DEF WorkerStates
<1>11. CASE CreateJob(j)
  <2>1. CASE /\ Goes(j, "job", "register") /\ boxes' = [boxes EXCEPT ![j] = "created"]
             /\ UNCHANGED <<inputs, active>>
    <3>1. DockerOK("register", "created", inputs[j], active' = j)
      BY <1>2, <2>1 DEF Goes, DockerOK, WithBox
    <3>2. QED
      BY <1>1, <1>4, <2>1, <3>1 DEF WorkerStates, BoxStates
  <2>2. QED
    BY <1>5, <1>11, <2>1 DEF CreateJob
<1>12. CASE Register(j)
  <2>1. /\ Goes(j, "register", "start") /\ workers[j] = "register" /\ active' = j
        /\ boxes' = boxes /\ inputs' = inputs
    BY <1>12 DEF Register, Goes
  <2>2. DockerOK("start", boxes[j], inputs[j], active' = j)
    BY <1>2, <2>1 DEF DockerOK, WithBox
  <2>3. QED
    BY <1>1, <1>4, <2>1, <2>2 DEF WorkerStates
<1>13. CASE StartJob(j)
  <2>1. CASE /\ Goes(j, "start", "polling") /\ boxes' = [boxes EXCEPT ![j] = "running"]
             /\ UNCHANGED <<inputs, active>>
    <3>1. DockerOK("polling", "running", inputs[j], active' = j)
      BY <1>2, <2>1 DEF Goes, DockerOK, WithBox
    <3>2. QED
      BY <1>1, <1>4, <2>1, <3>1 DEF WorkerStates, BoxStates
  <2>2. QED
    BY <1>5, <1>13, <2>1 DEF StartJob
<1>14. CASE Poll(j)
  <2>1. PICK to \in {"stopping", "clearing"} :
           /\ Goes(j, "polling", to) /\ workers[j] = "polling"
           /\ boxes' = boxes /\ inputs' = inputs /\ active' = active
    BY <1>14 DEF Poll, Goes
  <2>2. DockerOK(to, boxes[j], inputs[j], active' = j)
    BY <1>2, <2>1 DEF DockerOK, WithBox
  <2>3. QED
    BY <1>1, <1>4, <2>1, <2>2 DEF WorkerStates
<1>15. CASE StopJob(j)
  <2>1. PICK b \in BoxStates : boxes' = [boxes EXCEPT ![j] = b]
    BY <1>1, <1>15 DEF StopJob, Killed, BoxStates
  <2>2. /\ Goes(j, "stopping", "clearing") /\ workers[j] = "stopping"
        /\ inputs' = inputs /\ active' = active
    BY <1>15 DEF StopJob, Goes
  <2>3. DockerOK("clearing", b, inputs[j], active' = j)
    BY <1>2, <2>2 DEF DockerOK, WithBox
  <2>4. QED
    BY <1>1, <1>4, <2>1, <2>2, <2>3 DEF WorkerStates
<1>16. CASE ClearActive(j)
  <2>1. /\ Goes(j, "clearing", "removing") /\ workers[j] = "clearing"
        /\ boxes' = boxes /\ inputs' = inputs /\ active' \in {active, None} /\ active' # j
    BY <1>16 DEF ClearActive, Goes
  <2>2. DockerOK("removing", boxes[j], inputs[j], active' = j)
    BY <1>2, <2>1 DEF DockerOK, WithBox
  <2>3. QED
    BY <1>1, <1>4, <2>1, <2>2 DEF WorkerStates
<1>17. CASE RemoveAll(j)
  <2>1. /\ Goes(j, "removing", "ended") /\ workers[j] = "removing"
        /\ boxes' = [boxes EXCEPT ![j] = "absent"]
        /\ inputs' = [inputs EXCEPT ![j] = {}] /\ active' = active
    BY <1>17 DEF RemoveAll, Goes
  <2>2. DockerOK("ended", "absent", {}, active' = j)
    BY <1>2, <2>1 DEF DockerOK, WithBox
  <2>3. QED
    BY <1>1, <1>4, <2>1, <2>2 DEF WorkerStates, BoxStates
<1>18. QED
  BY <1>6, <1>7, <1>8, <1>9, <1>10, <1>11, <1>12, <1>13, <1>14, <1>15, <1>16, <1>17 DEF Work

(* A step of the coroutine or of cancel_active leaves the Docker objects.  *)
LEMMA CoroutineStep ==
  ASSUME IInv, NEW j \in Jobs, NEW t \in TaskStates, NEW c \in 0 .. MaxCancels,
         NEW w \in WorkerStates, NEW k \in KillerRow,
         tasks' = [tasks EXCEPT ![j] = t], cancels' = [cancels EXCEPT ![j] = c],
         workers' = [workers EXCEPT ![j] = w], killers' = [killers EXCEPT ![j] = k],
         UNCHANGED <<boxes, inputs, active>>,
         t \in {"queued", "over"} \/ j \in InExecutor \/ InExecutor = {},
         w = workers[j] \/ {w, workers[j]} \subseteq {"none", "submitted"},
         ThreadsOK(t, c, w, k.at)
  PROVE  IInv'
<1>1. TypeOK'
  BY DEF IInv, TypeOK
<1>2. OneInExecutor'
  BY DEF IInv, TypeOK, OneInExecutor, InExecutor
<1>3. ASSUME NEW i \in Jobs PROVE JobOK(i)'
  <2>1. CASE i = j
    <3>1. DockerOK(w, boxes[j], inputs[j], active = j)
      BY DEF IInv, JobOK, DockerOK, WithBox
    <3>2. QED
      BY <2>1, <3>1 DEF IInv, TypeOK, JobOK
  <2>2. CASE i # j
    BY <2>2 DEF IInv, TypeOK, JobOK
  <2>3. QED
    BY <2>1, <2>2
<1>4. QED
  BY <1>1, <1>2, <1>3 DEF IInv

(* Killing containers, or their ending by themselves, disturbs nothing:    *)
(* only a container whose thread is past its start is running.             *)
LEMMA BoxStep ==
  ASSUME IInv, NEW j \in Running, NEW b \in {"published", "exited"},
         boxes' = [boxes EXCEPT ![j] = b],
         UNCHANGED <<tasks, cancels, workers, inputs, active>>,
         killers' \in [Jobs -> KillerRow],
         \A k \in Jobs : killers'[k].at \in {killers[k].at, "ended"}
                         /\ (killers[k].at = "none" => killers'[k].at = "none")
  PROVE  IInv'
<1>1. TypeOK'
  BY DEF IInv, TypeOK, BoxStates, Running
<1>2. OneInExecutor'
  BY DEF IInv, OneInExecutor, InExecutor
<1>3. ASSUME NEW k \in Jobs PROVE JobOK(k)'
  <2>1. ThreadsOK(tasks[k], cancels[k], workers[k], killers'[k].at)
    BY DEF IInv, JobOK, ThreadsOK
  <2>2. DockerOK(workers[k], boxes'[k], inputs[k], active = k)
    <3>1. CASE k = j
      <4>1. workers[j] \in WithBox
        BY <3>1 DEF Running, IInv, JobOK, DockerOK
      <4>2. QED
        BY <3>1, <4>1 DEF IInv, JobOK, DockerOK, WithBox
    <3>2. CASE k # j
      BY <3>2 DEF IInv, TypeOK, JobOK
    <3>3. QED
      BY <3>1, <3>2
  <2>3. QED
    BY <2>1, <2>2 DEF JobOK
<1>4. QED
  BY <1>1, <1>2, <1>3 DEF IInv

-------------------------------------------------------------------------------
(* One step per action of the coroutine and of the cancel_active thread. *)
LEMMA TaskStep ==
  ASSUME IInv, NEW j \in Jobs, Begin(j) \/ Coroutine(j) \/ Cancelled(j)
  PROVE  IInv'
<1>1. /\ tasks[j] \in TaskStates /\ workers[j] \in WorkerStates
      /\ cancels[j] \in 0 .. MaxCancels /\ killers[j] \in KillerRow
      /\ workers = [workers EXCEPT ![j] = workers[j]]
      /\ cancels = [cancels EXCEPT ![j] = cancels[j]]
      /\ killers = [killers EXCEPT ![j] = killers[j]]
  BY DEF IInv, TypeOK
<1>2. ThreadsOK(tasks[j], cancels[j], workers[j], killers[j].at)
  BY DEF IInv, JobOK
<1>3. ASSUME NEW t \in TaskStates, tasks' = [tasks EXCEPT ![j] = t],
              UNCHANGED <<cancels, workers, boxes, inputs, killers, active>>,
              t \in {"queued", "over"} \/ j \in InExecutor \/ InExecutor = {},
              ThreadsOK(t, cancels[j], workers[j], killers[j].at)
       PROVE  IInv'
  <2>1. /\ workers' = [workers EXCEPT ![j] = workers[j]]
        /\ cancels' = [cancels EXCEPT ![j] = cancels[j]]
        /\ killers' = [killers EXCEPT ![j] = killers[j]]
        /\ UNCHANGED <<boxes, inputs, active>>
    BY <1>1, <1>3
  <2>2. /\ tasks' = [tasks EXCEPT ![j] = t]
        /\ t \in {"queued", "over"} \/ j \in InExecutor \/ InExecutor = {}
        /\ ThreadsOK(t, cancels[j], workers[j], killers[j].at)
        /\ cancels[j] \in 0 .. MaxCancels /\ workers[j] \in WorkerStates
        /\ killers[j] \in KillerRow
    BY <1>1, <1>3
  <2>3. QED
    BY <2>1, <2>2, CoroutineStep, ZenonT(30)
<1>4. CASE Begin(j)
  <2>1. ThreadsOK("archiving", cancels[j], workers[j], killers[j].at)
    BY <1>2, <1>4 DEF Begin, ThreadsOK
  <2>2. QED
    BY <1>1, <1>4, <2>1, <1>3 DEF Begin, TaskStates
<1>5. CASE Archived(j)
  <2>1. tasks[j] = "archiving" /\ j \in InExecutor
    BY <1>5 DEF Archived, InExecutor
  <2>2. CASE /\ tasks' = [tasks EXCEPT ![j] = "executing"]
             /\ workers' = [workers EXCEPT ![j] = "submitted"]
    <3>1. ThreadsOK("executing", cancels[j], "submitted", killers[j].at)
      BY <1>2, <2>1 DEF ThreadsOK
    <3>2. workers[j] = "none"
      BY <1>2, <2>1 DEF ThreadsOK
    <3>3. /\ UNCHANGED <<boxes, inputs, active>>
          /\ cancels' = [cancels EXCEPT ![j] = cancels[j]]
          /\ killers' = [killers EXCEPT ![j] = killers[j]]
      BY <1>1, <1>5 DEF Archived
    <3>4. "executing" \in TaskStates /\ "submitted" \in WorkerStates
          /\ {"submitted", workers[j]} \subseteq {"none", "submitted"}
      BY <3>2 DEF TaskStates, WorkerStates
    <3>5. QED
      BY <1>1, <2>1, <2>2, <3>1, <3>3, <3>4, CoroutineStep, ZenonT(30)
  <2>3. CASE tasks' = [tasks EXCEPT ![j] = "over"] /\ UNCHANGED workers
    <3>1. ThreadsOK("over", cancels[j], workers[j], killers[j].at)
      BY <1>2, <2>1 DEF ThreadsOK
    <3>2. QED
      BY <1>1, <1>5, <2>3, <3>1, <1>3 DEF Archived, TaskStates
  <2>4. QED
    BY <1>5, <2>2, <2>3 DEF Archived
<1>6. CASE Returned(j)
  <2>1. ThreadsOK("uploading", cancels[j], workers[j], killers[j].at) /\ j \in InExecutor
    BY <1>2, <1>6 DEF Returned, ThreadsOK, InExecutor
  <2>2. QED
    BY <1>1, <1>6, <2>1, <1>3 DEF Returned, TaskStates
<1>7. CASE Uploaded(j)
  <2>1. ThreadsOK("over", cancels[j], workers[j], killers[j].at)
    BY <1>2, <1>7 DEF Uploaded, ThreadsOK
  <2>2. QED
    BY <1>1, <1>7, <2>1, <1>3 DEF Uploaded, TaskStates
<1>8. CASE CancelDone(j)
  <2>1. ThreadsOK("over", cancels[j], workers[j], killers[j].at)
    BY <1>1, <1>2, <1>8 DEF CancelDone, ThreadsOK
  <2>2. QED
    BY <1>1, <1>8, <2>1, <1>3 DEF CancelDone, TaskStates
<1>9. CASE Cancelled(j) /\ tasks[j] = "executing"
  <2> DEFINE w == IF workers[j] = "submitted" THEN "none" ELSE workers[j]
             k == [killers[j] EXCEPT !.at = "submitted"]
             c == cancels[j] + 1
  <2>1. /\ tasks' = [tasks EXCEPT ![j] = "killing"]
        /\ cancels' = [cancels EXCEPT ![j] = c]
        /\ workers' = [workers EXCEPT ![j] = w] /\ killers' = [killers EXCEPT ![j] = k]
        /\ UNCHANGED <<boxes, inputs, active>> /\ cancels[j] < MaxCancels /\ j \in InExecutor
    BY <1>9 DEF Cancelled
  <2>2. killers[j].at = "none"
    BY <1>2, <1>9 DEF ThreadsOK
  <2>3. k \in KillerRow /\ k.at = "submitted"
    BY <1>1, <2>2 DEF KillerRow
  <2>4. w \in WorkerStates /\ c \in 0 .. MaxCancels /\ c > 0
    BY <1>1, <2>1 DEF WorkerStates
  <2>5. w = workers[j] \/ {w, workers[j]} \subseteq {"none", "submitted"}
    OBVIOUS
  <2>6. ThreadsOK("killing", c, w, k.at)
    BY <2>4 DEF ThreadsOK
  <2> HIDE DEF w, k, c
  <2>7. QED
    BY <2>1, <2>3, <2>4, <2>5, <2>6, CoroutineStep DEF TaskStates
<1>10. CASE Cancelled(j) /\ tasks[j] # "executing"
  <2> DEFINE c == cancels[j] + 1
  <2>1. /\ tasks' = [tasks EXCEPT ![j] = "over"]
        /\ cancels' = [cancels EXCEPT ![j] = c]
        /\ workers' = workers /\ killers' = killers
        /\ UNCHANGED <<boxes, inputs, active>> /\ cancels[j] < MaxCancels /\ j \in InExecutor
    BY <1>10 DEF Cancelled
  <2>2. c \in 0 .. MaxCancels /\ c > 0
    BY <1>1, <2>1
  <2>3. ThreadsOK("over", c, workers[j], killers[j].at)
    <3>1. tasks[j] \in {"archiving", "killing", "uploading"}
      BY <1>1, <1>10, <2>1 DEF InExecutor, TaskStates
    <3>2. tasks[j] = "killing" => c > 1
      BY <1>1, <1>2 DEF ThreadsOK
    <3>3. QED
      BY <1>2, <2>2, <3>1, <3>2 DEF ThreadsOK
  <2>4. "over" \in TaskStates /\ workers' = [workers EXCEPT ![j] = workers[j]]
        /\ killers' = [killers EXCEPT ![j] = killers[j]]
    BY <1>1, <2>1 DEF TaskStates
  <2> HIDE DEF c
  <2>5. QED
    BY <1>1, <2>1, <2>2, <2>3, <2>4, CoroutineStep, ZenonT(30)
<1>11. QED
  BY <1>4, <1>5, <1>6, <1>7, <1>8, <1>9, <1>10 DEF Coroutine

LEMMA KillerStep ==
  ASSUME IInv, NEW j \in Jobs, Killer(j) \/ Program(j)
  PROVE  IInv'
<1>1. /\ tasks[j] \in TaskStates /\ workers[j] \in WorkerStates
      /\ cancels[j] \in 0 .. MaxCancels /\ killers[j] \in KillerRow
      /\ tasks = [tasks EXCEPT ![j] = tasks[j]]
      /\ workers = [workers EXCEPT ![j] = workers[j]]
      /\ cancels = [cancels EXCEPT ![j] = cancels[j]]
      /\ active \in Jobs \cup {None} /\ boxes \in [Jobs -> BoxStates]
      /\ killers \in [Jobs -> KillerRow]
  BY DEF IInv, TypeOK
<1>2. ThreadsOK(tasks[j], cancels[j], workers[j], killers[j].at)
  BY DEF IInv, JobOK
<1>3. tasks[j] \in {"queued", "over"} \/ j \in InExecutor
  BY DEF InExecutor
<1>4. ASSUME NEW k \in KillerRow, killers' = [killers EXCEPT ![j] = k],
             killers[j].at \in {"submitted", "killing"}, k.at \in {"killing", "ended"},
             UNCHANGED <<tasks, cancels, workers, boxes, inputs, active>>
      PROVE  IInv'
  <2>1. ThreadsOK(tasks[j], cancels[j], workers[j], k.at)
    BY <1>2, <1>4 DEF ThreadsOK
  <2>2. /\ tasks' = [tasks EXCEPT ![j] = tasks[j]]
        /\ workers' = [workers EXCEPT ![j] = workers[j]]
        /\ cancels' = [cancels EXCEPT ![j] = cancels[j]]
    BY <1>1, <1>4
  <2>3. QED
    BY <1>1, <1>3, <1>4, <2>1, <2>2, CoroutineStep, ZenonT(30)
<1>5. CASE ReadActive(j)
  <2> DEFINE k == [at |-> IF active = None THEN "ended" ELSE "killing", target |-> active]
  <2>1. k \in KillerRow /\ k.at \in {"killing", "ended"}
    BY <1>1 DEF KillerRow
  <2>2. QED
    BY <1>4, <1>5, <2>1 DEF ReadActive
<1>6. CASE KillActive(j)
  <2> DEFINE k == [killers[j] EXCEPT !.at = "ended"]
             target == killers[j].target
  <2>1. /\ killers[j].at = "killing" /\ killers' = [killers EXCEPT ![j] = k]
        /\ boxes' = Killed(target) /\ UNCHANGED <<tasks, cancels, workers, inputs, active>>
    BY <1>6 DEF KillActive
  <2>2. k \in KillerRow /\ k.at = "ended" /\ target \in Jobs
    BY <1>1, <2>1 DEF KillerRow
  <2>3. CASE target \in Running
    <3>1. killers' \in [Jobs -> KillerRow]
      BY <1>1, <2>1, <2>2
    <3>2. \A i \in Jobs : /\ killers'[i].at \in {killers[i].at, "ended"}
                          /\ killers[i].at = "none" => killers'[i].at = "none"
      BY <1>1, <2>1, <2>2
    <3>3. boxes' = [boxes EXCEPT ![target] = "exited"]
      BY <2>1, <2>3 DEF Killed
    <3> HIDE DEF k, target
    <3>4. QED
      BY <2>1, <2>3, <3>1, <3>2, <3>3, BoxStep
  <2>4. CASE target \notin Running
    <3>1. boxes' = boxes
      BY <2>1, <2>4 DEF Killed
    <3> HIDE DEF k, target
    <3>2. QED
      BY <1>4, <2>1, <2>2, <3>1
  <2>5. QED
    BY <2>3, <2>4
<1>7. CASE Program(j)
  <2>1. PICK s \in {"published", "exited"} : boxes' = [boxes EXCEPT ![j] = s]
    BY <1>7 DEF Program
  <2>2. j \in Running /\ UNCHANGED <<tasks, cancels, workers, inputs, killers, active>>
    BY <1>7 DEF Program
  <2>3. QED
    BY <1>1, <2>1, <2>2, BoxStep
<1>8. QED
  BY <1>5, <1>6, <1>7 DEF Killer

LEMMA InitInvariant == Init => IInv
BY DEF Init, IInv, TypeOK, TaskStates, WorkerStates, BoxStates, KillerRow, OneInExecutor,
       InExecutor, JobOK, ThreadsOK, DockerOK, WithBox

LEMMA StepInvariant == IInv /\ [Next]_vars => IInv'
<1> SUFFICES ASSUME IInv, [Next]_vars PROVE IInv'
  OBVIOUS
<1>1. CASE UNCHANGED vars
  BY <1>1 DEF vars, IInv, TypeOK, OneInExecutor, InExecutor, JobOK
<1>2. QED
  BY <1>1, TaskStep, WorkStep, KillerStep DEF Next

-------------------------------------------------------------------------------
(* At most one coroutine is in the executor, and the threads and Docker    *)
(* objects of every job are those its coroutine accounts for: the          *)
(* inductive invariant of everything below.                                *)
THEOREM ThreadsAccounted == Spec => []IInv
<1>1. QED
  BY InitInvariant, StepInvariant, PTL DEF Spec

(* Coroutines, threads and Docker objects keep their shape; in particular  *)
(* a thread about to kill has read a job, never None.                      *)
THEOREM TypeCorrect == Spec => []TypeOK
<1>1. IInv => TypeOK
  BY DEF IInv
<1>2. QED
  BY <1>1, ThreadsAccounted, PTL

(* Whatever step of an execution fails, a coroutine nobody cancelled ends  *)
(* with its container, stager and volume removed.                          *)
THEOREM UncancelledCleansUp == Spec => []UncancelledLeavesNothing
<1>1. ASSUME IInv PROVE UncancelledLeavesNothing
  <2> SUFFICES ASSUME NEW j \in Jobs, tasks[j] = "over", cancels[j] = 0
               PROVE  boxes[j] = "absent" /\ inputs[j] = {} /\ active # j
    BY DEF UncancelledLeavesNothing
  <2>1. workers[j] \in {"none", "ended"}
    BY <1>1 DEF IInv, JobOK, ThreadsOK
  <2>2. QED
    BY <1>1, <2>1 DEF IInv, JobOK, DockerOK, WithBox
<1>2. QED
  BY <1>1, ThreadsAccounted, PTL

(* The coroutine of a running container is executing, or was cancelled.    *)
LEMMA RunningAccounted ==
  ASSUME IInv, NEW j \in Running
  PROVE  /\ j \in Jobs
         /\ tasks[j] \in {"executing", "killing"} \/ (tasks[j] = "over" /\ cancels[j] > 0)
         /\ cancels[j] = 0 => tasks[j] = "executing"
<1>1. j \in Jobs /\ workers[j] \in WithBox
  BY DEF Running, IInv, JobOK, DockerOK
<1>2. /\ tasks[j] \in TaskStates /\ cancels[j] \in Nat
      /\ ThreadsOK(tasks[j], cancels[j], workers[j], killers[j].at)
  BY <1>1 DEF IInv, TypeOK, JobOK
<1>3. /\ tasks[j] \in {"executing", "killing", "over"}
      /\ tasks[j] = "over" \/ tasks[j] = "killing" => cancels[j] # 0
  BY <1>1, <1>2 DEF ThreadsOK, WithBox, TaskStates
<1>4. cancels[j] # 0 => cancels[j] > 0
  BY <1>2
<1>5. QED
  BY <1>1, <1>3, <1>4, Zenon

(* Two containers share the GPU only when one of them was left behind by a *)
(* cancelled coroutine.                                                    *)
THEOREM OnlyOrphansShare == Spec => []OnlyOrphansOverlap
<1>1. ASSUME IInv PROVE OnlyOrphansOverlap
  <2> SUFFICES ASSUME NEW j \in Running, NEW k \in Running, j # k,
                      ~ (tasks[j] = "over" /\ cancels[j] > 0),
                      ~ (tasks[k] = "over" /\ cancels[k] > 0)
               PROVE  FALSE
    BY DEF OnlyOrphansOverlap
  <2>1. j \in InExecutor /\ k \in InExecutor
    BY <1>1, RunningAccounted DEF InExecutor
  <2>2. QED
    BY <1>1, <2>1 DEF IInv, OneInExecutor
<1>2. QED
  BY <1>1, ThreadsAccounted, PTL

(* The thread of one cancellation endangers the container of a job nobody  *)
(* cancelled only if its own coroutine was cancelled a second time, while  *)
(* it waited for that thread.                                              *)
THEOREM StrayKillsNeedTwoCancels == Spec => []StrayKillsAreRepeated
<1>1. ASSUME IInv PROVE StrayKillsAreRepeated
  <2> SUFFICES ASSUME NEW j \in Jobs, killers[j].at = "killing",
                      NEW k \in Running \ {j}, k = killers[j].target, ~ (cancels[k] > 0)
               PROVE  cancels[j] > 1
    BY DEF StrayKillsAreRepeated
  <2>1. cancels[k] = 0
    BY <1>1, RunningAccounted DEF IInv, TypeOK
  <2>2. k \in InExecutor
    BY <1>1, <2>1, RunningAccounted DEF InExecutor
  <2>3. j \notin InExecutor
    BY <1>1, <2>2 DEF IInv, OneInExecutor
  <2>4. tasks[j] = "over"
    BY <1>1, <2>3 DEF InExecutor, IInv, JobOK, ThreadsOK
  <2>5. QED
    BY <1>1, <2>4 DEF IInv, JobOK, ThreadsOK
<1>2. QED
  BY <1>1, ThreadsAccounted, PTL

-------------------------------------------------------------------------------
(***************************************************************************)
(* LegacyServers: the compile server.                                      *)
(***************************************************************************)

CallerRow == [at : {"idle", "compiling", "uploading", "waiting", "done", "failed"},
              persistent : BOOLEAN, attempt : {0, 1}]
BuilderRow == [job : Callers, at : {"configuring", "making"}] \cup {Idle}
DirRow == [sources : Callers \cup {Nobody}, build : {"absent", "made", "configured"}]

CompileTypes ==
    /\ caller \in [Callers -> CallerRow]
    /\ compiles \in Seq(Callers)
    /\ builder \in [Builders -> BuilderRow]
    /\ dir \in [Dirs -> DirRow]
    /\ output \in [Callers -> Callers \cup {Nobody}]

Busy(b) == builder[b] # Idle

(* A caller's source is queued, or in the hands of one builder, once. *)
QueuedOnce == \A j, k \in 1 .. Len(compiles) : compiles[j] = compiles[k] => j = k
QueuedOrBuilding ==
    \A b \in Builders, k \in 1 .. Len(compiles) : Busy(b) => builder[b].job # compiles[k]
BuiltOnce == \A b, d \in Builders : Busy(b) /\ Busy(d) /\ builder[b].job = builder[d].job => b = d
IdleNeverAsked ==
    \A c \in Callers : caller[c].at = "idle" =>
        /\ \A k \in 1 .. Len(compiles) : compiles[k] # c
        /\ \A b \in Builders : Busy(b) => builder[b].job # c

(* What a builder builds is what its directory holds. *)
OwnSources == \A b \in Builders : Busy(b) => dir[WorkDir(b, builder[b].job)].sources = builder[b].job

CompileInv ==
    /\ CompileTypes
    /\ QueuedOnce /\ QueuedOrBuilding /\ BuiltOnce /\ IdleNeverAsked
    /\ OwnSources /\ OutputIsOfItsSource

LEMMA BuilderFacts ==
    ASSUME CompileTypes, NEW b \in Builders
    PROVE  /\ Busy(b) => builder[b].job \in Callers /\ builder[b].at \in {"configuring", "making"}
           /\ Idle.at = "idle" /\ Idle.job = Nobody /\ Nobody \notin Callers
           /\ Busy(b) <=> builder[b].at # "idle"
<1>1. builder[b] \in BuilderRow
  BY DEF CompileTypes
<1>2. Idle.at = "idle" /\ Idle.job = Nobody /\ Nobody \notin Callers
  BY NamesAssumption DEF Idle
<1>3. ASSUME Busy(b) PROVE builder[b].job \in Callers /\ builder[b].at \in {"configuring", "making"}
  BY <1>1, <1>3 DEF Busy, BuilderRow
<1> QED BY <1>2, <1>3 DEF Busy

(* Two directories differ that two builders use for different callers. *)
LEMMA DirsDiffer ==
    ASSUME NEW b \in Builders, NEW d \in Builders, b # d,
           NEW c \in Callers, NEW e \in Callers, c # e
    PROVE  WorkDir(b, c) # WorkDir(d, e)
BY NamesAssumption DEF WorkDir

LEMMA WorkDirs ==
    ASSUME NEW b \in Builders, NEW c \in Callers
    PROVE  WorkDir(b, c) \in Dirs
BY DEF WorkDir, Dirs

LEMMA SameRows ==
    ASSUME caller \in [Callers -> CallerRow], NEW c \in Callers,
           NEW at \in {"compiling", "uploading", "waiting", "done", "failed"}, Call(c, at)
    PROVE  /\ caller' \in [Callers -> CallerRow]
           /\ \A e \in Callers : /\ caller'[e].persistent = caller[e].persistent
                                 /\ caller'[e].attempt = caller[e].attempt
                                 /\ caller'[e].at = IF e = c THEN at ELSE caller[e].at
<1>1. caller \in [Callers -> CallerRow] /\ caller[c] \in CallerRow
  OBVIOUS
<1>2. caller' = [caller EXCEPT ![c] = [caller[c] EXCEPT !.at = at]]
  BY DEF Call
<1>3. /\ [caller[c] EXCEPT !.at = at] \in CallerRow
      /\ [caller[c] EXCEPT !.at = at].at = at
      /\ [caller[c] EXCEPT !.at = at].persistent = caller[c].persistent
      /\ [caller[c] EXCEPT !.at = at].attempt = caller[c].attempt
  BY <1>1 DEF CallerRow
<1> QED BY <1>1, <1>2, <1>3

(* Callers that move on after they asked disturb no build. *)
LEMMA CallersMove ==
    ASSUME CompileInv, UNCHANGED <<compiles, builder, dir, output>>,
           caller' \in [Callers -> CallerRow],
           \A c \in Callers : /\ caller'[c].persistent = caller[c].persistent
                              /\ caller'[c].at = "idle" => caller[c].at = "idle"
    PROVE  CompileInv'
<1>1. CompileTypes'
  BY DEF CompileInv, CompileTypes
<1>2. \A b \in Builders : Busy(b)' = Busy(b) /\ builder'[b] = builder[b]
  BY DEF Busy
<1>3. OwnSources'
  <2> SUFFICES ASSUME NEW b \in Builders, Busy(b)
               PROVE  (dir[WorkDir(b, builder[b].job)].sources = builder[b].job)'
    BY <1>2 DEF OwnSources
  <2>1. builder[b].job \in Callers
    BY BuilderFacts DEF CompileInv
  <2>2. WorkDir(b, builder[b].job)' = WorkDir(b, builder[b].job)
    BY <2>1 DEF WorkDir
  <2> QED BY <2>2 DEF CompileInv, OwnSources
<1>4. QueuedOnce' /\ QueuedOrBuilding' /\ BuiltOnce'
  BY <1>2 DEF CompileInv, QueuedOnce, QueuedOrBuilding, BuiltOnce
<1>5. IdleNeverAsked'
  BY <1>2 DEF CompileInv, IdleNeverAsked
<1>6. OutputIsOfItsSource'
  BY DEF CompileInv, OutputIsOfItsSource
<1> QED BY <1>1, <1>3, <1>4, <1>5, <1>6 DEF CompileInv

LEMMA RequestCompileKeeps ==
    ASSUME CompileInv, NEW c \in Callers, RequestCompile(c)
    PROVE  CompileInv'
<1>1. PICK persistent \in BOOLEAN :
        caller' = [caller EXCEPT ![c] = [caller[c] EXCEPT !.at = "compiling", !.persistent = persistent]]
  <2>1. PICK persistent \in {FALSE, (c \in Keeping)} :
          caller' = [caller EXCEPT ![c].at = "compiling", ![c].persistent = persistent]
    BY DEF RequestCompile
  <2>2. persistent \in BOOLEAN
    <3>1. (c \in Keeping) \in BOOLEAN
      BY SMT
    <3>2. persistent = FALSE \/ persistent = (c \in Keeping)
      OBVIOUS
    <3> QED BY <3>1, <3>2
  <2>3. caller \in [Callers -> CallerRow]
    BY DEF CompileInv, CompileTypes
  <2>4. caller' = [caller EXCEPT ![c] = [caller[c] EXCEPT !.at = "compiling", !.persistent = persistent]]
    BY <2>1, <2>3
  <2> QED BY <2>2, <2>4
<1>2. /\ caller[c].at = "idle" /\ compiles' = Append(compiles, c)
      /\ UNCHANGED <<builder, dir, output>>
  BY DEF RequestCompile
<1>3. /\ caller \in [Callers -> CallerRow] /\ caller[c] \in CallerRow
      /\ compiles \in Seq(Callers) /\ builder \in [Builders -> BuilderRow]
  BY DEF CompileInv, CompileTypes
<1> DEFINE row == [caller[c] EXCEPT !.at = "compiling", !.persistent = persistent]
<1>4. row \in CallerRow /\ row.at = "compiling"
  BY <1>3 DEF CallerRow
<1> HIDE DEF row
<1>5. /\ caller' \in [Callers -> CallerRow] /\ caller'[c].at = "compiling"
      /\ \A e \in Callers \ {c} : caller'[e] = caller[e]
  BY <1>1, <1>3, <1>4 DEF row
<1>6. /\ compiles' \in Seq(Callers) /\ Len(compiles') = Len(compiles) + 1
      /\ \A k \in 1 .. Len(compiles) : compiles'[k] = compiles[k]
      /\ compiles'[Len(compiles) + 1] = c /\ Len(compiles) \in Nat
  BY <1>2, <1>3
<1>7. /\ \A k \in 1 .. Len(compiles) : compiles[k] # c
      /\ \A b \in Builders : Busy(b) => builder[b].job # c
  BY <1>2 DEF CompileInv, IdleNeverAsked
<1>8. \A b \in Builders : Busy(b)' = Busy(b) /\ builder'[b] = builder[b]
  BY <1>2 DEF Busy
<1>9. CompileTypes'
  BY <1>2, <1>5, <1>6 DEF CompileInv, CompileTypes
<1>10. QueuedOnce'
  BY <1>6, <1>7 DEF CompileInv, QueuedOnce
<1>11. QueuedOrBuilding'
  BY <1>6, <1>7, <1>8 DEF CompileInv, QueuedOrBuilding
<1>12. BuiltOnce'
  BY <1>8 DEF CompileInv, BuiltOnce
<1>13. IdleNeverAsked'
  BY <1>5, <1>6, <1>8 DEF CompileInv, IdleNeverAsked
<1>14. OwnSources'
  <2> SUFFICES ASSUME NEW b \in Builders, Busy(b)
               PROVE  (dir[WorkDir(b, builder[b].job)].sources = builder[b].job)'
    BY <1>8 DEF OwnSources
  <2>1. builder[b].job \in Callers \ {c}
    BY <1>7, BuilderFacts DEF CompileInv
  <2>2. WorkDir(b, builder[b].job)' = WorkDir(b, builder[b].job)
    BY <1>5, <1>8, <2>1 DEF WorkDir
  <2> QED BY <1>2, <1>8, <2>2 DEF CompileInv, OwnSources
<1>15. OutputIsOfItsSource'
  BY <1>2 DEF CompileInv, OutputIsOfItsSource
<1> QED BY <1>9, <1>10, <1>11, <1>12, <1>13, <1>14, <1>15 DEF CompileInv

(* A builder takes the first request and writes its sources. *)
LEMMA StartBuildKeeps ==
    ASSUME CompileInv, NEW b \in Builders, StartBuild(b)
    PROVE  CompileInv'
<1> DEFINE c == Head(compiles)
           d == WorkDir(b, c)
<1>1. /\ builder[b] = Idle /\ compiles # <<>> /\ compiles' = Tail(compiles)
      /\ UNCHANGED <<caller, output>>
  BY DEF StartBuild
<1>2. compiles \in Seq(Callers) /\ builder \in [Builders -> BuilderRow] /\ dir \in [Dirs -> DirRow]
  BY DEF CompileInv, CompileTypes
<1>3. /\ c \in Callers /\ Len(compiles) \in Nat /\ Len(compiles) >= 1 /\ c = compiles[1]
      /\ compiles' \in Seq(Callers) /\ Len(compiles') = Len(compiles) - 1
      /\ \A k \in 1 .. Len(compiles') : compiles'[k] = compiles[k + 1]
  BY <1>1, <1>2
<1>4. \E at \in {"configuring", "making"} : builder' = [builder EXCEPT ![b] = [job |-> c, at |-> at]]
  BY DEF StartBuild
<1>5. \E build \in {dir[d].build, "made"} :
        dir' = [dir EXCEPT ![d] = [[dir[d] EXCEPT !.sources = c] EXCEPT !.build = build]]
  <2>1. d \in Dirs
    BY <1>3, WorkDirs
  <2>2. dir' = [[dir EXCEPT ![d].sources = c] EXCEPT ![d].build =
                   IF dir[d].build = "absent" THEN "made" ELSE @]
    BY DEF StartBuild, WithSources
  <2> DEFINE row == [dir[d] EXCEPT !.sources = c]
  <2>3. row.build = dir[d].build
    BY <1>2, <2>1 DEF DirRow
  <2>4. [dir EXCEPT ![d].sources = c] = [dir EXCEPT ![d] = row]
    OBVIOUS
  <2> HIDE DEF row, d, c
  <2>5. dir' = [dir EXCEPT ![d] = [row EXCEPT !.build = IF dir[d].build = "absent" THEN "made" ELSE row.build]]
    BY <1>2, <2>1, <2>2, <2>4
  <2> QED BY <2>3, <2>5 DEF row
<1> HIDE DEF c
<1>6. /\ builder' \in [Builders -> BuilderRow] /\ builder'[b].job = c /\ Busy(b)'
      /\ \A e \in Builders \ {b} : builder'[e] = builder[e] /\ Busy(e)' = Busy(e)
  BY <1>2, <1>3, <1>4 DEF BuilderRow, Busy, Idle
<1>7. d \in Dirs
  BY <1>3, WorkDirs
<1> HIDE DEF d
<1>8. /\ dir' \in [Dirs -> DirRow] /\ dir'[d].sources = c
      /\ \A e \in Dirs \ {d} : dir'[e] = dir[e]
  <2>1. PICK build \in {dir[d].build, "made"} :
          dir' = [dir EXCEPT ![d] = [[dir[d] EXCEPT !.sources = c] EXCEPT !.build = build]]
    BY <1>5
  <2> DEFINE row == [[dir[d] EXCEPT !.sources = c] EXCEPT !.build = build]
  <2>2. row \in DirRow /\ row.sources = c
    BY <1>2, <1>3, <1>7 DEF DirRow
  <2> HIDE DEF row
  <2> QED BY <1>2, <1>7, <2>1, <2>2 DEF row
<1>9. CompileTypes'
  BY <1>1, <1>3, <1>6, <1>8 DEF CompileInv, CompileTypes
<1>10. QueuedOnce'
  BY <1>3 DEF CompileInv, QueuedOnce
<1>11. QueuedOrBuilding'
  <2> SUFFICES ASSUME NEW e \in Builders, NEW k \in 1 .. Len(compiles'), Busy(e)'
               PROVE  builder'[e].job # compiles'[k]
    BY DEF QueuedOrBuilding
  <2>1. k + 1 \in 1 .. Len(compiles) /\ compiles'[k] = compiles[k + 1]
    BY <1>3
  <2>2. CASE e = b
    BY <1>3, <1>6, <2>1, <2>2 DEF CompileInv, QueuedOnce
  <2>3. CASE e # b
    BY <1>6, <2>1, <2>3 DEF CompileInv, QueuedOrBuilding
  <2> QED BY <2>2, <2>3
<1>12. \A e \in Builders \ {b} : Busy(e) => builder[e].job # c
  BY <1>3 DEF CompileInv, QueuedOrBuilding
<1>13. BuiltOnce'
  BY <1>6, <1>12 DEF CompileInv, BuiltOnce
<1>14. IdleNeverAsked'
  <2> SUFFICES ASSUME NEW x \in Callers, caller'[x].at = "idle"
               PROVE  /\ \A k \in 1 .. Len(compiles') : compiles'[k] # x
                      /\ \A e \in Builders : Busy(e)' => builder'[e].job # x
    BY DEF IdleNeverAsked
  <2>1. /\ \A k \in 1 .. Len(compiles) : compiles[k] # x
        /\ \A e \in Builders : Busy(e) => builder[e].job # x
    BY <1>1 DEF CompileInv, IdleNeverAsked
  <2>2. c # x
    BY <1>3, <2>1
  <2>3. \A k \in 1 .. Len(compiles') : compiles'[k] # x
    BY <1>3, <2>1
  <2> QED BY <1>6, <2>1, <2>2, <2>3
<1>15. OwnSources'
  <2> SUFFICES ASSUME NEW e \in Builders, Busy(e)'
               PROVE  (dir[WorkDir(e, builder[e].job)].sources = builder[e].job)'
    BY DEF OwnSources
  <2>1. \A x \in Callers : WorkDir(e, x)' = WorkDir(e, x)
    BY <1>1 DEF WorkDir
  <2>2. CASE e = b
    BY <1>3, <1>6, <1>8, <2>1, <2>2 DEF d
  <2>3. CASE e # b
    <3>1. /\ Busy(e) /\ builder'[e] = builder[e] /\ builder[e].job \in Callers
          /\ builder[e].job # c
      BY <1>6, <1>12, <2>3, BuilderFacts DEF CompileInv
    <3>2. WorkDir(e, builder[e].job) \in Dirs \ {d}
      BY <1>3, <2>3, <3>1, DirsDiffer, WorkDirs DEF d
    <3>3. dir[WorkDir(e, builder[e].job)].sources = builder[e].job
      BY <3>1 DEF CompileInv, OwnSources
    <3> QED BY <1>8, <2>1, <3>1, <3>2, <3>3
  <2> QED BY <2>2, <2>3
<1>16. OutputIsOfItsSource'
  BY <1>1 DEF CompileInv, OutputIsOfItsSource
<1> QED BY <1>9, <1>10, <1>11, <1>13, <1>14, <1>15, <1>16 DEF CompileInv

(* Builds that go on keep their jobs, and directories their sources. *)
LEMMA BuildsGoOn ==
    ASSUME CompileInv, UNCHANGED <<caller, compiles, output>>,
           builder' \in [Builders -> BuilderRow], dir' \in [Dirs -> DirRow],
           \A e \in Builders : Busy(e)' = Busy(e) /\ builder'[e].job = builder[e].job,
           \A e \in Dirs : dir'[e].sources = dir[e].sources
    PROVE  CompileInv'
<1>1. CompileTypes'
  BY DEF CompileInv, CompileTypes
<1>2. QueuedOnce' /\ QueuedOrBuilding' /\ BuiltOnce'
  BY DEF CompileInv, QueuedOnce, QueuedOrBuilding, BuiltOnce
<1>3. IdleNeverAsked'
  BY DEF CompileInv, IdleNeverAsked
<1>4. OwnSources'
  <2> SUFFICES ASSUME NEW b \in Builders, Busy(b)
               PROVE  (dir[WorkDir(b, builder[b].job)].sources = builder[b].job)'
    BY DEF OwnSources
  <2>1. builder[b].job \in Callers /\ builder'[b].job = builder[b].job
    BY BuilderFacts DEF CompileInv
  <2>2. WorkDir(b, builder[b].job)' = WorkDir(b, builder[b].job)
    BY <2>1 DEF WorkDir
  <2>3. WorkDir(b, builder[b].job) \in Dirs
    BY <2>1, WorkDirs
  <2> QED BY <2>1, <2>2, <2>3 DEF CompileInv, OwnSources
<1>5. OutputIsOfItsSource'
  BY DEF CompileInv, OutputIsOfItsSource
<1> QED BY <1>1, <1>2, <1>3, <1>4, <1>5 DEF CompileInv

LEMMA ConfiguredKeeps ==
    ASSUME CompileInv, NEW b \in Builders, Configured(b)
    PROVE  CompileInv'
<1> DEFINE c == builder[b].job
           d == WorkDir(b, c)
<1>1. /\ builder[b].at = "configuring"
      /\ builder' = [builder EXCEPT ![b].at = "making"]
      /\ dir' = [dir EXCEPT ![d].build = "configured"]
      /\ UNCHANGED <<caller, compiles, output>>
  BY DEF Configured
<1>2. /\ builder \in [Builders -> BuilderRow] /\ dir \in [Dirs -> DirRow]
      /\ Busy(b) /\ c \in Callers /\ d \in Dirs
  BY <1>1, BuilderFacts, WorkDirs DEF CompileInv, CompileTypes
<1>3. /\ builder' \in [Builders -> BuilderRow]
      /\ \A e \in Builders : Busy(e)' = Busy(e) /\ builder'[e].job = builder[e].job
  <2> DEFINE row == [builder[b] EXCEPT !.at = "making"]
  <2>1. builder[b] \in [job : Callers, at : {"configuring", "making"}]
    BY <1>2 DEF BuilderRow, Busy
  <2>2. row \in BuilderRow /\ row # Idle /\ row.job = c
    BY <2>1 DEF BuilderRow, Idle
  <2>3. builder' = [builder EXCEPT ![b] = row]
    BY <1>1
  <2> HIDE DEF row
  <2>4. builder' \in [Builders -> BuilderRow] /\ builder'[b] = row
        /\ \A e \in Builders \ {b} : builder'[e] = builder[e]
    BY <1>2, <2>2, <2>3
  <2> QED BY <1>2, <2>2, <2>4 DEF Busy
<1> HIDE DEF c, d
<1>4. /\ dir' \in [Dirs -> DirRow]
      /\ \A e \in Dirs : dir'[e].sources = dir[e].sources
  <2> DEFINE row == [dir[d] EXCEPT !.build = "configured"]
  <2>1. row \in DirRow /\ row.sources = dir[d].sources
    BY <1>2 DEF DirRow
  <2>2. dir' = [dir EXCEPT ![d] = row]
    BY <1>1
  <2> HIDE DEF row
  <2> QED BY <1>2, <2>1, <2>2
<1> QED BY <1>1, <1>3, <1>4, BuildsGoOn

LEMMA EndOfBuild ==
    ASSUME CompileInv, NEW b \in Builders, builder' = [builder EXCEPT ![b] = Idle],
           UNCHANGED <<compiles, dir>>, output' \in [Callers -> Callers \cup {Nobody}],
           OutputIsOfItsSource',
           caller' \in [Callers -> CallerRow],
           \A c \in Callers : /\ caller'[c].persistent = caller[c].persistent
                              /\ caller'[c].at = "idle" => caller[c].at = "idle"
    PROVE  CompileInv'
<1>1. builder \in [Builders -> BuilderRow] /\ Idle \in BuilderRow
  BY DEF CompileInv, CompileTypes, BuilderRow
<1>2. /\ builder' \in [Builders -> BuilderRow]
      /\ \A e \in Builders : Busy(e)' => Busy(e) /\ builder'[e] = builder[e]
  BY <1>1 DEF Busy
<1>3. CompileTypes'
  BY <1>2 DEF CompileInv, CompileTypes
<1>4. QueuedOnce' /\ QueuedOrBuilding' /\ BuiltOnce'
  BY <1>2 DEF CompileInv, QueuedOnce, QueuedOrBuilding, BuiltOnce
<1>5. IdleNeverAsked'
  BY <1>2 DEF CompileInv, IdleNeverAsked
<1>6. OwnSources'
  <2> SUFFICES ASSUME NEW e \in Builders, Busy(e), builder'[e] = builder[e]
               PROVE  (dir[WorkDir(e, builder[e].job)].sources = builder[e].job)'
    BY <1>2 DEF OwnSources
  <2>1. builder[e].job \in Callers
    BY BuilderFacts DEF CompileInv
  <2>2. WorkDir(e, builder[e].job)' = WorkDir(e, builder[e].job)
    BY <2>1 DEF WorkDir
  <2> QED BY <2>2 DEF CompileInv, OwnSources
<1> QED BY <1>3, <1>4, <1>5, <1>6 DEF CompileInv

(* The answer a caller may still wait for moves nobody else. *)
LEMMA AnsweredMoves ==
    ASSUME CompileInv, NEW c \in Callers, NEW at \in {"uploading", "failed"}, Answered(c, at)
    PROVE  /\ caller' \in [Callers -> CallerRow]
           /\ \A e \in Callers : /\ caller'[e].persistent = caller[e].persistent
                                 /\ caller'[e].at = "idle" => caller[e].at = "idle"
<1>1. CompileTypes /\ caller \in [Callers -> CallerRow]
  BY DEF CompileInv, CompileTypes
<1>2. CASE UNCHANGED caller
  BY <1>1, <1>2
<1>3. CASE Call(c, at)
  BY <1>1, <1>3, SameRows
<1> QED BY <1>2, <1>3 DEF Answered

LEMMA ConfigureFailsKeeps ==
    ASSUME CompileInv, NEW b \in Builders, ConfigureFails(b)
    PROVE  CompileInv'
<1>1. /\ builder[b].at = "configuring" /\ builder' = [builder EXCEPT ![b] = Idle]
      /\ Answered(builder[b].job, "failed") /\ UNCHANGED <<compiles, dir, output>>
  BY DEF ConfigureFails
<1>2. builder[b].job \in Callers
  BY <1>1, BuilderFacts DEF CompileInv
<1>3. /\ caller' \in [Callers -> CallerRow]
      /\ \A e \in Callers : /\ caller'[e].persistent = caller[e].persistent
                            /\ caller'[e].at = "idle" => caller[e].at = "idle"
  BY <1>1, <1>2, AnsweredMoves
<1>4. output' \in [Callers -> Callers \cup {Nobody}] /\ OutputIsOfItsSource'
  BY <1>1 DEF CompileInv, CompileTypes, OutputIsOfItsSource
<1> QED BY <1>1, <1>3, <1>4, EndOfBuild

LEMMA MadeKeeps ==
    ASSUME CompileInv, NEW b \in Builders, Made(b)
    PROVE  CompileInv'
<1> DEFINE c == builder[b].job
<1>1. /\ builder[b].at = "making" /\ builder' = [builder EXCEPT ![b] = Idle]
      /\ UNCHANGED <<compiles, dir>>
      /\ \/ output' = [output EXCEPT ![c] = dir[WorkDir(b, c)].sources] /\ Answered(c, "uploading")
         \/ Answered(c, "failed") /\ UNCHANGED output
  BY DEF Made
<1>2. c \in Callers /\ Busy(b)
  BY <1>1, BuilderFacts DEF CompileInv
<1>3. dir[WorkDir(b, c)].sources = c
  BY <1>2 DEF CompileInv, OwnSources
<1> HIDE DEF c
<1>4. /\ caller' \in [Callers -> CallerRow]
      /\ \A e \in Callers : /\ caller'[e].persistent = caller[e].persistent
                            /\ caller'[e].at = "idle" => caller[e].at = "idle"
  BY <1>1, <1>2, AnsweredMoves
<1>5. output' \in [Callers -> Callers \cup {Nobody}] /\ OutputIsOfItsSource'
  <2>1. output \in [Callers -> Callers \cup {Nobody}] /\ OutputIsOfItsSource
    BY DEF CompileInv, CompileTypes
  <2>2. output' = [output EXCEPT ![c] = c] \/ output' = output
    BY <1>1, <1>3
  <2> QED BY <1>2, <2>1, <2>2 DEF OutputIsOfItsSource
<1> QED BY <1>1, <1>4, <1>5, EndOfBuild

(* A configuration that ends late changes no sources. *)
LEMMA ConfiguredLateKeeps ==
    ASSUME CompileInv, NEW d \in Dirs, ConfiguredLate(d)
    PROVE  CompileInv'
<1>1. /\ dir' = dir \/ dir' = [dir EXCEPT ![d].build = "configured"]
      /\ UNCHANGED <<caller, compiles, builder, output>>
  BY DEF ConfiguredLate
<1>2. dir \in [Dirs -> DirRow] /\ builder \in [Builders -> BuilderRow]
  BY DEF CompileInv, CompileTypes
<1>3. /\ dir' \in [Dirs -> DirRow]
      /\ \A e \in Dirs : dir'[e].sources = dir[e].sources
  <2> DEFINE row == [dir[d] EXCEPT !.build = "configured"]
  <2>1. row \in DirRow /\ row.sources = dir[d].sources
    BY <1>2 DEF DirRow
  <2>2. dir' = dir \/ dir' = [dir EXCEPT ![d] = row]
    BY <1>1
  <2> HIDE DEF row
  <2> QED BY <1>2, <2>1, <2>2
<1>4. /\ builder' \in [Builders -> BuilderRow]
      /\ \A e \in Builders : Busy(e)' = Busy(e) /\ builder'[e].job = builder[e].job
  BY <1>1, <1>2 DEF Busy
<1> QED BY <1>1, <1>3, <1>4, BuildsGoOn

LEMMA GiveUpMoves ==
    ASSUME CompileInv, NEW c \in Callers, GiveUp(c)
    PROVE  /\ caller' \in [Callers -> CallerRow]
           /\ \A e \in Callers : /\ caller'[e].persistent = caller[e].persistent
                                 /\ caller'[e].at = "idle" => caller[e].at = "idle"
<1>1. CompileTypes /\ caller \in [Callers -> CallerRow] /\ caller[c] \in CallerRow
  BY DEF CompileInv, CompileTypes
<1>2. CASE Call(c, "failed")
  BY <1>1, <1>2, SameRows
<1>3. CASE caller' = [caller EXCEPT ![c].at = "uploading", ![c].attempt = 1]
  <2> DEFINE row == [caller[c] EXCEPT !.at = "uploading", !.attempt = 1]
  <2>1. row \in CallerRow /\ row.persistent = caller[c].persistent /\ row.at = "uploading"
    BY <1>1 DEF CallerRow
  <2>2. caller' = [caller EXCEPT ![c] = row]
    BY <1>1, <1>3
  <2> HIDE DEF row
  <2> QED BY <1>1, <2>1, <2>2
<1> QED BY <1>2, <1>3 DEF GiveUp, Retry

LEMMA ExecutedMoves ==
    ASSUME CompileInv, NEW g \in Gpus, Executed(g)
    PROVE  /\ caller' \in [Callers -> CallerRow]
           /\ \A e \in Callers : /\ caller'[e].persistent = caller[e].persistent
                                 /\ caller'[e].at = "idle" => caller[e].at = "idle"
<1>1. CompileTypes /\ caller \in [Callers -> CallerRow]
  BY DEF CompileInv, CompileTypes
<1>2. PICK at \in {"done", "failed"} : Answer(worker[g], at)
  BY DEF Executed, CompleteFuture
<1>3. worker[g][1] \in Callers
  BY DEF Executed, Items
<1>4. CASE UNCHANGED caller
  BY <1>1, <1>4
<1>5. CASE Call(worker[g][1], at)
  BY <1>1, <1>3, <1>5, SameRows
<1> QED BY <1>2, <1>4, <1>5 DEF Answer

LEMMA CompileStep ==
    ASSUME CompileInv, [ServersNext]_serversVars
    PROVE  CompileInv'
<1>1. CompileTypes /\ caller \in [Callers -> CallerRow]
  BY DEF CompileInv, CompileTypes
<1>2. ASSUME NEW c \in Callers, Upload(c) PROVE CompileInv'
  <2>1. Call(c, "waiting") /\ UNCHANGED <<compiles, builder, dir, output>>
    BY <1>2 DEF Upload, compileVars
  <2> QED BY <1>1, <2>1, SameRows, CallersMove
<1>3. ASSUME NEW c \in Callers, GiveUp(c) PROVE CompileInv'
  <2>1. UNCHANGED <<compiles, builder, dir, output>>
    BY <1>3 DEF GiveUp, compileVars
  <2> QED BY <1>3, <2>1, GiveUpMoves, CallersMove
<1>4. ASSUME NEW c \in Callers, CompileTimesOut(c) PROVE CompileInv'
  <2>1. Call(c, "failed") /\ UNCHANGED <<compiles, builder, dir, output>>
    BY <1>4 DEF CompileTimesOut, compileVars
  <2> QED BY <1>1, <2>1, SameRows, CallersMove
<1>5. ASSUME NEW g \in Gpus, Executed(g) PROVE CompileInv'
  <2>1. UNCHANGED <<compiles, builder, dir, output>>
    BY <1>5 DEF Executed, compileVars
  <2> QED BY <1>5, <2>1, ExecutedMoves, CallersMove
<1>6. ASSUME NEW b \in Builders, Build(b) PROVE CompileInv'
  BY <1>6, StartBuildKeeps, ConfiguredKeeps, ConfigureFailsKeeps, MadeKeeps DEF Build
<1>7. ASSUME UNCHANGED <<caller, compileVars>> PROVE CompileInv'
  <2>1. UNCHANGED <<compiles, builder, dir, output>> /\ caller' = caller
    BY <1>7 DEF compileVars
  <2> QED BY <1>1, <2>1, CallersMove
<1>8. ASSUME NEW g \in Gpus, Get(g) \/ OpenContext(g) \/ OrphanGoesOn(g) PROVE CompileInv'
  BY <1>7, <1>8 DEF Get, OpenContext, OrphanGoesOn
<1>9. ASSUME End \/ Launch \/ Checked \/ Terminated PROVE CompileInv'
  BY <1>7, <1>9 DEF End, Launch, Checked, Terminated
<1>10. CASE UNCHANGED serversVars
  BY <1>7, <1>10 DEF serversVars
<1> QED BY <1>2, <1>3, <1>4, <1>5, <1>6, <1>8, <1>9, <1>10, RequestCompileKeeps, ConfiguredLateKeeps
        DEF ServersNext, Wait, Execute

LEMMA CompileStarts ==
    ASSUME ServersInit
    PROVE  CompileInv
<1>1. /\ caller = [c \in Callers |-> [at |-> "idle", persistent |-> FALSE, attempt |-> 0]]
      /\ compiles = <<>> /\ builder = [b \in Builders |-> Idle]
      /\ dir = [d \in Dirs |-> [sources |-> Nobody, build |-> "absent"]]
      /\ output = [c \in Callers |-> Nobody]
  BY DEF ServersInit
<1>2. \A b \in Builders : ~Busy(b)
  BY <1>1 DEF Busy
<1>3. CompileTypes
  <2>1. caller \in [Callers -> CallerRow] /\ dir \in [Dirs -> DirRow]
    BY <1>1 DEF CallerRow, DirRow
  <2>2. builder \in [Builders -> BuilderRow]
    BY <1>1 DEF BuilderRow
  <2>3. compiles \in Seq(Callers) /\ output \in [Callers -> Callers \cup {Nobody}]
    BY <1>1
  <2> QED BY <2>1, <2>2, <2>3 DEF CompileTypes
<1>4. Len(compiles) = 0
  BY <1>1
<1> QED BY <1>1, <1>2, <1>3, <1>4
        DEF CompileInv, QueuedOnce, QueuedOrBuilding, BuiltOnce, IdleNeverAsked, OwnSources, OutputIsOfItsSource

(***************************************************************************)
(* LegacyServers: the GPU server.                                          *)
(***************************************************************************)

GpuTypes ==
    /\ caller \in [Callers -> CallerRow]
    /\ server \in {"down", "checking", "up"}
    /\ runs \in Seq(Items)
    /\ worker \in [Gpus -> Items \cup {Nobody}]
    /\ process \in [Gpus -> Stages] /\ orphan \in [Gpus -> Stages]

(* The items their callers have uploaded. *)
Used == {i \in Items : \/ i[2] < caller[i[1]].attempt
                       \/ /\ i[2] = caller[i[1]].attempt
                          /\ caller[i[1]].at \in {"waiting", "done", "failed"}}

(* An item is in one place, and was uploaded. *)
RunOnce == \A j, k \in 1 .. Len(runs) : runs[j] = runs[k] => j = k
QueuedOrRun == \A g \in Gpus, k \in 1 .. Len(runs) : worker[g] # runs[k]
WorkersDiffer == \A g, h \in Gpus : worker[g] \in Items /\ worker[g] = worker[h] => g = h
WasUploaded == /\ \A k \in 1 .. Len(runs) : runs[k] \in Used
               /\ \A g \in Gpus : worker[g] \in Items => worker[g] \in Used

(* FilesAreHeld, file by file. *)
HasPlace(i) == \/ \E k \in 1 .. Len(runs) : runs[k] = i
               \/ \E g \in Gpus : worker[g] = i
FilesInPlace == /\ files \subseteq Items
                /\ \A i \in Items : i \in files <=> HasPlace(i)
                /\ \A g \in Gpus : worker[g] \in Items => process[g] # "none"

(* Only a server that is up has processes; what it was started over is in  *)
(* unseen.                                                                 *)
OnlyUpRuns == server # "up" => \A g \in Gpus : process[g] = "none"
OrphansUnseen == server = "up" => \A g \in Gpus : orphan[g] # "none" => g \in unseen

GpuInv ==
    /\ GpuTypes
    /\ RunOnce /\ QueuedOrRun /\ WorkersDiffer /\ WasUploaded
    /\ FilesInPlace /\ OnlyUpRuns /\ OrphansUnseen

LEMMA NobodyIsNoItem == Nobody \notin Items
BY NamesAssumption DEF Items

LEMMA FilesByPlace ==
    ASSUME GpuTypes, FilesInPlace
    PROVE  FilesAreHeld
<1>1. DOMAIN runs = 1 .. Len(runs) /\ \A k \in 1 .. Len(runs) : runs[k] \in Items
  BY DEF GpuTypes
<1>2. files = {runs[k] : k \in DOMAIN runs} \cup {worker[g] : g \in {h \in Gpus : worker[h] \in Items}}
  BY <1>1 DEF FilesInPlace, HasPlace
<1> QED BY <1>2 DEF FilesAreHeld, FilesInPlace, Path

(* A caller that moves on has still uploaded what it had. *)
LEMMA UsedStays ==
    ASSUME caller \in [Callers -> CallerRow], NEW c \in Callers,
           NEW at \in {"compiling", "uploading", "waiting", "done", "failed"}, Call(c, at),
           at \in {"waiting", "done", "failed"} \/ caller[c].at \notin {"waiting", "done", "failed"}
    PROVE  /\ caller' \in [Callers -> CallerRow]
           /\ \A i \in Items : i \in Used => i \in Used'
<1>1. /\ caller' \in [Callers -> CallerRow]
      /\ \A e \in Callers : /\ caller'[e].attempt = caller[e].attempt
                            /\ caller'[e].at = IF e = c THEN at ELSE caller[e].at
  BY SameRows
<1>2. \A i \in Items : i[1] \in Callers
  BY DEF Items
<1> QED BY <1>1, <1>2 DEF Used

(* Callers that move on disturb no run. *)
LEMMA CallersGoOn ==
    ASSUME GpuInv, UNCHANGED <<server, runs, worker, process, orphan, files, unseen>>,
           caller' \in [Callers -> CallerRow], \A i \in Items : i \in Used => i \in Used'
    PROVE  GpuInv'
<1>1. GpuTypes'
  BY DEF GpuInv, GpuTypes
<1>2. WasUploaded'
  BY DEF GpuInv, GpuTypes, WasUploaded
<1> QED BY <1>1, <1>2 DEF GpuInv, RunOnce, QueuedOrRun, WorkersDiffer, FilesInPlace, HasPlace,
                          OnlyUpRuns, OrphansUnseen

LEMMA UploadKeeps ==
    ASSUME GpuInv, NEW c \in Callers, Upload(c)
    PROVE  GpuInv'
<1> DEFINE i == <<c, caller[c].attempt>>
<1>1. /\ caller[c].at = "uploading" /\ server = "up" /\ Call(c, "waiting")
      /\ files' = files \cup {i} /\ runs' = Append(runs, i)
      /\ UNCHANGED <<server, worker, process, orphan, unseen>>
  BY DEF Upload, Path
<1>2. /\ caller \in [Callers -> CallerRow] /\ caller[c] \in CallerRow /\ runs \in Seq(Items)
      /\ worker \in [Gpus -> Items \cup {Nobody}]
  BY DEF GpuInv, GpuTypes
<1>3. i \in Items /\ i[1] = c /\ i[2] = caller[c].attempt /\ caller[c].attempt \in {0, 1}
  BY <1>2 DEF Items, CallerRow
<1>4. i \notin Used
  BY <1>1, <1>3 DEF Used
<1>5. /\ caller' \in [Callers -> CallerRow]
      /\ \A j \in Items : j \in Used => j \in Used'
  BY <1>1, <1>2, UsedStays
<1>6. i \in Used'
  BY <1>1, <1>2, <1>3, SameRows DEF Used
<1> HIDE DEF i
<1>7. /\ runs' \in Seq(Items) /\ Len(runs') = Len(runs) + 1 /\ Len(runs) \in Nat
      /\ runs'[Len(runs) + 1] = i
      /\ \A k \in 1 .. Len(runs) : runs'[k] = runs[k] /\ runs[k] \in Items
  BY <1>1, <1>2, <1>3
<1>8. /\ \A k \in 1 .. Len(runs) : runs[k] # i
      /\ \A g \in Gpus : worker[g] # i
  BY <1>3, <1>4, NobodyIsNoItem DEF GpuInv, WasUploaded
<1>9. GpuTypes'
  BY <1>1, <1>5, <1>7 DEF GpuInv, GpuTypes
<1>10. RunOnce'
  BY <1>7, <1>8 DEF GpuInv, RunOnce
<1>11. QueuedOrRun'
  BY <1>1, <1>7, <1>8 DEF GpuInv, QueuedOrRun
<1>12. WasUploaded'
  <2>1. \A k \in 1 .. Len(runs') : runs'[k] \in Used'
    BY <1>5, <1>6, <1>7 DEF GpuInv, WasUploaded
  <2>2. \A g \in Gpus : worker'[g] \in Items => worker'[g] \in Used'
    BY <1>1, <1>5 DEF GpuInv, WasUploaded
  <2> QED BY <2>1, <2>2 DEF WasUploaded
<1>13. FilesInPlace'
  <2>1. files' \subseteq Items
    BY <1>1, <1>3 DEF GpuInv, FilesInPlace
  <2>2. \A j \in Items : HasPlace(j)' <=> HasPlace(j) \/ j = i
    <3>1. \A j \in Items : (\E k \in 1 .. Len(runs') : runs'[k] = j)
                             <=> (\E k \in 1 .. Len(runs) : runs[k] = j) \/ j = i
      BY <1>7
    <3> QED BY <1>1, <3>1 DEF HasPlace
  <2> QED BY <1>1, <2>1, <2>2 DEF GpuInv, FilesInPlace
<1>14. WorkersDiffer' /\ OnlyUpRuns' /\ OrphansUnseen'
  BY <1>1 DEF GpuInv, WorkersDiffer, OnlyUpRuns, OrphansUnseen
<1> QED BY <1>9, <1>10, <1>11, <1>12, <1>13, <1>14 DEF GpuInv

LEMMA GiveUpKeeps ==
    ASSUME GpuInv, NEW c \in Callers, GiveUp(c)
    PROVE  GpuInv'
<1>1. caller \in [Callers -> CallerRow] /\ caller[c] \in CallerRow
  BY DEF GpuInv, GpuTypes
<1>2. UNCHANGED <<server, runs, worker, process, orphan, files, unseen>>
  BY DEF GiveUp
<1>3. /\ caller' \in [Callers -> CallerRow]
      /\ \A i \in Items : i \in Used => i \in Used'
  <2>1. CASE Call(c, "failed")
    BY <1>1, <2>1, UsedStays
  <2>2. CASE caller[c].attempt = 0 /\ caller' = [caller EXCEPT ![c].at = "uploading", ![c].attempt = 1]
    <3> DEFINE row == [caller[c] EXCEPT !.at = "uploading", !.attempt = 1]
    <3>1. row \in CallerRow /\ row.attempt = 1
      BY <1>1 DEF CallerRow
    <3>2. caller' = [caller EXCEPT ![c] = row]
      BY <1>1, <2>2
    <3> HIDE DEF row
    <3>3. /\ caller' \in [Callers -> CallerRow] /\ caller'[c].attempt = 1
          /\ \A e \in Callers \ {c} : caller'[e] = caller[e]
      BY <1>1, <3>1, <3>2
    <3>4. \A i \in Items : i[1] \in Callers /\ i[2] \in {0, 1}
      BY DEF Items
    <3>5. ASSUME NEW i \in Items, i \in Used PROVE i \in Used'
      <4>1. CASE i[1] = c
        BY <2>2, <3>3, <3>4, <3>5, <4>1 DEF Used
      <4>2. CASE i[1] # c
        BY <3>3, <3>4, <3>5, <4>2 DEF Used
      <4> QED BY <4>1, <4>2
    <3> QED BY <3>3, <3>5
  <2> QED BY <2>1, <2>2 DEF GiveUp, Retry
<1> QED BY <1>2, <1>3, CallersGoOn

(* A worker takes the first upload, whose file is there. *)
LEMMA GetKeeps ==
    ASSUME GpuInv, NEW g \in Gpus, Get(g)
    PROVE  GpuInv'
<1> DEFINE i == Head(runs)
<1>1. /\ server = "up" /\ worker[g] = Nobody /\ runs # <<>>
      /\ worker' = [worker EXCEPT ![g] = i] /\ runs' = Tail(runs)
      /\ process' = [process EXCEPT ![g] = IF i \in files THEN "starting" ELSE "none"]
      /\ UNCHANGED <<caller, server, orphan, files, unseen>>
  BY DEF Get, Path
<1>2. /\ runs \in Seq(Items) /\ worker \in [Gpus -> Items \cup {Nobody}]
      /\ process \in [Gpus -> Stages]
  BY DEF GpuInv, GpuTypes
<1>3. /\ i \in Items /\ Len(runs) \in Nat /\ Len(runs) >= 1 /\ i = runs[1]
      /\ runs' \in Seq(Items) /\ Len(runs') = Len(runs) - 1
      /\ \A k \in 1 .. Len(runs') : runs'[k] = runs[k + 1]
      /\ \A k \in 1 .. Len(runs) : runs[k] \in Items
  BY <1>1, <1>2
<1> HIDE DEF i
<1>4. i \in files
  BY <1>3 DEF GpuInv, FilesInPlace, HasPlace
<1>5. /\ worker' \in [Gpus -> Items \cup {Nobody}] /\ worker'[g] = i
      /\ \A h \in Gpus \ {g} : worker'[h] = worker[h]
      /\ process' \in [Gpus -> Stages] /\ process'[g] = "starting"
      /\ \A h \in Gpus \ {g} : process'[h] = process[h]
  BY <1>1, <1>2, <1>3, <1>4 DEF Stages
<1>6. GpuTypes'
  BY <1>1, <1>3, <1>5 DEF GpuInv, GpuTypes
<1>7. RunOnce'
  BY <1>3 DEF GpuInv, RunOnce
<1>8. /\ \A h \in Gpus : worker[h] # i
      /\ \A k \in 1 .. Len(runs') : runs'[k] # i
  <2>1. \A k \in 1 .. Len(runs') : k + 1 \in 1 .. Len(runs) /\ k + 1 # 1
    BY <1>3
  <2> QED BY <1>3, <2>1 DEF GpuInv, RunOnce, QueuedOrRun
<1>9. QueuedOrRun'
  <2> SUFFICES ASSUME NEW h \in Gpus, NEW k \in 1 .. Len(runs')
               PROVE  worker'[h] # runs'[k]
    BY DEF QueuedOrRun
  <2>1. k + 1 \in 1 .. Len(runs) /\ runs'[k] = runs[k + 1]
    BY <1>3
  <2> QED BY <1>5, <1>8, <2>1 DEF GpuInv, QueuedOrRun
<1>10. WorkersDiffer'
  BY <1>5, <1>8 DEF GpuInv, WorkersDiffer
<1>11. WasUploaded'
  <2>1. \A j \in Items : j \in Used' <=> j \in Used
    BY <1>1 DEF Used
  <2>2. \A k \in 1 .. Len(runs') : k + 1 \in 1 .. Len(runs)
    BY <1>3
  <2>3. \A k \in 1 .. Len(runs') : runs'[k] \in Used'
    BY <1>3, <2>1, <2>2 DEF GpuInv, WasUploaded
  <2>4. \A h \in Gpus : worker'[h] \in Items => worker'[h] \in Used'
    BY <1>3, <1>5, <2>1 DEF GpuInv, WasUploaded
  <2> QED BY <2>3, <2>4 DEF WasUploaded
<1>12. \A j \in Items : HasPlace(j)' <=> HasPlace(j)
  <2> SUFFICES ASSUME NEW j \in Items PROVE HasPlace(j)' <=> HasPlace(j)
    OBVIOUS
  <2>1. CASE j = i
    BY <1>3, <1>5, <2>1 DEF HasPlace
  <2>2. CASE j # i
    <3>1. (\E k \in 1 .. Len(runs') : runs'[k] = j) <=> (\E k \in 1 .. Len(runs) : runs[k] = j)
      <4>1. ASSUME NEW k \in 1 .. Len(runs), runs[k] = j PROVE \E l \in 1 .. Len(runs') : runs'[l] = j
        <5>1. k # 1
          BY <1>3, <2>2, <4>1
        <5>2. k - 1 \in 1 .. Len(runs') /\ (k - 1) + 1 = k
          BY <1>3, <5>1
        <5>3. runs'[k - 1] = j
          BY <1>3, <4>1, <5>2
        <5> QED BY <5>2, <5>3
      <4>2. ASSUME NEW l \in 1 .. Len(runs'), runs'[l] = j PROVE \E k \in 1 .. Len(runs) : runs[k] = j
        <5>1. l + 1 \in 1 .. Len(runs) /\ runs[l + 1] = j
          BY <1>3, <4>2
        <5> QED BY <5>1
      <4> QED BY <4>1, <4>2
    <3>2. (\E h \in Gpus : worker'[h] = j) <=> (\E h \in Gpus : worker[h] = j)
      BY <1>1, <1>5, <2>2, NobodyIsNoItem
    <3> QED BY <3>1, <3>2 DEF HasPlace
  <2> QED BY <2>1, <2>2
<1>13. FilesInPlace'
  <2>1. \A h \in Gpus : worker'[h] \in Items => process'[h] # "none"
    BY <1>5 DEF GpuInv, FilesInPlace
  <2> QED BY <1>1, <1>12, <2>1 DEF GpuInv, FilesInPlace
<1>14. OnlyUpRuns' /\ OrphansUnseen'
  BY <1>1 DEF GpuInv, OnlyUpRuns, OrphansUnseen
<1> QED BY <1>6, <1>7, <1>9, <1>10, <1>11, <1>13, <1>14 DEF GpuInv

(* A run ends: its file is removed, which no other upload shares. *)
LEMMA ExecutedKeeps ==
    ASSUME GpuInv, NEW g \in Gpus, Executed(g)
    PROVE  GpuInv'
<1> DEFINE i == worker[g]
<1>1. /\ i \in Items /\ process' = [process EXCEPT ![g] = "none"]
      /\ files' = files \ {i} /\ worker' = [worker EXCEPT ![g] = Nobody]
      /\ UNCHANGED <<server, runs, orphan, unseen>>
      /\ \E at \in {"done", "failed"} : Answer(i, at)
  BY DEF Executed, Path, CompleteFuture
<1> HIDE DEF i
<1>2. /\ worker \in [Gpus -> Items \cup {Nobody}] /\ process \in [Gpus -> Stages]
      /\ caller \in [Callers -> CallerRow] /\ runs \in Seq(Items)
  BY DEF GpuInv, GpuTypes
<1>3. /\ caller' \in [Callers -> CallerRow]
      /\ \A j \in Items : j \in Used => j \in Used'
  <2>1. PICK at \in {"done", "failed"} : Answer(i, at)
    BY <1>1
  <2>2. i[1] \in Callers
    BY <1>1 DEF Items
  <2>3. CASE Call(i[1], at)
    BY <1>2, <2>2, <2>3, UsedStays
  <2>4. CASE UNCHANGED caller
    BY <1>2, <2>4 DEF Used
  <2> QED BY <2>1, <2>3, <2>4 DEF Answer
<1>4. /\ worker' \in [Gpus -> Items \cup {Nobody}] /\ worker'[g] = Nobody
      /\ \A h \in Gpus \ {g} : worker'[h] = worker[h] /\ worker[h] # i
      /\ process' \in [Gpus -> Stages]
      /\ \A h \in Gpus \ {g} : process'[h] = process[h]
      /\ process'[g] = "none" /\ worker[g] = i
      /\ \A k \in 1 .. Len(runs) : runs[k] # i
  <2>1. \A h \in Gpus \ {g} : worker[h] # i
    BY <1>1 DEF GpuInv, WorkersDiffer, i
  <2>2. \A k \in 1 .. Len(runs) : runs[k] # i
    BY DEF GpuInv, QueuedOrRun, i
  <2>3. worker[g] = i
    BY DEF i
  <2> QED BY <1>1, <1>2, <2>1, <2>2, <2>3 DEF Stages
<1>5. GpuTypes'
  BY <1>1, <1>3, <1>4 DEF GpuInv, GpuTypes
<1>6. QueuedOrRun' /\ RunOnce'
  BY <1>1, <1>2, <1>4, NobodyIsNoItem DEF GpuInv, QueuedOrRun, RunOnce
<1>7. WorkersDiffer'
  BY <1>4, NobodyIsNoItem DEF GpuInv, WorkersDiffer
<1>8. WasUploaded'
  <2>1. \A k \in 1 .. Len(runs) : runs[k] \in Items
    BY <1>2
  <2> QED BY <1>1, <1>3, <1>4, <2>1, NobodyIsNoItem DEF GpuInv, WasUploaded
<1>9. \A j \in Items : HasPlace(j)' <=> HasPlace(j) /\ j # i
  BY <1>1, <1>4, NobodyIsNoItem DEF HasPlace
<1>10. FilesInPlace'
  <2>1. files' \subseteq Items /\ \A j \in Items : j \in files' <=> HasPlace(j)'
    BY <1>1, <1>9 DEF GpuInv, FilesInPlace
  <2>2. \A h \in Gpus : worker'[h] \in Items => process'[h] # "none"
    BY <1>4, NobodyIsNoItem DEF GpuInv, FilesInPlace
  <2> QED BY <2>1, <2>2 DEF FilesInPlace
<1>11. OnlyUpRuns' /\ OrphansUnseen'
  BY <1>1, <1>4 DEF GpuInv, OnlyUpRuns, OrphansUnseen
<1> QED BY <1>5, <1>6, <1>7, <1>8, <1>10, <1>11 DEF GpuInv

LEMMA OpenContextKeeps ==
    ASSUME GpuInv, NEW g \in Gpus, OpenContext(g)
    PROVE  GpuInv'
<1>1. /\ process[g] = "starting" /\ process' = [process EXCEPT ![g] = "onGpu"]
      /\ UNCHANGED <<caller, server, runs, worker, orphan, files, unseen>>
  BY DEF OpenContext
<1>2. /\ process' \in [Gpus -> Stages]
      /\ \A h \in Gpus : process'[h] = "none" <=> process[h] = "none"
  BY <1>1 DEF GpuInv, GpuTypes, Stages
<1>3. GpuTypes'
  BY <1>1, <1>2 DEF GpuInv, GpuTypes
<1>4. FilesInPlace' /\ OnlyUpRuns'
  BY <1>1, <1>2 DEF GpuInv, FilesInPlace, HasPlace, OnlyUpRuns
<1> QED BY <1>1, <1>3, <1>4 DEF GpuInv, RunOnce, QueuedOrRun, WorkersDiffer, WasUploaded, Used, OrphansUnseen

(* The server ends with everything it holds; its processes are orphans. *)
LEMMA EndKeeps ==
    ASSUME GpuInv, End
    PROVE  GpuInv'
<1>1. /\ server' = "down" /\ process' = [g \in Gpus |-> "none"]
      /\ orphan' = [g \in Gpus |-> IF process[g] = "none" THEN orphan[g] ELSE process[g]]
      /\ worker' = [g \in Gpus |-> Nobody] /\ runs' = <<>> /\ files' = {}
      /\ UNCHANGED caller
  BY DEF End
<1>2. GpuTypes'
  <2>1. process' \in [Gpus -> Stages] /\ orphan' \in [Gpus -> Stages]
    BY <1>1 DEF GpuInv, GpuTypes, Stages
  <2> QED BY <1>1, <2>1 DEF GpuInv, GpuTypes
<1>3. Len(runs') = 0 /\ \A g \in Gpus : worker'[g] \notin Items
  BY <1>1, NobodyIsNoItem
<1>4. RunOnce' /\ QueuedOrRun' /\ WorkersDiffer' /\ WasUploaded'
  BY <1>3 DEF RunOnce, QueuedOrRun, WorkersDiffer, WasUploaded
<1>5. FilesInPlace'
  BY <1>1, <1>3 DEF FilesInPlace, HasPlace
<1> QED BY <1>1, <1>2, <1>4, <1>5 DEF GpuInv, OnlyUpRuns, OrphansUnseen

LEMMA ServerStartsKeep ==
    ASSUME GpuInv, Launch \/ Checked \/ Terminated
    PROVE  GpuInv'
<1>1. /\ server # "up" /\ server' \in {"down", "checking", "up"}
      /\ UNCHANGED <<caller, runs, worker, process, orphan, files>>
      /\ server' = "up" => Quiet /\ unseen' = {g \in Gpus : orphan[g] = "starting"}
  BY DEF Launch, Checked, Terminated
<1>2. \A g \in Gpus : process'[g] = "none"
  BY <1>1 DEF GpuInv, OnlyUpRuns
<1>3. OrphansUnseen'
  <2> SUFFICES ASSUME server' = "up", NEW g \in Gpus, orphan[g] # "none" PROVE g \in unseen'
    BY <1>1 DEF OrphansUnseen
  <2>1. orphan[g] \in Stages /\ orphan[g] # "onGpu"
    BY <1>1 DEF GpuInv, GpuTypes, Quiet
  <2> QED BY <1>1, <2>1 DEF Stages
<1>4. GpuTypes'
  BY <1>1 DEF GpuInv, GpuTypes
<1>5. FilesInPlace'
  BY <1>1 DEF GpuInv, FilesInPlace, HasPlace
<1> QED BY <1>1, <1>2, <1>3, <1>4, <1>5
        DEF GpuInv, RunOnce, QueuedOrRun, WorkersDiffer, WasUploaded, Used, OnlyUpRuns

LEMMA OrphansKeep ==
    ASSUME GpuInv, NEW g \in Gpus, OrphanGoesOn(g)
    PROVE  GpuInv'
<1>1. /\ orphan[g] # "none"
      /\ orphan' = [orphan EXCEPT ![g] = "onGpu"] \/ orphan' = [orphan EXCEPT ![g] = "none"]
      /\ UNCHANGED <<caller, server, runs, worker, process, files, unseen>>
  BY DEF OrphanGoesOn
<1>2. /\ orphan' \in [Gpus -> Stages]
      /\ \A h \in Gpus : orphan'[h] # "none" => orphan[h] # "none"
  BY <1>1 DEF GpuInv, GpuTypes, Stages
<1>3. GpuTypes' /\ OrphansUnseen'
  BY <1>1, <1>2 DEF GpuInv, GpuTypes, OrphansUnseen
<1>4. FilesInPlace'
  BY <1>1 DEF GpuInv, FilesInPlace, HasPlace
<1> QED BY <1>1, <1>3, <1>4
        DEF GpuInv, RunOnce, QueuedOrRun, WorkersDiffer, WasUploaded, Used, OnlyUpRuns

(* What the compile server answers concerns callers that uploaded nothing. *)
LEMMA AnsweredStays ==
    ASSUME GpuInv, NEW c \in Callers, NEW at \in {"uploading", "failed"}, Answered(c, at)
    PROVE  /\ caller' \in [Callers -> CallerRow]
           /\ \A i \in Items : i \in Used => i \in Used'
<1>1. caller \in [Callers -> CallerRow]
  BY DEF GpuInv, GpuTypes
<1>2. CASE UNCHANGED caller
  BY <1>1, <1>2 DEF Used
<1>3. CASE caller[c].at = "compiling" /\ Call(c, at)
  BY <1>1, <1>3, UsedStays
<1> QED BY <1>2, <1>3 DEF Answered

LEMMA GpuStep ==
    ASSUME CompileInv, GpuInv, [ServersNext]_serversVars
    PROVE  GpuInv'
<1>1. caller \in [Callers -> CallerRow] /\ CompileTypes
  BY DEF GpuInv, GpuTypes, CompileInv
<1>2. ASSUME UNCHANGED <<caller, gpuVars>> PROVE GpuInv'
  <2>1. UNCHANGED <<server, runs, worker, process, orphan, files, unseen>> /\ caller' = caller
    BY <1>2 DEF gpuVars
  <2>2. \A i \in Items : i \in Used => i \in Used'
    BY <2>1 DEF Used
  <2> QED BY <1>1, <2>1, <2>2, CallersGoOn
<1>3. ASSUME NEW c \in Callers, RequestCompile(c) PROVE GpuInv'
  <2>1. UNCHANGED <<server, runs, worker, process, orphan, files, unseen>>
    BY <1>3 DEF RequestCompile, gpuVars
  <2>2. CompileInv'
    BY <1>3, RequestCompileKeeps
  <2>3. caller' \in [Callers -> CallerRow]
    BY <2>2 DEF CompileInv, CompileTypes
  <2>4. ASSUME NEW i \in Items, i \in Used PROVE i \in Used'
    <3>1. PICK persistent : caller' = [caller EXCEPT ![c].at = "compiling", ![c].persistent = persistent]
      BY <1>3 DEF RequestCompile
    <3>2. caller[c].at = "idle" /\ i[1] \in Callers /\ caller[c] \in CallerRow
      BY <1>1, <1>3 DEF RequestCompile, Items
    <3>3. /\ caller'[c].attempt = caller[c].attempt
          /\ \A e \in Callers \ {c} : caller'[e] = caller[e]
      BY <1>1, <3>1, <3>2 DEF CallerRow
    <3>4. CASE i[1] = c
      BY <2>4, <3>2, <3>3, <3>4 DEF Used
    <3>5. CASE i[1] # c
      BY <2>4, <3>2, <3>3, <3>5 DEF Used
    <3> QED BY <3>4, <3>5
  <2> QED BY <2>1, <2>3, <2>4, CallersGoOn
<1>4. ASSUME NEW b \in Builders, ConfigureFails(b) PROVE GpuInv'
  <2>1. /\ UNCHANGED <<server, runs, worker, process, orphan, files, unseen>>
        /\ builder[b].at = "configuring" /\ Answered(builder[b].job, "failed")
    BY <1>4 DEF ConfigureFails, gpuVars
  <2>2. builder[b].job \in Callers
    BY <1>1, <2>1, BuilderFacts
  <2> QED BY <2>1, <2>2, AnsweredStays, CallersGoOn
<1>5. ASSUME NEW b \in Builders, Made(b) PROVE GpuInv'
  <2>1. /\ UNCHANGED <<server, runs, worker, process, orphan, files, unseen>>
        /\ builder[b].at = "making"
        /\ Answered(builder[b].job, "failed") \/ Answered(builder[b].job, "uploading")
    BY <1>5 DEF Made, gpuVars
  <2>2. builder[b].job \in Callers
    BY <1>1, <2>1, BuilderFacts
  <2> QED BY <2>1, <2>2, AnsweredStays, CallersGoOn
<1>6. ASSUME NEW b \in Builders, StartBuild(b) \/ Configured(b) PROVE GpuInv'
  BY <1>2, <1>6 DEF StartBuild, Configured
<1>7. ASSUME NEW d \in Dirs, ConfiguredLate(d) PROVE GpuInv'
  BY <1>2, <1>7 DEF ConfiguredLate
<1>8. ASSUME NEW c \in Callers, CompileTimesOut(c) PROVE GpuInv'
  <2>1. /\ UNCHANGED <<server, runs, worker, process, orphan, files, unseen>>
        /\ Call(c, "failed")
    BY <1>8 DEF CompileTimesOut, gpuVars
  <2> QED BY <1>1, <2>1, UsedStays, CallersGoOn
<1>9. CASE UNCHANGED serversVars
  BY <1>2, <1>9 DEF serversVars
<1> QED BY <1>3, <1>4, <1>5, <1>6, <1>7, <1>8, <1>9, UploadKeeps, GiveUpKeeps, GetKeeps, OpenContextKeeps,
           ExecutedKeeps, OrphansKeep, EndKeeps, ServerStartsKeep
        DEF ServersNext, Wait, Execute, Build

LEMMA GpuStarts ==
    ASSUME ServersInit
    PROVE  GpuInv
<1>1. /\ caller = [c \in Callers |-> [at |-> "idle", persistent |-> FALSE, attempt |-> 0]]
      /\ server = "down" /\ runs = <<>> /\ worker = [g \in Gpus |-> Nobody]
      /\ process = [g \in Gpus |-> "none"] /\ orphan = [g \in Gpus |-> "none"] /\ files = {}
  BY DEF ServersInit
<1>2. GpuTypes
  <2>1. caller \in [Callers -> CallerRow]
    BY <1>1 DEF CallerRow
  <2> QED BY <1>1, <2>1 DEF GpuTypes, Stages
<1>3. Len(runs) = 0 /\ \A g \in Gpus : worker[g] \notin Items
  BY <1>1, NobodyIsNoItem
<1>4. FilesInPlace
  BY <1>1, <1>3 DEF FilesInPlace, HasPlace
<1> QED BY <1>1, <1>2, <1>3, <1>4
        DEF GpuInv, RunOnce, QueuedOrRun, WorkersDiffer, WasUploaded, OnlyUpRuns, OrphansUnseen

(* The inductive invariants of the two servers: a source is in one place    *)
(* and its builder's directory holds it; an upload is in one place, and its *)
(* file is there.                                                          *)
THEOREM ServersInvariant == ServersSpec => [](CompileInv /\ GpuInv)
<1>1. ServersInit => CompileInv /\ GpuInv
  BY CompileStarts, GpuStarts
<1>2. CompileInv /\ GpuInv /\ [ServersNext]_serversVars => (CompileInv /\ GpuInv)'
  BY CompileStep, GpuStep
<1> QED BY <1>1, <1>2, PTL DEF ServersSpec

(* A binary is built from the sources of the caller it goes to, for any     *)
(* number of builders, callers and persistent artifacts                    *)
(* (OutputIsOfItsSource).                                                  *)
THEOREM OutputsAreRight == ServersSpec => []OutputIsOfItsSource
<1>1. CompileInv => OutputIsOfItsSource
  BY DEF CompileInv
<1> QED BY <1>1, ServersInvariant, PTL

(* An upload's file is there until its own run is over (FilesAreHeld). *)
THEOREM FilesStay == ServersSpec => []FilesAreHeld
<1>1. GpuInv => FilesAreHeld
  BY FilesByPlace DEF GpuInv
<1> QED BY <1>1, ServersInvariant, PTL

(* Two programs share a GPU only over an orphan that had not yet opened its *)
(* context when the server was started (OnlyUnseenOrphansShare).            *)
THEOREM SharingIsUnseen == ServersSpec => []OnlyUnseenOrphansShare
<1>1. GpuInv => OnlyUnseenOrphansShare
  BY DEF GpuInv, OnlyUpRuns, OrphansUnseen, OnlyUnseenOrphansShare
<1> QED BY <1>1, ServersInvariant, PTL

===============================================================================
