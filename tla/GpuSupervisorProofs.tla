-------------------------- MODULE GpuSupervisorProofs --------------------------
(***************************************************************************)
(* The invariants of GpuSupervisor for every number of jobs, handlers and  *)
(* tasks, every limit on recent jobs, with and without losses and expiry.  *)
(***************************************************************************)
EXTENDS GpuSupervisor, TLAPS

USE TasksAssumption, ReportedAssumption, NoneAssumption, SwitchAssumption

-------------------------------------------------------------------------------
(* The inductive invariant.  Its parts on tasks speak of a table T, since  *)
(* ReleaseGpu and Trimmed continue from tables that no state holds.        *)

(* What one row says by itself: what the code has reached tells the status.*)
RowOK(r) ==
    /\ r.job = None <=> r.pc = "none"
    /\ r.pc = "none" => ~r.known /\ r.wire = "idle"
    /\ r.pc \in {"none", "created", "queued", "granted"} => r.status = "queued"
    /\ r.status \in Terminal => r.pc \in {"reporting", "done"}
    /\ r.status \notin Terminal /\ r.pc # "none" => r.known
    /\ r.pc = "done" => r.status # "running"
    /\ r.pc \in {"reporting", "done"} => ~r.killed
    /\ r.pc = "reporting" => r.status \in Terminal /\ r.result \in Terminal
    /\ r.wire = "report" => r.pc = "reporting"

RowsOK(T) == T \in [Tasks -> TaskRow] /\ \A t \in Tasks : RowOK(T[t])

Holders(T) == {t \in Tasks : T[t].pc \in {"granted", "leasing", "executing"}}

(* One permit: held by one task or free, and free only if nobody waits. *)
GpuOK(T, p) ==
    /\ \A t, u \in Holders(T) : t = u
    /\ p = 1 => Holders(T) = {} /\ Waiters(T) = {}

Unmade(T, n) == \A t \in Tasks : t > n => T[t].pc = "none"

LiveOnce(T) ==
    \A t, u \in Tasks :
        /\ T[t].job = T[u].job /\ T[t].job # None
        /\ T[t].status \notin Terminal /\ T[u].status \notin Terminal
        => t = u

Over == {"reporting", "done"}

(* A task whose end a cancel handler awaits either has the cancellation    *)
(* ahead of it or went through it.                                         *)
Called(r) ==
    ~r.killed => r.pc \in Over /\ r.status \in {"queued", "cancelled", "failed"}

CalledOK(T, r) ==
    r.at = "awaiting" =>
        r.task \in Tasks /\ T[r.task].pc # "none" /\ Called(T[r.task])

AskingOK(T, r) == r.at = "asking" => r.task \in Tasks /\ T[r.task].pc = "done"

HandlerOK(T, r) == CalledOK(T, r) /\ AskingOK(T, r)

(* A row of Control and the task it names. *)
HeldOK(T, j, row) ==
    /\ row.status = "pending" => row.holder = 0
    /\ row.holder # 0 => T[row.holder].job = j
    /\ row.holder # 0 /\ row.status \in Terminal
         => /\ T[row.holder].pc \in Over
            /\ T[row.holder].result \in {row.status, "failed"}

TasksOK(T, p, n) == RowsOK(T) /\ GpuOK(T, p) /\ Unmade(T, n) /\ LiveOnce(T)

IInv == /\ TypeOK
        /\ TasksOK(tasks, permits, made)
        /\ \A c \in Callers : HandlerOK(tasks, callers[c])
        /\ \A j \in Jobs : HeldOK(tasks, j, control[j])

-------------------------------------------------------------------------------
(* What no step undoes in the row r of an existing task, s being its next. *)
Keeps(r, s) ==
    /\ s.job = r.job
    /\ r.status \in Terminal => s.status \in Terminal
    /\ r.pc \in Over => /\ s.pc \in Over
                        /\ s.result \in {r.result, "failed"} \/ r.result = "none"
    /\ r.pc = "done" => /\ s.pc = "done"
                        /\ r.status \in Terminal \ {"failed"} => s.status = r.status
    /\ Called(r) => Called(s)

(* What is proved of the next tasks in each step but Submit. *)
TasksKept == /\ RowsOK(tasks') /\ GpuOK(tasks', permits')
             /\ permits' \in {0, 1}
             /\ \A u \in Tasks : Keeps(tasks[u], tasks'[u])

(* What is proved of the rows in every step. *)
DoneKept == \A u \in Tasks : tasks[u].pc = "done" => Keeps(tasks[u], tasks'[u])

LEMMA KeepsTransitive ==
  ASSUME NEW r, NEW s, NEW q, Keeps(r, s), Keeps(s, q)
  PROVE  Keeps(r, q)
BY DEF Keeps

LEMMA KeepsReflexive ==
  ASSUME NEW r PROVE Keeps(r, r)
BY DEF Keeps

(* A table that differs from tasks in the row of t alone. *)
LEMMA OneRow ==
  ASSUME IInv, NEW t \in Tasks, NEW r \in TaskRow, RowOK(r), Keeps(tasks[t], r)
  PROVE  LET T == [tasks EXCEPT ![t] = r]
         IN RowsOK(T) /\ \A u \in Tasks : Keeps(tasks[u], T[u])
<1> DEFINE T == [tasks EXCEPT ![t] = r]
<1>1. tasks \in [Tasks -> TaskRow] /\ \A u \in Tasks : RowOK(tasks[u])
  BY DEF IInv, TasksOK, RowsOK
<1>2. T \in [Tasks -> TaskRow] /\ T[t] = r /\ \A u \in Tasks \ {t} : T[u] = tasks[u]
  BY <1>1
<1>3. ASSUME NEW u \in Tasks PROVE RowOK(T[u]) /\ Keeps(tasks[u], T[u])
  BY <1>1, <1>2, KeepsReflexive
<1>4. QED
  BY <1>2, <1>3 DEF RowsOK

(* The semaphore is released by the only holder of its permit. *)
LEMMA Released ==
  ASSUME NEW T, RowsOK(T), Holders(T) = {}, permits = 0, ReleaseGpu(T)
  PROVE  /\ RowsOK(tasks') /\ GpuOK(tasks', permits') /\ permits' \in {0, 1}
         /\ \A u \in Tasks : Keeps(T[u], tasks'[u])
<1>1. T \in [Tasks -> TaskRow] /\ \A u \in Tasks : RowOK(T[u])
  BY DEF RowsOK
<1>2. CASE Waiters(T) = {} /\ tasks' = T /\ permits' = permits + 1
  BY <1>1, <1>2, KeepsReflexive DEF GpuOK, RowsOK
<1>3. ASSUME NEW u \in Waiters(T), permits' = permits,
             tasks' = [T EXCEPT ![u].pc = "granted"]
      PROVE  /\ RowsOK(tasks') /\ GpuOK(tasks', permits') /\ permits' \in {0, 1}
             /\ \A v \in Tasks : Keeps(T[v], tasks'[v])
  <2>1. u \in Tasks /\ T[u].pc = "queued" /\ ~T[u].killed /\ T[u] \in TaskRow
    BY <1>1 DEF Waiters
  <2>2. tasks'[u] = [T[u] EXCEPT !.pc = "granted"]
    BY <1>1, <1>3, <2>1
  <2>3. \A v \in Tasks \ {u} : tasks'[v] = T[v]
    BY <1>1, <1>3
  <2>4. tasks'[u] \in TaskRow /\ tasks'[u].pc = "granted"
    BY <2>1, <2>2 DEF TaskRow, PCs
  <2>5. RowOK(tasks'[u]) /\ Keeps(T[u], tasks'[u])
    BY <1>1, <2>1, <2>2 DEF TaskRow, RowOK, Keeps, Called, Over, Terminal
  <2>6. tasks' \in [Tasks -> TaskRow]
    BY <1>1, <1>3, <2>1, <2>2, <2>4
  <2>7. Holders(tasks') = {u}
    BY <2>1, <2>3, <2>4 DEF Holders
  <2>8. permits' = 0
    BY <1>3
  <2>9. GpuOK(tasks', permits')
    BY <2>7, <2>8 DEF GpuOK
  <2>10. ASSUME NEW v \in Tasks PROVE RowOK(tasks'[v]) /\ Keeps(T[v], tasks'[v])
    BY <1>1, <2>3, <2>5, KeepsReflexive
  <2>11. QED
    BY <2>6, <2>8, <2>9, <2>10 DEF RowsOK
<1>4. QED
  BY <1>2, <1>3 DEF ReleaseGpu

-------------------------------------------------------------------------------
(* One step of a task or of Control on its behalf. *)

LEMMA StartKept ==
  ASSUME IInv, NEW t \in Tasks, Start(t)
  PROVE  TasksKept
<1>1. /\ tasks \in [Tasks -> TaskRow] /\ tasks[t] \in TaskRow /\ RowOK(tasks[t])
      /\ permits \in {0, 1} /\ GpuOK(tasks, permits)
  BY DEF IInv, TasksOK, RowsOK, TypeOK
<1>2. tasks[t].pc = "created"
  BY DEF Start
<1>3. ASSUME NEW r \in TaskRow, tasks' = [tasks EXCEPT ![t] = r],
             RowOK(r), Keeps(tasks[t], r),
             \/ r.pc = "done" /\ permits' = permits
             \/ r.pc = "queued" /\ permits' = permits /\ permits = 0
             \/ r.pc = "leasing" /\ permits = 1 /\ permits' = 0
      PROVE  TasksKept
  <2>1. tasks'[t] = r /\ \A u \in Tasks \ {t} : tasks'[u] = tasks[u]
    BY <1>1, <1>3
  <2>2. RowsOK(tasks') /\ \A u \in Tasks : Keeps(tasks[u], tasks'[u])
    BY <1>3, OneRow
  <2>3. r.pc # "leasing" => Holders(tasks') = Holders(tasks)
    BY <1>2, <1>3, <2>1 DEF Holders
  <2>4. r.pc = "leasing" => Holders(tasks') = {t}
    BY <1>1, <1>2, <1>3, <2>1 DEF Holders, GpuOK
  <2>5. r.pc = "done" => Waiters(tasks') = Waiters(tasks)
    BY <1>2, <2>1 DEF Waiters
  <2>6. GpuOK(tasks', permits')
    <3>1. CASE r.pc = "leasing" /\ permits' = 0
      BY <2>4, <3>1 DEF GpuOK
    <3>2. CASE r.pc = "queued" /\ permits' = 0
      BY <1>1, <2>3, <3>2 DEF GpuOK
    <3>3. CASE r.pc = "done" /\ permits' = permits
      BY <1>1, <2>3, <2>5, <3>3 DEF GpuOK
    <3>4. QED
      BY <1>3, <3>1, <3>2, <3>3
  <2>7. QED
    BY <1>1, <1>3, <2>2, <2>6 DEF TasksKept
<1>4. CASE /\ tasks[t].killed /\ UNCHANGED permits
           /\ tasks' = [tasks EXCEPT ![t].pc = "done", ![t].killed = FALSE]
  <2> DEFINE r == [tasks[t] EXCEPT !.pc = "done", !.killed = FALSE]
  <2>1. r \in TaskRow /\ RowOK(r) /\ Keeps(tasks[t], r) /\ r.pc = "done"
    BY <1>1, <1>2 DEF TaskRow, PCs, RowOK, Keeps, Called, Over, Terminal
  <2>2. tasks' = [tasks EXCEPT ![t] = r]
    BY <1>1, <1>4
  <2>3. QED
    BY <1>3, <1>4, <2>1, <2>2
<1>5. CASE ~tasks[t].killed /\ permits > 0 /\ permits' = permits - 1
           /\ tasks' = Entered(t)
  <2> DEFINE r == [tasks[t] EXCEPT !.pc = "leasing", !.status = "running", !.wire = "lease"]
  <2>1. r \in TaskRow /\ RowOK(r) /\ Keeps(tasks[t], r) /\ r.pc = "leasing"
    BY <1>1, <1>2, <1>5 DEF TaskRow, PCs, RowOK, Keeps, Called, Over, Terminal
  <2>2. tasks' = [tasks EXCEPT ![t] = r]
    BY <1>1, <1>5 DEF Entered
  <2>3. permits = 1 /\ permits' = 0
    BY <1>1, <1>5
  <2>4. QED
    BY <1>3, <2>1, <2>2, <2>3
<1>6. CASE /\ ~tasks[t].killed /\ (permits = 0 \/ Waiters(tasks) # {}) /\ UNCHANGED permits
           /\ tasks' = [tasks EXCEPT ![t].pc = "queued"]
  <2> DEFINE r == [tasks[t] EXCEPT !.pc = "queued"]
  <2>1. r \in TaskRow /\ RowOK(r) /\ Keeps(tasks[t], r) /\ r.pc = "queued"
    BY <1>1, <1>2, <1>6 DEF TaskRow, PCs, RowOK, Keeps, Called, Over, Terminal
  <2>2. tasks' = [tasks EXCEPT ![t] = r]
    BY <1>1, <1>6
  <2>3. permits = 0
    BY <1>1, <1>6 DEF GpuOK
  <2>4. QED
    BY <1>3, <1>6, <2>1, <2>2, <2>3
<1>7. QED
  BY <1>4, <1>5, <1>6 DEF Start

(* A step that moves no task into or out of the semaphore. *)
LEMMA AsideKept ==
  ASSUME IInv, NEW t \in Tasks, NEW r \in TaskRow, RowOK(r), Keeps(tasks[t], r),
         tasks' = [tasks EXCEPT ![t] = r], permits' = permits,
         t \in Holders(tasks) <=> r.pc \in {"granted", "leasing", "executing"},
         r.pc = "queued" /\ ~r.killed => t \in Waiters(tasks)
  PROVE  TasksKept
<1>1. /\ tasks \in [Tasks -> TaskRow]
      /\ permits \in {0, 1} /\ GpuOK(tasks, permits)
  BY DEF IInv, TasksOK, RowsOK, TypeOK
<1>2. tasks'[t] = r /\ \A u \in Tasks \ {t} : tasks'[u] = tasks[u]
  BY <1>1
<1>3. RowsOK(tasks') /\ \A u \in Tasks : Keeps(tasks[u], tasks'[u])
  BY OneRow
<1>4. Holders(tasks') = Holders(tasks)
  BY <1>2 DEF Holders
<1>5. Waiters(tasks') \subseteq Waiters(tasks)
  BY <1>2 DEF Waiters
<1>6. GpuOK(tasks', permits')
  <2>1. \A u, v \in Holders(tasks') : u = v
    BY <1>1, <1>4 DEF GpuOK
  <2>2. permits' = 1 => Holders(tasks') = {} /\ Waiters(tasks') = {}
    BY <1>1, <1>4, <1>5 DEF GpuOK
  <2>3. QED
    BY <2>1, <2>2 DEF GpuOK
<1>7. QED
  BY <1>1, <1>3, <1>6 DEF TasksKept

(* A holder whose row becomes r releases the semaphore. *)
LEMMA HolderLeaves ==
  ASSUME IInv, NEW t \in Tasks, t \in Holders(tasks),
         NEW r \in TaskRow, RowOK(r), Keeps(tasks[t], r), r.pc \in Over,
         ReleaseGpu([tasks EXCEPT ![t] = r])
  PROVE  TasksKept
<1> DEFINE T == [tasks EXCEPT ![t] = r]
<1>1. /\ tasks \in [Tasks -> TaskRow]
      /\ permits \in {0, 1} /\ GpuOK(tasks, permits)
  BY DEF IInv, TasksOK, RowsOK, TypeOK
<1>2. T[t] = r /\ \A u \in Tasks \ {t} : T[u] = tasks[u]
  BY <1>1
<1>3. RowsOK(T) /\ \A u \in Tasks : Keeps(tasks[u], T[u])
  BY OneRow
<1>4. Holders(T) = {}
  BY <1>1, <1>2 DEF Holders, GpuOK, Over
<1>5. permits = 0
  BY <1>1 DEF GpuOK
<1>6. /\ RowsOK(tasks') /\ GpuOK(tasks', permits') /\ permits' \in {0, 1}
      /\ \A u \in Tasks : Keeps(T[u], tasks'[u])
  <2> HIDE DEF T
  <2>1. QED
    BY <1>3, <1>4, <1>5, Released DEF T
<1>7. \A u \in Tasks : Keeps(tasks[u], tasks'[u])
  <2> HIDE DEF T
  <2>1. QED
    BY <1>3, <1>6, KeepsTransitive
<1>8. QED
  BY <1>6, <1>7 DEF TasksKept

LEMMA LeaveKept ==
  ASSUME IInv, NEW t \in Tasks, t \in Holders(tasks), NEW s \in Terminal,
         Leave(t, s), tasks[t].killed => s = "cancelled"
  PROVE  TasksKept
<1> DEFINE l == tasks[t].leased
           r == [tasks[t] EXCEPT !.status = s, !.result = s, !.killed = FALSE,
                                 !.pc = IF l THEN "reporting" ELSE "done",
                                 !.wire = IF l THEN "report" ELSE @]
<1>1. tasks \in [Tasks -> TaskRow] /\ tasks[t] \in TaskRow /\ RowOK(tasks[t])
  BY DEF IInv, TasksOK, RowsOK
<1>2. tasks[t].pc \in {"granted", "leasing", "executing"}
  BY DEF Holders
<1>3. r \in TaskRow
  BY <1>1 DEF TaskRow, PCs
<1>4. r.pc \in Over /\ r.job = tasks[t].job /\ r.status = s /\ r.result = s
      /\ (r.wire = "report" => r.pc = "reporting") /\ r.known = tasks[t].known
      /\ ~r.killed
  BY <1>1, <1>2 DEF TaskRow, RowOK, Over
<1>5. RowOK(r)
  BY <1>1, <1>2, <1>3, <1>4 DEF RowOK, Over, Terminal
<1>6. Keeps(tasks[t], r)
  BY <1>1, <1>2, <1>4 DEF RowOK, Keeps, Called, Over, Terminal
<1>7. ReleaseGpu([tasks EXCEPT ![t] = r])
  <2>1. [tasks EXCEPT ![t].status = s, ![t].result = s, ![t].killed = FALSE,
            ![t].pc = IF l THEN "reporting" ELSE "done",
            ![t].wire = IF l THEN "report" ELSE @] = [tasks EXCEPT ![t] = r]
    BY <1>1
  <2>2. QED
    BY <2>1 DEF Leave
<1>8. QED
  <2> HIDE DEF r
  <2>1. QED
    BY <1>3, <1>4, <1>5, <1>6, <1>7, HolderLeaves

LEMMA TaskStepKept ==
  ASSUME IInv, NEW t \in Tasks, TaskStep(t)
  PROVE  TasksKept
<1>1. /\ tasks \in [Tasks -> TaskRow] /\ tasks[t] \in TaskRow /\ RowOK(tasks[t])
  BY DEF IInv, TasksOK, RowsOK
<1>2. CASE Start(t)
  BY <1>2, StartKept
<1>3. CASE Enter(t)
  <2> DEFINE r == [tasks[t] EXCEPT !.pc = "leasing", !.status = "running", !.wire = "lease"]
  <2>1. r \in TaskRow /\ RowOK(r) /\ Keeps(tasks[t], r) /\ r.pc = "leasing"
    BY <1>1, <1>3 DEF Enter, TaskRow, PCs, RowOK, Keeps, Called, Over, Terminal
  <2>2. tasks' = [tasks EXCEPT ![t] = r]
    BY <1>1, <1>3 DEF Enter, Entered
  <2>3. t \in Holders(tasks) /\ permits' = permits
    BY <1>3 DEF Enter, Holders
  <2> HIDE DEF r
  <2>4. QED
    BY <2>1, <2>2, <2>3, AsideKept
<1>4. CASE LeaseReturned(t)
  <2>1. t \in Holders(tasks) /\ tasks[t].pc = "leasing" /\ ~tasks[t].killed
    BY <1>4 DEF LeaseReturned, Holders
  <2>2. CASE /\ tasks' = [tasks EXCEPT ![t].pc = "executing", ![t].leased = TRUE]
             /\ UNCHANGED permits
    <3> DEFINE r == [tasks[t] EXCEPT !.pc = "executing", !.leased = TRUE]
    <3>1. r \in TaskRow /\ RowOK(r) /\ Keeps(tasks[t], r) /\ r.pc = "executing"
      BY <1>1, <2>1 DEF TaskRow, PCs, RowOK, Keeps, Called, Over, Terminal
    <3>2. tasks' = [tasks EXCEPT ![t] = r]
      BY <1>1, <2>2
    <3> HIDE DEF r
    <3>3. QED
      BY <2>1, <2>2, <3>1, <3>2, AsideKept
  <2>3. CASE ReleaseGpu([tasks EXCEPT ![t].status = "timed_out",
                           ![t].result = "timed_out", ![t].leased = TRUE,
                           ![t].pc = "reporting", ![t].wire = "report"])
    <3> DEFINE r == [tasks[t] EXCEPT !.status = "timed_out", !.result = "timed_out",
                        !.leased = TRUE, !.pc = "reporting", !.wire = "report"]
    <3>1. r \in TaskRow /\ RowOK(r) /\ Keeps(tasks[t], r) /\ r.pc \in Over
      BY <1>1, <2>1 DEF TaskRow, PCs, RowOK, Keeps, Called, Over, Terminal
    <3>2. ReleaseGpu([tasks EXCEPT ![t] = r])
      BY <1>1, <2>3
    <3> HIDE DEF r
    <3>3. QED
      BY <2>1, <3>1, <3>2, HolderLeaves
  <2>4. QED
    BY <1>4, <2>2, <2>3 DEF LeaseReturned
<1>5. CASE LeaseFailed(t)
  BY <1>5, LeaveKept DEF LeaseFailed, Holders, Terminal
<1>6. ASSUME NEW s \in Terminal, ExecutorEnds(t, s) PROVE TasksKept
  BY <1>6, LeaveKept DEF ExecutorEnds, Holders
<1>7. CASE CancelledInside(t)
  BY <1>7, LeaveKept DEF CancelledInside, Holders, Terminal
<1>8. CASE CancelledInQueue(t)
  <2> DEFINE r == [tasks[t] EXCEPT !.status = "cancelled", !.pc = "done",
                                   !.result = "cancelled", !.killed = FALSE]
  <2>1. r \in TaskRow /\ RowOK(r) /\ Keeps(tasks[t], r) /\ r.pc = "done"
    BY <1>1, <1>8 DEF CancelledInQueue, TaskRow, PCs, RowOK, Keeps, Called, Over, Terminal
  <2>2. tasks' = [tasks EXCEPT ![t] = r]
    BY <1>1, <1>8 DEF CancelledInQueue
  <2>3. t \notin Holders(tasks) /\ permits' = permits
    BY <1>8 DEF CancelledInQueue, Holders
  <2> HIDE DEF r
  <2>4. QED
    BY <2>1, <2>2, <2>3, AsideKept
<1>9. CASE ReportReturned(t)
  <2>1. t \notin Holders(tasks) /\ permits' = permits /\ tasks[t].pc = "reporting"
    BY <1>9 DEF ReportReturned, Holders
  <2>2. CASE tasks[t].wire = "ok" /\ tasks' = [tasks EXCEPT ![t].pc = "done"]
    <3> DEFINE r == [tasks[t] EXCEPT !.pc = "done"]
    <3>1. r \in TaskRow /\ RowOK(r) /\ Keeps(tasks[t], r) /\ r.pc = "done"
      BY <1>1, <2>1, <2>2 DEF TaskRow, PCs, RowOK, Keeps, Called, Over, Terminal
    <3>2. tasks' = [tasks EXCEPT ![t] = r]
      BY <1>1, <2>2
    <3> HIDE DEF r
    <3>3. QED
      BY <2>1, <3>1, <3>2, AsideKept
  <2>3. CASE /\ tasks[t].wire = "error"
             /\ tasks' = [tasks EXCEPT ![t].pc = "done", ![t].status = "failed",
                                       ![t].result = "failed"]
    <3> DEFINE r == [tasks[t] EXCEPT !.pc = "done", !.status = "failed", !.result = "failed"]
    <3>1. r \in TaskRow /\ RowOK(r) /\ Keeps(tasks[t], r) /\ r.pc = "done"
      BY <1>1, <2>1, <2>3 DEF TaskRow, PCs, RowOK, Keeps, Called, Over, Terminal
    <3>2. tasks' = [tasks EXCEPT ![t] = r]
      BY <1>1, <2>3
    <3> HIDE DEF r
    <3>3. QED
      BY <2>1, <3>1, <3>2, AsideKept
  <2>4. QED
    BY <1>9, <2>2, <2>3 DEF ReportReturned
<1>10. QED
  BY <1>2, <1>3, <1>4, <1>5, <1>6, <1>7, <1>8, <1>9 DEF TaskStep

(* The answer to a request touches only the row's wire. *)
LEMMA AnswerKept ==
  ASSUME IInv, NEW t \in Tasks, NEW a \in {"ok", "error"}, Answer(t, a), permits' = permits,
         tasks[t].wire # "idle"
  PROVE  TasksKept
<1> DEFINE r == [tasks[t] EXCEPT !.wire = a]
<1>1. /\ tasks \in [Tasks -> TaskRow] /\ tasks[t] \in TaskRow /\ RowOK(tasks[t])
  BY DEF IInv, TasksOK, RowsOK
<1>2. r \in TaskRow /\ RowOK(r) /\ Keeps(tasks[t], r)
  BY <1>1 DEF TaskRow, RowOK, Keeps, Called, Over
<1>3. r.pc = tasks[t].pc /\ r.killed = tasks[t].killed
  BY <1>1 DEF TaskRow
<1>4. tasks' = [tasks EXCEPT ![t] = r]
  BY <1>1 DEF Answer
<1> HIDE DEF r
<1>5. QED
  BY <1>2, <1>3, <1>4, AsideKept DEF Holders, Waiters

LEMMA UnchangedKept ==
  ASSUME IInv, UNCHANGED <<tasks, permits>>
  PROVE  TasksKept
BY KeepsReflexive DEF IInv, TypeOK, TasksOK, TasksKept

(* The two ends of a cancel handler. *)
LEMMA CancelCalledKept ==
  ASSUME IInv, NEW c \in Callers, NEW t \in Tasks, CancelCalled(c, t)
  PROVE  TasksKept /\ tasks'[t].pc # "none" /\ Called(tasks'[t])
<1> DEFINE r == [tasks[t] EXCEPT !.killed = (tasks[t].pc # "done")]
<1>1. /\ tasks \in [Tasks -> TaskRow] /\ tasks[t] \in TaskRow /\ RowOK(tasks[t])
      /\ tasks[t].known /\ tasks[t].status \notin Terminal /\ permits' = permits
  BY DEF IInv, TasksOK, RowsOK, CancelCalled
<1>2. r \in TaskRow /\ RowOK(r) /\ Keeps(tasks[t], r)
  BY <1>1 DEF TaskRow, RowOK, Keeps, Called, Over
<1>3. r.pc = tasks[t].pc /\ r.pc # "none" /\ (r.pc # "done" => r.killed)
  BY <1>1 DEF TaskRow, RowOK
<1>4. Called(r)
  BY <1>1, <1>2, <1>3 DEF Called, RowOK, TaskRow, Over
<1>5. tasks' = [tasks EXCEPT ![t] = r] /\ tasks'[t] = r
  BY <1>1 DEF CancelCalled
<1> HIDE DEF r
<1>6. QED
  BY <1>1, <1>2, <1>3, <1>4, <1>5, AsideKept DEF Holders, Waiters

LEMMA CancelResumesKept ==
  ASSUME IInv, NEW c \in Callers, CancelResumes(c)
  PROVE  TasksKept
<1> DEFINE t == callers[c].task
           r == [tasks[t] EXCEPT !.status = "cancelled",
                    !.result = IF @ = "none" THEN "cancelled" ELSE @]
<1>1. /\ t \in Tasks /\ tasks[t].pc = "done" /\ permits' = permits /\ Called(tasks[t])
      /\ tasks \in [Tasks -> TaskRow] /\ tasks[t] \in TaskRow /\ RowOK(tasks[t])
  BY DEF IInv, TasksOK, RowsOK, CancelResumes, HandlerOK, CalledOK
<1>2. r \in TaskRow /\ RowOK(r) /\ Keeps(tasks[t], r) /\ r.pc = "done"
  BY <1>1, ZenonT(60) DEF TaskRow, RowOK, Keeps, Called, Over, Terminal
<1>3. tasks' = [tasks EXCEPT ![t] = r]
  BY <1>1 DEF CancelResumes
<1> HIDE DEF r
<1>4. QED
  BY <1>1, <1>2, <1>3, AsideKept DEF Holders

-------------------------------------------------------------------------------
(* What the kept rows mean for the handlers and for Control's rows. *)
LEMMA KeptConsistent ==
  ASSUME IInv, TasksKept, made' = made
  PROVE  /\ TasksOK(tasks', permits', made')
         /\ \A c \in Callers : HandlerOK(tasks', callers[c])
         /\ \A j \in Jobs : HeldOK(tasks', j, control[j])
<1>1. /\ RowsOK(tasks) /\ RowsOK(tasks') /\ \A u \in Tasks : Keeps(tasks[u], tasks'[u])
      /\ Unmade(tasks, made) /\ LiveOnce(tasks)
  BY DEF IInv, TasksOK, TasksKept
<1>2. Unmade(tasks', made')
  <2>1. ASSUME NEW u \in Tasks, u > made PROVE tasks'[u].pc = "none"
    <3>1. tasks[u].job = None
      BY <1>1, <2>1 DEF Unmade, RowsOK, RowOK
    <3>2. tasks'[u].job = None
      BY <1>1, <3>1 DEF Keeps
    <3>3. QED
      BY <1>1, <3>2 DEF RowsOK, RowOK
  <2>2. QED
    BY <2>1 DEF Unmade
<1>3. LiveOnce(tasks')
  BY <1>1 DEF LiveOnce, Keeps
<1>4. ASSUME NEW c \in Callers
      PROVE  HandlerOK(tasks', callers[c])
  <2>1. HandlerOK(tasks, callers[c])
    BY DEF IInv
  <2>2. CalledOK(tasks', callers[c])
    <3>1. SUFFICES ASSUME callers[c].at = "awaiting"
                   PROVE  /\ callers[c].task \in Tasks /\ tasks'[callers[c].task].pc # "none"
                          /\ Called(tasks'[callers[c].task])
      BY DEF HandlerOK, CalledOK
    <3> DEFINE t == callers[c].task
    <3>2. t \in Tasks /\ tasks[t].pc # "none" /\ Called(tasks[t])
      BY <2>1, <3>1 DEF HandlerOK, CalledOK
    <3>3. Keeps(tasks[t], tasks'[t]) /\ RowOK(tasks[t]) /\ RowOK(tasks'[t])
      BY <1>1, <3>2 DEF RowsOK
    <3>4. QED
      BY <3>2, <3>3 DEF Keeps, RowOK
  <2>3. AskingOK(tasks', callers[c])
    BY <1>1, <2>1 DEF HandlerOK, AskingOK, Keeps
  <2>4. QED
    BY <2>2, <2>3 DEF HandlerOK
<1>5. ASSUME NEW j \in Jobs PROVE HeldOK(tasks', j, control[j])
  <2> DEFINE row == control[j]
             t == row.holder
  <2>1. HeldOK(tasks, j, row) /\ t \in 0 .. MaxTasks
    BY DEF IInv, TypeOK, ControlRow
  <2>2. t # 0 => t \in Tasks
    BY <2>1 DEF Tasks
  <2>3. t # 0 => tasks'[t].job = j
    BY <1>1, <2>1, <2>2 DEF HeldOK, Keeps
  <2>4. ASSUME t # 0, row.status \in Terminal
        PROVE  tasks'[t].pc \in Over /\ tasks'[t].result \in {row.status, "failed"}
    <3>1. tasks[t].pc \in Over /\ tasks[t].result \in {row.status, "failed"}
      BY <2>1, <2>4 DEF HeldOK
    <3>2. tasks[t].result # "none"
      BY <2>4, <3>1 DEF Terminal
    <3>3. QED
      BY <1>1, <2>2, <2>4, <3>1, <3>2 DEF Keeps
  <2>5. QED
    BY <2>1, <2>3, <2>4 DEF HeldOK
<1>6. QED
  BY <1>1, <1>2, <1>3, <1>4, <1>5 DEF TasksOK, TasksKept

(* Trimming drops rows of finished jobs from the dict and does no more. *)
LEMMA TrimmedKept ==
  ASSUME NEW T, RowsOK(T)
  PROVE  /\ RowsOK(Trimmed(T))
         /\ \A u \in Tasks : /\ Keeps(T[u], Trimmed(T)[u])
                             /\ Trimmed(T)[u].pc = T[u].pc
                             /\ Trimmed(T)[u].status = T[u].status
                             /\ Trimmed(T)[u].killed = T[u].killed
                             /\ Trimmed(T)[u].job = T[u].job
<1> DEFINE S == Trimmed(T)
<1>1. ASSUME NEW u \in Tasks
      PROVE  \/ S[u] = T[u]
             \/ T[u].status \in Terminal /\ S[u] = [T[u] EXCEPT !.known = FALSE]
  BY DEF Trimmed
<1>2. ASSUME NEW u \in Tasks
      PROVE  /\ S[u] \in TaskRow /\ RowOK(S[u]) /\ Keeps(T[u], S[u]) /\ S[u].pc = T[u].pc
             /\ S[u].status = T[u].status /\ S[u].killed = T[u].killed /\ S[u].job = T[u].job
  <2>1. T[u] \in TaskRow /\ RowOK(T[u])
    BY DEF RowsOK
  <2>2. CASE S[u] = T[u]
    BY <2>1, <2>2, KeepsReflexive
  <2>3. CASE T[u].status \in Terminal /\ S[u] = [T[u] EXCEPT !.known = FALSE]
    <3> HIDE DEF S
    <3>1. QED
      BY <2>1, <2>3 DEF TaskRow, RowOK, Keeps, Called, Over
  <2>4. QED
    BY <1>1, <2>2, <2>3
<1>3. S = [u \in Tasks |-> S[u]]
  BY DEF Trimmed
<1>4. S \in [Tasks -> TaskRow]
  <2> HIDE DEF S
  <2>1. QED
    BY <1>2, <1>3
<1>5. QED
  BY <1>2, <1>4 DEF RowsOK

LEMMA SubmitConsistent ==
  ASSUME IInv, NEW j \in Jobs, Submit(j)
  PROVE  IInv' /\ DoneKept
<1> DEFINE n == made + 1
           N == [NoTask EXCEPT !.job = j, !.pc = "created", !.known = TRUE]
           T == [tasks EXCEPT ![n] = N]
<1>1. /\ RowsOK(tasks) /\ GpuOK(tasks, permits) /\ Unmade(tasks, made) /\ LiveOnce(tasks)
      /\ tasks \in [Tasks -> TaskRow] /\ made \in Nat /\ permits \in {0, 1}
  BY DEF IInv, TypeOK, TasksOK
<1>2. n \in Tasks /\ tasks[n].pc = "none" /\ n \in 0 .. MaxTasks
  BY <1>1 DEF Submit, Unmade, Tasks
<1>3. N \in TaskRow /\ RowOK(N) /\ N.job = j /\ N.pc = "created" /\ N.status = "queued"
  BY DEF NoTask, TaskRow, PCs, RowOK, Terminal
<1> HIDE DEF N
<1>4. T[n] = N /\ \A u \in Tasks \ {n} : T[u] = tasks[u]
  BY <1>1, <1>2
<1>5. T \in [Tasks -> TaskRow] /\ \A u \in Tasks : RowOK(T[u])
  BY <1>1, <1>2, <1>3, <1>4 DEF RowsOK
<1>6. tasks' = Trimmed(T) /\ made' = n /\ UNCHANGED <<permits, callers, control>>
  BY DEF Submit, N
<1> HIDE DEF T
<1>7. /\ RowsOK(tasks')
      /\ \A u \in Tasks : /\ Keeps(T[u], tasks'[u]) /\ tasks'[u].pc = T[u].pc
                          /\ tasks'[u].status = T[u].status
                          /\ tasks'[u].killed = T[u].killed /\ tasks'[u].job = T[u].job
  BY <1>5, <1>6, TrimmedKept DEF RowsOK
<1>8. \A u \in Tasks \ {n} : Keeps(tasks[u], tasks'[u])
  BY <1>4, <1>7
<1>9. GpuOK(tasks', permits')
  <2>1. Holders(tasks') = Holders(tasks) /\ Waiters(tasks') = Waiters(tasks)
    BY <1>2, <1>3, <1>4, <1>7 DEF Holders, Waiters
  <2>2. QED
    BY <1>1, <1>6, <2>1 DEF GpuOK
<1>10. Unmade(tasks', made')
  BY <1>1, <1>4, <1>6, <1>7 DEF Unmade, Tasks
<1>11. LiveOnce(tasks')
  <2>1. ASSUME NEW t \in Tasks \ {n}, tasks[t].status \notin Terminal PROVE tasks[t].job # j
    <3>1. tasks[t].pc # "none" => tasks[t].known
      BY <1>1, <2>1 DEF RowsOK, RowOK
    <3>2. tasks[t].pc = "none" => tasks[t].job = None
      BY <1>1, <2>1 DEF RowsOK, RowOK
    <3>3. QED
      BY <2>1, <3>1, <3>2 DEF Submit, Known
  <2>2. QED
    BY <1>1, <1>3, <1>4, <1>7, <2>1 DEF LiveOnce
<1>12. ASSUME NEW c \in Callers
       PROVE  HandlerOK(tasks', callers'[c])
  <2>1. HandlerOK(tasks, callers[c]) /\ callers'[c] = callers[c]
    BY <1>6 DEF IInv
  <2>2. CalledOK(tasks', callers'[c])
    BY <1>2, <1>4, <1>7, <1>8, <2>1 DEF HandlerOK, CalledOK, Keeps
  <2>3. AskingOK(tasks', callers'[c])
    BY <1>2, <1>8, <2>1 DEF HandlerOK, AskingOK, Keeps
  <2>4. QED
    BY <2>2, <2>3 DEF HandlerOK
<1>13. ASSUME NEW i \in Jobs PROVE HeldOK(tasks', i, control'[i])
  <2> DEFINE row == control[i]
             t == row.holder
  <2>1. HeldOK(tasks, i, row) /\ t \in 0 .. MaxTasks /\ control'[i] = row
    BY <1>6 DEF IInv, TypeOK, ControlRow
  <2>2. t # 0 => t \in Tasks \ {n}
    <3>1. tasks[n].job = None
      BY <1>1, <1>2 DEF RowsOK, RowOK
    <3>2. QED
      BY <2>1, <3>1 DEF HeldOK, Tasks
  <2>3. t # 0 => tasks'[t].job = i
    BY <1>8, <2>1, <2>2 DEF HeldOK, Keeps
  <2>4. ASSUME t # 0, row.status \in Terminal
        PROVE  tasks'[t].pc \in Over /\ tasks'[t].result \in {row.status, "failed"}
    <3>1. tasks[t].pc \in Over /\ tasks[t].result \in {row.status, "failed"}
      BY <2>1, <2>4 DEF HeldOK
    <3>2. tasks[t].result # "none"
      BY <2>4, <3>1 DEF Terminal
    <3>3. QED
      BY <1>8, <2>2, <2>4, <3>1, <3>2 DEF Keeps
  <2>5. QED
    BY <2>1, <2>3, <2>4 DEF HeldOK
<1>14. TypeOK'
  BY <1>2, <1>6, <1>7 DEF IInv, TypeOK, RowsOK
<1>15. DoneKept
  BY <1>2, <1>8 DEF DoneKept
<1>16. QED
  BY <1>7, <1>9, <1>10, <1>11, <1>12, <1>13, <1>14, <1>15 DEF IInv, TasksOK

-------------------------------------------------------------------------------
LEMMA InitConsistent == Init => IInv
<1> SUFFICES ASSUME Init PROVE IInv
  OBVIOUS
<1>1. NoTask \in TaskRow /\ RowOK(NoTask)
  BY DEF NoTask, TaskRow, PCs, RowOK, Terminal, Over
<1>2. TypeOK
  BY <1>1 DEF Init, TypeOK, HandlerRow, ControlRow
<1>3. RowsOK(tasks)
  BY <1>1 DEF Init, RowsOK
<1>4. GpuOK(tasks, permits) /\ Unmade(tasks, made) /\ LiveOnce(tasks)
  BY DEF Init, NoTask, GpuOK, Holders, Waiters, Unmade, LiveOnce
<1>5. ASSUME NEW c \in Callers PROVE HandlerOK(tasks, callers[c])
  BY DEF Init, HandlerOK, CalledOK, AskingOK
<1>6. ASSUME NEW j \in Jobs PROVE HeldOK(tasks, j, control[j])
  BY DEF Init, HeldOK
<1>7. QED
  BY <1>2, <1>3, <1>4, <1>5, <1>6 DEF IInv, TasksOK

(* A step that keeps the tasks and leaves handlers and rows in order. *)
LEMMA KeptIsConsistent ==
  ASSUME IInv, TasksKept, made' = made,
         callers' \in [Callers -> HandlerRow], control' \in [Jobs -> ControlRow],
         \A c \in Callers : callers'[c] = callers[c] \/ HandlerOK(tasks', callers'[c]),
         \A j \in Jobs : control'[j] = control[j] \/ HeldOK(tasks', j, control'[j])
  PROVE  IInv' /\ DoneKept
<1>1. /\ TasksOK(tasks', permits', made')
      /\ \A c \in Callers : HandlerOK(tasks', callers[c])
      /\ \A j \in Jobs : HeldOK(tasks', j, control[j])
  BY KeptConsistent
<1>2. \A c \in Callers : HandlerOK(tasks', callers'[c])
  BY <1>1
<1>3. \A j \in Jobs : HeldOK(tasks', j, control'[j])
  BY <1>1
<1>4. TypeOK'
  BY <1>1 DEF IInv, TypeOK, TasksKept, RowsOK
<1>5. QED
  BY <1>1, <1>2, <1>3, <1>4 DEF IInv, TasksKept, DoneKept

LEMMA Typed ==
  ASSUME IInv
  PROVE  callers \in [Callers -> HandlerRow] /\ control \in [Jobs -> ControlRow]
BY DEF IInv, TypeOK

LEMMA ControlStepConsistent ==
  ASSUME IInv, NEW t \in Tasks, ControlStep(t)
  PROVE  IInv' /\ DoneKept
<1>1. /\ tasks[t] \in TaskRow /\ RowOK(tasks[t])
      /\ UNCHANGED <<made, permits, callers>>
  BY DEF IInv, TypeOK, TasksOK, RowsOK, ControlStep, ControlLeases, ControlCompletes, RequestLost
<1>2. Answer(t, "ok") \/ Answer(t, "error")
  BY DEF ControlStep, ControlLeases, ControlCompletes, RequestLost, Answered
<1>3. TasksKept
  <2>1. tasks[t].wire # "idle"
    BY DEF ControlStep, ControlLeases, ControlCompletes, RequestLost
  <2>2. QED
    BY <1>1, <1>2, <2>1, AnswerKept
<1> DEFINE j == tasks[t].job
<1>4. j \in Jobs
  <2>1. tasks[t].wire # "idle"
    BY DEF ControlStep, ControlLeases, ControlCompletes, RequestLost
  <2>2. QED
    BY <1>1, <2>1 DEF RowOK, TaskRow
<1>5. tasks'[t].job = j /\ t # 0 /\ t \in 0 .. MaxTasks
  BY <1>3 DEF TasksKept, Keeps, Tasks
<1>6. callers' \in [Callers -> HandlerRow] /\ control \in [Jobs -> ControlRow]
  BY <1>1, Typed
<1>7. CASE control' = control
  BY <1>1, <1>3, <1>6, <1>7, KeptIsConsistent
<1>8. CASE control' = [control EXCEPT ![j] = [status |-> "leased", holder |-> t]]
  <2>1. HeldOK(tasks', j, [status |-> "leased", holder |-> t])
    BY <1>5 DEF HeldOK, Terminal
  <2>2. [status |-> "leased", holder |-> t] \in ControlRow
    BY <1>5 DEF ControlRow
  <2>3. /\ control' \in [Jobs -> ControlRow]
        /\ \A i \in Jobs : control'[i] = control[i] \/ HeldOK(tasks', i, control'[i])
    BY <1>4, <1>6, <1>8, <2>1, <2>2
  <2>4. QED
    BY <1>1, <1>3, <1>6, <2>3, KeptIsConsistent
<1>9. CASE /\ tasks[t].wire = "report"
           /\ control' = [control EXCEPT ![j] = [status |-> tasks[t].result, holder |-> t]]
  <2> DEFINE v == tasks[t].result
  <2>1. tasks[t].pc = "reporting" /\ v \in Terminal
    BY <1>1, <1>9 DEF RowOK
  <2>2. tasks'[t].pc \in Over /\ tasks'[t].result \in {v, "failed"}
    BY <1>3, <2>1 DEF TasksKept, Keeps, Over, Terminal
  <2>3. HeldOK(tasks', j, [status |-> v, holder |-> t])
    BY <1>5, <2>1, <2>2 DEF HeldOK, Terminal
  <2>4. [status |-> v, holder |-> t] \in ControlRow
    BY <1>5, <2>1 DEF ControlRow
  <2>5. /\ control' \in [Jobs -> ControlRow]
        /\ \A i \in Jobs : control'[i] = control[i] \/ HeldOK(tasks', i, control'[i])
    BY <1>4, <1>6, <1>9, <2>3, <2>4
  <2>6. QED
    BY <1>1, <1>3, <1>6, <2>5, KeptIsConsistent
<1>10. QED
  BY <1>7, <1>8, <1>9 DEF ControlStep, ControlLeases, ControlCompletes, RequestLost

LEMMA CallerStepConsistent ==
  ASSUME IInv, NEW c \in Callers, CallerStep(c) \/ \E t \in Tasks : CancelCalled(c, t)
  PROVE  IInv' /\ DoneKept
<1>1. callers \in [Callers -> HandlerRow] /\ control \in [Jobs -> ControlRow]
  BY Typed
<1>2. ASSUME NEW h \in HandlerRow, callers' = [callers EXCEPT ![c] = h],
             TasksKept, made' = made, control' = control,
             HandlerOK(tasks', h)
      PROVE  IInv' /\ DoneKept
  <2>1. /\ callers' \in [Callers -> HandlerRow]
        /\ \A d \in Callers : callers'[d] = callers[d] \/ HandlerOK(tasks', callers'[d])
    BY <1>1, <1>2
  <2>2. QED
    BY <1>1, <1>2, <2>1, KeptIsConsistent
<1>3. HandlerOK(tasks', [at |-> "idle", task |-> 0])
  BY DEF HandlerOK, CalledOK, AskingOK
<1>4. [at |-> "idle", task |-> 0] \in HandlerRow
  BY DEF HandlerRow
<1>5. CASE CancelResumes(c)
  <2> DEFINE t == callers[c].task
  <2>1. TasksKept /\ t \in Tasks /\ tasks[t].pc = "done"
    BY <1>5, CancelResumesKept DEF CancelResumes, IInv, HandlerOK, CalledOK
  <2>2. tasks'[t].pc = "done"
    BY <2>1 DEF TasksKept, Keeps
  <2>3. HandlerOK(tasks', [at |-> "asking", task |-> t])
    BY <2>1, <2>2 DEF HandlerOK, AskingOK, CalledOK
  <2>4. [at |-> "asking", task |-> t] \in HandlerRow
    BY <2>1 DEF Tasks, HandlerRow
  <2>5. made' = made /\ control' = control
    BY <1>5 DEF CancelResumes
  <2>6. \/ callers' = [callers EXCEPT ![c] = [at |-> "idle", task |-> 0]]
        \/ callers' = [callers EXCEPT ![c] = [at |-> "asking", task |-> t]]
    BY <1>5 DEF CancelResumes
  <2>7. QED
    BY <1>2, <1>3, <1>4, <2>1, <2>3, <2>4, <2>5, <2>6
<1>6. ASSUME NEW t \in Tasks, CancelCalled(c, t) PROVE IInv' /\ DoneKept
  <2> DEFINE h == [at |-> "awaiting", task |-> t]
  <2>1. TasksKept /\ tasks'[t].pc # "none" /\ Called(tasks'[t])
    BY <1>6, CancelCalledKept
  <2>2. HandlerOK(tasks', h) /\ h \in HandlerRow
    BY <2>1 DEF HandlerOK, CalledOK, AskingOK, Tasks, HandlerRow
  <2>3. callers' = [callers EXCEPT ![c] = h] /\ made' = made /\ control' = control
    BY <1>6 DEF CancelCalled
  <2> HIDE DEF h
  <2>4. QED
    BY <1>2, <2>1, <2>2, <2>3
<1>7. CASE ControlCancels(c)
  <2> DEFINE j == tasks[callers[c].task].job
             row == control[j]
  <2>1. /\ UNCHANGED <<tasks, made, permits>>
        /\ callers' = [callers EXCEPT ![c] = [at |-> "idle", task |-> 0]]
        /\ control' = [control EXCEPT ![j] =
                          IF @.status = "pending" THEN [@ EXCEPT !.status = "cancelled"] ELSE @]
    BY <1>7 DEF ControlCancels
  <2>2. TasksKept
    BY <2>1, UnchangedKept
  <2>3. callers[c].task \in Tasks /\ j \in Jobs
    BY <1>7 DEF ControlCancels, IInv, HandlerOK, AskingOK, TypeOK, TasksOK, RowsOK, RowOK, TaskRow
  <2>4. HeldOK(tasks, j, row) /\ row \in ControlRow
    BY <1>1, <2>3 DEF IInv
  <2>5. row.status = "pending" =>
          /\ HeldOK(tasks', j, [row EXCEPT !.status = "cancelled"])
          /\ [row EXCEPT !.status = "cancelled"]
                \in ControlRow
    BY <2>4 DEF HeldOK, Terminal, ControlRow
  <2>6. /\ control' \in [Jobs -> ControlRow]
        /\ \A i \in Jobs : control'[i] = control[i] \/ HeldOK(tasks', i, control'[i])
    BY <1>1, <2>1, <2>3, <2>5
  <2>7. /\ callers' \in [Callers -> HandlerRow]
        /\ \A d \in Callers : callers'[d] = callers[d] \/ HandlerOK(tasks', callers'[d])
    BY <1>1, <1>3, <1>4, <2>1
  <2>8. QED
    BY <2>1, <2>2, <2>6, <2>7, KeptIsConsistent
<1>8. CASE CancelRequestLost(c)
  BY <1>2, <1>3, <1>4, <1>8, UnchangedKept DEF CancelRequestLost
<1>9. QED
  BY <1>5, <1>6, <1>7, <1>8 DEF CallerStep

LEMMA StepConsistent == IInv /\ [Next]_vars => IInv' /\ DoneKept
<1> SUFFICES ASSUME IInv, [Next]_vars PROVE IInv' /\ DoneKept
  OBVIOUS
<1>1. ASSUME NEW j \in Jobs, Submit(j) PROVE IInv' /\ DoneKept
  BY <1>1, SubmitConsistent
<1>2. ASSUME NEW j \in Jobs, LeaseExpires(j) PROVE IInv' /\ DoneKept
  <2>1. TasksKept /\ made' = made /\ callers' = callers
    BY <1>2, UnchangedKept DEF LeaseExpires
  <2>2. HeldOK(tasks', j, [status |-> "pending", holder |-> 0])
    BY DEF HeldOK
  <2>3. [status |-> "pending", holder |-> 0] \in ControlRow
    BY DEF ControlRow
  <2>4. /\ control' \in [Jobs -> ControlRow] /\ callers' \in [Callers -> HandlerRow]
        /\ \A i \in Jobs : control'[i] = control[i] \/ HeldOK(tasks', i, control'[i])
    BY <1>2, <2>1, <2>2, <2>3, Typed DEF LeaseExpires
  <2>5. QED
    BY <2>1, <2>4, KeptIsConsistent
<1>3. ASSUME NEW t \in Tasks, TaskStep(t) PROVE IInv' /\ DoneKept
  <2>1. TasksKept
    BY <1>3, TaskStepKept
  <2>2. UNCHANGED <<made, callers, control>>
    BY <1>3 DEF TaskStep, Start, Enter, LeaseReturned, LeaseFailed, ExecutorEnds,
                CancelledInside, CancelledInQueue, ReportReturned, Leave
  <2>3. QED
    BY <2>1, <2>2, Typed, KeptIsConsistent
<1>4. ASSUME NEW t \in Tasks, ControlStep(t) PROVE IInv' /\ DoneKept
  BY <1>4, ControlStepConsistent
<1>5. ASSUME NEW c \in Callers, CallerStep(c) \/ \E t \in Tasks : CancelCalled(c, t)
      PROVE  IInv' /\ DoneKept
  BY <1>5, CallerStepConsistent
<1>6. CASE UNCHANGED vars
  BY <1>6, UnchangedKept, KeptIsConsistent, Typed DEF vars
<1>7. QED
  BY <1>1, <1>2, <1>3, <1>4, <1>5, <1>6 DEF Next

-------------------------------------------------------------------------------
(* The inductive invariant holds in every reachable state, whatever is     *)
(* submitted, cancelled, lost or expired.                                  *)
THEOREM Consistency == Spec => []IInv
BY InitConsistent, StepConsistent, PTL DEF Spec

(* Every variable stays in its type: the semaphore's value is 0 or 1.      *)
THEOREM TypeCorrect == Spec => []TypeOK
BY Consistency, PTL DEF IInv

(* The single-GPU promise of the supervisor: two jobs never run at once.   *)
THEOREM OneJobOnGpuHolds == Spec => []OneJobOnGpu
<1>1. IInv => OneJobOnGpu
  BY DEF IInv, TasksOK, GpuOK, OneJobOnGpu, OnGpu, Holders
<1>2. QED
  BY <1>1, Consistency, PTL

(* A released permit always reaches a live waiter if there is one.         *)
THEOREM NoIdleGpuHolds == Spec => []NoIdleGpu
<1>1. IInv => NoIdleGpu
  BY DEF IInv, TypeOK, TasksOK, GpuOK, NoIdleGpu
<1>2. QED
  BY <1>1, Consistency, PTL

(* The permit is one job's at a time, and never idle beside a waiter.      *)
THEOREM GpuSharedHolds == Spec => []GpuShared
BY OneJobOnGpuHolds, NoIdleGpuHolds, PTL DEF GpuShared

(* Submission is idempotent under trimming: one unfinished task per job.   *)
THEOREM OneLiveTaskPerJobHolds == Spec => []OneLiveTaskPerJob
<1>1. IInv => OneLiveTaskPerJob
  BY DEF IInv, TasksOK, LiveOnce, OneLiveTaskPerJob
<1>2. QED
  BY <1>1, Consistency, PTL

(* A verdict Control took from a lease is its holder's.                    *)
THEOREM VerdictIsTheHoldersHolds == Spec => []VerdictIsTheHolders
<1>1. IInv => VerdictIsTheHolders
  BY DEF IInv, HeldOK, Over, VerdictIsTheHolders
<1>2. QED
  BY <1>1, Consistency, PTL

(* A status other than failed survives whatever follows the task's end.    *)
THEOREM FinishedStatusStays == Spec => FinishedStays
<1> DEFINE A == \A t \in Tasks :
                   tasks[t].pc = "done" /\ tasks[t].status \in Terminal \ {"failed"}
                   => tasks'[t].status = tasks[t].status
<1>1. IInv /\ [Next]_vars => [A]_vars
  BY StepConsistent DEF DoneKept, Keeps
<1>2. QED
  BY <1>1, Consistency, PTL DEF Spec, FinishedStays

===============================================================================
