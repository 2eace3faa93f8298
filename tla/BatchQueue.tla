------------------------------- MODULE BatchQueue ------------------------------
(***************************************************************************)
(* LLMBatchQueue (agents/utils/batch_queue.py): requests for a local model *)
(* wait for a window of time or a full batch and are generated together.   *)
(*                                                                         *)
(* The queue's lock is held across no await but flush's, so whatever runs  *)
(* under it is one step; _process_batch awaits the generations between its *)
(* two critical sections.  Processing tasks are counted, not named: those  *)
(* that sleep for the window (timers) and those that start at once         *)
(* (starts).                                                               *)
(***************************************************************************)
EXTENDS Naturals, Sequences, FiniteSets

CONSTANTS Requests,    \* calls of submit for a local model
          MaxBatch,    \* max_batch_size
          Flushes      \* is flush() ever called?

ASSUME MaxBatchAssumption == MaxBatch \in Nat \ {0}
ASSUME FlushesAssumption == Flushes \in BOOLEAN

VARIABLES queue,       \* requests waiting to be processed
          processing,
          pending,     \* _pending_timer is not None
          timers, starts,
          batches,     \* the batches between the two critical sections
          passes,      \* sets of requests being generated together
          generated,   \* how the generation of a request ended
          futures,
          flushing     \* flush holds the lock and waits for it

vars == <<queue, processing, pending, timers, starts, batches, passes, generated,
          futures, flushing>>

FutureStates == {"none", "pending", "result", "error", "cancelled"}

-------------------------------------------------------------------------------
Waiting == {queue[i] : i \in DOMAIN queue}

(* queue[:max_batch_size] *)
FirstBatch == {queue[i] : i \in {k \in DOMAIN queue : k <= MaxBatch}}

Full(q) == Len(q) >= MaxBatch

Submit(r) ==
    /\ ~flushing /\ futures[r] = "none"
    /\ futures' = [futures EXCEPT ![r] = "pending"]
    /\ queue' = Append(queue, r)
    /\ IF ~processing /\ Full(queue')
       THEN starts' = starts + 1 /\ UNCHANGED <<timers, pending>>
       ELSE IF ~processing /\ ~pending
       THEN timers' = timers + 1 /\ pending' = TRUE /\ UNCHANGED starts
       ELSE UNCHANGED <<starts, timers, pending>>
    /\ UNCHANGED <<processing, batches, passes, generated, flushing>>

(* The first critical section of _process_batch: a batch is taken, and     *)
(* generated in one forward pass when its requests are compatible, in one  *)
(* per request otherwise.                                                  *)
TakeBatch ==
    /\ processing' = TRUE /\ pending' = FALSE
    /\ batches' = batches \cup {FirstBatch}
    /\ queue' = SubSeq(queue, MaxBatch + 1, Len(queue))
    /\ \/ passes' = passes \cup {{r} : r \in FirstBatch}
       \/ Cardinality(FirstBatch) > 1 /\ passes' = passes \cup {FirstBatch}

(* Mutant: the timer stays set when a batch is taken. *)
ProcessKeepingTimer ==
    \/ /\ ~processing /\ queue # <<>>
       /\ processing' = TRUE /\ UNCHANGED pending
       /\ batches' = batches \cup {FirstBatch}
       /\ queue' = SubSeq(queue, MaxBatch + 1, Len(queue))
       /\ passes' = passes \cup {{r} : r \in FirstBatch}
    \/ /\ processing \/ queue = <<>>
       /\ UNCHANGED <<queue, pending, processing, batches, passes>>

Process ==
    \/ ~processing /\ queue # <<>> /\ TakeBatch
    \/ /\ processing \/ queue = <<>>
       /\ pending' = FALSE
       /\ UNCHANGED <<queue, processing, batches, passes>>

TimerFires ==
    /\ ~flushing /\ timers > 0
    /\ timers' = timers - 1
    /\ Process
    /\ UNCHANGED <<starts, generated, futures, flushing>>

StartRuns ==
    /\ ~flushing /\ starts > 0
    /\ starts' = starts - 1
    /\ Process
    /\ UNCHANGED <<timers, generated, futures, flushing>>

(* A forward pass ends, whether or not its batch still waits for it. *)
PassEnds(p, how) ==
    /\ passes' = passes \ {p}
    /\ generated' = [r \in Requests |-> IF r \in p THEN how ELSE generated[r]]
    /\ UNCHANGED <<queue, processing, pending, timers, starts, batches, futures, flushing>>

Route(b, how) ==
    futures' = [r \in Requests |-> IF r \in b /\ futures[r] = "pending" THEN how ELSE futures[r]]

(* Mutant: what is left in the queue waits for the next submit. *)
FinishOnly(b) ==
    /\ batches' = batches \ {b}
    /\ processing' = FALSE
    /\ UNCHANGED <<queue, passes, generated, flushing, starts, timers, pending>>

(* The finally block. *)
Finish(b) ==
    /\ batches' = batches \ {b}
    /\ processing' = FALSE
    /\ IF queue = <<>> THEN UNCHANGED <<starts, timers, pending>>
       ELSE IF Full(queue)
       THEN starts' = starts + 1 /\ UNCHANGED <<timers, pending>>
       ELSE timers' = timers + 1 /\ pending' = TRUE /\ UNCHANGED starts
    /\ UNCHANGED <<queue, passes, generated, flushing>>

Answer(b) ==
    /\ \A r \in b : generated[r] = "ok"
    /\ Route(b, "result")
    /\ Finish(b)

(* gather raises the first error at once and leaves the other generations  *)
(* running.                                                                *)
Fail(b) ==
    /\ \E r \in b : generated[r] = "failed"
    /\ Route(b, "error")
    /\ Finish(b)

(* The caller of submit is cancelled, and its future with it. *)
CancelRequest(r) ==
    /\ futures[r] = "pending"
    /\ futures' = [futures EXCEPT ![r] = "cancelled"]
    /\ UNCHANGED <<queue, processing, pending, timers, starts, batches, passes, generated, flushing>>

(* flush calls _process_batch, which waits for the lock flush holds: no    *)
(* step follows.                                                           *)
Flush ==
    /\ Flushes /\ ~flushing
    /\ queue # <<>> /\ ~processing
    /\ flushing' = TRUE
    /\ UNCHANGED <<queue, processing, pending, timers, starts, batches, passes, generated, futures>>

-------------------------------------------------------------------------------
Init == /\ queue = <<>> /\ processing = FALSE /\ pending = FALSE
        /\ timers = 0 /\ starts = 0
        /\ batches = {} /\ passes = {}
        /\ generated = [r \in Requests |-> "none"]
        /\ futures = [r \in Requests |-> "none"]
        /\ flushing = FALSE

Generate == \E p \in passes, how \in {"ok", "failed"} : PassEnds(p, how)
Conclude == \E b \in batches : Answer(b) \/ Fail(b)

Next == \/ \E r \in Requests : Submit(r) \/ CancelRequest(r)
        \/ TimerFires \/ StartRuns \/ Generate \/ Conclude \/ Flush

Spec == Init /\ [][Next]_vars

(* The event loop runs every task that is ready, and a generation ends.    *)
FairSpec == /\ Spec
            /\ WF_vars(TimerFires) /\ WF_vars(StartRuns)
            /\ WF_vars(Generate) /\ WF_vars(Conclude)

-------------------------------------------------------------------------------
(* The queue's state keeps its shape: no batch is empty. *)
TypeOK == /\ queue \in Seq(Requests)
          /\ processing \in BOOLEAN /\ pending \in BOOLEAN /\ flushing \in BOOLEAN
          /\ timers \in Nat /\ starts \in Nat
          /\ batches \subseteq (SUBSET Requests) \ {{}} /\ passes \subseteq SUBSET Requests
          /\ generated \in [Requests -> {"none", "ok", "failed"}]
          /\ futures \in [Requests -> FutureStates]

(* No wake-up is lost: while requests wait and none are processed, a task  *)
(* that will process them exists, whatever timers fired or full batches    *)
(* came before.                                                            *)
SomeoneWillProcess == queue # <<>> /\ ~processing => timers + starts > 0

(* Batches are processed one after the other. *)
OneBatch == /\ \A b, c \in batches : b = c
            /\ processing <=> batches # {}

(* A caller that still waits has its request in the queue or in the batch  *)
(* being processed: a failed batch leaves no caller behind.                *)
UnansweredIsHeld == \A r \in Requests :
    futures[r] = "pending" => r \in Waiting \cup UNION batches

(* Between them: every pending request is where somebody will find it.     *)
RequestsAreKept == OneBatch /\ SomeoneWillProcess /\ UnansweredIsHeld

(* Every call of submit returns with an answer, unless flush was called    *)
(* while a request waited: flush then waits for the lock it holds itself,  *)
(* and everybody waits for flush.                                          *)
Answered == \A r \in Requests :
    futures[r] = "pending" ~> futures[r] # "pending" \/ flushing

===============================================================================
