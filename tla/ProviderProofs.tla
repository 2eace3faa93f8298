---------------------------- MODULE ProviderProofs -----------------------------
(***************************************************************************)
(* Proofs about the two ways a text is generated: by the local model       *)
(* behind BatchQueue, and by the provider behind TokenBudget.              *)
(*                                                                         *)
(* BatchQueue.  A wake-up is never lost because _pending_timer set means   *)
(* that a timer is sleeping: the counts of tasks need no other bound.      *)
(* That no caller is left behind follows from there being one batch, whose *)
(* futures are all settled when it ends.                                   *)
(***************************************************************************)
EXTENDS BatchQueue, TokenBudget, FiniteSetTheorems, SequenceTheorems, TLAPS

TimerPending == pending => timers > 0

IInv == TypeOK /\ OneBatch /\ TimerPending /\ SomeoneWillProcess /\ UnansweredIsHeld

(* What one pass over the queue takes and what it leaves make up the queue. *)
LEMMA Split ==
    ASSUME NEW q \in Seq(Requests), NEW m \in Nat \ {0}, q # <<>>
    PROVE  /\ {q[i] : i \in {k \in DOMAIN q : k <= m}} \in (SUBSET Requests) \ {{}}
           /\ SubSeq(q, m + 1, Len(q)) \in Seq(Requests)
           /\ {q[i] : i \in DOMAIN q} \subseteq
                {q[i] : i \in {k \in DOMAIN q : k <= m}}
                \cup {SubSeq(q, m + 1, Len(q))[i] : i \in DOMAIN SubSeq(q, m + 1, Len(q))}
<1> DEFINE first == {q[i] : i \in {k \in DOMAIN q : k <= m}}
           rest == SubSeq(q, m + 1, Len(q))
<1>1. DOMAIN q = 1 .. Len(q) /\ Len(q) \in Nat /\ Len(q) # 0
  OBVIOUS
<1>2. first \subseteq Requests
  BY <1>1
<1>3. q[1] \in first
  <2>1. 1 \in {k \in DOMAIN q : k <= m}
    BY <1>1
  <2> QED BY <2>1
<1>4. rest \in Seq(Requests) /\ Len(rest) = IF m + 1 <= Len(q) THEN Len(q) - m ELSE 0
  BY <1>1, SubSeqProperties
<1>5. \A k \in 1 .. Len(q) - m : rest[k] = q[m + k]
  BY <1>1, SubSeqProperties
<1>6. ASSUME NEW i \in DOMAIN q
      PROVE  q[i] \in first \cup {rest[k] : k \in DOMAIN rest}
  <2>1. CASE i <= m
    BY <2>1
  <2>2. CASE i > m
    <3>1. i - m \in 1 .. Len(q) - m
      BY <1>1, <2>2
    <3>2. DOMAIN rest = 1 .. Len(q) - m
      BY <1>1, <1>4, <2>2
    <3>3. rest[i - m] = q[m + (i - m)] /\ m + (i - m) = i
      BY <1>1, <1>5, <3>1
    <3> QED BY <3>1, <3>2, <3>3
  <2> QED BY <1>1, <2>1, <2>2
<1> QED BY <1>2, <1>3, <1>4, <1>6

(* _process_batch up to its first await, run by a task that is gone then.  *)
LEMMA ProcessKeeps ==
    ASSUME IInv, Process, UNCHANGED <<generated, futures, flushing>>,
           timers' \in Nat, starts' \in Nat
    PROVE  /\ TypeOK' /\ OneBatch' /\ UnansweredIsHeld' /\ ~pending'
           /\ SomeoneWillProcess'
<1>1. CASE ~processing /\ queue # <<>> /\ TakeBatch
  <2>1. queue \in Seq(Requests) /\ MaxBatch \in Nat \ {0}
    BY MaxBatchAssumption DEF IInv, TypeOK
  <2>2. /\ FirstBatch \in (SUBSET Requests) \ {{}}
        /\ queue' \in Seq(Requests)
        /\ Waiting \subseteq FirstBatch \cup Waiting'
    <3>1. queue' = SubSeq(queue, MaxBatch + 1, Len(queue))
      BY <1>1 DEF TakeBatch
    <3>2. queue # <<>>
      BY <1>1
    <3>3. FirstBatch \in (SUBSET Requests) \ {{}}
      BY <2>1, <3>2, Split, Zenon DEF FirstBatch
    <3>4. queue' \in Seq(Requests)
      BY <2>1, <3>1, <3>2, Split, Zenon
    <3>5. Waiting' = {SubSeq(queue, MaxBatch + 1, Len(queue))[i] :
                        i \in DOMAIN SubSeq(queue, MaxBatch + 1, Len(queue))}
      BY <3>1, Zenon DEF Waiting
    <3>6. Waiting \subseteq FirstBatch \cup Waiting'
      BY <2>1, <3>2, <3>5, Split, Zenon DEF Waiting, FirstBatch
    <3> QED BY <3>3, <3>4, <3>6
  <2>3. batches = {} /\ batches' = {FirstBatch}
    BY <1>1 DEF IInv, OneBatch, TakeBatch
  <2>4. passes' \subseteq SUBSET Requests
    <3>1. passes' \subseteq passes \cup {{r} : r \in FirstBatch} \cup {FirstBatch}
      BY <1>1, Zenon DEF TakeBatch
    <3>2. \A p \in {{r} : r \in FirstBatch} : p \subseteq Requests
      BY <2>2
    <3> QED BY <2>2, <3>1, <3>2 DEF IInv, TypeOK
  <2>5. TypeOK'
    BY <1>1, <2>2, <2>3, <2>4 DEF IInv, TypeOK, TakeBatch
  <2>6. UnansweredIsHeld'
    BY <2>2, <2>3 DEF IInv, UnansweredIsHeld
  <2> QED BY <1>1, <2>3, <2>5, <2>6 DEF OneBatch, SomeoneWillProcess, TakeBatch
<1>2. CASE /\ processing \/ queue = <<>>
           /\ pending' = FALSE
           /\ UNCHANGED <<queue, processing, batches, passes>>
  <2>1. TypeOK'
    BY <1>2 DEF IInv, TypeOK
  <2>2. OneBatch' /\ ~pending'
    BY <1>2 DEF IInv, OneBatch
  <2>3. UnansweredIsHeld'
    BY <1>2 DEF IInv, UnansweredIsHeld, Waiting
  <2>4. SomeoneWillProcess'
    BY <1>2 DEF SomeoneWillProcess
  <2> QED BY <2>1, <2>2, <2>3, <2>4
<1> QED BY <1>1, <1>2 DEF Process

(* The end of a batch: settled futures, and someone for what is queued.    *)
LEMMA FinishKeeps ==
    ASSUME IInv, NEW b \in batches, NEW how \in {"result", "error"}, Route(b, how), Finish(b)
    PROVE  IInv'
<1>1. batches = {b} /\ processing /\ batches' = {} /\ ~processing'
  BY DEF IInv, OneBatch, Finish
<1>2. timers' \in Nat /\ starts' \in Nat /\ pending' \in BOOLEAN
  <2>1. timers \in Nat /\ starts \in Nat /\ pending \in BOOLEAN
    BY DEF IInv, TypeOK
  <2>2. timers' = timers \/ timers' = timers + 1
    BY Zenon DEF Finish
  <2>3. starts' = starts \/ starts' = starts + 1
    BY Zenon DEF Finish
  <2>4. pending' \in BOOLEAN
    BY <2>1, Zenon DEF Finish
  <2>5. timers' \in Nat /\ starts' \in Nat
    BY <2>1, <2>2, <2>3
  <2> QED BY <2>4, <2>5
<1>3. futures' \in [Requests -> FutureStates]
  BY DEF IInv, TypeOK, Route, FutureStates
<1>4. TypeOK'
  BY <1>1, <1>2, <1>3 DEF IInv, TypeOK, Finish
<1>5. TimerPending' /\ SomeoneWillProcess'
  BY DEF IInv, TypeOK, TimerPending, SomeoneWillProcess, Finish
<1>6. UnansweredIsHeld'
  <2> SUFFICES ASSUME NEW r \in Requests, futures'[r] = "pending"
               PROVE  r \in Waiting' \cup UNION batches'
    BY DEF UnansweredIsHeld
  <2>1. futures[r] = "pending" /\ r \notin b
    BY DEF Route
  <2>2. r \in Waiting
    BY <1>1, <2>1 DEF IInv, UnansweredIsHeld
  <2> QED BY <2>2 DEF Finish, Waiting
<1> QED BY <1>1, <1>4, <1>5, <1>6 DEF IInv, OneBatch

LEMMA SubmitKeeps ==
    ASSUME IInv, NEW r \in Requests, Submit(r)
    PROVE  IInv'
<1>1. queue \in Seq(Requests) /\ queue' = Append(queue, r)
  BY DEF IInv, TypeOK, Submit
<1>2. queue' \in Seq(Requests)
  BY <1>1
<1>3. Waiting' = Waiting \cup {r}
  <2>1. DOMAIN queue' = DOMAIN queue \cup {Len(queue) + 1} /\ queue'[Len(queue) + 1] = r
    BY <1>1
  <2>2. \A i \in DOMAIN queue : queue'[i] = queue[i]
    BY <1>1
  <2> QED BY <2>1, <2>2 DEF Waiting
<1>4. timers' \in Nat /\ starts' \in Nat /\ pending' \in BOOLEAN
  <2>1. timers \in Nat /\ starts \in Nat /\ pending \in BOOLEAN
    BY DEF IInv, TypeOK
  <2>2. timers' = timers \/ timers' = timers + 1
    BY Zenon DEF Submit
  <2>3. starts' = starts \/ starts' = starts + 1
    BY Zenon DEF Submit
  <2>4. pending' \in BOOLEAN
    BY <2>1, Zenon DEF Submit
  <2>5. timers' \in Nat /\ starts' \in Nat
    BY <2>1, <2>2, <2>3
  <2> QED BY <2>4, <2>5
<1>5. futures' \in [Requests -> FutureStates]
  BY DEF IInv, TypeOK, Submit, FutureStates
<1>6. TypeOK'
  BY <1>2, <1>4, <1>5 DEF IInv, TypeOK, Submit
<1>7. TimerPending' /\ SomeoneWillProcess'
  BY DEF IInv, TypeOK, TimerPending, SomeoneWillProcess, Submit
<1>8. UnansweredIsHeld'
  BY <1>3 DEF IInv, TypeOK, UnansweredIsHeld, Submit
<1> QED BY <1>6, <1>7, <1>8 DEF IInv, OneBatch, Submit

LEMMA Inductive == IInv /\ [Next]_vars => IInv'
<1> SUFFICES ASSUME IInv, [Next]_vars PROVE IInv'
  OBVIOUS
<1>1. ASSUME NEW r \in Requests, Submit(r) PROVE IInv'
  BY <1>1, SubmitKeeps
<1>2. ASSUME NEW r \in Requests, CancelRequest(r) PROVE IInv'
  <2>1. TypeOK'
    BY <1>2 DEF IInv, TypeOK, CancelRequest, FutureStates
  <2>2. \A s \in Requests : futures'[s] = "pending" => futures[s] = "pending"
    BY <1>2 DEF IInv, TypeOK, CancelRequest
  <2> QED BY <1>2, <2>1, <2>2
          DEF IInv, OneBatch, TimerPending, SomeoneWillProcess, UnansweredIsHeld, Waiting, CancelRequest
<1>3. CASE TimerFires
  <2>1. timers' \in Nat /\ starts' \in Nat
    BY <1>3 DEF IInv, TypeOK, TimerFires
  <2> QED BY <1>3, <2>1, ProcessKeeps DEF IInv, TimerPending, TimerFires
<1>4. CASE StartRuns
  <2>1. timers' \in Nat /\ starts' \in Nat
    BY <1>4 DEF IInv, TypeOK, StartRuns
  <2> QED BY <1>4, <2>1, ProcessKeeps DEF IInv, TimerPending, StartRuns
<1>5. ASSUME NEW p \in passes, NEW how \in {"ok", "failed"}, PassEnds(p, how) PROVE IInv'
  <2>1. TypeOK'
    BY <1>5 DEF IInv, TypeOK, PassEnds
  <2> QED BY <1>5, <2>1
          DEF IInv, OneBatch, TimerPending, SomeoneWillProcess, UnansweredIsHeld, Waiting, PassEnds
<1>6. ASSUME NEW b \in batches, Answer(b) \/ Fail(b) PROVE IInv'
  BY <1>6, FinishKeeps DEF Answer, Fail
<1>7. CASE Flush
  BY <1>7 DEF IInv, TypeOK, OneBatch, TimerPending, SomeoneWillProcess, UnansweredIsHeld, Waiting, Flush
<1>8. CASE UNCHANGED vars
  BY <1>8 DEF IInv, TypeOK, OneBatch, TimerPending, SomeoneWillProcess, UnansweredIsHeld, Waiting, vars
<1> QED BY <1>1, <1>2, <1>3, <1>4, <1>5, <1>6, <1>7, <1>8 DEF Next, Generate, Conclude

LEMMA Initial == Init => IInv
<1> SUFFICES ASSUME Init PROVE IInv
  OBVIOUS
<1>1. TypeOK
  <2>1. /\ queue \in Seq(Requests) /\ timers \in Nat /\ starts \in Nat
        /\ batches \subseteq (SUBSET Requests) \ {{}} /\ passes \subseteq SUBSET Requests
    BY DEF Init
  <2>2. processing \in BOOLEAN /\ pending \in BOOLEAN /\ flushing \in BOOLEAN
    BY Zenon DEF Init
  <2>3. /\ generated \in [Requests -> {"none", "ok", "failed"}]
        /\ futures \in [Requests -> FutureStates]
    BY DEF Init, FutureStates
  <2> QED BY <2>1, <2>2, <2>3 DEF TypeOK
<1>2. OneBatch /\ TimerPending /\ SomeoneWillProcess
  BY DEF Init, OneBatch, TimerPending, SomeoneWillProcess
<1>3. UnansweredIsHeld
  BY DEF Init, UnansweredIsHeld
<1> QED BY <1>1, <1>2, <1>3 DEF IInv

(* The inductive invariant of the queue. *)
THEOREM Consistency == Spec => []IInv
BY Initial, Inductive, PTL DEF Spec

(* The queue's state keeps its shape for any number of requests. *)
THEOREM TypeCorrect == Spec => []TypeOK
<1>1. IInv => TypeOK
  BY DEF IInv
<1> QED BY <1>1, Consistency, PTL

(* Batches never overlap, whatever the limits and however often timers     *)
(* and full batches race: the processing flag is enough.                   *)
THEOREM OneBatchHolds == Spec => []OneBatch
<1>1. IInv => OneBatch
  BY DEF IInv
<1> QED BY <1>1, Consistency, PTL

(* Requests in the queue always have a task that will process them. *)
THEOREM SomeoneWillProcessHolds == Spec => []SomeoneWillProcess
<1>1. IInv => SomeoneWillProcess
  BY DEF IInv
<1> QED BY <1>1, Consistency, PTL

(* A caller that waits has its request queued or in the batch in progress. *)
THEOREM UnansweredIsHeldHolds == Spec => []UnansweredIsHeld
<1>1. IInv => UnansweredIsHeld
  BY DEF IInv
<1> QED BY <1>1, Consistency, PTL

(* No request is lost, whatever timers, full batches and failures race. *)
THEOREM RequestsAreKeptHolds == Spec => []RequestsAreKept
BY OneBatchHolds, SomeoneWillProcessHolds, UnansweredIsHeldHolds, PTL
DEF RequestsAreKept

-------------------------------------------------------------------------------
(* TokenBudget.  What the candidates hold is counted token by token, so     *)
(* that sums are cardinalities.                                            *)

(* What candidates hold is counted, but for what refusals took off. *)
HeldIsReserved == Held <= reserved + forgiven

BudgetInv ==
    /\ BudgetTypeOK /\ IsFiniteSet(Tokens)
    /\ ReservedIsHeld /\ HeldIsReserved /\ BudgetHeld

TokensOf(c) == {c} \X (1 .. calls[c].size)

LEMMA TokensMore ==
    ASSUME NEW A, IsFiniteSet(A), NEW c, NEW s \in Nat, A \cap ({c} \X (1 .. s)) = {}
    PROVE  /\ IsFiniteSet(A \cup ({c} \X (1 .. s)))
           /\ Cardinality(A \cup ({c} \X (1 .. s))) = Cardinality(A) + s
           /\ Cardinality(A) \in Nat
<1> DEFINE B == {c} \X (1 .. s)
<1>1. IsFiniteSet(1 .. s) /\ Cardinality(1 .. s) = s
  BY FS_Interval
<1>2. IsFiniteSet({c}) /\ Cardinality({c}) = 1
  BY FS_Singleton
<1>3. IsFiniteSet(B) /\ Cardinality(B) = 1 * s
  <2>1. IsFiniteSet(B) /\ Cardinality(B) = Cardinality({c}) * Cardinality(1 .. s)
    BY <1>1, <1>2, FS_Product
  <2> QED BY <1>1, <1>2, <2>1
<1> HIDE DEF B
<1>4. IsFiniteSet(A \cup B) /\ Cardinality(A \cup B) = Cardinality(A) + Cardinality(B) - Cardinality(A \cap B)
  BY <1>3, FS_Union
<1>5. A \cap B = {} /\ Cardinality({}) = 0 /\ Cardinality(A) \in Nat
  BY FS_EmptySet, FS_CardinalityType DEF B
<1>6. Cardinality(A \cup B) = Cardinality(A) + s
  <2>1. Cardinality(A \cap B) = 0
    BY <1>5
  <2>2. Cardinality(B) = s
    BY <1>3
  <2> QED BY <1>4, <1>5, <2>1, <2>2
<1> QED BY <1>4, <1>5, <1>6 DEF B

LEMMA CallFacts ==
    ASSUME BudgetTypeOK, NEW c \in Candidates
    PROVE  /\ calls \in [Candidates -> CallRow]
           /\ calls[c].size \in Nat /\ calls[c].attempt \in Nat
           /\ calls[c].size \in {0} \cup Reservations
           /\ calls[c].at \in {"idle", "waiting", "sending", "delayed"}
           /\ requests \in Nat /\ total \in Nat /\ reserved \in Nat
           /\ forgiven \in Nat /\ overrun \in Nat /\ leaked \in Nat /\ started \in 0 .. MaxCalls
<1>1. calls \in [Candidates -> CallRow] /\ calls[c] \in CallRow
  BY DEF BudgetTypeOK
<1>2. calls[c].size \in {0} \cup Reservations /\ calls[c].attempt \in Nat
      /\ calls[c].at \in {"idle", "waiting", "sending", "delayed"}
  BY <1>1 DEF CallRow
<1>3. calls[c].size \in Nat
  <2>1. \A x \in Reservations : x \in Nat
    BY ReservationsAssumption
  <2> QED BY <1>2, <2>1
<1>4. requests \in Nat /\ total \in Nat /\ reserved \in Nat /\ forgiven \in Nat /\ overrun \in Nat /\ leaked \in Nat
      /\ started \in 0 .. MaxCalls
  BY DEF BudgetTypeOK
<1> QED BY <1>1, <1>2, <1>3, <1>4

(* A candidate that held nothing holds s tokens. *)
LEMMA HoldsMore ==
    ASSUME BudgetInv, NEW c \in Candidates, c \notin Holding,
           NEW s \in Nat, NEW row, row.at = "waiting", row.size = s,
           calls' = [calls EXCEPT ![c] = row]
    PROVE  IsFiniteSet(Tokens') /\ Held' = Held + s /\ Held \in Nat
<1>1. /\ calls'[c] = row
      /\ \A d \in Candidates \ {c} : calls'[d] = calls[d]
  BY CallFacts DEF BudgetInv
<1>2. Holding' = Holding \cup {c}
  BY <1>1 DEF Holding
<1>3. Tokens' = Tokens \cup ({c} \X (1 .. s))
  <2>1. Tokens' = UNION {TokensOf(d)' : d \in Holding \cup {c}}
    BY <1>2 DEF Tokens, TokensOf
  <2>2. \A d \in Holding : TokensOf(d)' = TokensOf(d)
    BY <1>1 DEF TokensOf, Holding
  <2>3. TokensOf(c)' = {c} \X (1 .. s)
    BY <1>1 DEF TokensOf
  <2>4. Tokens = UNION {TokensOf(d) : d \in Holding}
    BY DEF Tokens, TokensOf
  <2> HIDE DEF TokensOf
  <2> QED BY <2>1, <2>2, <2>3, <2>4
<1>4. Tokens \cap ({c} \X (1 .. s)) = {}
  BY DEF Tokens
<1>5. /\ IsFiniteSet(Tokens \cup ({c} \X (1 .. s)))
      /\ Cardinality(Tokens \cup ({c} \X (1 .. s))) = Cardinality(Tokens) + s
      /\ Cardinality(Tokens) \in Nat
  <2>1. IsFiniteSet(Tokens)
    BY DEF BudgetInv
  <2> QED BY <1>4, <2>1, TokensMore
<1>6. Held' = Cardinality(Tokens') /\ Held = Cardinality(Tokens)
  BY DEF Held
<1> QED BY <1>3, <1>5, <1>6

(* A candidate holds nothing any more. *)
LEMMA HoldsNothing ==
    ASSUME BudgetInv, NEW c \in Candidates,
           calls'[c].at \in {"idle", "delayed"},
           \A d \in Candidates \ {c} : calls'[d] = calls[d]
    PROVE  /\ IsFiniteSet(Tokens') /\ Held' \in Nat
           /\ c \in Holding => Held = Held' + calls[c].size
           /\ c \notin Holding => Held = Held'
<1>1. /\ calls'[c].at \notin {"waiting", "sending"}
      /\ \A d \in Candidates \ {c} : calls'[d] = calls[d]
  OBVIOUS
<1>2. Holding' = Holding \ {c}
  BY <1>1 DEF Holding
<1>3. Tokens' = UNION {TokensOf(d) : d \in Holding \ {c}}
  <2>1. Tokens' = UNION {TokensOf(d)' : d \in Holding \ {c}}
    BY <1>2 DEF Tokens, TokensOf
  <2>2. \A d \in Holding \ {c} : TokensOf(d)' = TokensOf(d)
    BY <1>1 DEF TokensOf, Holding
  <2> HIDE DEF TokensOf
  <2> QED BY <2>1, <2>2
<1>4. Tokens = UNION {TokensOf(d) : d \in Holding}
  BY DEF Tokens, TokensOf
<1>5. Held' = Cardinality(Tokens') /\ Held = Cardinality(Tokens)
  BY DEF Held
<1>6. IsFiniteSet(Tokens') /\ Held' \in Nat
  <2>1. Tokens' \in SUBSET Tokens
    BY <1>3, <1>4
  <2>2. IsFiniteSet(Tokens')
    BY <2>1, FS_Subset DEF BudgetInv
  <2> QED BY <1>5, <2>2, FS_CardinalityType
<1>7. ASSUME c \in Holding PROVE Held = Held' + calls[c].size
  <2>1. Tokens = Tokens' \cup ({c} \X (1 .. calls[c].size))
    <3>1. TokensOf(c) = {c} \X (1 .. calls[c].size)
      BY DEF TokensOf
    <3> HIDE DEF TokensOf
    <3> QED BY <1>3, <1>4, <1>7, <3>1
  <2>2. Tokens' \cap ({c} \X (1 .. calls[c].size)) = {}
    BY <1>3 DEF TokensOf
  <2>3. calls[c].size \in Nat
    BY CallFacts DEF BudgetInv
  <2> DEFINE rest == Tokens'
  <2>4. IsFiniteSet(rest)
    BY <1>6
  <2> HIDE DEF rest
  <2>5. Cardinality(rest \cup ({c} \X (1 .. calls[c].size))) = Cardinality(rest) + calls[c].size
    BY <2>2, <2>3, <2>4, TokensMore DEF rest
  <2> QED BY <1>5, <2>1, <2>5 DEF rest
<1>8. ASSUME c \notin Holding PROVE Held = Held'
  <2>1. Tokens = Tokens'
    BY <1>3, <1>4, <1>8
  <2> QED BY <1>5, <2>1
<1> QED BY <1>6, <1>7, <1>8
(* The floor of the released reservation never bites but at 0. *)
LEMMA FlooredFacts ==
    ASSUME NEW n \in Int
    PROVE  Floored(n) \in Nat /\ Floored(n) >= n
           /\ (Floored(n) = n \/ (n < 0 /\ Floored(n) = 0))
BY DEF Floored

(* An attempt is granted its reservation or refused. *)
LEMMA ReserveKeeps ==
    ASSUME BudgetInv, NEW c \in Candidates, c \notin Holding,
           NEW n \in Nat, NEW s \in {0} \cup Reservations, Reserve(c, n, s),
           started' \in 0 .. MaxCalls
    PROVE  BudgetInv'
<1>1. s \in Nat
  BY ReservationsAssumption
<1>2. /\ calls \in [Candidates -> CallRow]
      /\ requests \in Nat /\ total \in Nat /\ reserved \in Nat /\ forgiven \in Nat /\ overrun \in Nat /\ leaked \in Nat
  BY CallFacts DEF BudgetInv
<1>3. /\ reserved <= Held + leaked /\ Held <= reserved + forgiven
      /\ MaxTotalTokens # 0 => total + Held <= MaxTotalTokens + forgiven + overrun
      /\ MaxTotalTokens \in Nat
  BY LimitsAssumption DEF BudgetInv, ReservedIsHeld, HeldIsReserved, BudgetHeld
<1>4. CASE RequestsLeft /\ TokensLeft(s)
  <2> DEFINE row == [at |-> "waiting", attempt |-> n, size |-> s]
  <2>1. /\ requests' = requests + 1 /\ reserved' = reserved + s
        /\ calls' = [calls EXCEPT ![c] = row] /\ UNCHANGED <<total, forgiven, overrun, leaked>>
    BY <1>4 DEF Reserve
  <2>2. row \in CallRow /\ row.at = "waiting" /\ row.size = s
    BY DEF CallRow
  <2> HIDE DEF row
  <2>3. IsFiniteSet(Tokens') /\ Held' = Held + s /\ Held \in Nat
    BY <1>1, <2>1, <2>2, HoldsMore
  <2>4. MaxTotalTokens # 0 => total + reserved + s <= MaxTotalTokens
    BY <1>4 DEF TokensLeft
  <2>5. BudgetTypeOK'
    BY <1>1, <1>2, <2>1, <2>2 DEF BudgetTypeOK
  <2>6. ReservedIsHeld' /\ HeldIsReserved' /\ BudgetHeld'
    <3> HIDE DEF row
    <3>1. reserved' <= Held' + leaked' /\ Held' <= reserved' + forgiven'
      BY <1>1, <1>2, <1>3, <2>1, <2>3
    <3>2. MaxTotalTokens # 0 => total' + Held' <= MaxTotalTokens + forgiven' + overrun'
      BY <1>1, <1>2, <1>3, <2>1, <2>3, <2>4
    <3> QED BY <3>1, <3>2 DEF ReservedIsHeld, HeldIsReserved, BudgetHeld
  <2> QED BY <2>3, <2>5, <2>6 DEF BudgetInv
<1>5. CASE ~(RequestsLeft /\ TokensLeft(s))
  <2>1. /\ reserved' = Floored(reserved - s) /\ forgiven' = forgiven + (reserved - reserved')
        /\ calls' = [calls EXCEPT ![c] = Idle] /\ UNCHANGED <<requests, total, overrun, leaked>>
    BY <1>5 DEF Reserve
  <2>2. Idle \in CallRow /\ Idle.at = "idle"
    BY DEF CallRow, Idle
  <2>3. IsFiniteSet(Tokens') /\ Held' = Held /\ Held' \in Nat
    <3>1. /\ calls'[c].at \in {"idle", "delayed"}
          /\ \A d \in Candidates \ {c} : calls'[d] = calls[d]
      BY <1>2, <2>1, <2>2
    <3> QED BY <3>1, HoldsNothing
  <2>4. reserved' \in Nat /\ reserved' <= reserved
    BY <1>1, <1>2, <2>1, FlooredFacts
  <2>5. forgiven' \in Nat /\ forgiven' >= forgiven /\ reserved' + forgiven' = reserved + forgiven
    BY <1>2, <2>1, <2>4
  <2>6. BudgetTypeOK'
    BY <1>2, <2>1, <2>2, <2>4, <2>5 DEF BudgetTypeOK
  <2>7. ReservedIsHeld' /\ HeldIsReserved' /\ BudgetHeld'
    <3>1. reserved' <= Held' + leaked' /\ Held' <= reserved' + forgiven'
      BY <1>2, <1>3, <2>1, <2>3, <2>4, <2>5
    <3>2. MaxTotalTokens # 0 => total' + Held' <= MaxTotalTokens + forgiven' + overrun'
      BY <1>2, <1>3, <2>1, <2>3, <2>4, <2>5
    <3> QED BY <3>1, <3>2 DEF ReservedIsHeld, HeldIsReserved, BudgetHeld
  <2> QED BY <2>3, <2>6, <2>7 DEF BudgetInv
<1> QED BY <1>4, <1>5

(* A candidate that sent its request is done with it: its reservation is    *)
(* released, and what it used beyond that is counted as overrun.            *)
LEMMA SettleKeeps ==
    ASSUME BudgetInv, NEW c \in Candidates, calls[c].at = "sending",
           NEW used \in Nat, overrun' = overrun + Floored(used - calls[c].size),
           NEW row \in CallRow, row.at \in {"idle", "delayed"},
           calls' = [calls EXCEPT ![c] = row], total' = total + used,
           reserved' = Floored(reserved - calls[c].size),
           UNCHANGED <<requests, started, forgiven, leaked>>
    PROVE  BudgetInv'
<1> DEFINE s == calls[c].size
<1>1. /\ calls \in [Candidates -> CallRow] /\ s \in Nat /\ used \in Nat
      /\ requests \in Nat /\ total \in Nat /\ reserved \in Nat /\ forgiven \in Nat /\ overrun \in Nat /\ leaked \in Nat
      /\ started \in 0 .. MaxCalls
  BY CallFacts DEF BudgetInv
<1>2. /\ reserved <= Held + leaked /\ Held <= reserved + forgiven
      /\ MaxTotalTokens # 0 => total + Held <= MaxTotalTokens + forgiven + overrun
      /\ MaxTotalTokens \in Nat
  BY LimitsAssumption DEF BudgetInv, ReservedIsHeld, HeldIsReserved, BudgetHeld
<1>3. c \in Holding
  BY DEF Holding
<1>4. IsFiniteSet(Tokens') /\ Held' \in Nat /\ Held = Held' + s
  <2>1. /\ calls'[c].at \in {"idle", "delayed"}
        /\ \A d \in Candidates \ {c} : calls'[d] = calls[d]
    BY <1>1
  <2> QED BY <1>3, <2>1, HoldsNothing
<1>5. /\ reserved' \in Nat /\ reserved' >= reserved - s
      /\ reserved' = reserved - s \/ reserved' = 0
  BY <1>1, FlooredFacts
<1>6. overrun' \in Nat /\ used <= s + (overrun' - overrun)
  <2>1. /\ overrun \in Nat /\ overrun' = overrun + Floored(used - s)
        /\ Floored(used - s) = IF used - s < 0 THEN 0 ELSE used - s
    BY CallFacts DEF BudgetInv, Floored
  <2> QED BY <1>1, <2>1
<1> HIDE DEF s
<1>8. BudgetTypeOK'
  BY <1>1, <1>5, <1>6 DEF BudgetTypeOK
<1>7. /\ reserved' <= Held' + leaked' /\ Held' <= reserved' + forgiven'
      /\ MaxTotalTokens # 0 => total' + Held' <= MaxTotalTokens + forgiven' + overrun'
  <2> DEFINE now == Held
             next == Held'
  <2>1. /\ next \in Nat /\ now = next + s /\ reserved <= now + leaked /\ now <= reserved + forgiven
        /\ MaxTotalTokens # 0 => total + now <= MaxTotalTokens + forgiven + overrun
        /\ total' = total + used /\ leaked' = leaked /\ forgiven' = forgiven
        /\ overrun \in Nat
    BY <1>2, <1>4, CallFacts DEF BudgetInv
  <2> HIDE DEF now, next
  <2>2. reserved' <= next + leaked' /\ next <= reserved' + forgiven'
    BY <1>1, <1>5, <2>1
  <2>3. MaxTotalTokens # 0 => total' + next <= MaxTotalTokens + forgiven' + overrun'
    BY <1>1, <1>2, <1>6, <2>1
  <2> QED BY <2>2, <2>3 DEF now, next
<1>9. ReservedIsHeld' /\ HeldIsReserved' /\ BudgetHeld'
  BY <1>7 DEF ReservedIsHeld, HeldIsReserved, BudgetHeld
<1> QED BY <1>4, <1>8, <1>9 DEF BudgetInv

LEMMA EnterKeeps ==
    ASSUME BudgetInv, NEW c \in Candidates, EnterSemaphore(c)
    PROVE  BudgetInv'
<1>1. /\ calls[c].at = "waiting" /\ calls' = [calls EXCEPT ![c].at = "sending"]
      /\ UNCHANGED <<requests, total, reserved, started, forgiven, overrun, leaked>>
  BY DEF EnterSemaphore
<1>2. calls \in [Candidates -> CallRow] /\ calls[c] \in CallRow
  BY CallFacts DEF BudgetInv
<1>3. /\ [calls[c] EXCEPT !.at = "sending"] \in CallRow
      /\ [calls[c] EXCEPT !.at = "sending"].at = "sending"
      /\ [calls[c] EXCEPT !.at = "sending"].size = calls[c].size
  BY <1>2 DEF CallRow
<1>4. /\ calls' \in [Candidates -> CallRow]
      /\ \A d \in Candidates : calls'[d].size = calls[d].size
      /\ Holding' = Holding
  BY <1>1, <1>2, <1>3 DEF Holding
<1>5. Tokens' = Tokens
  <2>1. \A d \in Holding : calls'[d].size = calls[d].size
    BY <1>4 DEF Holding
  <2> QED BY <1>4, <2>1 DEF Tokens
<1>6. Held' = Held
  BY <1>5 DEF Held
<1>7. BudgetTypeOK'
  BY <1>1, <1>4 DEF BudgetInv, BudgetTypeOK
<1> QED BY <1>1, <1>5, <1>6, <1>7
        DEF BudgetInv, ReservedIsHeld, HeldIsReserved, BudgetHeld

LEMMA CancelKeeps ==
    ASSUME BudgetInv, NEW c \in Candidates, Cancelled(c)
    PROVE  BudgetInv'
<1>1. /\ calls' = [calls EXCEPT ![c] = Idle]
      /\ leaked' = IF c \in Holding THEN leaked + calls[c].size ELSE leaked
      /\ UNCHANGED <<requests, total, reserved, started, forgiven, overrun>>
  BY DEF Cancelled
<1>2. /\ calls \in [Candidates -> CallRow] /\ calls[c].size \in Nat
      /\ total \in Nat /\ reserved \in Nat /\ forgiven \in Nat /\ overrun \in Nat /\ leaked \in Nat
  BY CallFacts DEF BudgetInv
<1>3. /\ reserved <= Held + leaked /\ Held <= reserved + forgiven
      /\ MaxTotalTokens # 0 => total + Held <= MaxTotalTokens + forgiven + overrun
      /\ MaxTotalTokens \in Nat
  BY LimitsAssumption DEF BudgetInv, ReservedIsHeld, HeldIsReserved, BudgetHeld
<1>4. Idle \in CallRow /\ Idle.at = "idle"
  BY DEF CallRow, Idle
<1>5. /\ IsFiniteSet(Tokens') /\ Held' \in Nat
      /\ c \in Holding => Held = Held' + calls[c].size
      /\ c \notin Holding => Held = Held'
  <2>1. /\ calls'[c].at \in {"idle", "delayed"}
        /\ \A d \in Candidates \ {c} : calls'[d] = calls[d]
    BY <1>1, <1>2, <1>4
  <2> QED BY <2>1, HoldsNothing
<1>6. BudgetTypeOK'
  <2>1. leaked' \in Nat
    BY <1>1, <1>2
  <2> QED BY <1>1, <1>2, <1>4, <2>1 DEF BudgetInv, BudgetTypeOK
<1>7. /\ reserved' <= Held' + leaked' /\ Held' <= reserved' + forgiven'
      /\ MaxTotalTokens # 0 => total' + Held' <= MaxTotalTokens + forgiven' + overrun'
  <2> DEFINE now == Held
             next == Held'
             size == calls[c].size
  <2>1. /\ next \in Nat /\ size \in Nat /\ reserved <= now + leaked /\ now <= reserved + forgiven
        /\ MaxTotalTokens # 0 => total + now <= MaxTotalTokens + forgiven + overrun
        /\ total' = total /\ reserved' = reserved /\ forgiven' = forgiven
        /\ overrun' = overrun /\ overrun \in Nat
    BY <1>1, <1>2, <1>3, <1>5, CallFacts DEF BudgetInv
  <2>2. \/ now = next + size /\ leaked' = leaked + size
        \/ now = next /\ leaked' = leaked
    BY <1>1, <1>5
  <2> HIDE DEF now, next, size
  <2>3. reserved' <= next + leaked' /\ next <= reserved' + forgiven'
    BY <1>2, <2>1, <2>2
  <2>4. MaxTotalTokens # 0 => total' + next <= MaxTotalTokens + forgiven' + overrun'
    BY <1>2, <1>3, <2>1, <2>2
  <2> QED BY <2>3, <2>4 DEF now, next
<1>9. ReservedIsHeld' /\ HeldIsReserved' /\ BudgetHeld'
  BY <1>7 DEF ReservedIsHeld, HeldIsReserved, BudgetHeld
<1> QED BY <1>5, <1>6, <1>9 DEF BudgetInv

LEMMA BudgetStep ==
    ASSUME BudgetInv, [BudgetNext]_budgetVars
    PROVE  BudgetInv'
<1>1. ASSUME NEW c \in Candidates, NEW s \in Reservations, GenerateCandidate(c, s) PROVE BudgetInv'
  <2>1. /\ calls[c].at = "idle" /\ started' = started + 1 /\ started < MaxCalls
        /\ Reserve(c, 1, s)
    BY <1>1 DEF GenerateCandidate
  <2>2. c \notin Holding
    BY <2>1 DEF Holding
  <2>3. started' \in 0 .. MaxCalls
    <3>1. started \in 0 .. MaxCalls /\ MaxCalls \in Nat
      BY BoundAssumption, CallFacts DEF BudgetInv
    <3> QED BY <2>1, <3>1
  <2> QED BY <2>1, <2>2, <2>3, ReserveKeeps
<1>2. ASSUME NEW c \in Candidates, Retry(c) PROVE BudgetInv'
  <2>1. /\ calls[c].at = "delayed" /\ UNCHANGED started
        /\ Reserve(c, calls[c].attempt + 1, calls[c].size)
    BY <1>2 DEF Retry
  <2>2. c \notin Holding
    BY <2>1 DEF Holding
  <2>3. /\ calls[c].attempt \in Nat /\ calls[c].size \in {0} \cup Reservations
        /\ started \in 0 .. MaxCalls
    BY CallFacts DEF BudgetInv
  <2>4. calls[c].attempt + 1 \in Nat /\ started' \in 0 .. MaxCalls
    BY <2>1, <2>3
  <2> QED BY <2>1, <2>2, <2>3, <2>4, ReserveKeeps
<1>3. /\ Idle \in CallRow /\ Idle.at = "idle"
  BY DEF CallRow, Idle
<1>4. ASSUME NEW c \in Candidates, NEW u \in Usages, Completed(c, u)
      PROVE  BudgetInv'
  <2>1. /\ calls[c].at = "sending" /\ calls' = [calls EXCEPT ![c] = Idle]
        /\ total' = total + u /\ reserved' = Floored(reserved - calls[c].size)
        /\ overrun' = overrun + Floored(u - calls[c].size)
        /\ UNCHANGED <<requests, started, forgiven, leaked>>
    BY <1>4 DEF Completed
  <2>2. u \in Nat
    BY UsagesAssumption
  <2> QED BY <1>3, <2>1, <2>2, SettleKeeps
<1>5. ASSUME NEW c \in Candidates, NEW r \in BOOLEAN, Failed(c, r) PROVE BudgetInv'
  <2> DEFINE row == IF r /\ calls[c].attempt <= MaxRetries
                    THEN [calls[c] EXCEPT !.at = "delayed"] ELSE Idle
  <2>1. /\ calls[c].at = "sending" /\ reserved' = Floored(reserved - calls[c].size)
        /\ UNCHANGED <<requests, total, started, forgiven, overrun, leaked>>
    BY <1>5 DEF Failed
  <2>2. calls' = [calls EXCEPT ![c] = row]
    BY <1>5 DEF Failed
  <2>3. calls \in [Candidates -> CallRow] /\ calls[c] \in CallRow /\ total \in Nat
        /\ calls[c].size \in Nat
    BY CallFacts DEF BudgetInv
  <2>4. /\ [calls[c] EXCEPT !.at = "delayed"] \in CallRow
        /\ [calls[c] EXCEPT !.at = "delayed"].at = "delayed"
    BY <2>3 DEF CallRow
  <2>5. row \in CallRow /\ row.at \in {"idle", "delayed"}
    BY <1>3, <2>4
  <2> HIDE DEF row
  <2>6. total' = total + 0 /\ overrun' = overrun + Floored(0 - calls[c].size)
    <3>1. Floored(0 - calls[c].size) = 0 /\ overrun \in Nat
      BY <2>3, CallFacts DEF Floored, BudgetInv
    <3> QED BY <2>1, <2>3, <3>1
  <2> QED BY <2>1, <2>2, <2>5, <2>6, SettleKeeps
<1>6. CASE UNCHANGED budgetVars
  BY <1>6 DEF budgetVars, BudgetInv, BudgetTypeOK, Tokens, Holding, Held,
              ReservedIsHeld, HeldIsReserved, BudgetHeld
<1> QED BY <1>1, <1>2, <1>4, <1>5, <1>6, EnterKeeps, CancelKeeps DEF BudgetNext, Proceed

LEMMA BudgetStarts ==
    ASSUME BudgetInit
    PROVE  BudgetInv
<1>1. /\ requests = 0 /\ total = 0 /\ reserved = 0 /\ started = 0 /\ forgiven = 0 /\ overrun = 0 /\ leaked = 0
      /\ calls = [c \in Candidates |-> Idle]
  BY DEF BudgetInit
<1>2. Idle \in CallRow /\ Idle.at = "idle"
  BY DEF CallRow, Idle
<1>3. BudgetTypeOK
  BY <1>1, <1>2, BoundAssumption DEF BudgetTypeOK
<1>4. Holding = {}
  BY <1>1, <1>2 DEF Holding
<1>5. Tokens = {}
  BY <1>4 DEF Tokens
<1>6. IsFiniteSet(Tokens) /\ Held = 0
  BY <1>5, FS_EmptySet DEF Held
<1> QED BY <1>1, <1>3, <1>6, LimitsAssumption
        DEF BudgetInv, ReservedIsHeld, HeldIsReserved, BudgetHeld

(* The inductive invariant of the budget: the count of reserved tokens is  *)
(* off what the candidates hold by what refusals took off it at the most   *)
(* below, by what cancellations left in it at the most above.              *)
THEOREM BudgetInvariant == BudgetSpec => []BudgetInv
<1>1. BudgetInit => BudgetInv
  BY BudgetStarts
<1>2. BudgetInv /\ [BudgetNext]_budgetVars => BudgetInv'
  BY BudgetStep
<1> QED BY <1>1, <1>2, PTL DEF BudgetSpec

(* The counters never get negative, whatever is released twice. *)
THEOREM BudgetTypeCorrect == BudgetSpec => []BudgetTypeOK
<1>1. BudgetInv => BudgetTypeOK
  BY DEF BudgetInv
<1> QED BY <1>1, BudgetInvariant, PTL

(* Any number of candidates, of any sizes: nothing is counted as reserved   *)
(* that no candidate holds, but what cancelled ones left (ReservedIsHeld).  *)
THEOREM ReservedIsHeldAlways == BudgetSpec => []ReservedIsHeld
<1>1. BudgetInv => ReservedIsHeld
  BY DEF BudgetInv
<1> QED BY <1>1, BudgetInvariant, PTL

(* What was used and what is held exceed the budget only by what refusals   *)
(* gave back without having taken it and what responses used beyond their   *)
(* reservations (BudgetHeld).                                               *)
THEOREM BudgetHeldAlways == BudgetSpec => []BudgetHeld
<1>1. BudgetInv => BudgetHeld
  BY DEF BudgetInv
<1> QED BY <1>1, BudgetInvariant, PTL

===============================================================================
