------------------------------ MODULE TokenBudget ------------------------------
(***************************************************************************)
(* The request and token budget that the concurrent candidates of          *)
(* OpenAICompatibleProvider share (llm/openai_compatible.py).              *)
(*                                                                         *)
(* A candidate is one _generate_candidate coroutine.  The budget lock is   *)
(* never held across an await, so reserving, settling and releasing are    *)
(* atomic with the code around them; a candidate awaits the semaphore, the *)
(* provider's response and the delay before a retry, and may be cancelled  *)
(* at each.                                                                *)
(***************************************************************************)
EXTENDS Integers, FiniteSets

CONSTANTS Candidates,         \* coroutines alive at the same time
          Reservations,       \* prompt estimate + max_completion_tokens
          Usages,             \* total_tokens a response may report
          MaxConcurrency,     \* max_concurrency
          MaxRetries,         \* max_retries
          MaxRequests,        \* max_requests, 0 for no limit
          MaxTotalTokens,     \* max_total_tokens, 0 for no limit
          MaxCalls            \* bound: candidates ever generated

ASSUME ConcurrencyAssumption == MaxConcurrency \in Nat \ {0}
ASSUME LimitsAssumption == MaxRetries \in Nat /\ MaxRequests \in Nat /\ MaxTotalTokens \in Nat
ASSUME ReservationsAssumption == Reservations \subseteq Nat \ {0}
ASSUME UsagesAssumption == Usages \subseteq Nat
ASSUME BoundAssumption == MaxCalls \in Nat

VARIABLES requests,   \* _request_count
          total,      \* _total_tokens
          reserved,   \* _reserved_tokens
          calls,      \* the candidates
          started,    \* candidates generated so far
          forgiven,   \* history: tokens refusals took off _reserved_tokens
          overrun,    \* history: tokens responses used beyond their reservations
          leaked      \* history: tokens cancellations left in _reserved_tokens

budgetVars == <<requests, total, reserved, calls, started, forgiven, overrun, leaked>>

-------------------------------------------------------------------------------
Idle == [at |-> "idle", attempt |-> 0, size |-> 0]
(* size: what one attempt of the candidate reserves. *)
CallRow == [at : {"idle", "waiting", "sending", "delayed"}, attempt : Nat,
            size : {0} \cup Reservations]

(* The candidates whose reservation is in _reserved_tokens. *)
Holding == {c \in Candidates : calls[c].at \in {"waiting", "sending"}}
Sending == {c \in Candidates : calls[c].at = "sending"}
(* Their tokens, one by one, and how many there are. *)
Tokens == UNION {{c} \X (1 .. calls[c].size) : c \in Holding}
Held == Cardinality(Tokens)

RequestsLeft == MaxRequests = 0 \/ requests < MaxRequests

(* Mutant: the new reservation is left out of the sum. *)
TokensLeftForOthers(s) == MaxTotalTokens = 0 \/ total + reserved < MaxTotalTokens
TokensLeft(s) == MaxTotalTokens = 0 \/ total + reserved + s <= MaxTotalTokens

Floored(n) == IF n < 0 THEN 0 ELSE n

(* The candidate c, at its attempt n of size s, is granted its reservation *)
(* and goes on to the semaphore, or is refused.  A refusal is raised where *)
(* the reservation is already set, so the handler releases what was never  *)
(* taken.  It is not retryable.                                            *)
Reserve(c, n, s) ==
    \/ /\ RequestsLeft /\ TokensLeft(s)
       /\ requests' = requests + 1
       /\ reserved' = reserved + s
       /\ calls' = [calls EXCEPT ![c] = [at |-> "waiting", attempt |-> n, size |-> s]]
       /\ UNCHANGED <<total, forgiven, overrun, leaked>>
    \/ /\ ~(RequestsLeft /\ TokensLeft(s))
       /\ reserved' = Floored(reserved - s)
       /\ forgiven' = forgiven + (reserved - reserved')
       /\ calls' = [calls EXCEPT ![c] = Idle]
       /\ UNCHANGED <<requests, total, overrun, leaked>>

GenerateCandidate(c, s) ==
    /\ started < MaxCalls
    /\ calls[c].at = "idle"
    /\ started' = started + 1
    /\ Reserve(c, 1, s)

(* Mutant: a failed attempt keeps its place in the semaphore. *)
EnterSemaphoreKept(c) ==
    /\ calls[c].at = "waiting"
    /\ Cardinality(Sending \cup {d \in Candidates : calls[d].attempt > 1}) < MaxConcurrency
    /\ calls' = [calls EXCEPT ![c].at = "sending"]
    /\ UNCHANGED <<requests, total, reserved, started, forgiven, overrun, leaked>>

EnterSemaphore(c) ==
    /\ calls[c].at = "waiting"
    /\ Cardinality(Sending) < MaxConcurrency
    /\ calls' = [calls EXCEPT ![c].at = "sending"]
    /\ UNCHANGED <<requests, total, reserved, started, forgiven, overrun, leaked>>

(* The response is normalized and its usage replaces the reservation.  The *)
(* usage is what the provider reports: the prompt was only estimated, and  *)
(* for some model families _create_completion sends no limit on the        *)
(* completion, or one unrelated to max_completion_tokens.                  *)
Completed(c, usage) ==
    /\ calls[c].at = "sending"
    /\ reserved' = Floored(reserved - calls[c].size)
    /\ total' = total + usage
    /\ overrun' = overrun + Floored(usage - calls[c].size)
    /\ calls' = [calls EXCEPT ![c] = Idle]
    /\ UNCHANGED <<requests, started, forgiven, leaked>>

(* Mutant: only the last failure of a candidate releases. *)
FailedUnreleased(c, retryable) ==
    /\ calls[c].at = "sending"
    /\ IF retryable /\ calls[c].attempt <= MaxRetries
       THEN calls' = [calls EXCEPT ![c].at = "delayed"] /\ UNCHANGED reserved
       ELSE /\ calls' = [calls EXCEPT ![c] = Idle]
            /\ reserved' = Floored(reserved - calls[c].size)
    /\ UNCHANGED <<requests, total, started, forgiven, overrun, leaked>>

(* The request fails or its response has no choices. *)
Failed(c, retryable) ==
    /\ calls[c].at = "sending"
    /\ reserved' = Floored(reserved - calls[c].size)
    /\ calls' = IF retryable /\ calls[c].attempt <= MaxRetries
                THEN [calls EXCEPT ![c].at = "delayed"]
                ELSE [calls EXCEPT ![c] = Idle]
    /\ UNCHANGED <<requests, total, started, forgiven, overrun, leaked>>

Retry(c) ==
    /\ calls[c].at = "delayed"
    /\ Reserve(c, calls[c].attempt + 1, calls[c].size)
    /\ UNCHANGED started

(* CancelledError is no Exception: the handler does not run and what the   *)
(* candidate reserved stays reserved.                                      *)
Cancelled(c) ==
    /\ calls[c].at # "idle"
    /\ calls' = [calls EXCEPT ![c] = Idle]
    /\ leaked' = IF c \in Holding THEN leaked + calls[c].size ELSE leaked
    /\ UNCHANGED <<requests, total, reserved, started, forgiven, overrun>>

-------------------------------------------------------------------------------
BudgetInit == /\ requests = 0 /\ total = 0 /\ reserved = 0
              /\ calls = [c \in Candidates |-> Idle]
              /\ started = 0 /\ forgiven = 0 /\ overrun = 0 /\ leaked = 0

Proceed(c) == \/ EnterSemaphore(c) \/ Retry(c)
              \/ \E u \in Usages : Completed(c, u)
              \/ \E r \in BOOLEAN : Failed(c, r)

BudgetNext == \E c \in Candidates : \/ Proceed(c) \/ Cancelled(c)
                                    \/ \E s \in Reservations : GenerateCandidate(c, s)

BudgetSpec == BudgetInit /\ [][BudgetNext]_budgetVars

(* The semaphore wakes its waiters in order, the client's timeout ends     *)
(* every request and asyncio.sleep every delay; nothing need be cancelled. *)
FairBudgetSpec == BudgetSpec /\ \A c \in Candidates : WF_budgetVars(Proceed(c))

-------------------------------------------------------------------------------
(* The counters and candidates keep their shape. *)
BudgetTypeOK == /\ requests \in Nat /\ total \in Nat /\ reserved \in Nat
                /\ forgiven \in Nat /\ overrun \in Nat /\ leaked \in Nat
                /\ calls \in [Candidates -> CallRow]
                /\ started \in 0 .. MaxCalls

(* Reservations are never counted that no candidate holds, but for those   *)
(* of cancelled candidates, which stay for ever: a refusal may release too *)
(* much, a failure, a retry or a response never too little.                *)
ReservedIsHeld == reserved <= Held + leaked

(* What was used and what the candidates have reserved never exceeds the   *)
(* budget by more than what refusals gave back without having taken it and *)
(* what responses used beyond their reservations, over failures, retries,  *)
(* refusals and cancellations: where the provider keeps each response      *)
(* within its reservation, that one defect is all that keeps               *)
(* max_total_tokens from being a hard cap.                                 *)
BudgetHeld == MaxTotalTokens # 0 => total + Held <= MaxTotalTokens + forgiven + overrun

(* What test_concurrent_token_reservations_enforce_hard_cap says of any    *)
(* fan-out: the tokens used never exceed max_total_tokens.  In the code a  *)
(* refused candidate releases the reservation of another one, and the next *)
(* candidate is let in on top of both.                                     *)
HardCap == MaxTotalTokens # 0 => total <= MaxTotalTokens

(* A candidate comes to an end whatever fails, is refused or is retried.   *)
CandidatesEnd == \A c \in Candidates : calls[c].at # "idle" ~> calls[c].at = "idle"

===============================================================================
