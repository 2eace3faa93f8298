----------------------------- MODULE JobRepository -----------------------------
(***************************************************************************)
(* The control plane's SQLite job store (storage/repository.py).           *)
(*                                                                         *)
(* Every public method is one BEGIN IMMEDIATE transaction, hence one       *)
(* action; a method that raises rolls its transaction back and changes     *)
(* nothing, so a refusal is a stuttering step and appears here only as the *)
(* negation of a guard.  A method reads the wall clock before it waits for *)
(* the database lock, so the time it uses may lag behind the clock by up   *)
(* to MaxLag.  A lease row and the attempt row inserted with it form one   *)
(* row here; attempts are numbered by their AUTOINCREMENT id.              *)
(***************************************************************************)
EXTENDS Integers

CONSTANTS Jobs,          \* job ids (naturals: ids are compared by ORDER BY)
          Runs, Keys,    \* run ids and idempotency keys
          Digests,       \* artifact digests
          TTLs,          \* ttl_seconds a caller asks for
          Works,         \* kinds and payloads of the jobs submitted
          Outcomes,      \* terminal statuses a worker reports
          TicksPerSecond,\* resolution of the clock
          MaxLag,        \* how stale a transaction's clock reading may be
          MaxTime,       \* bound: the clock stops there
          MaxAttempts,   \* bound: attempts (and leases) ever issued
          None           \* no job, no digest

TerminalStatuses == {"succeeded", "failed", "blocked", "timed_out", "cancelled"}
ActiveStatuses == {"leased", "running"}
Statuses == {"absent", "pending"} \cup ActiveStatuses \cup TerminalStatuses

ASSUME JobsAssumption == Jobs \subseteq Nat
ASSUME TTLAssumption == TTLs \subseteq Nat \ {0}
ASSUME OutcomesAssumption == Outcomes \subseteq TerminalStatuses
ASSUME TicksAssumption == TicksPerSecond \in Nat \ {0}
ASSUME LagAssumption == MaxLag \in Nat
ASSUME BoundsAssumption == MaxTime \in Nat /\ MaxAttempts \in Nat
ASSUME NoneAssumption == None \notin Jobs /\ None \notin Runs /\ None \notin Digests

VARIABLES clock,      \* wall-clock time, in ticks
          runs,       \* table runs: [Runs -> {"absent", "running", "finished"}]
          jobs,       \* table jobs
          attempts,   \* tables job_attempts and leases, by attempt id
          issued,     \* the AUTOINCREMENT counter of job_attempts
          artifacts,  \* table artifacts: registered digests
          links       \* table job_artifacts

vars == <<clock, runs, jobs, attempts, issued, artifacts, links>>

-------------------------------------------------------------------------------
AttemptIds == 1 .. MaxAttempts

(* kind and payload_json of a gpu:compile or gpu:correctness job.  digest   *)
(* is the executable a correctness job examines, or the source bundle of a *)
(* compile job: None unless the payload names both the source bundle and   *)
(* the benchmark protocol.  The executable of a compile job is linked.     *)
Work == [kind : {"compile", "correctness"}, digest : Digests \cup {None}]

ASSUME WorksAssumption == Works \subseteq Work

NoJob == [status |-> "absent", run |-> None, key |-> None, created |-> 0,
          work |-> [kind |-> "compile", digest |-> None]]
JobRow == [status : Statuses, run : Runs \cup {None}, key : Keys \cup {None},
           created : Nat, work : Work]

NoAttempt == [job |-> None, ordinal |-> 0, status |-> "absent", due |-> 0,
              release |-> "none"]
(* An attempt row (status "leased" until finished_at is set) joined with   *)
(* its lease: due is expires_at, release is "held" while released_at is    *)
(* NULL and the release_reason afterwards.  The worker is the one holding  *)
(* the lease id, so it needs no column of its own here.                    *)
AttemptRow == [job : Jobs \cup {None}, ordinal : Nat,
               status : {"absent", "leased"} \cup TerminalStatuses, due : Nat,
               release : {"none", "held", "expired", "completed"}]

(* A row of job_artifacts; attempt 0 is a NULL attempt_id. *)
Evidence == [digest : Digests, role : {"executable", "other"}]
Link == [job : Jobs, attempt : AttemptIds \cup {0}, of : Evidence]

(* artifact_roles, a dictionary: one role for each digest of a report *)
Reports == {E \in SUBSET Evidence :
              \A e, f \in E : e.digest = f.digest => e = f}

Active(j) == jobs[j].status \in ActiveStatuses
Terminal(j) == jobs[j].status \in TerminalStatuses
AttemptsOf(j) == {a \in AttemptIds : attempts[a].job = j}
HeldLeases == {a \in AttemptIds : attempts[a].release = "held"}

(* The place of a time in the order of its text.  isoformat() omits the    *)
(* fraction of a whole second, and "Z" sorts after ".", so the text of a   *)
(* whole second sorts after every other instant of that second.            *)
Stamp(t) == t - (t % TicksPerSecond)
            + IF t % TicksPerSecond = 0 THEN TicksPerSecond - 1
                                        ELSE (t % TicksPerSecond) - 1

Readings == {t \in 0 .. clock : t + MaxLag >= clock}

-------------------------------------------------------------------------------
(* _recover_expired_leases: what the tables hold after it. *)

(* Mutant: a one-second allowance for skew, added on the wrong side. *)
LapsedTooSoon(now) ==
    {a \in HeldLeases : Stamp(attempts[a].due) <= Stamp(now + TicksPerSecond)}

Lapsed(now) == {a \in HeldLeases : Stamp(attempts[a].due) <= Stamp(now)}

RecoveredAttempts(now) ==
    [a \in AttemptIds |->
        IF a \in Lapsed(now)
        THEN [attempts[a] EXCEPT !.release = "expired",
                                 !.status = IF @ = "leased" THEN "timed_out" ELSE @]
        ELSE attempts[a]]

RecoveredJobs(now) ==
    [j \in Jobs |->
        IF Active(j) /\ \E a \in Lapsed(now) : attempts[a].job = j
        THEN [jobs[j] EXCEPT !.status = "pending"]
        ELSE jobs[j]]

PendingAfter(now) == {j \in Jobs : RecoveredJobs(now)[j].status = "pending"}

(* COALESCE(MAX(ordinal), 0) + 1 over the attempts of j *)
IsNextOrdinal(j, n) ==
    /\ \A a \in AttemptsOf(j) : attempts[a].ordinal < n
    /\ n = 1 \/ \E a \in AttemptsOf(j) : attempts[a].ordinal + 1 = n

(* The inserts and the update that give j, pending after recovery, to a    *)
(* worker for ttl seconds.                                                 *)
Grant(j, now, ttl) ==
    /\ issued < MaxAttempts
    /\ issued' = issued + 1
    /\ \E n \in 1 .. MaxAttempts :
         /\ IsNextOrdinal(j, n)
         /\ attempts' = [RecoveredAttempts(now) EXCEPT ![issued + 1] =
                [job |-> j, ordinal |-> n, status |-> "leased",
                 due |-> now + ttl * TicksPerSecond, release |-> "held"]]
    /\ jobs' = [RecoveredJobs(now) EXCEPT ![j].status = "leased"]
    /\ UNCHANGED <<clock, runs, artifacts, links>>

(* Mutant: the artifacts are linked without looking them up. *)
LinkArtifactsUnchecked(j, a, E) ==
    links' = links \cup {[job |-> j, attempt |-> a, of |-> e] : e \in E}

(* _link_job_artifacts: refused as a whole when a digest is unregistered. *)
LinkArtifacts(j, a, E) ==
    /\ \A e \in E : e.digest \in artifacts
    /\ links' = links \cup {[job |-> j, attempt |-> a, of |-> e] : e \in E}

-------------------------------------------------------------------------------
Tick == /\ clock < MaxTime
        /\ clock' = clock + 1
        /\ UNCHANGED <<runs, jobs, attempts, issued, artifacts, links>>

CreateRun(r) ==
    /\ runs[r] = "absent"
    /\ runs' = [runs EXCEPT ![r] = "running"]
    /\ UNCHANGED <<clock, jobs, attempts, issued, artifacts, links>>

FinishRun(r) ==
    /\ runs[r] # "absent"
    /\ runs' = [runs EXCEPT ![r] = "finished"]
    /\ UNCHANGED <<clock, jobs, attempts, issued, artifacts, links>>

(* ON DELETE CASCADE empties every table that refers to the run. *)
DeleteRunView(r) ==
    /\ runs[r] # "absent"
    /\ runs' = [runs EXCEPT ![r] = "absent"]
    /\ jobs' = [j \in Jobs |-> IF jobs[j].run = r THEN NoJob ELSE jobs[j]]
    /\ attempts' = [a \in AttemptIds |->
                      IF \E j \in Jobs : jobs[j].run = r /\ attempts[a].job = j
                      THEN NoAttempt ELSE attempts[a]]
    /\ links' = {l \in links : jobs[l.job].run # r}
    /\ UNCHANGED <<clock, issued, artifacts>>

(* Mutant: ON CONFLICT DO UPDATE, a repeated submission reopens its job. *)
SubmitJobUpsert(j, r, k, work, now) ==
    /\ runs[r] # "absent"
    /\ \A i \in Jobs \ {j} : ~(jobs[i].run = r /\ jobs[i].key = k)
    /\ jobs' = [jobs EXCEPT ![j] = [status |-> "pending", run |-> r, key |-> k,
                                   created |-> now, work |-> work]]
    /\ UNCHANGED <<clock, runs, attempts, issued, artifacts, links>>

(* The second submission of a (run, key) finds its row and inserts nothing. *)
SubmitJob(j, r, k, work, now) ==
    /\ runs[r] # "absent"
    /\ \A i \in Jobs : ~(jobs[i].run = r /\ jobs[i].key = k)
    /\ jobs[j].status = "absent"
    /\ jobs' = [jobs EXCEPT ![j] = [status |-> "pending", run |-> r, key |-> k,
                                   created |-> now, work |-> work]]
    /\ UNCHANGED <<clock, runs, attempts, issued, artifacts, links>>

(* ORDER BY created_at, id LIMIT 1 *)
Older(i, j) == \/ Stamp(jobs[i].created) < Stamp(jobs[j].created)
               \/ Stamp(jobs[i].created) = Stamp(jobs[j].created) /\ i <= j

(* Recovery is kept whether or not a pending job is found. *)
AcquireLease(now, ttl) ==
    \/ \E j \in PendingAfter(now) :
          /\ \A i \in PendingAfter(now) : Older(j, i)
          /\ Grant(j, now, ttl)
    \/ /\ PendingAfter(now) = {}
       /\ attempts' = RecoveredAttempts(now)
       /\ jobs' = RecoveredJobs(now)
       /\ UNCHANGED <<clock, runs, issued, artifacts, links>>

AcquireJobLease(j, now, ttl) ==
    /\ j \in PendingAfter(now)
    /\ Grant(j, now, ttl)

(* Mutant: only the active statuses protect a job from cancellation. *)
CancelInactiveJob(j) ==
    /\ jobs[j].status \notin {"absent"} \cup ActiveStatuses
    /\ jobs' = [jobs EXCEPT ![j].status = "cancelled"]
    /\ UNCHANGED <<clock, runs, attempts, issued, artifacts, links>>

CancelPendingJob(j) ==
    /\ jobs[j].status = "pending"
    /\ jobs' = [jobs EXCEPT ![j].status = "cancelled"]
    /\ UNCHANGED <<clock, runs, attempts, issued, artifacts, links>>

(* The holder of lease a renews it; the other expired leases are recovered. *)
HeartbeatLease(a, now, ttl) ==
    /\ RecoveredAttempts(now)[a].release = "held"
    /\ attempts' = [RecoveredAttempts(now) EXCEPT
                      ![a].due = now + ttl * TicksPerSecond]
    /\ jobs' = [j \in Jobs |->
                  IF j = attempts[a].job /\ jobs[j].status = "leased"
                  THEN [jobs[j] EXCEPT !.status = "running"]
                  ELSE RecoveredJobs(now)[j]]
    /\ UNCHANGED <<clock, runs, issued, artifacts, links>>

(* Mutant: the lease is looked up by its id only. *)
CompleteActiveAnyLease(j, a, s, E, now) ==
    /\ attempts[a].job = j
    /\ attempts' = [attempts EXCEPT ![a].release = "completed", ![a].status = s]
    /\ jobs' = [jobs EXCEPT ![j].status = s]
    /\ LinkArtifacts(j, a, E)

(* The worker given lease a reports status s and artifacts E for job j. *)
CompleteActive(j, a, s, E, now) ==
    /\ attempts[a].job = j
    /\ attempts[a].release = "held"
    /\ Stamp(attempts[a].due) > Stamp(now)
    /\ attempts' = [attempts EXCEPT ![a].release = "completed", ![a].status = s]
    /\ jobs' = [jobs EXCEPT ![j].status = s]
    /\ LinkArtifacts(j, a, E)

(* A decided job keeps its status; the artifacts go to its last attempt,   *)
(* or to none when nobody ever leased it, whoever reports them and         *)
(* whatever became of the reporter's lease.                                *)
CompleteDecided(j, E) ==
    /\ \/ AttemptsOf(j) = {} /\ LinkArtifacts(j, 0, E)
       \/ \E b \in AttemptsOf(j) :
            /\ \A c \in AttemptsOf(j) : attempts[c].ordinal <= attempts[b].ordinal
            /\ LinkArtifacts(j, b, E)
    /\ UNCHANGED <<jobs, attempts>>

CompleteJob(j, a, s, E, now) ==
    /\ jobs[j].status # "absent"
    /\ IF Terminal(j) THEN CompleteDecided(j, E)
                      ELSE CompleteActive(j, a, s, E, now)
    /\ UNCHANGED <<clock, runs, issued, artifacts>>

RegisterArtifact(d) ==
    /\ d \notin artifacts
    /\ artifacts' = artifacts \cup {d}
    /\ UNCHANGED <<clock, runs, jobs, attempts, issued, links>>

-------------------------------------------------------------------------------
Init == /\ clock = 0
        /\ runs = [r \in Runs |-> "absent"]
        /\ jobs = [j \in Jobs |-> NoJob]
        /\ attempts = [a \in AttemptIds |-> NoAttempt]
        /\ issued = 0
        /\ artifacts = {}
        /\ links = {}

Next == \/ Tick
        \/ \E r \in Runs : CreateRun(r) \/ FinishRun(r) \/ DeleteRunView(r)
        \/ \E d \in Digests : RegisterArtifact(d)
        \/ \E j \in Jobs, r \in Runs, k \in Keys, work \in Works,
             now \in Readings : SubmitJob(j, r, k, work, now)
        \/ \E now \in Readings, ttl \in TTLs :
             \/ AcquireLease(now, ttl)
             \/ \E j \in Jobs : AcquireJobLease(j, now, ttl)
             \/ \E a \in AttemptIds : HeartbeatLease(a, now, ttl)
        \/ \E j \in Jobs : CancelPendingJob(j)
        \/ \E j \in Jobs, a \in AttemptIds, s \in Outcomes, E \in Reports,
             now \in Readings : CompleteJob(j, a, s, E, now)

Spec == Init /\ [][Next]_vars

-------------------------------------------------------------------------------
(* The tables hold rows of their schema. *)
TypeOK == /\ clock \in 0 .. MaxTime
          /\ runs \in [Runs -> {"absent", "running", "finished"}]
          /\ jobs \in [Jobs -> JobRow]
          /\ attempts \in [AttemptIds -> AttemptRow]
          /\ issued \in 0 .. MaxAttempts
          /\ artifacts \subseteq Digests
          /\ links \subseteq Link

(* One worker at a time: two unreleased leases never concern one job.  It  *)
(* is the partial unique index one_active_lease_per_job, which therefore   *)
(* never makes an INSERT of acquire_lease or acquire_job_lease fail.       *)
OneActiveLease ==
    \A a, b \in HeldLeases : attempts[a].job = attempts[b].job => a = b

(* jobs.status and the lease table tell the same story: a job is leased or *)
(* running exactly while a lease on it is unreleased, so that no job is    *)
(* stuck without a lease to expire and no pending job is being worked on.  *)
ActiveIffLeased ==
    \A j \in Jobs : Active(j) <=> \E a \in HeldLeases : attempts[a].job = j

(* Fencing: the attempts of a job are ordered alike by id and by ordinal   *)
(* (UNIQUE(job_id, ordinal) never fires), and only the last of them may    *)
(* hold the lease: a worker whose lease expired can never hold it again.   *)
OnlyLastAttemptHolds ==
    \A a, b \in AttemptIds :
        (a < b /\ attempts[a].job = attempts[b].job /\ attempts[a].job # None)
        => attempts[a].ordinal < attempts[b].ordinal /\ attempts[a].release # "held"

(* A job is decided by one attempt: a completed attempt is the last one,   *)
(* carries the job's status, and a job decided without one was cancelled   *)
(* while it was pending.  A late or repeated report changes no verdict.    *)
VerdictOfOneAttempt ==
    /\ \A a \in AttemptIds : attempts[a].release = "completed" =>
          /\ jobs[attempts[a].job].status = attempts[a].status
          /\ \A b \in AttemptsOf(attempts[a].job) : b <= a
    /\ \A j \in Jobs : Terminal(j) =>
          \/ \E a \in AttemptsOf(j) : attempts[a].release = "completed"
          \/ jobs[j].status = "cancelled"

(* What the tables say of one job never disagrees, whatever expired, was   *)
(* reported late or repeated, or was deleted with its run in between.      *)
LeasesAgree == ActiveIffLeased /\ OnlyLastAttemptHolds /\ VerdictOfOneAttempt

(* Artifacts are evidence of a decision: a link names a registered digest  *)
(* and a decided job, and either an attempt of that job that is over or,   *)
(* when the job was cancelled before anybody leased it, none.              *)
LinksAreEvidence ==
    \A l \in links :
        /\ l.of.digest \in artifacts
        /\ Terminal(l.job)
        /\ IF l.attempt = 0
           THEN AttemptsOf(l.job) = {} /\ jobs[l.job].status = "cancelled"
           ELSE attempts[l.attempt].job = l.job /\ attempts[l.attempt].release # "held"

(* profiler_candidate: the succeeded compile jobs that link d as their     *)
(* executable, and whether a succeeded correctness job has examined it.    *)
CompileRows(d) ==
    {j \in Jobs : /\ jobs[j].status = "succeeded"
                  /\ jobs[j].work.kind = "compile"
                  /\ \E l \in links : l.job = j /\ l.of = [digest |-> d, role |-> "executable"]}

Checked(d) == \E j \in Jobs : /\ jobs[j].status = "succeeded"
                              /\ jobs[j].work = [kind |-> "correctness", digest |-> d]

(* What the lookup may answer: the source bundle of whichever compile row  *)
(* the database returns first (the query has no ORDER BY), None being the  *)
(* refusal of a row without provenance.  Empty: every lookup is refused.   *)
ProfilerCandidate(d) ==
    IF d \in artifacts /\ Checked(d)
    THEN {jobs[j].work.digest : j \in CompileRows(d)}
    ELSE {}

Accepted(d) == ProfilerCandidate(d) # {} /\ None \notin ProfilerCandidate(d)

RunDeleted == \E r \in Runs : runs[r] # "absent" /\ runs'[r] = "absent"

(* Evidence a profile relies on is never taken back: short of deleting a   *)
(* run, no later lease, report or cancellation removes an answer of the    *)
(* lookup, and an executable it accepts is refused later only because one  *)
(* more compile job, whose payload lacks the provenance, reported it.      *)
EvidenceStable ==
    [][\A d \in Digests :
          \/ RunDeleted
          \/ /\ ProfilerCandidate(d) \subseteq ProfilerCandidate(d)'
             /\ Accepted(d) => \/ Accepted(d)'
                               \/ \E j \in CompileRows(d)' \ CompileRows(d) :
                                     jobs'[j].work.digest = None]_vars

(* Although expires_at and now are compared as text, and either may lose    *)
(* its fraction, a lease is never taken back a full second or more before  *)
(* it is due, and a report is never accepted a full second or more (plus   *)
(* the wait for the database) after.                                       *)
RecoveredNoSecondEarly ==
    \A a \in AttemptIds :
        attempts[a].release = "held" /\ attempts'[a].release = "expired"
        => clock + TicksPerSecond > attempts[a].due

ReportedNoSecondLate ==
    \A a \in AttemptIds :
        attempts[a].release = "held" /\ attempts'[a].release = "completed"
        => clock < attempts[a].due + TicksPerSecond + MaxLag

LeasesEndOnTime == [][RecoveredNoSecondEarly /\ ReportedNoSecondLate]_vars

-------------------------------------------------------------------------------
(* The store implements the lease service: the token of a job is the id of *)
(* the attempt that holds its lease.                                       *)
Phase(j) == CASE jobs[j].status = "absent" -> "unknown"
              [] jobs[j].status = "pending" -> "open"
              [] Active(j) -> "held"
              [] Terminal(j) -> "decided"

Token(j) == IF \E a \in HeldLeases : attempts[a].job = j
            THEN CHOOSE a \in HeldLeases : attempts[a].job = j
            ELSE 0

Verdict(j) == IF Terminal(j) THEN jobs[j].status ELSE "undecided"

LS == INSTANCE LeaseService WITH
        Verdicts <- Outcomes,
        phase <- [j \in Jobs |-> Phase(j)],
        token <- [j \in Jobs |-> Token(j)],
        verdict <- [j \in Jobs |-> Verdict(j)]

(* Every behaviour of the store is one of the lease service: one holder    *)
(* per job under a fresh token, one decision, by the current holder.       *)
ImplementsLeaseService == LS!Spec

===============================================================================
