-------------------------- MODULE JobRepositoryProofs --------------------------
(***************************************************************************)
(* The lease invariants of JobRepository for every number of jobs, runs,   *)
(* attempts, time-to-live, clock resolution and clock lag.                 *)
(***************************************************************************)
EXTENDS JobRepository, TLAPS

USE JobsAssumption, TTLAssumption, OutcomesAssumption, TicksAssumption,
    LagAssumption, BoundsAssumption, NoneAssumption

-------------------------------------------------------------------------------
(* The inductive invariant relates a jobs table J, a table A of attempts   *)
(* with their leases and the counter n of issued attempts.  It is stated   *)
(* of arbitrary tables because a transaction recovers expired leases first *)
(* and then works on the recovered tables, which no state ever holds.      *)

Tables(J, A) == J \in [Jobs -> JobRow] /\ A \in [AttemptIds -> AttemptRow]

(* Rows of attempts not yet issued are empty; an attempt has a lease and   *)
(* belongs to an existing job.                                             *)
RowsLinked(J, A, n) ==
    /\ \A a \in AttemptIds : a > n => A[a] = NoAttempt
    /\ \A a \in AttemptIds : A[a].job = None <=> A[a].release = "none"
    /\ \A a \in AttemptIds : A[a].job # None => J[A[a].job].status # "absent"

(* Active jobs are those with an unreleased lease. *)
LeasesMatch(J, A) ==
    /\ \A a \in AttemptIds : A[a].release = "held"
                             => J[A[a].job].status \in ActiveStatuses
    /\ \A j \in Jobs : J[j].status \in ActiveStatuses
                       => \E a \in AttemptIds : A[a].release = "held" /\ A[a].job = j

(* Of the attempts of a job only the last can be anything but expired. *)
EarlierExpired(A) ==
    \A a, b \in AttemptIds :
        (a < b /\ A[a].job = A[b].job /\ A[a].job # None)
        => A[a].ordinal < A[b].ordinal /\ A[a].release = "expired"

(* A completed attempt gave its job its status, and every other decided    *)
(* job was cancelled.                                                      *)
VerdictsMatch(J, A) ==
    /\ \A a \in AttemptIds : A[a].release = "completed"
         => J[A[a].job].status = A[a].status /\ A[a].status \in TerminalStatuses
    /\ \A j \in Jobs : J[j].status \in TerminalStatuses =>
         \/ \E a \in AttemptIds : A[a].job = j /\ A[a].release = "completed"
         \/ J[j].status = "cancelled"

Consistent(J, A, n) == /\ Tables(J, A)
                       /\ RowsLinked(J, A, n)
                       /\ LeasesMatch(J, A)
                       /\ EarlierExpired(A)
                       /\ VerdictsMatch(J, A)

IInv == TypeOK /\ Consistent(jobs, attempts, issued)

-------------------------------------------------------------------------------
(* The recovery of expired leases keeps the tables consistent and changes  *)
(* no row but those of lapsed leases and of their jobs.                    *)
LEMMA RecoveryConsistent ==
  ASSUME NEW now \in Nat, IInv
  PROVE  Consistent(RecoveredJobs(now), RecoveredAttempts(now), issued)
<1> DEFINE J == RecoveredJobs(now)
           A == RecoveredAttempts(now)
           L == Lapsed(now)
<1>1. L \subseteq AttemptIds /\ \A a \in L : attempts[a].release = "held"
  BY DEF Lapsed, HeldLeases
<1>2. /\ Tables(jobs, attempts) /\ RowsLinked(jobs, attempts, issued)
      /\ LeasesMatch(jobs, attempts) /\ EarlierExpired(attempts)
      /\ VerdictsMatch(jobs, attempts)
  BY DEF IInv, Consistent
<1>3. \A a \in AttemptIds :
        /\ A[a].job = attempts[a].job
        /\ A[a].ordinal = attempts[a].ordinal
        /\ A[a].release = IF a \in L THEN "expired" ELSE attempts[a].release
        /\ a \notin L => A[a] = attempts[a]
  BY <1>2 DEF RecoveredAttempts, Tables, AttemptRow
<1>4. \A j \in Jobs :
        J[j].status = IF Active(j) /\ \E a \in L : attempts[a].job = j
                      THEN "pending" ELSE jobs[j].status
  BY <1>2 DEF RecoveredJobs, Tables, JobRow
<1>5. Tables(J, A)
  <2>1. ASSUME NEW j \in Jobs PROVE J[j] \in JobRow
    BY <1>2 DEF Tables, RecoveredJobs, JobRow, Statuses
  <2>2. ASSUME NEW a \in AttemptIds PROVE A[a] \in AttemptRow
    BY <1>2, ZenonT(60) DEF Tables, RecoveredAttempts, AttemptRow, TerminalStatuses
  <2>3. QED
    BY <2>1, <2>2 DEF Tables, RecoveredJobs, RecoveredAttempts
<1>6. \A a \in AttemptIds : attempts[a].job \in Jobs \cup {None}
  BY <1>2 DEF Tables, AttemptRow
<1>7. RowsLinked(J, A, issued)
  <2>1. \A a \in AttemptIds : a > issued => A[a] = NoAttempt
    BY <1>1, <1>2, <1>3 DEF RowsLinked, NoAttempt
  <2>2. ASSUME NEW a \in AttemptIds
        PROVE  A[a].job = None <=> A[a].release = "none"
    <3>1. /\ A[a].job = attempts[a].job
          /\ A[a].release = IF a \in L THEN "expired" ELSE attempts[a].release
      BY <1>3
    <3>2. attempts[a].job = None <=> attempts[a].release = "none"
      BY <1>2 DEF RowsLinked
    <3>3. QED
      BY <1>1, <3>1, <3>2
  <2>3. ASSUME NEW a \in AttemptIds, A[a].job # None
        PROVE  J[A[a].job].status # "absent"
    <3>1. A[a].job = attempts[a].job /\ attempts[a].job \in Jobs
      BY <2>3, <1>3, <1>6
    <3>2. jobs[attempts[a].job].status # "absent"
      BY <3>1, <2>3, <1>2 DEF RowsLinked
    <3>3. QED
      BY <3>1, <3>2, <1>4
  <2>4. QED
    BY <2>1, <2>2, <2>3 DEF RowsLinked
<1>8. LeasesMatch(J, A)
  <2>1. ASSUME NEW a \in AttemptIds, A[a].release = "held"
        PROVE  J[A[a].job].status \in ActiveStatuses
    <3>1. a \notin L /\ attempts[a].release = "held" /\ attempts[a].job \in Jobs
      BY <2>1, <1>2, <1>3, <1>6 DEF RowsLinked
    <3>2. \A b \in L : attempts[b].job # attempts[a].job
      BY <1>1, <1>2, <3>1 DEF EarlierExpired, AttemptIds
    <3>3. QED
      BY <3>1, <3>2, <1>2, <1>3, <1>4 DEF LeasesMatch
  <2>2. ASSUME NEW j \in Jobs, J[j].status \in ActiveStatuses
        PROVE  \E a \in AttemptIds : A[a].release = "held" /\ A[a].job = j
    <3>1. Active(j) /\ ~ \E a \in L : attempts[a].job = j
      BY <2>2, <1>4 DEF ActiveStatuses, Active
    <3>2. QED
      BY <3>1, <1>2, <1>3 DEF LeasesMatch, Active
  <2>3. QED
    BY <2>1, <2>2 DEF LeasesMatch
<1>9. EarlierExpired(A)
  BY <1>2, <1>3 DEF EarlierExpired
<1>10. VerdictsMatch(J, A)
  <2>1. ASSUME NEW a \in AttemptIds, A[a].release = "completed"
        PROVE  J[A[a].job].status = A[a].status /\ A[a].status \in TerminalStatuses
    <3>1. a \notin L /\ attempts[a].release = "completed" /\ attempts[a].job \in Jobs
      BY <2>1, <1>2, <1>3, <1>6 DEF RowsLinked
    <3>2. /\ jobs[attempts[a].job].status = attempts[a].status
          /\ attempts[a].status \in TerminalStatuses
      BY <3>1, <1>2 DEF VerdictsMatch
    <3>3. ~Active(attempts[a].job)
      BY <3>2 DEF Active, ActiveStatuses, TerminalStatuses
    <3>4. QED
      BY <3>1, <3>2, <3>3, <1>3, <1>4, ZenonT(60)
  <2>2. ASSUME NEW j \in Jobs, J[j].status \in TerminalStatuses
        PROVE  \/ \E a \in AttemptIds : A[a].job = j /\ A[a].release = "completed"
               \/ J[j].status = "cancelled"
    BY <2>2, <1>1, <1>2, <1>3, <1>4 DEF VerdictsMatch, TerminalStatuses
  <2>3. QED
    BY <2>1, <2>2 DEF VerdictsMatch
<1>11. QED
  BY <1>5, <1>7, <1>8, <1>9, <1>10 DEF Consistent

-------------------------------------------------------------------------------
(* Giving a pending job to a worker: the inserts of the attempt and of its *)
(* lease and the update of the job.                                        *)
LEMMA GrantConsistent ==
  ASSUME NEW J, NEW A, NEW n \in Nat, n < MaxAttempts, Consistent(J, A, n),
         NEW j \in Jobs, J[j].status = "pending",
         NEW o \in Nat, \A a \in AttemptIds : A[a].job = j => A[a].ordinal < o,
         NEW d \in Nat
  PROVE  Consistent([J EXCEPT ![j].status = "leased"],
                    [A EXCEPT ![n + 1] = [job |-> j, ordinal |-> o,
                       status |-> "leased", due |-> d, release |-> "held"]],
                    n + 1)
<1> DEFINE J1 == [J EXCEPT ![j].status = "leased"]
           new == [job |-> j, ordinal |-> o, status |-> "leased",
                   due |-> d, release |-> "held"]
           A1 == [A EXCEPT ![n + 1] = new]
<1>1. Tables(J, A) /\ RowsLinked(J, A, n) /\ LeasesMatch(J, A)
      /\ EarlierExpired(A) /\ VerdictsMatch(J, A)
  BY DEF Consistent
<1>2. n + 1 \in AttemptIds /\ \A a \in AttemptIds : a \in Nat
  BY DEF AttemptIds
<1>3. A1[n + 1] = new /\ \A a \in AttemptIds : a # n + 1 => A1[a] = A[a]
  BY <1>1, <1>2 DEF Tables
<1>4. /\ J1[j].status = "leased"
      /\ \A k \in Jobs : k # j => J1[k] = J[k]
  BY <1>1 DEF Tables, JobRow
<1>5. \A a \in AttemptIds : A[a].job \in Jobs \cup {None}
  BY <1>1 DEF Tables, AttemptRow
<1>6. A[n + 1] = NoAttempt
  BY <1>1, <1>2 DEF RowsLinked
<1>7. \A a \in AttemptIds : A[a].job = j => A[a].release = "expired"
  <2> SUFFICES ASSUME NEW a \in AttemptIds, A[a].job = j
               PROVE  A[a].release = "expired"
    OBVIOUS
  <2>1. A[a].release # "held" /\ A[a].release # "completed"
    BY <1>1 DEF LeasesMatch, VerdictsMatch, ActiveStatuses, TerminalStatuses
  <2>2. A[a].release # "none"
    BY <1>1 DEF RowsLinked
  <2>3. QED
    BY <1>1, <2>1, <2>2 DEF Tables, AttemptRow
<1>8. Tables(J1, A1)
  <2>1. J1 \in [Jobs -> JobRow]
    BY <1>1 DEF Tables, JobRow, Statuses, ActiveStatuses
  <2>2. new \in AttemptRow
    BY DEF AttemptRow
  <2>3. QED
    BY <1>1, <2>1, <2>2 DEF Tables
<1>9. RowsLinked(J1, A1, n + 1)
  <2>1. \A a \in AttemptIds : a > n + 1 => A1[a] = NoAttempt
    BY <1>1, <1>2, <1>3 DEF RowsLinked
  <2>2. ASSUME NEW a \in AttemptIds
        PROVE  A1[a].job = None <=> A1[a].release = "none"
    BY <1>1, <1>3 DEF RowsLinked
  <2>3. ASSUME NEW a \in AttemptIds, A1[a].job # None
        PROVE  J1[A1[a].job].status # "absent"
    BY <2>3, <1>1, <1>3, <1>4, <1>5 DEF RowsLinked
  <2>4. QED
    BY <2>1, <2>2, <2>3 DEF RowsLinked
<1>10. LeasesMatch(J1, A1)
  <2>1. ASSUME NEW a \in AttemptIds, A1[a].release = "held"
        PROVE  J1[A1[a].job].status \in ActiveStatuses
    <3>1. CASE a = n + 1
      BY <3>1, <1>3, <1>4 DEF ActiveStatuses
    <3>2. CASE a # n + 1
      <4>1. A1[a] = A[a] /\ A[a].release = "held"
        BY <2>1, <3>2, <1>3
      <4>2. A[a].job \in Jobs /\ A[a].job # j
        BY <4>1, <1>1, <1>5, <1>7 DEF RowsLinked
      <4>3. QED
        BY <4>1, <4>2, <1>1, <1>4 DEF LeasesMatch
    <3>3. QED
      BY <3>1, <3>2
  <2>2. ASSUME NEW k \in Jobs, J1[k].status \in ActiveStatuses
        PROVE  \E a \in AttemptIds : A1[a].release = "held" /\ A1[a].job = k
    <3>1. CASE k = j
      BY <3>1, <1>2, <1>3
    <3>2. CASE k # j
      <4>1. PICK a \in AttemptIds : A[a].release = "held" /\ A[a].job = k
        BY <2>2, <3>2, <1>1, <1>4 DEF LeasesMatch
      <4>2. a # n + 1
        BY <4>1, <1>6 DEF NoAttempt
      <4>3. QED
        BY <4>1, <4>2, <1>3
    <3>3. QED
      BY <3>1, <3>2
  <2>3. QED
    BY <2>1, <2>2 DEF LeasesMatch
<1>11. EarlierExpired(A1)
  <2> SUFFICES ASSUME NEW a \in AttemptIds, NEW b \in AttemptIds,
                      a < b, A1[a].job = A1[b].job, A1[a].job # None
               PROVE  A1[a].ordinal < A1[b].ordinal /\ A1[a].release = "expired"
    BY DEF EarlierExpired
  <2>1. CASE b = n + 1
    <3>1. A1[b] = new /\ A1[a] = A[a] /\ A[a].job = j
      BY <2>1, <1>2, <1>3
    <3>2. QED
      BY <3>1, <1>7
  <2>2. CASE a = n + 1
    <3>1. b > n /\ A1[b] = A[b]
      BY <2>2, <1>2, <1>3
    <3>2. A1[b].job = None
      BY <3>1, <1>1 DEF RowsLinked, NoAttempt
    <3>3. QED
      BY <3>2
  <2>3. CASE a # n + 1 /\ b # n + 1
    <3>1. A1[a] = A[a] /\ A1[b] = A[b]
      BY <2>3, <1>3
    <3>2. QED
      BY <3>1, <1>1 DEF EarlierExpired
  <2>4. QED
    BY <2>1, <2>2, <2>3
<1>12. VerdictsMatch(J1, A1)
  <2>1. ASSUME NEW a \in AttemptIds, A1[a].release = "completed"
        PROVE  J1[A1[a].job].status = A1[a].status /\ A1[a].status \in TerminalStatuses
    <3>1. a # n + 1 /\ A1[a] = A[a]
      BY <2>1, <1>3
    <3>2. A[a].job \in Jobs /\ A[a].job # j
      BY <2>1, <3>1, <1>1, <1>5, <1>7 DEF RowsLinked
    <3>3. QED
      BY <2>1, <3>1, <3>2, <1>1, <1>4 DEF VerdictsMatch
  <2>2. ASSUME NEW k \in Jobs, J1[k].status \in TerminalStatuses
        PROVE  \/ \E a \in AttemptIds : A1[a].job = k /\ A1[a].release = "completed"
               \/ J1[k].status = "cancelled"
    <3>1. k # j /\ J1[k] = J[k]
      BY <2>2, <1>4 DEF TerminalStatuses
    <3>2. CASE J[k].status = "cancelled"
      BY <3>1, <3>2
    <3>3. CASE \E a \in AttemptIds : A[a].job = k /\ A[a].release = "completed"
      <4>1. PICK a \in AttemptIds : A[a].job = k /\ A[a].release = "completed"
        BY <3>3
      <4>2. a # n + 1
        BY <4>1, <1>6 DEF NoAttempt
      <4>3. QED
        BY <4>1, <4>2, <1>3
    <3>4. QED
      BY <2>2, <3>1, <3>2, <3>3, <1>1 DEF VerdictsMatch
  <2>3. QED
    BY <2>1, <2>2 DEF VerdictsMatch
<1>13. QED
  BY <1>8, <1>9, <1>10, <1>11, <1>12 DEF Consistent

-------------------------------------------------------------------------------
(* One lemma per transaction that changes jobs or attempts. *)

LEMMA GrantStep ==
  ASSUME IInv, NEW now \in Readings, NEW ttl \in TTLs,
         NEW j \in PendingAfter(now), Grant(j, now, ttl)
  PROVE  Consistent(jobs, attempts, issued)'
<1> DEFINE J == RecoveredJobs(now)
           A == RecoveredAttempts(now)
<1>1. now \in Nat /\ issued \in Nat /\ issued < MaxAttempts
  BY DEF Readings, IInv, TypeOK, Grant
<1>2. Consistent(J, A, issued)
  BY <1>1, RecoveryConsistent
<1>3. j \in Jobs /\ J[j].status = "pending"
  BY DEF PendingAfter
<1>4. PICK o \in 1 .. MaxAttempts :
        /\ IsNextOrdinal(j, o)
        /\ attempts' = [A EXCEPT ![issued + 1] =
              [job |-> j, ordinal |-> o, status |-> "leased",
               due |-> now + ttl * TicksPerSecond, release |-> "held"]]
  BY DEF Grant
<1>5. \A a \in AttemptIds : A[a].job = attempts[a].job /\ A[a].ordinal = attempts[a].ordinal
  BY DEF RecoveredAttempts, IInv, TypeOK, AttemptRow
<1>6. \A a \in AttemptIds : A[a].job = j => A[a].ordinal < o
  BY <1>4, <1>5 DEF IsNextOrdinal, AttemptsOf
<1>7. o \in Nat /\ now + ttl * TicksPerSecond \in Nat
  <2>1. ttl \in Nat /\ TicksPerSecond \in Nat
    OBVIOUS
  <2>2. ttl * TicksPerSecond \in Nat
    BY <2>1
  <2>3. QED
    BY <1>1, <2>2
<1>8. Consistent([J EXCEPT ![j].status = "leased"],
                 [A EXCEPT ![issued + 1] = [job |-> j, ordinal |-> o,
                   status |-> "leased", due |-> now + ttl * TicksPerSecond,
                   release |-> "held"]],
                 issued + 1)
  BY <1>1, <1>2, <1>3, <1>6, <1>7, GrantConsistent
<1>9. jobs' = [J EXCEPT ![j].status = "leased"] /\ issued' = issued + 1
  BY DEF Grant
<1>10. QED
  BY <1>4, <1>8, <1>9 DEF Consistent, Tables, RowsLinked, LeasesMatch,
                          EarlierExpired, VerdictsMatch

LEMMA HeartbeatStep ==
  ASSUME IInv, NEW a \in AttemptIds, NEW now \in Readings, NEW ttl \in TTLs,
         HeartbeatLease(a, now, ttl)
  PROVE  Consistent(jobs, attempts, issued)'
<1> DEFINE J == RecoveredJobs(now)
           A == RecoveredAttempts(now)
           d == now + ttl * TicksPerSecond
           h == attempts[a].job
<1>1. now \in Nat /\ d \in Nat
  <2>1. ttl * TicksPerSecond \in Nat
    OBVIOUS
  <2>2. QED
    BY <2>1 DEF Readings, IInv, TypeOK
<1>2. /\ Tables(J, A) /\ RowsLinked(J, A, issued) /\ LeasesMatch(J, A)
      /\ EarlierExpired(A) /\ VerdictsMatch(J, A)
  BY <1>1, RecoveryConsistent DEF Consistent
<1>3. A[a].release = "held" /\ A[a].job = h
  BY DEF HeartbeatLease, RecoveredAttempts, IInv, TypeOK, AttemptRow
<1>4. h \in Jobs /\ J[h].status \in ActiveStatuses
  BY <1>2, <1>3 DEF Tables, AttemptRow, RowsLinked, LeasesMatch
<1>5. attempts' = [A EXCEPT ![a].due = d] /\ issued' = issued
  BY DEF HeartbeatLease
<1>6. \A b \in AttemptIds :
        /\ attempts'[b].job = A[b].job /\ attempts'[b].ordinal = A[b].ordinal
        /\ attempts'[b].status = A[b].status /\ attempts'[b].release = A[b].release
        /\ b # a => attempts'[b] = A[b]
  BY <1>2, <1>5 DEF Tables, AttemptRow
<1>7. /\ jobs'[h] = IF jobs[h].status = "leased"
                      THEN [jobs[h] EXCEPT !.status = "running"] ELSE J[h]
      /\ \A j \in Jobs : j # h => jobs'[j] = J[j]
  BY <1>4 DEF HeartbeatLease
<1>8. jobs'[h].status \in ActiveStatuses /\ jobs'[h] \in JobRow
  <2>1. CASE jobs[h].status = "leased"
    BY <2>1, <1>4, <1>7 DEF IInv, TypeOK, JobRow, Statuses, ActiveStatuses
  <2>2. CASE jobs[h].status # "leased"
    BY <2>2, <1>2, <1>4, <1>7 DEF Tables
  <2>3. QED
    BY <2>1, <2>2
<1>9. Tables(jobs, attempts)'
  <2>1. ASSUME NEW j \in Jobs PROVE jobs'[j] \in JobRow
    BY <1>2, <1>7, <1>8 DEF Tables
  <2>2. jobs' \in [Jobs -> JobRow]
    BY <2>1 DEF HeartbeatLease
  <2>3. ASSUME NEW b \in AttemptIds PROVE attempts'[b] \in AttemptRow
    BY <1>1, <1>2, <1>5 DEF Tables, AttemptRow
  <2>4. QED
    BY <2>2, <2>3, <1>2, <1>5 DEF Tables
<1>10. RowsLinked(jobs, attempts, issued)'
  <2>1. ASSUME NEW b \in AttemptIds, b > issued PROVE attempts'[b] = NoAttempt
    <3>1. A[b] = NoAttempt
      BY <2>1, <1>2 DEF RowsLinked
    <3>2. QED
      BY <3>1, <1>3, <1>6 DEF NoAttempt
  <2>2. ASSUME NEW b \in AttemptIds
        PROVE  attempts'[b].job = None <=> attempts'[b].release = "none"
    BY <1>2, <1>6 DEF RowsLinked
  <2>3. ASSUME NEW b \in AttemptIds, attempts'[b].job # None
        PROVE  jobs'[attempts'[b].job].status # "absent"
    <3>1. A[b].job \in Jobs /\ J[A[b].job].status # "absent"
      BY <2>3, <1>2, <1>6 DEF RowsLinked, Tables, AttemptRow
    <3>2. attempts'[b].job = A[b].job
      BY <1>6
    <3>3. CASE A[b].job = h
      BY <3>2, <3>3, <1>8 DEF ActiveStatuses
    <3>4. CASE A[b].job # h
      BY <3>1, <3>2, <3>4, <1>7
    <3>5. QED
      BY <3>3, <3>4
  <2>4. QED
    BY <1>5, <2>1, <2>2, <2>3 DEF RowsLinked
<1>11. LeasesMatch(jobs, attempts)'
  <2>1. ASSUME NEW b \in AttemptIds, attempts'[b].release = "held"
        PROVE  jobs'[attempts'[b].job].status \in ActiveStatuses
    <3>1. A[b].job \in Jobs /\ J[A[b].job].status \in ActiveStatuses
      BY <2>1, <1>2, <1>6 DEF RowsLinked, Tables, AttemptRow, LeasesMatch
    <3>2. attempts'[b].job = A[b].job
      BY <1>6
    <3>3. CASE A[b].job = h
      BY <3>2, <3>3, <1>8
    <3>4. CASE A[b].job # h
      BY <3>1, <3>2, <3>4, <1>7
    <3>5. QED
      BY <3>3, <3>4
  <2>2. ASSUME NEW j \in Jobs, jobs'[j].status \in ActiveStatuses
        PROVE  \E b \in AttemptIds : attempts'[b].release = "held" /\ attempts'[b].job = j
    <3>1. J[j].status \in ActiveStatuses
      BY <2>2, <1>4, <1>7
    <3>2. QED
      BY <3>1, <1>2, <1>6 DEF LeasesMatch
  <2>3. QED
    BY <2>1, <2>2 DEF LeasesMatch
<1>12. EarlierExpired(attempts)'
  BY <1>2, <1>6 DEF EarlierExpired
<1>13. VerdictsMatch(jobs, attempts)'
  <2>1. ASSUME NEW b \in AttemptIds, attempts'[b].release = "completed"
        PROVE  /\ jobs'[attempts'[b].job].status = attempts'[b].status
               /\ attempts'[b].status \in TerminalStatuses
    <3>1. /\ A[b].job \in Jobs /\ J[A[b].job].status = A[b].status
          /\ A[b].status \in TerminalStatuses
      BY <2>1, <1>2, <1>6 DEF RowsLinked, Tables, AttemptRow, VerdictsMatch
    <3>2. A[b].job # h
      BY <3>1, <1>4 DEF ActiveStatuses, TerminalStatuses
    <3>3. QED
      BY <3>1, <3>2, <1>6, <1>7
  <2>2. ASSUME NEW j \in Jobs, jobs'[j].status \in TerminalStatuses
        PROVE  \/ \E b \in AttemptIds : attempts'[b].job = j /\ attempts'[b].release = "completed"
               \/ jobs'[j].status = "cancelled"
    <3>1. j # h /\ jobs'[j] = J[j]
      BY <2>2, <1>7, <1>8 DEF ActiveStatuses, TerminalStatuses
    <3>2. QED
      BY <2>2, <3>1, <1>2, <1>6 DEF VerdictsMatch
  <2>3. QED
    BY <2>1, <2>2 DEF VerdictsMatch
<1>14. QED
  BY <1>9, <1>10, <1>11, <1>12, <1>13 DEF Consistent

LEMMA CompleteStep ==
  ASSUME IInv, NEW h \in Jobs, NEW a \in AttemptIds, NEW s \in Outcomes,
         NEW E \in Reports, NEW now \in Readings, CompleteJob(h, a, s, E, now)
  PROVE  Consistent(jobs, attempts, issued)'
<1>1. /\ Tables(jobs, attempts) /\ RowsLinked(jobs, attempts, issued)
      /\ LeasesMatch(jobs, attempts) /\ EarlierExpired(attempts)
      /\ VerdictsMatch(jobs, attempts)
  BY DEF IInv, Consistent
<1>2. issued' = issued
  BY DEF CompleteJob
<1>3. CASE Terminal(h)
  BY <1>1, <1>2, <1>3 DEF CompleteJob, CompleteDecided, Consistent, Tables,
        RowsLinked, LeasesMatch, EarlierExpired, VerdictsMatch
<1>4. CASE ~Terminal(h)
  <2>1. CompleteActive(h, a, s, E, now) /\ attempts[a].job = h
    BY <1>4 DEF CompleteJob, CompleteActive
  <2>2. attempts[a].release = "held" /\ jobs[h].status \in ActiveStatuses
    BY <2>1, <1>1 DEF CompleteActive, LeasesMatch
  <2>3. /\ attempts'[a] = [attempts[a] EXCEPT !.release = "completed", !.status = s]
        /\ \A b \in AttemptIds : b # a => attempts'[b] = attempts[b]
    BY <2>1, <1>1 DEF CompleteActive, Tables, AttemptRow
  <2>4. /\ jobs'[h] = [jobs[h] EXCEPT !.status = s]
        /\ \A j \in Jobs : j # h => jobs'[j] = jobs[j]
    BY <2>1, <1>1, <1>2 DEF CompleteActive, Tables, JobRow
  <2>5. s \in TerminalStatuses /\ jobs'[h].status = s
    BY <2>4, <1>1, <1>2 DEF Tables, JobRow
  <2>6. \A b \in AttemptIds : attempts'[b].job = attempts[b].job
                              /\ attempts'[b].ordinal = attempts[b].ordinal
    <3>1. attempts'[a].job = attempts[a].job /\ attempts'[a].ordinal = attempts[a].ordinal
      BY <2>3, <1>1 DEF Tables, AttemptRow
    <3>2. QED
      BY <2>3, <3>1
  <2>7. attempts'[a].release = "completed" /\ attempts'[a].status = s
    BY <2>3, <1>1 DEF Tables, AttemptRow
  <2>8. Tables(jobs, attempts)'
    <3>1. jobs'[h] \in JobRow
      BY <2>4, <2>5, <1>1, <1>2 DEF Tables, JobRow, Statuses
    <3>2. attempts'[a] \in AttemptRow
      <4>1. attempts[a] \in AttemptRow
        BY <1>1 DEF Tables
      <4>2. QED
        BY <2>3, <2>5, <4>1 DEF AttemptRow
    <3>3. QED
      BY <3>1, <3>2, <2>1, <2>3, <2>4, <1>1 DEF Tables, CompleteActive
  <2>9. RowsLinked(jobs, attempts, issued)'
    <3>1. ASSUME NEW b \in AttemptIds, b > issued PROVE attempts'[b] = NoAttempt
      BY <3>1, <2>2, <2>3, <1>1 DEF RowsLinked, NoAttempt
    <3>2. ASSUME NEW b \in AttemptIds
          PROVE  attempts'[b].job = None <=> attempts'[b].release = "none"
      <4>1. CASE b = a
        BY <4>1, <2>1, <2>6, <2>7, <1>2
      <4>2. CASE b # a
        BY <4>2, <2>3, <1>1 DEF RowsLinked
      <4>3. QED
        BY <4>1, <4>2
    <3>3. ASSUME NEW b \in AttemptIds, attempts'[b].job # None
          PROVE  jobs'[attempts'[b].job].status # "absent"
      <4>1. attempts[b].job \in Jobs /\ jobs[attempts[b].job].status # "absent"
        BY <3>3, <2>6, <1>1 DEF RowsLinked, Tables, AttemptRow
      <4>2. CASE attempts[b].job = h
        BY <4>2, <2>5, <2>6 DEF TerminalStatuses
      <4>3. CASE attempts[b].job # h
        BY <4>1, <4>3, <2>4, <2>6
      <4>4. QED
        BY <4>2, <4>3
    <3>4. QED
      BY <3>1, <3>2, <3>3, <1>2 DEF RowsLinked
  <2>10. \A b \in AttemptIds : attempts[b].job = h /\ b # a
                               => attempts[b].release = "expired"
    <3> SUFFICES ASSUME NEW b \in AttemptIds, attempts[b].job = h, b # a
                 PROVE  attempts[b].release = "expired"
      OBVIOUS
    <3>1. b < a \/ a < b
      BY DEF AttemptIds
    <3>2. QED
      BY <3>1, <2>1, <2>2, <1>1, <1>2 DEF EarlierExpired
  <2>11. LeasesMatch(jobs, attempts)'
    <3>1. ASSUME NEW b \in AttemptIds, attempts'[b].release = "held"
          PROVE  jobs'[attempts'[b].job].status \in ActiveStatuses
      <4>1. b # a /\ attempts'[b] = attempts[b]
        BY <3>1, <2>3, <2>7
      <4>2. attempts[b].job \in Jobs /\ attempts[b].job # h
        BY <3>1, <4>1, <2>10, <1>1 DEF RowsLinked, Tables, AttemptRow
      <4>3. QED
        BY <3>1, <4>1, <4>2, <2>4, <1>1 DEF LeasesMatch
    <3>2. ASSUME NEW j \in Jobs, jobs'[j].status \in ActiveStatuses
          PROVE  \E b \in AttemptIds : attempts'[b].release = "held" /\ attempts'[b].job = j
      <4>1. j # h
        BY <3>2, <2>5 DEF ActiveStatuses, TerminalStatuses
      <4>2. PICK b \in AttemptIds : attempts[b].release = "held" /\ attempts[b].job = j
        BY <3>2, <4>1, <2>4, <1>1 DEF LeasesMatch
      <4>3. QED
        BY <2>1, <4>1, <4>2, <2>3
    <3>3. QED
      BY <3>1, <3>2 DEF LeasesMatch
  <2>12. EarlierExpired(attempts)'
    <3> SUFFICES ASSUME NEW b \in AttemptIds, NEW c \in AttemptIds, b < c,
                        attempts'[b].job = attempts'[c].job, attempts'[b].job # None
                 PROVE  /\ attempts'[b].ordinal < attempts'[c].ordinal
                        /\ attempts'[b].release = "expired"
      BY DEF EarlierExpired
    <3>1. attempts[b].ordinal < attempts[c].ordinal /\ attempts[b].release = "expired"
      BY <2>6, <1>1 DEF EarlierExpired
    <3>2. b # a
      BY <3>1, <2>2
    <3>3. QED
      BY <3>1, <3>2, <2>3, <2>6
  <2>13. VerdictsMatch(jobs, attempts)'
    <3>1. ASSUME NEW b \in AttemptIds, attempts'[b].release = "completed"
          PROVE  /\ jobs'[attempts'[b].job].status = attempts'[b].status
                 /\ attempts'[b].status \in TerminalStatuses
      <4>1. CASE b = a
        BY <4>1, <2>1, <2>5, <2>6, <2>7
      <4>2. CASE b # a
        <5>1. attempts'[b] = attempts[b] /\ attempts[b].release = "completed"
          BY <3>1, <4>2, <2>3
        <5>2. attempts[b].job \in Jobs /\ attempts[b].job # h
          BY <4>2, <5>1, <2>10, <1>1 DEF RowsLinked, Tables, AttemptRow
        <5>3. QED
          BY <5>1, <5>2, <2>4, <1>1 DEF VerdictsMatch
      <4>3. QED
        BY <4>1, <4>2
    <3>2. ASSUME NEW j \in Jobs, jobs'[j].status \in TerminalStatuses
          PROVE  \/ \E b \in AttemptIds : attempts'[b].job = j /\ attempts'[b].release = "completed"
                 \/ jobs'[j].status = "cancelled"
      <4>1. CASE j = h
        BY <4>1, <2>1, <2>6, <2>7
      <4>2. CASE j # h
        BY <3>2, <4>2, <2>2, <2>3, <2>4, <1>1 DEF VerdictsMatch
      <4>3. QED
        BY <4>1, <4>2
    <3>3. QED
      BY <3>1, <3>2 DEF VerdictsMatch
  <2>14. QED
    BY <2>8, <2>9, <2>11, <2>12, <2>13 DEF Consistent
<1>5. QED
  BY <1>3, <1>4

(* Replacing the row of a job that nobody works on: a submission or a      *)
(* cancellation.                                                           *)
LEMMA IdleJobStep ==
  ASSUME IInv, NEW j \in Jobs, NEW row \in JobRow,
         jobs[j].status \in {"absent", "pending"},
         row.status \in {"pending", "cancelled"},
         jobs' = [jobs EXCEPT ![j] = row], UNCHANGED <<attempts, issued>>
  PROVE  Consistent(jobs, attempts, issued)'
<1>1. /\ Tables(jobs, attempts) /\ RowsLinked(jobs, attempts, issued)
      /\ LeasesMatch(jobs, attempts) /\ EarlierExpired(attempts)
      /\ VerdictsMatch(jobs, attempts)
  BY DEF IInv, Consistent
<1>2. /\ jobs'[j] = row /\ \A k \in Jobs : k # j => jobs'[k] = jobs[k]
      /\ \A a \in AttemptIds : attempts[a].job \in Jobs \cup {None}
  BY <1>1 DEF Tables, AttemptRow
<1>3. Tables(jobs, attempts)'
  BY <1>1 DEF Tables
<1>4. RowsLinked(jobs, attempts, issued)'
  <2>1. ASSUME NEW a \in AttemptIds, attempts[a].job # None
        PROVE  jobs'[attempts[a].job].status # "absent"
    BY <2>1, <1>1, <1>2 DEF RowsLinked
  <2>2. QED
    BY <2>1, <1>1 DEF RowsLinked
<1>5. \A a \in AttemptIds : attempts[a].release \in {"held", "completed"}
                            => attempts[a].job \in Jobs /\ attempts[a].job # j
  BY <1>1, <1>2 DEF RowsLinked, LeasesMatch, VerdictsMatch, ActiveStatuses,
                    TerminalStatuses
<1>6. LeasesMatch(jobs, attempts)'
  <2>1. ASSUME NEW a \in AttemptIds, attempts[a].release = "held"
        PROVE  jobs'[attempts[a].job].status \in ActiveStatuses
    BY <2>1, <1>1, <1>2, <1>5 DEF LeasesMatch
  <2>2. ASSUME NEW k \in Jobs, jobs'[k].status \in ActiveStatuses
        PROVE  \E a \in AttemptIds : attempts[a].release = "held" /\ attempts[a].job = k
    BY <2>2, <1>1, <1>2 DEF LeasesMatch, ActiveStatuses
  <2>3. QED
    BY <2>1, <2>2 DEF LeasesMatch
<1>7. VerdictsMatch(jobs, attempts)'
  <2>1. ASSUME NEW a \in AttemptIds, attempts[a].release = "completed"
        PROVE  /\ jobs'[attempts[a].job].status = attempts[a].status
               /\ attempts[a].status \in TerminalStatuses
    BY <2>1, <1>1, <1>2, <1>5 DEF VerdictsMatch
  <2>2. ASSUME NEW k \in Jobs, jobs'[k].status \in TerminalStatuses
        PROVE  \/ \E a \in AttemptIds : attempts[a].job = k /\ attempts[a].release = "completed"
               \/ jobs'[k].status = "cancelled"
    BY <2>2, <1>1, <1>2 DEF VerdictsMatch, TerminalStatuses
  <2>3. QED
    BY <2>1, <2>2 DEF VerdictsMatch
<1>8. EarlierExpired(attempts)'
  BY <1>1 DEF EarlierExpired
<1>9. QED
  BY <1>3, <1>4, <1>6, <1>7, <1>8 DEF Consistent

LEMMA DeleteStep ==
  ASSUME IInv, NEW r \in Runs, DeleteRunView(r)
  PROVE  Consistent(jobs, attempts, issued)'
<1> DEFINE gone == {j \in Jobs : jobs[j].run = r}
<1>1. /\ Tables(jobs, attempts) /\ RowsLinked(jobs, attempts, issued)
      /\ LeasesMatch(jobs, attempts) /\ EarlierExpired(attempts)
      /\ VerdictsMatch(jobs, attempts)
  BY DEF IInv, Consistent
<1>2. \A j \in Jobs : jobs'[j] = IF j \in gone THEN NoJob ELSE jobs[j]
  BY DEF DeleteRunView
<1>3. \A a \in AttemptIds :
        attempts'[a] = IF attempts[a].job \in gone THEN NoAttempt ELSE attempts[a]
  BY DEF DeleteRunView
<1>4. issued' = issued /\ \A a \in AttemptIds : attempts[a].job \in Jobs \cup {None}
  BY <1>1 DEF DeleteRunView, Tables, AttemptRow
<1>5. Tables(jobs, attempts)'
  <2>1. NoJob \in JobRow /\ NoAttempt \in AttemptRow
    BY DEF NoJob, JobRow, Work, NoAttempt, AttemptRow, Statuses
  <2>2. QED
    BY <1>1, <2>1 DEF DeleteRunView, Tables
<1>6. RowsLinked(jobs, attempts, issued)'
  <2>1. ASSUME NEW a \in AttemptIds, attempts'[a].job # None
        PROVE  jobs'[attempts'[a].job].status # "absent"
    <3>1. attempts[a].job \notin gone /\ attempts'[a] = attempts[a]
      BY <2>1, <1>3 DEF NoAttempt
    <3>2. attempts[a].job \in Jobs /\ jobs[attempts[a].job].status # "absent"
      BY <2>1, <3>1, <1>1, <1>4 DEF RowsLinked
    <3>3. QED
      BY <3>1, <3>2, <1>2
  <2>2. ASSUME NEW a \in AttemptIds
        PROVE  /\ attempts'[a].job = None <=> attempts'[a].release = "none"
               /\ a > issued => attempts'[a] = NoAttempt
    BY <1>1, <1>3 DEF RowsLinked, NoAttempt
  <2>3. QED
    BY <2>1, <2>2, <1>4 DEF RowsLinked
<1>7. \A a \in AttemptIds : attempts'[a].release # "none" =>
        /\ attempts'[a] = attempts[a] /\ attempts[a].job \in Jobs
        /\ jobs'[attempts[a].job] = jobs[attempts[a].job]
  <2> SUFFICES ASSUME NEW a \in AttemptIds, attempts'[a].release # "none"
               PROVE  /\ attempts'[a] = attempts[a] /\ attempts[a].job \in Jobs
                      /\ jobs'[attempts[a].job] = jobs[attempts[a].job]
    OBVIOUS
  <2>1. attempts[a].job \notin gone /\ attempts'[a] = attempts[a]
    BY <1>3 DEF NoAttempt
  <2>2. attempts[a].job \in Jobs
    BY <2>1, <1>1, <1>4 DEF RowsLinked
  <2>3. QED
    BY <2>1, <2>2, <1>2
<1>8. LeasesMatch(jobs, attempts)'
  <2>1. ASSUME NEW a \in AttemptIds, attempts'[a].release = "held"
        PROVE  jobs'[attempts'[a].job].status \in ActiveStatuses
    <3>1. /\ attempts'[a] = attempts[a]
          /\ jobs'[attempts[a].job] = jobs[attempts[a].job]
      BY <2>1, <1>7
    <3>2. QED
      BY <2>1, <3>1, <1>1 DEF LeasesMatch
  <2>2. ASSUME NEW j \in Jobs, jobs'[j].status \in ActiveStatuses
        PROVE  \E a \in AttemptIds : attempts'[a].release = "held" /\ attempts'[a].job = j
    <3>1. j \notin gone /\ jobs'[j] = jobs[j]
      BY <2>2, <1>2 DEF NoJob, ActiveStatuses
    <3>2. QED
      BY <2>2, <3>1, <1>1, <1>3 DEF LeasesMatch
  <2>3. QED
    BY <2>1, <2>2 DEF LeasesMatch
<1>9. EarlierExpired(attempts)'
  BY <1>1, <1>3 DEF EarlierExpired, NoAttempt
<1>10. VerdictsMatch(jobs, attempts)'
  <2>1. ASSUME NEW a \in AttemptIds, attempts'[a].release = "completed"
        PROVE  /\ jobs'[attempts'[a].job].status = attempts'[a].status
               /\ attempts'[a].status \in TerminalStatuses
    <3>1. /\ attempts'[a] = attempts[a]
          /\ jobs'[attempts[a].job] = jobs[attempts[a].job]
      BY <2>1, <1>7
    <3>2. QED
      BY <2>1, <3>1, <1>1 DEF VerdictsMatch
  <2>2. ASSUME NEW j \in Jobs, jobs'[j].status \in TerminalStatuses
        PROVE  \/ \E a \in AttemptIds : attempts'[a].job = j /\ attempts'[a].release = "completed"
               \/ jobs'[j].status = "cancelled"
    <3>1. j \notin gone
      <4>1. NoJob.status \notin TerminalStatuses
        BY DEF NoJob, TerminalStatuses
      <4>2. QED
        BY <2>2, <4>1, <1>2
    <3>2. jobs'[j] = jobs[j]
      BY <3>1, <1>2
    <3>3. QED
      BY <2>2, <3>1, <3>2, <1>1, <1>3 DEF VerdictsMatch
  <2>3. QED
    BY <2>1, <2>2 DEF VerdictsMatch
<1>11. QED
  BY <1>5, <1>6, <1>8, <1>9, <1>10 DEF Consistent

(* acquire_lease keeps the recovery of expired leases when no job is left. *)
LEMMA AcquireStep ==
  ASSUME IInv, NEW now \in Readings, NEW ttl \in TTLs, AcquireLease(now, ttl)
  PROVE  Consistent(jobs, attempts, issued)'
<1>1. CASE \E j \in PendingAfter(now) : Grant(j, now, ttl)
  BY <1>1, GrantStep
<1>2. CASE /\ attempts' = RecoveredAttempts(now) /\ jobs' = RecoveredJobs(now)
           /\ issued' = issued
  <2>1. now \in Nat
    BY DEF Readings
  <2>2. Consistent(RecoveredJobs(now), RecoveredAttempts(now), issued)
    BY <2>1, RecoveryConsistent
  <2>3. QED
    BY <2>2, <1>2 DEF Consistent, Tables, RowsLinked, LeasesMatch,
                      EarlierExpired, VerdictsMatch
<1>3. QED
  BY <1>1, <1>2 DEF AcquireLease

(* What every step keeps of the tables that leases do not touch. *)
LEMMA OtherTables ==
  ASSUME IInv, [Next]_vars
  PROVE  /\ clock' \in 0 .. MaxTime
         /\ runs' \in [Runs -> {"absent", "running", "finished"}]
         /\ issued' \in 0 .. MaxAttempts
         /\ artifacts' \subseteq Digests
         /\ links' \subseteq Link
<1> USE DEF IInv, TypeOK
<1>1. CASE Tick
  BY <1>1 DEF Tick
<1>2. CASE \E r \in Runs : CreateRun(r) \/ FinishRun(r) \/ DeleteRunView(r)
  BY <1>2 DEF CreateRun, FinishRun, DeleteRunView
<1>3. CASE \E d \in Digests : RegisterArtifact(d)
  BY <1>3 DEF RegisterArtifact
<1>4. CASE \E j \in Jobs, r \in Runs, k \in Keys, work \in Works,
             now \in Readings : SubmitJob(j, r, k, work, now)
  BY <1>4 DEF SubmitJob
<1>5. CASE \E now \in Readings, ttl \in TTLs :
             \/ AcquireLease(now, ttl)
             \/ \E j \in Jobs : AcquireJobLease(j, now, ttl)
             \/ \E a \in AttemptIds : HeartbeatLease(a, now, ttl)
  BY <1>5 DEF AcquireLease, AcquireJobLease, HeartbeatLease, Grant
<1>6. CASE \E j \in Jobs : CancelPendingJob(j)
  BY <1>6 DEF CancelPendingJob
<1>7. ASSUME NEW j \in Jobs, NEW a \in AttemptIds, NEW s \in Outcomes,
             NEW E \in Reports, NEW now \in Readings, CompleteJob(j, a, s, E, now)
      PROVE  links' \subseteq Link /\ UNCHANGED <<clock, runs, issued, artifacts>>
  <2>1. \E b \in AttemptIds \cup {0} : LinkArtifacts(j, b, E)
    BY <1>7 DEF CompleteJob, CompleteActive, CompleteDecided, AttemptsOf
  <2>2. E \subseteq Evidence
    BY DEF Reports
  <2>3. QED
    BY <2>1, <2>2, <1>7 DEF CompleteJob, LinkArtifacts, Link
<1>8. CASE UNCHANGED vars
  BY <1>8 DEF vars
<1>9. QED
  BY <1>1, <1>2, <1>3, <1>4, <1>5, <1>6, <1>7, <1>8 DEF Next

LEMMA InitConsistent == Init => IInv
<1> SUFFICES ASSUME Init PROVE IInv
  OBVIOUS
<1> USE DEF Init
<1>1. NoJob \in JobRow /\ NoAttempt \in AttemptRow
  BY DEF NoJob, JobRow, Work, NoAttempt, AttemptRow, Statuses
<1>2. TypeOK
  BY <1>1 DEF TypeOK
<1>3. Tables(jobs, attempts) /\ EarlierExpired(attempts)
  BY <1>1 DEF Tables, EarlierExpired, NoAttempt
<1>4. RowsLinked(jobs, attempts, issued)
  BY DEF RowsLinked, NoAttempt
<1>5. LeasesMatch(jobs, attempts)
  BY DEF LeasesMatch, NoJob, NoAttempt, ActiveStatuses
<1>6. VerdictsMatch(jobs, attempts)
  BY DEF VerdictsMatch, NoJob, NoAttempt, TerminalStatuses
<1>7. QED
  BY <1>2, <1>3, <1>4, <1>5, <1>6 DEF IInv, Consistent

LEMMA StepConsistent == IInv /\ [Next]_vars => IInv'
<1> SUFFICES ASSUME IInv, [Next]_vars PROVE IInv'
  OBVIOUS
<1>1. ASSUME UNCHANGED <<jobs, attempts, issued>>
      PROVE  Consistent(jobs, attempts, issued)'
  BY <1>1 DEF IInv, Consistent, Tables, RowsLinked, LeasesMatch,
              EarlierExpired, VerdictsMatch
<1>2. Consistent(jobs, attempts, issued)'
  <2>1. CASE Tick
    BY <2>1, <1>1 DEF Tick
  <2>2. ASSUME NEW r \in Runs, CreateRun(r) \/ FinishRun(r) \/ DeleteRunView(r)
        PROVE  Consistent(jobs, attempts, issued)'
    BY <2>2, <1>1, DeleteStep DEF CreateRun, FinishRun
  <2>3. ASSUME NEW d \in Digests, RegisterArtifact(d)
        PROVE  Consistent(jobs, attempts, issued)'
    BY <2>3, <1>1 DEF RegisterArtifact
  <2>4. ASSUME NEW j \in Jobs, NEW r \in Runs, NEW k \in Keys,
               NEW work \in Works, NEW now \in Readings,
               SubmitJob(j, r, k, work, now)
        PROVE  Consistent(jobs, attempts, issued)'
    <3> DEFINE row == [status |-> "pending", run |-> r, key |-> k,
                       created |-> now, work |-> work]
    <3>1. row \in JobRow /\ row.status = "pending"
      BY WorksAssumption DEF JobRow, Statuses, Readings
    <3>2. /\ jobs[j].status = "absent" /\ jobs' = [jobs EXCEPT ![j] = row]
          /\ UNCHANGED <<attempts, issued>>
      BY <2>4 DEF SubmitJob
    <3> HIDE DEF row
    <3>3. QED
      BY <3>1, <3>2, IdleJobStep
  <2>5. ASSUME NEW now \in Readings, NEW ttl \in TTLs, AcquireLease(now, ttl)
        PROVE  Consistent(jobs, attempts, issued)'
    BY <2>5, AcquireStep
  <2>6. ASSUME NEW now \in Readings, NEW ttl \in TTLs, NEW j \in Jobs,
               AcquireJobLease(j, now, ttl)
        PROVE  Consistent(jobs, attempts, issued)'
    BY <2>6, GrantStep DEF AcquireJobLease
  <2>7. ASSUME NEW now \in Readings, NEW ttl \in TTLs, NEW a \in AttemptIds,
               HeartbeatLease(a, now, ttl)
        PROVE  Consistent(jobs, attempts, issued)'
    BY <2>7, HeartbeatStep
  <2>8. ASSUME NEW j \in Jobs, CancelPendingJob(j)
        PROVE  Consistent(jobs, attempts, issued)'
    <3> DEFINE row == [jobs[j] EXCEPT !.status = "cancelled"]
    <3>1. row \in JobRow /\ row.status = "cancelled"
      BY DEF IInv, TypeOK, JobRow, Statuses, TerminalStatuses
    <3>2. /\ jobs[j].status = "pending" /\ jobs' = [jobs EXCEPT ![j] = row]
          /\ UNCHANGED <<attempts, issued>>
      BY <2>8 DEF CancelPendingJob
    <3> HIDE DEF row
    <3>3. QED
      BY <3>1, <3>2, IdleJobStep
  <2>9. ASSUME NEW j \in Jobs, NEW a \in AttemptIds, NEW s \in Outcomes,
               NEW E \in Reports, NEW now \in Readings, CompleteJob(j, a, s, E, now)
        PROVE  Consistent(jobs, attempts, issued)'
    BY <2>9, CompleteStep
  <2>10. CASE UNCHANGED vars
    BY <2>10, <1>1 DEF vars
  <2>11. QED
    BY <2>1, <2>2, <2>3, <2>4, <2>5, <2>6, <2>7, <2>8, <2>9, <2>10 DEF Next
<1>3. TypeOK'
  BY <1>2, OtherTables DEF TypeOK, Consistent, Tables
<1>4. QED
  BY <1>2, <1>3 DEF IInv

-------------------------------------------------------------------------------
(* The tables always hold rows of their schema, and jobs, attempts and     *)
(* leases always tell the same story: the inductive invariant.             *)
THEOREM Consistency == Spec => []IInv
<1>1. QED
  BY InitConsistent, StepConsistent, PTL DEF Spec

(* The rows keep their schema through every sequence of store operations. *)
THEOREM TypeCorrect == Spec => []TypeOK
<1>1. IInv => TypeOK
  BY DEF IInv
<1>2. QED
  BY <1>1, Consistency, PTL

(* No two workers ever hold an unreleased lease on one job: acquire_lease  *)
(* and acquire_job_lease never meet the unique index that forbids it.      *)
THEOREM OneActiveLeaseHolds == Spec => []OneActiveLease
<1>1. ASSUME IInv PROVE OneActiveLease
  <2> SUFFICES ASSUME NEW a \in HeldLeases, NEW b \in HeldLeases,
                      attempts[a].job = attempts[b].job
               PROVE  a = b
    BY DEF OneActiveLease
  <2>1. a \in Nat /\ b \in Nat /\ attempts[a].job # None
    BY <1>1 DEF HeldLeases, AttemptIds, IInv, Consistent, RowsLinked
  <2>2. QED
    BY <1>1, <2>1 DEF HeldLeases, IInv, Consistent, EarlierExpired
<1>2. QED
  BY <1>1, Consistency, PTL

(* jobs.status agrees with the lease table after every transaction. *)
THEOREM ActiveIffLeasedHolds == Spec => []ActiveIffLeased
<1>1. IInv => ActiveIffLeased
  BY DEF IInv, Consistent, LeasesMatch, ActiveIffLeased, Active, HeldLeases
<1>2. QED
  BY <1>1, Consistency, PTL

(* Only the last attempt of a job can hold its lease. *)
THEOREM OnlyLastAttemptHoldsAlways == Spec => []OnlyLastAttemptHolds
<1>1. IInv => OnlyLastAttemptHolds
  BY DEF IInv, Consistent, EarlierExpired, OnlyLastAttemptHolds
<1>2. QED
  BY <1>1, Consistency, PTL

(* A job's verdict is that of its last attempt, or its cancellation. *)
THEOREM VerdictOfOneAttemptHolds == Spec => []VerdictOfOneAttempt
<1>1. ASSUME IInv PROVE VerdictOfOneAttempt
  <2>1. ASSUME NEW a \in AttemptIds, attempts[a].release = "completed"
        PROVE  /\ jobs[attempts[a].job].status = attempts[a].status
               /\ \A b \in AttemptsOf(attempts[a].job) : b <= a
    <3>1. attempts[a].job # None
      BY <1>1, <2>1 DEF IInv, Consistent, RowsLinked
    <3>2. ASSUME NEW b \in AttemptsOf(attempts[a].job) PROVE b <= a
      BY <1>1, <2>1, <3>1 DEF AttemptsOf, AttemptIds, IInv, Consistent, EarlierExpired
    <3>3. QED
      BY <1>1, <2>1, <3>2 DEF IInv, Consistent, VerdictsMatch
  <2>2. ASSUME NEW j \in Jobs, Terminal(j)
        PROVE  \/ \E a \in AttemptsOf(j) : attempts[a].release = "completed"
               \/ jobs[j].status = "cancelled"
    BY <1>1, <2>2 DEF IInv, Consistent, VerdictsMatch, Terminal, AttemptsOf
  <2>3. QED
    BY <2>1, <2>2 DEF VerdictOfOneAttempt
<1>2. QED
  BY <1>1, Consistency, PTL

(* Leases, attempts and verdicts of one job never disagree. *)
THEOREM LeasesAgreeHolds == Spec => []LeasesAgree
BY ActiveIffLeasedHolds, OnlyLastAttemptHoldsAlways, VerdictOfOneAttemptHolds, PTL
DEF LeasesAgree

-------------------------------------------------------------------------------
(* The text of a time is out of order with the time by less than a second. *)
LEMMA StampOrder ==
  ASSUME NEW t \in Nat, NEW u \in Nat, Stamp(t) <= Stamp(u)
  PROVE  t < u + TicksPerSecond
<1> DEFINE S == TicksPerSecond
           ts == t - (t % S)
           us == u - (u % S)
<1>1. t % S \in 0 .. S - 1 /\ u % S \in 0 .. S - 1
  OBVIOUS
<1>2. /\ ts <= Stamp(t) /\ Stamp(t) < ts + S
      /\ us <= Stamp(u) /\ Stamp(u) < us + S
      /\ t < ts + S /\ us <= u
  BY <1>1 DEF Stamp
<1>3. ts = S * (t \div S) /\ us = S * (u \div S)
  OBVIOUS
<1>4. ts < us + S
  <2>1. ts \in Int /\ us \in Int /\ Stamp(t) \in Int /\ Stamp(u) \in Int
    BY <1>1 DEF Stamp
  <2>2. QED
    BY <2>1, <1>2
<1>5. t \div S < (u \div S) + 1
  BY <1>3, <1>4
<1>6. ts <= us
  BY <1>3, <1>5
<1>7. QED
  BY <1>2, <1>6

(* A lease is never taken back a full second or more before it is due. *)
LEMMA StepRecoversNoSecondEarly ==
  ASSUME IInv, [Next]_vars PROVE RecoveredNoSecondEarly
<1> SUFFICES ASSUME NEW a \in AttemptIds, attempts[a].release = "held",
                    attempts'[a].release = "expired"
             PROVE  clock + TicksPerSecond > attempts[a].due
  BY DEF RecoveredNoSecondEarly
<1>1. /\ attempts \in [AttemptIds -> AttemptRow] /\ clock \in Nat
      /\ attempts[a].due \in Nat
  BY DEF IInv, TypeOK, AttemptRow
<1>2. ASSUME NEW now \in Readings, RecoveredAttempts(now)[a].release = "expired"
      PROVE  clock + TicksPerSecond > attempts[a].due
  <2>1. now \in Nat /\ now <= clock
    BY <1>1 DEF Readings
  <2>2. Stamp(attempts[a].due) <= Stamp(now)
    BY <1>2 DEF RecoveredAttempts, Lapsed
  <2>3. attempts[a].due < now + TicksPerSecond
    BY <1>1, <2>1, <2>2, StampOrder
  <2>4. QED
    BY <1>1, <2>1, <2>3
<1>3. ASSUME NEW now \in Readings, NEW ttl \in TTLs, NEW j \in Jobs, Grant(j, now, ttl)
      PROVE  RecoveredAttempts(now)[a].release = "expired"
  <2>1. PICK o \in 1 .. MaxAttempts :
          attempts' = [RecoveredAttempts(now) EXCEPT ![issued + 1] =
            [job |-> j, ordinal |-> o, status |-> "leased",
             due |-> now + ttl * TicksPerSecond, release |-> "held"]]
    BY <1>3 DEF Grant
  <2>2. QED
    BY <2>1 DEF RecoveredAttempts
<1>4. ASSUME NEW now \in Readings, NEW ttl \in TTLs, AcquireLease(now, ttl)
      PROVE  RecoveredAttempts(now)[a].release = "expired"
  BY <1>3, <1>4 DEF AcquireLease, PendingAfter
<1>5. ASSUME NEW now \in Readings, NEW ttl \in TTLs, NEW b \in AttemptIds,
             HeartbeatLease(b, now, ttl)
      PROVE  RecoveredAttempts(now)[a].release = "expired"
  <2>1. RecoveredAttempts(now) \in [AttemptIds -> AttemptRow]
    <3>1. now \in Nat
      BY DEF Readings
    <3>2. QED
      BY <3>1, RecoveryConsistent DEF Consistent, Tables
  <2>2. attempts' = [RecoveredAttempts(now) EXCEPT ![b].due = now + ttl * TicksPerSecond]
    BY <1>5 DEF HeartbeatLease
  <2>3. QED
    BY <2>1, <2>2 DEF AttemptRow
<1>6. ASSUME NEW j \in Jobs, NEW b \in AttemptIds, NEW s \in Outcomes,
             NEW E \in Reports, NEW now \in Readings, CompleteJob(j, b, s, E, now)
      PROVE  attempts'[a].release # "expired"
  BY <1>1, <1>6 DEF CompleteJob, CompleteActive, CompleteDecided, AttemptRow
<1>7. attempts' # attempts
  OBVIOUS
<1>8. ASSUME NEW r \in Runs, DeleteRunView(r)
      PROVE  attempts'[a].release # "expired"
  BY <1>8 DEF DeleteRunView, NoAttempt
<1>9. QED
  BY <1>2, <1>3, <1>4, <1>5, <1>6, <1>7, <1>8
  DEF Next, vars, Tick, CreateRun, FinishRun, RegisterArtifact, SubmitJob,
      AcquireJobLease, PendingAfter, CancelPendingJob

(* A report is never accepted a full second and the clock's lag after its  *)
(* lease was due.                                                          *)
LEMMA StepReportsNoSecondLate ==
  ASSUME IInv, [Next]_vars PROVE ReportedNoSecondLate
<1> SUFFICES ASSUME NEW a \in AttemptIds, attempts[a].release = "held",
                    attempts'[a].release = "completed"
             PROVE  clock < attempts[a].due + TicksPerSecond + MaxLag
  BY DEF ReportedNoSecondLate
<1>1. /\ attempts \in [AttemptIds -> AttemptRow] /\ clock \in Nat
      /\ attempts[a].due \in Nat
  BY DEF IInv, TypeOK, AttemptRow
<1>2. ASSUME NEW now \in Readings
      PROVE  RecoveredAttempts(now)[a].release # "completed"
  BY <1>1 DEF RecoveredAttempts, AttemptRow
<1>3. ASSUME NEW now \in Readings, NEW ttl \in TTLs, NEW j \in Jobs, Grant(j, now, ttl)
      PROVE  FALSE
  <2>1. PICK o \in 1 .. MaxAttempts :
          attempts' = [RecoveredAttempts(now) EXCEPT ![issued + 1] =
            [job |-> j, ordinal |-> o, status |-> "leased",
             due |-> now + ttl * TicksPerSecond, release |-> "held"]]
    BY <1>3 DEF Grant
  <2>2. QED
    BY <2>1, <1>2 DEF RecoveredAttempts
<1>4. ASSUME NEW now \in Readings, NEW ttl \in TTLs, AcquireLease(now, ttl)
      PROVE  FALSE
  BY <1>2, <1>3, <1>4 DEF AcquireLease, PendingAfter
<1>5. ASSUME NEW now \in Readings, NEW ttl \in TTLs, NEW b \in AttemptIds,
             HeartbeatLease(b, now, ttl)
      PROVE  FALSE
  <2>1. RecoveredAttempts(now) \in [AttemptIds -> AttemptRow]
    <3>1. now \in Nat
      BY DEF Readings
    <3>2. QED
      BY <3>1, RecoveryConsistent DEF Consistent, Tables
  <2>2. attempts' = [RecoveredAttempts(now) EXCEPT ![b].due = now + ttl * TicksPerSecond]
    BY <1>5 DEF HeartbeatLease
  <2>3. QED
    BY <2>1, <2>2, <1>2 DEF AttemptRow
<1>6. ASSUME NEW j \in Jobs, NEW b \in AttemptIds, NEW s \in Outcomes,
             NEW E \in Reports, NEW now \in Readings, CompleteJob(j, b, s, E, now)
      PROVE  clock < attempts[a].due + TicksPerSecond + MaxLag
  <2>1. a = b /\ ~(Stamp(attempts[a].due) <= Stamp(now))
    <3>1. CompleteActive(j, b, s, E, now)
      BY <1>1, <1>6 DEF CompleteJob, CompleteDecided
    <3>2. a = b
      BY <1>1, <3>1 DEF CompleteActive, AttemptRow
    <3>3. now \in Nat
      BY DEF Readings
    <3>4. Stamp(attempts[a].due) \in Int /\ Stamp(now) \in Int
      BY <1>1, <3>3 DEF Stamp
    <3>5. QED
      BY <3>1, <3>2, <3>4 DEF CompleteActive
  <2>2. now \in Nat /\ now + MaxLag >= clock
    BY DEF Readings
  <2>3. Stamp(attempts[a].due) \in Int /\ Stamp(now) \in Int
    BY <1>1, <2>2 DEF Stamp
  <2>4. now < attempts[a].due + TicksPerSecond
    BY <1>1, <2>1, <2>2, <2>3, StampOrder
  <2>5. QED
    BY <1>1, <2>2, <2>4
<1>7. attempts' # attempts
  OBVIOUS
<1>8. ASSUME NEW r \in Runs, DeleteRunView(r)
      PROVE  FALSE
  BY <1>8 DEF DeleteRunView, NoAttempt
<1>9. QED
  BY <1>3, <1>4, <1>5, <1>6, <1>7, <1>8
  DEF Next, vars, Tick, CreateRun, FinishRun, RegisterArtifact, SubmitJob,
      AcquireJobLease, PendingAfter, CancelPendingJob

(* Leases end on time, to a second and the lag of the clock's reading.     *)
THEOREM LeasesEndOnTimeHolds == Spec => LeasesEndOnTime
<1>1. ASSUME IInv, [Next]_vars PROVE RecoveredNoSecondEarly /\ ReportedNoSecondLate
  BY <1>1, StepRecoversNoSecondEarly, StepReportsNoSecondLate
<1>2. QED
  BY <1>1, Consistency, PTL DEF Spec, LeasesEndOnTime

-------------------------------------------------------------------------------
(* The evidence behind a profile: links of artifacts to decided jobs. *)

EvidenceInv == IInv /\ LinksAreEvidence

(* A decided job and an attempt that is over stay as they are, short of a  *)
(* run deletion.                                                           *)
LEMMA DecidedRowsKept ==
  ASSUME IInv, [Next]_vars, ~ \E r \in Runs : DeleteRunView(r)
  PROVE  /\ \A j \in Jobs : Terminal(j) => jobs'[j] = jobs[j]
         /\ \A a \in AttemptIds : attempts[a].job # None
              => /\ attempts'[a].job = attempts[a].job
                 /\ attempts[a].release # "held" => attempts'[a].release # "held"
         /\ \A a \in AttemptIds, j \in Jobs :
              Terminal(j) /\ attempts'[a].job = j => attempts[a].job = j
<1> DEFINE Kept == /\ \A j \in Jobs : Terminal(j) => jobs'[j] = jobs[j]
                   /\ \A a \in AttemptIds : attempts[a].job # None
                        => /\ attempts'[a].job = attempts[a].job
                           /\ attempts[a].release # "held" => attempts'[a].release # "held"
                   /\ \A a \in AttemptIds, j \in Jobs :
                        Terminal(j) /\ attempts'[a].job = j => attempts[a].job = j
<1> SUFFICES Kept
  OBVIOUS
<1>1. /\ Tables(jobs, attempts) /\ RowsLinked(jobs, attempts, issued)
      /\ LeasesMatch(jobs, attempts)
  BY DEF IInv, Consistent
<1>2. \A j \in Jobs : Terminal(j) => ~Active(j) /\ jobs[j].status \notin {"absent", "pending"}
  BY DEF Terminal, Active, TerminalStatuses, ActiveStatuses
<1>3. ASSUME NEW now \in Nat
      PROVE  /\ \A j \in Jobs : Terminal(j) => RecoveredJobs(now)[j] = jobs[j]
             /\ \A a \in AttemptIds :
                  /\ RecoveredAttempts(now)[a].job = attempts[a].job
                  /\ attempts[a].release # "held" => RecoveredAttempts(now)[a] = attempts[a]
  BY <1>1, <1>2 DEF RecoveredJobs, RecoveredAttempts, Lapsed, HeldLeases, Tables, AttemptRow
<1>4. Readings \subseteq Nat
  BY DEF Readings
<1>5. ASSUME NEW now \in Readings, NEW ttl \in TTLs, NEW j \in PendingAfter(now),
             Grant(j, now, ttl)
      PROVE  Kept
  <2>1. PICK n \in 1 .. MaxAttempts :
          attempts' = [RecoveredAttempts(now) EXCEPT ![issued + 1] =
            [job |-> j, ordinal |-> n, status |-> "leased",
             due |-> now + ttl * TicksPerSecond, release |-> "held"]]
    BY <1>5 DEF Grant
  <2>2. \A a \in AttemptIds : a > issued => attempts[a].job = None
    BY <1>1 DEF RowsLinked, NoAttempt
  <2>3. issued \in Nat /\ AttemptIds \subseteq Nat
    BY DEF IInv, TypeOK, AttemptIds
  <2>4. ASSUME NEW a \in AttemptIds, attempts[a].job # None
        PROVE  attempts'[a] = RecoveredAttempts(now)[a]
    <3>1. a # issued + 1
      BY <2>2, <2>3, <2>4
    <3>2. QED
      BY <2>1, <3>1 DEF RecoveredAttempts
  <2>5. \A k \in Jobs : Terminal(k) => k # j /\ jobs'[k] = jobs[k]
    <3>1. RecoveredJobs(now)[j].status = "pending"
      BY DEF PendingAfter
    <3>2. jobs' = [RecoveredJobs(now) EXCEPT ![j].status = "leased"]
      BY <1>5 DEF Grant
    <3>3. QED
      BY <3>1, <3>2, <1>2, <1>3, <1>4 DEF RecoveredJobs
  <2>6. ASSUME NEW a \in AttemptIds, NEW k \in Jobs, Terminal(k), attempts'[a].job = k
        PROVE  attempts[a].job = k
    <3>1. CASE a = issued + 1
      <4>1. attempts'[a].job = j
        BY <3>1, <2>1 DEF RecoveredAttempts
      <4>2. QED
        BY <4>1, <2>5, <2>6
    <3>2. CASE a # issued + 1
      <4>1. attempts'[a] = RecoveredAttempts(now)[a]
        BY <3>2, <2>1 DEF RecoveredAttempts
      <4>2. QED
        BY <4>1, <2>6, <1>3, <1>4
    <3>3. QED
      BY <3>1, <3>2
  <2>7. QED
    BY <2>4, <2>5, <2>6, <1>3, <1>4
<1>6. ASSUME NEW now \in Readings, NEW ttl \in TTLs, AcquireLease(now, ttl)
      PROVE  Kept
  BY <1>3, <1>4, <1>5, <1>6 DEF AcquireLease
<1>7. ASSUME NEW now \in Readings, NEW ttl \in TTLs, NEW a \in AttemptIds,
             HeartbeatLease(a, now, ttl)
      PROVE  Kept
  <2>1. attempts' = [RecoveredAttempts(now) EXCEPT ![a].due = now + ttl * TicksPerSecond]
    BY <1>7 DEF HeartbeatLease
  <2>2. RecoveredAttempts(now) \in [AttemptIds -> AttemptRow]
    BY <1>4, RecoveryConsistent DEF Consistent, Tables
  <2>3. \A b \in AttemptIds : /\ attempts'[b].job = RecoveredAttempts(now)[b].job
                              /\ attempts'[b].release = RecoveredAttempts(now)[b].release
    BY <2>1, <2>2 DEF AttemptRow
  <2>4. \A j \in Jobs : Terminal(j) => jobs'[j] = jobs[j]
    BY <1>2, <1>3, <1>4, <1>7 DEF HeartbeatLease, Active, ActiveStatuses
  <2>5. QED
    BY <2>3, <2>4, <1>3, <1>4
<1>8. ASSUME NEW h \in Jobs, NEW a \in AttemptIds, NEW s \in Outcomes,
             NEW E \in Reports, NEW now \in Readings, CompleteJob(h, a, s, E, now)
      PROVE  Kept
  <2>1. CASE Terminal(h)
    BY <2>1, <1>8 DEF CompleteJob, CompleteDecided
  <2>2. CASE ~Terminal(h)
    <3>1. /\ attempts' = [attempts EXCEPT ![a].release = "completed", ![a].status = s]
          /\ jobs' = [jobs EXCEPT ![h].status = s]
      BY <2>2, <1>8 DEF CompleteJob, CompleteActive
    <3>2. \A j \in Jobs : Terminal(j) => jobs'[j] = jobs[j]
      BY <3>1, <2>2, <1>1 DEF Tables
    <3>3. \A b \in AttemptIds : /\ attempts'[b].job = attempts[b].job
                                /\ attempts[b].release # "held" => attempts'[b].release # "held"
      BY <3>1, <1>1 DEF Tables, AttemptRow
    <3>4. QED
      BY <3>2, <3>3
  <2>3. QED
    BY <2>1, <2>2
<1>9. ASSUME NEW j \in Jobs, NEW row \in JobRow, jobs[j].status \in {"absent", "pending"},
             jobs' = [jobs EXCEPT ![j] = row], attempts' = attempts
      PROVE  Kept
  BY <1>1, <1>2, <1>9 DEF Tables
<1>10. CASE UNCHANGED <<jobs, attempts>>
  BY <1>10
<1>11. CASE \E j \in Jobs, r \in Runs, k \in Keys, work \in Works,
              now \in Readings : SubmitJob(j, r, k, work, now)
  <2>1. PICK j \in Jobs, r \in Runs, k \in Keys, work \in Works,
             now \in Readings : SubmitJob(j, r, k, work, now)
    BY <1>11
  <2> DEFINE row == [status |-> "pending", run |-> r, key |-> k,
                     created |-> now, work |-> work]
  <2>2. /\ jobs[j].status \in {"absent", "pending"} /\ row \in JobRow
        /\ jobs' = [jobs EXCEPT ![j] = row] /\ attempts' = attempts
    BY <2>1, WorksAssumption DEF SubmitJob, JobRow, Statuses, Readings
  <2> HIDE DEF row, Kept
  <2>3. QED
    BY <2>2, <1>9
<1>12. CASE \E j \in Jobs : CancelPendingJob(j)
  <2>1. PICK j \in Jobs : CancelPendingJob(j)
    BY <1>12
  <2> DEFINE row == [jobs[j] EXCEPT !.status = "cancelled"]
  <2>2. /\ jobs[j].status \in {"absent", "pending"} /\ row \in JobRow
        /\ jobs' = [jobs EXCEPT ![j] = row] /\ attempts' = attempts
    BY <2>1, <1>1 DEF CancelPendingJob, Tables, JobRow, Statuses, TerminalStatuses
  <2> HIDE DEF row, Kept
  <2>3. QED
    BY <2>2, <1>9
<1>13. CASE \E now \in Readings, ttl \in TTLs, j \in Jobs : AcquireJobLease(j, now, ttl)
  BY <1>5, <1>13 DEF AcquireJobLease
<1>14. CASE \/ Tick \/ UNCHANGED vars \/ \E d \in Digests : RegisterArtifact(d)
            \/ \E r \in Runs : CreateRun(r) \/ FinishRun(r)
  BY <1>10, <1>14 DEF Tick, vars, RegisterArtifact, CreateRun, FinishRun
<1>15. QED
  BY <1>6, <1>7, <1>8, <1>11, <1>12, <1>13, <1>14 DEF Next

(* What a link stands for, of one link. *)
IsEvidence(l) ==
    /\ l.of.digest \in artifacts
    /\ Terminal(l.job)
    /\ IF l.attempt = 0
       THEN AttemptsOf(l.job) = {} /\ jobs[l.job].status = "cancelled"
       ELSE attempts[l.attempt].job = l.job /\ attempts[l.attempt].release # "held"

LEMMA StepKeepsEvidence == EvidenceInv /\ [Next]_vars => LinksAreEvidence'
<1> SUFFICES ASSUME EvidenceInv, [Next]_vars
             PROVE  \A l \in links' : IsEvidence(l)'
  BY DEF LinksAreEvidence, IsEvidence
<1> USE DEF EvidenceInv
<1>1. /\ IInv /\ Tables(jobs, attempts) /\ LeasesMatch(jobs, attempts)
      /\ VerdictsMatch(jobs, attempts) /\ links \subseteq Link
      /\ AttemptIds \subseteq Nat \ {0}
  BY DEF IInv, Consistent, TypeOK, AttemptIds
<1>2. \A l \in links : /\ l.job \in Jobs /\ l.attempt \in AttemptIds \cup {0}
                       /\ IsEvidence(l)
  BY <1>1 DEF LinksAreEvidence, IsEvidence, Link
<1>3. CASE \E r \in Runs : DeleteRunView(r)
  <2>1. PICK r \in Runs : DeleteRunView(r)
    BY <1>3
  <2> SUFFICES ASSUME NEW l \in links' PROVE IsEvidence(l)'
    OBVIOUS
  <2>2. l \in links /\ jobs[l.job].run # r /\ artifacts' = artifacts
    BY <2>1 DEF DeleteRunView
  <2>3. jobs'[l.job] = jobs[l.job]
    BY <2>1, <2>2, <1>2 DEF DeleteRunView
  <2>4. CASE l.attempt = 0
    <3>1. AttemptsOf(l.job) = {} /\ l.job \in Jobs
      BY <2>2, <2>4, <1>2 DEF IsEvidence
    <3>2. \A a \in AttemptIds : attempts'[a].job # l.job
      BY <2>1, <3>1 DEF DeleteRunView, AttemptsOf, NoAttempt
    <3>3. AttemptsOf(l.job)' = {}
      BY <3>2 DEF AttemptsOf
    <3>4. QED
      BY <2>2, <2>3, <2>4, <3>3, <1>2 DEF IsEvidence, Terminal
  <2>5. CASE l.attempt # 0
    <3>1. attempts'[l.attempt] = attempts[l.attempt]
      BY <2>1, <2>2, <2>5, <1>2 DEF DeleteRunView, IsEvidence
    <3>2. QED
      BY <2>2, <2>3, <2>5, <3>1, <1>2 DEF IsEvidence, Terminal
  <2>6. QED
    BY <2>4, <2>5
<1>4. CASE ~ \E r \in Runs : DeleteRunView(r)
  <2>1. /\ \A j \in Jobs : Terminal(j) => jobs'[j] = jobs[j]
        /\ \A a \in AttemptIds : attempts[a].job # None
              => /\ attempts'[a].job = attempts[a].job
                 /\ attempts[a].release # "held" => attempts'[a].release # "held"
        /\ \A a \in AttemptIds, j \in Jobs :
              Terminal(j) /\ attempts'[a].job = j => attempts[a].job = j
    BY <1>1, <1>4, DecidedRowsKept
  <2>2. ASSUME NEW l, l.job \in Jobs, l.attempt \in AttemptIds \cup {0}, IsEvidence(l),
               artifacts \subseteq artifacts'
        PROVE  IsEvidence(l)'
    <3>1. l.of.digest \in artifacts' /\ Terminal(l.job) /\ jobs'[l.job] = jobs[l.job]
      BY <2>1, <2>2 DEF IsEvidence
    <3>2. CASE l.attempt = 0
      <4>1. AttemptsOf(l.job)' = {}
        BY <2>1, <2>2, <3>1, <3>2 DEF IsEvidence, AttemptsOf
      <4>2. QED
        BY <4>1, <3>1, <3>2, <2>2 DEF IsEvidence, Terminal
    <3>3. CASE l.attempt # 0
      BY <2>1, <2>2, <3>1, <3>3 DEF IsEvidence, Terminal
    <3>4. QED
      BY <3>2, <3>3
  <2>3. CASE links' = links /\ artifacts \subseteq artifacts'
    BY <2>2, <2>3, <1>2
  <2>4. ASSUME NEW h \in Jobs, NEW a \in AttemptIds, NEW s \in Outcomes,
               NEW E \in Reports, NEW now \in Readings, CompleteJob(h, a, s, E, now),
               NEW l \in links'
        PROVE  IsEvidence(l)'
    <3>1. artifacts' = artifacts
      BY <2>4 DEF CompleteJob
    <3>2. CASE l \in links
      BY <3>1, <3>2, <2>2, <1>2
    <3>3. CASE l \notin links /\ Terminal(h)
      <4>1. PICK b \in AttemptsOf(h) \cup {0} :
              LinkArtifacts(h, b, E) /\ (b = 0 => AttemptsOf(h) = {})
        BY <3>3, <2>4, <1>1 DEF CompleteJob, CompleteDecided, AttemptsOf
      <4>2. PICK e \in E : l = [job |-> h, attempt |-> b, of |-> e]
        BY <3>3, <4>1 DEF LinkArtifacts
      <4>3. /\ l.job = h /\ l.attempt = b /\ l.of = e /\ e.digest \in artifacts
            /\ b \in AttemptIds \cup {0}
        BY <4>1, <4>2 DEF LinkArtifacts, AttemptsOf
      <4>4. CASE b = 0
        <5>1. jobs[h].status = "cancelled"
          BY <3>3, <4>1, <4>4, <1>1 DEF VerdictsMatch, Terminal, AttemptsOf
        <5>2. IsEvidence(l)
          BY <5>1, <3>3, <4>1, <4>3, <4>4 DEF IsEvidence
        <5>3. QED
          BY <5>2, <4>3, <3>1, <2>2
      <4>5. CASE b # 0
        <5>1. attempts[b].job = h /\ attempts[b].release # "held"
          BY <3>3, <4>1, <4>5, <1>1 DEF AttemptsOf, LeasesMatch, Terminal, TerminalStatuses,
                                  ActiveStatuses
        <5>2. IsEvidence(l)
          BY <5>1, <3>3, <4>3, <4>5 DEF IsEvidence
        <5>3. QED
          BY <5>2, <4>3, <3>1, <2>2
      <4>6. QED
        BY <4>4, <4>5
    <3>4. CASE l \notin links /\ ~Terminal(h)
      <4>1. CompleteActive(h, a, s, E, now)
        BY <3>4, <2>4 DEF CompleteJob
      <4>2. PICK e \in E : l = [job |-> h, attempt |-> a, of |-> e]
        BY <3>4, <4>1 DEF CompleteActive, LinkArtifacts
      <4>3. /\ l.job = h /\ l.attempt = a /\ l.of = e /\ e.digest \in artifacts'
        BY <4>1, <4>2, <3>1 DEF CompleteActive, LinkArtifacts
      <4>4. jobs'[h].status = s /\ s \in TerminalStatuses
        BY <4>1, <1>1 DEF CompleteActive, Tables, JobRow
      <4>5. attempts'[a].release = "completed" /\ attempts'[a].job = h
        BY <4>1, <1>1 DEF CompleteActive, Tables, AttemptRow
      <4>6. QED
        BY <4>3, <4>4, <4>5, <1>1 DEF IsEvidence, Terminal
    <3>5. QED
      BY <3>2, <3>3, <3>4
  <2>5. QED
    BY <1>4, <2>3, <2>4 DEF Next, vars, Tick, CreateRun, FinishRun, RegisterArtifact,
       SubmitJob, AcquireLease, AcquireJobLease, HeartbeatLease, Grant, CancelPendingJob
<1>5. QED
  BY <1>3, <1>4

(* A linked artifact is registered, and belongs to a decided job and to an *)
(* attempt of that job that is over, or to none when nobody ever leased    *)
(* the job.                                                                *)
THEOREM LinksAreEvidenceHolds == Spec => []LinksAreEvidence
<1>1. Init => EvidenceInv
  BY InitConsistent DEF Init, EvidenceInv, LinksAreEvidence
<1>2. EvidenceInv /\ [Next]_vars => EvidenceInv'
  BY StepConsistent, StepKeepsEvidence DEF EvidenceInv
<1>3. EvidenceInv => LinksAreEvidence
  BY DEF EvidenceInv
<1>4. QED
  BY <1>1, <1>2, <1>3, PTL DEF Spec

(* The evidence behind a profiler candidate survives everything but the    *)
(* deletion of a run: an answer the lookup could give it can still give,   *)
(* and a new refusal comes from a new compile row without provenance.      *)
THEOREM EvidenceStays == Spec => EvidenceStable
<1> DEFINE A == \A d \in Digests :
          \/ RunDeleted
          \/ /\ ProfilerCandidate(d) \subseteq ProfilerCandidate(d)'
             /\ Accepted(d) => \/ Accepted(d)'
                               \/ \E j \in CompileRows(d)' \ CompileRows(d) :
                                     jobs'[j].work.digest = None
<1>1. ASSUME IInv, [Next]_vars PROVE A
  <2> SUFFICES ASSUME NEW d \in Digests, ~RunDeleted
               PROVE  /\ ProfilerCandidate(d) \subseteq ProfilerCandidate(d)'
                      /\ Accepted(d) => \/ Accepted(d)'
                                        \/ \E j \in CompileRows(d)' \ CompileRows(d) :
                                              jobs'[j].work.digest = None
    OBVIOUS
  <2>1. ~ \E r \in Runs : DeleteRunView(r)
    BY <1>1 DEF RunDeleted, DeleteRunView, IInv, TypeOK
  <2>2. \A j \in Jobs : Terminal(j) => jobs'[j] = jobs[j]
    BY <1>1, <2>1, DecidedRowsKept
  <2>3. artifacts \subseteq artifacts' /\ links \subseteq links'
    <3>1. ASSUME NEW h \in Jobs, NEW a \in AttemptIds, NEW s \in Outcomes,
                 NEW E \in Reports, NEW now \in Readings, CompleteJob(h, a, s, E, now)
          PROVE  artifacts \subseteq artifacts' /\ links \subseteq links'
      BY <3>1 DEF CompleteJob, CompleteActive, CompleteDecided, LinkArtifacts
    <3>2. QED
      BY <1>1, <2>1, <3>1, ZenonT(60) DEF Next, vars, Tick, CreateRun, FinishRun,
         RegisterArtifact, SubmitJob, AcquireLease, AcquireJobLease, HeartbeatLease,
         Grant, CancelPendingJob
  <2>4. \A j \in Jobs : jobs[j].status = "succeeded" => jobs'[j] = jobs[j]
    BY <2>2 DEF Terminal, TerminalStatuses
  <2>5. /\ Checked(d) => Checked(d)'
        /\ CompileRows(d) \subseteq CompileRows(d)'
    BY <2>3, <2>4 DEF Checked, CompileRows
  <2>6. \A j \in CompileRows(d) : jobs'[j] = jobs[j]
    BY <2>4 DEF CompileRows
  <2>7. ProfilerCandidate(d) \subseteq ProfilerCandidate(d)'
    BY <2>3, <2>5, <2>6 DEF ProfilerCandidate
  <2>8. ASSUME Accepted(d), ~Accepted(d)'
        PROVE  \E j \in CompileRows(d)' \ CompileRows(d) : jobs'[j].work.digest = None
    <3>1. None \in ProfilerCandidate(d)'
      BY <2>7, <2>8 DEF Accepted
    <3>2. PICK j \in CompileRows(d)' : jobs'[j].work.digest = None
      BY <3>1 DEF ProfilerCandidate
    <3>3. j \notin CompileRows(d)
      BY <3>2, <2>6, <2>8 DEF Accepted, ProfilerCandidate
    <3>4. QED
      BY <3>2, <3>3
  <2>9. QED
    BY <2>7, <2>8
<1>2. QED
  BY <1>1, Consistency, PTL DEF Spec, EvidenceStable

-------------------------------------------------------------------------------
(* The store implements the lease service.  What a client sees of a job is *)
(* a function of its row and of the leases, here of arbitrary tables.      *)

PhaseOf(row) == CASE row.status = "absent" -> "unknown"
                  [] row.status = "pending" -> "open"
                  [] row.status \in ActiveStatuses -> "held"
                  [] row.status \in TerminalStatuses -> "decided"

TokenOf(A, j) ==
    IF \E a \in {b \in AttemptIds : A[b].release = "held"} : A[a].job = j
    THEN CHOOSE a \in {b \in AttemptIds : A[b].release = "held"} : A[a].job = j
    ELSE 0

VerdictOf(row) == IF row.status \in TerminalStatuses THEN row.status
                                                     ELSE "undecided"

(* The jobs a recovery takes away from their holders. *)
LapsedJobs(now) ==
    {j \in Jobs : Active(j) /\ \E a \in Lapsed(now) : attempts[a].job = j}

(* The refinement mapping, before and after a step. *)
LEMMA Mapping ==
  /\ \A j \in Jobs : /\ Phase(j) = PhaseOf(jobs[j])
                    /\ Token(j) = TokenOf(attempts, j)
                    /\ Verdict(j) = VerdictOf(jobs[j])
  /\ \A j \in Jobs : /\ Phase(j)' = PhaseOf(jobs'[j])
                    /\ Token(j)' = TokenOf(attempts', j)
                    /\ Verdict(j)' = VerdictOf(jobs'[j])
BY DEF Phase, PhaseOf, Token, TokenOf, HeldLeases, Terminal, Active, Verdict, VerdictOf

(* A status determines the phase. *)
LEMMA PhaseFacts ==
  ASSUME NEW row \in JobRow
  PROVE  /\ row.status = "absent" => PhaseOf(row) = "unknown"
         /\ row.status = "pending" <=> PhaseOf(row) = "open"
         /\ row.status \in ActiveStatuses <=> PhaseOf(row) = "held"
         /\ row.status \in TerminalStatuses => PhaseOf(row) = "decided"
BY DEF PhaseOf, JobRow, Statuses, ActiveStatuses, TerminalStatuses

(* The token of a job is the attempt that holds its lease: there is never  *)
(* another, and there is none while the job is not active.                 *)
LEMMA TokenFacts ==
  ASSUME NEW J, NEW A, NEW n, Consistent(J, A, n), NEW j \in Jobs
  PROVE  /\ \A a \in AttemptIds :
              A[a].release = "held" /\ A[a].job = j => TokenOf(A, j) = a
         /\ J[j].status \notin ActiveStatuses => TokenOf(A, j) = 0
<1>1. LeasesMatch(J, A) /\ EarlierExpired(A)
  BY DEF Consistent
<1>2. ASSUME NEW a \in AttemptIds, A[a].release = "held", A[a].job = j
      PROVE  TokenOf(A, j) = a
  <2>1. ASSUME NEW b \in AttemptIds, A[b].release = "held", A[b].job = j
        PROVE  b = a
    <3>1. j # None /\ a \in Nat /\ b \in Nat
      BY DEF AttemptIds
    <3>2. QED
      BY <1>1, <1>2, <2>1, <3>1 DEF EarlierExpired
  <2>2. QED
    BY <1>2, <2>1 DEF TokenOf
<1>3. ASSUME J[j].status \notin ActiveStatuses PROVE TokenOf(A, j) = 0
  BY <1>1, <1>3 DEF LeasesMatch, TokenOf
<1>4. QED
  BY <1>2, <1>3

(* A job keeps its token when its lease and its being active are kept. *)
LEMMA TokenKept ==
  ASSUME NEW J, NEW A, NEW n, Consistent(J, A, n),
         NEW J1, NEW A1, NEW n1, Consistent(J1, A1, n1),
         NEW j \in Jobs,
         J1[j].status \in ActiveStatuses => J[j].status \in ActiveStatuses,
         \A a \in AttemptIds : A[a].release = "held" /\ A[a].job = j
                               => A1[a].release = "held" /\ A1[a].job = j
  PROVE  TokenOf(A1, j) = TokenOf(A, j)
<1>1. CASE J[j].status \in ActiveStatuses
  <2>1. PICK a \in AttemptIds : A[a].release = "held" /\ A[a].job = j
    BY <1>1 DEF Consistent, LeasesMatch
  <2>2. TokenOf(A, j) = a
    BY <2>1, TokenFacts
  <2>3. TokenOf(A1, j) = a
    BY <2>1, TokenFacts
  <2>4. QED
    BY <2>2, <2>3
<1>2. CASE J[j].status \notin ActiveStatuses
  BY <1>2, TokenFacts
<1>3. QED
  BY <1>1, <1>2

(* What a recovery does to the rows that matter to the service. *)
LEMMA RecoveredView ==
  ASSUME IInv, NEW now \in Readings
  PROVE  /\ \A j \in Jobs :
              /\ j \in LapsedJobs(now) =>
                   /\ RecoveredJobs(now)[j].status = "pending"
                   /\ jobs[j].status \in ActiveStatuses
              /\ j \notin LapsedJobs(now) => RecoveredJobs(now)[j] = jobs[j]
         /\ \A a \in AttemptIds :
              /\ RecoveredAttempts(now)[a].job = attempts[a].job
              /\ RecoveredAttempts(now)[a].release = "held"
                   => attempts[a].release = "held"
              /\ attempts[a].release = "held" /\ attempts[a].job \notin LapsedJobs(now)
                   => RecoveredAttempts(now)[a] = attempts[a]
         /\ Consistent(RecoveredJobs(now), RecoveredAttempts(now), issued)
<1>1. Tables(jobs, attempts) /\ RowsLinked(jobs, attempts, issued)
      /\ LeasesMatch(jobs, attempts)
  BY DEF IInv, Consistent
<1>2. now \in Nat
  BY DEF Readings
<1>3. Consistent(RecoveredJobs(now), RecoveredAttempts(now), issued)
  BY <1>2, RecoveryConsistent
<1>4. ASSUME NEW j \in Jobs
      PROVE  /\ j \in LapsedJobs(now) =>
                  /\ RecoveredJobs(now)[j].status = "pending"
                  /\ jobs[j].status \in ActiveStatuses
             /\ j \notin LapsedJobs(now) => RecoveredJobs(now)[j] = jobs[j]
  BY <1>1 DEF LapsedJobs, RecoveredJobs, Active, Tables, JobRow
<1>5. ASSUME NEW a \in AttemptIds
      PROVE  /\ RecoveredAttempts(now)[a].job = attempts[a].job
             /\ RecoveredAttempts(now)[a].release = "held"
                  => attempts[a].release = "held"
             /\ a \notin Lapsed(now) => RecoveredAttempts(now)[a] = attempts[a]
  BY <1>1 DEF RecoveredAttempts, Tables, AttemptRow
<1>6. ASSUME NEW a \in AttemptIds, attempts[a].release = "held",
             attempts[a].job \notin LapsedJobs(now)
      PROVE  a \notin Lapsed(now)
  <2>1. attempts[a].job \in Jobs /\ Active(attempts[a].job)
    BY <1>1, <1>6 DEF Tables, AttemptRow, RowsLinked, LeasesMatch, Active
  <2>2. QED
    BY <1>6, <2>1 DEF LapsedJobs
<1>7. QED
  BY <1>3, <1>4, <1>5, <1>6

(* What every step of the store has: consistent tables before and after it, *)
(* and rows whose status determines the phase.                             *)
LEMMA BothConsistent ==
  ASSUME IInv, IInv'
  PROVE  /\ Consistent(jobs, attempts, issued)
         /\ Consistent(jobs', attempts', issued')
         /\ \A j \in Jobs : jobs[j] \in JobRow /\ jobs'[j] \in JobRow
<1>1. Consistent(jobs, attempts, issued) /\ Consistent(jobs', attempts', issued')
  BY DEF IInv, Consistent, Tables, RowsLinked, LeasesMatch, EarlierExpired,
         VerdictsMatch
<1>2. QED
  BY <1>1 DEF Consistent, Tables

(* A step that leaves leases and rows alone is none of the service's.      *)
LEMMA OtherTablesStutter ==
  ASSUME UNCHANGED <<jobs, attempts, issued>> PROVE UNCHANGED LS!vars
BY DEF LS!vars, Phase, Token, Verdict, Terminal, Active, HeldLeases

(* acquire_lease and acquire_job_lease hand a job out, after the recovery. *)
LEMMA GrantHands ==
  ASSUME IInv, IInv', NEW now \in Readings, NEW ttl \in TTLs,
         NEW j \in PendingAfter(now), Grant(j, now, ttl)
  PROVE  LS!Hand(j, LapsedJobs(now))
<1> DEFINE J == RecoveredJobs(now)
           A == RecoveredAttempts(now)
           S == LapsedJobs(now)
<1>1. /\ \A k \in Jobs : /\ k \in S => /\ J[k].status = "pending"
                                       /\ jobs[k].status \in ActiveStatuses
                         /\ k \notin S => J[k] = jobs[k]
      /\ \A a \in AttemptIds :
           /\ A[a].job = attempts[a].job
           /\ A[a].release = "held" => attempts[a].release = "held"
           /\ attempts[a].release = "held" /\ attempts[a].job \notin S
                => A[a] = attempts[a]
      /\ Consistent(J, A, issued)
  BY RecoveredView
<1>2. /\ Consistent(jobs, attempts, issued) /\ Consistent(jobs', attempts', issued')
      /\ \A k \in Jobs : jobs[k] \in JobRow /\ jobs'[k] \in JobRow
  BY BothConsistent
<1>3. j \in Jobs /\ J[j].status = "pending"
  BY DEF PendingAfter
<1>4. PICK o \in 1 .. MaxAttempts :
        attempts' = [A EXCEPT ![issued + 1] =
              [job |-> j, ordinal |-> o, status |-> "leased",
               due |-> now + ttl * TicksPerSecond, release |-> "held"]]
  BY DEF Grant
<1>5. jobs' = [J EXCEPT ![j].status = "leased"] /\ issued' = issued + 1
      /\ issued < MaxAttempts /\ issued \in Nat
  BY DEF Grant, IInv, TypeOK
<1>6. J \in [Jobs -> JobRow] /\ A \in [AttemptIds -> AttemptRow]
      /\ issued + 1 \in AttemptIds /\ A[issued + 1] = NoAttempt
  BY <1>1, <1>5 DEF Consistent, Tables, RowsLinked, AttemptIds
<1>7. /\ attempts'[issued + 1].job = j /\ attempts'[issued + 1].release = "held"
      /\ \A a \in AttemptIds : a # issued + 1 => attempts'[a] = A[a]
  BY <1>4, <1>6
<1>8. /\ jobs'[j].status = "leased"
      /\ \A k \in Jobs : k # j => jobs'[k] = J[k]
  BY <1>3, <1>5, <1>6 DEF JobRow
<1>9. S \subseteq LS!Held
  <2> SUFFICES ASSUME NEW k \in S PROVE k \in Jobs /\ Phase(k) = "held"
    BY DEF LS!Held
  <2>1. k \in Jobs /\ jobs[k].status \in ActiveStatuses
    BY <1>1 DEF LapsedJobs
  <2>2. PhaseOf(jobs[k]) = "held"
    BY <2>1, <1>2, PhaseFacts
  <2>3. QED
    BY <2>1, <2>2, Mapping
<1>10. Phase(j) = "open" \/ j \in S
  <2>1. ASSUME j \notin S PROVE Phase(j) = "open"
    <3>1. jobs[j].status = "pending"
      BY <2>1, <1>1, <1>3
    <3>2. PhaseOf(jobs[j]) = "open"
      BY <3>1, <1>2, <1>3, PhaseFacts
    <3>3. QED
      BY <3>2, <1>3, Mapping
  <2>2. QED
    BY <2>1
<1>11. ASSUME NEW k \in Jobs
       PROVE  /\ Phase(k)' = IF k = j THEN "held" ELSE IF k \in S THEN "open" ELSE Phase(k)
              /\ Token(k)' = IF k = j THEN issued' ELSE IF k \in S THEN 0 ELSE Token(k)
              /\ VerdictOf(jobs'[k]) = VerdictOf(jobs[k])
  <2>1. CASE k = j
    <3>1. Phase(k)' = "held"
      BY <2>1, <1>2, <1>8, Mapping, PhaseFacts DEF ActiveStatuses
    <3>2. Token(k)' = issued'
      BY <2>1, <1>2, <1>5, <1>6, <1>7, Mapping, TokenFacts
    <3>3. VerdictOf(jobs'[k]) = "undecided" /\ VerdictOf(jobs[k]) = "undecided"
      BY <2>1, <1>1, <1>3, <1>8 DEF VerdictOf, TerminalStatuses, ActiveStatuses
    <3>4. QED
      BY <2>1, <3>1, <3>2, <3>3
  <2>2. CASE k # j /\ k \in S
    <3>1. jobs'[k].status = "pending" /\ jobs[k].status \in ActiveStatuses
      BY <2>2, <1>1, <1>8
    <3>2. Phase(k)' = "open" /\ Token(k)' = 0
      <4>1. PhaseOf(jobs'[k]) = "open"
        BY <3>1, <1>2, PhaseFacts
      <4>2. TokenOf(attempts', k) = 0
        BY <3>1, <1>2, TokenFacts DEF ActiveStatuses
      <4>3. QED
        BY <4>1, <4>2, Mapping
    <3>3. VerdictOf(jobs'[k]) = "undecided" /\ VerdictOf(jobs[k]) = "undecided"
      BY <3>1 DEF VerdictOf, TerminalStatuses, ActiveStatuses
    <3>4. QED
      BY <2>2, <3>2, <3>3
  <2>3. CASE k # j /\ k \notin S
    <3>1. jobs'[k] = jobs[k]
      BY <2>3, <1>1, <1>8
    <3>2. ASSUME NEW a \in AttemptIds, attempts[a].release = "held", attempts[a].job = k
          PROVE  attempts'[a].release = "held" /\ attempts'[a].job = k
      <4>1. A[a] = attempts[a]
        BY <2>3, <3>2, <1>1
      <4>2. a # issued + 1
        BY <3>2, <4>1, <1>6 DEF NoAttempt
      <4>3. QED
        BY <3>2, <4>1, <4>2, <1>7
    <3>3. TokenOf(attempts', k) = TokenOf(attempts, k)
      <4>1. jobs'[k].status \in ActiveStatuses => jobs[k].status \in ActiveStatuses
        BY <3>1
      <4>2. QED
        BY <4>1, <3>2, <1>2, TokenKept
    <3>4. QED
      BY <2>3, <3>1, <3>3, Mapping
  <2>4. QED
    BY <2>1, <2>2, <2>3
<1>12. QED
  BY <1>3, <1>5, <1>9, <1>10, <1>11, Mapping DEF LS!Hand

(* A recovery without a grant, here of acquire_lease that finds no job,    *)
(* takes the lapsed jobs back.                                             *)
LEMMA RecoveryTakesBack ==
  ASSUME IInv, IInv', NEW now \in Readings, attempts' = RecoveredAttempts(now),
         jobs' = RecoveredJobs(now), issued' = issued
  PROVE  LS!TakeBack(LapsedJobs(now))
<1> DEFINE S == LapsedJobs(now)
<1>1. /\ \A k \in Jobs : /\ k \in S => /\ jobs'[k].status = "pending"
                                       /\ jobs[k].status \in ActiveStatuses
                         /\ k \notin S => jobs'[k] = jobs[k]
      /\ \A a \in AttemptIds :
            attempts[a].release = "held" /\ attempts[a].job \notin S
              => attempts'[a] = attempts[a]
  BY RecoveredView
<1>2. /\ Consistent(jobs, attempts, issued) /\ Consistent(jobs', attempts', issued')
      /\ \A k \in Jobs : jobs[k] \in JobRow /\ jobs'[k] \in JobRow
  BY BothConsistent
<1>3. S \subseteq LS!Held
  BY <1>1, <1>2, Mapping, PhaseFacts, ZenonT(60) DEF LS!Held, LapsedJobs
<1>4. ASSUME NEW k \in Jobs
      PROVE  /\ Phase(k)' = IF k \in S THEN "open" ELSE Phase(k)
             /\ Token(k)' = IF k \in S THEN 0 ELSE Token(k)
             /\ VerdictOf(jobs'[k]) = VerdictOf(jobs[k])
  <2>1. CASE k \in S
    <3>1. Phase(k)' = "open" /\ Token(k)' = 0
      BY <2>1, <1>1, <1>2, Mapping, PhaseFacts, TokenFacts DEF ActiveStatuses
    <3>2. VerdictOf(jobs'[k]) = "undecided" /\ VerdictOf(jobs[k]) = "undecided"
      BY <2>1, <1>1 DEF VerdictOf, TerminalStatuses, ActiveStatuses
    <3>3. QED
      BY <2>1, <3>1, <3>2
  <2>2. CASE k \notin S
    <3>1. jobs'[k] = jobs[k]
      BY <2>2, <1>1
    <3>2. TokenOf(attempts', k) = TokenOf(attempts, k)
      BY <2>2, <3>1, <1>1, <1>2, TokenKept
    <3>3. QED
      BY <2>2, <3>1, <3>2, Mapping
  <2>3. QED
    BY <2>1, <2>2
<1>5. QED
  BY <1>3, <1>4, Mapping DEF LS!TakeBack

(* So does a heartbeat, which leaves its own lease to its holder. *)
LEMMA HeartbeatTakesBack ==
  ASSUME IInv, IInv', NEW a \in AttemptIds, NEW now \in Readings, NEW ttl \in TTLs,
         HeartbeatLease(a, now, ttl)
  PROVE  LS!TakeBack(LapsedJobs(now))
<1> DEFINE J == RecoveredJobs(now)
           A == RecoveredAttempts(now)
           S == LapsedJobs(now)
           h == attempts[a].job
<1>1. /\ \A k \in Jobs : /\ k \in S => /\ J[k].status = "pending"
                                       /\ jobs[k].status \in ActiveStatuses
                         /\ k \notin S => J[k] = jobs[k]
      /\ \A b \in AttemptIds :
           /\ A[b].job = attempts[b].job
           /\ attempts[b].release = "held" /\ attempts[b].job \notin S
                => A[b] = attempts[b]
      /\ Consistent(J, A, issued)
  BY RecoveredView
<1>2. /\ Consistent(jobs, attempts, issued) /\ Consistent(jobs', attempts', issued')
      /\ \A k \in Jobs : jobs[k] \in JobRow /\ jobs'[k] \in JobRow
  BY BothConsistent
<1>3. A[a].release = "held" /\ attempts' = [A EXCEPT ![a].due = now + ttl * TicksPerSecond]
      /\ issued' = issued
  BY DEF HeartbeatLease
<1>4. A \in [AttemptIds -> AttemptRow]
  BY <1>1 DEF Consistent, Tables
<1>5. \A b \in AttemptIds : /\ attempts'[b].job = A[b].job
                           /\ attempts'[b].release = A[b].release
  BY <1>3, <1>4 DEF AttemptRow
<1>6. h \in Jobs /\ J[h].status \in ActiveStatuses
  BY <1>1, <1>3, <1>4 DEF Consistent, AttemptRow, RowsLinked, LeasesMatch
<1>7. h \notin S /\ J[h] = jobs[h]
  BY <1>1, <1>6 DEF ActiveStatuses
<1>8. \A k \in Jobs : k # h => jobs'[k] = J[k]
  BY DEF HeartbeatLease
<1>9. jobs'[h].status \in ActiveStatuses
  BY <1>2, <1>3, <1>5, <1>6, <1>1 DEF Consistent, LeasesMatch
<1>10. S \subseteq LS!Held
  BY <1>1, <1>2, Mapping, PhaseFacts, ZenonT(60) DEF LS!Held, LapsedJobs
<1>11. ASSUME NEW k \in Jobs
       PROVE  /\ Phase(k)' = IF k \in S THEN "open" ELSE Phase(k)
              /\ Token(k)' = IF k \in S THEN 0 ELSE Token(k)
              /\ VerdictOf(jobs'[k]) = VerdictOf(jobs[k])
  <2>1. CASE k \in S
    <3>1. jobs'[k].status = "pending" /\ jobs[k].status \in ActiveStatuses
      BY <2>1, <1>1, <1>7, <1>8
    <3>2. Phase(k)' = "open" /\ Token(k)' = 0
      BY <3>1, <1>2, Mapping, PhaseFacts, TokenFacts DEF ActiveStatuses
    <3>3. VerdictOf(jobs'[k]) = "undecided" /\ VerdictOf(jobs[k]) = "undecided"
      BY <3>1 DEF VerdictOf, TerminalStatuses, ActiveStatuses
    <3>4. QED
      BY <2>1, <3>2, <3>3
  <2>2. CASE k \notin S
    <3>1. TokenOf(attempts', k) = TokenOf(attempts, k)
      <4>1. \A b \in AttemptIds : attempts[b].release = "held" /\ attempts[b].job = k
                                  => attempts'[b].release = "held" /\ attempts'[b].job = k
        BY <2>2, <1>1, <1>5
      <4>2. jobs'[k].status \in ActiveStatuses => jobs[k].status \in ActiveStatuses
        BY <2>2, <1>1, <1>6, <1>7, <1>8
      <4>3. QED
        BY <4>1, <4>2, <1>2, TokenKept, SMTT(30)
    <3>2. PhaseOf(jobs'[k]) = PhaseOf(jobs[k]) /\ VerdictOf(jobs'[k]) = VerdictOf(jobs[k])
      <4>1. CASE k = h
        <5>1. PhaseOf(jobs'[k]) = "held" /\ PhaseOf(jobs[k]) = "held"
          BY <4>1, <1>2, <1>6, <1>7, <1>9, PhaseFacts
        <5>2. VerdictOf(jobs'[k]) = "undecided" /\ VerdictOf(jobs[k]) = "undecided"
          BY <4>1, <1>6, <1>7, <1>9 DEF VerdictOf, TerminalStatuses, ActiveStatuses
        <5>3. QED
          BY <5>1, <5>2
      <4>2. CASE k # h
        BY <2>2, <4>2, <1>1, <1>8
      <4>3. QED
        BY <4>1, <4>2
    <3>3. QED
      BY <2>2, <3>1, <3>2, Mapping
  <2>3. QED
    BY <2>1, <2>2
<1>12. QED
  BY <1>3, <1>10, <1>11, Mapping DEF LS!TakeBack

(* The reporter given lease a decides its job. *)
LEMMA CompletionDecides ==
  ASSUME IInv, IInv', NEW h \in Jobs, NEW a \in AttemptIds, NEW s \in Outcomes,
         NEW E \in Reports, NEW now \in Readings, CompleteJob(h, a, s, E, now),
         ~Terminal(h)
  PROVE  LS!Decide(h, s)
<1>1. /\ Consistent(jobs, attempts, issued) /\ Consistent(jobs', attempts', issued')
      /\ \A k \in Jobs : jobs[k] \in JobRow /\ jobs'[k] \in JobRow
  BY BothConsistent
<1>2. /\ attempts[a].release = "held" /\ attempts[a].job = h
      /\ attempts' = [attempts EXCEPT ![a].release = "completed", ![a].status = s]
      /\ jobs' = [jobs EXCEPT ![h].status = s]
      /\ issued' = issued
  BY DEF CompleteJob, CompleteActive
<1>3. jobs[h].status \in ActiveStatuses
  BY <1>1, <1>2 DEF Consistent, LeasesMatch
<1>4. /\ jobs'[h].status = s /\ s \in TerminalStatuses
      /\ \A k \in Jobs : k # h => jobs'[k] = jobs[k]
  BY <1>1, <1>2, <1>3 DEF Consistent, Tables, JobRow
<1>5. \A b \in AttemptIds : b # a => attempts'[b] = attempts[b]
  BY <1>1, <1>2 DEF Consistent, Tables
<1>6. Phase(h) = "held" /\ Phase(h)' = "decided" /\ Token(h)' = 0
  <2>1. PhaseOf(jobs[h]) = "held" /\ PhaseOf(jobs'[h]) = "decided"
    <3>1. PhaseOf(jobs[h]) = "held"
      BY <1>1, <1>3, PhaseFacts
    <3>2. PhaseOf(jobs'[h]) = "decided"
      BY <1>1, <1>3, <1>4, PhaseFacts
    <3>3. QED
      BY <3>1, <3>2
  <2>2. TokenOf(attempts', h) = 0
    <3>1. jobs'[h].status \notin ActiveStatuses
      BY <1>4 DEF ActiveStatuses, TerminalStatuses
    <3>2. QED
      BY <3>1, <1>1, TokenFacts
  <2>3. QED
    BY <2>1, <2>2, <1>3, Mapping
<1>7. VerdictOf(jobs'[h]) = s
  BY <1>4 DEF VerdictOf
<1>8. ASSUME NEW k \in Jobs, k # h
      PROVE  /\ Phase(k)' = Phase(k) /\ Token(k)' = Token(k)
             /\ VerdictOf(jobs'[k]) = VerdictOf(jobs[k])
  <2>1. jobs'[k] = jobs[k]
    BY <1>4, <1>8
  <2>2. \A b \in AttemptIds : attempts[b].release = "held" /\ attempts[b].job = k
                              => attempts'[b].release = "held" /\ attempts'[b].job = k
    BY <1>2, <1>5, <1>8
  <2>3. TokenOf(attempts', k) = TokenOf(attempts, k)
    <3>1. Consistent(jobs, attempts, issued) /\ Consistent(jobs', attempts', issued')
      BY <1>1
    <3>2. CASE jobs[k].status \in ActiveStatuses
      <4>1. PICK b \in AttemptIds : attempts[b].release = "held" /\ attempts[b].job = k
        BY <3>1, <3>2 DEF Consistent, LeasesMatch
      <4>2. TokenOf(attempts, k) = b
        BY <3>1, <4>1, TokenFacts
      <4>3. attempts'[b].release = "held" /\ attempts'[b].job = k
        BY <2>2, <4>1
      <4>4. TokenOf(attempts', k) = b
        BY <3>1, <4>3, TokenFacts
      <4>5. QED
        BY <4>2, <4>4
    <3>3. CASE jobs[k].status \notin ActiveStatuses
      <4>1. TokenOf(attempts, k) = 0
        BY <3>1, <3>3, TokenFacts
      <4>2. TokenOf(attempts', k) = 0
        BY <2>1, <3>1, <3>3, TokenFacts
      <4>3. QED
        BY <4>1, <4>2
    <3>4. QED
      BY <3>2, <3>3
  <2>4. QED
    BY <2>1, <2>3, Mapping
<1>9. \A k \in Jobs : /\ Phase(k)' = IF k = h THEN "decided" ELSE Phase(k)
                      /\ Token(k)' = IF k = h THEN 0 ELSE Token(k)
                      /\ Verdict(k)' = IF k = h THEN s ELSE Verdict(k)
  BY <1>3, <1>6, <1>7, <1>8, Mapping
<1>10. QED
  BY <1>2, <1>6, <1>9 DEF LS!Decide

(* Replacing the row of a job nobody works on changes no token. *)
LEMMA IdleJobTokens ==
  ASSUME IInv, IInv', NEW j \in Jobs, NEW row,
         jobs[j].status \notin ActiveStatuses, row.status \notin ActiveStatuses,
         jobs' = [jobs EXCEPT ![j] = row], attempts' = attempts
  PROVE  /\ jobs'[j] = row
         /\ \A k \in Jobs : Token(k)' = Token(k)
         /\ \A k \in Jobs : k # j => jobs'[k] = jobs[k]
<1>1. /\ Consistent(jobs, attempts, issued) /\ Consistent(jobs', attempts', issued')
      /\ \A k \in Jobs : jobs[k] \in JobRow /\ jobs'[k] \in JobRow
  BY BothConsistent
<1>2. jobs'[j] = row /\ \A k \in Jobs : k # j => jobs'[k] = jobs[k]
  BY <1>1 DEF Consistent, Tables
<1>3. ASSUME NEW k \in Jobs PROVE Token(k)' = Token(k)
  <2>1. jobs'[k].status \in ActiveStatuses => jobs[k].status \in ActiveStatuses
    BY <1>2
  <2>2. TokenOf(attempts', k) = TokenOf(attempts, k)
    BY <2>1, <1>1, TokenKept
  <2>3. QED
    BY <2>2, Mapping
<1>4. QED
  BY <1>2, <1>3

(* submit_job admits a job. *)
LEMMA SubmissionAdmits ==
  ASSUME IInv, IInv', NEW j \in Jobs, NEW r \in Runs, NEW k \in Keys,
         NEW work \in Works, NEW now \in Readings,
         SubmitJob(j, r, k, work, now)
  PROVE  LS!Admit(j)
<1> DEFINE row == [status |-> "pending", run |-> r, key |-> k,
                   created |-> now, work |-> work]
<1>1. /\ jobs[j].status = "absent" /\ row.status = "pending"
      /\ jobs' = [jobs EXCEPT ![j] = row] /\ attempts' = attempts /\ issued' = issued
  BY DEF SubmitJob
<1> HIDE DEF row
<1>2. /\ jobs'[j] = row
      /\ \A i \in Jobs : Token(i)' = Token(i)
      /\ \A i \in Jobs : i # j => jobs'[i] = jobs[i]
  BY <1>1, IdleJobTokens DEF ActiveStatuses
<1>3. PhaseOf(jobs[j]) = "unknown" /\ PhaseOf(jobs'[j]) = "open"
  BY <1>1, <1>2, BothConsistent, PhaseFacts
<1>4. VerdictOf(jobs[j]) = VerdictOf(jobs'[j])
  BY <1>1, <1>2 DEF VerdictOf, TerminalStatuses
<1>5. \A i \in Jobs : /\ Phase(i)' = IF i = j THEN "open" ELSE Phase(i)
                      /\ Verdict(i)' = Verdict(i)
  BY <1>2, <1>3, <1>4, Mapping
<1>6. Phase(j) = "unknown"
  BY <1>3, Mapping
<1>7. QED
  BY <1>1, <1>2, <1>5, <1>6 DEF LS!Admit

(* cancel_pending_job withdraws an open job. *)
LEMMA CancellationWithdraws ==
  ASSUME IInv, IInv', NEW j \in Jobs, CancelPendingJob(j)
  PROVE  LS!Withdraw(j)
<1> DEFINE row == [jobs[j] EXCEPT !.status = "cancelled"]
<1>1. /\ jobs[j].status = "pending" /\ row.status = "cancelled"
      /\ jobs' = [jobs EXCEPT ![j] = row] /\ attempts' = attempts /\ issued' = issued
  BY DEF CancelPendingJob, IInv, TypeOK, JobRow
<1> HIDE DEF row
<1>2. /\ jobs'[j] = row
      /\ \A i \in Jobs : Token(i)' = Token(i)
      /\ \A i \in Jobs : i # j => jobs'[i] = jobs[i]
  BY <1>1, IdleJobTokens DEF ActiveStatuses
<1>3. PhaseOf(jobs[j]) = "open" /\ PhaseOf(jobs'[j]) = "decided"
  BY <1>1, <1>2, BothConsistent, PhaseFacts DEF TerminalStatuses
<1>4. VerdictOf(jobs'[j]) = "cancelled"
  BY <1>1, <1>2 DEF VerdictOf, TerminalStatuses
<1>5. \A i \in Jobs : /\ Phase(i)' = IF i = j THEN "decided" ELSE Phase(i)
                      /\ Verdict(i)' = IF i = j THEN "cancelled" ELSE Verdict(i)
  BY <1>2, <1>3, <1>4, Mapping
<1>6. Phase(j) = "open"
  BY <1>3, Mapping
<1>7. QED
  BY <1>1, <1>2, <1>5, <1>6 DEF LS!Withdraw

(* Deleting a run forgets its jobs, whatever became of them. *)
LEMMA DeletionForgets ==
  ASSUME IInv, IInv', NEW r \in Runs, DeleteRunView(r)
  PROVE  LS!Forget({j \in Jobs : jobs[j].run = r})
<1> DEFINE gone == {j \in Jobs : jobs[j].run = r}
<1>1. /\ Consistent(jobs, attempts, issued) /\ Consistent(jobs', attempts', issued')
      /\ \A k \in Jobs : jobs[k] \in JobRow /\ jobs'[k] \in JobRow
  BY BothConsistent
<1>2. /\ \A k \in Jobs : jobs'[k] = IF k \in gone THEN NoJob ELSE jobs[k]
      /\ \A a \in AttemptIds : attempts[a].job \notin gone => attempts'[a] = attempts[a]
      /\ issued' = issued
  BY DEF DeleteRunView
<1>3. ASSUME NEW k \in Jobs
      PROVE  /\ Phase(k)' = IF k \in gone THEN "unknown" ELSE Phase(k)
             /\ Token(k)' = IF k \in gone THEN 0 ELSE Token(k)
             /\ VerdictOf(jobs'[k]) = IF k \in gone THEN "undecided"
                                      ELSE VerdictOf(jobs[k])
  <2>1. CASE k \in gone
    <3>1. jobs'[k].status = "absent"
      BY <2>1, <1>2 DEF NoJob
    <3>2. PhaseOf(jobs'[k]) = "unknown"
      BY <3>1, <1>1, PhaseFacts
    <3>3. TokenOf(attempts', k) = 0
      BY <3>1, <1>1, TokenFacts DEF ActiveStatuses
    <3>4. VerdictOf(jobs'[k]) = "undecided"
      BY <3>1 DEF VerdictOf, TerminalStatuses
    <3>5. QED
      BY <2>1, <3>2, <3>3, <3>4, Mapping
  <2>2. CASE k \notin gone
    <3>1. jobs'[k] = jobs[k]
      BY <2>2, <1>2
    <3>2. \A a \in AttemptIds : attempts[a].release = "held" /\ attempts[a].job = k
                                => attempts'[a].release = "held" /\ attempts'[a].job = k
      BY <2>2, <1>2
    <3>3. TokenOf(attempts', k) = TokenOf(attempts, k)
      <4> HIDE DEF gone
      <4>1. QED
        BY <3>1, <3>2, <1>1, TokenKept
    <3>4. QED
      BY <2>2, <3>1, <3>3, Mapping
  <2>3. QED
    BY <2>1, <2>2
<1>4. QED
  BY <1>2, <1>3, Mapping DEF LS!Forget, LS!NoVerdict

LEMMA InitRefines == Init => LS!Init
<1> SUFFICES ASSUME Init PROVE LS!Init
  OBVIOUS
<1>1. Consistent(jobs, attempts, issued) /\ issued = 0
  BY InitConsistent DEF IInv, Init
<1>2. ASSUME NEW j \in Jobs
      PROVE  Phase(j) = "unknown" /\ Token(j) = 0 /\ VerdictOf(jobs[j]) = "undecided"
  <2>1. jobs[j].status = "absent" /\ jobs[j] \in JobRow
    BY <1>1 DEF Init, NoJob, Consistent, Tables
  <2>2. PhaseOf(jobs[j]) = "unknown"
    BY <2>1, PhaseFacts
  <2>3. TokenOf(attempts, j) = 0
    BY <2>1, <1>1, TokenFacts DEF ActiveStatuses
  <2>4. QED
    BY <2>1, <2>2, <2>3, Mapping DEF VerdictOf, TerminalStatuses
<1>3. QED
  BY <1>1, <1>2, Mapping DEF LS!Init, LS!NoVerdict

(* Every step of the store is a step of the service or none. *)
LEMMA StepRefines == IInv /\ IInv' /\ [Next]_vars => [LS!Next]_(LS!vars)
<1> SUFFICES ASSUME IInv, IInv', [Next]_vars PROVE [LS!Next]_(LS!vars)
  OBVIOUS
<1>1. ASSUME UNCHANGED <<jobs, attempts, issued>> PROVE UNCHANGED LS!vars
  BY <1>1, OtherTablesStutter
<1>2. \A now : LapsedJobs(now) \in SUBSET Jobs
  BY DEF LapsedJobs
<1>3. CASE Tick
  BY <1>3, <1>1 DEF Tick
<1>4. ASSUME NEW r \in Runs, CreateRun(r) \/ FinishRun(r) PROVE UNCHANGED LS!vars
  BY <1>4, <1>1 DEF CreateRun, FinishRun
<1>5. ASSUME NEW r \in Runs, DeleteRunView(r) PROVE LS!Next
  <2>1. {j \in Jobs : jobs[j].run = r} \in SUBSET Jobs
    OBVIOUS
  <2>2. LS!Forget({j \in Jobs : jobs[j].run = r})
    BY <1>5, DeletionForgets
  <2>3. QED
    BY <2>1, <2>2 DEF LS!Next
<1>6. ASSUME NEW d \in Digests, RegisterArtifact(d) PROVE UNCHANGED LS!vars
  BY <1>6, <1>1 DEF RegisterArtifact
<1>7. ASSUME NEW j \in Jobs, NEW r \in Runs, NEW k \in Keys,
             NEW work \in Works, NEW now \in Readings,
             SubmitJob(j, r, k, work, now)
      PROVE  LS!Next
  BY <1>7, SubmissionAdmits DEF LS!Next
<1>8. ASSUME NEW now \in Readings, NEW ttl \in TTLs, NEW j \in PendingAfter(now),
             Grant(j, now, ttl)
      PROVE  LS!Next
  <2>1. j \in Jobs
    BY DEF PendingAfter
  <2>2. LapsedJobs(now) \in SUBSET Jobs /\ LS!Hand(j, LapsedJobs(now))
    BY <1>2, <1>8, GrantHands
  <2>3. QED
    BY <2>1, <2>2 DEF LS!Next
<1>9. ASSUME NEW now \in Readings, NEW ttl \in TTLs, AcquireLease(now, ttl)
      PROVE  LS!Next
  <2>1. CASE \E j \in PendingAfter(now) : Grant(j, now, ttl)
    BY <2>1, <1>8
  <2>2. CASE /\ attempts' = RecoveredAttempts(now) /\ jobs' = RecoveredJobs(now)
             /\ issued' = issued
    BY <2>2, <1>2, RecoveryTakesBack DEF LS!Next
  <2>3. QED
    BY <1>9, <2>1, <2>2 DEF AcquireLease
<1>10. ASSUME NEW now \in Readings, NEW ttl \in TTLs, NEW j \in Jobs,
              AcquireJobLease(j, now, ttl)
       PROVE  LS!Next
  BY <1>8, <1>10 DEF AcquireJobLease
<1>11. ASSUME NEW now \in Readings, NEW ttl \in TTLs, NEW a \in AttemptIds,
              HeartbeatLease(a, now, ttl)
       PROVE  LS!Next
  BY <1>2, <1>11, HeartbeatTakesBack DEF LS!Next
<1>12. ASSUME NEW j \in Jobs, CancelPendingJob(j) PROVE LS!Next
  BY <1>12, CancellationWithdraws DEF LS!Next
<1>13. ASSUME NEW h \in Jobs, NEW a \in AttemptIds, NEW s \in Outcomes,
              NEW E \in Reports, NEW now \in Readings, CompleteJob(h, a, s, E, now)
       PROVE  LS!Next \/ UNCHANGED LS!vars
  <2>1. CASE Terminal(h)
    BY <2>1, <1>1, <1>13 DEF CompleteJob, CompleteDecided
  <2>2. CASE ~Terminal(h)
    <3>1. LS!Decide(h, s)
      BY <2>2, <1>13, CompletionDecides
    <3>2. QED
      BY <3>1 DEF LS!Next
  <2>3. QED
    BY <2>1, <2>2
<1>14. CASE UNCHANGED vars
  BY <1>14, <1>1 DEF vars
<1>15. QED
  BY <1>3, <1>4, <1>5, <1>6, <1>7, <1>9, <1>10, <1>11, <1>12, <1>13, <1>14 DEF Next

(* Every behaviour of the store is one of the lease service: a job has one *)
(* holder at a time under a token never used before, loses it only by a    *)
(* recovery, and is decided once, by its current holder or by withdrawing  *)
(* it before anybody holds it.                                             *)
THEOREM StoreImplementsLeaseService == Spec => ImplementsLeaseService
<1>1. QED
  BY InitRefines, StepRefines, Consistency, PTL
  DEF Spec, ImplementsLeaseService, LS!Spec

===============================================================================
