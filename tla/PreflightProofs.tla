---------------------------- MODULE PreflightProofs ----------------------------
(***************************************************************************)
(* The safety invariants of Preflight and of the two services it is made   *)
(* of, Dispatch and ProfilerWorker, for every set of jobs, every bound on  *)
(* attempts and faults and all timeouts of the profiler.                   *)
(***************************************************************************)
EXTENDS Preflight, TLAPS

USE DispatchBounds, WorkerBounds, StagesAreJobs

-------------------------------------------------------------------------------
(* Dispatch: the inductive invariant, part by part. *)

(* Attempts are numbered as they are granted, and a number stands for one  *)
(* thing only: a program, a verdict under way, or what has become of them; *)
(* but a container that was left behind may run on beside the verdict.     *)
AttemptsOK ==
    /\ \A p \in programs : p.attempt <= granted
    /\ \A r \in reports : r.attempt <= granted
    /\ \A p \in programs, r \in reports : p.attempt = r.attempt =>
          p.orphan /\ p.job \in Generated /\ p.job = r.job
    /\ \A r, s \in reports : r.attempt = s.attempt => r = s
    /\ \A j \in Jobs : view[j].at = "running" =>
          /\ view[j].attempt \in 1 .. granted
          /\ \A r \in reports : r.attempt # view[j].attempt
          /\ \A p \in programs : p.orphan => p.attempt # view[j].attempt

(* The Supervisor has one job on the GPU, and a program that is not left   *)
(* over from an earlier Supervisor is the running job's.                   *)
SupervisorOK ==
    /\ \A j, k \in OnGpu : j = k
    /\ \A p \in programs : ~p.orphan => view[p.job].at = "running"

(* A success that is shown is in Control's row or on its way there, or the *)
(* row was cancelled when the lease had ended.                             *)
ShownOK ==
    \A j \in Jobs : view[j].at = "over" /\ view[j].shown = "succeeded" =>
        \/ rows[j].status = "succeeded"
        \/ [job |-> j, attempt |-> view[j].attempt, status |-> "succeeded"] \in reports
        \/ rows[j].status = "cancelled" /\ faults # 0

Telling(j) == \/ view[j].at = "running"
              \/ view[j].at = "over" /\ view[j].shown = "succeeded"

(* What the Supervisor runs or shows as a success is the latest attempt of *)
(* the job there, or Control has leased the job again since.  Hence none   *)
(* but its own verdict could make the job a failure.                       *)
LatestOK ==
    \A j \in Jobs : Telling(j) =>
        /\ view[j].attempt <= granted
        /\ \A r \in reports : r.job = j => r.attempt <= view[j].attempt
        /\ rows[j].status = "leased" => view[j].attempt <= rows[j].holder
        /\ rows[j].status # "failed"

(* What was sent, is known to the Supervisor or reported has a row. *)
RowsFirst ==
    \A j \in Jobs : rows[j].status = "absent" =>
        posts[j] \in {"idle", "failed"} /\ view[j].at = "unknown" /\ ~Reporting(j)

(* Before the first fault a lease is held by the running job or by the     *)
(* verdict under way, and what is over, or was, is decided or about to be. *)
FaultlessOK ==
    faults = 0 =>
      /\ wire = {}
      /\ \A r \in reports : Holds(r)
      /\ \A j \in Jobs :
           /\ view[j].at = "running"
                => rows[j] = [status |-> "leased", holder |-> view[j].attempt]
           /\ rows[j].status = "leased" => view[j].at = "running" \/ Reporting(j)
           /\ /\ view[j].at = "over" \/ (view[j].at = "unknown" /\ posts[j] = "accepted")
              /\ Open(j)
              => j \in clearing \/ Reporting(j)

DispatchInv == /\ DispatchTypeOK /\ AttemptsOK /\ SupervisorOK /\ ShownOK /\ LatestOK
               /\ RowsFirst /\ FaultlessOK /\ ProgramsAreLeased

-------------------------------------------------------------------------------
(* What keeps a part of the invariant, whatever action it is. *)

(* Nothing new gets a number, and nothing new runs. *)
LEMMA AttemptsKept ==
  ASSUME DispatchInv, granted' \in Nat, granted' >= granted, reports' \subseteq reports,
         programs' \subseteq programs,
         \A k \in Jobs : view'[k].at = "running" => view'[k] = view[k]
  PROVE  AttemptsOK'
<1>1. AttemptsOK /\ granted \in Nat
  BY DEF DispatchInv, DispatchTypeOK
<1>2. \A p \in programs : p.attempt \in Nat
  BY DEF DispatchInv, DispatchTypeOK, Program, Attempts
<1>3. \A r \in reports : r.attempt \in Nat
  BY DEF DispatchInv, DispatchTypeOK, Callback, Attempts
<1>4. \A k \in Jobs : view[k].attempt \in Nat
  BY DEF DispatchInv, DispatchTypeOK, View
<1>5. QED
  BY <1>1, <1>2, <1>3, <1>4 DEF AttemptsOK

LEMMA SupervisorKept ==
  ASSUME DispatchInv, programs' \subseteq programs,
         \A k \in Jobs : view'[k].at \in {"leasing", "running"} => view[k].at \in {"leasing", "running"},
         \A p \in programs' : ~p.orphan => view'[p.job].at = view[p.job].at
  PROVE  SupervisorOK'
BY DEF DispatchInv, SupervisorOK, OnGpu

(* No success is newly shown, nothing decided changes in Control. *)
LEMMA ShownKept ==
  ASSUME DispatchInv, reports \subseteq reports', faults' # 0 \/ faults' = faults,
         \A k \in Jobs : /\ view'[k].at = "over" /\ view'[k].shown = "succeeded" => view'[k] = view[k]
                         /\ rows[k].status \in Decided => rows'[k] = rows[k]
  PROVE  ShownOK'
BY DEF DispatchInv, ShownOK, Decided, Outcomes

(* Nothing runs or is shown as a success newly, no lease is new but under  *)
(* a new number, and nothing is reported.                                  *)
LEMMA LatestKept ==
  ASSUME DispatchInv, granted' \in Nat, granted' >= granted, reports' \subseteq reports,
         \A k \in Jobs :
            /\ Telling(k)' => view'[k] = view[k]
            /\ \/ rows'[k] = rows[k]
               \/ rows'[k].status \notin {"leased", "failed"}
               \/ rows'[k].status = "leased" /\ rows'[k].holder = granted + 1
  PROVE  LatestOK'
<1> SUFFICES ASSUME NEW k \in Jobs, Telling(k)'
             PROVE  /\ view'[k].attempt <= granted'
                    /\ \A r \in reports' : r.job = k => r.attempt <= view'[k].attempt
                    /\ rows'[k].status = "leased" => view'[k].attempt <= rows'[k].holder
                    /\ rows'[k].status # "failed"
  BY DEF LatestOK
<1>1. view'[k] = view[k] /\ Telling(k)
  BY DEF Telling
<1>2. granted \in Nat /\ view[k].attempt \in Nat
  BY DEF DispatchInv, DispatchTypeOK, View
<1>3. /\ view[k].attempt <= granted
      /\ \A r \in reports : r.job = k => r.attempt <= view[k].attempt
      /\ rows[k].status = "leased" => view[k].attempt <= rows[k].holder
      /\ rows[k].status # "failed"
  BY <1>1 DEF DispatchInv, LatestOK
<1>4. QED
  BY <1>1, <1>2, <1>3

(* Leases in force and verdicts stay. *)
LEMMA LeasesKept ==
  ASSUME DispatchInv, programs' \subseteq programs,
         \A p \in programs' : rows[p.job].status \in {"leased"} \cup Decided
                              => rows'[p.job] = rows[p.job]
  PROVE  ProgramsAreLeased'
BY DEF DispatchInv, ProgramsAreLeased

LEMMA RowsFirstKept ==
  ASSUME DispatchInv,
         \A k \in Jobs : rows'[k].status = "absent" =>
            /\ rows[k].status = "absent"
            /\ posts'[k] \in {posts[k], "failed"} /\ view'[k].at = view[k].at
            /\ Reporting(k)' => Reporting(k)
  PROVE  RowsFirst'
BY DEF DispatchInv, RowsFirst, Reporting

(* A change of an entry of Control's table or of the Supervisor's. *)
LEMMA ViewFacts ==
  ASSUME DispatchInv, NEW j \in Jobs, NEW shown \in {"queued", "running"} \cup Decided
  PROVE  /\ Over(j, shown) \in [Jobs -> View]
         /\ Over(j, shown)[j].at = "over"
         /\ Over(j, shown)[j].shown = shown
         /\ Over(j, shown)[j].attempt = view[j].attempt
         /\ \A k \in Jobs \ {j} : Over(j, shown)[k] = view[k]
BY DEF DispatchInv, DispatchTypeOK, View, Over

LEMMA LeasedFacts ==
  ASSUME DispatchInv, NEW j \in Jobs, MayLease(j)
  PROVE  /\ Leased(j) \in [Jobs -> Row]
         /\ Leased(j)[j] = [status |-> "leased", holder |-> granted + 1]
         /\ \A k \in Jobs \ {j} : Leased(j)[k] = rows[k]
         /\ granted + 1 \in Attempts /\ granted \in Nat
         /\ rows[j].status = "pending"
BY DEF DispatchInv, DispatchTypeOK, Row, Leased, MayLease, Attempts

LEMMA DispatchTypes ==
  ASSUME DispatchInv
  PROVE  /\ rows \in [Jobs -> Row] /\ granted \in 0 .. MaxAttempts
         /\ posts \in [Jobs -> {"idle", "sent", "accepted", "failed"}]
         /\ view \in [Jobs -> View] /\ programs \subseteq Program
         /\ reports \subseteq Callback /\ wire \subseteq Jobs /\ clearing \subseteq Jobs
         /\ faults \in 0 .. MaxFaults
BY DEF DispatchInv, DispatchTypeOK

-------------------------------------------------------------------------------
(* One lemma per action of Dispatch. *)

LEMMA SubmitStep ==
  ASSUME DispatchInv, NEW j \in Jobs, Submit(j) \/ SubmitRefused(j)
  PROVE  DispatchInv'
<1> DEFINE st == IF rows[j].status = "absent" /\ posts'[j] = "sent" THEN "pending" ELSE rows[j].status
<1>1. /\ posts[j] # "sent" /\ UNCHANGED <<granted, view, programs, reports, wire, clearing, faults>>
      /\ posts' \in [Jobs -> {"idle", "sent", "accepted", "failed"}]
      /\ posts'[j] \in {"sent", "failed"} /\ \A k \in Jobs \ {j} : posts'[k] = posts[k]
  BY DispatchTypes DEF Submit, SubmitRefused
<1>2. /\ rows' \in [Jobs -> Row] /\ \A k \in Jobs \ {j} : rows'[k] = rows[k]
      /\ rows'[j].status = st
      /\ rows[j].status # "absent" => rows'[j] = rows[j]
  <2>1. rows[j] \in Row /\ rows \in [Jobs -> Row]
    BY DispatchTypes
  <2>2. CASE SubmitRefused(j)
    BY <1>1, <2>1, <2>2 DEF SubmitRefused
  <2>3. CASE Submit(j) /\ rows[j].status = "absent"
    BY <1>1, <2>1, <2>3 DEF Submit, Row
  <2>4. CASE Submit(j) /\ rows[j].status # "absent"
    <3>1. rows' = [rows EXCEPT ![j].status = rows[j].status]
      BY <2>4 DEF Submit
    <3>2. [rows[j] EXCEPT !.status = rows[j].status] = rows[j]
      BY <2>1 DEF Row
    <3>3. rows' = rows
      BY <2>1, <3>1, <3>2
    <3>4. QED
      BY <2>1, <2>4, <3>3
  <2>5. QED
    BY <2>2, <2>3, <2>4
<1>3. DispatchTypeOK'
  BY <1>1, <1>2, DispatchTypes DEF DispatchTypeOK
<1>4. AttemptsOK' /\ SupervisorOK'
  BY <1>1, DispatchTypes, AttemptsKept, SupervisorKept
<1>5. ShownOK' /\ LatestOK' /\ ProgramsAreLeased'
  <2>1. \A p \in programs : p.job \in Jobs
    BY DispatchTypes DEF Program
  <2>2. rows'[j] = rows[j] \/ (rows[j].status = "absent" /\ rows'[j].status \in {"absent", "pending"})
    BY <1>2
  <2>3. \A k \in Jobs : rows[k].status \in {"leased"} \cup Decided => rows'[k] = rows[k]
    BY <1>2 DEF Decided, Outcomes
  <2>4. ShownOK'
    BY <1>1, <2>3, ShownKept
  <2>5. LatestOK'
    <3>1. \A k \in Jobs : rows'[k] = rows[k] \/ rows'[k].status \notin {"leased", "failed"}
      BY <1>2, <2>2
    <3>2. granted \in Nat
      BY DispatchTypes
    <3> HIDE DEF st
    <3>3. QED
      BY <1>1, <3>1, <3>2, LatestKept DEF Telling
  <2>6. ProgramsAreLeased'
    BY <1>1, <2>1, <2>3, LeasesKept
  <2>7. QED
    BY <2>4, <2>5, <2>6
<1>6. RowsFirst'
  BY <1>1, <1>2 DEF DispatchInv, RowsFirst, Reporting
<1>7. FaultlessOK'
  <2> SUFFICES ASSUME faults = 0 PROVE FaultlessOK'
    BY <1>1 DEF FaultlessOK
  <2>1. \A k \in Jobs : Reporting(k)' <=> Reporting(k)
    BY <1>1 DEF Reporting
  <2>2. \A r \in reports : r.job \in Jobs
    BY DispatchTypes DEF Callback
  <2>3. ASSUME NEW r \in reports PROVE Holds(r)'
    <3>1. rows[r.job] = [status |-> "leased", holder |-> r.attempt]
      BY DEF DispatchInv, FaultlessOK, Holds
    <3>2. rows'[r.job] = rows[r.job]
      BY <1>2, <2>2, <3>1
    <3>3. QED
      BY <3>1, <3>2 DEF Holds
  <2>4. ASSUME NEW k \in Jobs
        PROVE  /\ view[k].at = "running"
                    => rows'[k] = [status |-> "leased", holder |-> view[k].attempt]
               /\ rows'[k].status = "leased" => view[k].at = "running" \/ Reporting(k)
               /\ /\ view[k].at = "over" \/ (view[k].at = "unknown" /\ posts'[k] = "accepted")
                  /\ Open(k)'
                  => k \in clearing \/ Reporting(k)
    <3>1. CASE k = j
      BY <3>1, <1>1, <1>2 DEF DispatchInv, FaultlessOK, RowsFirst, Open
    <3>2. CASE k # j
      BY <3>2, <1>1, <1>2 DEF DispatchInv, FaultlessOK, Open
    <3>3. QED
      BY <3>1, <3>2
  <2>5. QED
    BY <1>1, <2>1, <2>3, <2>4 DEF DispatchInv, FaultlessOK
<1>8. QED
  BY <1>3, <1>4, <1>5, <1>6, <1>7 DEF DispatchInv

(* A step that is no fault and changes neither rows nor reports. *)
LEMMA FaultlessKept ==
  ASSUME DispatchInv, UNCHANGED <<rows, reports, wire>>, faults' = faults,
         \A k \in Jobs :
            /\ view[k].at = "running" \/ view'[k].at = "running" => view'[k] = view[k]
            /\ /\ view'[k].at = "over" \/ (view'[k].at = "unknown" /\ posts'[k] = "accepted")
               /\ ~ (view[k].at = "over" \/ (view[k].at = "unknown" /\ posts[k] = "accepted"))
               /\ Open(k)
               => k \in clearing' \/ Reporting(k)
            /\ k \in clearing => k \in clearing'
  PROVE  FaultlessOK'
<1> SUFFICES ASSUME faults = 0 PROVE FaultlessOK'
  BY DEF FaultlessOK
<1>1. \A k \in Jobs : (Reporting(k)' <=> Reporting(k)) /\ (Open(k)' <=> Open(k))
  BY DEF Reporting, Open
<1>2. \A r \in reports : Holds(r)'
  BY DEF DispatchInv, FaultlessOK, Holds
<1>3. ASSUME NEW k \in Jobs
      PROVE  /\ view'[k].at = "running"
                  => rows[k] = [status |-> "leased", holder |-> view'[k].attempt]
             /\ rows[k].status = "leased" => view'[k].at = "running" \/ Reporting(k)
             /\ /\ view'[k].at = "over" \/ (view'[k].at = "unknown" /\ posts'[k] = "accepted")
                /\ Open(k)
                => k \in clearing' \/ Reporting(k)
  BY DEF DispatchInv, FaultlessOK
<1>4. QED
  BY <1>1, <1>2, <1>3 DEF DispatchInv, FaultlessOK

(* A new job drops none that runs or waits. *)
LEMMA AcceptedFacts ==
  ASSUME DispatchInv, NEW j \in Jobs, NEW v \in Accepted(j) \cup {view}
  PROVE  /\ v \in [Jobs -> View]
         /\ \A k \in Jobs :
              \/ v[k] = view[k]
              \/ k = j /\ view[k].at = "unknown" /\ v[k].at = "queued"
              \/ view[k].at = "over" /\ v[k] = NoView
         /\ v \in Accepted(j) => v[j].at # "unknown"
<1>1. view \in [Jobs -> View]
  BY DispatchTypes
<1>2. CASE v = view
  BY <1>1, <1>2 DEF Accepted, Known, NoView
<1>3. CASE v # view
  <2>1. PICK dropped \in SUBSET Trimmable :
          v = [k \in Jobs |-> IF k = j THEN [NoView EXCEPT !.at = "queued"]
                              ELSE IF k \in dropped THEN NoView ELSE view[k]]
    BY <1>3 DEF Accepted, Dropped
  <2>2. j \notin Known
    BY <1>3 DEF Accepted
  <2>3. [NoView EXCEPT !.at = "queued"] \in View /\ NoView \in View
        /\ [NoView EXCEPT !.at = "queued"].at = "queued"
    BY DEF NoView, View
  <2>4. QED
    BY <1>1, <2>1, <2>2, <2>3 DEF Trimmable, Known
<1>4. QED
  BY <1>2, <1>3

LEMMA ReceiveStep ==
  ASSUME DispatchInv, NEW j \in Jobs, Receive(j) \/ ReceiveFails(j)
  PROVE  DispatchInv'
<1>1. /\ posts[j] = "sent" /\ UNCHANGED <<rows, granted, programs, reports, wire, clearing>>
      /\ posts' \in [Jobs -> {"idle", "sent", "accepted", "failed"}]
      /\ posts'[j] \in {"accepted", "failed"} /\ \A k \in Jobs \ {j} : posts'[k] = posts[k]
      /\ view' \in Accepted(j) \cup {view}
      /\ posts'[j] = "accepted" => view' \in Accepted(j)
  BY DispatchTypes DEF Receive, ReceiveFails
<1>2. /\ view' \in [Jobs -> View]
      /\ \A k \in Jobs :
           \/ view'[k] = view[k]
           \/ k = j /\ view[k].at = "unknown" /\ view'[k].at = "queued"
           \/ view[k].at = "over" /\ view'[k] = NoView
      /\ posts'[j] = "accepted" => view'[j].at # "unknown"
  BY <1>1, AcceptedFacts
<1>3. faults' \in 0 .. MaxFaults /\ (faults' = faults \/ faults' > 0)
  BY DispatchTypes DEF Receive, ReceiveFails, Fault
<1>4. DispatchTypeOK'
  BY <1>1, <1>2, <1>3, DispatchTypes DEF DispatchTypeOK
<1>5. NoView.at = "unknown"
  BY DEF NoView
<1>6. AttemptsOK'
  BY <1>1, <1>2, <1>5, DispatchTypes, AttemptsKept
<1>7. SupervisorOK'
  <2>1. \A p \in programs : ~p.orphan => p.job \in Jobs /\ view[p.job].at = "running"
    BY DispatchTypes DEF DispatchInv, SupervisorOK, Program
  <2>2. QED
    BY <1>1, <1>2, <1>5, <2>1, SupervisorKept
<1>8. ShownOK' /\ LatestOK' /\ ProgramsAreLeased'
  <2>1. \A k \in Jobs : Telling(k)' => view'[k] = view[k]
    BY <1>2, <1>5 DEF Telling
  <2>2. QED
    BY <1>1, <1>2, <1>3, <1>5, <2>1, DispatchTypes, ShownKept, LatestKept, LeasesKept
<1>9. RowsFirst'
  BY <1>1, <1>2, <1>5 DEF DispatchInv, RowsFirst, Reporting
<1>10. FaultlessOK'
  <2>1. CASE faults' > 0
    BY <2>1 DEF FaultlessOK
  <2>2. CASE faults' = faults
    <3>1. ASSUME NEW k \in Jobs
          PROVE  /\ view[k].at = "running" \/ view'[k].at = "running" => view'[k] = view[k]
                 /\ view'[k].at = "over" \/ (view'[k].at = "unknown" /\ posts'[k] = "accepted")
                    => view[k].at = "over" \/ (view[k].at = "unknown" /\ posts[k] = "accepted")
      BY <1>1, <1>2, <1>5
    <3>2. QED
      BY <1>1, <2>2, <3>1, FaultlessKept
  <2>3. QED
    BY <1>3, <2>1, <2>2
<1>11. QED
  BY <1>4, <1>6, <1>7, <1>8, <1>9, <1>10 DEF DispatchInv

LEMMA EnterStep ==
  ASSUME DispatchInv, NEW j \in Jobs, Enter(j)
  PROVE  DispatchInv'
<1>1. /\ view[j].at = "queued" /\ OnGpu = {}
      /\ UNCHANGED <<rows, granted, posts, programs, reports, wire, clearing, faults>>
  BY DEF Enter
<1>2. /\ view' \in [Jobs -> View] /\ view'[j].at = "leasing"
      /\ \A k \in Jobs \ {j} : view'[k] = view[k]
  <2>1. view' = [view EXCEPT ![j] = [[view[j] EXCEPT !.at = "leasing"] EXCEPT !.shown = "running"]]
    BY DispatchTypes DEF Enter
  <2>2. /\ [[view[j] EXCEPT !.at = "leasing"] EXCEPT !.shown = "running"] \in View
        /\ [[view[j] EXCEPT !.at = "leasing"] EXCEPT !.shown = "running"].at = "leasing"
    <3>1. view[j] \in View
      BY DispatchTypes
    <3>2. QED
      BY <3>1 DEF View
  <2>3. QED
    BY <2>1, <2>2, DispatchTypes
<1>3. DispatchTypeOK'
  BY <1>1, <1>2, DispatchTypes DEF DispatchTypeOK
<1>4. AttemptsOK'
  BY <1>1, <1>2, DispatchTypes, AttemptsKept
<1>5. SupervisorOK'
  <2>1. OnGpu' \subseteq {j}
    BY <1>1, <1>2 DEF OnGpu
  <2>2. \A p \in programs : p.orphan
    BY <1>1, DispatchTypes DEF DispatchInv, SupervisorOK, OnGpu, Program
  <2>3. QED
    BY <1>1, <2>1, <2>2 DEF SupervisorOK
<1>6. ShownOK' /\ LatestOK' /\ ProgramsAreLeased'
  <2>1. \A k \in Jobs : Telling(k)' => view'[k] = view[k]
    BY <1>2 DEF Telling
  <2>2. QED
    BY <1>1, <1>2, <2>1, DispatchTypes, ShownKept, LatestKept, LeasesKept
<1>7. RowsFirst'
  BY <1>1, <1>2 DEF DispatchInv, RowsFirst, Reporting
<1>8. FaultlessOK'
  BY <1>1, <1>2, FaultlessKept
<1>9. QED
  BY <1>3, <1>4, <1>5, <1>6, <1>7, <1>8 DEF DispatchInv

(* The task of a job in the queue or before its lease ends without one. *)
LEMMA EndsUnleased ==
  ASSUME DispatchInv, NEW j \in Jobs, view[j].at \in {"queued", "leasing"},
         NEW shown \in {"failed", "cancelled"}, view' = Over(j, shown),
         UNCHANGED <<posts, programs, reports>>,
         wire' \subseteq Jobs, clearing' \subseteq Jobs, faults' \in 0 .. MaxFaults,
         faults' # 0 \/ faults' = faults, granted' \in 0 .. MaxAttempts, granted' >= granted,
         rows' = rows \/ (MayLease(j) /\ rows' = Leased(j)),
         FaultlessOK'
  PROVE  DispatchInv'
<1>1. /\ view' \in [Jobs -> View] /\ view'[j].at = "over" /\ view'[j].shown = shown
      /\ \A k \in Jobs \ {j} : view'[k] = view[k]
  BY ViewFacts DEF Decided, Outcomes
<1>2. /\ rows' \in [Jobs -> Row] /\ \A k \in Jobs \ {j} : rows'[k] = rows[k]
      /\ \/ rows'[j] = rows[j]
         \/ /\ rows[j].status = "pending"
            /\ rows'[j].status = "leased" /\ rows'[j].holder = granted + 1
  BY LeasedFacts, DispatchTypes
<1>3. DispatchTypeOK'
  BY <1>1, <1>2, DispatchTypes DEF DispatchTypeOK
<1>4. AttemptsOK'
  BY <1>1, DispatchTypes, AttemptsKept
<1>5. \A p \in programs : p.job \in Jobs /\ (~p.orphan => view[p.job].at = "running")
  BY DispatchTypes DEF DispatchInv, SupervisorOK, Program
<1>6. SupervisorOK'
  BY <1>1, <1>5, SupervisorKept
<1>7. ShownOK' /\ LatestOK' /\ ProgramsAreLeased'
  <2>1. \A k \in Jobs : Telling(k)' => view'[k] = view[k]
    BY <1>1 DEF Telling
  <2>2. \A k \in Jobs : rows[k].status \in {"leased"} \cup Decided => rows'[k] = rows[k]
    BY <1>2 DEF Decided, Outcomes
  <2>3. ShownOK'
    BY <1>1, <2>2, ShownKept
  <2>4. LatestOK'
    BY <1>2, <2>1, DispatchTypes, LatestKept
  <2>5. ProgramsAreLeased'
    BY <1>5, <2>2, LeasesKept
  <2>6. QED
    BY <2>3, <2>4, <2>5
<1>8. RowsFirst'
  BY <1>1, <1>2 DEF DispatchInv, RowsFirst, Reporting
<1>9. QED
  BY <1>3, <1>4, <1>6, <1>7, <1>8 DEF DispatchInv

LEMMA LeaseFailsStep ==
  ASSUME DispatchInv, NEW j \in Jobs, LeaseFails(j)
  PROVE  DispatchInv'
<1>1. /\ view[j].at \in {"queued", "leasing"} /\ view' = Over(j, "failed")
      /\ UNCHANGED <<posts, programs, reports, wire, clearing>>
      /\ faults' \in 0 .. MaxFaults /\ faults' # 0
      /\ rows' = rows \/ (MayLease(j) /\ rows' = Leased(j))
  BY DispatchTypes DEF LeaseFails, Fault
<1>2. granted' \in 0 .. MaxAttempts /\ granted' >= granted
  BY DispatchTypes DEF LeaseFails, MayLease
<1>3. FaultlessOK'
  BY <1>1 DEF FaultlessOK
<1>4. QED
  BY <1>1, <1>2, <1>3, DispatchTypes, EndsUnleased

LEMMA LeaseRefusedStep ==
  ASSUME DispatchInv, NEW j \in Jobs, LeaseRefused(j)
  PROVE  DispatchInv'
<1>1. /\ view[j].at = "leasing" /\ rows[j].status # "pending" /\ view' = Over(j, "failed")
      /\ UNCHANGED <<rows, granted, posts, programs, reports, wire, clearing, faults>>
  BY DEF LeaseRefused
<1>2. /\ view'[j].at = "over" /\ \A k \in Jobs \ {j} : view'[k] = view[k]
  BY <1>1, ViewFacts DEF Decided, Outcomes
<1>3. faults = 0 /\ Open(j) => Reporting(j)
  BY <1>1 DEF DispatchInv, FaultlessOK, Open
<1>4. FaultlessOK'
  <2>1. CASE faults = 0
    BY <1>1, <1>2, <1>3, <2>1, FaultlessKept
  <2>2. CASE faults # 0
    BY <1>1, <2>2 DEF FaultlessOK
  <2>3. QED
    BY <2>1, <2>2
<1>5. QED
  BY <1>1, <1>4, DispatchTypes, EndsUnleased

LEMMA CancelWaitingStep ==
  ASSUME DispatchInv, NEW j \in Jobs, CancelWaiting(j)
  PROVE  DispatchInv'
<1>1. /\ view[j].at \in {"queued", "leasing"} /\ view' = Over(j, "cancelled")
      /\ clearing' = clearing \cup {j}
      /\ UNCHANGED <<rows, granted, posts, programs, reports>>
      /\ wire' \subseteq Jobs /\ faults' \in 0 .. MaxFaults
      /\ faults' # 0 \/ (wire' = wire /\ faults' = faults)
  BY DispatchTypes DEF CancelWaiting, Fault
<1>2. /\ view'[j].at = "over" /\ \A k \in Jobs \ {j} : view'[k] = view[k]
  BY <1>1, ViewFacts DEF Decided, Outcomes
<1>3. FaultlessOK'
  <2>1. CASE wire' = wire /\ faults' = faults
    BY <1>1, <1>2, <2>1, FaultlessKept
  <2>2. CASE faults' # 0
    BY <2>2 DEF FaultlessOK
  <2>3. QED
    BY <1>1, <2>1, <2>2
<1>4. QED
  BY <1>1, <1>3, DispatchTypes, EndsUnleased

LEMMA StartStep ==
  ASSUME DispatchInv, NEW j \in Jobs, Start(j)
  PROVE  DispatchInv'
<1> DEFINE new == [job |-> j, attempt |-> granted + 1, orphan |-> FALSE, lapsed |-> FALSE]
<1>1. /\ view[j].at = "leasing" /\ MayLease(j) /\ rows' = Leased(j) /\ granted' = granted + 1
      /\ view' = [view EXCEPT ![j].at = "running", ![j].attempt = granted + 1]
      /\ programs' = programs \cup {new}
      /\ UNCHANGED <<posts, reports, wire, clearing, faults>>
  BY DEF Start
<1>2. /\ rows' \in [Jobs -> Row] /\ rows'[j] = [status |-> "leased", holder |-> granted + 1]
      /\ \A k \in Jobs \ {j} : rows'[k] = rows[k]
      /\ rows[j].status = "pending" /\ granted + 1 \in Attempts /\ granted \in Nat
      /\ granted' \in 0 .. MaxAttempts
  BY <1>1, LeasedFacts DEF Attempts
<1>3. /\ view' \in [Jobs -> View] /\ view'[j].at = "running" /\ view'[j].attempt = granted + 1
      /\ \A k \in Jobs \ {j} : view'[k] = view[k]
  <2> DEFINE entry == [[view[j] EXCEPT !.at = "running"] EXCEPT !.attempt = granted + 1]
  <2>1. view' = [view EXCEPT ![j] = entry]
    BY <1>1, DispatchTypes
  <2>2. entry \in View /\ entry.at = "running" /\ entry.attempt = granted + 1
    <3>1. view[j] \in View /\ granted + 1 \in 0 .. MaxAttempts
      BY <1>2, DispatchTypes DEF Attempts
    <3>2. QED
      BY <3>1 DEF View
  <2> HIDE DEF entry
  <2>3. QED
    BY <2>1, <2>2, DispatchTypes
<1>4. /\ new \in Program /\ new.job = j /\ new.attempt = granted + 1 /\ ~new.orphan /\ ~new.lapsed
  BY <1>2 DEF Program
<1> HIDE DEF new
<1>5. /\ \A p \in programs : p.attempt \in Nat /\ p.job \in Jobs /\ p.attempt <= granted
      /\ \A r \in reports : r.attempt \in Nat /\ r.job \in Jobs /\ r.attempt <= granted
      /\ \A k \in Jobs : view[k].at = "running" => view[k].attempt \in 1 .. granted
  BY DispatchTypes DEF Program, Callback, Attempts, DispatchInv, AttemptsOK
<1>6. \A p \in programs : p.orphan
  BY <1>1, <1>5 DEF DispatchInv, SupervisorOK, OnGpu
<1>7. DispatchTypeOK'
  BY <1>1, <1>2, <1>3, <1>4, DispatchTypes DEF DispatchTypeOK
<1>8. AttemptsOK'
  <2>1. \A p \in programs' : p = new \/ p \in programs
    BY <1>1
  <2>2. (\A p \in programs : p.attempt < granted + 1) /\ (\A r \in reports : r.attempt < granted + 1)
    BY <1>2, <1>5
  <2>3. (\A p \in programs' : p.attempt <= granted') /\ (\A r \in reports' : r.attempt <= granted')
    BY <1>1, <1>2, <1>4, <1>5, <2>1
  <2>4. \A p \in programs', r \in reports' : p.attempt = r.attempt =>
           p.orphan /\ p.job \in Generated /\ p.job = r.job
    BY <1>1, <1>2, <1>4, <1>5, <2>1, <2>2 DEF DispatchInv, AttemptsOK
  <2>5. \A r, s \in reports' : r.attempt = s.attempt => r = s
    BY <1>1 DEF DispatchInv, AttemptsOK
  <2>6. ASSUME NEW k \in Jobs, view'[k].at = "running"
        PROVE  /\ view'[k].attempt \in 1 .. granted'
               /\ \A r \in reports' : r.attempt # view'[k].attempt
               /\ \A p \in programs' : p.orphan => p.attempt # view'[k].attempt
    <3>1. CASE k = j
      BY <3>1, <1>1, <1>2, <1>3, <1>4, <1>5, <2>1, <2>2
    <3>2. CASE k # j
      BY <3>2, <1>1, <1>2, <1>3, <1>4, <1>5, <2>1, <2>6 DEF DispatchInv, AttemptsOK
    <3>3. QED
      BY <3>1, <3>2
  <2>7. QED
    BY <2>3, <2>4, <2>5, <2>6 DEF AttemptsOK
<1>9. SupervisorOK'
  <2>1. OnGpu' = OnGpu
    BY <1>1, <1>3 DEF OnGpu
  <2>2. QED
    BY <1>1, <1>3, <1>4, <1>6, <2>1 DEF DispatchInv, SupervisorOK
<1>10. ShownOK' /\ LatestOK'
  <2>1. ShownOK'
    BY <1>1, <1>2, <1>3, ShownKept DEF Decided, Outcomes
  <2>2. ASSUME NEW k \in Jobs, Telling(k)'
        PROVE  /\ view'[k].attempt <= granted'
               /\ \A r \in reports : r.job = k => r.attempt <= view'[k].attempt
               /\ rows'[k].status = "leased" => view'[k].attempt <= rows'[k].holder
               /\ rows'[k].status # "failed"
    <3>1. CASE k = j
      BY <3>1, <1>1, <1>2, <1>3, <1>5
    <3>2. CASE k # j
      <4>1. view'[k] = view[k] /\ Telling(k) /\ rows'[k] = rows[k]
        BY <3>2, <2>2, <1>2, <1>3 DEF Telling
      <4>2. view[k].attempt \in Nat
        BY DispatchTypes DEF View
      <4>3. view[k].attempt <= granted
        BY <4>1 DEF DispatchInv, LatestOK
      <4>4. view[k].attempt <= granted'
        BY <4>2, <4>3, <1>1, <1>2
      <4>5. QED
        BY <4>1, <4>4 DEF DispatchInv, LatestOK
    <3>3. QED
      BY <3>1, <3>2
  <2>3. QED
    BY <1>1, <2>1, <2>2 DEF LatestOK
<1>11. ProgramsAreLeased'
  <2>1. ASSUME NEW p \in programs, p.job = j PROVE p.lapsed
    BY <2>1, <1>2 DEF DispatchInv, ProgramsAreLeased, Decided, Outcomes
  <2>2. ASSUME NEW p \in programs, p.job # j, ~p.lapsed
        PROVE  \/ rows'[p.job].status = "leased" /\ rows'[p.job].holder = p.attempt
               \/ /\ p.orphan /\ p.job \in Generated
                  /\ rows'[p.job].status \in Decided /\ rows'[p.job].holder = p.attempt
    BY <2>2, <1>2, <1>5 DEF DispatchInv, ProgramsAreLeased
  <2>3. rows'[new.job].status = "leased" /\ rows'[new.job].holder = new.attempt
    BY <1>2, <1>4
  <2>4. QED
    BY <1>1, <2>1, <2>2, <2>3 DEF ProgramsAreLeased
<1>12. RowsFirst'
  BY <1>1, <1>2, <1>3 DEF DispatchInv, RowsFirst, Reporting
<1>13. FaultlessOK'
  <2> SUFFICES ASSUME faults = 0 PROVE FaultlessOK'
    BY <1>1 DEF FaultlessOK
  <2>1. \A k \in Jobs : Reporting(k)' <=> Reporting(k)
    BY <1>1 DEF Reporting
  <2>2. ASSUME NEW r \in reports PROVE Holds(r)'
    <3>1. rows[r.job] = [status |-> "leased", holder |-> r.attempt]
      BY DEF DispatchInv, FaultlessOK, Holds
    <3>2. r.job \in Jobs \ {j}
      BY <3>1, <1>2, <1>5
    <3>3. rows'[r.job] = rows[r.job]
      BY <3>2, <1>2
    <3>4. QED
      BY <3>1, <3>3 DEF Holds
  <2>3. ASSUME NEW k \in Jobs
        PROVE  /\ view'[k].at = "running"
                    => rows'[k] = [status |-> "leased", holder |-> view'[k].attempt]
               /\ rows'[k].status = "leased" => view'[k].at = "running" \/ Reporting(k)
               /\ /\ view'[k].at = "over" \/ (view'[k].at = "unknown" /\ posts[k] = "accepted")
                  /\ Open(k)'
                  => k \in clearing \/ Reporting(k)
    <3>1. CASE k = j
      BY <3>1, <1>2, <1>3
    <3>2. CASE k # j
      BY <3>2, <1>2, <1>3 DEF DispatchInv, FaultlessOK, Open
    <3>3. QED
      BY <3>1, <3>2
  <2>4. QED
    BY <1>1, <2>1, <2>2, <2>3 DEF DispatchInv, FaultlessOK
<1>14. QED
  BY <1>7, <1>8, <1>9, <1>10, <1>11, <1>12, <1>13 DEF DispatchInv

LEMMA EndStep ==
  ASSUME DispatchInv, NEW j \in Jobs, NEW outcome \in Decided, End(j, outcome)
  PROVE  DispatchInv'
<1> DEFINE left(p) == [p EXCEPT !.orphan = TRUE]
<1> DEFINE new == [job |-> j, attempt |-> view[j].attempt, status |-> outcome]
<1>1. /\ view[j].at = "running" /\ Abandons(j, outcome)
      /\ view' = Over(j, outcome) /\ reports' = reports \cup {new}
      /\ UNCHANGED <<rows, granted, posts, wire, clearing>>
      /\ faults' \in 0 .. MaxFaults /\ (faults' # 0 \/ faults' = faults)
  BY DispatchTypes DEF End, Abandons, Fault
<1>2. /\ view' \in [Jobs -> View] /\ view'[j].at = "over" /\ view'[j].shown = outcome
      /\ view'[j].attempt = view[j].attempt
      /\ \A k \in Jobs \ {j} : view'[k] = view[k]
  BY <1>1, ViewFacts
<1>3. /\ \A p \in programs : p.attempt \in Nat /\ p.job \in Jobs
      /\ \A r \in reports : r.attempt \in Nat /\ r.job \in Jobs
      /\ granted \in Nat /\ granted <= MaxAttempts
  BY DispatchTypes DEF Program, Callback, Attempts
<1>4. /\ view[j].attempt \in 1 .. granted
      /\ \A r \in reports : r.attempt # view[j].attempt
      /\ \A p \in programs : p.orphan => p.attempt # view[j].attempt
  BY <1>1 DEF DispatchInv, AttemptsOK
<1>5. /\ new \in Callback /\ new.job = j /\ new.attempt = view[j].attempt /\ new.status = outcome
  BY <1>3, <1>4 DEF Callback, Attempts
<1>6. new = [job |-> j, attempt |-> view[j].attempt, status |-> outcome]
  OBVIOUS
<1> HIDE DEF new
<1>7. \A k \in Jobs : view[k].at = "running" => k = j
  BY <1>1 DEF DispatchInv, SupervisorOK, OnGpu
<1>8. \A p \in programs' :
         \E q \in programs : /\ p.job = q.job /\ p.attempt = q.attempt /\ p.lapsed = q.lapsed
                             /\ p.orphan = TRUE /\ p \in Program
                             /\ q.orphan \/ (q.job = j /\ j \in Generated)
  <2>1. ASSUME NEW q \in programs
        PROVE  /\ left(q) \in Program /\ left(q).job = q.job /\ left(q).attempt = q.attempt
               /\ left(q).orphan = TRUE /\ left(q).lapsed = q.lapsed
    BY DispatchTypes DEF Program
  <2>2. \A p \in programs' : \/ p \in programs \ ProgramsOf(j)
                             \/ j \in Generated /\ \E q \in ProgramsOf(j) : p = left(q)
    BY <1>1 DEF Abandons, Stopped, LeftBehind
  <2> HIDE DEF left
  <2>3. ASSUME NEW p \in programs \ ProgramsOf(j) PROVE p.orphan = TRUE /\ p \in Program
    <3>1. p \in Program
      BY DispatchTypes
    <3>2. p.orphan
      BY <1>3, <1>7 DEF DispatchInv, SupervisorOK, ProgramsOf
    <3>3. QED
      BY <3>1, <3>2 DEF Program
  <2>4. \A q \in ProgramsOf(j) : q \in programs /\ q.job = j
    BY DEF ProgramsOf
  <2>5. QED
    BY <2>1, <2>2, <2>3, <2>4, ZenonT(60)
<1>9. DispatchTypeOK'
  BY <1>1, <1>2, <1>5, <1>8, DispatchTypes DEF DispatchTypeOK
<1>10. AttemptsOK'
  <2>1. \A k \in Jobs : view'[k].at # "running"
    BY <1>2, <1>7
  <2>2. \A r \in reports' : r = new \/ r \in reports
    BY <1>1
  <2>3. (\A p \in programs' : p.attempt <= granted') /\ (\A r \in reports' : r.attempt <= granted')
    BY <1>1, <1>3, <1>4, <1>5, <1>8, <2>2 DEF DispatchInv, AttemptsOK
  <2>4. ASSUME NEW p \in programs', NEW r \in reports', p.attempt = r.attempt
        PROVE  p.orphan /\ p.job \in Generated /\ p.job = r.job
    <3>1. PICK q \in programs : /\ p.job = q.job /\ p.attempt = q.attempt /\ p.orphan = TRUE
                                /\ q.orphan \/ (q.job = j /\ j \in Generated)
      BY <1>8
    <3>2. CASE r = new
      <4>1. ~q.orphan
        BY <3>1, <3>2, <2>4, <1>4, <1>5
      <4>2. QED
        BY <4>1, <3>1, <3>2, <1>5
    <3>3. CASE r \in reports
      BY <3>1, <3>3, <2>4 DEF DispatchInv, AttemptsOK
    <3>4. QED
      BY <2>2, <3>2, <3>3
  <2>5. \A r, s \in reports' : r.attempt = s.attempt => r = s
    BY <1>4, <1>5, <2>2 DEF DispatchInv, AttemptsOK
  <2>6. QED
    BY <2>1, <2>3, <2>4, <2>5 DEF AttemptsOK
<1>11. SupervisorOK'
  <2>1. OnGpu' \subseteq OnGpu
    BY <1>2 DEF OnGpu
  <2>2. QED
    BY <1>8, <2>1 DEF DispatchInv, SupervisorOK
<1>12. ShownOK'
  <2> SUFFICES ASSUME NEW k \in Jobs, view'[k].at = "over", view'[k].shown = "succeeded"
               PROVE  \/ rows'[k].status = "succeeded"
                      \/ [job |-> k, attempt |-> view'[k].attempt, status |-> "succeeded"]
                            \in reports'
                      \/ rows'[k].status = "cancelled" /\ faults' # 0
    BY DEF ShownOK
  <2>1. CASE k = j
    BY <2>1, <1>1, <1>2, <1>6
  <2>2. CASE k # j
    BY <2>2, <1>1, <1>2 DEF DispatchInv, ShownOK
  <2>3. QED
    BY <2>1, <2>2
<1>13. LatestOK' /\ ProgramsAreLeased'
  <2>1. ASSUME NEW k \in Jobs, Telling(k)'
        PROVE  /\ view'[k].attempt <= granted
               /\ \A r \in reports' : r.job = k => r.attempt <= view'[k].attempt
               /\ rows[k].status = "leased" => view'[k].attempt <= rows[k].holder
               /\ rows[k].status # "failed"
    <3>1. view'[k].attempt = view[k].attempt /\ Telling(k)
      <4>1. CASE k = j
        BY <4>1, <1>1, <1>2 DEF Telling
      <4>2. CASE k # j
        BY <4>2, <2>1, <1>2 DEF Telling
      <4>3. QED
        BY <4>1, <4>2
    <3>2. /\ view[k].attempt <= granted
          /\ \A r \in reports : r.job = k => r.attempt <= view[k].attempt
          /\ rows[k].status = "leased" => view[k].attempt <= rows[k].holder
          /\ rows[k].status # "failed"
      BY <3>1 DEF DispatchInv, LatestOK
    <3>3. new.job = k => new.attempt <= view[k].attempt
      BY <1>4, <1>5, <1>3
    <3>4. QED
      BY <1>1, <3>1, <3>2, <3>3
  <2>2. LatestOK'
    BY <1>1, <2>1 DEF LatestOK
  <2>3. ASSUME NEW p \in programs'
        PROVE  \/ rows[p.job].status = "leased" /\ rows[p.job].holder = p.attempt
               \/ p.lapsed
               \/ /\ p.orphan /\ p.job \in Generated
                  /\ rows[p.job].status \in Decided /\ rows[p.job].holder = p.attempt
    <3>1. PICK q \in programs : /\ p.job = q.job /\ p.attempt = q.attempt
                                /\ p.lapsed = q.lapsed /\ p.orphan = TRUE
      BY <1>8
    <3>2. QED
      BY <3>1 DEF DispatchInv, ProgramsAreLeased
  <2>4. QED
    BY <1>1, <2>2, <2>3 DEF ProgramsAreLeased
<1>14. RowsFirst'
  <2>1. rows[j].status # "absent"
    BY <1>1 DEF DispatchInv, RowsFirst
  <2>2. \A k \in Jobs \ {j} : Reporting(k)' <=> Reporting(k)
    BY <1>1, <1>5 DEF Reporting
  <2>3. QED
    BY <1>1, <1>2, <2>1, <2>2 DEF DispatchInv, RowsFirst
<1>15. FaultlessOK'
  <2> SUFFICES ASSUME faults = 0, faults' = 0 PROVE FaultlessOK'
    BY <1>1 DEF FaultlessOK
  <2>1. /\ \A k \in Jobs : Reporting(k) => Reporting(k)'
        /\ Reporting(j)'
    BY <1>1, <1>5 DEF Reporting
  <2>2. \A r \in reports' : Holds(r)'
    BY <1>1, <1>5 DEF DispatchInv, FaultlessOK, Holds
  <2>3. ASSUME NEW k \in Jobs
        PROVE  /\ view'[k].at = "running"
                    => rows[k] = [status |-> "leased", holder |-> view'[k].attempt]
               /\ rows[k].status = "leased" => view'[k].at = "running" \/ Reporting(k)'
               /\ /\ view'[k].at = "over" \/ (view'[k].at = "unknown" /\ posts[k] = "accepted")
                  /\ Open(k)
                  => k \in clearing \/ Reporting(k)'
    <3>1. CASE k = j
      BY <3>1, <1>2, <2>1
    <3>2. CASE k # j
      BY <3>2, <1>2, <2>1 DEF DispatchInv, FaultlessOK
    <3>3. QED
      BY <3>1, <3>2
  <2>4. \A k \in Jobs : Open(k)' <=> Open(k)
    BY <1>1 DEF Open
  <2>5. QED
    BY <1>1, <2>2, <2>3, <2>4 DEF DispatchInv, FaultlessOK
<1>16. QED
  BY <1>9, <1>10, <1>11, <1>12, <1>13, <1>14, <1>15 DEF DispatchInv

(* Control's answer to a verdict. *)
LEMMA CompletedFacts ==
  ASSUME DispatchInv, NEW r \in reports
  PROVE  /\ r.job \in Jobs /\ r.status \in Decided
         /\ Completed(r) \in [Jobs -> Row]
         /\ \A k \in Jobs \ {r.job} : Completed(r)[k] = rows[k]
         /\ ~Holds(r) => Completed(r) = rows
         /\ Holds(r) => /\ rows[r.job].status = "leased" /\ rows[r.job].holder = r.attempt
                        /\ Completed(r)[r.job].status = r.status
                        /\ Completed(r)[r.job].holder = r.attempt
<1>1. r \in Callback /\ r.job \in Jobs /\ r.status \in Decided
  BY DispatchTypes DEF Callback
<1>2. rows \in [Jobs -> Row] /\ rows[r.job] \in Row
  BY <1>1, DispatchTypes
<1>3. [rows[r.job] EXCEPT !.status = r.status] \in Row
      /\ [rows[r.job] EXCEPT !.status = r.status].status = r.status
      /\ [rows[r.job] EXCEPT !.status = r.status].holder = rows[r.job].holder
  BY <1>1, <1>2 DEF Row
<1>4. CASE Holds(r)
  <2>1. Completed(r) = [rows EXCEPT ![r.job] = [rows[r.job] EXCEPT !.status = r.status]]
    BY <1>4 DEF Completed
  <2>2. rows[r.job].status = "leased" /\ rows[r.job].holder = r.attempt
    BY <1>4 DEF Holds
  <2>3. QED
    BY <1>1, <1>2, <1>3, <1>4, <2>1, <2>2
<1>5. CASE ~Holds(r)
  BY <1>1, <1>2, <1>5 DEF Completed
<1>6. QED
  BY <1>4, <1>5

LEMMA CallbackFacts ==
  ASSUME DispatchInv, NEW r \in reports
  PROVE  /\ CallbackFailed(r) \in [Jobs -> View]
         /\ \A k \in Jobs :
              \/ CallbackFailed(r)[k] = view[k]
              \/ /\ k = r.job /\ view[k].at # "running" /\ view[k].attempt = r.attempt
                 /\ CallbackFailed(r)[k].at = "over" /\ CallbackFailed(r)[k].shown = "failed"
         /\ r.status # "cancelled" => \A k \in Jobs :
              view[k].attempt = r.attempt /\ k = r.job => CallbackFailed(r)[k].shown = "failed"
<1>1. r.job \in Jobs
  BY CompletedFacts
<1>2. CASE view[r.job].attempt = r.attempt /\ r.status # "cancelled"
  <2>1. CallbackFailed(r) = Over(r.job, "failed")
    BY <1>2 DEF CallbackFailed
  <2>2. view[r.job].at # "running"
    BY <1>1, <1>2 DEF DispatchInv, AttemptsOK
  <2>3. /\ Over(r.job, "failed") \in [Jobs -> View]
        /\ Over(r.job, "failed")[r.job].at = "over"
        /\ Over(r.job, "failed")[r.job].shown = "failed"
        /\ \A k \in Jobs \ {r.job} : Over(r.job, "failed")[k] = view[k]
    BY <1>1, ViewFacts DEF Decided, Outcomes
  <2>4. QED
    BY <1>1, <1>2, <2>1, <2>2, <2>3
<1>3. CASE ~(view[r.job].attempt = r.attempt /\ r.status # "cancelled")
  BY <1>1, <1>3, DispatchTypes DEF CallbackFailed
<1>4. QED
  BY <1>2, <1>3

LEMMA ReportStep ==
  ASSUME DispatchInv, NEW r \in reports, Report(r) \/ ReportFails(r)
  PROVE  DispatchInv'
<1>1. /\ reports' = reports \ {r} /\ rows' \in {rows, Completed(r)}
      /\ view' \in {view, CallbackFailed(r)}
      /\ UNCHANGED <<granted, posts, programs, wire, clearing>>
      /\ faults' \in 0 .. MaxFaults
  BY CompletedFacts, DispatchTypes DEF Report, ReportFails, Fault
<1>2. faults' # 0 \/ (faults' = faults /\ Report(r))
  BY DispatchTypes DEF ReportFails, Fault, Report
<1>3. r.job \in Jobs /\ r.status \in Decided /\ r \in Callback
  BY CompletedFacts, DispatchTypes
<1>4. /\ rows' \in [Jobs -> Row]
      /\ \A k \in Jobs \ {r.job} : rows'[k] = rows[k]
      /\ rows'[r.job] = rows[r.job]
         \/ /\ Holds(r) /\ rows[r.job].status = "leased" /\ rows[r.job].holder = r.attempt
            /\ rows'[r.job].status = r.status /\ rows'[r.job].holder = r.attempt
  BY <1>1, <1>3, CompletedFacts, DispatchTypes
<1>5. /\ view' \in [Jobs -> View]
      /\ \A k \in Jobs :
           \/ view'[k] = view[k]
           \/ /\ k = r.job /\ view[k].at # "running" /\ view[k].attempt = r.attempt
              /\ view'[k].at = "over" /\ view'[k].shown = "failed"
  BY <1>1, CallbackFacts, DispatchTypes
<1>6. \A k \in Jobs : Reporting(k)' => Reporting(k)
  BY <1>1 DEF Reporting
<1>7. DispatchTypeOK'
  BY <1>1, <1>4, <1>5, DispatchTypes DEF DispatchTypeOK
<1>8. AttemptsOK'
  BY <1>1, <1>5, DispatchTypes, AttemptsKept
<1>9. \A p \in programs : p.job \in Jobs /\ (~p.orphan => view[p.job].at = "running")
  BY DispatchTypes DEF DispatchInv, SupervisorOK, Program
<1>10. SupervisorOK'
  BY <1>1, <1>5, <1>9, SupervisorKept
<1>11. ShownOK'
  <2> SUFFICES ASSUME NEW k \in Jobs, view'[k].at = "over", view'[k].shown = "succeeded",
                      rows'[k].status # "succeeded",
                      ~(rows'[k].status = "cancelled" /\ faults' # 0)
               PROVE  [job |-> k, attempt |-> view'[k].attempt, status |-> "succeeded"] \in reports'
    BY DEF ShownOK
  <2> DEFINE c == [job |-> k, attempt |-> view[k].attempt, status |-> "succeeded"]
  <2>1. view'[k] = view[k] /\ Telling(k)
    BY <1>5 DEF Telling
  <2>2. rows[k].status \in Decided => rows'[k] = rows[k]
    BY <1>3, <1>4 DEF Decided, Outcomes
  <2>3. c \in reports
    BY <1>2, <2>1, <2>2 DEF DispatchInv, ShownOK, Decided, Outcomes
  <2>4. ASSUME c = r PROVE FALSE
    <3>1. r.job = k /\ r.status = "succeeded" /\ r.attempt = view[k].attempt
      BY <2>4
    <3>2. CallbackFailed(r)[k].shown = "failed"
      BY <3>1, CallbackFacts
    <3>3. Report(r) /\ Answerable(r)
      BY <3>2 DEF Report, ReportFails
    <3>4. ~Holds(r)
      BY <3>1, <3>3, CompletedFacts DEF Report
    <3>5. faults # 0 /\ faults' = faults
      BY <3>3, <3>4 DEF DispatchInv, FaultlessOK, Report
    <3>6. rows[k].status \in {"succeeded", "cancelled"}
      <4>1. rows[k].status \in Decided
        BY <3>1, <3>3, <3>4 DEF Answerable
      <4>2. rows[k].status # "failed"
        BY <2>1 DEF DispatchInv, LatestOK
      <4>3. QED
        BY <4>1, <4>2 DEF Decided, Outcomes
    <3>7. QED
      BY <2>2, <3>5, <3>6 DEF Decided, Outcomes
  <2>5. QED
    BY <1>1, <2>1, <2>3, <2>4
<1>12. LatestOK' /\ ProgramsAreLeased'
  <2>1. ASSUME NEW k \in Jobs, Telling(k)'
        PROVE  /\ view'[k].attempt <= granted
               /\ \A q \in reports' : q.job = k => q.attempt <= view'[k].attempt
               /\ rows'[k].status = "leased" => view'[k].attempt <= rows'[k].holder
               /\ rows'[k].status # "failed"
    <3>1. view'[k] = view[k] /\ Telling(k)
      BY <1>5, <2>1 DEF Telling
    <3>2. /\ view[k].attempt <= granted
          /\ \A q \in reports : q.job = k => q.attempt <= view[k].attempt
          /\ rows[k].status = "leased" => view[k].attempt <= rows[k].holder
          /\ rows[k].status # "failed"
      BY <3>1 DEF DispatchInv, LatestOK
    <3>3. rows'[k].status = "leased" => rows'[k] = rows[k]
      BY <1>3, <1>4 DEF Decided, Outcomes
    <3>4. ASSUME rows'[k].status = "failed" PROVE FALSE
      <4>1. k = r.job /\ rows[k].status = "leased" /\ rows[k].holder = r.attempt /\ r.status = "failed"
        BY <1>4, <3>2, <3>4
      <4>2. view[k].attempt \in Nat /\ r.attempt \in Nat
        BY <1>3, DispatchTypes DEF View, Callback, Attempts
      <4>3. view[k].attempt <= r.attempt /\ r.attempt <= view[k].attempt
        BY <4>1, <3>2
      <4>4. view[k].attempt = r.attempt
        BY <4>2, <4>3
      <4>5. view[k].at = "over" /\ view[k].shown = "succeeded"
        BY <3>1, <4>4 DEF Telling, DispatchInv, AttemptsOK
      <4> DEFINE c == [job |-> k, attempt |-> view[k].attempt, status |-> "succeeded"]
      <4>6. c \in reports
        BY <4>1, <4>5 DEF DispatchInv, ShownOK
      <4>7. c.attempt = r.attempt /\ c.status # r.status
        BY <4>1, <4>4
      <4> HIDE DEF c
      <4>8. QED
        BY <4>6, <4>7 DEF DispatchInv, AttemptsOK
    <3>5. QED
      BY <1>1, <3>1, <3>2, <3>3, <3>4
  <2>2. LatestOK'
    BY <1>1, <2>1 DEF LatestOK
  <2>3. ASSUME NEW p \in programs, ~p.lapsed
        PROVE  \/ rows'[p.job].status = "leased" /\ rows'[p.job].holder = p.attempt
               \/ /\ p.orphan /\ p.job \in Generated
                  /\ rows'[p.job].status \in Decided /\ rows'[p.job].holder = p.attempt
    <3>1. CASE rows'[p.job] = rows[p.job]
      BY <2>3, <3>1 DEF DispatchInv, ProgramsAreLeased
    <3>2. CASE rows'[p.job] # rows[p.job]
      <4>1. /\ p.job = r.job /\ rows[p.job].status = "leased" /\ rows[p.job].holder = r.attempt
            /\ rows'[p.job].status = r.status /\ rows'[p.job].holder = r.attempt
        BY <1>4, <1>9, <3>2
      <4>2. p.attempt = r.attempt
        BY <2>3, <4>1 DEF DispatchInv, ProgramsAreLeased, Decided, Outcomes
      <4>3. p.orphan /\ p.job \in Generated
        BY <4>2 DEF DispatchInv, AttemptsOK
      <4>4. QED
        BY <1>3, <4>1, <4>2, <4>3
    <3>3. QED
      BY <3>1, <3>2
  <2>4. QED
    BY <1>1, <2>3, <2>2 DEF ProgramsAreLeased
<1>13. RowsFirst'
  <2> SUFFICES ASSUME NEW k \in Jobs, rows'[k].status = "absent"
               PROVE  posts'[k] \in {"idle", "failed"} /\ view'[k].at = "unknown" /\ ~Reporting(k)'
    BY DEF RowsFirst
  <2>1. rows[k].status = "absent"
    BY <1>3, <1>4 DEF Decided, Outcomes
  <2>2. posts[k] \in {"idle", "failed"} /\ view[k].at = "unknown" /\ ~Reporting(k)
    BY <2>1 DEF DispatchInv, RowsFirst
  <2>3. k # r.job
    BY <2>2 DEF Reporting
  <2>4. QED
    BY <1>1, <1>5, <1>6, <2>2, <2>3
<1>14. FaultlessOK'
  <2>2. CASE faults' = faults /\ Report(r) /\ faults = 0
    <3>1. Holds(r) /\ rows' = Completed(r) /\ view' = view
      BY <2>2 DEF DispatchInv, FaultlessOK, Report, Answerable
    <3>2. /\ rows[r.job] = [status |-> "leased", holder |-> r.attempt]
          /\ rows'[r.job].status = r.status
      BY <3>1, CompletedFacts DEF Holds
    <3>3. ASSUME NEW s \in reports'
          PROVE  Holds(s)' /\ s.job # r.job
      <4>1. s \in reports /\ s # r /\ s.attempt # r.attempt /\ s.job \in Jobs
        BY <1>1, DispatchTypes DEF DispatchInv, AttemptsOK, Callback
      <4>2. rows[s.job] = [status |-> "leased", holder |-> s.attempt]
        BY <4>1, <2>2 DEF DispatchInv, FaultlessOK, Holds
      <4>3. s.job # r.job
        BY <4>1, <4>2, <3>2
      <4>4. QED
        BY <4>1, <4>2, <4>3, <1>4 DEF Holds
    <3>4. \A k \in Jobs \ {r.job} : Reporting(k)' <=> Reporting(k)
      BY <1>1 DEF Reporting
    <3>5. view[r.job].at # "running"
      <4>1. view[r.job].at = "running" => r.attempt # view[r.job].attempt
        BY <1>3 DEF DispatchInv, AttemptsOK
      <4>2. view[r.job].at = "running"
              => rows[r.job] = [status |-> "leased", holder |-> view[r.job].attempt]
        BY <1>3, <2>2 DEF DispatchInv, FaultlessOK
      <4>3. QED
        BY <4>1, <4>2, <3>2
    <3>6. ASSUME NEW k \in Jobs
          PROVE  /\ view[k].at = "running"
                      => rows'[k] = [status |-> "leased", holder |-> view[k].attempt]
                 /\ rows'[k].status = "leased" => view[k].at = "running" \/ Reporting(k)'
                 /\ /\ view[k].at = "over" \/ (view[k].at = "unknown" /\ posts[k] = "accepted")
                    /\ Open(k)'
                    => k \in clearing \/ Reporting(k)'
      <4>1. CASE k = r.job
        BY <4>1, <1>3, <3>2, <3>5 DEF Open, Decided, Outcomes
      <4>2. CASE k # r.job
        BY <4>2, <1>4, <2>2, <3>4 DEF DispatchInv, FaultlessOK, Open
      <4>3. QED
        BY <4>1, <4>2
    <3>7. QED
      BY <1>1, <2>2, <3>1, <3>3, <3>6 DEF DispatchInv, FaultlessOK
  <2>3. CASE faults' # 0
    BY <2>3 DEF FaultlessOK
  <2>4. QED
    BY <1>2, <2>2, <2>3
<1>15. QED
  BY <1>7, <1>8, <1>10, <1>11, <1>12, <1>13, <1>14 DEF DispatchInv

LEMMA ExpireStep ==
  ASSUME DispatchInv, NEW j \in Jobs, Expire(j)
  PROVE  DispatchInv'
<1> DEFINE lapse(p) == [p EXCEPT !.lapsed = p.lapsed \/ p.attempt = rows[j].holder]
<1>1. /\ rows[j].status = "leased"
      /\ rows' = [rows EXCEPT ![j] = [status |-> "pending", holder |-> 0]]
      /\ programs' = {lapse(p) : p \in programs}
      /\ UNCHANGED <<granted, posts, view, reports, wire, clearing>>
      /\ faults' \in 0 .. MaxFaults /\ faults' # 0
  BY DispatchTypes DEF Expire, Fault
<1>2. ASSUME NEW p \in programs
      PROVE  /\ lapse(p) \in Program /\ lapse(p).job = p.job /\ lapse(p).attempt = p.attempt
             /\ lapse(p).orphan = p.orphan
             /\ ~lapse(p).lapsed => ~p.lapsed /\ p.attempt # rows[j].holder
             /\ p.job \in Jobs
  <2>1. p \in Program
    BY DispatchTypes
  <2>2. (p.lapsed \/ p.attempt = rows[j].holder) \in BOOLEAN
    OBVIOUS
  <2>3. QED
    BY <2>1, <2>2 DEF Program
<1> HIDE DEF lapse
<1>3. /\ rows' \in [Jobs -> Row] /\ rows'[j].status = "pending"
      /\ \A k \in Jobs \ {j} : rows'[k] = rows[k]
  <2>1. [status |-> "pending", holder |-> 0] \in Row
    BY DispatchTypes DEF Row
  <2>2. QED
    BY <1>1, <2>1, DispatchTypes
<1>4. DispatchTypeOK'
  BY <1>1, <1>2, <1>3, DispatchTypes DEF DispatchTypeOK
<1>5. AttemptsOK' /\ SupervisorOK'
  <2>1. /\ OnGpu' = OnGpu
        /\ \A p \in programs : p.job \in Jobs
    BY <1>1, <1>2 DEF OnGpu
  <2>2. AttemptsOK'
    BY <1>1, <1>2 DEF DispatchInv, AttemptsOK
  <2>3. SupervisorOK'
    BY <1>1, <1>2, <2>1 DEF DispatchInv, SupervisorOK
  <2>4. QED
    BY <2>2, <2>3
<1>6. ShownOK' /\ LatestOK'
  <2>1. ShownOK'
    BY <1>1, <1>3, ShownKept DEF Decided, Outcomes
  <2>2. LatestOK'
    BY <1>1, <1>3, DispatchTypes, LatestKept
  <2>3. QED
    BY <2>1, <2>2
<1>7. ProgramsAreLeased'
  <2> SUFFICES ASSUME NEW p \in programs', ~p.lapsed
               PROVE  \/ rows'[p.job].status = "leased" /\ rows'[p.job].holder = p.attempt
                      \/ /\ p.orphan /\ p.job \in Generated
                         /\ rows'[p.job].status \in Decided /\ rows'[p.job].holder = p.attempt
    BY DEF ProgramsAreLeased
  <2>1. PICK q \in programs : p = lapse(q)
    BY <1>1
  <2>2. /\ ~q.lapsed /\ q.attempt # rows[j].holder
        /\ p.job = q.job /\ p.attempt = q.attempt /\ p.orphan = q.orphan
    BY <1>2, <2>1
  <2>3. \/ rows[q.job].status = "leased" /\ rows[q.job].holder = q.attempt
        \/ /\ q.orphan /\ q.job \in Generated
           /\ rows[q.job].status \in Decided /\ rows[q.job].holder = q.attempt
    BY <2>2 DEF DispatchInv, ProgramsAreLeased
  <2>4. q.job \in Jobs \ {j}
    BY <1>2, <2>2, <2>3
  <2>5. rows'[q.job] = rows[q.job]
    BY <1>3, <2>4
  <2>6. QED
    BY <2>2, <2>3, <2>5
<1>8. RowsFirst'
  BY <1>1, <1>3 DEF DispatchInv, RowsFirst, Reporting
<1>9. FaultlessOK'
  BY <1>1 DEF FaultlessOK
<1>10. QED
  BY <1>4, <1>5, <1>6, <1>7, <1>8, <1>9 DEF DispatchInv

LEMMA LateLeaseStep ==
  ASSUME DispatchInv, NEW j \in Jobs, LateLease(j)
  PROVE  DispatchInv'
<1>1. /\ j \in wire /\ wire' = wire \ {j}
      /\ \/ MayLease(j) /\ rows' = Leased(j) /\ granted' = granted + 1
         \/ UNCHANGED <<rows, granted>>
      /\ UNCHANGED <<posts, view, programs, reports, clearing, faults>>
  BY DEF LateLease
<1>2. /\ rows' \in [Jobs -> Row] /\ \A k \in Jobs \ {j} : rows'[k] = rows[k]
      /\ \/ rows'[j] = rows[j]
         \/ /\ rows[j].status = "pending"
            /\ rows'[j].status = "leased" /\ rows'[j].holder = granted + 1
  BY <1>1, LeasedFacts, DispatchTypes
<1>3. granted' \in 0 .. MaxAttempts /\ granted' >= granted
  BY <1>1, LeasedFacts, DispatchTypes DEF Attempts
<1>4. DispatchTypeOK'
  BY <1>1, <1>2, <1>3, DispatchTypes DEF DispatchTypeOK
<1>5. \A p \in programs : p.job \in Jobs
  BY DispatchTypes DEF Program
<1>6. AttemptsOK' /\ SupervisorOK'
  BY <1>1, <1>3, DispatchTypes, AttemptsKept, SupervisorKept
<1>7. ShownOK' /\ LatestOK' /\ ProgramsAreLeased'
  <2>1. \A k \in Jobs : rows[k].status \in {"leased"} \cup Decided => rows'[k] = rows[k]
    BY <1>2 DEF Decided, Outcomes
  <2>2. ShownOK'
    BY <1>1, <2>1, ShownKept
  <2>3. LatestOK'
    BY <1>1, <1>2, <1>3, DispatchTypes, LatestKept
  <2>4. ProgramsAreLeased'
    BY <1>1, <1>5, <2>1, LeasesKept
  <2>5. QED
    BY <2>2, <2>3, <2>4
<1>8. RowsFirst'
  BY <1>1, <1>2 DEF DispatchInv, RowsFirst, Reporting
<1>9. FaultlessOK'
  <2>1. faults # 0
    BY <1>1 DEF DispatchInv, FaultlessOK
  <2>2. QED
    BY <1>1, <2>1 DEF FaultlessOK
<1>10. QED
  BY <1>4, <1>6, <1>7, <1>8, <1>9 DEF DispatchInv

LEMMA ClearStep ==
  ASSUME DispatchInv, NEW j \in Jobs, ClearRow(j) \/ ClearFails(j)
  PROVE  DispatchInv'
<1>1. /\ clearing' = clearing \ {j}
      /\ UNCHANGED <<granted, posts, view, programs, reports, wire>>
      /\ faults' \in 0 .. MaxFaults /\ (faults' # 0 \/ (faults' = faults /\ ClearRow(j)))
  BY DispatchTypes DEF ClearRow, ClearFails, Fault
<1>2. /\ rows' \in [Jobs -> Row] /\ \A k \in Jobs \ {j} : rows'[k] = rows[k]
      /\ \/ rows'[j] = rows[j] /\ (ClearRow(j) => rows[j].status # "pending")
         \/ rows[j].status = "pending" /\ rows'[j].status = "cancelled"
  <2>1. rows \in [Jobs -> Row] /\ rows[j] \in Row
    BY DispatchTypes
  <2>2. CASE ClearRow(j) /\ MayCancel(j)
    <3>1. rows' = [rows EXCEPT ![j] = [rows[j] EXCEPT !.status = "cancelled"]]
      BY <2>2 DEF ClearRow
    <3>2. /\ [rows[j] EXCEPT !.status = "cancelled"] \in Row
          /\ [rows[j] EXCEPT !.status = "cancelled"].status = "cancelled"
      BY <2>1 DEF Row, Decided
    <3>3. QED
      BY <2>1, <2>2, <3>1, <3>2 DEF MayCancel
  <2>3. CASE ClearRow(j) /\ ~MayCancel(j)
    BY <2>1, <2>3 DEF ClearRow, MayCancel
  <2>4. CASE ~ClearRow(j) /\ ClearFails(j)
    BY <2>1, <2>4 DEF ClearFails
  <2>5. QED
    BY <2>2, <2>3, <2>4
<1>3. DispatchTypeOK'
  BY <1>1, <1>2, DispatchTypes DEF DispatchTypeOK
<1>4. \A p \in programs : p.job \in Jobs
  BY DispatchTypes DEF Program
<1>5. AttemptsOK' /\ SupervisorOK'
  BY <1>1, DispatchTypes, AttemptsKept, SupervisorKept
<1>6. ShownOK' /\ LatestOK' /\ ProgramsAreLeased'
  <2>1. \A k \in Jobs : rows[k].status \in {"leased"} \cup Decided => rows'[k] = rows[k]
    BY <1>2 DEF Decided, Outcomes
  <2>2. ShownOK'
    BY <1>1, <2>1, ShownKept
  <2>3. LatestOK'
    BY <1>1, <1>2, DispatchTypes, LatestKept
  <2>4. ProgramsAreLeased'
    BY <1>1, <1>4, <2>1, LeasesKept
  <2>5. QED
    BY <2>2, <2>3, <2>4
<1>7. RowsFirst'
  BY <1>1, <1>2 DEF DispatchInv, RowsFirst, Reporting
<1>8. FaultlessOK'
  <2>1. CASE faults' # 0
    BY <2>1 DEF FaultlessOK
  <2>2. CASE faults' = faults /\ ClearRow(j) /\ faults = 0
    <3>1. \A k \in Jobs : Reporting(k)' <=> Reporting(k)
      BY <1>1 DEF Reporting
    <3>2. ASSUME NEW r \in reports PROVE Holds(r)'
      <4>1. rows[r.job] = [status |-> "leased", holder |-> r.attempt] /\ r.job \in Jobs
        BY <2>2, DispatchTypes DEF DispatchInv, FaultlessOK, Holds, Callback
      <4>2. rows'[r.job] = rows[r.job]
        BY <1>2, <4>1
      <4>3. QED
        BY <4>1, <4>2 DEF Holds
    <3>3. ASSUME NEW k \in Jobs
          PROVE  /\ view[k].at = "running"
                      => rows'[k] = [status |-> "leased", holder |-> view[k].attempt]
                 /\ rows'[k].status = "leased" => view[k].at = "running" \/ Reporting(k)
                 /\ /\ view[k].at = "over" \/ (view[k].at = "unknown" /\ posts[k] = "accepted")
                    /\ Open(k)'
                    => k \in clearing' \/ Reporting(k)
      <4>1. /\ view[k].at = "running"
                 => rows[k] = [status |-> "leased", holder |-> view[k].attempt]
            /\ rows[k].status = "leased" => view[k].at = "running" \/ Reporting(k)
            /\ /\ view[k].at = "over" \/ (view[k].at = "unknown" /\ posts[k] = "accepted")
               /\ Open(k)
               => k \in clearing \/ Reporting(k)
        BY <2>2 DEF DispatchInv, FaultlessOK
      <4>2. CASE k = j
        BY <4>1, <4>2, <1>2, <2>2 DEF Open
      <4>3. CASE k # j
        BY <4>1, <4>3, <1>1, <1>2 DEF Open
      <4>4. QED
        BY <4>2, <4>3
    <3>4. QED
      BY <1>1, <2>2, <3>1, <3>2, <3>3 DEF DispatchInv, FaultlessOK
  <2>3. QED
    BY <1>1, <2>1, <2>2
<1>9. QED
  BY <1>3, <1>5, <1>6, <1>7, <1>8 DEF DispatchInv

LEMMA RestartStep ==
  ASSUME DispatchInv, Restart
  PROVE  DispatchInv'
<1> DEFINE left(p) == [p EXCEPT !.orphan = TRUE]
<1>1. /\ view' = [j \in Jobs |-> NoView] /\ UNCHANGED <<rows, granted, posts>>
      /\ wire' \subseteq Jobs /\ reports' \subseteq reports /\ clearing' = {}
      /\ faults' \in 0 .. MaxFaults /\ faults' # 0
  BY DispatchTypes DEF Restart, Fault
<1>2. \A p \in programs' : \/ p \in programs /\ p.orphan
                           \/ \E q \in programs : ~q.orphan /\ p = left(q)
  BY DEF Restart
<1>3. ASSUME NEW q \in programs
      PROVE  /\ left(q) \in Program /\ left(q).job = q.job /\ left(q).attempt = q.attempt
             /\ left(q).orphan = TRUE /\ left(q).lapsed = q.lapsed
  BY DispatchTypes DEF Program
<1> HIDE DEF left
<1>4. \A p \in programs' :
         \E q \in programs : /\ p.job = q.job /\ p.attempt = q.attempt /\ p.lapsed = q.lapsed
                             /\ p.orphan = TRUE /\ p \in Program
  <2>1. ASSUME NEW p \in programs, p.orphan PROVE p.orphan = TRUE /\ p \in Program
    BY <2>1, DispatchTypes DEF Program
  <2>2. QED
    BY <1>2, <1>3, <2>1, ZenonT(60)
<1>5. NoView \in View /\ NoView.at = "unknown"
  BY DispatchTypes DEF NoView, View
<1>6. \A j \in Jobs : view'[j] = NoView /\ view'[j].at = "unknown"
  BY <1>1, <1>5
<1>7. DispatchTypeOK'
  BY <1>1, <1>4, <1>5, DispatchTypes DEF DispatchTypeOK
<1>8. AttemptsOK'
  BY <1>1, <1>4, <1>6 DEF DispatchInv, AttemptsOK
<1>9. SupervisorOK'
  BY <1>4, <1>6 DEF SupervisorOK, OnGpu
<1>10. ShownOK' /\ LatestOK' /\ ProgramsAreLeased'
  <2>1. ShownOK' /\ LatestOK'
    BY <1>6 DEF ShownOK, LatestOK, Telling
  <2>2. ASSUME NEW p \in programs'
        PROVE  \/ rows[p.job].status = "leased" /\ rows[p.job].holder = p.attempt
               \/ p.lapsed
               \/ /\ p.orphan /\ p.job \in Generated
                  /\ rows[p.job].status \in Decided /\ rows[p.job].holder = p.attempt
    <3>1. PICK q \in programs : /\ p.job = q.job /\ p.attempt = q.attempt
                                /\ p.lapsed = q.lapsed /\ p.orphan = TRUE
      BY <1>4
    <3>2. QED
      BY <3>1 DEF DispatchInv, ProgramsAreLeased
  <2>3. QED
    BY <1>1, <2>1, <2>2 DEF ProgramsAreLeased
<1>11. RowsFirst'
  BY <1>1, <1>6 DEF DispatchInv, RowsFirst, Reporting
<1>12. FaultlessOK'
  BY <1>1 DEF FaultlessOK
<1>13. QED
  BY <1>7, <1>8, <1>9, <1>10, <1>11, <1>12 DEF DispatchInv

LEMMA OrphanEndsStep ==
  ASSUME DispatchInv, OrphanEnds
  PROVE  DispatchInv'
<1>1. /\ programs' \subseteq programs
      /\ UNCHANGED <<rows, granted, posts, view, reports, wire, clearing, faults>>
  BY DEF OrphanEnds
<1>2. DispatchTypeOK'
  BY <1>1, DispatchTypes DEF DispatchTypeOK
<1>3. AttemptsOK' /\ SupervisorOK' /\ ShownOK' /\ LatestOK' /\ ProgramsAreLeased'
  BY <1>1, DispatchTypes, AttemptsKept, SupervisorKept, ShownKept, LatestKept, LeasesKept
<1>4. RowsFirst'
  BY <1>1 DEF DispatchInv, RowsFirst, Reporting
<1>5. FaultlessOK'
  BY <1>1, FaultlessKept
<1>6. QED
  BY <1>2, <1>3, <1>4, <1>5 DEF DispatchInv

LEMMA DispatchStays ==
  ASSUME DispatchInv, UNCHANGED dispatched
  PROVE  DispatchInv'
BY DEF dispatched, DispatchInv, DispatchTypeOK, AttemptsOK, SupervisorOK, OnGpu, ShownOK, LatestOK,
       Telling, RowsFirst, FaultlessOK, ProgramsAreLeased, Holds, Reporting, Open

LEMMA DispatchStarts == DispatchInit => DispatchInv
<1> SUFFICES ASSUME DispatchInit PROVE DispatchInv
  OBVIOUS
<1>1. /\ programs = {} /\ reports = {} /\ wire = {} /\ clearing = {} /\ granted = 0 /\ faults = 0
      /\ view = [j \in Jobs |-> NoView]
      /\ posts = [j \in Jobs |-> "idle"]
      /\ rows = [j \in Jobs |-> [status |-> "absent", holder |-> 0]]
  BY DEF DispatchInit
<1>2. NoView \in View /\ NoView.at = "unknown"
  BY DEF NoView, View
<1>3. [status |-> "absent", holder |-> 0] \in Row
  BY DEF Row
<1>4. \A j \in Jobs : view[j].at = "unknown" /\ rows[j].status = "absent" /\ posts[j] = "idle"
  BY <1>1, <1>2
<1>5. DispatchTypeOK
  BY <1>1, <1>2, <1>3 DEF DispatchTypeOK
<1>6. /\ AttemptsOK /\ SupervisorOK /\ ShownOK /\ LatestOK /\ RowsFirst /\ FaultlessOK
      /\ ProgramsAreLeased
  BY <1>1, <1>4 DEF AttemptsOK, SupervisorOK, OnGpu, ShownOK, LatestOK, Telling, RowsFirst,
                    FaultlessOK, ProgramsAreLeased, Reporting, Open
<1>7. QED
  BY <1>5, <1>6 DEF DispatchInv

LEMMA DispatchStep ==
  ASSUME DispatchInv, DispatchNext
  PROVE  DispatchInv'
<1>1. ASSUME NEW j \in Jobs, ServiceStep(j) PROVE DispatchInv'
  <2>1. ASSUME NEW outcome \in Outcomes, End(j, outcome) PROVE DispatchInv'
    BY <2>1, EndStep DEF Decided
  <2>2. QED
    BY <1>1, <2>1, ReceiveStep, EnterStep, StartStep, LeaseFailsStep, LeaseRefusedStep,
       ExpireStep, LateLeaseStep, ClearStep DEF ServiceStep
<1>2. ASSUME NEW r \in reports, Report(r) \/ ReportFails(r) PROVE DispatchInv'
  BY <1>2, ReportStep
<1>3. ASSUME NEW j \in Jobs, Cancel(j) PROVE DispatchInv'
  <2>1. CASE CancelWaiting(j)
    BY <2>1, CancelWaitingStep
  <2>2. CASE CancelRunning(j)
    BY <2>2, EndStep DEF CancelRunning, Decided
  <2>3. QED
    BY <1>3, <2>1, <2>2 DEF Cancel
<1>4. QED
  BY <1>1, <1>2, <1>3, SubmitStep, RestartStep, OrphanEndsStep DEF DispatchNext, ServicesStep

-------------------------------------------------------------------------------
(* Dispatch on its own. *)

THEOREM DispatchInvariant == DispatchSpec => []DispatchInv
<1>1. DispatchInit => DispatchInv
  BY DispatchStarts
<1>2. DispatchInv /\ [DispatchNext]_dispatched => DispatchInv'
  BY DispatchStep, DispatchStays
<1>3. QED
  BY <1>1, <1>2, PTL DEF DispatchSpec

(* Every stage program runs under a lease that Control has for it or took  *)
(* back, or is a container left behind by the attempt that decided its job *)
(* (ProgramsAreLeased): no job runs twice under one lease, whatever is     *)
(* resubmitted, cancelled, late, given up or restarted.                    *)
THEOREM LeasedPrograms == DispatchSpec => []ProgramsAreLeased
<1>1. DispatchInv => ProgramsAreLeased
  BY DEF DispatchInv
<1>2. QED
  BY <1>1, DispatchInvariant, PTL

LEMMA StrandedOnly == DispatchInv => StrandedOnlyByFault
<1> SUFFICES ASSUME DispatchInv, NEW j \in Jobs
             PROVE  /\ posts[j] = "accepted" /\ Open(j) /\ view[j].at \in {"unknown", "over"}
                         => faults > 0 \/ j \in clearing \/ Reporting(j)
                    /\ view[j].at = "over" /\ view[j].shown = "succeeded" /\ ~Reporting(j)
                         => \/ rows[j].status = "succeeded"
                            \/ rows[j].status = "cancelled" /\ faults > 0
  BY DEF StrandedOnlyByFault
<1>1. faults = 0 \/ faults > 0
  BY DispatchTypes
<1>2. faults = 0 /\ posts[j] = "accepted" /\ Open(j) /\ view[j].at \in {"unknown", "over"}
        => j \in clearing \/ Reporting(j)
  BY DEF DispatchInv, FaultlessOK
<1>3. view[j].at = "over" /\ view[j].shown = "succeeded" /\ ~Reporting(j)
        => \/ rows[j].status = "succeeded"
           \/ rows[j].status = "cancelled" /\ faults # 0
  BY DEF DispatchInv, ShownOK, Reporting
<1>4. QED
  BY <1>1, <1>2, <1>3

(* A job that the client was told is accepted is decided or being worked   *)
(* on, unless a request, an answer, a lease or a process was lost; and a   *)
(* success shown to the end is the verdict, unless a fault made way for an *)
(* earlier cancellation (StrandedOnlyByFault).                             *)
THEOREM OnlyFaultsStrand == DispatchSpec => []StrandedOnlyByFault
BY StrandedOnly, DispatchInvariant, PTL

-------------------------------------------------------------------------------
(* The worker: what a request's tools have had of the GPU when it stands   *)
(* at a place with a budget of b ticks, and what cannot be for ncu.        *)

HeldAt(place, b) ==
    LET e == Shorter(b, ExportLimit) IN
    IF place = "export" THEN b
    ELSE IF place = "profile_again" THEN b + e
    ELSE IF place = "export_again" THEN b + e + b
    ELSE IF place = "upload" THEN b + e + b + e
    ELSE 0

RequestOK(p, q) ==
    /\ q \in Request
    /\ q.held <= HeldAt(q.at, q.budget)
    /\ p = "ncu_triage_v1" =>
          /\ q.at \notin {"profile_again", "export_again"}
          /\ q.at = "upload" => q.held <= q.budget + Shorter(q.budget, ExportLimit)

WorkerInv == WorkerTypeOK /\ \A p \in Plans : RequestOK(p, requests[p])

LEMMA HeldFacts ==
  ASSUME NEW b \in 0 .. PlanTimeout
  PROVE  /\ Shorter(b, ExportLimit) \in 0 .. b
         /\ \A place \in {"none", "sent", "waiting", "answered", "download", "profile"} :
              HeldAt(place, b) = 0
         /\ HeldAt("export", b) = b
         /\ HeldAt("profile_again", b) = b + Shorter(b, ExportLimit)
         /\ HeldAt("export_again", b) = b + Shorter(b, ExportLimit) + b
         /\ HeldAt("upload", b) = b + Shorter(b, ExportLimit) + b + Shorter(b, ExportLimit)
BY DEF HeldAt, Shorter

LEMMA WorkerTypes ==
  ASSUME WorkerInv, NEW p \in Plans
  PROVE  /\ requests \in [Plans -> Request] /\ requests[p] \in Request
         /\ requests[p].budget \in 0 .. PlanTimeout /\ requests[p].held \in Nat
         /\ strays \subseteq Plans /\ crashes \in 0 .. MaxCrashes
BY DEF WorkerInv, WorkerTypeOK, Request

LEMMA WorkerKept ==
  ASSUME WorkerInv, NEW p \in Plans, NEW q, RequestOK(p, q),
         requests' = [requests EXCEPT ![p] = q],
         strays' \subseteq Plans, crashes' \in 0 .. MaxCrashes
  PROVE  WorkerInv'
<1>1. q \in Request
  BY DEF RequestOK
<1>2. requests' \in [Plans -> Request]
  BY <1>1, WorkerTypes
<1>3. \A o \in Plans : RequestOK(o, requests'[o])
  BY WorkerTypes DEF WorkerInv
<1>4. \A o \in Plans : RequestOK(o, requests[o])'
  BY <1>3 DEF RequestOK
<1>5. QED
  BY <1>2, <1>4 DEF WorkerInv, WorkerTypeOK

(* A request that has been answered, or that moves and keeps its time. *)
LEMMA AnsweredOK ==
  ASSUME NEW p \in Plans, NEW verdict \in {"none"} \cup Answers
  PROVE  RequestOK(p, [NoRequest EXCEPT !.at = "answered", !.verdict = verdict])
<1> DEFINE q == [NoRequest EXCEPT !.at = "answered", !.verdict = verdict]
<1>1. 0 \in 0 .. PlanTimeout /\ 0 \in 0 .. 4 * PlanTimeout
  OBVIOUS
<1>2. q \in Request /\ q.at = "answered" /\ q.held = 0 /\ q.budget = 0
  BY <1>1 DEF NoRequest, Request
<1>3. HeldAt("answered", 0) = 0
  BY DEF HeldAt
<1> HIDE DEF q
<1>4. RequestOK(p, q)
  BY <1>2, <1>3 DEF RequestOK
<1>5. QED
  BY <1>4 DEF q

LEMMA AnsweredStep ==
  ASSUME WorkerInv, NEW p \in Plans, NEW verdict \in {"none"} \cup Answers,
         requests' = Answered(p, verdict), UNCHANGED <<strays, crashes>>
  PROVE  WorkerInv'
BY AnsweredOK, WorkerKept, WorkerTypes DEF Answered

(* A move within the tool, which takes its time. *)
LEMMA ToolStep ==
  ASSUME WorkerInv, NEW p \in Plans, requests[p].at \in ToolPhases,
         NEW place \in ToolPhases \cup {"upload"}, NEW verdict \in {"none"} \cup Answers,
         NEW ticks \in 0 .. PhaseLimit(p),
         requests[p].held + ticks <= HeldAt(place, requests[p].budget),
         p = "ncu_triage_v1" => place \in {"export", "upload"},
         NEW q, q = [[[requests[p] EXCEPT !.at = place]
                         EXCEPT !.held = requests[p].held + ticks] EXCEPT !.verdict = verdict],
         requests' = [requests EXCEPT ![p] = q],
         UNCHANGED <<strays, crashes>>
  PROVE  WorkerInv'
<1> DEFINE b == requests[p].budget
           h == requests[p].held + ticks
<1>1. b \in 0 .. PlanTimeout /\ requests[p].held \in Nat /\ requests[p] \in Request
      /\ RequestOK(p, requests[p])
  BY WorkerTypes DEF WorkerInv
<1>2. /\ b + Shorter(b, ExportLimit) + b + Shorter(b, ExportLimit) <= 4 * PlanTimeout
      /\ Shorter(b, ExportLimit) \in 0 .. b
      /\ PhaseLimit(p) \in 0 .. b
  BY <1>1, HeldFacts DEF PhaseLimit
<1>3. h \in Nat /\ ticks \in Nat
  BY <1>1, <1>2
<1>4. h <= 4 * PlanTimeout
  BY <1>1, <1>2, <1>3, HeldFacts DEF ToolPhases
<1>5. /\ q.at = place /\ q.budget = b /\ q.held = h
      /\ q \in Request
  <2>1. h \in 0 .. 4 * PlanTimeout
    BY <1>3, <1>4
  <2>2. place \in {"none", "sent", "waiting", "answered"} \cup HoldsGpu
    BY DEF HoldsGpu
  <2> HIDE DEF h
  <2>3. q = [[[requests[p] EXCEPT !.at = place] EXCEPT !.held = h] EXCEPT !.verdict = verdict]
    BY DEF h
  <2>4. QED
    BY <1>1, <2>1, <2>2, <2>3 DEF Request
<1>6. p = "ncu_triage_v1" /\ place = "upload" => h <= b + Shorter(b, ExportLimit)
  <2> SUFFICES ASSUME p = "ncu_triage_v1" PROVE h <= b + Shorter(b, ExportLimit)
    OBVIOUS
  <2>1. requests[p].at \in {"profile", "export"}
    BY <1>1 DEF RequestOK, ToolPhases
  <2>2. CASE requests[p].at = "profile"
    <3>1. requests[p].held <= 0
      BY <1>1, <2>2, HeldFacts DEF RequestOK
    <3>2. QED
      BY <1>1, <1>2, <1>3, <3>1
  <2>3. CASE requests[p].at = "export"
    <3>1. requests[p].held <= b
      BY <1>1, <2>3, HeldFacts DEF RequestOK
    <3>2. PhaseLimit(p) = Shorter(b, ExportLimit)
      BY <2>3 DEF PhaseLimit
    <3>3. QED
      BY <1>1, <1>2, <1>3, <3>1, <3>2
  <2>4. QED
    BY <2>1, <2>2, <2>3
<1>7. RequestOK(p, q)
  BY <1>5, <1>6 DEF RequestOK
<1>8. QED
  BY <1>7, WorkerKept, WorkerTypes

(* A field that is given the value it has. *)
LEMMA SameField ==
  ASSUME NEW r \in Request, NEW place, NEW h
  PROVE  /\ [[[r EXCEPT !.at = place] EXCEPT !.held = h] EXCEPT !.verdict = r.verdict]
              = [[r EXCEPT !.at = place] EXCEPT !.held = h]
         /\ [[r EXCEPT !.at = place] EXCEPT !.budget = r.budget] = [r EXCEPT !.at = place]
         /\ [r EXCEPT !.at = place].held = r.held
BY DEF Request

LEMMA MovedForm ==
  ASSUME WorkerInv, NEW p \in Plans, NEW place
  PROVE  Moved(p, place) = [requests EXCEPT ![p] =
           [[requests[p] EXCEPT !.at = place] EXCEPT !.budget = requests[p].budget]]
BY WorkerTypes, SameField DEF Moved

LEMMA ThenForm ==
  ASSUME WorkerInv, NEW p \in Plans, NEW place, NEW ticks \in Nat
  PROVE  Then(p, place, ticks) = [requests EXCEPT ![p] =
           [[requests[p] EXCEPT !.at = place] EXCEPT !.held = requests[p].held + ticks]]
<1> DEFINE m == [requests[p] EXCEPT !.at = place]
           q == [m EXCEPT !.held = requests[p].held + ticks]
<1>1. requests[p] \in Request /\ requests \in [Plans -> Request]
  BY WorkerTypes
<1>2. Moved(p, place) = [requests EXCEPT ![p] = m]
  BY DEF Moved
<1>3. m.held = requests[p].held
  BY <1>1, SameField
<1> HIDE DEF m
<1>4. Moved(p, place)[p] = m /\ DOMAIN Moved(p, place) = Plans
  BY <1>1, <1>2
<1>5. Then(p, place, ticks) = [Moved(p, place) EXCEPT ![p] = q]
  BY <1>3, <1>4 DEF Then
<1> HIDE DEF q
<1>6. [[requests EXCEPT ![p] = m] EXCEPT ![p] = q] = [requests EXCEPT ![p] = q]
  BY <1>1
<1>7. QED
  BY <1>2, <1>5, <1>6 DEF q, m

LEMMA ToolForm ==
  ASSUME WorkerInv, NEW p \in Plans, NEW place, NEW ticks \in Nat
  PROVE  Then(p, place, ticks) =
           [requests EXCEPT ![p] = [[[requests[p] EXCEPT !.at = place]
              EXCEPT !.held = requests[p].held + ticks] EXCEPT !.verdict = requests[p].verdict]]
<1> DEFINE q == [[requests[p] EXCEPT !.at = place] EXCEPT !.held = requests[p].held + ticks]
<1>1. [q EXCEPT !.verdict = requests[p].verdict] = q
  BY WorkerTypes, SameField
<1>2. Then(p, place, ticks) = [requests EXCEPT ![p] = q]
  BY ThenForm
<1> HIDE DEF q
<1>3. Then(p, place, ticks) = [requests EXCEPT ![p] = [q EXCEPT !.verdict = requests[p].verdict]]
  BY <1>1, <1>2
<1>4. QED
  BY <1>3 DEF q

LEMMA FinishedForm ==
  ASSUME WorkerInv, NEW p \in Plans, NEW verdict, NEW ticks \in Nat
  PROVE  Finished(p, verdict, ticks) =
           [requests EXCEPT ![p] = [[[requests[p] EXCEPT !.at = "upload"]
              EXCEPT !.held = requests[p].held + ticks] EXCEPT !.verdict = verdict]]
<1> DEFINE q == [[requests[p] EXCEPT !.at = "upload"] EXCEPT !.held = requests[p].held + ticks]
<1>1. Then(p, "upload", ticks) = [requests EXCEPT ![p] = q]
  BY ThenForm
<1> HIDE DEF q
<1>2. Finished(p, verdict, ticks) = [[requests EXCEPT ![p] = q] EXCEPT ![p].verdict = verdict]
  BY <1>1 DEF Finished
<1>3. Finished(p, verdict, ticks) = [requests EXCEPT ![p] = [q EXCEPT !.verdict = verdict]]
  BY <1>2, WorkerTypes
<1>4. QED
  BY <1>3 DEF q

LEMMA ToolEndsStep ==
  ASSUME WorkerInv, NEW p \in Plans, ToolEnds(p) \/ TimesOut(p)
  PROVE  WorkerInv'
<1> DEFINE b == requests[p].budget
           e == Shorter(b, ExportLimit)
           h == requests[p].held
<1>1. /\ requests[p].at \in ToolPhases /\ UNCHANGED <<strays, crashes>>
      /\ h \in Nat /\ b \in 0 .. PlanTimeout /\ e \in 0 .. b
      /\ requests[p].verdict \in {"none"} \cup Answers
  BY WorkerTypes, HeldFacts DEF ToolEnds, TimesOut, Request
<1>2. /\ PhaseLimit(p) \in 0 .. b
      /\ requests[p].at \in {"export", "export_again"} => PhaseLimit(p) = e
  BY <1>1 DEF PhaseLimit
<1>3. /\ h <= HeldAt(requests[p].at, b)
      /\ p = "ncu_triage_v1" => requests[p].at \in {"profile", "export"}
  BY <1>1 DEF WorkerInv, RequestOK, ToolPhases
<1>4. /\ requests[p].at = "profile" => h <= 0
      /\ requests[p].at = "export" => h <= b
      /\ requests[p].at = "profile_again" => h <= b + e
      /\ requests[p].at = "export_again" => h <= b + e + b
  BY <1>1, <1>3, HeldFacts
<1>5. ASSUME NEW ticks \in 0 .. PhaseLimit(p), NEW place \in ToolPhases \cup {"upload"},
             \/ requests[p].at = "profile" /\ place = "export"
             \/ requests[p].at = "profile_again" /\ place = "export_again"
             \/ requests[p].at \in {"profile", "export"} /\ place = "profile_again"
             \/ place = "upload"
      PROVE  h + ticks <= HeldAt(place, b)
  <2>1. ticks \in Nat /\ ticks <= PhaseLimit(p)
    BY <1>1, <1>2
  <2>2. requests[p].at \in {"profile", "export", "profile_again", "export_again"}
    BY <1>1 DEF ToolPhases
  <2>3. CASE requests[p].at = "profile" /\ place = "export"
    BY <1>1, <1>2, <1>4, <2>1, <2>3, HeldFacts
  <2>4. CASE requests[p].at = "profile_again" /\ place = "export_again"
    BY <1>1, <1>2, <1>4, <2>1, <2>4, HeldFacts
  <2>5. CASE requests[p].at \in {"profile", "export"} /\ place = "profile_again"
    BY <1>1, <1>2, <1>4, <2>1, <2>5, HeldFacts
  <2>6. CASE place = "upload"
    BY <1>1, <1>2, <1>4, <2>1, <2>2, <2>6, HeldFacts
  <2>7. QED
    BY <1>5, <2>3, <2>4, <2>5, <2>6
<1> HIDE DEF h, b, e
<1>6. ASSUME NEW ticks \in 0 .. PhaseLimit(p), NEW place \in ToolPhases,
             requests' = Then(p, place, ticks),
             \/ requests[p].at = "profile" /\ place = "export"
             \/ requests[p].at = "profile_again" /\ place = "export_again"
             \/ Retries(p, TRUE, "empty") /\ place = "profile_again"
      PROVE  WorkerInv'
  <2>1. \/ requests[p].at = "profile" /\ place = "export"
        \/ requests[p].at = "profile_again" /\ place = "export_again"
        \/ requests[p].at \in {"profile", "export"} /\ place = "profile_again"
           /\ p = "nsys_timeline_v1"
    BY <1>6 DEF Retries
  <2>2. requests[p].held + ticks <= HeldAt(place, requests[p].budget)
    BY <1>5, <2>1 DEF h, b
  <2>3. p = "ncu_triage_v1" => place \in {"export", "upload"}
    BY <1>3, <2>1
  <2>4. ticks \in Nat
    BY <1>1, <1>2
  <2>5. requests' =
          [requests EXCEPT ![p] = [[[requests[p] EXCEPT !.at = place]
             EXCEPT !.held = requests[p].held + ticks] EXCEPT !.verdict = requests[p].verdict]]
    BY <1>6, <2>4, ToolForm
  <2>6. QED
    BY <1>1, <2>2, <2>3, <2>5, ToolStep
<1>7. ASSUME NEW ticks \in 0 .. PhaseLimit(p), NEW verdict \in Answers,
             requests' = Finished(p, verdict, ticks)
      PROVE  WorkerInv'
  <2>1. ticks \in Nat
    BY <1>1, <1>2
  <2>2. requests[p].held + ticks <= HeldAt("upload", requests[p].budget)
    BY <1>5 DEF h, b
  <2>3. requests' =
          [requests EXCEPT ![p] = [[[requests[p] EXCEPT !.at = "upload"]
             EXCEPT !.held = requests[p].held + ticks] EXCEPT !.verdict = verdict]]
    BY <1>7, <2>1, FinishedForm, ZenonT(60)
  <2>4. QED
    BY <1>1, <2>2, <2>3, ToolStep
<1>8. CASE TimesOut(p)
  <2>1. requests' = Finished(p, "failed", PhaseLimit(p)) /\ PhaseLimit(p) \in 0 .. PhaseLimit(p)
    BY <1>8, <1>1, <1>2 DEF TimesOut
  <2>2. QED
    BY <2>1, <1>7 DEF Answers
<1>9. CASE ToolEnds(p)
  <2>1. PICK code \in {0, 1}, permitted \in BOOLEAN, rep \in BOOLEAN, csv \in Csv,
             ticks \in 0 .. PhaseLimit(p) :
          requests' =
              IF requests[p].at = "profile" /\ code = 0 THEN Then(p, "export", ticks)
              ELSE IF requests[p].at = "profile_again" /\ code = 0
                   THEN Then(p, "export_again", ticks)
              ELSE IF Retries(p, rep, csv) THEN Then(p, "profile_again", ticks)
              ELSE Finished(p, Judged(permitted, code, rep, csv), ticks)
    BY <1>9 DEF ToolEnds
  <2>2. Judged(permitted, code, rep, csv) \in Answers
    BY DEF Judged, Answers
  <2>3. Retries(p, rep, csv) => Retries(p, TRUE, "empty")
    BY DEF Retries
  <2>4. CASE requests[p].at = "profile" /\ code = 0
    BY <2>1, <2>4, <1>6 DEF ToolPhases
  <2>5. CASE ~(requests[p].at = "profile" /\ code = 0) /\ requests[p].at = "profile_again" /\ code = 0
    BY <2>1, <2>5, <1>6 DEF ToolPhases
  <2>6. CASE /\ ~(requests[p].at = "profile" /\ code = 0)
             /\ ~(requests[p].at = "profile_again" /\ code = 0) /\ Retries(p, rep, csv)
    BY <2>1, <2>3, <2>6, <1>6 DEF ToolPhases
  <2>7. CASE /\ ~(requests[p].at = "profile" /\ code = 0)
             /\ ~(requests[p].at = "profile_again" /\ code = 0) /\ ~Retries(p, rep, csv)
    BY <2>1, <2>2, <2>7, <1>7
  <2>8. QED
    BY <2>4, <2>5, <2>6, <2>7
<1>10. QED
  BY <1>8, <1>9

LEMMA WorkerStarts == WorkerInit => WorkerInv
<1> SUFFICES ASSUME WorkerInit PROVE WorkerInv
  OBVIOUS
<1>1. NoRequest \in Request /\ NoRequest.held = 0 /\ NoRequest.at = "none"
  BY DEF NoRequest, Request
<1>2. requests = [p \in Plans |-> NoRequest] /\ strays = {} /\ crashes = 0
  BY DEF WorkerInit
<1>3. HeldAt("none", NoRequest.budget) = 0
  BY DEF HeldAt
<1>4. \A p \in Plans : RequestOK(p, NoRequest)
  BY <1>1, <1>3 DEF RequestOK
<1>5. QED
  BY <1>1, <1>2, <1>4 DEF WorkerInv, WorkerTypeOK

(* A move outside the tool. *)
LEMMA MoveStep ==
  ASSUME WorkerInv, NEW p \in Plans, requests[p].at \in {"none", "sent", "waiting", "download"},
         NEW place \in {"sent", "waiting", "download", "profile"},
         NEW b \in 0 .. PlanTimeout,
         NEW q, q = [[requests[p] EXCEPT !.at = place] EXCEPT !.budget = b],
         requests' = [requests EXCEPT ![p] = q],
         UNCHANGED <<strays, crashes>>
  PROVE  WorkerInv'
<1>1. requests[p] \in Request /\ RequestOK(p, requests[p]) /\ requests[p].held \in Nat
      /\ requests[p].budget \in 0 .. PlanTimeout
  BY WorkerTypes DEF WorkerInv
<1>2. requests[p].held <= 0
  BY <1>1, HeldFacts DEF RequestOK
<1>3. place \in {"none", "sent", "waiting", "answered"} \cup HoldsGpu
  BY DEF HoldsGpu, ToolPhases
<1>4. q \in Request /\ q.at = place /\ q.held = requests[p].held /\ q.budget = b
  BY <1>1, <1>3 DEF Request
<1>5. RequestOK(p, q)
  BY <1>1, <1>2, <1>4, HeldFacts DEF RequestOK
<1>6. QED
  BY <1>5, WorkerKept, WorkerTypes
LEMMA RequestStep ==
  ASSUME WorkerInv, NEW p \in Plans,
         \/ Send(p) /\ UNCHANGED <<strays, crashes>>
         \/ Arrive(p) \/ EnterWorker(p) \/ Download(p, TRUE) \/ Upload(p)
  PROVE  WorkerInv'
<1>1. requests[p].budget \in 0 .. PlanTimeout /\ requests[p].verdict \in {"none"} \cup Answers
  BY WorkerTypes DEF Request
<1>2. ASSUME NEW place \in {"sent", "waiting", "download", "profile"},
             requests[p].at \in {"none", "sent", "waiting", "download"},
             requests' = Moved(p, place), UNCHANGED <<strays, crashes>>
      PROVE  WorkerInv'
  <2>1. requests' = [requests EXCEPT ![p] =
          [[requests[p] EXCEPT !.at = place] EXCEPT !.budget = requests[p].budget]]
    BY <1>2, MovedForm
  <2>2. QED
    BY <1>1, <1>2, <2>1, MoveStep
<1>3. CASE Send(p) /\ UNCHANGED <<strays, crashes>>
  BY <1>2, <1>3 DEF Send
<1>4. CASE EnterWorker(p)
  BY <1>2, <1>4 DEF EnterWorker
<1>5. CASE Download(p, TRUE)
  BY <1>2, <1>5, AnsweredStep DEF Download, Answers
<1>6. CASE Upload(p)
  BY <1>1, <1>6, AnsweredStep DEF Upload, Answers
<1>7. CASE Arrive(p)
  <2>1. UNCHANGED <<strays, crashes>> /\ requests[p].at = "sent"
    BY <1>7 DEF Arrive
  <2>2. CASE requests' = Answered(p, "failed")
    BY <2>1, <2>2, AnsweredStep DEF Answers
  <2>3. ASSUME NEW timeout \in 0 .. PlanTimeout,
               requests' = [Moved(p, "waiting") EXCEPT ![p].budget = timeout]
        PROVE  WorkerInv'
    <3> DEFINE m == [requests[p] EXCEPT !.at = "waiting"]
               q == [m EXCEPT !.budget = timeout]
    <3>1. Moved(p, "waiting") = [requests EXCEPT ![p] = m]
      BY DEF Moved
    <3>2. requests' = [requests EXCEPT ![p] = q]
      <4> HIDE DEF m
      <4>1. QED
        BY <2>3, <3>1, WorkerTypes
    <3>3. QED
      BY <2>1, <3>2, MoveStep
  <2>4. CASE requests' # Answered(p, "failed")
    <3>1. PICK remaining \in Remaining :
            requests' = IF Shorter(PlanTimeout, remaining) <= 0 THEN Answered(p, "failed")
                        ELSE [Moved(p, "waiting")
                                EXCEPT ![p].budget = Shorter(PlanTimeout, remaining)]
      BY <1>7, <2>4 DEF Arrive
    <3>2. ~(Shorter(PlanTimeout, remaining) <= 0)
      BY <2>4, <3>1
    <3>3. Shorter(PlanTimeout, remaining) \in 0 .. PlanTimeout
      BY <3>2 DEF Shorter
    <3>4. requests' = [Moved(p, "waiting") EXCEPT ![p].budget = Shorter(PlanTimeout, remaining)]
      BY <3>1, <3>2
    <3>5. QED
      BY <2>3, <3>3, <3>4
  <2>5. QED
    BY <2>2, <2>4
<1>8. QED
  BY <1>3, <1>4, <1>5, <1>6, <1>7

LEMMA CrashStep ==
  ASSUME WorkerInv, WorkerCrash \/ StrayEnds
  PROVE  WorkerInv'
<1>1. CASE StrayEnds
  <2>1. requests' = requests /\ strays' \subseteq Plans /\ crashes' \in 0 .. MaxCrashes
    BY <1>1 DEF StrayEnds, WorkerInv, WorkerTypeOK
  <2>2. QED
    BY <2>1 DEF WorkerInv, WorkerTypeOK, RequestOK
<1>2. CASE WorkerCrash
  <2>1. strays' \subseteq Plans /\ crashes' \in 0 .. MaxCrashes
    BY <1>2 DEF WorkerCrash, WorkerInv, WorkerTypeOK
  <2> DEFINE lost == [NoRequest EXCEPT !.at = "answered", !.verdict = "failed"]
  <2>2. \A p \in Plans : RequestOK(p, lost)
    BY AnsweredOK DEF Answers
  <2>3. \A p \in Plans : Answered(p, "failed")[p] = lost
    BY DEF Answered, WorkerInv, WorkerTypeOK
  <2> HIDE DEF lost
  <2>4. requests' = [p \in Plans |->
            IF requests[p].at \in {"sent", "waiting"} \cup HoldsGpu THEN lost ELSE requests[p]]
    BY <1>2, <2>3 DEF WorkerCrash
  <2>5. \A p \in Plans : RequestOK(p, requests'[p])
    BY <2>2, <2>4 DEF WorkerInv
  <2>6. \A p \in Plans : RequestOK(p, requests[p])'
    BY <2>5 DEF RequestOK
  <2>7. requests' \in [Plans -> Request]
    BY <2>4, <2>5 DEF RequestOK
  <2>8. QED
    BY <2>1, <2>6, <2>7 DEF WorkerInv, WorkerTypeOK
<1>3. QED
  BY <1>1, <1>2

LEMMA WorkerSteps ==
  ASSUME WorkerInv, NEW candidate \in BOOLEAN, WorkerStep(candidate)
  PROVE  WorkerInv'
<1>1. ASSUME NEW p \in Plans, Download(p, candidate) PROVE Download(p, TRUE)
  BY <1>1 DEF Download
<1>2. QED
  BY <1>1, RequestStep, ToolEndsStep, CrashStep DEF WorkerStep

LEMMA WorkerStays ==
  ASSUME WorkerInv, UNCHANGED profiled
  PROVE  WorkerInv'
BY DEF profiled, WorkerInv, WorkerTypeOK, RequestOK

LEMMA WorkerBounded == WorkerInv => GpuHeldBounded
<1> SUFFICES ASSUME WorkerInv, NEW p \in Plans, NEW q, q = requests[p]
             PROVE  /\ q.held <= 2 * (q.budget + Shorter(q.budget, ExportLimit))
                    /\ p = "ncu_triage_v1" => q.held <= q.budget + Shorter(q.budget, ExportLimit)
  BY DEF GpuHeldBounded
<1> DEFINE b == q.budget
           e == Shorter(b, ExportLimit)
<1>1. q.held \in Nat /\ b \in 0 .. PlanTimeout /\ e \in 0 .. b /\ RequestOK(p, q) /\ q \in Request
  BY WorkerTypes, HeldFacts DEF WorkerInv
<1>2. q.held <= HeldAt(q.at, b)
  BY <1>1 DEF RequestOK
<1>3. HeldAt(q.at, b) \in {0, b, b + e, b + e + b, b + e + b + e}
  BY DEF HeldAt
<1>4. q.held <= 2 * (b + e)
  BY <1>1, <1>2, <1>3
<1>5. ASSUME p = "ncu_triage_v1" PROVE q.held <= b + e
  <2>1. CASE q.at = "upload"
    BY <1>1, <1>5, <2>1 DEF RequestOK
  <2>2. CASE q.at # "upload"
    <3>1. q.at \notin {"profile_again", "export_again"}
      BY <1>1, <1>5 DEF RequestOK
    <3>2. HeldAt(q.at, b) \in {0, b}
      BY <2>2, <3>1 DEF HeldAt
    <3>3. QED
      BY <1>1, <1>2, <3>2
  <2>3. QED
    BY <2>1, <2>2
<1>6. QED
  BY <1>4, <1>5

-------------------------------------------------------------------------------
(* The preflight.  A stage whose success it has seen: Control accepted it  *)
(* and the Supervisor is done with it, so it is not run again.             *)

Settled(i) == posts[Stages[i]] = "accepted" /\ view[Stages[i]].at \in {"unknown", "over"}

PlacesOK ==
    /\ at.place \in {"submit", "answer", "poll"} => at.n \in 1 .. 3
    /\ at.place \in {"plan", "listen"} => at.n \in 1 .. 2
    /\ at.place = "check" => at.n \in 1 .. 7

SettledOK ==
    /\ at.place \in {"submit", "answer", "poll"} => \A i \in 1 .. 3 : i < at.n => Settled(i)
    /\ at.place = "poll" => posts[Stages[at.n]] = "accepted"
    /\ "cuda_events" \in available => \A i \in 1 .. 3 : Settled(i)

(* What the checks that were available and the report tell. *)
ReportOK ==
    /\ at.place \in {"check", "submit", "answer", "poll"} => "cuda_events" \notin available
    /\ at.place = "listen" \/ "ncu_metrics" \in available => Candidate
    /\ report \in {"none", "unavailable"} \/ "cuda_events" \in available
    /\ report = "full_diagnostics" => "ncu_metrics" \in available
    /\ report = "none" <=> at.place \notin {"reported", "started"}
    /\ at.place = "started" => report # "unavailable"

PreflightTypeOK ==
    /\ at \in [place : Place, n : 0 .. 7]
    /\ available \subseteq CheckNames
    /\ report \in Modes \cup {"none"}

PreflightInv == PreflightTypeOK /\ PlacesOK /\ SettledOK /\ ReportOK

IInv == DispatchInv /\ WorkerInv /\ PreflightInv

LEMMA StageFacts == \A i \in 1 .. 3 : Stages[i] \in Jobs /\ Stages[i] \in StageJobs
BY DEF StageJobs

(* A decided row stays as it is. *)
LEMMA DecidedStays ==
  ASSUME DispatchInv, DispatchNext \/ UNCHANGED dispatched,
         NEW j \in Jobs, rows[j].status = "succeeded"
  PROVE  rows'[j].status = "succeeded"
<1>1. rows \in [Jobs -> Row]
  BY DispatchTypes
<1>2. ASSUME NEW k \in Jobs, MayLease(k) PROVE k # j /\ Leased(k)[j] = rows[j]
  BY <1>2, LeasedFacts
<1>3. ASSUME NEW r \in reports PROVE Completed(r)[j].status = "succeeded"
  <2>1. CASE r.job = j
    BY <2>1, CompletedFacts
  <2>2. CASE r.job # j
    BY <2>2, CompletedFacts
  <2>3. QED
    BY <2>1, <2>2
<1>4. ASSUME NEW k \in Jobs, ServiceStep(k) PROVE rows'[j].status = "succeeded"
  <2>1. CASE \/ Receive(k) \/ ReceiveFails(k) \/ Enter(k) \/ LeaseRefused(k) \/ ClearFails(k)
             \/ \E outcome \in Outcomes : End(k, outcome)
    BY <2>1 DEF Receive, ReceiveFails, Enter, LeaseRefused, ClearFails, End
  <2>2. CASE Start(k) \/ LeaseFails(k) \/ LateLease(k)
    BY <2>2, <1>2 DEF Start, LeaseFails, LateLease
  <2>3. CASE Expire(k)
    BY <2>3, <1>1 DEF Expire
  <2>4. CASE ClearRow(k)
    BY <2>4, <1>1 DEF ClearRow, MayCancel
  <2>5. QED
    BY <1>4, <2>1, <2>2, <2>3, <2>4 DEF ServiceStep
<1>5. ASSUME NEW r \in reports, Report(r) \/ ReportFails(r) PROVE rows'[j].status = "succeeded"
  BY <1>3, <1>5 DEF Report, ReportFails
<1>6. ASSUME NEW k \in Jobs, Submit(k) PROVE rows'[j].status = "succeeded"
  BY <1>1, <1>6 DEF Submit
<1>7. ASSUME NEW k \in Jobs, SubmitRefused(k) \/ Cancel(k) PROVE rows'[j].status = "succeeded"
  BY <1>7 DEF SubmitRefused, Cancel, CancelWaiting, CancelRunning, End
<1>8. CASE Restart \/ OrphanEnds \/ UNCHANGED dispatched
  BY <1>8 DEF Restart, OrphanEnds, dispatched
<1>9. QED
  BY <1>4, <1>5, <1>6, <1>7, <1>8 DEF DispatchNext, ServicesStep

(* A stage that is settled stays so, unless it is submitted again. *)
LEMMA SettledStays ==
  ASSUME DispatchInv, NEW i \in 1 .. 3, Settled(i),
         ServicesStep \/ UNCHANGED dispatched
         \/ \E k \in Jobs \ {Stages[i]} : Submit(k) \/ SubmitRefused(k) \/ Cancel(k)
  PROVE  Settled(i)'
<1> DEFINE s == Stages[i]
<1>1. s \in Jobs /\ posts[s] = "accepted" /\ view[s].at \in {"unknown", "over"}
      /\ view \in [Jobs -> View] /\ NoView.at = "unknown"
  BY StageFacts, DispatchTypes DEF Settled, NoView
<1> HIDE DEF s
<1> SUFFICES posts'[s] = "accepted" /\ view'[s].at \in {"unknown", "over"}
  BY DEF Settled, s
<1>2. posts \in [Jobs -> {"idle", "sent", "accepted", "failed"}]
  BY DispatchTypes
<1>3. ASSUME NEW k \in Jobs, NEW shown \in {"failed", "cancelled", "succeeded"}
      PROVE  Over(k, shown)[s].at \in {"unknown", "over"}
  <2>1. k = s => Over(k, shown)[s].at = "over"
    BY ViewFacts DEF Decided, Outcomes
  <2>2. k # s => Over(k, shown)[s] = view[s]
    BY <1>1, ViewFacts DEF Decided, Outcomes
  <2>3. QED
    BY <1>1, <2>1, <2>2
<1>4. ASSUME NEW k \in Jobs, ServiceStep(k)
      PROVE  posts'[s] = "accepted" /\ view'[s].at \in {"unknown", "over"}
  <2>1. CASE Receive(k) \/ ReceiveFails(k)
    <3>1. /\ posts[k] = "sent" /\ view' \in Accepted(k) \cup {view}
          /\ \E v : posts' = [posts EXCEPT ![k] = v]
      BY <2>1 DEF Receive, ReceiveFails
    <3>2. k # s /\ posts'[s] = "accepted"
      BY <1>1, <1>2, <3>1
    <3>3. view'[s] = view[s] \/ view'[s] = NoView
      BY <1>1, <3>1, <3>2, AcceptedFacts
    <3>4. QED
      BY <1>1, <3>2, <3>3
  <2>2. CASE Enter(k) \/ Start(k)
    <3>1. view[k].at \in {"queued", "leasing"} /\ posts' = posts
      BY <2>2 DEF Enter, Start
    <3>2. k # s
      BY <1>1, <3>1
    <3>3. view'[s] = view[s]
      BY <1>1, <2>2, <3>2 DEF Enter, Start
    <3>4. QED
      BY <1>1, <3>1, <3>3
  <2>3. CASE LeaseFails(k) \/ LeaseRefused(k) \/ \E outcome \in Outcomes : End(k, outcome)
    BY <1>1, <1>3, <2>3 DEF LeaseFails, LeaseRefused, End, Outcomes
  <2>4. CASE Expire(k) \/ LateLease(k) \/ ClearRow(k) \/ ClearFails(k)
    BY <1>1, <2>4 DEF Expire, LateLease, ClearRow, ClearFails
  <2>5. QED
    BY <1>4, <2>1, <2>2, <2>3, <2>4 DEF ServiceStep
<1>5. ASSUME NEW r \in reports, Report(r) \/ ReportFails(r)
      PROVE  posts'[s] = "accepted" /\ view'[s].at \in {"unknown", "over"}
  <2>1. posts' = posts /\ view' \in {view, CallbackFailed(r)}
    BY <1>5 DEF Report, ReportFails
  <2>2. CallbackFailed(r)[s] = view[s] \/ CallbackFailed(r)[s].at = "over"
    BY <1>1, CallbackFacts
  <2>3. QED
    BY <1>1, <2>1, <2>2
<1>6. CASE Restart \/ OrphanEnds \/ UNCHANGED dispatched
  BY <1>1, <1>6 DEF Restart, OrphanEnds, dispatched
<1>7. ASSUME NEW k \in Jobs \ {s}, Submit(k) \/ SubmitRefused(k)
      PROVE  posts'[s] = "accepted" /\ view'[s].at \in {"unknown", "over"}
  BY <1>1, <1>2, <1>7 DEF Submit, SubmitRefused
<1>8. ASSUME NEW k \in Jobs, Cancel(k)
      PROVE  posts'[s] = "accepted" /\ view'[s].at \in {"unknown", "over"}
  BY <1>1, <1>3, <1>8 DEF Cancel, CancelWaiting, CancelRunning, End
<1>9. QED
  BY <1>4, <1>5, <1>6, <1>7, <1>8 DEF ServicesStep, s

(* What a client was told stays, unless it asks again. *)
LEMMA AcceptedStays ==
  ASSUME DispatchInv, NEW j \in Jobs, posts[j] = "accepted",
         ServicesStep \/ UNCHANGED dispatched
         \/ \E k \in Jobs : (k # j /\ (Submit(k) \/ SubmitRefused(k))) \/ Cancel(k)
  PROVE  posts'[j] = "accepted"
<1>1. posts \in [Jobs -> {"idle", "sent", "accepted", "failed"}]
  BY DispatchTypes
<1>2. ASSUME NEW k \in Jobs, ServiceStep(k) PROVE posts'[j] = "accepted"
  <2>1. CASE Receive(k) \/ ReceiveFails(k)
    BY <1>1, <2>1 DEF Receive, ReceiveFails
  <2>2. CASE ~(Receive(k) \/ ReceiveFails(k))
    BY <1>2, <2>2 DEF ServiceStep, Enter, Start, LeaseFails, LeaseRefused, End, Expire, LateLease,
                      ClearRow, ClearFails
  <2>3. QED
    BY <2>1, <2>2
<1>3. ASSUME NEW k \in Jobs, k # j, Submit(k) \/ SubmitRefused(k) PROVE posts'[j] = "accepted"
  BY <1>1, <1>3 DEF Submit, SubmitRefused
<1>4. ASSUME NEW k \in Jobs, Cancel(k) PROVE posts'[j] = "accepted"
  BY <1>4 DEF Cancel, CancelWaiting, CancelRunning, End
<1>5. ASSUME NEW r \in reports, Report(r) \/ ReportFails(r) PROVE posts'[j] = "accepted"
  BY <1>5 DEF Report, ReportFails
<1>6. CASE Restart \/ OrphanEnds \/ UNCHANGED dispatched
  BY <1>6 DEF Restart, OrphanEnds, dispatched
<1>7. QED
  BY <1>2, <1>3, <1>4, <1>5, <1>6 DEF ServicesStep

LEMMA CandidateStays ==
  ASSUME DispatchInv, DispatchNext \/ UNCHANGED dispatched, Candidate
  PROVE  Candidate'
BY DecidedStays, StageFacts DEF Candidate

LEMMA PreflightTypes ==
  ASSUME IInv
  PROVE  /\ at \in [place : Place, n : 0 .. 7] /\ available \subseteq CheckNames
         /\ report \in Modes \cup {"none"}
         /\ at.place \in {"submit", "answer", "poll"} => at.n \in 1 .. 3 /\ Stage \in StageJobs
         /\ at.place \in {"plan", "listen"} => at.n \in 1 .. 2 /\ Plan \in Plans
         /\ DispatchInv /\ WorkerInv
<1>1. \A n \in 1 .. 2 : PlanOrder[n] \in Plans
  BY DEF PlanOrder, Plans
<1>2. QED
  BY <1>1, StageFacts DEF IInv, PreflightInv, PreflightTypeOK, PlacesOK, Stage, Plan

(* What a step of the preflight does to the services. *)
LEMMA ServicesSteps ==
  ASSUME IInv, [Next]_vars
  PROVE  /\ DispatchNext \/ UNCHANGED dispatched
         /\ WorkerInv'
<1>1. StageJobs \subseteq Jobs
  BY StageFacts DEF StageJobs
<1>2. CASE UNCHANGED profiled /\ (DispatchNext \/ UNCHANGED dispatched)
  BY <1>2, PreflightTypes, WorkerStays
<1>3. CASE Check \/ SubmitAnswered \/ Poll \/ HearProfile \/ StartRun
  BY <1>2, <1>3 DEF Check, SubmitAnswered, Poll, HearProfile, StartRun, ServicesUnchanged
<1>4. CASE SubmitStage \/ TimeUp
  <2>1. Stage \in Jobs
    BY <1>1, <1>4, PreflightTypes DEF SubmitStage, TimeUp, Here
  <2>2. QED
    BY <1>2, <1>4, <2>1 DEF SubmitStage, TimeUp, DispatchNext
<1>5. CASE AskProfile
  <2>1. UNCHANGED dispatched /\ UNCHANGED <<strays, crashes>> /\ Plan \in Plans
    BY <1>5, PreflightTypes DEF AskProfile, Here
  <2>2. Send(Plan) \/ UNCHANGED requests
    BY <1>5 DEF AskProfile
  <2>3. CASE Send(Plan)
    BY <2>1, <2>3, PreflightTypes, RequestStep
  <2>4. CASE UNCHANGED requests
    BY <1>2, <2>1, <2>4 DEF profiled
  <2>5. QED
    BY <2>1, <2>2, <2>3, <2>4
<1>6. CASE OthersStep
  BY <1>2, <1>6 DEF OthersStep, DispatchNext
<1>7. CASE ServicesStep /\ UNCHANGED <<profiled, preflighting>>
  BY <1>2, <1>7 DEF DispatchNext
<1>8. CASE WorkerStep(Candidate) /\ UNCHANGED <<dispatched, preflighting>>
  <2>1. Candidate \in BOOLEAN
    BY DEF Candidate
  <2>2. QED
    BY <1>8, <2>1, PreflightTypes, WorkerSteps
<1>9. CASE UNCHANGED vars
  BY <1>2, <1>9 DEF vars
<1>10. QED
  BY <1>3, <1>4, <1>5, <1>6, <1>7, <1>8, <1>9 DEF Next, PreflightStep

(* The preflight stands still. *)
LEMMA PreflightWaits ==
  ASSUME IInv, UNCHANGED preflighting, DispatchNext \/ UNCHANGED dispatched,
         ServicesStep \/ UNCHANGED dispatched
         \/ \E k \in Jobs \ StageJobs : Submit(k) \/ Cancel(k)
  PROVE  PreflightInv'
<1>1. at' = at /\ available' = available /\ report' = report
  BY DEF preflighting
<1>2. \A i \in 1 .. 3 : Settled(i) => Settled(i)'
  BY PreflightTypes, SettledStays, StageFacts
<1>3. \A i \in 1 .. 3 : posts[Stages[i]] = "accepted" => posts'[Stages[i]] = "accepted"
  BY PreflightTypes, AcceptedStays, StageFacts
<1>4. Candidate => Candidate'
  BY PreflightTypes, CandidateStays
<1>5. PreflightTypeOK' /\ PlacesOK'
  BY <1>1 DEF IInv, PreflightInv, PreflightTypeOK, PlacesOK
<1>6. SettledOK'
  BY <1>1, <1>2, <1>3 DEF IInv, PreflightInv, SettledOK, PlacesOK
<1>7. ReportOK'
  BY <1>1, <1>4 DEF IInv, PreflightInv, ReportOK
<1>8. QED
  BY <1>5, <1>6, <1>7 DEF PreflightInv

(* It gives up before its stages are through. *)
LEMMA GivesUp ==
  ASSUME IInv, GiveUp, at.place \in {"check", "submit", "answer", "poll"},
         DispatchNext \/ UNCHANGED dispatched
  PROVE  PreflightInv'
<1>1. /\ available' = available /\ "cuda_events" \notin available
      /\ at' = [place |-> "reported", n |-> 0] /\ report' = Mode(available)
  BY DEF GiveUp, Recording, Finish, Go, IInv, PreflightInv, ReportOK
<1>2. report' = "unavailable"
  BY <1>1 DEF Mode, HardChecks
<1>3. at'.place = "reported" /\ at'.n = 0 /\ at' \in [place : Place, n : 0 .. 7]
  BY <1>1 DEF Place
<1>4. "ncu_metrics" \in available => Candidate'
  BY PreflightTypes, CandidateStays DEF IInv, PreflightInv, ReportOK
<1>5. PreflightTypeOK'
  BY <1>1, <1>2, <1>3, PreflightTypes DEF PreflightTypeOK, Modes
<1>6. PlacesOK' /\ SettledOK'
  BY <1>1, <1>3 DEF PlacesOK, SettledOK
<1>7. ReportOK'
  BY <1>1, <1>2, <1>3, <1>4 DEF ReportOK
<1>8. QED
  BY <1>5, <1>6, <1>7 DEF PreflightInv

LEMMA CheckStep ==
  ASSUME IInv, Check
  PROVE  PreflightInv'
<1>1. /\ at.place = "check" /\ at.n \in 1 .. 7 /\ UNCHANGED dispatched
      /\ "cuda_events" \notin available /\ report = "none"
      /\ "ncu_metrics" \in available => Candidate
  BY DEF Check, Here, ServicesUnchanged, IInv, PreflightInv, PlacesOK, ReportOK
<1>2. CASE GiveUp
  BY <1>1, <1>2, GivesUp
<1>3. CASE ~GiveUp
  <2>1. /\ \/ at' = [place |-> "check", n |-> at.n + 1] /\ at.n < 7
           \/ at' = [place |-> "submit", n |-> 1]
        /\ available' = available \cup ({EarlyChecks[at.n]} \cap Recorded)
        /\ report' = report
    BY <1>1, <1>3 DEF Check, Go, Recording, EarlyChecks
  <2>2. Recorded \subseteq CheckNames /\ "cuda_events" \notin Recorded /\ "ncu_metrics" \notin Recorded
    BY DEF Recorded, CheckNames, HardChecks
  <2>3. /\ at' \in [place : Place, n : 0 .. 7]
        /\ \/ at'.place = "check" /\ at'.n \in 1 .. 7
           \/ at'.place = "submit" /\ at'.n = 1
    BY <1>1, <2>1 DEF Place
  <2>4. /\ "cuda_events" \notin available'
        /\ "ncu_metrics" \in available' => "ncu_metrics" \in available
    BY <1>1, <2>1, <2>2
  <2>5. Candidate' <=> Candidate
    BY <1>1 DEF dispatched, Candidate
  <2>6. PreflightTypeOK' /\ PlacesOK'
    BY <2>1, <2>2, <2>3, PreflightTypes DEF PreflightTypeOK, PlacesOK
  <2>7. SettledOK'
    BY <2>3, <2>4 DEF SettledOK
  <2>8. ReportOK'
    BY <1>1, <2>1, <2>3, <2>4, <2>5 DEF ReportOK
  <2>9. QED
    BY <2>6, <2>7, <2>8 DEF PreflightInv
<1>4. QED
  BY <1>2, <1>3

(* From one place among the stages to another. *)
LEMMA StagesGoOn ==
  ASSUME IInv, DispatchNext \/ UNCHANGED dispatched,
         at.place \in {"submit", "answer", "poll"},
         NEW place \in {"submit", "answer", "poll"}, NEW n \in 1 .. 3,
         at' = [place |-> place, n |-> n],
         \A i \in 1 .. 3 : i < n => Settled(i)',
         place = "poll" => posts'[Stages[n]] = "accepted",
         available' \subseteq CheckNames, "cuda_events" \notin available',
         "ncu_metrics" \in available' => "ncu_metrics" \in available,
         report' = report
  PROVE  PreflightInv'
<1>1. at'.place = place /\ at'.n = n /\ at' \in [place : Place, n : 0 .. 7]
  BY DEF Place
<1>2. /\ report = "none" /\ report' = "none"
      /\ "ncu_metrics" \in available' => Candidate
  BY DEF IInv, PreflightInv, ReportOK
<1>3. "ncu_metrics" \in available' => Candidate'
  BY <1>2, CandidateStays, PreflightTypes
<1>4. PreflightTypeOK' /\ PlacesOK'
  BY <1>1, <1>2 DEF PreflightTypeOK, PlacesOK
<1>5. SettledOK'
  BY <1>1 DEF SettledOK
<1>6. ReportOK'
  BY <1>1, <1>2, <1>3 DEF ReportOK
<1>7. QED
  BY <1>4, <1>5, <1>6 DEF PreflightInv

LEMMA SubmitStageStep ==
  ASSUME IInv, SubmitStage
  PROVE  PreflightInv'
<1>1. at.place = "submit" /\ at.n \in 1 .. 3 /\ Stage \in Jobs
  BY PreflightTypes, StageFacts DEF SubmitStage, Here, Stage
<1>2. Submit(Stage) \/ SubmitRefused(Stage)
  BY DEF SubmitStage
<1>3. CASE SubmitRefused(Stage) /\ GiveUp
  BY <1>1, <1>3, GivesUp DEF DispatchNext
<1>4. CASE Submit(Stage) /\ Go("answer", at.n) /\ UNCHANGED <<available, report>>
  <2>1. ASSUME NEW i \in 1 .. 3, i < at.n PROVE Settled(i)'
    <3>1. Settled(i) /\ Stages[i] # Stages[at.n]
      BY <1>1, <2>1 DEF IInv, PreflightInv, SettledOK
    <3>2. Stage \in Jobs \ {Stages[i]}
      BY <1>1, <3>1 DEF Stage
    <3>3. QED
      BY <1>4, <3>1, <3>2, SettledStays, PreflightTypes
  <2>2. "cuda_events" \notin available /\ available \subseteq CheckNames
    BY <1>1, PreflightTypes DEF IInv, PreflightInv, ReportOK
  <2>3. at' = [place |-> "answer", n |-> at.n] /\ available' = available /\ report' = report
    BY <1>4 DEF Go
  <2>4. DispatchNext
    BY <1>1, <1>4 DEF DispatchNext
  <2>5. QED
    BY <1>1, <2>1, <2>2, <2>3, <2>4, StagesGoOn
<1>5. QED
  BY <1>3, <1>4 DEF SubmitStage

LEMMA SubmitAnsweredStep ==
  ASSUME IInv, SubmitAnswered
  PROVE  PreflightInv'
<1>1. at.place = "answer" /\ at.n \in 1 .. 3 /\ UNCHANGED dispatched
  BY PreflightTypes DEF SubmitAnswered, Here, ServicesUnchanged
<1>2. CASE GiveUp
  BY <1>1, <1>2, GivesUp
<1>3. CASE posts[Stage] = "accepted" /\ Go("poll", at.n) /\ UNCHANGED <<available, report>>
  <2>1. \A i \in 1 .. 3 : i < at.n => Settled(i)'
    BY <1>1 DEF IInv, PreflightInv, SettledOK, Settled, dispatched
  <2>2. "cuda_events" \notin available /\ available \subseteq CheckNames
    BY <1>1, PreflightTypes DEF IInv, PreflightInv, ReportOK
  <2>3. at' = [place |-> "poll", n |-> at.n] /\ available' = available /\ report' = report
        /\ posts'[Stages[at.n]] = "accepted"
    BY <1>1, <1>3 DEF Go, Stage, dispatched
  <2>4. QED
    BY <1>1, <2>1, <2>2, <2>3, StagesGoOn
<1>4. QED
  BY <1>2, <1>3 DEF SubmitAnswered

LEMMA PollStep ==
  ASSUME IInv, Poll
  PROVE  PreflightInv'
<1>1. /\ at.place = "poll" /\ at.n \in 1 .. 3 /\ UNCHANGED dispatched
      /\ "cuda_events" \notin available /\ available \subseteq CheckNames /\ report = "none"
      /\ "ncu_metrics" \in available => Candidate
  BY PreflightTypes DEF Poll, Here, ServicesUnchanged, IInv, PreflightInv, ReportOK
<1>2. CASE GiveUp
  BY <1>1, <1>2, GivesUp
<1>3. CASE view[Stage].at = "over" /\ StageSucceeds
  <2>1. \A i \in 1 .. 3 : i <= at.n => Settled(i)
    <3>1. Settled(at.n)
      BY <1>1, <1>3 DEF IInv, PreflightInv, SettledOK, Settled, Stage
    <3>2. \A i \in 1 .. 3 : i < at.n => Settled(i)
      BY <1>1 DEF IInv, PreflightInv, SettledOK
    <3>3. QED
      BY <1>1, <3>1, <3>2
  <2>2. \A i \in 1 .. 3 : Settled(i) => Settled(i)'
    BY <1>1 DEF Settled, dispatched
  <2>3. /\ available' = available \cup ({StageChecks[at.n]}
                           \cup (IF at.n = 3 THEN {"sandbox_executor"} ELSE {}))
        /\ report' = report
    BY <1>3 DEF StageSucceeds, Recording
  <2>4. {"compile_target_arch", "kernel_launch", "cuda_events", "sandbox_executor"}
          \subseteq CheckNames
    BY DEF CheckNames, HardChecks
  <2>5. CASE at.n < 3
    <3>1. at' = [place |-> "submit", n |-> at.n + 1]
      BY <1>3, <2>5 DEF StageSucceeds, Go
    <3>2. at.n + 1 \in 1 .. 3 /\ \A i \in 1 .. 3 : i < at.n + 1 => Settled(i)'
      BY <1>1, <2>1, <2>2, <2>5
    <3>3. StageChecks[at.n] \in {"compile_target_arch", "kernel_launch"}
      BY <1>1, <2>5 DEF StageChecks
    <3>4. available' = available \cup {StageChecks[at.n]}
      BY <2>3, <2>5
    <3>5. /\ available' \subseteq CheckNames /\ "cuda_events" \notin available'
          /\ "ncu_metrics" \in available' => "ncu_metrics" \in available
      BY <1>1, <2>4, <3>3, <3>4
    <3>6. QED
      BY <1>1, <2>3, <3>1, <3>2, <3>5, StagesGoOn
  <2>6. CASE at.n = 3
    <3>1. at' = [place |-> "plan", n |-> 1]
      BY <1>3, <2>6 DEF StageSucceeds, Go
    <3>2. at'.place = "plan" /\ at'.n = 1 /\ at' \in [place : Place, n : 0 .. 7]
      BY <3>1 DEF Place
    <3>3. available' = available \cup {"cuda_events", "sandbox_executor"}
      BY <2>3, <2>6 DEF StageChecks
    <3>4. /\ available' \subseteq CheckNames
          /\ "ncu_metrics" \in available' => "ncu_metrics" \in available
      BY <1>1, <2>4, <3>3
    <3>5. Candidate' <=> Candidate
      BY <1>1 DEF dispatched, Candidate
    <3>6. PreflightTypeOK' /\ PlacesOK'
      BY <2>3, <3>2, <3>4, PreflightTypes DEF PreflightTypeOK, PlacesOK
    <3>7. SettledOK'
      BY <2>1, <2>2, <2>6, <3>2 DEF SettledOK
    <3>8. ReportOK'
      BY <1>1, <2>3, <3>2, <3>4, <3>5 DEF ReportOK
    <3>9. QED
      BY <3>6, <3>7, <3>8 DEF PreflightInv
  <2>7. QED
    BY <1>1, <2>5, <2>6
<1>4. QED
  BY <1>2, <1>3 DEF Poll

LEMMA TimeUpStep ==
  ASSUME IInv, TimeUp
  PROVE  PreflightInv'
<1>1. at.place = "poll" /\ Stage \in Jobs /\ GiveUp /\ Cancel(Stage)
  BY PreflightTypes, StageFacts DEF TimeUp, Here, Stage
<1>2. DispatchNext
  BY <1>1 DEF DispatchNext
<1>3. QED
  BY <1>1, <1>2, GivesUp

(* Once the stages are through, the services stand still in its steps. *)
LEMMA AfterStages ==
  ASSUME IInv, UNCHANGED dispatched,
         NEW place \in {"plan", "listen", "reported", "started"}, NEW n \in 0 .. 2,
         place \in {"plan", "listen"} => n \in 1 .. 2,
         at' = [place |-> place, n |-> n],
         available' \subseteq CheckNames, available \subseteq available',
         "cuda_events" \in available' => "cuda_events" \in available,
         place = "listen" \/ "ncu_metrics" \in available' => Candidate,
         report' = report \/ report' = Mode(available'),
         place \in {"plan", "listen"} => report' = report /\ report = "none",
         place = "reported" => report' = Mode(available'),
         place = "started" => report' = report /\ report \notin {"none", "unavailable"}
  PROVE  PreflightInv'
<1>1. at'.place = place /\ at'.n = n /\ at' \in [place : Place, n : 0 .. 7]
  BY DEF Place
<1>2. Candidate' <=> Candidate
  BY DEF dispatched, Candidate
<1>3. \A i \in 1 .. 3 : Settled(i)' <=> Settled(i)
  BY DEF dispatched, Settled
<1>4. /\ report' = Mode(available') => report' \in Modes
      /\ report' = Mode(available') /\ report' # "unavailable" => "cuda_events" \in available'
      /\ report' = Mode(available') /\ report' = "full_diagnostics" => "ncu_metrics" \in available'
  BY DEF Mode, Modes, HardChecks
<1>5. PreflightTypeOK'
  BY <1>1, <1>4, PreflightTypes DEF PreflightTypeOK
<1>6. PlacesOK'
  BY <1>1 DEF PlacesOK
<1>7. SettledOK'
  BY <1>1, <1>3 DEF SettledOK, IInv, PreflightInv
<1>8. ReportOK'
  <2>1. /\ report \in {"none", "unavailable"} \/ "cuda_events" \in available
        /\ report = "full_diagnostics" => "ncu_metrics" \in available
    BY DEF ReportOK, IInv, PreflightInv
  <2>2. /\ report' \in {"none", "unavailable"} \/ "cuda_events" \in available'
        /\ report' = "full_diagnostics" => "ncu_metrics" \in available'
    BY <1>4, <2>1
  <2>3. Mode(available') # "none"
    BY DEF Mode
  <2>4. report' = "none" <=> place \notin {"reported", "started"}
    BY <2>3
  <2>5. QED
    BY <1>1, <1>2, <2>2, <2>4 DEF ReportOK
<1>9. QED
  BY <1>5, <1>6, <1>7, <1>8 DEF PreflightInv

LEMMA PlansGoOn ==
  ASSUME IInv, UNCHANGED dispatched, at.place \in {"plan", "listen"}, NextPlan,
         available' \subseteq CheckNames, available \subseteq available',
         "cuda_events" \in available' => "cuda_events" \in available,
         "ncu_metrics" \in available' => Candidate
  PROVE  PreflightInv'
<1>1. report = "none"
  BY DEF IInv, PreflightInv, ReportOK
<1>2. CASE Go("plan", 2) /\ UNCHANGED report
  <2>1. at' = [place |-> "plan", n |-> 2] /\ report' = report
    BY <1>2 DEF Go
  <2>2. QED
    BY <1>1, <2>1, AfterStages
<1>3. CASE Finish
  <2>1. at' = [place |-> "reported", n |-> 0] /\ report' = Mode(available')
    BY <1>3 DEF Finish, Go
  <2>2. QED
    BY <2>1, AfterStages
<1>4. QED
  BY <1>2, <1>3 DEF NextPlan

LEMMA AskProfileStep ==
  ASSUME IInv, AskProfile
  PROVE  PreflightInv'
<1>1. at.place = "plan" /\ at.n \in 1 .. 2 /\ UNCHANGED dispatched /\ available' = available
  BY PreflightTypes DEF AskProfile, Here, Recording
<1>2. /\ "ncu_metrics" \in available => Candidate
      /\ available \subseteq CheckNames /\ report = "none"
  BY <1>1, PreflightTypes DEF IInv, PreflightInv, ReportOK
<1>3. CASE Candidate /\ Go("listen", at.n) /\ UNCHANGED report
  <2>1. at' = [place |-> "listen", n |-> at.n] /\ report' = report
    BY <1>3 DEF Go
  <2>2. at.n \in 0 .. 2
    BY <1>1
  <2>3. QED
    BY <1>1, <1>2, <1>3, <2>1, <2>2, AfterStages
<1>4. CASE NextPlan
  BY <1>1, <1>2, <1>4, PlansGoOn
<1>5. QED
  BY <1>3, <1>4 DEF AskProfile

LEMMA HearProfileStep ==
  ASSUME IInv, HearProfile
  PROVE  PreflightInv'
<1>1. at.place = "listen" /\ at.n \in 1 .. 2 /\ UNCHANGED dispatched /\ NextPlan
      /\ available \subseteq CheckNames /\ Candidate
  BY PreflightTypes DEF HearProfile, Here, ServicesUnchanged, IInv, PreflightInv, ReportOK
<1>2. PlanCheck[Plan] \in {"nsys_cuda_trace", "ncu_metrics"}
  <2>1. Plan \in {"nsys_timeline_v1", "ncu_triage_v1"}
    BY <1>1 DEF Plan, PlanOrder
  <2>2. QED
    BY <2>1 DEF PlanCheck
<1>3. available' = available \/ available' = available \cup {PlanCheck[Plan]}
  BY DEF HearProfile, Recording
<1>4. /\ available' \subseteq CheckNames /\ available \subseteq available'
      /\ "cuda_events" \in available' => "cuda_events" \in available
  BY <1>1, <1>2, <1>3 DEF CheckNames
<1>5. QED
  BY <1>1, <1>4, PlansGoOn

LEMMA StartRunStep ==
  ASSUME IInv, StartRun
  PROVE  PreflightInv'
<1>1. /\ at.place = "reported" /\ report # "unavailable" /\ UNCHANGED dispatched
      /\ at' = [place |-> "started", n |-> 0] /\ available' = available /\ report' = report
      /\ available \subseteq CheckNames
      /\ "ncu_metrics" \in available => Candidate
  BY PreflightTypes DEF StartRun, Here, Go, ServicesUnchanged, IInv, PreflightInv, ReportOK
<1>2. report # "none"
  BY <1>1 DEF IInv, PreflightInv, ReportOK
<1>3. QED
  BY <1>1, <1>2, AfterStages

-------------------------------------------------------------------------------
(* The preflight with the services: the inductive invariant and what it    *)
(* says about them.                                                        *)

LEMMA IInvStarts == Init => IInv
<1> SUFFICES ASSUME Init PROVE IInv
  OBVIOUS
<1>1. DispatchInv /\ WorkerInv
  BY DispatchStarts, WorkerStarts DEF Init
<1>2. at = [place |-> "check", n |-> 1] /\ available = {} /\ report = "none"
  BY DEF Init
<1>3. at.place = "check" /\ at.n = 1 /\ at \in [place : Place, n : 0 .. 7]
  BY <1>2 DEF Place
<1>4. PreflightInv
  BY <1>2, <1>3 DEF PreflightInv, PreflightTypeOK, PlacesOK, SettledOK, ReportOK
<1>5. QED
  BY <1>1, <1>4 DEF IInv

LEMMA IInvKept == IInv /\ [Next]_vars => IInv'
<1> SUFFICES ASSUME IInv, [Next]_vars PROVE IInv'
  OBVIOUS
<1>1. DispatchNext \/ UNCHANGED dispatched
  BY ServicesSteps
<1>2. DispatchInv' /\ WorkerInv'
  BY <1>1, ServicesSteps, DispatchStep, DispatchStays, PreflightTypes
<1>3. PreflightInv'
  <2>1. CASE PreflightStep
    BY <2>1, CheckStep, SubmitStageStep, SubmitAnsweredStep, PollStep, TimeUpStep, AskProfileStep,
       HearProfileStep, StartRunStep DEF PreflightStep
  <2>2. CASE OthersStep
    BY <1>1, <2>2, PreflightWaits DEF OthersStep
  <2>3. CASE ServicesStep /\ UNCHANGED <<profiled, preflighting>>
    BY <1>1, <2>3, PreflightWaits
  <2>4. CASE WorkerStep(Candidate) /\ UNCHANGED <<dispatched, preflighting>>
    BY <1>1, <2>4, PreflightWaits
  <2>5. CASE UNCHANGED vars
    BY <1>1, <2>5, PreflightWaits DEF vars
  <2>6. QED
    BY <2>1, <2>2, <2>3, <2>4, <2>5 DEF Next
<1>4. QED
  BY <1>2, <1>3 DEF IInv

(* What the services, their requests and the preflight know of one another *)
(* at every moment: the inductive invariant.                               *)
THEOREM PreflightInvariant == Spec => []IInv
BY IInvStarts, IInvKept, PTL DEF Spec

(* Every variable of the services and of the preflight keeps its type. *)
THEOREM TypeCorrect == Spec => []TypeOK
<1>1. IInv => TypeOK
  BY DEF IInv, DispatchInv, WorkerInv, PreflightInv, PreflightTypeOK, TypeOK
<1>2. QED
  BY <1>1, PreflightInvariant, PTL

(* A preflight, its time-outs and retries and the other clients ask of     *)
(* Control and Supervisor only what Dispatch allows: what is proved of     *)
(* Dispatch holds under it.                                                *)
THEOREM PreflightUsesDispatch == Spec => DispatchSpec
<1>1. Init => DispatchInit
  BY DEF Init
<1>2. IInv /\ [Next]_vars => [DispatchNext]_dispatched
  BY ServicesSteps
<1>3. QED
  BY <1>1, <1>2, PreflightInvariant, PTL DEF Spec, DispatchSpec

(* The two invariants of Dispatch, with a preflight as its client. *)
THEOREM LeasedInPreflight == Spec => []ProgramsAreLeased
BY PreflightUsesDispatch, LeasedPrograms, PTL

THEOREM StrandedInPreflight == Spec => []StrandedOnlyByFault
BY PreflightUsesDispatch, OnlyFaultsStrand, PTL

(* However long a request waited and whatever its tool does, the tools of  *)
(* a profile have the GPU for at most two runs and two exports of the time *)
(* computed on arrival, for ncu one of each (GpuHeldBounded).              *)
THEOREM GpuTimeBounded == Spec => []GpuHeldBounded
<1>1. IInv => GpuHeldBounded
  BY WorkerBounded DEF IInv
<1>2. QED
  BY <1>1, PreflightInvariant, PTL

LEMMA Earned == IInv => FullModeIsEarned
<1> SUFFICES ASSUME IInv PROVE FullModeIsEarned
  OBVIOUS
<1>1. report = "full_diagnostics" => Candidate
  BY DEF IInv, PreflightInv, ReportOK
<1>2. ASSUME at.place = "started", NEW p \in programs, p.job \in StageJobs
      PROVE  p.orphan
  <2>1. \A i \in 1 .. 3 : Settled(i)
    BY <1>2 DEF IInv, PreflightInv, ReportOK, SettledOK
  <2>2. PICK i \in 1 .. 3 : p.job = Stages[i]
    BY <1>2 DEF StageJobs
  <2>3. view[p.job].at # "running"
    BY <2>1, <2>2 DEF Settled
  <2>4. QED
    BY <2>3 DEF IInv, DispatchInv, SupervisorOK
<1>3. QED
  BY <1>1, <1>2 DEF FullModeIsEarned, Candidate, Here

(* Full diagnostics are reported only when Control has recorded the        *)
(* success of compilation and correctness; a run starts on a report when   *)
(* no stage of its preflight runs any more, but one that outlived its      *)
(* Supervisor (FullModeIsEarned).                                          *)
THEOREM ReportsAreEarned == Spec => []FullModeIsEarned
BY Earned, PreflightInvariant, PTL


===============================================================================
