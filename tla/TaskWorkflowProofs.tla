--------------------------- MODULE TaskWorkflowProofs --------------------------
(***************************************************************************)
(* The invariants of TaskWorkflow for every number of problems, rollouts   *)
(* and launches, every concurrency and whatever the rollouts return.       *)
(***************************************************************************)
EXTENDS TaskWorkflow, FiniteSetTheorems, TLAPS

USE ConcurrencyAssumption, ProblemsAssumption, TrajectoriesAssumption

-------------------------------------------------------------------------------
(* The inductive invariant speaks of one problem at a time: its place a,   *)
(* folder f, rollouts r, outcome o and report n.                           *)

(* .finished is written after the failure marker and goes with it, and     *)
(* both stand in the folder of a run reported as anything but improved.    *)
FolderOK(f, n) ==
    /\ f.finished => f.failed
    /\ n = "none" => ~f.finished
    /\ n = "improved" => f.final = "whole" /\ ~f.failed
    /\ n \notin {"none", "improved"} => f.failed /\ f.finished

(* Markers at each place: Start removes them, the end of the run writes    *)
(* them.                                                                   *)
MarkersOK(a, f, n, again) ==
    /\ a = "queued" => ~Skips(f, again)
    /\ a \in InWorkflow \ {"finishing"} => ~f.failed
    /\ a = "finishing" => f.failed
    /\ a \in InWorkflow \cup {"escaped"} => n = "none"

(* What the final file is at each place, and the outcome it goes with. *)
FinalOK(a, f, o) ==
    /\ a \in {"initializing", "rolling", "rebaselining", "confirming", "promoting"}
         => f.final = "absent"
    /\ a = "writing" => f.final = "torn"
    /\ a = "leaving" => IF o = "improved" THEN f.final = "whole" ELSE f.final = "absent"
    /\ a \in {"leaving", "marking", "finishing"} => o # "none"
    /\ a \in {"marking", "finishing"} =>
         /\ o # "improved"
         /\ f.final = "whole" => o \in {"timeout", "failed"}
         /\ f.final = "torn" => o = "failed"

(* Only the search, or a workflow that failed or ran out of time, has      *)
(* rollouts.                                                               *)
RolloutsOK(a, r, o) ==
    (\E i \in Rollouts : r[i].at = "running") =>
        a = "rolling" \/ (o \in {"timeout", "failed"} /\ a \notin {"idle", "confirming"})

OutcomeOK(a, o) ==
    a \in {"idle", "queued", "initializing", "rolling", "rebaselining", "confirming",
           "promoting", "writing"} => o = "none"

ReportOK(a, f, o, n) ==
    a = "reported" => /\ n = o /\ o # "none"
                      /\ o # "improved" => /\ f.final = "whole" => o \in {"timeout", "failed"}
                                           /\ f.final = "torn" => o = "failed"

RowOK(a, f, r, o, n, again) ==
    /\ FolderOK(f, n) /\ MarkersOK(a, f, n, again) /\ FinalOK(a, f, o)
    /\ RolloutsOK(a, r, o) /\ OutcomeOK(a, o) /\ ReportOK(a, f, o, n)

Rows == \A p \in Problems :
          RowOK(at[p], folders[p], rollouts[p], outcome[p], reports[p], retry)

IInv == /\ TypeOK /\ Rows
        /\ ~up => \A p \in Problems : at[p] = "idle"
        /\ Cardinality(Busy) <= Concurrency

-------------------------------------------------------------------------------
(* A step of one problem leaves the rows of the others alone.              *)
Only(p) == /\ up' = up /\ retry' = retry /\ launches' = launches
           /\ \A q \in Problems \ {p} :
                /\ at'[q] = at[q] /\ folders'[q] = folders[q]
                /\ rollouts'[q] = rollouts[q] /\ outcome'[q] = outcome[q]
                /\ reports'[q] = reports[q]

(* What is proved of the problem that steps. *)
RowStep(p) == /\ TypeOK' /\ Only(p)
              /\ RowOK(at'[p], folders'[p], rollouts'[p], outcome'[p], reports'[p], retry)

(* A set of problems is finite, and so is every subset of it. *)
LEMMA BusyFinite ==
  /\ IsFiniteSet(Busy) /\ Cardinality(Busy) \in Nat
  /\ IsFiniteSet(Busy') /\ Cardinality(Busy') \in Nat
<1>1. Busy \subseteq Problems /\ Busy' \subseteq Problems
  BY DEF Busy
<1> QED BY <1>1, FS_Subset, FS_CardinalityType

(* A problem that is already in the workflow, or stays out of it, does not *)
(* make the workflows more.                                                *)
LEMMA StepKeeps ==
  ASSUME IInv, up, NEW p \in Problems, RowStep(p),
         at'[p] \in InWorkflow => at[p] \in InWorkflow
  PROVE  IInv'
<1>1. Rows'
  BY DEF IInv, Rows, RowStep, Only
<1>2. Busy' \subseteq Busy
  BY DEF Busy, RowStep, Only
<1>3. Cardinality(Busy') <= Cardinality(Busy)
  BY <1>2, BusyFinite, FS_Subset
<1> QED BY <1>1, <1>3, BusyFinite DEF IInv, RowStep, Only

-------------------------------------------------------------------------------
(* Whatever place a workflow ends from, the rollouts it leaves running go  *)
(* with a failure or a timeout.                                            *)
LEMMA EndsWithKeeps ==
  ASSUME TypeOK, NEW p \in Problems, NEW status \in Statuses, NEW place \in Places,
         EndsWith(p, status, place)
  PROVE  /\ at' \in [Problems -> Places] /\ at'[p] = place
         /\ outcome' \in [Problems -> Statuses \cup {"none"}] /\ outcome'[p] = status
         /\ rollouts' \in [Problems -> [Rollouts -> Rollout]]
         /\ baseline' \in [Problems -> BOOLEAN]
         /\ \A i \in Rollouts : rollouts'[p][i].at = "running" => rollouts[p][i].at = "running"
         /\ \A q \in Problems \ {p} : /\ at'[q] = at[q] /\ outcome'[q] = outcome[q]
                                      /\ rollouts'[q] = rollouts[q]
<1>1. Abandoned(p) \in [Rollouts -> Rollout]
  BY DEF Abandoned, Rollout, NoRollout
<1>2. rollouts' \in [Problems -> [Rollouts -> Rollout]] /\ rollouts'[p] = Abandoned(p)
  BY <1>1 DEF EndsWith, TypeOK
<1>3. \A i \in Rollouts : Abandoned(p)[i].at = "running" => rollouts[p][i].at = "running"
  BY DEF Abandoned, Running, NoRollout
<1> QED BY <1>2, <1>3 DEF EndsWith, TypeOK

LEMMA StartKeeps ==
  ASSUME IInv, up, NEW p \in Problems, Start(p)
  PROVE  IInv'
<1>1. TypeOK'
  <2>1. folders[p] \in Folder
    BY DEF IInv, TypeOK
  <2>2. [folders[p] EXCEPT !.failed = FALSE,
             !.finished = folders[p].finished /\ ~(folders[p].failed /\ retry)] \in Folder
    BY <2>1 DEF Folder
  <2>3. folders' \in [Problems -> Folder]
    BY <2>2 DEF IInv, TypeOK, Start
  <2>4. at' \in [Problems -> Places]
    BY DEF IInv, TypeOK, Start, Goes, Places, InWorkflow, Awaiting
  <2>5. reports' \in [Problems -> Statuses \cup {"none"}]
    BY DEF IInv, TypeOK, Start
  <2>6. UNCHANGED <<launches, up, retry, rollouts, best, baseline, outcome>>
    BY DEF Start
  <2> QED BY <2>3, <2>4, <2>5, <2>6 DEF IInv, TypeOK
<1>2. Only(p)
  BY DEF IInv, TypeOK, Start, Goes, Only
<1>3. /\ at[p] = "queued" /\ at'[p] = "initializing" /\ reports'[p] = "none"
      /\ folders'[p].final = folders[p].final /\ ~folders'[p].failed
      /\ folders'[p].finished = (folders[p].finished /\ ~(folders[p].failed /\ retry))
      /\ rollouts'[p] = rollouts[p] /\ outcome'[p] = outcome[p]
  BY DEF IInv, TypeOK, Start, Goes, Folder
<1>4. RowOK(at[p], folders[p], rollouts[p], outcome[p], reports[p], retry)
  BY DEF IInv, Rows
<1>5. folders[p].final = "absent" /\ ~folders'[p].finished
  BY <1>3, <1>4 DEF RowOK, MarkersOK, FolderOK, Skips
<1>6. RowOK(at'[p], folders'[p], rollouts'[p], outcome'[p], reports'[p], retry)
  BY <1>3, <1>4, <1>5 DEF RowOK, FolderOK, MarkersOK, FinalOK, RolloutsOK, OutcomeOK,
     ReportOK, InWorkflow, Awaiting
<1>7. Rows'
  BY <1>2, <1>6 DEF IInv, Rows, Only
<1>8. Busy' = Busy \cup {p} /\ p \notin Busy
  BY <1>2, <1>3 DEF Busy, Only, InWorkflow, Awaiting
<1>9. Cardinality(Busy') = Cardinality(Busy) + 1 /\ Cardinality(Busy) < Concurrency
  BY <1>8, BusyFinite, FS_AddElement DEF Start
<1> QED BY <1>1, <1>2, <1>7, <1>9, BusyFinite DEF IInv, Only

-------------------------------------------------------------------------------
(* The steps that end a workflow.                                          *)
LEMMA EndingKeeps ==
  ASSUME IInv, up, NEW p \in Problems, NEW status \in Statuses,
         NEW place \in {"leaving", "marking"}, EndsWith(p, status, place),
         at[p] \in Awaiting \cup {"promoting", "writing"},
         UNCHANGED <<launches, up, retry, reports>>,
         folders' \in [Problems -> Folder],
         \A q \in Problems \ {p} : folders'[q] = folders[q],
         folders'[p].failed = folders[p].failed,
         folders'[p].finished = folders[p].finished,
         FinalOK(place, folders'[p], status),
         \/ status \in {"timeout", "failed"}
         \/ \A i \in Rollouts : rollouts[p][i].at # "running"
  PROVE  IInv'
<1>1. /\ at' \in [Problems -> Places] /\ at'[p] = place
      /\ outcome' \in [Problems -> Statuses \cup {"none"}] /\ outcome'[p] = status
      /\ rollouts' \in [Problems -> [Rollouts -> Rollout]]
      /\ baseline' \in [Problems -> BOOLEAN]
      /\ \A i \in Rollouts : rollouts'[p][i].at = "running" => rollouts[p][i].at = "running"
      /\ \A q \in Problems \ {p} : /\ at'[q] = at[q] /\ outcome'[q] = outcome[q]
                                   /\ rollouts'[q] = rollouts[q]
  BY EndsWithKeeps DEF IInv, Places, InWorkflow, Awaiting
<1>2. TypeOK' /\ Only(p)
  BY <1>1 DEF IInv, TypeOK, Only
<1>3. RowOK(at[p], folders[p], rollouts[p], outcome[p], reports[p], retry)
  BY DEF IInv, Rows
<1>4. reports'[p] = "none" /\ ~folders'[p].failed /\ ~folders'[p].finished
  BY <1>3 DEF RowOK, MarkersOK, FolderOK, InWorkflow, Awaiting
<1>5. RolloutsOK(place, rollouts'[p], status)
  BY <1>1 DEF RolloutsOK
<1>6. RowOK(at'[p], folders'[p], rollouts'[p], outcome'[p], reports'[p], retry)
  BY <1>1, <1>4, <1>5 DEF RowOK, FolderOK, MarkersOK, OutcomeOK, ReportOK, InWorkflow
<1> QED BY <1>2, <1>6, StepKeeps DEF RowStep, InWorkflow

LEMMA TimeOutKeeps ==
  ASSUME IInv, up, NEW p \in Problems, TimeOut(p)
  PROVE  IInv'
<1>1. FinalOK(at[p], folders[p], outcome[p])
  BY DEF IInv, Rows, RowOK
<1>2. FinalOK("marking", folders[p], "timeout")
  BY <1>1 DEF FinalOK, TimeOut, Awaiting
<1> QED BY <1>2, EndingKeeps DEF TimeOut, IInv, TypeOK, Statuses

LEMMA RaiseKeeps ==
  ASSUME IInv, up, NEW p \in Problems, Raise(p)
  PROVE  IInv'
<1>1. FinalOK(at[p], folders[p], outcome[p])
  BY DEF IInv, Rows, RowOK
<1>2. FinalOK("marking", folders[p], "failed")
  BY <1>1 DEF FinalOK, Raise
<1> QED BY <1>2, EndingKeeps DEF Raise, IInv, TypeOK, Statuses, Awaiting

(* The steps that leave the node without a final file. *)
LEMMA LeavingKeeps ==
  ASSUME IInv, up, NEW p \in Problems, NEW status \in {"failed", "no_improvement"},
         EndsWith(p, status, "leaving"),
         at[p] \in {"initializing", "rolling", "rebaselining", "confirming"},
         UNCHANGED <<folders, launches, up, retry, reports>>,
         status = "failed" \/ at[p] # "rolling"
  PROVE  IInv'
<1>1. FinalOK(at[p], folders[p], outcome[p]) /\ RolloutsOK(at[p], rollouts[p], outcome[p])
      /\ OutcomeOK(at[p], outcome[p])
  BY DEF IInv, Rows, RowOK
<1>2. FinalOK("leaving", folders[p], status)
  BY <1>1 DEF FinalOK
<1>3. status = "failed" \/ \A i \in Rollouts : rollouts[p][i].at # "running"
  BY <1>1 DEF RolloutsOK, OutcomeOK
<1> QED BY <1>2, <1>3, EndingKeeps DEF IInv, TypeOK, Statuses, Awaiting

LEMMA WriteFinalKeeps ==
  ASSUME IInv, up, NEW p \in Problems, WriteFinal(p)
  PROVE  IInv'
<1>1. RolloutsOK(at[p], rollouts[p], outcome[p]) /\ OutcomeOK(at[p], outcome[p])
  BY DEF IInv, Rows, RowOK
<1>2. \A i \in Rollouts : rollouts[p][i].at # "running"
  BY <1>1 DEF RolloutsOK, OutcomeOK, WriteFinal
<1>3. /\ folders' \in [Problems -> Folder]
      /\ folders'[p].final = "whole"
      /\ folders'[p].failed = folders[p].failed
      /\ folders'[p].finished = folders[p].finished
      /\ \A q \in Problems \ {p} : folders'[q] = folders[q]
  BY ZenonT(60) DEF WriteFinal, IInv, TypeOK, Folder
<1>4. FinalOK("leaving", folders'[p], "improved")
  BY <1>3 DEF FinalOK
<1> QED BY <1>2, <1>3, <1>4, EndingKeeps DEF WriteFinal, Statuses

-------------------------------------------------------------------------------
(* The steps of a workflow that goes on.                                   *)
LEMMA InitializeKeeps ==
  ASSUME IInv, up, NEW p \in Problems, Initialize(p)
  PROVE  IInv'
<1>1. CASE EndsWith(p, "failed", "leaving")
  BY <1>1, LeavingKeeps DEF Initialize
<1>2. CASE ~EndsWith(p, "failed", "leaving")
  <2>1. /\ at[p] = "initializing" /\ at' = [at EXCEPT ![p] = "rolling"]
        /\ baseline' \in [Problems -> BOOLEAN]
        /\ rollouts' = [rollouts EXCEPT ![p] =
                           [i \in Rollouts |-> [at |-> "running", steps |-> <<>>]]]
        /\ UNCHANGED <<best, outcome, folders, launches, up, retry, reports>>
    BY <1>2 DEF Initialize, IInv, TypeOK
  <2>2. TypeOK'
    BY <2>1 DEF IInv, TypeOK, Places, InWorkflow, Awaiting, Rollout
  <2>3. Only(p) /\ at'[p] = "rolling"
    BY <2>1 DEF IInv, TypeOK, Only
  <2>4. RowOK(at[p], folders[p], rollouts[p], outcome[p], reports[p], retry)
    BY DEF IInv, Rows
  <2>5. RowOK(at'[p], folders'[p], rollouts'[p], outcome'[p], reports'[p], retry)
    BY <2>1, <2>3, <2>4 DEF RowOK, MarkersOK, FinalOK, RolloutsOK, OutcomeOK, ReportOK,
       InWorkflow, Awaiting
  <2> QED BY <2>1, <2>2, <2>3, <2>5, StepKeeps DEF RowStep, InWorkflow, Awaiting
<1> QED BY <1>1, <1>2

LEMMA RolloutEndsKeeps ==
  ASSUME IInv, up, NEW p \in Problems, NEW i \in Rollouts, RolloutEnds(p, i)
  PROVE  IInv'
<1>1. PICK r \in Rollout : /\ r.at # "running"
                          /\ rollouts' = [rollouts EXCEPT ![p][i] = r]
  <2>1. CASE at[p] = "rolling"
    <3>1. PICK t \in Trajectories :
            rollouts' = [rollouts EXCEPT ![p][i] = [at |-> "ended", steps |-> t]]
      BY <2>1 DEF RolloutEnds
    <3>2. [at |-> "ended", steps |-> t] \in Rollout
      BY DEF Rollout
    <3> QED BY <3>1, <3>2
  <2>2. CASE at[p] # "rolling"
    BY <2>2 DEF RolloutEnds, NoRollout, Rollout
  <2> QED BY <2>1, <2>2
<1>2. /\ rollouts' \in [Problems -> [Rollouts -> Rollout]]
      /\ \A k \in Rollouts : rollouts'[p][k].at = "running" => rollouts[p][k].at = "running"
      /\ \A q \in Problems \ {p} : rollouts'[q] = rollouts[q]
  BY <1>1 DEF IInv, TypeOK
<1>3. TypeOK' /\ Only(p)
  BY <1>2 DEF IInv, TypeOK, RolloutEnds, Only
<1>4. RowOK(at[p], folders[p], rollouts[p], outcome[p], reports[p], retry)
  BY DEF IInv, Rows
<1>5. RolloutsOK(at[p], rollouts'[p], outcome[p])
  BY <1>2, <1>4 DEF RowOK, RolloutsOK
<1> QED BY <1>3, <1>4, <1>5, StepKeeps DEF RowStep, RowOK, RolloutEnds

LEMMA CollectKeeps ==
  ASSUME IInv, up, NEW p \in Problems, NEW i \in Rollouts, Collect(p, i)
  PROVE  IInv'
<1>1. /\ rollouts' \in [Problems -> [Rollouts -> Rollout]]
      /\ \A q \in Problems \ {p} : rollouts'[q] = rollouts[q]
  <2> DEFINE r == [rollouts[p][i] EXCEPT !.at = "collected"]
  <2>1. rollouts[p][i] \in Rollout
    BY DEF IInv, TypeOK
  <2>2. r \in Rollout
    BY <2>1 DEF Rollout
  <2>3. rollouts' = [rollouts EXCEPT ![p][i] = r]
    BY DEF Collect
  <2> HIDE DEF r
  <2> QED BY <2>2, <2>3 DEF IInv, TypeOK
<1>2. TypeOK' /\ Only(p)
  BY <1>1 DEF IInv, TypeOK, Collect, Only
<1>3. RowOK(at[p], folders[p], rollouts[p], outcome[p], reports[p], retry)
  BY DEF IInv, Rows
<1>4. RolloutsOK(at[p], rollouts'[p], outcome[p])
  BY DEF RolloutsOK, Collect
<1> QED BY <1>2, <1>3, <1>4, StepKeeps DEF RowStep, RowOK, Collect

(* Going on to the gate: no rollout runs any more. *)
LEMMA GoesOnKeeps ==
  ASSUME IInv, up, NEW p \in Problems,
         NEW place \in {"rebaselining", "confirming", "promoting"},
         at[p] \in {"rolling", "rebaselining", "confirming"},
         \A i \in Rollouts : rollouts[p][i].at # "running",
         at' = [at EXCEPT ![p] = place], baseline' \in [Problems -> BOOLEAN],
         UNCHANGED <<folders, launches, up, retry, rollouts, best, outcome, reports>>
  PROVE  IInv'
<1>1. TypeOK' /\ Only(p) /\ at'[p] = place
  BY DEF IInv, TypeOK, Places, InWorkflow, Awaiting, Only
<1>2. RowOK(at[p], folders[p], rollouts[p], outcome[p], reports[p], retry)
  BY DEF IInv, Rows
<1>3. RowOK(place, folders[p], rollouts[p], outcome[p], reports[p], retry)
  BY <1>2 DEF RowOK, MarkersOK, FinalOK, RolloutsOK, OutcomeOK, ReportOK, InWorkflow, Awaiting
<1> QED BY <1>1, <1>3, StepKeeps DEF RowStep, InWorkflow, Awaiting

(* Past the search nothing runs. *)
LEMMA GateAlone ==
  ASSUME IInv, NEW p \in Problems, at[p] \in {"rebaselining", "confirming"}
  PROVE  \A i \in Rollouts : rollouts[p][i].at # "running"
<1>1. RolloutsOK(at[p], rollouts[p], outcome[p]) /\ OutcomeOK(at[p], outcome[p])
  BY DEF IInv, Rows, RowOK
<1> QED BY <1>1 DEF RolloutsOK, OutcomeOK

LEMMA SearchOverKeeps ==
  ASSUME IInv, up, NEW p \in Problems, SearchOver(p)
  PROVE  IInv'
<1>1. CASE EndsWith(p, "failed", "leaving")
  BY <1>1, LeavingKeeps DEF SearchOver
<1>2. CASE at' = [at EXCEPT ![p] = NextPlace(p)] /\ UNCHANGED <<rollouts, best, baseline, outcome>>
  BY <1>2, GoesOnKeeps DEF SearchOver, NextPlace, IInv, TypeOK
<1> QED BY <1>1, <1>2 DEF SearchOver

LEMMA RebaselineKeeps ==
  ASSUME IInv, up, NEW p \in Problems, Rebaseline(p)
  PROVE  IInv'
<1>1. CASE EndsWith(p, "no_improvement", "leaving") \/ EndsWith(p, "failed", "leaving")
  BY <1>1, LeavingKeeps DEF Rebaseline
<1>2. CASE /\ at' = [at EXCEPT ![p] = "confirming"]
           /\ baseline' = [baseline EXCEPT ![p] = TRUE]
           /\ UNCHANGED <<rollouts, best, outcome>>
  <2>1. baseline' \in [Problems -> BOOLEAN]
    BY <1>2 DEF IInv, TypeOK
  <2> QED BY <1>2, <2>1, GoesOnKeeps, GateAlone DEF Rebaseline
<1> QED BY <1>1, <1>2 DEF Rebaseline

LEMMA ConfirmKeeps ==
  ASSUME IInv, up, NEW p \in Problems, Confirm(p)
  PROVE  IInv'
<1>1. CASE EndsWith(p, "no_improvement", "leaving")
  BY <1>1, LeavingKeeps DEF Confirm
<1>2. CASE at' = [at EXCEPT ![p] = "promoting"] /\ UNCHANGED <<rollouts, best, baseline, outcome>>
  BY <1>2, GoesOnKeeps, GateAlone DEF Confirm, IInv, TypeOK
<1> QED BY <1>1, <1>2 DEF Confirm

-------------------------------------------------------------------------------
(* Writing the folder and reporting.                                       *)
LEMMA OpenFinalKeeps ==
  ASSUME IInv, up, NEW p \in Problems, OpenFinal(p)
  PROVE  IInv'
<1>1. TypeOK' /\ Only(p) /\ at[p] = "promoting" /\ at'[p] = "writing"
  BY DEF IInv, TypeOK, OpenFinal, Goes, Only, Places, InWorkflow, Folder
<1>2. /\ folders'[p].final = "torn" /\ folders'[p].failed = folders[p].failed
      /\ folders'[p].finished = folders[p].finished
      /\ UNCHANGED <<rollouts, outcome, reports, retry>>
  BY DEF IInv, TypeOK, OpenFinal, Folder
<1>3. RowOK(at[p], folders[p], rollouts[p], outcome[p], reports[p], retry)
  BY DEF IInv, Rows
<1>4. RowOK(at'[p], folders'[p], rollouts'[p], outcome'[p], reports'[p], retry)
  BY <1>1, <1>2, <1>3 DEF RowOK, FolderOK, MarkersOK, FinalOK, RolloutsOK, OutcomeOK,
     ReportOK, InWorkflow, Awaiting
<1> QED BY <1>1, <1>4, StepKeeps DEF RowStep, InWorkflow

LEMMA LeaveKeeps ==
  ASSUME IInv, up, NEW p \in Problems, Leave(p)
  PROVE  IInv'
<1>1. RowOK(at[p], folders[p], rollouts[p], outcome[p], reports[p], retry)
  BY DEF IInv, Rows
<1>2. at[p] = "leaving" /\ UNCHANGED <<folders, launches, up, retry, rollouts, baseline, outcome>>
  BY DEF Leave
<1>3. CASE outcome[p] = "improved" /\ folders[p].final # "absent"
  <2>1. TypeOK' /\ Only(p) /\ at'[p] = "reported" /\ reports'[p] = "improved"
    BY <1>2, <1>3 DEF IInv, TypeOK, Leave, Reported, Only, Places, Ended, Statuses
  <2>2. RowOK(at'[p], folders'[p], rollouts'[p], outcome'[p], reports'[p], retry)
    BY <1>1, <1>2, <1>3, <2>1 DEF RowOK, FolderOK, MarkersOK, FinalOK, RolloutsOK,
       OutcomeOK, ReportOK, InWorkflow, Awaiting
  <2> QED BY <2>1, <2>2, StepKeeps DEF RowStep, InWorkflow, Awaiting
<1>4. CASE ~(outcome[p] = "improved" /\ folders[p].final # "absent")
  <2>1. TypeOK' /\ Only(p) /\ at'[p] = "marking" /\ reports'[p] = reports[p]
    BY <1>2, <1>4 DEF IInv, TypeOK, Leave, Only, Places, InWorkflow
  <2>2. RowOK(at'[p], folders'[p], rollouts'[p], outcome'[p], reports'[p], retry)
    BY <1>1, <1>2, <1>4, <2>1 DEF RowOK, FolderOK, MarkersOK, FinalOK, RolloutsOK,
       OutcomeOK, ReportOK, InWorkflow, Awaiting
  <2> QED BY <1>2, <2>1, <2>2, StepKeeps DEF RowStep, InWorkflow, Awaiting
<1> QED BY <1>3, <1>4

LEMMA MarkFailedKeeps ==
  ASSUME IInv, up, NEW p \in Problems, MarkFailed(p)
  PROVE  IInv'
<1>1. TypeOK' /\ Only(p) /\ at[p] = "marking" /\ at'[p] = "finishing"
  BY ZenonT(60) DEF IInv, TypeOK, MarkFailed, Goes, Only, Places, InWorkflow, Folder
<1>2. /\ folders'[p].final = folders[p].final /\ folders'[p].failed
      /\ folders'[p].finished = folders[p].finished
      /\ UNCHANGED <<rollouts, outcome, reports, retry>>
  BY DEF IInv, TypeOK, MarkFailed, Folder
<1>3. RowOK(at[p], folders[p], rollouts[p], outcome[p], reports[p], retry)
  BY DEF IInv, Rows
<1>4. RowOK(at'[p], folders'[p], rollouts'[p], outcome'[p], reports'[p], retry)
  BY <1>1, <1>2, <1>3 DEF RowOK, FolderOK, MarkersOK, FinalOK, RolloutsOK, OutcomeOK,
     ReportOK, InWorkflow, Awaiting
<1> QED BY <1>1, <1>4, StepKeeps DEF RowStep, InWorkflow

LEMMA MarkFinishedKeeps ==
  ASSUME IInv, up, NEW p \in Problems, MarkFinished(p)
  PROVE  IInv'
<1>1. TypeOK' /\ Only(p) /\ at[p] = "finishing" /\ at'[p] = "reported"
  BY ZenonT(60) DEF IInv, TypeOK, MarkFinished, Goes, Reported, Only, Places, Ended, Folder
<1>2. /\ folders'[p].final = folders[p].final /\ folders'[p].failed = folders[p].failed
      /\ folders'[p].finished /\ reports'[p] = outcome[p]
      /\ UNCHANGED <<rollouts, outcome, retry>>
  BY DEF IInv, TypeOK, MarkFinished, Reported, Folder
<1>3. RowOK(at[p], folders[p], rollouts[p], outcome[p], reports[p], retry)
  BY DEF IInv, Rows
<1>4. RowOK(at'[p], folders'[p], rollouts'[p], outcome'[p], reports'[p], retry)
  BY <1>1, <1>2, <1>3 DEF RowOK, FolderOK, MarkersOK, FinalOK, RolloutsOK, OutcomeOK,
     ReportOK, InWorkflow, Awaiting
<1> QED BY <1>1, <1>4, StepKeeps DEF RowStep, InWorkflow, Awaiting

LEMMA EscapeKeeps ==
  ASSUME IInv, up, NEW p \in Problems, Escape(p)
  PROVE  IInv'
<1>1. /\ TypeOK' /\ Only(p) /\ at[p] \in {"marking", "finishing"} /\ at'[p] = "escaped"
      /\ UNCHANGED <<folders, rollouts, outcome, reports, retry>>
  BY DEF IInv, TypeOK, Escape, Only, Places, Ended
<1>2. RowOK(at[p], folders[p], rollouts[p], outcome[p], reports[p], retry)
  BY DEF IInv, Rows
<1>3. RowOK(at'[p], folders'[p], rollouts'[p], outcome'[p], reports'[p], retry)
  BY <1>1, <1>2 DEF RowOK, FolderOK, MarkersOK, FinalOK, RolloutsOK, OutcomeOK,
     ReportOK, InWorkflow, Awaiting
<1> QED BY <1>1, <1>3, StepKeeps DEF RowStep, InWorkflow, Awaiting

-------------------------------------------------------------------------------
(* The process starts and ends.                                            *)
LEMMA LaunchKeeps ==
  ASSUME IInv, Launch
  PROVE  IInv'
<1>1. PICK again \in BOOLEAN, fresh \in BOOLEAN :
        LET skipped == {p \in Problems : Skips(folders[p], again)}
            cleared == IF fresh THEN Problems \ skipped ELSE {}
        IN /\ retry' = again
           /\ at' = [p \in Problems |-> IF p \in skipped THEN "skipped" ELSE "queued"]
           /\ folders' = [p \in Problems |-> IF p \in cleared THEN EmptyFolder ELSE folders[p]]
           /\ reports' = [p \in Problems |-> IF p \in cleared THEN "none" ELSE reports[p]]
  BY DEF Launch
<1>2. /\ up' = TRUE /\ launches' \in 0 .. MaxLaunches
      /\ UNCHANGED <<rollouts, best, baseline, outcome>>
      /\ \A p \in Problems : at[p] = "idle"
  BY DEF Launch, IInv, TypeOK
<1>3. EmptyFolder \in Folder
  BY DEF EmptyFolder, Folder
<1>4. folders' \in [Problems -> Folder] /\ reports' \in [Problems -> Statuses \cup {"none"}]
  BY <1>1, <1>3 DEF IInv, TypeOK
<1>5. at' \in [Problems -> {"skipped", "queued"}]
  BY <1>1
<1>6. TypeOK'
  BY <1>1, <1>2, <1>4, <1>5 DEF IInv, TypeOK, Places, Ended
<1>7. ASSUME NEW p \in Problems
      PROVE  RowOK(at'[p], folders'[p], rollouts'[p], outcome'[p], reports'[p], retry')
  <2>1. RowOK("idle", folders[p], rollouts[p], "none", reports[p], retry)
    BY <1>2 DEF IInv, Rows, RowOK, OutcomeOK
  <2>2. /\ at'[p] = IF Skips(folders[p], again) THEN "skipped" ELSE "queued"
        /\ \/ folders'[p] = folders[p] /\ reports'[p] = reports[p]
           \/ folders'[p] = EmptyFolder /\ reports'[p] = "none" /\ at'[p] = "queued"
        /\ retry' = again /\ outcome'[p] = "none" /\ rollouts'[p] = rollouts[p]
    BY <1>1, <1>2, <2>1 DEF IInv, Rows, RowOK, OutcomeOK
  <2>3. FolderOK(folders'[p], reports'[p])
    BY <2>1, <2>2 DEF RowOK, FolderOK, EmptyFolder
  <2>4. MarkersOK(at'[p], folders'[p], reports'[p], retry')
    BY <2>2 DEF MarkersOK, Skips, EmptyFolder, InWorkflow, Awaiting
  <2>5. FinalOK(at'[p], folders'[p], outcome'[p]) /\ OutcomeOK(at'[p], outcome'[p])
        /\ ReportOK(at'[p], folders'[p], outcome'[p], reports'[p])
    BY <2>2 DEF FinalOK, OutcomeOK, ReportOK
  <2>6. RolloutsOK(at'[p], rollouts'[p], outcome'[p])
    BY <2>1, <2>2 DEF RowOK, RolloutsOK
  <2> QED BY <2>3, <2>4, <2>5, <2>6 DEF RowOK
<1>8. Busy' = {}
  BY <1>5 DEF Busy, InWorkflow, Awaiting
<1> QED BY <1>2, <1>6, <1>7, <1>8, FS_EmptySet DEF IInv, Rows

LEMMA GoneKeeps ==
  ASSUME IInv, Gone
  PROVE  IInv'
<1>1. NoRollout \in Rollout
  BY DEF NoRollout, Rollout
<1>2. TypeOK'
  BY <1>1 DEF IInv, TypeOK, Gone, Places
<1>3. ASSUME NEW p \in Problems
      PROVE  RowOK(at'[p], folders'[p], rollouts'[p], outcome'[p], reports'[p], retry')
  <2>1. FolderOK(folders[p], reports[p])
    BY DEF IInv, Rows, RowOK
  <2>2. /\ at'[p] = "idle" /\ outcome'[p] = "none"
        /\ folders'[p] = folders[p] /\ reports'[p] = reports[p]
        /\ \A i \in Rollouts : rollouts'[p][i].at = "none"
    BY DEF Gone, NoRollout
  <2> QED BY <2>1, <2>2 DEF RowOK, MarkersOK, FinalOK, RolloutsOK, OutcomeOK, ReportOK,
          InWorkflow, Awaiting
<1>4. Busy' = {} /\ \A p \in Problems : at'[p] = "idle"
  BY DEF Gone, Busy, InWorkflow, Awaiting
<1> QED BY <1>2, <1>3, <1>4, FS_EmptySet DEF IInv, Rows

-------------------------------------------------------------------------------
LEMMA InitIInv == Init => IInv
<1> SUFFICES ASSUME Init PROVE IInv
  OBVIOUS
<1>1. TypeOK
  <2>1. EmptyFolder \in Folder /\ NoRollout \in Rollout
    BY DEF EmptyFolder, Folder, NoRollout, Rollout
  <2>2. folders \in [Problems -> Folder] /\ rollouts \in [Problems -> [Rollouts -> Rollout]]
    BY <2>1 DEF Init
  <2>3. launches \in 0 .. MaxLaunches /\ at \in [Problems -> Places]
    BY DEF Init, Places
  <2>4. up \in BOOLEAN /\ retry \in BOOLEAN /\ baseline \in [Problems -> BOOLEAN]
    BY DEF Init
  <2>5. /\ outcome \in [Problems -> Statuses \cup {"none"}]
        /\ reports \in [Problems -> Statuses \cup {"none"}]
    BY DEF Init
  <2> QED BY <2>2, <2>3, <2>4, <2>5 DEF TypeOK
<1>2. Rows
  BY DEF Init, Rows, RowOK, EmptyFolder, NoRollout, FolderOK, MarkersOK, FinalOK, RolloutsOK,
     OutcomeOK, ReportOK, InWorkflow, Awaiting
<1>3. Busy = {} /\ \A p \in Problems : at[p] = "idle"
  BY DEF Init, Busy, InWorkflow, Awaiting
<1> QED BY <1>1, <1>2, <1>3, FS_EmptySet DEF IInv

(* Nothing steps in a process that is down. *)
LEMMA OnlyUpSteps ==
  ASSUME IInv, NEW p \in Problems,
         at[p] # "idle" \/ \E i \in Rollouts : rollouts[p][i].at = "running"
  PROVE  up
<1>1. RolloutsOK(at[p], rollouts[p], outcome[p])
  BY DEF IInv, Rows, RowOK
<1> QED BY <1>1 DEF IInv, TypeOK, RolloutsOK

LEMMA NextIInv == IInv /\ [Next]_vars => IInv'
<1> SUFFICES ASSUME IInv, [Next]_vars PROVE IInv'
  OBVIOUS
<1>1. CASE Launch
  BY <1>1, LaunchKeeps
<1>2. CASE Exit \/ Crash
  BY <1>2, GoneKeeps DEF Exit, Crash
<1>3. CASE \E p \in Problems : Prompt(p)
  <2>1. PICK p \in Problems : Prompt(p)
    BY <1>3
  <2>2. up
    BY <2>1, OnlyUpSteps DEF Prompt, Start, SearchOver, OpenFinal, WriteFinal, Leave,
       MarkFailed, MarkFinished, Collect, Goes
  <2> QED BY <2>1, <2>2, StartKeeps, SearchOverKeeps, OpenFinalKeeps, WriteFinalKeeps,
          LeaveKeeps, MarkFailedKeeps, MarkFinishedKeeps, CollectKeeps DEF Prompt
<1>4. CASE \E p \in Problems :
             \/ TimeOut(p) \/ Raise(p) \/ Escape(p)
             \/ Initialize(p) \/ Rebaseline(p) \/ Confirm(p)
  <2>1. PICK p \in Problems : \/ TimeOut(p) \/ Raise(p) \/ Escape(p)
                             \/ Initialize(p) \/ Rebaseline(p) \/ Confirm(p)
    BY <1>4
  <2>2. at[p] # "idle"
    BY <2>1 DEF TimeOut, Raise, Escape, Initialize, Rebaseline, Confirm, Awaiting
  <2>3. up
    BY <2>2, OnlyUpSteps
  <2> QED BY <2>1, <2>3, TimeOutKeeps, RaiseKeeps, EscapeKeeps, InitializeKeeps,
          RebaselineKeeps, ConfirmKeeps
<1>5. CASE \E p \in Problems : \E i \in Rollouts : RolloutEnds(p, i)
  BY <1>5, RolloutEndsKeeps, OnlyUpSteps DEF RolloutEnds, Running
<1>6. CASE UNCHANGED vars
  BY <1>6 DEF vars, process, IInv, TypeOK, Rows, Busy
<1> QED BY <1>1, <1>2, <1>3, <1>4, <1>5, <1>6 DEF Next

(* Markers, final file, outcome and report of every problem agree at every *)
(* step of every launch, and a process that is down has nothing under way. *)
THEOREM Consistency == Spec => []IInv
<1> QED BY InitIInv, NextIInv, PTL DEF Spec

-------------------------------------------------------------------------------
(* Every variable of run_workflow and of the launches keeps its type.      *)
THEOREM TypeCorrect == Spec => []TypeOK
<1>1. IInv => TypeOK
  BY DEF IInv
<1> QED BY <1>1, Consistency, PTL

(* A folder is skipped by the next launch exactly when its last run was    *)
(* reported or left a final file.                                          *)
THEOREM ResumeAgrees == Spec => []ResumeAgreesWithReports
<1>1. IInv => ResumeAgreesWithReports
  BY DEF IInv, TypeOK, Rows, RowOK, FolderOK, ResumeAgreesWithReports, Skips, Statuses
<1> QED BY <1>1, Consistency, PTL

(* What run_workflow reports is what the folder shows. *)
THEOREM ReportsMatch == Spec => []ReportsMatchFolder
<1>1. IInv => ReportsMatchFolder
  <2> SUFFICES ASSUME IInv, NEW p \in Problems, at[p] = "reported"
               PROVE  IF outcome[p] = "improved"
                      THEN folders[p].final = "whole" /\ ~folders[p].failed
                      ELSE /\ folders[p].failed /\ folders[p].finished
                           /\ folders[p].final = "whole" => outcome[p] \in {"timeout", "failed"}
                           /\ folders[p].final = "torn" => outcome[p] = "failed"
    BY DEF ReportsMatchFolder
  <2>1. FolderOK(folders[p], reports[p]) /\ ReportOK(at[p], folders[p], outcome[p], reports[p])
    BY DEF IInv, Rows, RowOK
  <2> QED BY <2>1 DEF FolderOK, ReportOK
<1> QED BY <1>1, Consistency, PTL

(* Reports, folders and what a resumed run skips agree. *)
THEOREM FoldersAgreeAlways == Spec => []FoldersAgree
BY ResumeAgrees, ReportsMatch, PTL DEF FoldersAgree

(* A rollout that runs while the gate compares is another workflow's, and  *)
(* one the semaphore let in or one that is timed out or failed.            *)
THEOREM GateDisturbedByOrphansOnly == Spec => []OnlyOrphansDisturbTheGate
<1>1. IInv => OnlyOrphansDisturbTheGate
  <2> SUFFICES ASSUME IInv, NEW p \in Problems, NEW q \in Problems,
                      at[p] = "confirming", Running(q) # {}
               PROVE  /\ p # q
                      /\ at[q] = "rolling" => Concurrency > 1
                      /\ at[q] # "rolling" => outcome[q] \in {"timeout", "failed"}
    BY DEF OnlyOrphansDisturbTheGate
  <2>1. RolloutsOK(at[q], rollouts[q], outcome[q])
    BY DEF IInv, Rows, RowOK
  <2>2. PICK i \in Rollouts : rollouts[q][i].at = "running"
    BY DEF Running
  <2>3. p # q /\ (at[q] # "rolling" => outcome[q] \in {"timeout", "failed"})
    BY <2>1, <2>2 DEF RolloutsOK
  <2>4. ASSUME at[q] = "rolling" PROVE Concurrency > 1
    <3>1. {p, q} \subseteq Busy
      BY <2>4 DEF Busy, InWorkflow, Awaiting
    <3>2. IsFiniteSet({p}) /\ Cardinality({p}) = 1
      BY FS_Singleton
    <3>3. IsFiniteSet({p} \cup {q}) /\ Cardinality({p} \cup {q}) = Cardinality({p}) + 1
      BY <2>3, <3>2, FS_AddElement
    <3>4. {p, q} = {p} \cup {q} /\ Cardinality({p} \cup {q}) = 2
      BY <3>2, <3>3
    <3>5. Cardinality({p, q}) <= Cardinality(Busy)
      BY <3>1, BusyFinite, FS_Subset
    <3>6. Cardinality({p, q}) = 2
      BY <3>4
    <3>7. 2 <= Cardinality(Busy) /\ Cardinality(Busy) <= Concurrency
      BY <3>5, <3>6 DEF IInv
    <3> QED BY <3>7, BusyFinite
  <2> QED BY <2>3, <2>4
<1> QED BY <1>1, Consistency, PTL

-------------------------------------------------------------------------------
(* What the search keeps.  The library's induction theorems have an        *)
(* operator for the property, which no prover instantiates; that the       *)
(* strict subsets of a finite set are well-founded gives induction for     *)
(* sets of numbers.                                                        *)

(* A set of numbers has a least one: 0 .. n is finite. *)
LEMMA Least ==
  ASSUME NEW T \in SUBSET Nat, T # {}
  PROVE  \E n \in T : \A m \in T : n <= m
<1> DEFINE Below == {0 .. n : n \in T}
<1>1. \A n \in T : IsFiniteSet(0 .. n)
  BY FS_Interval
<1>2. Below \subseteq FiniteSubsetsOf(Nat) /\ Below # {}
  <2>1. ASSUME NEW n \in T PROVE 0 .. n \in FiniteSubsetsOf(Nat)
    BY <1>1 DEF FiniteSubsetsOf
  <2> QED BY <2>1
<1>3. \E x \in Below : \A y \in Below : ~ (<<y, x>> \in StrictSubsetOrdering(Nat))
  <2> HIDE DEF Below
  <2> QED BY <1>2, FS_StrictSubsetOrderingWellFounded, WFMin
<1>4. PICK n \in T : \A m \in T : <<0 .. m, 0 .. n>> \notin StrictSubsetOrdering(Nat)
  BY <1>3
<1>5. ASSUME NEW m \in T, m < n PROVE FALSE
  <2>1. 0 .. m \subseteq 0 .. n /\ n \in 0 .. n /\ n \notin 0 .. m
    BY <1>5
  <2>2. <<0 .. m, 0 .. n>> \in StrictSubsetOrdering(Nat)
    BY <2>1 DEF StrictSubsetOrdering
  <2> QED BY <1>4, <2>2
<1> QED BY <1>5

(* Induction: what holds 0 and goes from n to n + 1 holds every number. *)
LEMMA Induct ==
  ASSUME NEW T, 0 \in T, \A n \in Nat : n \in T => n + 1 \in T
  PROVE  Nat \subseteq T
<1> SUFFICES ASSUME Nat \ T # {} PROVE FALSE
  OBVIOUS
<1>1. PICK n \in Nat \ T : \A m \in Nat \ T : n <= m
  BY Least
<1>2. n # 0 /\ n - 1 \in Nat
  BY <1>1
<1>3. n - 1 \in T
  BY <1>1, <1>2
<1>4. (n - 1) + 1 \in T
  BY <1>2, <1>3
<1> QED BY <1>1, <1>4

(* b is the fastest of the measurements S that it can be compared with. *)
FastestOf(b, S) ==
    IF b = None THEN S = {}
    ELSE b \in S /\ \A m \in S : m.class = b.class => b.value <= m.value

(* A step that is measured makes the best one the best of those before it  *)
(* and of itself.                                                          *)
LEMMA FasterAdds ==
  ASSUME NEW S \in SUBSET Measurements, NEW b, FastestOf(b, S), NEW m \in Measurements
  PROVE  FastestOf(Faster(b, m), S \cup {m})
<1>1. CASE b = None
  BY <1>1, TrajectoriesAssumption DEF FastestOf, Faster, Measurements
<1>2. CASE b # None
  <2>1. \A x \in S \cup {m} : x.value \in Nat
    BY DEF Measurements
  <2>2. m # None
    BY TrajectoriesAssumption
  <2> QED BY <1>2, <2>1, <2>2 DEF FastestOf, Faster
<1> QED BY <1>1, <1>2

(* The greatest element, as FoldLeft takes it. *)
LEMMA MaxIs ==
  ASSUME NEW t \in SUBSET Nat, NEW k \in t, \A y \in t : y <= k
  PROVE  Max(t) = k
<1>1. \A x \in t : (\A y \in t : x >= y) => x = k
  OBVIOUS
<1>2. \A y \in t : k >= y
  OBVIOUS
<1> QED BY <1>1, <1>2 DEF Max

(* FoldLeft goes over the indices from the last to the first: one function *)
(* of the sets of indices.                                                 *)
Folds(it, n, b, s) ==
    it = [t \in SUBSET (1 .. n) |->
            IF t = {} THEN b ELSE Faster(it[t \ {Max(t)}], s[Max(t)])]

(* Such a function exists for every length: the one for n + 1 extends the  *)
(* one for n.                                                              *)
LEMMA FoldsExists ==
  ASSUME NEW b, NEW s
  PROVE  \A n \in Nat : \E it : Folds(it, n, b, s)
<1> DEFINE T == {n \in Nat : \E it : Folds(it, n, b, s)}
<1>1. 0 \in T
  <2>1. Folds([t \in SUBSET (1 .. 0) |-> b], 0, b, s)
    BY DEF Folds
  <2> QED BY <2>1
<1>2. ASSUME NEW n \in Nat, n \in T PROVE n + 1 \in T
  <2>1. PICK it : Folds(it, n, b, s)
    BY <1>2
  <2> DEFINE more == [t \in SUBSET (1 .. n + 1) |->
                        IF n + 1 \in t THEN Faster(it[t \ {n + 1}], s[n + 1]) ELSE it[t]]
  <2>2. ASSUME NEW t \in SUBSET (1 .. n + 1)
        PROVE  more[t] = IF t = {} THEN b ELSE Faster(more[t \ {Max(t)}], s[Max(t)])
    <3>1. CASE n + 1 \in t
      <4>1. Max(t) = n + 1
        BY <3>1, MaxIs
      <4>2. t \ {n + 1} \in SUBSET (1 .. n + 1) /\ n + 1 \notin t \ {n + 1}
        OBVIOUS
      <4> QED BY <3>1, <4>1, <4>2
    <3>2. CASE n + 1 \notin t
      <4>1. t \in SUBSET (1 .. n)
        BY <3>2
      <4>2. t \ {Max(t)} \in SUBSET (1 .. n) /\ t \ {Max(t)} \in SUBSET (1 .. n + 1)
            /\ n + 1 \notin t \ {Max(t)}
        BY <3>2, <4>1
      <4>3. it[t] = IF t = {} THEN b ELSE Faster(it[t \ {Max(t)}], s[Max(t)])
        BY <2>1, <4>1 DEF Folds
      <4> QED BY <3>2, <4>2, <4>3
    <3> QED BY <3>1, <3>2
  <2>3. Folds(more, n + 1, b, s)
    <3>1. more = [t \in SUBSET (1 .. n + 1) |-> more[t]]
      OBVIOUS
    <3> HIDE DEF more
    <3> QED BY <2>2, <3>1 DEF Folds
  <2> HIDE DEF more
  <2> QED BY <2>3
<1> HIDE DEF T
<1>3. Nat \subseteq T
  BY <1>1, <1>2, Induct
<1> QED BY <1>3 DEF T

(* The fold of Faster over a trajectory is the fastest of what came before *)
(* and of the trajectory's steps.                                          *)
LEMMA FoldAdds ==
  ASSUME NEW S \in SUBSET Measurements, NEW b, FastestOf(b, S), NEW s \in Seq(Measurements)
  PROVE  FastestOf(FoldLeft(Faster, b, s), S \cup Range(s))
<1> DEFINE it == CHOOSE i : Folds(i, Len(s), b, s)
<1>1. Folds(it, Len(s), b, s)
  BY FoldsExists
<1>2. FoldLeft(Faster, b, s) = it[1 .. Len(s)]
  <2>1. DOMAIN s = 1 .. Len(s)
    OBVIOUS
  <2> QED BY <2>1 DEF FoldLeft, MapThenFoldSet, Folds
<1> HIDE DEF it
<1>3. it[1 .. 0] = b
  BY <1>1 DEF Folds
<1>4. ASSUME NEW k \in Nat, k + 1 <= Len(s)
      PROVE  it[1 .. k + 1] = Faster(it[1 .. k], s[k + 1])
  <2>1. Max(1 .. k + 1) = k + 1
    BY MaxIs
  <2>2. (1 .. k + 1) \ {k + 1} = 1 .. k /\ k + 1 \in 1 .. k + 1
    OBVIOUS
  <2>3. 1 .. k + 1 \in SUBSET (1 .. Len(s))
    BY <1>4
  <2>4. it[1 .. k + 1] = IF 1 .. k + 1 = {} THEN b
                         ELSE Faster(it[(1 .. k + 1) \ {Max(1 .. k + 1)}], s[Max(1 .. k + 1)])
    BY <1>1, <2>3 DEF Folds
  <2> QED BY <2>1, <2>2, <2>4
<1> DEFINE Before(k) == S \cup {s[i] : i \in 1 .. k}
           T == {k \in Nat : k <= Len(s) => FastestOf(it[1 .. k], Before(k))}
<1>5. 0 \in T
  <2>1. Before(0) = S
    OBVIOUS
  <2>2. FastestOf(it[1 .. 0], Before(0))
    BY <1>3, <2>1
  <2> HIDE DEF Before
  <2> QED BY <2>2
<1>6. ASSUME NEW k \in Nat, k \in T PROVE k + 1 \in T
  <2> SUFFICES ASSUME k + 1 <= Len(s) PROVE FastestOf(it[1 .. k + 1], Before(k + 1))
    OBVIOUS
  <2>1. FastestOf(it[1 .. k], Before(k)) /\ Before(k) \in SUBSET Measurements
    BY <1>6
  <2>2. s[k + 1] \in Measurements /\ Before(k + 1) = Before(k) \cup {s[k + 1]}
    <3>1. s[k + 1] \in Measurements
      OBVIOUS
    <3>2. 1 .. k + 1 = (1 .. k) \cup {k + 1}
      OBVIOUS
    <3> QED BY <3>1, <3>2
  <2> HIDE DEF Before
  <2> QED BY <1>4, <2>1, <2>2, FasterAdds
<1>7. Len(s) \in T
  <2> HIDE DEF T
  <2>1. Nat \subseteq T
    BY <1>5, <1>6, Induct
  <2> QED BY <2>1
<1>8. Before(Len(s)) = S \cup Range(s)
  BY DEF Range
<1>9. FastestOf(it[1 .. Len(s)], Before(Len(s)))
  <2> HIDE DEF Before
  <2> QED BY <1>7
<1> HIDE DEF Before, T
<1> QED BY <1>2, <1>8, <1>9

-------------------------------------------------------------------------------
(* The best candidate at each place of a problem. *)
Collected(r) == {i \in Rollouts : r[i].at = "collected"}
StepsOf(r) == UNION {Range(r[i].steps) : i \in Collected(r)}

BestOK(a, b, r) ==
    /\ a \in {"idle", "queued", "initializing"} => b = None
    /\ a \in {"rolling", "rebaselining", "confirming"} => FastestOf(b, StepsOf(r))
    /\ a \in {"rebaselining", "confirming"} => Collected(r) = Rollouts
    /\ a = "confirming" => b # None

BestInv == /\ best = [p \in Problems |-> best[p]]
           /\ \A p \in Problems : BestOK(at[p], best[p], rollouts[p])

(* A step of one problem leaves the candidates of the others alone. *)
OnlyBest(p) == /\ best' = [q \in Problems |-> best'[q]]
               /\ \A q \in Problems \ {p} :
                    at'[q] = at[q] /\ best'[q] = best[q] /\ rollouts'[q] = rollouts[q]

LEMMA BestStep ==
  ASSUME BestInv, NEW p \in Problems, OnlyBest(p), BestOK(at'[p], best'[p], rollouts'[p])
  PROVE  BestInv'
BY DEF BestInv, OnlyBest

(* The end of a workflow asks nothing of the candidate. *)
LEMMA BestEnds ==
  ASSUME TypeOK, BestInv, NEW p \in Problems, NEW status, NEW place \in {"leaving", "marking"},
         EndsWith(p, status, place)
  PROVE  BestInv'
<1>1. OnlyBest(p)
  BY DEF TypeOK, BestInv, EndsWith, OnlyBest
<1>2. at'[p] = place
  BY DEF TypeOK, EndsWith
<1>3. BestOK(place, best'[p], rollouts'[p])
  BY DEF BestOK
<1> QED BY <1>1, <1>2, <1>3, BestStep

(* Only the place changes, and the candidate does for the new one.         *)
LEMMA BestGoes ==
  ASSUME TypeOK, BestInv, NEW p \in Problems, NEW place,
         at' = [at EXCEPT ![p] = place], UNCHANGED <<rollouts, best>>,
         BestOK(place, best[p], rollouts[p])
  PROVE  BestInv'
<1>1. OnlyBest(p) /\ at'[p] = place
  BY DEF TypeOK, BestInv, OnlyBest
<1> QED BY <1>1, BestStep

(* The rollouts start with nothing collected and no candidate. *)
LEMMA BestInitialize ==
  ASSUME TypeOK, BestInv, NEW p \in Problems, Initialize(p)
  PROVE  BestInv'
<1>1. CASE EndsWith(p, "failed", "leaving")
  BY <1>1, BestEnds
<1>2. CASE ~EndsWith(p, "failed", "leaving")
  <2>1. /\ at[p] = "initializing" /\ at' = [at EXCEPT ![p] = "rolling"]
        /\ rollouts' = [rollouts EXCEPT ![p] =
                           [i \in Rollouts |-> [at |-> "running", steps |-> <<>>]]]
        /\ best' = best
    BY <1>2 DEF Initialize
  <2>2. OnlyBest(p) /\ at'[p] = "rolling" /\ best'[p] = best[p]
    BY <2>1 DEF TypeOK, BestInv, OnlyBest
  <2>3. \A i \in Rollouts : rollouts'[p][i].at = "running"
    BY <2>1 DEF TypeOK
  <2>4. StepsOf(rollouts'[p]) = {} /\ best[p] = None
    BY <2>1, <2>3 DEF StepsOf, Collected, BestInv, BestOK
  <2>5. BestOK("rolling", best[p], rollouts'[p])
    BY <2>4 DEF BestOK, FastestOf
  <2> QED BY <2>2, <2>5, BestStep
<1> QED BY <1>1, <1>2

(* A rollout that returns has not been collected: its steps do not count   *)
(* yet.                                                                    *)
LEMMA BestRolloutEnds ==
  ASSUME TypeOK, BestInv, NEW p \in Problems, NEW i \in Rollouts, RolloutEnds(p, i)
  PROVE  BestInv'
<1>1. rollouts[p][i].at = "running" /\ at' = at /\ best' = best
  BY DEF RolloutEnds, Running
<1>2. PICK r \in Rollout : /\ r.at # "collected"
                          /\ rollouts' = [rollouts EXCEPT ![p][i] = r]
  <2>1. CASE at[p] = "rolling"
    <3>1. PICK t \in Trajectories :
            rollouts' = [rollouts EXCEPT ![p][i] = [at |-> "ended", steps |-> t]]
      BY <2>1 DEF RolloutEnds
    <3>2. [at |-> "ended", steps |-> t] \in Rollout
      BY DEF Rollout
    <3> QED BY <3>1, <3>2
  <2>2. CASE at[p] # "rolling"
    BY <2>2 DEF RolloutEnds, NoRollout, Rollout
  <2> QED BY <2>1, <2>2
<1>3. /\ \A k \in Rollouts \ {i} : rollouts'[p][k] = rollouts[p][k]
      /\ rollouts'[p][i] = r
      /\ \A q \in Problems \ {p} : rollouts'[q] = rollouts[q]
  BY <1>2 DEF TypeOK
<1>4. Collected(rollouts'[p]) = Collected(rollouts[p]) /\ i \notin Collected(rollouts[p])
  BY <1>1, <1>2, <1>3 DEF Collected
<1>5. \A k \in Collected(rollouts[p]) : rollouts'[p][k].steps = rollouts[p][k].steps
  BY <1>3, <1>4 DEF Collected
<1>6. StepsOf(rollouts'[p]) = StepsOf(rollouts[p])
  BY <1>4, <1>5 DEF StepsOf
<1>7. BestOK(at[p], best[p], rollouts'[p])
  BY <1>4, <1>6 DEF BestOK, BestInv
<1>8. OnlyBest(p)
  BY <1>1, <1>3 DEF OnlyBest, BestInv
<1> QED BY <1>1, <1>7, <1>8, BestStep

(* The loop of Collect is the fold above. *)
LEMMA BestCollect ==
  ASSUME TypeOK, BestInv, NEW p \in Problems, NEW i \in Rollouts, Collect(p, i)
  PROVE  BestInv'
<1> DEFINE s == rollouts[p][i].steps
           r == [rollouts[p][i] EXCEPT !.at = "collected"]
<1>1. /\ at[p] = "rolling" /\ at' = at /\ rollouts[p][i].at = "ended"
      /\ best' = [best EXCEPT ![p] = FoldLeft(Faster, best[p], s)]
      /\ rollouts' = [rollouts EXCEPT ![p][i] = r]
  BY DEF Collect
<1>2. s \in Seq(Measurements) /\ r.at = "collected" /\ r.steps = s
  BY TrajectoriesAssumption DEF TypeOK, Rollout
<1> HIDE DEF s, r
<1>3. /\ \A k \in Rollouts \ {i} : rollouts'[p][k] = rollouts[p][k]
      /\ rollouts'[p][i] = r
      /\ \A q \in Problems \ {p} : rollouts'[q] = rollouts[q]
  BY <1>1 DEF TypeOK
<1>4. Collected(rollouts'[p]) = Collected(rollouts[p]) \cup {i} /\ i \notin Collected(rollouts[p])
  BY <1>1, <1>2, <1>3 DEF Collected
<1>5. StepsOf(rollouts'[p]) = StepsOf(rollouts[p]) \cup Range(s)
  <2>1. \A k \in Collected(rollouts[p]) : rollouts'[p][k].steps = rollouts[p][k].steps
    BY <1>3, <1>4 DEF Collected
  <2>2. rollouts'[p][i].steps = s
    BY <1>2, <1>3
  <2> QED BY <1>4, <2>1, <2>2 DEF StepsOf
<1>6. StepsOf(rollouts[p]) \in SUBSET Measurements
  <2>1. \A k \in Rollouts : rollouts[p][k].steps \in Seq(Measurements)
    BY TrajectoriesAssumption DEF TypeOK, Rollout
  <2>2. \A k \in Rollouts : Range(rollouts[p][k].steps) \subseteq Measurements
    BY <2>1 DEF Range
  <2> QED BY <2>2 DEF StepsOf, Collected
<1>7. FastestOf(best[p], StepsOf(rollouts[p]))
  BY <1>1 DEF BestInv, BestOK
<1>8. FastestOf(FoldLeft(Faster, best[p], s), StepsOf(rollouts[p]) \cup Range(s))
  BY <1>2, <1>6, <1>7, FoldAdds
<1>9. best'[p] = FoldLeft(Faster, best[p], s)
  BY <1>1 DEF BestInv
<1>10. BestOK(at'[p], best'[p], rollouts'[p])
  BY <1>1, <1>5, <1>8, <1>9 DEF BestOK
<1>11. OnlyBest(p)
  <2>1. best' = [q \in Problems |-> best'[q]] /\ \A q \in Problems \ {p} : best'[q] = best[q]
    BY <1>1 DEF BestInv
  <2> QED BY <1>1, <1>3, <2>1 DEF OnlyBest
<1> QED BY <1>10, <1>11, BestStep

(* The search is over when every rollout is collected.                     *)
LEMMA BestSearchOver ==
  ASSUME TypeOK, BestInv, NEW p \in Problems, SearchOver(p)
  PROVE  BestInv'
<1>1. CASE EndsWith(p, "failed", "leaving")
  BY <1>1, BestEnds
<1>2. CASE ~EndsWith(p, "failed", "leaving")
  <2>1. /\ at' = [at EXCEPT ![p] = NextPlace(p)] /\ UNCHANGED <<rollouts, best>>
        /\ at[p] = "rolling" /\ Collected(rollouts[p]) = Rollouts
        /\ best[p] # None \/ ~baseline[p]
    BY <1>2 DEF SearchOver, Collected
  <2>2. BestOK(NextPlace(p), best[p], rollouts[p])
    BY <2>1 DEF BestOK, BestInv, NextPlace
  <2> QED BY <2>1, <2>2, BestGoes
<1> QED BY <1>1, <1>2

(* A baseline measured late opens the gate to a candidate only. *)
LEMMA BestRebaseline ==
  ASSUME TypeOK, BestInv, NEW p \in Problems, Rebaseline(p)
  PROVE  BestInv'
<1>1. CASE EndsWith(p, "no_improvement", "leaving") \/ EndsWith(p, "failed", "leaving")
  BY <1>1, BestEnds
<1>2. CASE /\ best[p] # None /\ at' = [at EXCEPT ![p] = "confirming"]
           /\ UNCHANGED <<rollouts, best>>
  <2>1. BestOK("confirming", best[p], rollouts[p])
    BY <1>2 DEF Rebaseline, BestInv, BestOK
  <2> QED BY <1>2, <2>1, BestGoes
<1> QED BY <1>1, <1>2 DEF Rebaseline

(* Past the gate the candidate stays what it is. *)
LEMMA BestConfirm ==
  ASSUME TypeOK, BestInv, NEW p \in Problems, Confirm(p)
  PROVE  BestInv'
<1>1. CASE EndsWith(p, "no_improvement", "leaving")
  BY <1>1, BestEnds
<1>2. CASE at' = [at EXCEPT ![p] = "promoting"] /\ UNCHANGED <<rollouts, best, baseline, outcome>>
  BY <1>2, BestGoes DEF BestOK
<1> QED BY <1>1, <1>2 DEF Confirm

(* The steps that start, write, mark and report: the candidate is none, or *)
(* no longer matters.                                                      *)
LEMMA BestPlain ==
  ASSUME TypeOK, BestInv, NEW p \in Problems,
         \/ Start(p) \/ OpenFinal(p) \/ Leave(p) \/ MarkFailed(p) \/ MarkFinished(p) \/ Escape(p)
  PROVE  BestInv'
<1>1. PICK place \in {"initializing", "writing", "reported", "marking", "finishing", "escaped"} :
        /\ at' = [at EXCEPT ![p] = place]
        /\ place = "initializing" => at[p] = "queued"
        /\ UNCHANGED <<rollouts, best>>
  BY DEF Start, OpenFinal, Leave, MarkFailed, MarkFinished, Escape, Goes
<1>2. BestOK(place, best[p], rollouts[p])
  BY <1>1 DEF BestInv, BestOK
<1> QED BY <1>1, <1>2, BestGoes

(* A process starts and ends without candidates. *)
LEMMA BestProcess ==
  ASSUME IInv, BestInv, Launch \/ Gone
  PROVE  BestInv'
<1>1. CASE Launch
  <2>1. /\ \A p \in Problems : at'[p] \in {"skipped", "queued"} /\ at[p] = "idle"
        /\ best' = best
    BY <1>1 DEF Launch, IInv
  <2>2. \A p \in Problems : BestOK(at'[p], best'[p], rollouts'[p])
    BY <2>1 DEF BestInv, BestOK
  <2> QED BY <2>1, <2>2 DEF BestInv
<1>2. CASE Gone
  <2>1. /\ \A p \in Problems : at'[p] = "idle" /\ best'[p] = None
        /\ best' = [p \in Problems |-> best'[p]]
    BY <1>2 DEF Gone
  <2>2. \A p \in Problems : BestOK(at'[p], best'[p], rollouts'[p])
    BY <2>1 DEF BestOK
  <2> QED BY <2>1, <2>2 DEF BestInv
<1> QED BY <1>1, <1>2

LEMMA NextBest == IInv /\ BestInv /\ [Next]_vars => BestInv'
<1> SUFFICES ASSUME IInv, BestInv, [Next]_vars PROVE BestInv'
  OBVIOUS
<1>1. TypeOK
  BY DEF IInv
<1>2. CASE Launch \/ Exit \/ Crash
  BY <1>2, BestProcess DEF Exit, Crash
<1>3. CASE \E p \in Problems : Prompt(p) \/ Escape(p)
  <2>1. PICK p \in Problems : Prompt(p) \/ Escape(p)
    BY <1>3
  <2>2. CASE WriteFinal(p)
    BY <1>1, <2>2, BestEnds DEF WriteFinal
  <2> QED BY <1>1, <2>1, <2>2, BestPlain, BestSearchOver, BestCollect DEF Prompt
<1>4. CASE \E p \in Problems : TimeOut(p) \/ Raise(p)
  BY <1>1, <1>4, BestEnds DEF TimeOut, Raise
<1>5. CASE \E p \in Problems : Initialize(p) \/ Rebaseline(p) \/ Confirm(p)
  BY <1>1, <1>5, BestInitialize, BestRebaseline, BestConfirm
<1>6. CASE \E p \in Problems : \E i \in Rollouts : RolloutEnds(p, i)
  BY <1>1, <1>6, BestRolloutEnds
<1>7. CASE UNCHANGED vars
  BY <1>7 DEF vars, process, BestInv
<1> QED BY <1>2, <1>3, <1>4, <1>5, <1>6, <1>7 DEF Next

(* While a search goes on its best candidate is the fastest of what was    *)
(* collected, and the gate opens when all of it was.                       *)
THEOREM BestOfCollected == Spec => [](IInv /\ BestInv)
<1>1. Init => BestInv
  BY DEF Init, BestInv, BestOK
<1> QED BY <1>1, InitIInv, NextIInv, NextBest, PTL DEF Spec

(* Of the steps that any rollout measured, none that can be compared with  *)
(* it beats the candidate the gate confirms.                               *)
THEOREM FastestReachesGate == Spec => []GateSeesTheFastest
<1>1. IInv /\ BestInv => GateSeesTheFastest
  <2> SUFFICES ASSUME BestInv, NEW p \in Problems, at[p] = "confirming"
               PROVE  LET steps == UNION {Range(rollouts[p][i].steps) : i \in Rollouts}
                      IN /\ best[p] \in steps
                         /\ \A m \in steps : m.class = best[p].class => best[p].value <= m.value
    BY DEF GateSeesTheFastest
  <2>1. BestOK("confirming", best[p], rollouts[p])
    BY DEF BestInv
  <2>2. best[p] # None /\ FastestOf(best[p], UNION {Range(rollouts[p][i].steps) : i \in Rollouts})
    BY <2>1 DEF BestOK, StepsOf
  <2> QED BY <2>2 DEF FastestOf
<1> QED BY <1>1, BestOfCollected, PTL
===============================================================================
