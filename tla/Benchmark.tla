------------------------------ MODULE Benchmark ------------------------------
(***************************************************************************)
(* The measurement pipeline of scripts/: benchmark_candidates.py runs one  *)
(* process of BenchmarkTask per selected task and keeps one row of each in *)
(* suite_summary.json, benchmark_pytorch.py times the PyTorch methods of   *)
(* the same tasks, and analyze_core10_comparison.py joins both with the    *)
(* files of the task folders into the report of verified improvements.     *)
(***************************************************************************)
EXTENDS BenchmarkTask

CONSTANTS
  Order  \* the selected tasks, in the order the suite runs them

(* Each task is selected once: of one that is selected again the second    *)
(* child refuses the folder of the first and ends with code 2.              *)
ASSUME OrderAssumption ==
  Order \in Seq(Tasks) /\ Range(Order) = Tasks /\ Len(Order) = Cardinality(Tasks)

VARIABLES
  suite,  \* [rows, complete, alive]: suite_summary.json and its driver
  torch,  \* the tasks whose eager method has a row in pytorch_summary.json
  report  \* the rows of the comparison, once written

vars == <<protocol, source, run, suite, torch, report>>
files == <<protocol, source, run>>

----------------------------------------------------------------------------
(* The suite driver.                                                       *)

Current == Order[Len(suite.rows) + 1]

Running == suite.alive /\ Len(suite.rows) < Len(Order)

(* The driver starts the task's process and waits for it.                  *)
StartTask == Running /\ Launch(Current) /\ UNCHANGED <<suite, torch, report>>

Step(t) == TaskStep(t) /\ UNCHANGED <<suite, torch, report>>

EditSource(t) == Edit(t) /\ UNCHANGED <<suite, torch, report>>

(* Mutant: a summary is taken for the end of the task.                     *)
StatusOfSummary(exit, summary) ==
  CASE summary.written \/ exit = 0 -> "completed"
    [] ~summary.written /\ exit = 4 -> "blocked"
    [] OTHER -> "failed"

(* The status is the exit code's; only code 3 needs the summary.           *)
Status(exit, summary) ==
  CASE exit = 0 -> "completed"
    [] exit = 3 -> IF summary.written /\ summary.stable /\ summary.timed /\ summary.valid
                   THEN "no_improvement" ELSE "inconclusive"
    [] exit = 4 -> "blocked"
    [] OTHER -> "failed"

(* The row of a task whose process has ended.                              *)
RowOf(t) ==
  LET r == run[t]
  IN [task |-> t, status |-> Status(r.exit, r.summary), correct |-> r.summary.written,
      stable |-> r.summary.stable, claim |-> r.summary.claim, pairs |-> r.summary.pairs]

(* The child has ended: its row joins suite_summary.json, still incomplete. *)
CollectRow ==
  /\ Running /\ run[Current].at = "exited"
  /\ suite' = [suite EXCEPT !.rows = Append(@, RowOf(Current))]
  /\ UNCHANGED <<files, torch, report>>

(* The last write of the driver says that every selected task has a row.   *)
Complete ==
  /\ suite.alive /\ Len(suite.rows) = Len(Order)
  /\ suite' = [suite EXCEPT !.alive = FALSE, !.complete = TRUE]
  /\ UNCHANGED <<files, torch, report>>

(* The driver is killed; a child it waited for runs on.                    *)
KillSuite ==
  /\ suite.alive
  /\ suite' = [suite EXCEPT !.alive = FALSE]
  /\ UNCHANGED <<files, torch, report>>

----------------------------------------------------------------------------
(* PyTorch: a worker process per method and session, which checks the      *)
(* method against the task's reference before it times it; a failed one    *)
(* leaves its session out, and a method that lost them all has no row.     *)

TorchRows == SUBSET Tasks \ {{}}

TorchSummary ==
  /\ torch = {}
  /\ torch' \in TorchRows
  /\ UNCHANGED <<files, suite, report>>

----------------------------------------------------------------------------
(* The comparison.                                                         *)

RowFor(t) == CHOOSE row \in Range(suite.rows) : row.task = t

(* Mutant: the manifest only has to name a measured text.                  *)
AnyText(t) == run[t].manifest.version \in Versions

(* The text measured must be the text of the candidate file as it is now.  *)
SameText(t) == run[t].manifest.version = source[t]

(* The report needs a row with a comparison for every task, the manifest   *)
(* of its folder, and the eager PyTorch method of every task; a missing    *)
(* one raises before anything is written.                                  *)
Comparable ==
  /\ torch = Tasks
  /\ {row.task : row \in Range(suite.rows)} = Tasks
  /\ \A t \in Tasks : Len(RowFor(t).pairs) > 0 /\ SameText(t)

(* The gates of the report over one row: they repeat the claim's, on the   *)
(* medians of the row itself.                                              *)
Verdicts(row) ==
  IF row.correct /\ row.stable /\ row.claim /\ AllNotSlower(row.pairs)
     /\ 100 * TwiceMedian(row.pairs, "baseline") >= 101 * TwiceMedian(row.pairs, "candidate")
  THEN GateVerdicts(row.pairs) ELSE {FALSE}

(* Why a row is not a verified improvement: the first that applies.        *)
CandidateOutcome(row, verified) ==
  CASE verified -> "improved"
    [] ~verified /\ ~row.correct -> "failed"
    [] ~verified /\ row.correct /\ (~row.stable \/ Len(row.pairs) < Minimum["confirmation"]) ->
         "inconclusive"
    [] OTHER -> "no_improvement"

(* The counts of summarize() are those of the outcomes.                    *)
WriteReport ==
  /\ report = <<>> /\ Comparable
  /\ \E verified \in [Tasks -> BOOLEAN] :
       /\ \A t \in Tasks : verified[t] \in Verdicts(RowFor(t))
       /\ report' = [t \in Tasks |-> [outcome |-> CandidateOutcome(RowFor(t), verified[t]),
                                      text |-> source[t]]]
  /\ UNCHANGED <<files, suite, torch>>

----------------------------------------------------------------------------
Init ==
  /\ TaskInit
  /\ suite = [rows |-> <<>>, complete |-> FALSE, alive |-> TRUE]
  /\ torch = {}
  /\ report = <<>>

Next ==
  \/ StartTask \/ CollectRow \/ Complete \/ KillSuite \/ TorchSummary \/ WriteReport
  \/ \E t \in Tasks : Step(t) \/ EditSource(t)

Spec == Init /\ [][Next]_vars

----------------------------------------------------------------------------
(* Properties.                                                             *)

(* Nothing is timed or profiled before every gate of both variants passed  *)
(* on exactly the text that is timed, however the file changes meanwhile   *)
(* (benchmark_cuda.py, "No benchmark executable, NCU target, or Events     *)
(* sample is created until every ... correctness gate has passed").        *)
TimedOnlyWhatPassed ==
  \A t \in Tasks : LET r == run[t] IN
    r.built # -1 => /\ r.passed = Range(Gates) /\ ~r.worse
                    /\ r.built = r.read /\ r.built = r.manifest.version

(* An improvement of the report is one that a single, last round of a      *)
(* confirmation measured: all its sessions, none slower, every gate passed *)
(* on the text the repository held when the report was written, and the    *)
(* driver, the child or an editor may have stopped or acted anywhere.      *)
VerifiedIsEarned ==
  report # <<>> => \A t \in Tasks : report[t].outcome = "improved" =>
    LET r == run[t] IN
    /\ protocol.phase = "confirmation"
    /\ r.pairs = RowFor(t).pairs /\ Len(r.pairs) >= Minimum["confirmation"]
    /\ Stable(r.pairs) /\ AllNotSlower(r.pairs)
    /\ r.built = report[t].text /\ r.passed = Range(Gates)

(* A row says completed or no_improvement only of a folder whose final     *)
(* manifest says the same; a child killed between its two last writes is a *)
(* failed row.                                                             *)
RowsAgreeWithFolders ==
  \A i \in DOMAIN suite.rows :
    LET row == suite.rows[i]
        r == run[row.task]
    IN row.status \in {"completed", "no_improvement"} =>
         /\ r.manifest.stage = "final"
         /\ r.manifest.outcome \in IF row.status = "completed"
                                   THEN {"completed", "improved"} ELSE {"no_improvement"}
         /\ protocol.ncu => r.profiled
=============================================================================
