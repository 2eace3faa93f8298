---------------------------- MODULE BenchmarkTask ----------------------------
(***************************************************************************)
(* One call of scripts/benchmark_cuda.py per task: the baseline and the    *)
(* candidate pass every correctness gate in both source forms, the         *)
(* timing executables are built and profiled, independent sessions time    *)
(* both variants (once more when a round is unstable), and the folder      *)
(* receives a summary and, after it, the final manifest.                   *)
(*                                                                         *)
(* Several such processes read one candidate file that people edit while   *)
(* measurements run, and any of them may be killed between two writes.     *)
(***************************************************************************)
EXTENDS Integers, Sequences, SequencesExt, FiniteSets

CONSTANTS
  Tasks,        \* the task identifiers of the suite
  Latencies,    \* the session medians a variant may show, in microseconds
  Minimum,      \* [phase -> sessions it needs]: 3 and 5 in the code
  SpreadLimit,  \* --max-session-spread-percent
  Versions      \* the texts a candidate file may hold; 0 is the text of init.cu

ASSUME LatenciesAssumption == Latencies \subseteq Nat \ {0}
ASSUME VersionsAssumption == Versions \subseteq Nat
ASSUME MinimumAssumption ==
  /\ Minimum \in [{"discovery", "confirmation"} -> Nat \ {0}]
  /\ Minimum["discovery"] <= Minimum["confirmation"]

VARIABLES
  protocol,  \* the options every task of the suite is measured with
  source,    \* [Tasks -> the text of the candidate file]
  run        \* [Tasks -> the process of the task and the files of its folder]

----------------------------------------------------------------------------
Protocols ==
  [phase : DOMAIN Minimum, sessions : 1 .. Minimum["confirmation"],
   ncu : BOOLEAN, only : [Tasks -> BOOLEAN]]

(* --correctness-only is also what a case without a performance claim gets. *)
(* The session protocol is validated before the folder is made, unless     *)
(* nothing will be timed.                                                  *)
ProtocolValid(t) == protocol.only[t] \/ protocol.sessions >= Minimum[protocol.phase]

Labels == {"baseline", "candidate"}

(* The drivers a variant must pass: the strict ones only see the candidate. *)
Drivers(label) ==
  IF label = "baseline" THEN <<"official", "extra">> ELSE <<"official", "extra", "strict">>

GatesOf(label) ==
  [i \in 1 .. 2 * Len(Drivers(label)) |->
     [label |-> label, driver |-> Drivers(label)[(i + 1) \div 2],
      form |-> IF i % 2 = 1 THEN "original" ELSE "normalized"]]

Gates == GatesOf("baseline") \o GatesOf("candidate")

(* The gates whose error the candidate may not raise above the baseline's.  *)
Compared(g) == g.label = "candidate" /\ g.driver = "extra" /\ g.form = "normalized"

NoSummary == [written |-> FALSE, timed |-> FALSE, stable |-> FALSE, valid |-> FALSE,
              claim |-> FALSE, pairs |-> <<>>]
NoManifest == [stage |-> "none", version |-> -1, outcome |-> "none"]

Idle ==
  [at |-> "none", exit |-> -1, gate |-> 1, passed |-> {}, worse |-> FALSE,
   read |-> -1, built |-> -1, profiled |-> FALSE, round |-> 0, pairs |-> <<>>,
   manifest |-> NoManifest, summary |-> NoSummary]

TaskInit ==
  /\ protocol \in Protocols
  /\ source \in [Tasks -> Versions]
  /\ run = [t \in Tasks |-> Idle]

Becomes(t, r) == run' = [run EXCEPT ![t] = r] /\ UNCHANGED <<protocol, source>>

Exited(r, code) == [r EXCEPT !.at = "exited", !.exit = code]

Live(t) == run[t].at \notin {"none", "exited"}

----------------------------------------------------------------------------
(* Correctness.                                                            *)

Launch(t) ==
  /\ run[t].at = "none"
  /\ Becomes(t, IF ProtocolValid(t) THEN [run[t] EXCEPT !.at = "gates"] ELSE Exited(run[t], 2))

(* The gates a label answers for, when its loop over the drivers is over.  *)
LabelPassed(r, label) == Range(GatesOf(label)) \subseteq r.passed

(* What one executable may come to: its exit code, its output and its      *)
(* error metrics count; metrics that are not usable raise (see Abort).     *)
Results(g) == {"passed", "failed"} \cup IF Compared(g) THEN {"worse"} ELSE {}

(* One executable of one label is compiled and run.  The label's file is   *)
(* read before its first gate; its results are judged after its last.      *)
RunGate(t) ==
  LET r == run[t]
      g == Gates[r.gate]
      last == g = GatesOf(g.label)[Len(GatesOf(g.label))]
      read == IF g = GatesOf("candidate")[1] THEN source[t] ELSE r.read
  IN /\ r.at = "gates" /\ r.gate <= Len(Gates)
     /\ \E result \in Results(g) :
          LET s == [r EXCEPT !.gate = @ + 1, !.read = read,
                             !.passed = IF result = "failed" THEN @ ELSE @ \cup {g},
                             !.worse = @ \/ result = "worse"]
          IN Becomes(t, IF last /\ ~LabelPassed(s, g.label) THEN Exited(s, 1) ELSE s)

(* Every strict driver passed the candidate, in both forms.                *)
StrictCovered(r) ==
  {g \in Range(GatesOf("candidate")) : g.driver = "strict"} \subseteq r.passed

(* Both labels passed: the error regression and the strict coverage are    *)
(* validated, and the first manifest is written.                           *)
FinishGates(t) ==
  LET r == run[t]
  IN /\ r.at = "gates" /\ r.gate > Len(Gates)
     /\ Becomes(t, IF r.worse \/ ~StrictCovered(r) THEN Exited(r, 1)
                   ELSE [r EXCEPT !.at = "build",
                                  !.manifest = [stage |-> "gates", version |-> r.read,
                                                outcome |-> "none"]])

----------------------------------------------------------------------------
(* Timing.                                                                 *)

(* Mutant: the file is read again.                                         *)
BuiltFromFile(t) == source[t]

(* The text the timing executables are built from: what the gates read.    *)
Built(t) == run[t].read

(* Benchmark executables, and an NCU profile of each variant when asked    *)
(* for: its command, report, exports, sections and metrics may each fail,  *)
(* and a failure is recorded instead of raised.                            *)
Build(t) ==
  LET r == run[t]
  IN /\ r.at = "build"
     /\ \E profiled \in IF protocol.ncu THEN BOOLEAN ELSE {FALSE} :
          Becomes(t, [r EXCEPT !.at = IF protocol.only[t] THEN "classify" ELSE "time",
                               !.built = Built(t), !.profiled = profiled,
                               !.manifest.stage = "diagnosed"])

(* One session runs both variants, in alternating order, and appends the   *)
(* two records.                                                            *)
Session(t) ==
  LET r == run[t]
  IN /\ r.at = "time" /\ Len(r.pairs) < protocol.sessions
     /\ \E b, c \in Latencies :
          Becomes(t, [r EXCEPT !.pairs = Append(@, [baseline |-> b, candidate |-> c])])

Medians(pairs, label) == {pairs[i][label] : i \in DOMAIN pairs}

Spread(ms, limit) == \A a, b \in ms : 100 * (a - b) <= limit * b

Stable(pairs) == \A label \in Labels : Spread(Medians(pairs, label), SpreadLimit)

(* An unstable first round is measured once more; the second one stands.   *)
EndRound(t) ==
  LET r == run[t]
  IN /\ r.at = "time" /\ Len(r.pairs) = protocol.sessions
     /\ Becomes(t, IF r.round = 0 /\ ~Stable(r.pairs)
                   THEN [r EXCEPT !.round = 1, !.pairs = <<>>]
                   ELSE [r EXCEPT !.at = "classify"])

----------------------------------------------------------------------------
(* The verdict.                                                            *)

(* Twice the median of the session medians of one variant.                 *)
TwiceMedian(pairs, label) ==
  LET n == Len(pairs)
      s == SortSeq([i \in 1 .. n |-> pairs[i][label]], <)
  IN s[(n + 1) \div 2] + s[n \div 2 + 1]

(* The speedup of the medians lies between two percentages.                *)
SpeedupWithin(pairs, low, high) ==
  LET b == 100 * TwiceMedian(pairs, "baseline")
      c == TwiceMedian(pairs, "candidate")
  IN low * c <= b /\ b <= high * c

AllNotSlower(pairs) == \A i \in DOMAIN pairs : pairs[i].baseline >= pairs[i].candidate

(* A candidate whose text is the baseline's is a self-check: its speedup   *)
(* must be one within five percent.                                        *)
Valid(version, pairs) ==
  /\ Stable(pairs)
  /\ version = 0 => SpeedupWithin(pairs, 95, 105)

(* The median of the paired speedups must reach 1.01 and the bootstrap's   *)
(* lower end must exceed one: the verdict is known when every session      *)
(* reaches 1.01 or fewer than half do, and is otherwise left open.         *)
GateVerdicts(pairs) ==
  LET n == Len(pairs)
      material == Cardinality({i \in 1 .. n :
                                 100 * pairs[i].baseline >= 101 * pairs[i].candidate})
  IN CASE n < Minimum["confirmation"] \/ 2 * material < n -> {FALSE}
       [] n >= Minimum["confirmation"] /\ material = n -> {TRUE}
       [] OTHER -> BOOLEAN

Outcome(s) ==
  CASE ~s.timed -> IF protocol.ncu /\ ~s.profiled THEN "blocked" ELSE "completed"
    [] s.timed /\ ~s.valid -> "inconclusive"
    [] s.timed /\ s.valid /\ protocol.phase = "discovery" -> "completed"
    [] OTHER -> IF s.claim THEN "improved" ELSE "no_improvement"

(* summary.json is replaced first, run_manifest.json after it.             *)
WriteSummary(t) ==
  LET r == run[t]
      valid == Valid(r.read, r.pairs)
  IN /\ r.at = "classify"
     /\ IF protocol.only[t]
        THEN Becomes(t, [r EXCEPT !.at = "summarized", !.summary.written = TRUE])
        ELSE \E gate \in IF protocol.phase = "confirmation" THEN GateVerdicts(r.pairs)
                         ELSE {FALSE} :
               Becomes(t, [r EXCEPT !.at = "summarized",
                 !.summary = [written |-> TRUE, timed |-> TRUE, stable |-> Stable(r.pairs),
                              valid |-> valid, pairs |-> r.pairs,
                              claim |-> valid /\ gate /\ AllNotSlower(r.pairs)]])

ExitCode(outcome, profiled) ==
  CASE protocol.ncu /\ ~profiled -> 4
    [] ~(protocol.ncu /\ ~profiled) /\ outcome \in {"inconclusive", "no_improvement"} -> 3
    [] OTHER -> 0

WriteManifest(t) ==
  LET r == run[t]
      outcome == Outcome([timed |-> r.summary.timed, valid |-> r.summary.valid,
                          claim |-> r.summary.claim, profiled |-> r.profiled])
  IN /\ r.at = "summarized"
     /\ Becomes(t, [Exited(r, ExitCode(outcome, r.profiled))
                      EXCEPT !.manifest.stage = "final", !.manifest.outcome = outcome])

(* A program that reports a blocked CUDA resource: BlockedResourceError.   *)
MayBlock(r) == r.at \in {"gates", "time"}

(* A compiler error, a timeout, an execution that fails its own check or a *)
(* kill ends the process where it stands, with code 1, a blocked resource  *)
(* with code 4.                                                            *)
Abort(t) ==
  /\ Live(t)
  /\ \E code \in {1} \cup IF MayBlock(run[t]) THEN {4} ELSE {} :
       Becomes(t, Exited(run[t], code))

(* The candidate file is edited while measurements run or wait.            *)
Edit(t) ==
  /\ \E v \in Versions \ {source[t]} : source' = [source EXCEPT ![t] = v]
  /\ UNCHANGED <<protocol, run>>

TaskStep(t) ==
  \/ RunGate(t) \/ FinishGates(t) \/ Build(t) \/ Session(t) \/ EndRound(t)
  \/ WriteSummary(t) \/ WriteManifest(t) \/ Abort(t)
=============================================================================
