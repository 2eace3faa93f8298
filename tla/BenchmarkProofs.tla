---------------------------- MODULE BenchmarkProofs ----------------------------
(***************************************************************************)
(* What benchmark_cuda.py times is what passed, what the suite's rows say  *)
(* is what the folders say, and what the report verifies was earned: for   *)
(* every suite of tasks, every protocol, all texts and all latencies.      *)
(***************************************************************************)
EXTENDS Benchmark, SequenceTheorems, TLAPS

----------------------------------------------------------------------------
(* The gates, in the order they are run.                                   *)

Gate == [label : Labels, driver : {"official", "extra", "strict"},
         form : {"original", "normalized"}]

(* A function over 1 .. n is a sequence of length n.                       *)
LEMMA FunctionIsSequence ==
  ASSUME NEW S, NEW n \in Nat, NEW f \in [1 .. n -> S]
  PROVE  f \in Seq(S) /\ Len(f) = n
OBVIOUS

LEMMA GatesOfLabels ==
  /\ GatesOf("baseline") \in Seq(Gate) /\ Len(GatesOf("baseline")) = 4
  /\ GatesOf("candidate") \in Seq(Gate) /\ Len(GatesOf("candidate")) = 6
  /\ GatesOf("baseline")[4].label = "baseline"
  /\ GatesOf("candidate")[6].label = "candidate"
<1>1. Drivers("baseline") = <<"official", "extra">>
      /\ Drivers("candidate") = <<"official", "extra", "strict">>
  BY DEF Drivers
<1>2. 2 * Len(Drivers("baseline")) = 4 /\ 2 * Len(Drivers("candidate")) = 6
  <2>1. Len(<<"official", "extra">>) = 2 /\ Len(<<"official", "extra", "strict">>) = 3
    OBVIOUS
  <2>2. Len(Drivers("baseline")) = 2 /\ Len(Drivers("candidate")) = 3
    BY <1>1, <2>1, Zenon
  <2>3. 2 * 2 = 4 /\ 2 * 3 = 6
    OBVIOUS
  <2> QED BY <2>2, <2>3, Zenon
<1>3. GatesOf("baseline") = [i \in 1 .. 4 |->
        [label |-> "baseline", driver |-> <<"official", "extra">>[(i + 1) \div 2],
         form |-> IF i % 2 = 1 THEN "original" ELSE "normalized"]]
  BY <1>1, <1>2, Zenon DEF GatesOf
<1>4. GatesOf("candidate") = [i \in 1 .. 6 |->
        [label |-> "candidate", driver |-> <<"official", "extra", "strict">>[(i + 1) \div 2],
         form |-> IF i % 2 = 1 THEN "original" ELSE "normalized"]]
  BY <1>1, <1>2, Zenon DEF GatesOf
<1>5. \A i \in 1 .. 4 : (i + 1) \div 2 \in 1 .. 2
  OBVIOUS
<1>6. \A i \in 1 .. 6 : (i + 1) \div 2 \in 1 .. 3
  OBVIOUS
<1>7. \A k \in 1 .. 2 : <<"official", "extra">>[k] \in {"official", "extra", "strict"}
  OBVIOUS
<1>8. \A k \in 1 .. 3 : <<"official", "extra", "strict">>[k] \in {"official", "extra", "strict"}
  OBVIOUS
<1>9. GatesOf("baseline") \in [1 .. 4 -> Gate]
  BY <1>3, <1>5, <1>7 DEF Gate, Labels
<1>10. GatesOf("candidate") \in [1 .. 6 -> Gate]
  BY <1>4, <1>6, <1>8 DEF Gate, Labels
<1>11. GatesOf("baseline") \in Seq(Gate) /\ Len(GatesOf("baseline")) = 4
  BY <1>9, FunctionIsSequence
<1>12. GatesOf("candidate") \in Seq(Gate) /\ Len(GatesOf("candidate")) = 6
  BY <1>10, FunctionIsSequence
<1>13. GatesOf("baseline")[4].label = "baseline" /\ GatesOf("candidate")[6].label = "candidate"
  BY <1>3, <1>4
<1> QED BY <1>11, <1>12, <1>13

(* The last gate of each label ends it, and both labels are all the gates. *)
LEMMA TheGates ==
  /\ Gates \in Seq(Gate) /\ Len(Gates) = 10
  /\ Gates[4] = GatesOf("baseline")[4] /\ Gates[10] = GatesOf("candidate")[6]
  /\ Range(Gates) = Range(GatesOf("baseline")) \cup Range(GatesOf("candidate"))
<1> DEFINE b == GatesOf("baseline")
           c == GatesOf("candidate")
<1>1. b \in Seq(Gate) /\ Len(b) = 4 /\ c \in Seq(Gate) /\ Len(c) = 6
  BY GatesOfLabels
<1>2. Gates = b \o c
  BY DEF Gates
<1> HIDE DEF b, c
<1>3. /\ b \o c \in Seq(Gate)
      /\ Len(b \o c) = Len(b) + Len(c)
      /\ \A i \in 1 .. Len(b) + Len(c) : (b \o c)[i] =
           IF i <= Len(b) THEN b[i] ELSE c[i - Len(b)]
  BY <1>1, ConcatProperties
<1>4. Gates \in Seq(Gate) /\ Len(Gates) = 10
  BY <1>1, <1>2, <1>3
<1>5. \A i \in 1 .. 10 : Gates[i] = IF i <= 4 THEN b[i] ELSE c[i - 4]
  <2>1. Len(b) + Len(c) = 10
    BY <1>1
  <2> QED BY <1>1, <1>2, <1>3, <2>1, Zenon
<1>6. DOMAIN Gates = 1 .. 10 /\ DOMAIN b = 1 .. 4 /\ DOMAIN c = 1 .. 6
  BY <1>1, <1>4, LenProperties
<1>7. \A i \in 1 .. 4 : i \in 1 .. 10 /\ Gates[i] = b[i]
  BY <1>5
<1>8. \A i \in 1 .. 6 : i + 4 \in 1 .. 10 /\ Gates[i + 4] = c[i]
  BY <1>5
<1>9. Range(Gates) \subseteq Range(b) \cup Range(c)
  <2>1. \A i \in 1 .. 10 : i <= 4 => i \in 1 .. 4
    OBVIOUS
  <2>2. \A i \in 1 .. 10 : ~(i <= 4) => i - 4 \in 1 .. 6
    OBVIOUS
  <2> QED BY <1>5, <1>6, <2>1, <2>2 DEF Range
<1>10. Range(b) \subseteq Range(Gates) /\ Range(c) \subseteq Range(Gates)
  BY <1>6, <1>7, <1>8 DEF Range
<1>11. Gates[4] = b[4] /\ Gates[10] = c[6]
  BY <1>5
<1> QED BY <1>4, <1>9, <1>10, <1>11 DEF b, c

----------------------------------------------------------------------------
(* The invariant of one process.                                           *)

Fields ==
  {"at", "exit", "gate", "passed", "worse", "read", "built", "profiled", "round", "pairs",
   "manifest", "summary"}

(* Every gate passed, and the first manifest says on which text.           *)
AllPassed(r) ==
  r.passed = Range(Gates) /\ ~r.worse /\ r.read = r.manifest.version

(* The gates passed grow in order: those of a label are complete when the  *)
(* next one starts.  The record of the text made after the last gate is    *)
(* never touched again.                                                    *)
ProcessOK(r) ==
  /\ DOMAIN r = Fields /\ DOMAIN r.manifest = {"stage", "version", "outcome"}
  /\ r.gate \in Nat \ {0} /\ r.passed \subseteq Range(Gates)
  /\ r.at \in {"none", "gates", "build", "time", "classify", "summarized", "exited"}
  /\ r.at = "none" => r.gate = 1
  /\ r.at \in {"none", "gates"} => r.built = -1
  /\ r.at = "gates" => /\ r.gate > 4 => LabelPassed(r, "baseline")
                       /\ r.gate > 10 => LabelPassed(r, "candidate")
  /\ r.at \in {"build", "time", "classify", "summarized"} => AllPassed(r)
  /\ r.built # -1 => AllPassed(r) /\ r.built = r.read

(* What EXCEPT needs to know of run, and the invariant of every process.   *)
IInv == run = [t \in Tasks |-> run[t]] /\ \A t \in Tasks : ProcessOK(run[t])

LEMMA InitOK == ASSUME Init PROVE IInv
<1>1. ProcessOK(Idle)
  <2>1. 1 \in Nat \ {0} /\ ~(1 > 4) /\ ~(1 > 10)
    OBVIOUS
  <2> QED BY <2>1 DEF ProcessOK, Idle, Fields, NoManifest
<1> QED BY <1>1 DEF Init, TaskInit, IInv

(* A step of one process that keeps its invariant keeps everyone's.        *)
LEMMA BecomesOK ==
  ASSUME IInv, NEW t \in Tasks, NEW r, ProcessOK(r), Becomes(t, r)
  PROVE  IInv'
<1>1. run' = [u \in Tasks |-> IF u = t THEN r ELSE run[u]]
  BY DEF IInv, Becomes
<1>2. run' = [u \in Tasks |-> run'[u]]
  BY <1>1
<1>3. ASSUME NEW u \in Tasks PROVE ProcessOK(run'[u])
  <2>1. CASE u = t
    BY <2>1, <1>1
  <2>2. CASE u # t
    BY <2>2, <1>1 DEF IInv
  <2> QED BY <2>1, <2>2
<1> QED BY <1>2, <1>3 DEF IInv

(* Wherever a process stops, what it leaves is in order.                   *)
LEMMA ExitedOK ==
  ASSUME NEW r, ProcessOK(r), NEW code
  PROVE  ProcessOK(Exited(r, code))
BY DEF ProcessOK, Exited, Fields, AllPassed

LEMMA LaunchOK == ASSUME IInv, NEW t \in Tasks, Launch(t) PROVE IInv'
<1>1. ProcessOK(run[t]) /\ run[t].at = "none"
  BY DEF IInv, Launch
<1>2. ProcessOK([run[t] EXCEPT !.at = "gates"])
  BY <1>1 DEF ProcessOK, Fields
<1>3. ProcessOK(Exited(run[t], 2))
  BY <1>1, ExitedOK
<1> QED BY <1>2, <1>3, BecomesOK DEF Launch

(* Once the last gate of a label is judged, all its gates have passed or   *)
(* the process is gone.                                                    *)
LEMMA RunGateOK == ASSUME IInv, NEW t \in Tasks, RunGate(t) PROVE IInv'
<1> DEFINE r == run[t]
           g == Gates[r.gate]
           last == g = GatesOf(g.label)[Len(GatesOf(g.label))]
           read == IF g = GatesOf("candidate")[1] THEN source[t] ELSE r.read
           next(result) == [r EXCEPT !.gate = @ + 1, !.read = read,
                                     !.passed = IF result = "failed" THEN @ ELSE @ \cup {g},
                                     !.worse = @ \/ result = "worse"]
<1>1. ProcessOK(r) /\ r.at = "gates" /\ r.gate <= Len(Gates)
  BY DEF IInv, RunGate
<1>2. PICK result : Becomes(t, IF last /\ ~LabelPassed(next(result), g.label)
                              THEN Exited(next(result), 1) ELSE next(result))
  BY DEF RunGate
<1> DEFINE s == next(result)
<1>3. r.gate \in 1 .. 10 /\ g \in Range(Gates)
  <2>1. r.gate \in 1 .. 10
    BY <1>1, TheGates, SMTT(30) DEF ProcessOK
  <2>2. DOMAIN Gates = 1 .. 10
    BY TheGates, LenProperties
  <2> QED BY <2>1, <2>2 DEF Range
<1>4. /\ DOMAIN s = Fields /\ s.manifest = r.manifest /\ s.gate = r.gate + 1
      /\ s.at = "gates" /\ s.built = -1 /\ r.passed \subseteq s.passed
      /\ s.passed \subseteq Range(Gates)
  <2>1. DOMAIN r = Fields /\ r.at = "gates" /\ r.built = -1 /\ r.passed \subseteq Range(Gates)
    BY <1>1 DEF ProcessOK
  <2> QED BY <1>3, <2>1 DEF Fields
<1>5. (r.gate > 4 => LabelPassed(r, "baseline")) /\ (r.gate > 10 => LabelPassed(r, "candidate"))
  BY <1>1 DEF ProcessOK
<1> HIDE DEF next
<1>6. ASSUME ~(last /\ ~LabelPassed(s, g.label)) PROVE s.gate > 4 => LabelPassed(s, "baseline")
  <2>1. CASE r.gate > 4
    BY <2>1, <1>4, <1>5 DEF LabelPassed
  <2>2. CASE r.gate = 4
    <3>1. last /\ g.label = "baseline"
      BY <2>2, TheGates, GatesOfLabels
    <3> QED BY <3>1, <1>6
  <2>3. CASE r.gate < 4
    BY <2>3, <1>3, <1>4
  <2> QED BY <1>3, <2>1, <2>2, <2>3
<1>7. ASSUME ~(last /\ ~LabelPassed(s, g.label)) PROVE s.gate > 10 => LabelPassed(s, "candidate")
  <2>1. CASE r.gate = 10
    <3>1. last /\ g.label = "candidate"
      BY <2>1, TheGates, GatesOfLabels
    <3> QED BY <3>1, <1>7
  <2>2. CASE r.gate # 10
    BY <2>2, <1>3, <1>4
  <2> QED BY <2>1, <2>2
<1>8. CASE last /\ ~LabelPassed(s, g.label)
  <2>1. Becomes(t, Exited(s, 1))
    BY <1>2, <1>8
  <2>2. r.gate + 1 \in Nat \ {0} /\ DOMAIN r.manifest = {"stage", "version", "outcome"}
    BY <1>1, <1>3 DEF ProcessOK
  <2>3. ProcessOK(Exited(s, 1))
    BY <1>4, <2>2 DEF ProcessOK, Exited, Fields
  <2> QED BY <2>1, <2>3, BecomesOK
<1>9. CASE ~(last /\ ~LabelPassed(s, g.label))
  <2>1. Becomes(t, s)
    BY <1>2, <1>9
  <2>2. r.gate + 1 \in Nat \ {0} /\ DOMAIN r.manifest = {"stage", "version", "outcome"}
    BY <1>1, <1>3 DEF ProcessOK
  <2>3. ProcessOK(s)
    BY <1>4, <1>6, <1>7, <1>9, <2>2 DEF ProcessOK
  <2> QED BY <2>1, <2>3, BecomesOK
<1> QED BY <1>8, <1>9

(* The manifest names the text that was read, and nothing reads it again.  *)
LEMMA FinishGatesOK == ASSUME IInv, NEW t \in Tasks, FinishGates(t) PROVE IInv'
<1> DEFINE r == run[t]
           s == [r EXCEPT !.at = "build",
                          !.manifest = [stage |-> "gates", version |-> r.read,
                                        outcome |-> "none"]]
<1>1. ProcessOK(r) /\ r.at = "gates" /\ r.gate > 10
  BY TheGates DEF IInv, FinishGates
<1>2. r.passed = Range(Gates)
  <2>1. r.gate > 4
    BY <1>1 DEF ProcessOK
  <2> QED BY <1>1, <2>1, TheGates DEF ProcessOK, LabelPassed
<1>3. CASE r.worse \/ ~StrictCovered(r)
  BY <1>1, <1>3, ExitedOK, BecomesOK DEF FinishGates
<1>4. CASE ~r.worse
  <2>1. ProcessOK(s)
    BY <1>1, <1>2, <1>4 DEF ProcessOK, Fields, AllPassed
  <2>2. Becomes(t, s) \/ Becomes(t, Exited(r, 1))
    BY DEF FinishGates
  <2> QED BY <1>1, <2>1, <2>2, ExitedOK, BecomesOK
<1> QED BY <1>3, <1>4

(* What is built is what the gates read.                                   *)
LEMMA BuildOK == ASSUME IInv, NEW t \in Tasks, Build(t) PROVE IInv'
<1> DEFINE r == run[t]
           s(p) == [r EXCEPT !.at = IF protocol.only[t] THEN "classify" ELSE "time",
                             !.built = Built(t), !.profiled = p,
                             !.manifest.stage = "diagnosed"]
<1>1. ProcessOK(r) /\ r.at = "build"
  BY DEF IInv, Build
<1>2. PICK p : Becomes(t, s(p))
  BY DEF Build
<1>3. ProcessOK(s(p))
  BY <1>1 DEF ProcessOK, Fields, AllPassed, Built
<1> QED BY <1>2, <1>3, BecomesOK

LEMMA SessionOK == ASSUME IInv, NEW t \in Tasks, Session(t) PROVE IInv'
<1>1. ProcessOK(run[t]) /\ run[t].at = "time"
  BY DEF IInv, Session
<1>2. PICK b, c : Becomes(t, [run[t] EXCEPT !.pairs =
                                Append(@, [baseline |-> b, candidate |-> c])])
  BY DEF Session
<1>3. ProcessOK([run[t] EXCEPT !.pairs = Append(@, [baseline |-> b, candidate |-> c])])
  BY <1>1 DEF ProcessOK, Fields, AllPassed
<1> QED BY <1>2, <1>3, BecomesOK

LEMMA EndRoundOK == ASSUME IInv, NEW t \in Tasks, EndRound(t) PROVE IInv'
<1>1. ProcessOK(run[t]) /\ run[t].at = "time"
  BY DEF IInv, EndRound
<1>2. ProcessOK([run[t] EXCEPT !.round = 1, !.pairs = <<>>])
  BY <1>1 DEF ProcessOK, Fields, AllPassed
<1>3. ProcessOK([run[t] EXCEPT !.at = "classify"])
  BY <1>1 DEF ProcessOK, Fields, AllPassed
<1> QED BY <1>2, <1>3, BecomesOK DEF EndRound

LEMMA WriteSummaryOK == ASSUME IInv, NEW t \in Tasks, WriteSummary(t) PROVE IInv'
<1>1. ProcessOK(run[t]) /\ run[t].at = "classify"
  BY DEF IInv, WriteSummary
<1>2. CASE protocol.only[t]
  <2>1. ProcessOK([run[t] EXCEPT !.at = "summarized", !.summary.written = TRUE])
    BY <1>1 DEF ProcessOK, Fields, AllPassed
  <2> QED BY <1>2, <2>1, BecomesOK DEF WriteSummary
<1>3. CASE ~protocol.only[t]
  <2>1. PICK summary : Becomes(t, [run[t] EXCEPT !.at = "summarized", !.summary = summary])
    BY <1>3 DEF WriteSummary
  <2>2. ProcessOK([run[t] EXCEPT !.at = "summarized", !.summary = summary])
    BY <1>1 DEF ProcessOK, Fields, AllPassed
  <2> QED BY <2>1, <2>2, BecomesOK
<1> QED BY <1>2, <1>3

LEMMA WriteManifestOK == ASSUME IInv, NEW t \in Tasks, WriteManifest(t) PROVE IInv'
<1>1. ProcessOK(run[t])
  BY DEF IInv
<1>2. PICK code, outcome :
        Becomes(t, [Exited(run[t], code) EXCEPT !.manifest.stage = "final",
                                                !.manifest.outcome = outcome])
  BY DEF WriteManifest
<1>3. ProcessOK(Exited(run[t], code)) /\ Exited(run[t], code).at = "exited"
  BY <1>1, ExitedOK DEF Exited, ProcessOK, Fields
<1>4. ProcessOK([Exited(run[t], code) EXCEPT !.manifest.stage = "final",
                                             !.manifest.outcome = outcome])
  BY <1>3 DEF ProcessOK, Fields, AllPassed
<1> QED BY <1>2, <1>4, BecomesOK

LEMMA AbortOK == ASSUME IInv, NEW t \in Tasks, Abort(t) PROVE IInv'
<1>1. PICK code : Becomes(t, Exited(run[t], code))
  BY DEF Abort
<1>2. ProcessOK(Exited(run[t], code))
  BY ExitedOK DEF IInv
<1> QED BY <1>1, <1>2, BecomesOK

LEMMA NextOK == ASSUME IInv, [Next]_vars PROVE IInv'
<1>1. ASSUME UNCHANGED run PROVE IInv'
  BY <1>1 DEF IInv
<1>2. CASE StartTask
  <2>1. CASE Current \in Tasks
    BY <1>2, <2>1, LaunchOK DEF StartTask
  <2>2. CASE Current \notin Tasks
    <3>1. PICK r : Becomes(Current, r)
      BY <1>2 DEF StartTask, Launch
    <3>2. run' = run
      BY <2>2, <3>1 DEF IInv, Becomes
    <3> QED BY <1>1, <3>2
  <2> QED BY <2>1, <2>2
<1>3. CASE CollectRow
  BY <1>1, <1>3 DEF CollectRow, files
<1>4. CASE Complete
  BY <1>1, <1>4 DEF Complete, files
<1>5. CASE KillSuite
  BY <1>1, <1>5 DEF KillSuite, files
<1>6. CASE TorchSummary
  BY <1>1, <1>6 DEF TorchSummary, files
<1>7. CASE WriteReport
  BY <1>1, <1>7 DEF WriteReport, files
<1>8. ASSUME NEW t \in Tasks, Step(t) PROVE IInv'
  BY <1>8, RunGateOK, FinishGatesOK, BuildOK, SessionOK, EndRoundOK, WriteSummaryOK,
     WriteManifestOK, AbortOK DEF Step, TaskStep
<1>9. ASSUME NEW t \in Tasks, EditSource(t) PROVE IInv'
  BY <1>1, <1>9 DEF EditSource, Edit
<1>10. CASE UNCHANGED vars
  BY <1>1, <1>10 DEF vars
<1> QED BY <1>2, <1>3, <1>4, <1>5, <1>6, <1>7, <1>8, <1>9, <1>10 DEF Next

(* Nothing is timed or profiled before every gate of both variants passed  *)
(* on exactly the text that is timed, for every suite, protocol, history   *)
(* of edits, kill and abort.                                               *)
THEOREM TimedOnlyWhatPassedAlways == Spec => []TimedOnlyWhatPassed
<1>1. Init => IInv
  BY InitOK
<1>2. IInv /\ [Next]_vars => IInv'
  BY NextOK
<1>3. IInv => TimedOnlyWhatPassed
  BY DEF IInv, ProcessOK, AllPassed, TimedOnlyWhatPassed
<1> QED BY <1>1, <1>2, <1>3, PTL DEF Spec

----------------------------------------------------------------------------
(* The verdict of one process, under the options p of the suite.           *)

SummaryFields == {"written", "timed", "stable", "valid", "claim", "pairs"}

Pair == [baseline : Latencies, candidate : Latencies]

(* A claim is made of a complete confirmation round, the exit code agrees  *)
(* with the outcome of the final manifest.                                 *)
VerdictOK(r, p) ==
  /\ DOMAIN r.summary = SummaryFields /\ r.pairs \in Seq(Pair)
  /\ r.at \in {"time", "classify", "summarized"} => r.built = r.read
  /\ r.summary.claim =>
       /\ r.at \in {"summarized", "exited"} /\ AllPassed(r) /\ r.built = r.read
       /\ p.phase = "confirmation" /\ r.summary.pairs = r.pairs
       /\ Len(r.pairs) >= Minimum["confirmation"]
       /\ Stable(r.pairs) /\ AllNotSlower(r.pairs)
  /\ r.at = "exited" /\ r.exit \in {0, 3} =>
       /\ r.manifest.stage = "final"
       /\ p.ncu => r.profiled
       /\ r.exit = 0 => r.manifest.outcome \in {"completed", "improved"}
       /\ r.exit = 3 /\ r.summary.timed /\ r.summary.valid =>
            r.manifest.outcome = "no_improvement"

VInv == IInv /\ \A t \in Tasks : VerdictOK(run[t], protocol)

LEMMA InitVerdicts == ASSUME Init PROVE VInv
<1>1. VerdictOK(Idle, protocol)
  BY DEF VerdictOK, Idle, NoSummary, SummaryFields
<1> QED BY <1>1, InitOK DEF VInv, Init, TaskInit

LEMMA BecomesVerdict ==
  ASSUME VInv, IInv', NEW t \in Tasks, NEW r, VerdictOK(r, protocol), Becomes(t, r)
  PROVE  VInv'
<1>1. run' = [u \in Tasks |-> IF u = t THEN r ELSE run[u]]
  BY DEF VInv, IInv, Becomes
<1>2. protocol' = protocol
  BY DEF Becomes
<1>3. ASSUME NEW u \in Tasks PROVE VerdictOK(run'[u], protocol)
  <2>1. CASE u = t
    BY <2>1, <1>1
  <2>2. CASE u # t
    BY <2>2, <1>1 DEF VInv
  <2> QED BY <2>1, <2>2
<1> QED BY <1>2, <1>3 DEF VInv

(* A process that ends with a code of a failure claims nothing new.        *)
LEMMA FailedVerdict ==
  ASSUME NEW r, NEW p, ProcessOK(r), VerdictOK(r, p), NEW code, code \notin {0, 3},
         r.at # "exited"
  PROVE  VerdictOK(Exited(r, code), p)
BY DEF VerdictOK, Exited, ProcessOK, Fields, SummaryFields, AllPassed

LEMMA LaunchVerdict == ASSUME VInv, IInv', NEW t \in Tasks, Launch(t) PROVE VInv'
<1>1. ProcessOK(run[t]) /\ run[t].at = "none" /\ VerdictOK(run[t], protocol)
  BY DEF VInv, IInv, Launch
<1>2. VerdictOK([run[t] EXCEPT !.at = "gates"], protocol)
  BY <1>1 DEF VerdictOK, ProcessOK, Fields
<1>3. VerdictOK(Exited(run[t], 2), protocol)
  BY <1>1, FailedVerdict
<1> QED BY <1>2, <1>3, BecomesVerdict DEF Launch

LEMMA RunGateVerdict == ASSUME VInv, IInv', NEW t \in Tasks, RunGate(t) PROVE VInv'
<1> DEFINE r == run[t]
           g == Gates[r.gate]
           next(read, passed, worse) ==
             [r EXCEPT !.gate = @ + 1, !.read = read, !.passed = passed, !.worse = worse]
<1>1. ProcessOK(r) /\ r.at = "gates" /\ VerdictOK(r, protocol)
  BY DEF VInv, IInv, RunGate
<1>2. PICK read, passed, worse :
        Becomes(t, next(read, passed, worse)) \/ Becomes(t, Exited(next(read, passed, worse), 1))
  BY DEF RunGate
<1>3. VerdictOK(next(read, passed, worse), protocol)
  BY <1>1 DEF VerdictOK, ProcessOK, Fields
<1>4. VerdictOK(Exited(next(read, passed, worse), 1), protocol)
  BY <1>1 DEF VerdictOK, ProcessOK, Fields, Exited
<1> QED BY <1>2, <1>3, <1>4, BecomesVerdict

LEMMA FinishGatesVerdict == ASSUME VInv, IInv', NEW t \in Tasks, FinishGates(t) PROVE VInv'
<1> DEFINE s == [run[t] EXCEPT !.at = "build",
                               !.manifest = [stage |-> "gates", version |-> run[t].read,
                                             outcome |-> "none"]]
<1>1. ProcessOK(run[t]) /\ run[t].at = "gates" /\ VerdictOK(run[t], protocol)
  BY DEF VInv, IInv, FinishGates
<1>2. Becomes(t, Exited(run[t], 1)) \/ Becomes(t, s)
  BY DEF FinishGates
<1>3. VerdictOK(s, protocol)
  BY <1>1 DEF VerdictOK, ProcessOK, Fields
<1>4. VerdictOK(Exited(run[t], 1), protocol)
  BY <1>1, FailedVerdict
<1> QED BY <1>2, <1>3, <1>4, BecomesVerdict

(* Only what was built on the text read reaches a verdict.                 *)
LEMMA BuildVerdict == ASSUME VInv, IInv', NEW t \in Tasks, Build(t) PROVE VInv'
<1> DEFINE s(p) == [run[t] EXCEPT !.at = IF protocol.only[t] THEN "classify" ELSE "time",
                                  !.built = Built(t), !.profiled = p,
                                  !.manifest.stage = "diagnosed"]
<1>1. ProcessOK(run[t]) /\ run[t].at = "build" /\ VerdictOK(run[t], protocol)
  BY DEF VInv, IInv, Build
<1>2. PICK p : Becomes(t, s(p))
  BY DEF Build
<1>3. VerdictOK(s(p), protocol)
  BY <1>1 DEF VerdictOK, ProcessOK, Fields, Built
<1> QED BY <1>2, <1>3, BecomesVerdict

LEMMA SessionVerdict == ASSUME VInv, IInv', NEW t \in Tasks, Session(t) PROVE VInv'
<1>1. ProcessOK(run[t]) /\ run[t].at = "time" /\ VerdictOK(run[t], protocol)
  BY DEF VInv, IInv, Session
<1>2. PICK b \in Latencies, c \in Latencies :
        Becomes(t, [run[t] EXCEPT !.pairs = Append(@, [baseline |-> b, candidate |-> c])])
  BY DEF Session
<1>3. Append(run[t].pairs, [baseline |-> b, candidate |-> c]) \in Seq(Pair)
  <2>1. [baseline |-> b, candidate |-> c] \in Pair
    BY DEF Pair
  <2> QED BY <1>1, <2>1, AppendProperties DEF VerdictOK
<1>4. VerdictOK([run[t] EXCEPT !.pairs = Append(@, [baseline |-> b, candidate |-> c])], protocol)
  BY <1>1, <1>3 DEF VerdictOK, ProcessOK, Fields
<1> QED BY <1>2, <1>4, BecomesVerdict

LEMMA EndRoundVerdict == ASSUME VInv, IInv', NEW t \in Tasks, EndRound(t) PROVE VInv'
<1>1. ProcessOK(run[t]) /\ run[t].at = "time" /\ VerdictOK(run[t], protocol)
  BY DEF VInv, IInv, EndRound
<1>2. VerdictOK([run[t] EXCEPT !.round = 1, !.pairs = <<>>], protocol)
  BY <1>1 DEF VerdictOK, ProcessOK, Fields
<1>3. VerdictOK([run[t] EXCEPT !.at = "classify"], protocol)
  BY <1>1 DEF VerdictOK, ProcessOK, Fields
<1> QED BY <1>2, <1>3, BecomesVerdict DEF EndRound

(* A gate that may say yes has seen all sessions of a confirmation.        *)
LEMMA GateNeedsSessions ==
  ASSUME NEW pairs \in Seq(Pair), TRUE \in GateVerdicts(pairs)
  PROVE  Len(pairs) >= Minimum["confirmation"]
<1>1. Len(pairs) \in Nat /\ Minimum["confirmation"] \in Nat
  BY LenProperties, MinimumAssumption
<1>2. ASSUME Len(pairs) < Minimum["confirmation"] PROVE FALSE
  <2>1. ~(Len(pairs) >= Minimum["confirmation"])
    BY <1>1, <1>2
  <2>2. GateVerdicts(pairs) = {FALSE}
    BY <1>2, <2>1, Zenon DEF GateVerdicts
  <2> QED BY <2>2
<1> QED BY <1>1, <1>2

LEMMA WriteSummaryVerdict == ASSUME VInv, IInv', NEW t \in Tasks, WriteSummary(t) PROVE VInv'
<1> DEFINE r == run[t]
           valid == Valid(r.read, r.pairs)
           s(gate) == [r EXCEPT !.at = "summarized",
                 !.summary = [written |-> TRUE, timed |-> TRUE, stable |-> Stable(r.pairs),
                              valid |-> valid, pairs |-> r.pairs,
                              claim |-> valid /\ gate /\ AllNotSlower(r.pairs)]]
<1>1. ProcessOK(r) /\ r.at = "classify" /\ VerdictOK(r, protocol)
  BY DEF VInv, IInv, WriteSummary
<1>2. CASE protocol.only[t]
  <2>1. VerdictOK([r EXCEPT !.at = "summarized", !.summary.written = TRUE], protocol)
    BY <1>1 DEF VerdictOK, ProcessOK, Fields, SummaryFields
  <2> QED BY <1>2, <2>1, BecomesVerdict DEF WriteSummary
<1>3. CASE ~protocol.only[t]
  <2>1. PICK gate \in IF protocol.phase = "confirmation" THEN GateVerdicts(r.pairs) ELSE {FALSE} :
          Becomes(t, s(gate))
    BY <1>3 DEF WriteSummary
  <2>2. gate \in BOOLEAN
    BY DEF GateVerdicts
  <2>3. gate => protocol.phase = "confirmation" /\ Len(r.pairs) >= Minimum["confirmation"]
    BY <1>1, <2>2, GateNeedsSessions DEF VerdictOK
  <2>4. valid => Stable(r.pairs)
    BY DEF Valid
  <2>5. VerdictOK(s(gate), protocol)
    BY <1>1, <2>3, <2>4 DEF VerdictOK, ProcessOK, Fields, SummaryFields, AllPassed
  <2> QED BY <2>1, <2>5, BecomesVerdict
<1> QED BY <1>2, <1>3

(* The exit code is zero for the outcomes that need no caution, and 3 only *)
(* for an inconclusive one or none.                                        *)
LEMMA WriteManifestVerdict ==
  ASSUME VInv, IInv', NEW t \in Tasks, WriteManifest(t)
  PROVE  VInv'
<1> DEFINE r == run[t]
           outcome == Outcome([timed |-> r.summary.timed, valid |-> r.summary.valid,
                               claim |-> r.summary.claim, profiled |-> r.profiled])
           code == ExitCode(outcome, r.profiled)
           s == [Exited(r, code) EXCEPT !.manifest.stage = "final",
                                        !.manifest.outcome = outcome]
<1>1. ProcessOK(r) /\ r.at = "summarized" /\ VerdictOK(r, protocol) /\ Becomes(t, s)
  BY DEF VInv, IInv, WriteManifest
<1>2. outcome \in {"blocked", "completed", "inconclusive", "improved", "no_improvement"}
  BY DEF Outcome
<1>3. r.summary.timed /\ r.summary.valid => outcome # "inconclusive"
  BY DEF Outcome
<1>4. outcome = "blocked" => protocol.ncu /\ ~r.profiled
  BY DEF Outcome
<1>5. /\ code \in {0, 3} => (protocol.ncu => r.profiled)
      /\ code = 0 => outcome \notin {"inconclusive", "no_improvement"}
      /\ code = 3 => outcome \in {"inconclusive", "no_improvement"}
  BY DEF ExitCode
<1> HIDE DEF outcome, code
<1>6. VerdictOK(s, protocol)
  BY <1>1, <1>2, <1>3, <1>4, <1>5
     DEF VerdictOK, ProcessOK, Fields, SummaryFields, AllPassed, Exited
<1> QED BY <1>1, <1>6, BecomesVerdict

LEMMA AbortVerdict == ASSUME VInv, IInv', NEW t \in Tasks, Abort(t) PROVE VInv'
<1>1. PICK code \in {1, 4} : Becomes(t, Exited(run[t], code))
  BY DEF Abort
<1>2. ProcessOK(run[t]) /\ run[t].at # "exited" /\ VerdictOK(run[t], protocol)
  BY DEF VInv, IInv, Abort, Live
<1>3. VerdictOK(Exited(run[t], code), protocol)
  BY <1>2, FailedVerdict
<1> QED BY <1>1, <1>3, BecomesVerdict

LEMMA NextVerdicts == ASSUME VInv, [Next]_vars PROVE VInv'
<1>1. IInv'
  BY NextOK DEF VInv
<1>2. ASSUME UNCHANGED <<protocol, run>> PROVE VInv'
  BY <1>1, <1>2 DEF VInv
<1>3. CASE StartTask
  <2>1. CASE Current \in Tasks
    BY <1>1, <1>3, <2>1, LaunchVerdict DEF StartTask
  <2>2. CASE Current \notin Tasks
    <3>1. PICK r : Becomes(Current, r)
      BY <1>3 DEF StartTask, Launch
    <3>2. UNCHANGED <<protocol, run>>
      BY <2>2, <3>1 DEF VInv, IInv, Becomes
    <3> QED BY <1>2, <3>2
  <2> QED BY <2>1, <2>2
<1>4. CASE CollectRow \/ Complete \/ KillSuite \/ TorchSummary \/ WriteReport
  BY <1>2, <1>4 DEF CollectRow, Complete, KillSuite, TorchSummary, WriteReport, files
<1>5. ASSUME NEW t \in Tasks, Step(t) PROVE VInv'
  BY <1>1, <1>5, RunGateVerdict, FinishGatesVerdict, BuildVerdict, SessionVerdict,
     EndRoundVerdict, WriteSummaryVerdict, WriteManifestVerdict, AbortVerdict
     DEF Step, TaskStep
<1>6. ASSUME NEW t \in Tasks, EditSource(t) PROVE VInv'
  BY <1>2, <1>6 DEF EditSource, Edit
<1>7. CASE UNCHANGED vars
  BY <1>2, <1>7 DEF vars
<1> QED BY <1>3, <1>4, <1>5, <1>6, <1>7 DEF Next

----------------------------------------------------------------------------
(* The rows and the report.                                                *)

(* A row is what its ended process left.                                   *)
RowsOK ==
  /\ suite.rows \in Seq(Range(suite.rows)) /\ DOMAIN suite = {"rows", "complete", "alive"}
  /\ \A row \in Range(suite.rows) :
       row.task \in Tasks /\ run[row.task].at = "exited" /\ row = RowOf(row.task)

(* A report is of ended processes, and calls improved what claims it.      *)
ReportOK ==
  report # <<>> =>
    /\ Tasks \subseteq {row.task : row \in Range(suite.rows)}
    /\ \A t \in Tasks : report[t].outcome = "improved" =>
         run[t].summary.claim /\ run[t].manifest.version = report[t].text

SuiteInv == VInv /\ RowsOK /\ ReportOK

(* A process that ended stays as it is.                                    *)
LEMMA ExitedStays ==
  ASSUME IInv, [Next]_vars, NEW t \in Tasks, run[t].at = "exited"
  PROVE  run'[t] = run[t]
<1>1. ASSUME NEW u, NEW r, Becomes(u, r), run[u].at # "exited" PROVE run'[t] = run[t]
  BY <1>1 DEF IInv, Becomes
<1>2. CASE StartTask
  <2>1. run[Current].at = "none" /\ \E r : Becomes(Current, r)
    BY <1>2 DEF StartTask, Launch
  <2> QED BY <1>1, <2>1
<1>3. ASSUME NEW u \in Tasks, Step(u) PROVE run'[t] = run[t]
  <2>1. run[u].at # "exited"
    BY <1>3 DEF Step, TaskStep, RunGate, FinishGates, Build, Session, EndRound, WriteSummary,
                WriteManifest, Abort, Live
  <2>2. \E r : Becomes(u, r)
    BY <1>3, Zenon DEF Step, TaskStep, RunGate, FinishGates, Build, Session, EndRound,
                WriteSummary, WriteManifest, Abort
  <2> QED BY <1>1, <2>1, <2>2
<1>4. CASE CollectRow \/ Complete \/ KillSuite \/ TorchSummary \/ WriteReport
  BY <1>4 DEF CollectRow, Complete, KillSuite, TorchSummary, WriteReport, files
<1>5. ASSUME NEW u \in Tasks, EditSource(u) PROVE run'[t] = run[t]
  BY <1>5 DEF EditSource, Edit
<1>6. CASE UNCHANGED vars
  BY <1>6 DEF vars
<1> QED BY <1>2, <1>3, <1>4, <1>5, <1>6 DEF Next

LEMMA InitRows == ASSUME Init PROVE RowsOK /\ ReportOK
<1>1. suite.rows = <<>> /\ Range(<<>>) = {} /\ report = <<>>
  BY DEF Init, Range
<1> QED BY <1>1 DEF Init, RowsOK, ReportOK

(* What is appended joins the range, and nothing leaves it.                *)
LEMMA RangeOfAppend ==
  ASSUME NEW S, NEW s \in Seq(S), S = Range(s), NEW e
  PROVE  Append(s, e) \in Seq(Range(Append(s, e))) /\ Range(Append(s, e)) = S \cup {e}
<1> DEFINE T == S \cup {e}
<1>1. Len(s) \in Nat /\ s \in [1 .. Len(s) -> S] /\ DOMAIN s = 1 .. Len(s)
  BY LenProperties
<1>2. s \in [1 .. Len(s) -> T]
  BY <1>1
<1>3. s \in Seq(T) /\ e \in T
  BY <1>1, <1>2, FunctionIsSequence
<1> HIDE DEF T
<1>4. /\ Append(s, e) \in Seq(T) /\ Len(Append(s, e)) = Len(s) + 1
      /\ \A i \in 1 .. Len(s) : Append(s, e)[i] = s[i]
      /\ Append(s, e)[Len(s) + 1] = e
  BY <1>3, AppendProperties
<1>5. DOMAIN Append(s, e) = 1 .. Len(s) + 1
  BY <1>4, LenProperties
<1>6. \A i \in 1 .. Len(s) + 1 : i \in 1 .. Len(s) \/ i = Len(s) + 1
  BY <1>1
<1>7. Len(s) + 1 \in 1 .. Len(s) + 1 /\ 1 .. Len(s) \subseteq 1 .. Len(s) + 1
  BY <1>1
<1>8. Range(Append(s, e)) = S \cup {e}
  BY <1>1, <1>4, <1>5, <1>6, <1>7 DEF Range
<1> QED BY <1>4, <1>8 DEF T

(* Rows that stay are still right, whatever step is taken.                 *)
LEMMA KeptRow ==
  ASSUME SuiteInv, [Next]_vars, NEW row \in Range(suite.rows)
  PROVE  row.task \in Tasks /\ run'[row.task].at = "exited" /\ row = RowOf(row.task)'
<1>1. row.task \in Tasks /\ run[row.task].at = "exited" /\ row = RowOf(row.task)
  BY DEF SuiteInv, RowsOK
<1>2. run'[row.task] = run[row.task]
  BY <1>1, ExitedStays DEF SuiteInv, VInv
<1> QED BY <1>1, <1>2 DEF RowOf

LEMMA NextRows == ASSUME SuiteInv, [Next]_vars PROVE RowsOK'
<1>1. ASSUME suite'.rows = suite.rows, DOMAIN suite' = DOMAIN suite PROVE RowsOK'
  <2>1. Range(suite'.rows) = Range(suite.rows)
    BY <1>1
  <2> QED BY <1>1, <2>1, KeptRow DEF SuiteInv, RowsOK
<1>2. CASE CollectRow
  <2>1. suite'.rows = Append(suite.rows, RowOf(Current)) /\ run' = run
        /\ DOMAIN suite' = DOMAIN suite /\ run[Current].at = "exited"
    BY <1>2 DEF CollectRow, files, SuiteInv, RowsOK
  <2>2. Current \in Tasks
    <3>1. Len(suite.rows) \in Nat /\ Len(suite.rows) < Len(Order)
      BY <1>2, LenProperties DEF CollectRow, Running, SuiteInv, RowsOK
    <3>2. Order \in [1 .. Len(Order) -> Tasks] /\ Len(Order) \in Nat
      BY LenProperties, OrderAssumption
    <3>3. Len(suite.rows) + 1 \in 1 .. Len(Order)
      BY <3>1, <3>2
    <3> QED BY <3>2, <3>3 DEF Current
  <2>3. /\ suite'.rows \in Seq(Range(suite'.rows))
        /\ Range(suite'.rows) = Range(suite.rows) \cup {RowOf(Current)}
    BY <2>1, RangeOfAppend DEF SuiteInv, RowsOK
  <2>4. RowOf(Current).task = Current
    BY DEF RowOf
  <2>5. \A t : RowOf(t)' = [task |-> t, status |-> Status(run'[t].exit, run'[t].summary),
             correct |-> run'[t].summary.written, stable |-> run'[t].summary.stable,
             claim |-> run'[t].summary.claim, pairs |-> run'[t].summary.pairs]
    BY DEF RowOf
  <2>6. \A row \in Range(suite'.rows) :
          row.task \in Tasks /\ run'[row.task].at = "exited" /\ row = RowOf(row.task)'
    <3>1. TAKE row \in Range(suite'.rows)
    <3>2. CASE row \in Range(suite.rows)
      BY <3>2, KeptRow
    <3>3. CASE row = RowOf(Current)
      <4>1. RowOf(Current) = RowOf(row.task)'
        BY <2>1, <2>4, <2>5, <3>3 DEF RowOf
      <4> QED BY <2>1, <2>2, <2>4, <3>3, <4>1
    <3> QED BY <2>3, <3>2, <3>3
  <2> QED BY <2>1, <2>3, <2>6 DEF SuiteInv, RowsOK
<1>3. CASE Complete \/ KillSuite
  BY <1>1, <1>3 DEF Complete, KillSuite, SuiteInv, RowsOK
<1>4. CASE StartTask \/ TorchSummary \/ WriteReport
  BY <1>1, <1>4 DEF StartTask, TorchSummary, WriteReport
<1>5. ASSUME NEW t \in Tasks, Step(t) \/ EditSource(t) PROVE RowsOK'
  BY <1>1, <1>5 DEF Step, EditSource
<1>6. CASE UNCHANGED vars
  BY <1>1, <1>6 DEF vars
<1> QED BY <1>2, <1>3, <1>4, <1>5, <1>6 DEF Next

(* Every task of the suite has its one row when all have.                  *)
LEMMA TheRow ==
  ASSUME RowsOK, NEW t \in Tasks, t \in {row.task : row \in Range(suite.rows)}
  PROVE  RowFor(t) = RowOf(t) /\ run[t].at = "exited"
<1>1. \E row \in Range(suite.rows) : row.task = t
  OBVIOUS
<1>2. RowFor(t) \in Range(suite.rows) /\ RowFor(t).task = t
  BY <1>1 DEF RowFor
<1> QED BY <1>2 DEF RowsOK

LEMMA NextReport == ASSUME SuiteInv, [Next]_vars PROVE ReportOK'
<1>1. RowsOK'
  BY NextRows
<1>2. Range(suite.rows) \subseteq Range(suite'.rows)
  <2>1. CASE CollectRow
    <3>1. suite'.rows = Append(suite.rows, RowOf(Current))
      BY <2>1 DEF CollectRow, SuiteInv, RowsOK
    <3> QED BY <3>1, RangeOfAppend DEF SuiteInv, RowsOK
  <2>2. CASE Complete \/ KillSuite
    BY <2>2 DEF Complete, KillSuite, SuiteInv, RowsOK
  <2>3. CASE UNCHANGED suite
    BY <2>3
  <2>4. CASE UNCHANGED vars
    BY <2>3, <2>4 DEF vars
  <2>5. ASSUME NEW t \in Tasks, Step(t) \/ EditSource(t) PROVE UNCHANGED suite
    BY <2>5 DEF Step, EditSource
  <2>6. CASE StartTask \/ TorchSummary \/ WriteReport
    BY <2>3, <2>6 DEF StartTask, TorchSummary, WriteReport
  <2> QED BY <2>1, <2>2, <2>3, <2>4, <2>5, <2>6 DEF Next
<1>3. ASSUME UNCHANGED report PROVE ReportOK'
  <2> SUFFICES ASSUME report # <<>> PROVE ReportOK'
    BY <1>3 DEF ReportOK
  <2>1. Tasks \subseteq {row.task : row \in Range(suite.rows)}
    BY DEF SuiteInv, ReportOK
  <2>2. Tasks \subseteq {row.task : row \in Range(suite'.rows)}
    BY <1>2, <2>1
  <2>3. ASSUME NEW t \in Tasks PROVE run'[t] = run[t]
    BY <2>1, TheRow, ExitedStays DEF SuiteInv, VInv
  <2> QED BY <1>3, <2>2, <2>3 DEF SuiteInv, ReportOK
<1>4. CASE WriteReport
  <2>1. PICK verified \in [Tasks -> BOOLEAN] :
          /\ \A t \in Tasks : verified[t] \in Verdicts(RowFor(t))
          /\ report' = [t \in Tasks |-> [outcome |-> CandidateOutcome(RowFor(t), verified[t]),
                                         text |-> source[t]]]
    BY <1>4 DEF WriteReport
  <2>2. UNCHANGED <<run, suite>> /\ Comparable
    BY <1>4 DEF WriteReport, files
  <2>3. Tasks \subseteq {row.task : row \in Range(suite.rows)}
    BY <2>2 DEF Comparable
  <2>4. ASSUME NEW t \in Tasks, report'[t].outcome = "improved"
        PROVE  run[t].summary.claim /\ run[t].manifest.version = report'[t].text
    <3>1. report'[t] = [outcome |-> CandidateOutcome(RowFor(t), verified[t]), text |-> source[t]]
      BY <2>1
    <3>2. verified[t] \in BOOLEAN /\ CandidateOutcome(RowFor(t), verified[t]) = "improved"
      BY <2>1, <2>4, <3>1
    <3>3. verified[t] = TRUE
      BY <3>2 DEF CandidateOutcome
    <3>4. RowFor(t).claim
      BY <2>1, <3>3 DEF Verdicts
    <3>5. RowFor(t) = RowOf(t)
      BY <2>3, TheRow DEF SuiteInv
    <3>6. run[t].summary.claim
      BY <3>4, <3>5 DEF RowOf
    <3>7. run[t].manifest.version = source[t]
      BY <2>2 DEF Comparable, SameText
    <3> QED BY <3>1, <3>6, <3>7
  <2> QED BY <2>2, <2>3, <2>4 DEF ReportOK
<1>5. CASE UNCHANGED vars
  BY <1>3, <1>5 DEF vars
<1>6. CASE StartTask \/ CollectRow \/ Complete \/ KillSuite \/ TorchSummary
  BY <1>3, <1>6 DEF StartTask, CollectRow, Complete, KillSuite, TorchSummary
<1>7. ASSUME NEW t \in Tasks, Step(t) \/ EditSource(t) PROVE ReportOK'
  BY <1>3, <1>7 DEF Step, EditSource
<1> QED BY <1>4, <1>5, <1>6, <1>7 DEF Next

(* Processes, rows and report agree, in every reachable state.             *)
THEOREM SuiteConsistency == Spec => []SuiteInv
<1>1. Init => SuiteInv
  BY InitVerdicts, InitRows DEF SuiteInv
<1>2. SuiteInv /\ [Next]_vars => SuiteInv'
  BY NextVerdicts, NextRows, NextReport DEF SuiteInv
<1> QED BY <1>1, <1>2, PTL DEF Spec

(* An improvement of the report is one that a single, last, complete round *)
(* of a confirmation measured, none of its sessions slower, every gate     *)
(* passed on the text the repository held when the report was written.     *)
THEOREM VerifiedIsEarnedAlways == Spec => []VerifiedIsEarned
<1>1. SuiteInv => VerifiedIsEarned
  <2> SUFFICES ASSUME SuiteInv, report # <<>>, NEW t \in Tasks, report[t].outcome = "improved"
               PROVE  /\ protocol.phase = "confirmation"
                      /\ run[t].pairs = RowFor(t).pairs
                      /\ Len(run[t].pairs) >= Minimum["confirmation"]
                      /\ Stable(run[t].pairs) /\ AllNotSlower(run[t].pairs)
                      /\ run[t].built = report[t].text /\ run[t].passed = Range(Gates)
    BY DEF VerifiedIsEarned
  <2>1. run[t].summary.claim /\ run[t].manifest.version = report[t].text
    BY DEF SuiteInv, ReportOK
  <2>2. RowFor(t) = RowOf(t)
    BY TheRow DEF SuiteInv, ReportOK
  <2>3. VerdictOK(run[t], protocol)
    BY DEF SuiteInv, VInv
  <2> QED BY <2>1, <2>2, <2>3 DEF VerdictOK, AllPassed, RowOf
<1> QED BY <1>1, SuiteConsistency, PTL

(* A row says completed or no_improvement only of a folder whose final     *)
(* manifest says the same, wherever processes are killed.                  *)
THEOREM RowsAgreeWithFoldersAlways == Spec => []RowsAgreeWithFolders
<1>1. SuiteInv => RowsAgreeWithFolders
  <2> SUFFICES ASSUME SuiteInv, NEW i \in DOMAIN suite.rows,
                      suite.rows[i].status \in {"completed", "no_improvement"}
               PROVE  LET row == suite.rows[i]
                          r == run[row.task]
                      IN /\ r.manifest.stage = "final"
                         /\ r.manifest.outcome \in IF row.status = "completed"
                                     THEN {"completed", "improved"} ELSE {"no_improvement"}
                         /\ protocol.ncu => r.profiled
    BY DEF RowsAgreeWithFolders
  <2> DEFINE row == suite.rows[i]
             r == run[row.task]
  <2>1. row \in Range(suite.rows)
    BY DEF Range
  <2>2. row.task \in Tasks /\ r.at = "exited" /\ row.status = Status(r.exit, r.summary)
    BY <2>1 DEF SuiteInv, RowsOK, RowOf
  <2>3. VerdictOK(r, protocol)
    BY <2>2 DEF SuiteInv, VInv
  <2>4. /\ row.status = "completed" => r.exit = 0
        /\ row.status = "no_improvement" => r.exit = 3 /\ r.summary.timed /\ r.summary.valid
    BY <2>2 DEF Status
  <2> HIDE DEF row
  <2>5. row.status \in {"completed", "no_improvement"}
    BY DEF row
  <2>6. CASE row.status = "completed"
    BY <2>2, <2>3, <2>4, <2>6 DEF VerdictOK, row
  <2>7. CASE row.status = "no_improvement"
    BY <2>2, <2>3, <2>4, <2>7 DEF VerdictOK, row
  <2> QED BY <2>5, <2>6, <2>7 DEF row
<1> QED BY <1>1, SuiteConsistency, PTL
=============================================================================
