--------------------------- MODULE OptimizationMemory ---------------------------
(***************************************************************************)
(* The optimization memory (agents/database.py) that the problems of one   *)
(* process share, the rollouts of RLNCUAgent that read and write it, and   *)
(* the JSON snapshot that outlives the process.                            *)
(*                                                                         *)
(* The memory maps a performance state to its techniques and each of them  *)
(* to the results recorded for it (usage_count); predictions, confidences  *)
(* and descriptions only steer choices, which are free here.  A state is   *)
(* one the repository ships, one the LLM made up, or a discovered one,     *)
(* <<bottleneck, number>>.  Composite optimizations are techniques.  All   *)
(* runs on one event loop: an action is the code between two awaits.       *)
(***************************************************************************)
EXTENDS Naturals, FiniteSets

CONSTANTS States,         \* names of states the LLM may answer
          Techniques,
          Bottlenecks,
          Shipped,        \* data/kernelblaster/optimization_database.json
          ByBottleneck,   \* default techniques of the memory, by bottleneck
          DefaultsFor,    \* default techniques of the agent, by name
          Requests,       \* what an update may ask for: sets of <<state, technique>>
          Unclassified,   \* "events_only/unknown"
          Problems, Rollouts,
          RolloutSteps, UpdateFrequency,
          Enough,         \* trajectories a policy update asks for
          MaxDiscovered,  \* bound: discovered states in the memory
          MaxLaunches,    \* bound: processes started
          Absent, Torn,   \* a snapshot that is not there, or not whole
          None

ASSUME BoundsAssumption ==
    /\ {RolloutSteps, UpdateFrequency, Enough, MaxDiscovered, MaxLaunches} \subseteq Nat
    /\ UpdateFrequency > 0
ASSUME ByBottleneckAssumption == ByBottleneck \in [Bottlenecks -> SUBSET Techniques]
ASSUME DefaultsForAssumption == DefaultsFor \in [States \cup Bottlenecks -> SUBSET Techniques]
ASSUME RequestsAssumption == Requests \subseteq SUBSET (States \X Techniques)

(* The shipped file names states, and nothing in it was used yet. *)
ASSUME ShippedAssumption ==
    /\ IsFiniteSet(States) /\ DOMAIN Shipped \subseteq States /\ DOMAIN Shipped # {}
    /\ Shipped \in [DOMAIN Shipped -> UNION {[T -> {0}] : T \in SUBSET Techniques}]

(* A pair is the name of a discovered state and of nothing else. *)
ASSUME NamesAssumption ==
    \A s \in States \cup {Unclassified, None} : s \notin Bottlenecks \X Nat

VARIABLES disk,         \* the snapshot: Absent, Torn or a memory
          markdown,     \* is there a Markdown database?
          process,      \* "down", "copying" or "up"
          launches,
          memory,       \* optimization_strategies: state -> technique -> usage_count
          place,        \* where a problem's agent is
          rollout,
          policy,       \* trajectories collected, the update cycle under way
          steps,        \* history: trajectory steps completed, by state and technique
          saved,        \* history: was the last write of the snapshot a success?
          mishaps       \* history: "copy" (it did not end), "results" and "techniques"
                        \* (not saved at a crash)

files == <<disk, markdown>>
tasks == <<place, rollout, policy>>
history == <<steps, saved, mishaps>>
vars == <<files, process, launches, memory, tasks, history>>

-------------------------------------------------------------------------------
Names == States \cup {Unclassified}
             \cup (Bottlenecks \X (0 .. Cardinality(States) + MaxDiscovered))
NoMemory == [s \in {} |-> 0]
Entries == UNION {[T -> Nat] : T \in SUBSET Techniques}

ASSUME SnapshotAssumption ==
    Absent # Torn /\ \A D \in SUBSET Names : {Absent, Torn} \cap [D -> Entries] = {}

Tasks == Problems \X Rollouts

NoRollout == [at |-> "waiting", state |-> None, technique |-> None, next |-> None, step |-> 0]
NoPolicy == [total |-> 0, at |-> "idle"]

TechniquesOf(m) == UNION {DOMAIN m[s] : s \in DOMAIN m}
Pool == TechniquesOf(memory)
Unused(T) == [t \in T |-> 0]
Discovered == DOMAIN memory \ States

With(m, s, techniques) == [x \in DOMAIN m \cup {s} |-> IF x = s THEN techniques ELSE m[x]]

(* add_new_optimization, for some <<state, technique>>: a technique that is *)
(* there keeps its results.                                                 *)
Added(m, adds) ==
    LET of(s) == {a[2] : a \in {x \in adds : x[1] = s}}
        old(s) == IF s \in DOMAIN m THEN m[s] ELSE Unused({})
    IN [s \in DOMAIN m \cup {a[1] : a \in adds} |->
          [t \in DOMAIN old(s) \cup of(s) |-> IF t \in DOMAIN old(s) THEN old(s)[t] ELSE 0]]

-------------------------------------------------------------------------------
(* The snapshot.                                                           *)

(* Mutant: the snapshot is written over, not replaced. *)
WrittenInPlace(m) == {m, Torn}

(* _persist_database replaces the file by a whole new one; when that fails *)
(* the old one stays and a warning is logged.                              *)
Written(m) == {m, disk}

Persist(m) == disk' \in Written(m) /\ saved' = (disk' = m)

(* A Markdown database gives states without techniques: the lines the code *)
(* writes ("1.25x predicted speedup") are not those its parser looks for   *)
(* ("25% performance improvement").                                        *)
FromMarkdown == [s \in DOMAIN Shipped |-> Unused({})]

(* load_databases: the snapshot first; one that does not parse leaves the  *)
(* memory empty.                                                           *)
Loaded == CASE disk = Torn -> NoMemory
            [] disk = Absent -> FromMarkdown
            [] OTHER -> disk

(* The constructor persists what it has loaded. *)
Launch ==
    /\ process = "down" /\ launches < MaxLaunches
    /\ launches' = launches + 1
    /\ IF disk = Absent /\ ~markdown
       THEN process' = "copying" /\ disk' = Torn /\ UNCHANGED <<memory, saved>>
       ELSE process' = "up" /\ memory' = Loaded /\ Persist(Loaded)
    /\ UNCHANGED <<markdown, tasks, steps, mishaps>>

(* shutil.copy2 has filled the snapshot, or raised and left a part of it. *)
Copied ==
    /\ process = "copying" /\ process' = "up"
    /\ \/ memory' = Shipped /\ disk' = Shipped /\ saved' = TRUE /\ UNCHANGED mishaps
       \/ memory' = NoMemory /\ Persist(NoMemory) /\ mishaps' = mishaps \cup {"copy"}
    /\ UNCHANGED <<markdown, launches, tasks, steps>>

(* The techniques of a discovered state are not persisted before something *)
(* else is: a crash may take the only copy.                                *)
TechniquesSaved == disk \notin {Absent, Torn} /\ Pool \subseteq TechniquesOf(disk)

Crash ==
    /\ process # "down" /\ process' = "down"
    /\ mishaps' = mishaps \cup (IF process = "copying" THEN {"copy"} ELSE {})
                          \cup (IF saved THEN {} ELSE {"results"})
                          \cup (IF process = "up" /\ ~TechniquesSaved THEN {"techniques"} ELSE {})
    /\ saved' = TRUE
    /\ memory' = NoMemory
    /\ place' = [p \in Problems |-> IF place[p] = "finished" THEN "finished" ELSE "queued"]
    /\ rollout' = [r \in Tasks |-> NoRollout]
    /\ policy' = [p \in Problems |-> NoPolicy]
    /\ UNCHANGED <<files, launches, steps>>

-------------------------------------------------------------------------------
(* get_state_from_ncu_report: the LLM analyses a profile and is asked for  *)
(* the state that matches it.                                              *)

(* Mutant: discovered states are numbered after the deprecated known_states. *)
NewNameOfKnown(b) == <<b, 3>>

NewName(b) == <<b, Cardinality(DOMAIN memory)>>

(* _map_to_existing_state_with_strategies chooses one of these. *)
Rich == {s \in DOMAIN memory : DOMAIN memory[s] # {}}

(* _create_default_strategies_for_bottleneck. *)
Defaults(b) == Unused(ByBottleneck[b])

(* A state is added that inherits the techniques of one that has some, with *)
(* their usage_count, or the default ones, if any.  It is not persisted.    *)
Discover(b) ==
    /\ Cardinality(Discovered) < MaxDiscovered
    /\ \/ \E s \in Rich : memory' = With(memory, NewName(b), memory[s])
       \/ /\ Rich = {}
          /\ memory' = IF DOMAIN Defaults(b) = {} THEN memory
                       ELSE With(memory, NewName(b), Defaults(b))

(* Whatever name the LLM answers is the state's, known or not; when nothing *)
(* matches, a state is discovered.                                          *)
Classified(s) ==
    \/ s \in States \cup DOMAIN memory /\ UNCHANGED memory
    \/ \E b \in Bottlenecks : s = NewName(b) /\ Discover(b)

Answers == States \cup DOMAIN memory \cup {NewName(b) : b \in Bottlenecks}

-------------------------------------------------------------------------------
(* A problem asks for the state of its baseline twice, in initialize and in *)
(* run, then starts its rollouts from it.                                   *)

Begin(p, s) ==
    /\ place' = [place EXCEPT ![p] = "rolling"]
    /\ rollout' = [r \in Tasks |-> IF r[1] = p
                                   THEN [NoRollout EXCEPT !.at = "planning", !.state = s]
                                   ELSE rollout[r]]

(* Without hardware counters there is no state to ask for. *)
StartProblem(p) ==
    /\ process = "up" /\ place[p] = "queued"
    /\ \/ place' = [place EXCEPT ![p] = "initializing"] /\ UNCHANGED rollout
       \/ Begin(p, Unclassified)
    /\ UNCHANGED <<files, process, launches, memory, policy, history>>

Initialized(p) ==
    /\ place[p] = "initializing" /\ place' = [place EXCEPT ![p] = "starting"]
    /\ \E s \in Answers : Classified(s)
    /\ UNCHANGED <<files, process, launches, rollout, policy, history>>

StartRollouts(p) ==
    /\ place[p] = "starting"
    /\ \E s \in Answers : Classified(s) /\ Begin(p, s)
    /\ UNCHANGED <<files, process, launches, policy, history>>

-------------------------------------------------------------------------------
(* A step of a rollout.                                                    *)

(* _try_add_default_optimizations: the defaults of the first bottleneck the *)
(* name of the state contains, be it discovered (discovered_memory_bound_7) *)
(* or not (latency_memory_bound).  The list is the agent's, not Defaults.   *)
ByName(s) == CASE s \in Bottlenecks \X Nat -> DefaultsFor[s[1]]
               [] s \in States -> DefaultsFor[s]
               [] OTHER -> {}

Applying(r, t) == rollout' = [rollout EXCEPT ![r].at = "applying", ![r].technique = t]
Ending(r) == rollout' = [rollout EXCEPT ![r].at = "ended"]

(* The plan names techniques of any state, and the selectors behind it draw *)
(* from all of them; a memory without any gets those that come with the     *)
(* name of the state, if any do, with nothing used yet.                     *)
Plan(r) ==
    /\ rollout[r].at = "planning"
    /\ LET s == rollout[r].state IN
       \/ /\ \E t \in Pool : Applying(r, t)
          /\ UNCHANGED <<memory, disk, saved>>
       \/ /\ Pool = {}
          /\ memory' = Added(memory, {s} \X ByName(s))
          /\ \E t \in ByName(s) : Applying(r, t)
          /\ Persist(memory')
       \/ /\ Pool = {} /\ ByName(s) = {}
          /\ Ending(r)
          /\ UNCHANGED <<memory, disk, saved>>
    /\ UNCHANGED <<markdown, process, launches, place, policy, steps, mishaps>>

(* Mutant: the technique is looked up wherever it is. *)
RecordEverywhere(s, t) ==
    /\ memory' = [x \in DOMAIN memory |->
                    [u \in DOMAIN memory[x] |-> memory[x][u] + IF u = t THEN 1 ELSE 0]]
    /\ Persist(memory')

(* update_optimization_result: the technique is looked up in the state the  *)
(* step started from, and the result is dropped when it is another's.       *)
Record(s, t) ==
    IF s \in DOMAIN memory /\ t \in DOMAIN memory[s]
    THEN memory' = [memory EXCEPT ![s][t] = @ + 1] /\ Persist(memory')
    ELSE UNCHANGED <<memory, disk, saved>>

(* The step is measured and classified: its result is recorded, and the     *)
(* next step starts from the new state, unless it was a severe regression.  *)
Complete(r, next) ==
    LET s == rollout[r].state
        t == rollout[r].technique
        step == rollout[r].step + 1
    IN /\ Record(s, t)
       /\ steps' = [steps EXCEPT ![<<s, t>>] = @ + 1]
       /\ \E at \in {"planning", "ended"} :
            /\ step = RolloutSteps => at = "ended"
            /\ rollout' = [rollout EXCEPT ![r] = [NoRollout EXCEPT
                               !.at = at, !.state = next, !.step = step]]

(* apply_optimization: the candidate is written, compiled and profiled, or  *)
(* repaired a few times; what it raises in the end ends the rollout.        *)
Profiled(r) == rollout' = [rollout EXCEPT ![r].at = "matching"]
Rejected(r) == Ending(r)

(* Without counters, or with an analysis that fails, nothing is classified. *)
Unclassifiable(r) == Complete(r, Unclassified)

Apply(r) ==
    /\ rollout[r].at = "applying"
    /\ \/ (Profiled(r) \/ Rejected(r)) /\ UNCHANGED <<memory, disk, saved, steps>>
       \/ Unclassifiable(r)
    /\ UNCHANGED <<markdown, process, launches, place, policy, mishaps>>

Match(r) ==
    /\ rollout[r].at = "matching"
    /\ \/ \E s \in Answers :
            /\ Classified(s)
            /\ rollout' = [rollout EXCEPT ![r].at = "recommending", ![r].next = s]
            /\ UNCHANGED <<disk, saved, steps>>
       \/ Unclassifiable(r)
    /\ UNCHANGED <<markdown, process, launches, place, policy, mishaps>>

(* _select_best_optimization_llm answers; the recommendation it caches is   *)
(* one of the techniques Plan may take.                                     *)
Recommended(r) ==
    /\ rollout[r].at = "recommending"
    /\ Complete(r, rollout[r].next)
    /\ UNCHANGED <<markdown, process, launches, place, policy, mishaps>>

-------------------------------------------------------------------------------
(* Ended rollouts are collected one by one; every UpdateFrequency of them   *)
(* runs a policy update, which the collection waits for.                    *)

Collect(r) ==
    LET p == r[1]
        total == policy[p].total + 1
        due == total % UpdateFrequency = 0
    IN /\ rollout[r].at = "ended" /\ policy[p].at = "idle"
       /\ rollout' = [rollout EXCEPT ![r].at = "collected"]
       /\ policy' = [policy EXCEPT ![p] =
                       [total |-> total,
                        at |-> IF due /\ total >= Enough THEN "evaluating" ELSE "idle"]]
       /\ UNCHANGED <<files, process, launches, memory, place, history>>

(* Mutant: an exception ends the cycle's task and nobody is told. *)
AnalyzeSilently(p) ==
    /\ policy[p].at = "evaluating" /\ memory = NoMemory
    /\ policy' = [policy EXCEPT ![p].at = "updating"]
    /\ UNCHANGED <<files, process, launches, memory, place, rollout, history>>

(* update_parameters walks the keys of a state's entry as if they were its  *)
(* techniques: with any state in the memory it raises.                      *)
UpdateRaises == memory # NoMemory

(* The buffer is evaluated and the gaps analysed; what raises is logged.    *)
Analyze(p) ==
    /\ policy[p].at = "evaluating"
    /\ policy' = [policy EXCEPT ![p].at = IF UpdateRaises THEN "idle" ELSE "updating"]
    /\ UNCHANGED <<files, process, launches, memory, place, rollout, history>>

(* _apply_database_updates adds what the LLM asks for, if it answers. *)
Update(p) ==
    /\ policy[p].at = "updating" /\ policy' = [policy EXCEPT ![p].at = "idle"]
    /\ \/ UNCHANGED <<memory, disk, saved>>
       \/ \E adds \in Requests :
            memory' = Added(memory, adds) /\ Persist(memory')
    /\ UNCHANGED <<markdown, process, launches, place, rollout, steps, mishaps>>

FinishProblem(p) ==
    /\ place[p] = "rolling" /\ policy[p].at = "idle"
    /\ \A i \in Rollouts : rollout[<<p, i>>].at = "collected"
    /\ place' = [place EXCEPT ![p] = "finished"]
    /\ Persist(memory)
    /\ UNCHANGED <<markdown, process, launches, memory, rollout, policy, steps, mishaps>>

-------------------------------------------------------------------------------
Init == /\ disk = Absent /\ markdown \in BOOLEAN
        /\ process = "down" /\ launches = 0
        /\ memory = NoMemory
        /\ place = [p \in Problems |-> "queued"]
        /\ rollout = [r \in Tasks |-> NoRollout]
        /\ policy = [p \in Problems |-> NoPolicy]
        /\ steps = [x \in Names \X Techniques |-> 0]
        /\ saved = TRUE /\ mishaps = {}

Proceed(p) == \/ StartProblem(p) \/ Initialized(p) \/ StartRollouts(p)
              \/ Analyze(p) \/ Update(p) \/ FinishProblem(p)
Step(r) == Plan(r) \/ Apply(r) \/ Match(r) \/ Recommended(r) \/ Collect(r)

Next == \/ Launch \/ Copied \/ Crash
        \/ \E p \in Problems : Proceed(p)
        \/ \E r \in Tasks : Step(r)

Spec == Init /\ [][Next]_vars

(* What is awaited answers: LLM requests and GPU jobs have deadlines. *)
FairSpec == Spec /\ WF_vars(Copied)
                 /\ \A p \in Problems : WF_vars(Proceed(p))
                 /\ \A r \in Tasks : WF_vars(Step(r))

-------------------------------------------------------------------------------
(* Usage counts are history: of a technique of a shipped state the memory   *)
(* counts exactly the steps that started in that state and applied it, over *)
(* every launch, though a technique may come to it with its name long after *)
(* the first steps.  Excused: the snapshot could not be written before a    *)
(* crash, the crash took the only techniques there were, those of a state   *)
(* discovered and not persisted, or the first copy was cut short.           *)
UsageIsHistory ==
    process = "up" /\ mishaps = {} =>
        \A s \in DOMAIN Shipped : \A t \in DOMAIN memory[s] : memory[s][t] = steps[<<s, t>>]

(* Memory only grows while a process runs: a discovered state never takes   *)
(* the place of another, and no technique or result is ever dropped, though *)
(* names are numbered by size and concurrent rollouts add states.           *)
MemoryOnlyGrows ==
    [][process = "up" /\ process' = "up" =>
        \A s \in DOMAIN memory :
            /\ s \in DOMAIN memory'
            /\ \A t \in DOMAIN memory[s] :
                 t \in DOMAIN memory'[s] /\ memory'[s][t] >= memory[s][t]]_vars

(* The optimizations learned are only ever lost to a copy of the shipped    *)
(* file that was cut short: a crash at any other moment, or a write that    *)
(* fails, leaves a snapshot that loads.                                     *)
EmptyOnlyAfterTornCopy ==
    process = "up" /\ memory = NoMemory => "copy" \in mishaps

(* A problem that started ends, unless the process does: no rollout waits   *)
(* for the memory or for a policy update forever.                           *)
ProblemsFinish ==
    \A p \in Problems : place[p] = "initializing" ~> place[p] \in {"finished", "queued"}

===============================================================================
