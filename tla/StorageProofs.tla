----------------------------- MODULE StorageProofs -----------------------------
(***************************************************************************)
(* The safety invariants of what outlives a process.                       *)
(*                                                                         *)
(* ArtifactStore, for any uploads, runs and events: the index loses only   *)
(* what was taken as stored before it was durable, and an archived run     *)
(* agrees with itself.                                                     *)
(*                                                                         *)
(* OptimizationMemory, for any states, techniques, problems and rollouts:  *)
(* usage counts are history, nothing is forgotten, and only a torn copy    *)
(* empties the memory.                                                     *)
(***************************************************************************)
EXTENDS ArtifactStore, OptimizationMemory, FiniteSetTheorems, TLAPS

-------------------------------------------------------------------------------
(* ArtifactStore: the store and its index.                                 *)

(* What a writer has in hand.                                              *)
PutOf(w) == puts[w].payload

(* A writer that goes on to the index has made its payload durable, or     *)
(* found it there; so has everything the index names.                      *)
StoreInv ==
    /\ durable \subseteq visible
    /\ puts \in [Writers -> [at : PutStates, payload : Payloads \cup {Nothing}]]
    /\ \A w \in Writers : puts[w].at = "placed" => PutOf(w) \in visible
    /\ \A w \in Writers : puts[w].at = "stored" => PutOf(w) \in durable \cup assumed
    /\ indexed \subseteq durable \cup assumed

(* A writer's step changes its own row only. *)
LEMMA PutChanges ==
    ASSUME StoreInv, NEW w \in Writers, NEW at \in PutStates, NEW p \in Payloads \cup {Nothing},
           puts' = [puts EXCEPT ![w] = [at |-> at, payload |-> p]]
    PROVE  /\ puts' \in [Writers -> [at : PutStates, payload : Payloads \cup {Nothing}]]
           /\ puts'[w].at = at /\ puts'[w].payload = p
           /\ \A x \in Writers \ {w} : puts'[x] = puts[x]
<1>1. [at |-> at, payload |-> p] \in [at : PutStates, payload : Payloads \cup {Nothing}]
  OBVIOUS
<1> QED BY <1>1 DEF StoreInv

LEMMA PutRow ==
    ASSUME StoreInv, NEW w \in Writers, NEW at \in PutStates
    PROVE  /\ puts[w] = [at |-> puts[w].at, payload |-> puts[w].payload]
           /\ [puts EXCEPT ![w].at = at] = [puts EXCEPT ![w] = [at |-> at, payload |-> puts[w].payload]]
           /\ puts[w].payload \in Payloads \cup {Nothing} /\ puts[w].at \in PutStates
<1> DEFINE Row == [at : PutStates, payload : Payloads \cup {Nothing}]
<1>1. puts \in [Writers -> Row] /\ puts[w] \in Row
  BY DEF StoreInv
<1>2. /\ puts[w] = [at |-> puts[w].at, payload |-> puts[w].payload]
      /\ puts[w].payload \in Payloads \cup {Nothing} /\ puts[w].at \in PutStates
  BY <1>1
<1>3. [puts[w] EXCEPT !.at = at] = [at |-> at, payload |-> puts[w].payload]
  BY <1>1
<1>4. [puts EXCEPT ![w].at = at] = [puts EXCEPT ![w] = [puts[w] EXCEPT !.at = at]]
  BY <1>1
<1> QED BY <1>2, <1>3, <1>4

LEMMA NoPutRow == NoPut = [at |-> "idle", payload |-> Nothing] /\ "idle" \in PutStates
BY DEF NoPut, PutStates

LEMMA TemporaryKeeps ==
    ASSUME StoreInv, NEW w \in Writers, NEW p \in Payloads, WriteTemporary(w, p), UNCHANGED indexed
    PROVE  StoreInv'
<1>1. /\ puts' = [puts EXCEPT ![w] = [at |-> "temporary", payload |-> p]]
      /\ UNCHANGED <<visible, durable, assumed>>
  BY DEF WriteTemporary
<1>2. "temporary" \in PutStates
  BY DEF PutStates
<1>3. /\ puts' \in [Writers -> [at : PutStates, payload : Payloads \cup {Nothing}]]
      /\ puts'[w].at = "temporary"
      /\ \A x \in Writers \ {w} : puts'[x] = puts[x]
  BY <1>1, <1>2, PutChanges
<1> QED BY <1>1, <1>3 DEF StoreInv, PutOf

LEMMA PutStepKeeps ==
    ASSUME StoreInv, NEW w \in Writers, PutStep(w)
    PROVE  StoreInv'
<1> DEFINE p == puts[w].payload
<1>1. p \in Payloads \cup {Nothing} /\ {"placed", "stored"} \subseteq PutStates
  BY PutRow DEF PutStates
<1>2. UNCHANGED indexed
  BY DEF PutStep
<1>3. CASE Place(w)
  <2>1. CASE p \in visible
    <3>1. /\ visible' = visible \cup {p} /\ durable' = durable
          /\ puts' = [puts EXCEPT ![w].at = "stored"] /\ assumed' = assumed \cup ({p} \ durable)
      BY <1>3, <2>1 DEF Place
    <3>2. puts' = [puts EXCEPT ![w] = [at |-> "stored", payload |-> p]]
      BY <1>1, <3>1, PutRow
    <3>3. /\ puts' \in [Writers -> [at : PutStates, payload : Payloads \cup {Nothing}]]
          /\ puts'[w].at = "stored" /\ puts'[w].payload = p
          /\ \A x \in Writers \ {w} : puts'[x] = puts[x]
      BY <1>1, <3>2, PutChanges
    <3> HIDE DEF p
    <3> QED BY <1>2, <3>1, <3>3 DEF StoreInv, PutOf
  <2>2. CASE p \notin visible
    <3>1. /\ visible' = visible \cup {p} /\ durable' = durable /\ assumed' = assumed
          /\ puts' = [puts EXCEPT ![w].at = "placed"]
      BY <1>3, <2>2 DEF Place
    <3>2. puts' = [puts EXCEPT ![w] = [at |-> "placed", payload |-> p]]
      BY <1>1, <3>1, PutRow
    <3>3. /\ puts' \in [Writers -> [at : PutStates, payload : Payloads \cup {Nothing}]]
          /\ puts'[w].at = "placed" /\ puts'[w].payload = p
          /\ \A x \in Writers \ {w} : puts'[x] = puts[x]
      BY <1>1, <3>2, PutChanges
    <3> HIDE DEF p
    <3> QED BY <1>2, <3>1, <3>3 DEF StoreInv, PutOf
  <2> QED BY <2>1, <2>2
<1>4. CASE SyncDirectory(w)
  <2>1. /\ puts[w].at = "placed" /\ durable' = durable \cup {p}
        /\ puts' = [puts EXCEPT ![w].at = "stored"] /\ UNCHANGED <<visible, assumed>>
    BY <1>4 DEF SyncDirectory
  <2>2. puts' = [puts EXCEPT ![w] = [at |-> "stored", payload |-> p]]
    BY <1>1, <2>1, PutRow
  <2>3. /\ puts' \in [Writers -> [at : PutStates, payload : Payloads \cup {Nothing}]]
        /\ puts'[w].at = "stored" /\ puts'[w].payload = p
        /\ \A x \in Writers \ {w} : puts'[x] = puts[x]
    BY <1>1, <2>2, PutChanges
  <2>4. p \in visible
    BY <2>1 DEF StoreInv, PutOf
  <2> HIDE DEF p
  <2> QED BY <1>2, <2>1, <2>3, <2>4 DEF StoreInv, PutOf
<1> QED BY <1>3, <1>4 DEF PutStep

LEMMA RegisterKeeps ==
    ASSUME StoreInv, NEW w \in Writers, Register(w)
    PROVE  StoreInv'
<1>1. /\ puts[w].at = "stored" /\ indexed' = indexed \cup {PutOf(w)}
      /\ puts' = [puts EXCEPT ![w] = NoPut] /\ UNCHANGED <<visible, durable, assumed>>
  BY DEF Register, PutOf
<1>2. /\ puts' \in [Writers -> [at : PutStates, payload : Payloads \cup {Nothing}]]
      /\ puts'[w].at = "idle"
      /\ \A x \in Writers \ {w} : puts'[x] = puts[x]
  BY <1>1, NoPutRow, PutChanges
<1>3. PutOf(w) \in durable \cup assumed
  BY <1>1 DEF StoreInv
<1>4. /\ \A x \in Writers : puts'[x].at = "placed" => PutOf(x)' \in visible
      /\ \A x \in Writers : puts'[x].at = "stored" => PutOf(x)' \in durable \cup assumed
  BY <1>2 DEF StoreInv, PutOf
<1> HIDE DEF PutOf
<1> QED BY <1>1, <1>2, <1>3, <1>4 DEF StoreInv

LEMMA PutEnds ==
    ASSUME StoreInv, NEW w \in Writers, puts' = [puts EXCEPT ![w] = NoPut],
           UNCHANGED <<visible, durable, assumed, indexed>>
    PROVE  StoreInv'
<1>1. /\ puts' \in [Writers -> [at : PutStates, payload : Payloads \cup {Nothing}]]
      /\ puts'[w].at = "idle"
      /\ \A x \in Writers \ {w} : puts'[x] = puts[x]
  BY NoPutRow, PutChanges
<1> QED BY <1>1 DEF StoreInv, PutOf

LEMMA PowerLossKeeps ==
    ASSUME StoreInv, PowerLoss
    PROVE  StoreInv'
<1>1. PICK kept : visible' = durable \cup kept /\ durable' = durable \cup kept
  BY DEF PowerLoss
<1>2. puts' = [w \in Writers |-> NoPut] /\ UNCHANGED <<assumed, indexed>>
  BY DEF PowerLoss
<1>3. /\ puts' \in [Writers -> [at : PutStates, payload : Payloads \cup {Nothing}]]
      /\ \A w \in Writers : puts'[w].at = "idle"
  BY <1>2, NoPutRow
<1> QED BY <1>1, <1>2, <1>3 DEF StoreInv

-------------------------------------------------------------------------------
(* ArtifactStore: what the recorder archives.                              *)

(* What is put, found and indexed are payloads.                            *)
StoreTypes ==
    /\ visible \subseteq Payloads /\ assumed \subseteq Payloads /\ indexed \subseteq Payloads
    /\ \A w \in Writers : puts[w].at # "idle" => puts[w].payload \in Payloads

(* The files the recorder has linked when it has linked n.                 *)
Archived(n) == {Payload(RoleOrder[k]) : k \in 1 .. n}
Links == rows[recorder.run].links
Status == rows[recorder.run].status
Finished == rows[recorder.run].finished_at # "null"
Own == folder.log \cap EventsOf(recorder.run)

RowType == [status : {"absent", "running"} \cup FinalStatuses, finished_at : {"null", "now"},
            links : SUBSET File]

(* The recorder, its files and its row. *)
ArchiveTypes ==
    /\ recorder \in RecorderRow
    /\ folder \in Folder
    /\ rows \in [Runs -> RowType]

(* The files say what the recorder says: they are as they will be archived. *)
Sealed ==
    /\ folder.summary = recorder.counted
    /\ folder.summaryStatus = recorder.status
    /\ folder.manifestStatus = recorder.status

(* What ArchiveAgrees says of a run, but for the log of the current one.   *)
EndedWell(r) ==
    Ended(r) =>
       /\ Linked(r) = Roles
       /\ \A p \in rows[r].links : p.role # "events" => p.status = rows[r].status
       /\ \A e, s \in rows[r].links :
            e.role = "events" /\ s.role = "summary" => s.lines \subseteq e.lines \cap EventsOf(r)

(* Runs to come have no row, and former ones are as they were left.        *)
RunsInv ==
    /\ \A r \in Runs : r > recorder.run => rows[r] = NoRow
    /\ \A r \in Runs : r < recorder.run => EndedWell(r)

(* The row of the current run is told by how far its recorder is.          *)
Running == recorder.at \notin {"ended", "killed"}
RowInv ==
    /\ Running => recorder.run \in Runs /\ Status \in StartStatuses /\ ~Finished
    /\ recorder.at \in {"recording", "appended", "summary", "manifest"} => Links = {}
    /\ recorder.at = "archive" => \E n \in 0 .. 2 : Links = Archived(n)
    /\ recorder.at = "finish" => Links = Archived(3)
    /\ recorder.at = "killed" => recorder.run \in Runs /\ Status \in StartStatuses /\ ~Finished
    /\ recorder.at = "ended" /\ recorder.run \in Runs /\ ~Finished => Status \in StartStatuses
    /\ recorder.at = "ended" /\ recorder.run \in Runs /\ Finished =>
         /\ Status = recorder.status
         /\ Links = Archived(3)
         /\ Sealed

(* And so are its files.                                                   *)
FilesInv ==
    /\ recorder.at = "manifest" => /\ folder.summary = recorder.counted
                                   /\ folder.summaryStatus = recorder.status
    /\ recorder.at \in {"archive", "finish"} => Sealed
    /\ Closing => recorder.status \in FinalStatuses

(* Every event of the run in the log is counted, about to be, or was       *)
(* interrupted, and a log that is kept has none of the runs to come.       *)
CountsInv ==
    /\ recorder.counted \subseteq Own
    /\ recorder.at \notin {"appended", "killed"} => Own \ recorder.counted \subseteq recorder.missed
    /\ recorder.at = "appended" =>
         /\ Event(recorder.seq) \in Own
         /\ Own \ recorder.counted \subseteq recorder.missed \cup {Event(recorder.seq)}
    /\ \A r \in Runs : r > recorder.run => folder.log \cap EventsOf(r) = {}

(* What the recorder is putting is the next file, as it is.                *)
ArchivingInv ==
    puts["recorder"].at # "idle" =>
       /\ recorder.at = "archive"
       /\ puts["recorder"].payload = Payload(NextRole)

ArchiveInv == StoreTypes /\ ArchiveTypes /\ RunsInv /\ RowInv /\ FilesInv /\ CountsInv /\ ArchivingInv

-------------------------------------------------------------------------------
LEMMA RolesInOrder ==
    /\ Roles = {RoleOrder[1], RoleOrder[2], RoleOrder[3]}
    /\ RoleOrder[1] = "manifest" /\ RoleOrder[2] = "events" /\ RoleOrder[3] = "summary"
BY DEF Roles, RoleOrder

(* Every file of the run under way is a payload of its role. *)
LEMMA PayloadIsFile ==
    ASSUME ArchiveTypes, recorder.run \in Runs, NEW role \in Roles
    PROVE  Payload(role) \in File /\ Payload(role).role = role
<1> DEFINE lines == CASE role = "events" -> folder.log
                      [] role = "summary" -> folder.summary
                      [] role = "manifest" -> {}
           status == CASE role = "events" -> "none"
                       [] role = "summary" -> folder.summaryStatus
                       [] role = "manifest" -> folder.manifestStatus
           run == IF role = "events" THEN 0 ELSE recorder.run
<1>1. Payload(role) = [role |-> role, run |-> run, lines |-> lines, status |-> status]
  BY DEF Payload
<1>2. /\ folder.log \in SUBSET Events /\ folder.summary \in SUBSET Events
      /\ folder.summaryStatus \in {"running"} \cup FinalStatuses
      /\ folder.manifestStatus \in {"running"} \cup FinalStatuses
  BY DEF ArchiveTypes, Folder
<1>3. role = "events" \/ role = "summary" \/ role = "manifest"
  BY DEF Roles
<1>4. lines \in SUBSET Events
  BY <1>2, <1>3
<1>5. status \in {"none", "running"} \cup FinalStatuses
  BY <1>2, <1>3
<1>6. run \in 0 .. MaxRuns
  BY StoreBounds DEF ArchiveTypes, RecorderRow
<1> HIDE DEF lines, status, run
<1> QED BY <1>1, <1>4, <1>5, <1>6 DEF File

LEMMA PayloadOf ==
    /\ Payload("events") = [role |-> "events", run |-> 0,
                            lines |-> folder.log, status |-> "none"]
    /\ Payload("summary") = [role |-> "summary", run |-> recorder.run,
                             lines |-> folder.summary, status |-> folder.summaryStatus]
    /\ Payload("manifest") = [role |-> "manifest", run |-> recorder.run,
                              lines |-> {}, status |-> folder.manifestStatus]
BY DEF Payload

LEMMA ArchivedFiles ==
    /\ Archived(0) = {}
    /\ \A n \in 0 .. 2 : Archived(n + 1) = Archived(n) \cup {Payload(RoleOrder[n + 1])}
    /\ Archived(3) = {Payload("manifest"), Payload("events"), Payload("summary")}
<1>1. Archived(0) = {}
  BY DEF Archived
<1>2. ASSUME NEW n \in 0 .. 2
      PROVE  Archived(n + 1) = Archived(n) \cup {Payload(RoleOrder[n + 1])}
  <2>1. 1 .. n + 1 = (1 .. n) \cup {n + 1}
    OBVIOUS
  <2> QED BY <2>1 DEF Archived
<1>3. Archived(3) = {Payload("manifest"), Payload("events"), Payload("summary")}
  <2>1. 1 .. 3 = {1, 2, 3}
    OBVIOUS
  <2> QED BY <2>1, RolesInOrder DEF Archived
<1> QED BY <1>1, <1>2, <1>3

(* So their number says which file is the next. *)
LEMMA ArchivedCount ==
    ASSUME ArchiveTypes, recorder.run \in Runs
    PROVE  \A n \in 0 .. 3 : Cardinality(Archived(n)) = n
<1> DEFINE m == Payload("manifest")
           e == Payload("events")
           s == Payload("summary")
<1>1. m.role = "manifest" /\ e.role = "events" /\ s.role = "summary"
  BY PayloadIsFile DEF Roles
<1> HIDE DEF m, e, s
<1>2. Archived(0) = {} /\ Archived(1) = Archived(0) \cup {m} /\ Archived(2) = Archived(1) \cup {e}
      /\ Archived(3) = Archived(2) \cup {s}
  <2>1. 0 \in 0 .. 2 /\ 1 \in 0 .. 2 /\ 2 \in 0 .. 2 /\ 0 + 1 = 1 /\ 1 + 1 = 2 /\ 2 + 1 = 3
    OBVIOUS
  <2> QED BY <2>1, ArchivedFiles, RolesInOrder DEF m, e, s
<1>3. IsFiniteSet(Archived(0)) /\ Cardinality(Archived(0)) = 0
  BY <1>2, FS_EmptySet
<1>4. m \notin Archived(0) /\ e \notin Archived(1) /\ s \notin Archived(2)
  BY <1>1, <1>2
<1>5. IsFiniteSet(Archived(1)) /\ Cardinality(Archived(1)) = 0 + 1
  BY <1>2, <1>3, <1>4, FS_AddElement
<1>6. IsFiniteSet(Archived(2)) /\ Cardinality(Archived(2)) = 0 + 1 + 1
  BY <1>2, <1>4, <1>5, FS_AddElement
<1>7. Cardinality(Archived(3)) = 0 + 1 + 1 + 1
  BY <1>2, <1>4, <1>6, FS_AddElement, SMTT(30)
<1>8. \A n \in 0 .. 3 : n = 0 \/ n = 1 \/ n = 2 \/ n = 3
  OBVIOUS
<1> QED BY <1>3, <1>5, <1>6, <1>7, <1>8

LEMMA RoleCount == Cardinality(Roles) = 3
<1>1. /\ "manifest" \notin {} /\ "events" \notin {"manifest"}
      /\ "summary" \notin {"manifest", "events"}
  OBVIOUS
<1>2. IsFiniteSet({}) /\ Cardinality({}) = 0
  BY FS_EmptySet
<1>3. IsFiniteSet({} \cup {"manifest"}) /\ Cardinality({} \cup {"manifest"}) = 0 + 1
  BY <1>1, <1>2, FS_AddElement
<1>4. {} \cup {"manifest"} = {"manifest"} /\ {"manifest"} \cup {"events"} = {"manifest", "events"}
      /\ {"manifest", "events"} \cup {"summary"} = Roles
  BY DEF Roles
<1>5. IsFiniteSet({"manifest"} \cup {"events"}) /\ Cardinality({"manifest"} \cup {"events"}) = 0 + 1 + 1
  BY <1>1, <1>3, <1>4, FS_AddElement
<1>6. Cardinality({"manifest", "events"} \cup {"summary"}) = 0 + 1 + 1 + 1
  BY <1>1, <1>4, <1>5, FS_AddElement
<1> QED BY <1>4, <1>6

LEMMA ArchivedKeeps ==
    ASSUME UNCHANGED folder, recorder'.run = recorder.run
    PROVE  /\ \A role \in Roles : Payload(role)' = Payload(role)
           /\ \A n \in 0 .. 3 : Archived(n)' = Archived(n)
<1>1. \A role : Payload(role)' = Payload(role)
  BY DEF Payload
<1>2. ASSUME NEW n \in 0 .. 3
      PROVE  Archived(n)' = Archived(n)
  <2>1. \A k \in 1 .. n : Payload(RoleOrder[k])' = Payload(RoleOrder[k])
    BY DEF Payload
  <2> QED BY <2>1 DEF Archived
<1> QED BY <1>1, <1>2

(* The three files of a closed run agree with its row and with each other. *)
LEMMA ArchivedAgree ==
    ASSUME recorder.run \in Runs, Links = Archived(3), Sealed, Status = recorder.status,
           recorder.counted \subseteq Own
    PROVE  EndedWell(recorder.run)
<1> DEFINE m == Payload("manifest")
           e == Payload("events")
           s == Payload("summary")
<1>1. rows[recorder.run].links = {m, e, s}
  BY ArchivedFiles DEF Links
<1>2. /\ m.role = "manifest" /\ e.role = "events" /\ s.role = "summary"
      /\ m.status = folder.manifestStatus /\ s.status = folder.summaryStatus
      /\ e.lines = folder.log /\ s.lines = folder.summary
  BY PayloadOf
<1> HIDE DEF m, e, s
<1>3. Linked(recorder.run) = Roles
  BY <1>1, <1>2 DEF Linked, Roles
<1>4. m.status = rows[recorder.run].status /\ s.status = rows[recorder.run].status
      /\ s.lines \subseteq e.lines \cap EventsOf(recorder.run)
  BY <1>2 DEF Sealed, Status, Own
<1> QED BY <1>1, <1>2, <1>3, <1>4 DEF EndedWell

(* A step of the recorder before or after it archives leaves the store as it was. *)
LEMMA StoredKeeps ==
    ASSUME StoreTypes, ArchivingInv, recorder.at # "archive",
           UNCHANGED <<visible, assumed, indexed, puts>>
    PROVE  StoreTypes' /\ ArchivingInv'
BY DEF StoreTypes, ArchivingInv

LEMMA RowsKeep ==
    ASSUME ArchiveTypes, RunsInv, UNCHANGED rows, recorder'.run = recorder.run
    PROVE  RunsInv' /\ Links' = Links /\ Status' = Status /\ Finished' = Finished
<1>1. \A r : rows'[r] = rows[r] /\ Linked(r)' = Linked(r) /\ Ended(r)' = Ended(r)
  BY DEF Linked, Ended
<1>2. \A r : EndedWell(r)' = EndedWell(r)
  BY <1>1 DEF EndedWell
<1> QED BY <1>1, <1>2 DEF RunsInv, Links, Status, Finished

(* What the store does on its own. *)
LEMMA ArchiveKeeps ==
    ASSUME ArchiveInv, UNCHANGED <<rows, recorder, folder>>
    PROVE  ArchiveTypes' /\ RunsInv' /\ RowInv' /\ FilesInv' /\ CountsInv'
<1>1. RunsInv' /\ Links' = Links /\ Status' = Status /\ Finished' = Finished
  BY RowsKeep DEF ArchiveInv
<1>2. \A n \in 0 .. 3 : Archived(n)' = Archived(n)
  BY ArchivedKeeps
<1>3. \A n \in 0 .. 2 : n \in 0 .. 3
  OBVIOUS
<1>4. Sealed' = Sealed /\ Running' = Running /\ Closing' = Closing
  BY DEF Sealed, Running, Closing
<1>5. RowInv'
  <2>0. RowInv /\ 3 \in 0 .. 3
    BY DEF ArchiveInv
  <2> HIDE DEF Archived, Links, Status, Finished, Sealed, Running
  <2> QED BY <2>0, <1>1, <1>2, <1>3, <1>4 DEF RowInv
<1>6. ArchiveTypes' /\ FilesInv' /\ CountsInv'
  BY <1>4 DEF ArchiveInv, ArchiveTypes, FilesInv, CountsInv, Sealed, Own, Event
<1> QED BY <1>1, <1>5, <1>6

LEMMA StartRunKeeps ==
    ASSUME ArchiveInv, NEW status \in StartStatuses, NEW log \in {{}, folder.log},
           StartRun(status, log)
    PROVE  ArchiveInv'
<1> DEFINE run == recorder.run + 1
<1>1. /\ recorder.at \in {"ended", "killed"} /\ recorder.run < MaxRuns
      /\ recorder' = [NoRecorder EXCEPT !.run = run, !.at = "recording", !.status = status]
      /\ folder' = [log |-> log, summary |-> {}, summaryStatus |-> status,
                    manifestStatus |-> status]
      /\ rows' = [rows EXCEPT ![run] = [NoRow EXCEPT !.status = status]]
      /\ UNCHANGED <<visible, assumed, indexed, puts>>
  BY DEF StartRun, stored
<1>2. recorder.run \in 0 .. MaxRuns /\ MaxRuns \in Nat /\ MaxEvents \in Nat
  BY StoreBounds DEF ArchiveInv, ArchiveTypes, RecorderRow
<1>3. run \in Runs /\ run > recorder.run /\ run \in 0 .. MaxRuns
  BY <1>1, <1>2 DEF Runs
<1>4. /\ recorder'.run = run /\ recorder'.seq = 0 /\ recorder'.counted = {}
      /\ recorder'.status = status /\ recorder'.at = "recording" /\ recorder'.missed = {}
      /\ recorder' = [run |-> run, seq |-> 0, counted |-> {}, status |-> status,
                      at |-> "recording", missed |-> {}]
  BY <1>1 DEF NoRecorder
<1> HIDE DEF run
<1>0. status \in {"running"} \cup FinalStatuses
  BY DEF StartStatuses
<1>5. recorder' \in RecorderRow
  <2>1. 0 \in 0 .. MaxEvents
    BY <1>2
  <2> QED BY <1>0, <1>3, <1>4, <2>1 DEF RecorderRow
<1>6. folder' \in Folder /\ folder'.log = log
  <2>1. log \in SUBSET Events
    BY DEF ArchiveInv, ArchiveTypes, Folder
  <2> QED BY <1>0, <1>1, <2>1 DEF Folder
<1>8. /\ rows' \in [Runs -> RowType]
      /\ rows'[run] = [status |-> status, finished_at |-> "null", links |-> {}]
      /\ \A r \in Runs \ {run} : rows'[r] = rows[r]
  <2>1. rows \in [Runs -> RowType]
    BY DEF ArchiveInv, ArchiveTypes
  <2>2. [NoRow EXCEPT !.status = status] = [status |-> status, finished_at |-> "null", links |-> {}]
    BY DEF NoRow
  <2>3. rows' = [rows EXCEPT ![run] = [status |-> status, finished_at |-> "null", links |-> {}]]
    BY <1>1, <2>2
  <2>4. [status |-> status, finished_at |-> "null", links |-> {}] \in RowType
    BY <1>0 DEF RowType
  <2> QED BY <1>3, <2>1, <2>3, <2>4
<1>9. RunsInv'
  <2>1. ASSUME NEW r \in Runs, r > run
        PROVE  rows'[r] = NoRow
    <3>1. r > recorder.run /\ r # run
      BY <1>2, <1>3, <2>1 DEF Runs
    <3> QED BY <1>8, <3>1 DEF ArchiveInv, RunsInv
  <2>2. ASSUME NEW r \in Runs, r < run
        PROVE  EndedWell(r)'
    <3>1. r # run /\ r <= recorder.run
      BY <1>2, <2>2 DEF run, Runs
    <3>2. rows'[r] = rows[r] /\ EndedWell(r)' = EndedWell(r)
      BY <1>8, <3>1 DEF EndedWell, Linked, Ended
    <3>3. CASE r < recorder.run
      BY <3>2, <3>3 DEF ArchiveInv, RunsInv
    <3>4. CASE r = recorder.run
      <4>0. recorder.run \in Runs
        BY <3>4
      <4>1. CASE ~Finished
        <5>1. Status \in StartStatuses
          BY <1>1, <4>0, <4>1 DEF ArchiveInv, RowInv
        <5>2. ~Ended(r)
          BY <3>4, <4>1, <5>1, FinalStatusesAssumption DEF Ended, Finished, Status, StartStatuses
        <5> QED BY <3>2, <5>2 DEF EndedWell
      <4>2. CASE Finished
        <5>1. recorder.at = "ended"
          BY <1>1, <4>0, <4>2 DEF ArchiveInv, RowInv
        <5>2. Status = recorder.status /\ Links = Archived(3) /\ Sealed
          BY <4>0, <4>2, <5>1 DEF ArchiveInv, RowInv
        <5>3. recorder.counted \subseteq Own
          BY DEF ArchiveInv, CountsInv
        <5>4. EndedWell(recorder.run)
          BY <4>0, <5>2, <5>3, ArchivedAgree
        <5> QED BY <3>2, <3>4, <5>4
      <4> QED BY <4>1, <4>2
    <3> QED
      <4>1. r \in Int /\ recorder.run \in Int
        BY <1>2 DEF Runs
      <4> QED BY <3>1, <3>3, <3>4, <4>1
  <2> QED BY <1>4, <2>1, <2>2 DEF RunsInv
<1>10. RowInv'
  <2>1. Links' = {} /\ Status' = status /\ Finished' = FALSE
    BY <1>4, <1>8 DEF Links, Status, Finished
  <2>2. StartStatuses' = StartStatuses
    BY DEF StartStatuses
  <2> QED BY <1>3, <1>4, <2>1, <2>2 DEF RowInv, Running
<1>11. FilesInv'
  BY <1>4 DEF FilesInv, Closing
<1>12. CountsInv'
  <2>1. \A r \in Runs : r > recorder.run => folder'.log \cap EventsOf(r) = {}
    BY <1>6 DEF ArchiveInv, CountsInv
  <2>2. Own' = {}
    BY <1>3, <1>4, <2>1 DEF Own, EventsOf
  <2>3. \A r \in Runs : r > run => r > recorder.run
    BY <1>2, <1>3 DEF Runs
  <2>4. \A r \in Runs : r > recorder'.run => folder'.log \cap EventsOf(r) = {}
    BY <1>4, <2>1, <2>3
  <2> QED BY <1>4, <2>2, <2>4 DEF CountsInv, EventsOf
<1>13. StoreTypes' /\ ArchivingInv'
  BY <1>1, StoredKeeps DEF ArchiveInv
<1> QED BY <1>5, <1>6, <1>8, <1>9, <1>10, <1>11, <1>12, <1>13 DEF ArchiveInv, ArchiveTypes

(* Fields of the recorder after a step. *)
LEMMA RecorderFields ==
    ASSUME ArchiveTypes
    PROVE  /\ recorder = [run |-> recorder.run, seq |-> recorder.seq, counted |-> recorder.counted,
                          status |-> recorder.status, at |-> recorder.at, missed |-> recorder.missed]
           /\ recorder.run \in 0 .. MaxRuns /\ recorder.seq \in 0 .. MaxEvents
           /\ recorder.counted \in SUBSET Events /\ recorder.missed \in SUBSET Events
           /\ recorder.status \in {"running"} \cup FinalStatuses
BY DEF ArchiveTypes, RecorderRow

LEMMA FolderFields ==
    ASSUME ArchiveTypes
    PROVE  /\ folder = [log |-> folder.log, summary |-> folder.summary,
                        summaryStatus |-> folder.summaryStatus,
                        manifestStatus |-> folder.manifestStatus]
           /\ folder.log \in SUBSET Events /\ folder.summary \in SUBSET Events
           /\ folder.summaryStatus \in {"running"} \cup FinalStatuses
           /\ folder.manifestStatus \in {"running"} \cup FinalStatuses
BY DEF ArchiveTypes, Folder

(* A step of record_event: it numbers an event, logs it or counts it. *)
LEMMA RecordingKeeps ==
    ASSUME ArchiveInv, recorder.at \in {"recording", "appended"},
           NEW seq \in 0 .. MaxEvents, NEW counted \in SUBSET Events,
           NEW missed \in SUBSET Events, NEW at \in {"recording", "appended"},
           recorder' = [run |-> recorder.run, seq |-> seq, counted |-> counted,
                        status |-> recorder.status, at |-> at, missed |-> missed],
           folder' \in Folder, rows' = rows, visible' = visible, assumed' = assumed,
           indexed' = indexed, puts' = puts, CountsInv'
    PROVE  ArchiveInv'
<1>1. /\ recorder'.run = recorder.run /\ recorder'.at = at
      /\ recorder' = [run |-> recorder.run, seq |-> seq, counted |-> counted,
                      status |-> recorder.status, at |-> at, missed |-> missed]
  BY RecorderFields DEF ArchiveInv
<1>2. recorder' \in RecorderRow
  BY <1>1, RecorderFields DEF ArchiveInv, RecorderRow
<1>3. RunsInv' /\ Links' = Links /\ Status' = Status /\ Finished' = Finished
  BY <1>1, RowsKeep DEF ArchiveInv
<1>4. recorder.run \in Runs /\ Status \in StartStatuses /\ ~Finished /\ Links = {}
  BY DEF ArchiveInv, RowInv, Running
<1>5. RowInv' /\ FilesInv'
  BY <1>1, <1>3, <1>4 DEF RowInv, FilesInv, Running, Closing
<1>6. StoreTypes' /\ ArchivingInv'
  BY StoredKeeps DEF ArchiveInv
<1> QED BY <1>2, <1>3, <1>5, <1>6 DEF ArchiveInv, ArchiveTypes

LEMMA AppendKeeps == ASSUME ArchiveInv, Append PROVE ArchiveInv'
<1> DEFINE seq == recorder.seq + 1
<1>1. /\ recorder.at = "recording" /\ recorder.seq < MaxEvents
      /\ folder' = [folder EXCEPT !.log = folder.log \cup {Event(seq)}]
      /\ recorder' = [recorder EXCEPT !.seq = seq, !.at = "appended"]
      /\ UNCHANGED <<rows, visible, assumed, indexed, puts>>
  BY DEF Append, stored
<1>2. seq \in 0 .. MaxEvents /\ Event(seq) \in Events /\ Event(seq) \in EventsOf(recorder.run)
  <2>1. seq \in 0 .. MaxEvents /\ seq \in Sequences
    BY <1>1, RecorderFields, StoreBounds DEF ArchiveInv, Sequences
  <2>2. recorder.run \in Runs
    BY <1>1 DEF ArchiveInv, RowInv, Running
  <2> QED BY <2>1, <2>2 DEF Event, Events, EventsOf
<1> HIDE DEF seq
<1>3. recorder' = [run |-> recorder.run, seq |-> seq, counted |-> recorder.counted,
                   status |-> recorder.status, at |-> "appended", missed |-> recorder.missed]
  BY <1>1, RecorderFields DEF ArchiveInv
<1>4. /\ folder' = [log |-> folder.log \cup {Event(seq)}, summary |-> folder.summary,
                    summaryStatus |-> folder.summaryStatus,
                    manifestStatus |-> folder.manifestStatus]
      /\ folder'.log = folder.log \cup {Event(seq)}
  BY <1>1, FolderFields DEF ArchiveInv
<1>5. folder' \in Folder
  BY <1>2, <1>4, FolderFields DEF ArchiveInv, Folder
<1>6. /\ recorder'.at = "appended" /\ recorder'.seq = seq
      /\ recorder'.counted = recorder.counted /\ recorder'.missed = recorder.missed
  BY <1>3, RecorderFields DEF ArchiveInv
<1>7. CountsInv'
  <2>1. recorder.counted \subseteq Own /\ Own \ recorder.counted \subseteq recorder.missed
    BY <1>1 DEF ArchiveInv, CountsInv
  <2>2. recorder'.run = recorder.run
    BY <1>3
  <2>3. Own' = Own \cup {Event(seq)} /\ Event(recorder.seq)' = Event(seq)
    BY <1>2, <1>4, <1>6, <2>2 DEF Own, Event, EventsOf
  <2>4. ASSUME NEW r \in Runs, r > recorder.run
        PROVE  folder'.log \cap EventsOf(r) = {}
    <3>1. folder.log \cap EventsOf(r) = {}
      BY <2>4 DEF ArchiveInv, CountsInv
    <3>2. r # recorder.run
      BY <2>4, RecorderFields DEF ArchiveInv, Runs
    <3>3. Event(seq) \notin EventsOf(r)
      BY <3>2 DEF Event, EventsOf
    <3> QED BY <1>4, <3>1, <3>3
  <2>5. \A r \in Runs : r > recorder'.run => folder'.log \cap EventsOf(r) = {}
    BY <2>2, <2>4
  <2> QED BY <1>6, <2>1, <2>3, <2>5 DEF CountsInv
<1>8. recorder.counted \in SUBSET Events /\ recorder.missed \in SUBSET Events
  BY RecorderFields DEF ArchiveInv
<1>10. "recording" \in {"recording", "appended"}
       /\ "appended" \in {"recording", "appended"}
  OBVIOUS
<1> QED BY <1>1, <1>2, <1>3, <1>5, <1>7, <1>8, <1>10, RecordingKeeps

LEMMA AppendFailsKeeps == ASSUME ArchiveInv, AppendFails PROVE ArchiveInv'
<1> DEFINE seq == recorder.seq + 1
           missed == recorder.missed \cup {Event(seq)}
<1>1. /\ recorder.at = "recording" /\ recorder.seq < MaxEvents
      /\ recorder' = [recorder EXCEPT !.seq = seq, !.missed = missed]
      /\ UNCHANGED <<rows, visible, assumed, indexed, puts, folder>>
  BY DEF AppendFails, stored
<1>2. seq \in 0 .. MaxEvents /\ Event(seq) \in Events /\ Event(seq) \in EventsOf(recorder.run)
  <2>1. seq \in 0 .. MaxEvents /\ seq \in Sequences
    BY <1>1, RecorderFields, StoreBounds DEF ArchiveInv, Sequences
  <2>2. recorder.run \in Runs
    BY <1>1 DEF ArchiveInv, RowInv, Running
  <2> QED BY <2>1, <2>2 DEF Event, Events, EventsOf
<1>3. missed \in SUBSET Events /\ recorder.missed \subseteq missed
  BY <1>2, RecorderFields DEF ArchiveInv
<1> HIDE DEF seq, missed
<1>4. recorder' = [run |-> recorder.run, seq |-> seq, counted |-> recorder.counted,
                   status |-> recorder.status, at |-> "recording", missed |-> missed]
  BY <1>1, RecorderFields DEF ArchiveInv
<1>5. folder' \in Folder /\ folder' = folder
  BY <1>1 DEF ArchiveInv, ArchiveTypes
<1>6. /\ recorder'.at = "recording"
      /\ recorder'.counted = recorder.counted /\ recorder'.missed = missed
  BY <1>4, RecorderFields DEF ArchiveInv
<1>7. CountsInv'
  <2>1. recorder.counted \subseteq Own /\ Own \ recorder.counted \subseteq recorder.missed
    BY <1>1 DEF ArchiveInv, CountsInv
  <2>2. recorder'.run = recorder.run
    BY <1>4
  <2>3. Own' = Own
    BY <1>5, <2>2 DEF Own
  <2>4. \A r \in Runs : r > recorder'.run => folder'.log \cap EventsOf(r) = {}
    BY <1>5, <2>2 DEF ArchiveInv, CountsInv
  <2> QED BY <1>3, <1>6, <2>1, <2>3, <2>4 DEF CountsInv
<1>8. recorder.counted \in SUBSET Events
  BY RecorderFields DEF ArchiveInv
<1>9. UNCHANGED <<rows, visible, assumed, indexed, puts>>
  BY <1>1
<1>10. "recording" \in {"recording", "appended"}
       /\ "appended" \in {"recording", "appended"}
  OBVIOUS
<1> QED BY <1>1, <1>2, <1>3, <1>4, <1>5, <1>7, <1>8, <1>9, <1>10, RecordingKeeps

LEMMA CountKeeps == ASSUME ArchiveInv, Count PROVE ArchiveInv'
<1> DEFINE counted == recorder.counted \cup {Event(recorder.seq)}
<1>1. /\ recorder.at = "appended"
      /\ recorder' = [recorder EXCEPT !.at = "recording", !.counted = counted]
      /\ UNCHANGED <<rows, visible, assumed, indexed, puts>>
      /\ \/ folder' = [folder EXCEPT !.summary = counted]
         \/ folder' = folder
  BY DEF Count, stored
<1>2. /\ Event(recorder.seq) \in Own /\ recorder.counted \subseteq Own
      /\ Own \ recorder.counted \subseteq recorder.missed \cup {Event(recorder.seq)}
  BY <1>1 DEF ArchiveInv, CountsInv
<1>3. counted \in SUBSET Events /\ counted \subseteq Own
      /\ Own \ counted \subseteq recorder.missed
  <2>1. Own \subseteq Events
    BY FolderFields DEF ArchiveInv, Own
  <2> QED BY <1>2, <2>1
<1> HIDE DEF counted
<1>4. recorder' = [run |-> recorder.run, seq |-> recorder.seq, counted |-> counted,
                   status |-> recorder.status, at |-> "recording", missed |-> recorder.missed]
  BY <1>1, RecorderFields DEF ArchiveInv
<1>5. folder' \in Folder /\ folder'.log = folder.log
  <2>1. CASE folder' = [folder EXCEPT !.summary = counted]
    <3>1. folder' = [log |-> folder.log, summary |-> counted,
                     summaryStatus |-> folder.summaryStatus,
                     manifestStatus |-> folder.manifestStatus]
      BY <2>1, FolderFields DEF ArchiveInv
    <3> QED BY <1>3, <3>1, FolderFields DEF ArchiveInv, Folder
  <2>2. CASE folder' = folder
    BY <2>2 DEF ArchiveInv, ArchiveTypes
  <2> QED BY <1>1, <2>1, <2>2
<1>6. /\ recorder'.at = "recording"
      /\ recorder'.counted = counted /\ recorder'.missed = recorder.missed
  BY <1>4, RecorderFields DEF ArchiveInv
<1>7. CountsInv'
  <2>1. recorder'.run = recorder.run
    BY <1>4
  <2>2. Own' = Own
    BY <1>5, <2>1 DEF Own
  <2>3. \A r \in Runs : r > recorder'.run => folder'.log \cap EventsOf(r) = {}
    BY <1>5, <2>1 DEF ArchiveInv, CountsInv
  <2> QED BY <1>3, <1>6, <2>2, <2>3 DEF CountsInv
<1>8. recorder.seq \in 0 .. MaxEvents /\ recorder.missed \in SUBSET Events
  BY RecorderFields DEF ArchiveInv
<1>10. "recording" \in {"recording", "appended"}
       /\ "appended" \in {"recording", "appended"}
  OBVIOUS
<1> QED BY <1>1, <1>3, <1>4, <1>5, <1>7, <1>8, <1>10, RecordingKeeps

LEMMA InterruptKeeps == ASSUME ArchiveInv, Interrupt PROVE ArchiveInv'
<1> DEFINE missed == recorder.missed \cup {Event(recorder.seq)}
<1>1. /\ recorder.at = "appended"
      /\ recorder' = [recorder EXCEPT !.at = "recording", !.missed = missed]
      /\ UNCHANGED <<rows, visible, assumed, indexed, puts>> /\ UNCHANGED folder
  BY DEF Interrupt, stored
<1>2. /\ Event(recorder.seq) \in Own /\ recorder.counted \subseteq Own
      /\ Own \ recorder.counted \subseteq missed
  BY <1>1 DEF ArchiveInv, CountsInv
<1>3. missed \in SUBSET Events
  BY <1>2, FolderFields, RecorderFields DEF ArchiveInv, Own
<1> HIDE DEF missed
<1>4. recorder' = [run |-> recorder.run, seq |-> recorder.seq, counted |-> recorder.counted,
                   status |-> recorder.status, at |-> "recording", missed |-> missed]
  BY <1>1, RecorderFields DEF ArchiveInv
<1>5. folder' \in Folder /\ folder' = folder
  BY <1>1 DEF ArchiveInv, ArchiveTypes
<1>6. /\ recorder'.at = "recording"
      /\ recorder'.counted = recorder.counted /\ recorder'.missed = missed
  BY <1>4, RecorderFields DEF ArchiveInv
<1>7. CountsInv'
  <2>1. recorder'.run = recorder.run
    BY <1>4
  <2>2. Own' = Own
    BY <1>5, <2>1 DEF Own
  <2>3. \A r \in Runs : r > recorder'.run => folder'.log \cap EventsOf(r) = {}
    BY <1>5, <2>1 DEF ArchiveInv, CountsInv
  <2> QED BY <1>2, <1>6, <2>2, <2>3 DEF CountsInv
<1>8. recorder.seq \in 0 .. MaxEvents /\ recorder.counted \in SUBSET Events
  BY RecorderFields DEF ArchiveInv
<1>10. "recording" \in {"recording", "appended"}
       /\ "appended" \in {"recording", "appended"}
  OBVIOUS
<1> QED BY <1>1, <1>3, <1>4, <1>5, <1>7, <1>8, <1>10, RecordingKeeps

(* A step that moves the recorder to another point of its life. *)
LEMMA MoveKeeps ==
    ASSUME ArchiveInv, NEW at \in {"recording", "appended", "summary", "manifest", "archive",
                                   "finish", "ended", "killed"},
           NEW status \in {"running"} \cup FinalStatuses,
           recorder' = [recorder EXCEPT !.at = at, !.status = status]
    PROVE  /\ recorder' \in RecorderRow
           /\ recorder'.run = recorder.run /\ recorder'.at = at /\ recorder'.status = status
           /\ recorder'.counted = recorder.counted /\ recorder'.missed = recorder.missed
<1>1. recorder' = [run |-> recorder.run, seq |-> recorder.seq, counted |-> recorder.counted,
                   status |-> status, at |-> at, missed |-> recorder.missed]
  BY RecorderFields DEF ArchiveInv
<1> QED BY <1>1, RecorderFields DEF ArchiveInv, RecorderRow

(* What is counted stays so when nothing is logged any more. *)
LEMMA CountsStay ==
    ASSUME CountsInv, recorder.at # "appended" \/ recorder'.at = "killed",
           recorder.at # "killed", recorder'.at # "appended",
           recorder'.run = recorder.run, recorder'.counted = recorder.counted,
           recorder'.missed = recorder.missed, folder'.log = folder.log
    PROVE  CountsInv'
<1>1. Own' = Own
  BY DEF Own
<1>2. \A r \in Runs : r > recorder'.run => folder'.log \cap EventsOf(r) = {}
  BY DEF CountsInv
<1> QED BY <1>1, <1>2 DEF CountsInv

LEMMA CloseKeeps ==
    ASSUME ArchiveInv, NEW status \in FinalStatuses, Close(status)
    PROVE  ArchiveInv'
<1>1. /\ recorder.at = "recording"
      /\ recorder' = [recorder EXCEPT !.at = "summary", !.status = status]
      /\ UNCHANGED <<rows, folder, visible, assumed, indexed, puts>>
  BY DEF Close, stored
<1>2. /\ recorder' \in RecorderRow
      /\ recorder'.run = recorder.run /\ recorder'.at = "summary" /\ recorder'.status = status
      /\ recorder'.counted = recorder.counted /\ recorder'.missed = recorder.missed
  BY <1>1, MoveKeeps
<1>3. RunsInv' /\ Links' = Links /\ Status' = Status /\ Finished' = Finished
  BY <1>1, <1>2, RowsKeep DEF ArchiveInv
<1>4. recorder.run \in Runs /\ Status \in StartStatuses /\ ~Finished /\ Links = {}
  BY <1>1 DEF ArchiveInv, RowInv, Running
<1>5. RowInv' /\ FilesInv'
  BY <1>2, <1>3, <1>4 DEF RowInv, FilesInv, Running, Closing
<1>6. CountsInv'
  BY <1>1, <1>2, CountsStay DEF ArchiveInv
<1>7. StoreTypes' /\ ArchivingInv'
  BY <1>1, StoredKeeps DEF ArchiveInv
<1> QED BY <1>1, <1>2, <1>3, <1>5, <1>6, <1>7 DEF ArchiveInv, ArchiveTypes

LEMMA WriteSummaryKeeps == ASSUME ArchiveInv, WriteSummary PROVE ArchiveInv'
<1>1. /\ recorder.at = "summary"
      /\ recorder' = [recorder EXCEPT !.at = "manifest"]
      /\ folder' = [folder EXCEPT !.summary = recorder.counted,
                                  !.summaryStatus = recorder.status]
      /\ UNCHANGED <<rows, visible, assumed, indexed, puts>>
  BY DEF WriteSummary, stored
<1>2. /\ recorder' \in RecorderRow
      /\ recorder'.run = recorder.run /\ recorder'.at = "manifest"
      /\ recorder'.status = recorder.status
      /\ recorder'.counted = recorder.counted /\ recorder'.missed = recorder.missed
  <2>1. recorder' = [recorder EXCEPT !.at = "manifest", !.status = recorder.status]
    BY <1>1, RecorderFields DEF ArchiveInv
  <2>2. recorder.status \in {"running"} \cup FinalStatuses
    BY RecorderFields DEF ArchiveInv
  <2> QED BY <2>1, <2>2, MoveKeeps
<1>3. RunsInv' /\ Links' = Links /\ Status' = Status /\ Finished' = Finished
  BY <1>1, <1>2, RowsKeep DEF ArchiveInv
<1>4. recorder.run \in Runs /\ Status \in StartStatuses /\ ~Finished /\ Links = {}
  BY <1>1 DEF ArchiveInv, RowInv, Running
<1>5. folder' = [log |-> folder.log, summary |-> recorder.counted,
                 summaryStatus |-> recorder.status, manifestStatus |-> folder.manifestStatus]
  BY <1>1, FolderFields DEF ArchiveInv
<1>6. folder' \in Folder
  BY <1>5, FolderFields, RecorderFields DEF ArchiveInv, Folder
<1>7. recorder.status \in FinalStatuses
  BY <1>1 DEF ArchiveInv, FilesInv, Closing
<1>8. RowInv' /\ FilesInv'
  BY <1>2, <1>3, <1>4, <1>5, <1>7 DEF RowInv, FilesInv, Running, Closing
<1>9. CountsInv'
  BY <1>1, <1>2, <1>5, CountsStay DEF ArchiveInv
<1>10. StoreTypes' /\ ArchivingInv'
  BY <1>1, StoredKeeps DEF ArchiveInv
<1> QED BY <1>1, <1>2, <1>3, <1>6, <1>8, <1>9, <1>10 DEF ArchiveInv, ArchiveTypes

LEMMA WriteManifestKeeps == ASSUME ArchiveInv, WriteManifest PROVE ArchiveInv'
<1>1. /\ recorder.at = "manifest"
      /\ recorder' = [recorder EXCEPT !.at = "archive"]
      /\ folder' = [folder EXCEPT !.manifestStatus = recorder.status]
      /\ UNCHANGED <<rows, visible, assumed, indexed, puts>>
  BY DEF WriteManifest, stored
<1>2. /\ recorder' \in RecorderRow
      /\ recorder'.run = recorder.run /\ recorder'.at = "archive"
      /\ recorder'.status = recorder.status
      /\ recorder'.counted = recorder.counted /\ recorder'.missed = recorder.missed
  <2>1. recorder' = [recorder EXCEPT !.at = "archive", !.status = recorder.status]
    BY <1>1, RecorderFields DEF ArchiveInv
  <2>2. recorder.status \in {"running"} \cup FinalStatuses
    BY RecorderFields DEF ArchiveInv
  <2> QED BY <2>1, <2>2, MoveKeeps
<1>3. RunsInv' /\ Links' = Links /\ Status' = Status /\ Finished' = Finished
  BY <1>1, <1>2, RowsKeep DEF ArchiveInv
<1>4. recorder.run \in Runs /\ Status \in StartStatuses /\ ~Finished /\ Links = {}
  BY <1>1 DEF ArchiveInv, RowInv, Running
<1>5. folder' = [log |-> folder.log, summary |-> folder.summary,
                 summaryStatus |-> folder.summaryStatus, manifestStatus |-> recorder.status]
  BY <1>1, FolderFields DEF ArchiveInv
<1>6. folder' \in Folder
  BY <1>5, FolderFields, RecorderFields DEF ArchiveInv, Folder
<1>7. /\ recorder.status \in FinalStatuses
      /\ folder.summary = recorder.counted /\ folder.summaryStatus = recorder.status
  BY <1>1 DEF ArchiveInv, FilesInv, Closing
<1>8. FilesInv'
  BY <1>2, <1>5, <1>7 DEF FilesInv, Closing, Sealed
<1>9. RowInv'
  <2>1. 0 \in 0 .. 2 /\ Archived(0)' = {}
    BY DEF Archived
  <2> HIDE DEF Archived
  <2> QED BY <1>2, <1>3, <1>4, <2>1 DEF RowInv, Running
<1>10. CountsInv'
  BY <1>1, <1>2, <1>5, CountsStay DEF ArchiveInv
<1>11. StoreTypes' /\ ArchivingInv'
  BY <1>1, StoredKeeps DEF ArchiveInv
<1> QED BY <1>1, <1>2, <1>3, <1>6, <1>8, <1>9, <1>10, <1>11 DEF ArchiveInv, ArchiveTypes

(* A step that changes the row of the run under way only. *)
LEMMA RowChanges ==
    ASSUME ArchiveInv, recorder.run \in Runs, NEW row \in RowType,
           rows' = [rows EXCEPT ![recorder.run] = row], recorder'.run = recorder.run
    PROVE  /\ rows' \in [Runs -> RowType] /\ RunsInv'
           /\ Links' = row.links /\ Status' = row.status /\ Finished' = (row.finished_at # "null")
<1>1. rows \in [Runs -> RowType]
  BY DEF ArchiveInv, ArchiveTypes
<1>2. /\ rows' \in [Runs -> RowType] /\ rows'[recorder.run] = row
      /\ \A r \in Runs \ {recorder.run} : rows'[r] = rows[r]
  BY <1>1
<1>3. \A r \in Runs \ {recorder.run} : EndedWell(r)' = EndedWell(r)
  BY <1>2 DEF EndedWell, Linked, Ended
<1>4. \A r \in Runs : r > recorder.run \/ r < recorder.run => r # recorder.run
  BY DEF Runs
<1>5. RunsInv'
  <2>1. RunsInv
    BY DEF ArchiveInv
  <2> QED BY <1>2, <1>3, <1>4, <2>1 DEF RunsInv
<1> QED BY <1>2, <1>5 DEF Links, Status, Finished

LEMMA LinkKeeps == ASSUME ArchiveInv, StoreInv, Link PROVE ArchiveInv'
<1> DEFINE p == puts["recorder"].payload
<1>1. /\ puts["recorder"].at = "stored" /\ indexed' = indexed \cup {p}
      /\ puts' = [puts EXCEPT !["recorder"] = NoPut]
      /\ UNCHANGED <<visible, assumed, folder>>
      /\ rows' = [rows EXCEPT ![recorder.run].links = rows[recorder.run].links \cup {p}]
      /\ recorder' = [recorder EXCEPT !.at = IF Cardinality(rows'[recorder.run].links)
                                                = Cardinality(Roles)
                                             THEN "finish" ELSE "archive"]
  BY DEF Link, Register
<1>2. recorder.at = "archive" /\ p = Payload(NextRole)
  BY <1>1 DEF ArchiveInv, ArchivingInv
<1>3. /\ recorder.run \in Runs /\ Status \in StartStatuses /\ ~Finished /\ \E n \in 0 .. 2 : Links = Archived(n)
      /\ Sealed /\ recorder.status \in FinalStatuses
  BY <1>2 DEF ArchiveInv, RowInv, FilesInv, Running, Closing
<1>4. PICK n \in 0 .. 2 : Links = Archived(n)
  BY <1>3
<1>5. /\ \A k \in 0 .. 3 : Cardinality(Archived(k)) = k
      /\ n \in 0 .. 3 /\ n + 1 \in 0 .. 3
  BY <1>3, ArchivedCount DEF ArchiveInv
<1>6. NextRole = RoleOrder[n + 1]
  BY <1>4, <1>5 DEF NextRole, Links
<1>7. rows[recorder.run].links \cup {p} = Archived(n + 1)
  BY <1>2, <1>4, <1>6, ArchivedFiles DEF Links
<1>8. p \in File
  <2>1. n + 1 = 1 \/ n + 1 = 2 \/ n + 1 = 3
    OBVIOUS
  <2>2. RoleOrder[n + 1] \in Roles
    BY <2>1, RolesInOrder
  <2>3. ArchiveTypes
    BY DEF ArchiveInv
  <2> QED BY <1>2, <1>3, <1>6, <2>2, <2>3, PayloadIsFile
<1> DEFINE row == [status |-> Status, finished_at |-> "null", links |-> Archived(n + 1)]
<1>9. /\ row \in RowType /\ rows' = [rows EXCEPT ![recorder.run] = row]
  <2>1. rows \in [Runs -> RowType] /\ rows[recorder.run] \in RowType
    BY <1>3 DEF ArchiveInv, ArchiveTypes
  <2>2. /\ rows[recorder.run] = [status |-> Status, finished_at |-> "null", links |-> Links]
        /\ Status \in {"absent", "running"} \cup FinalStatuses
    BY <1>3, <2>1 DEF RowType, Links, Status, Finished
  <2>3. Links \cup {p} = Archived(n + 1)
    BY <1>7 DEF Links
  <2>4. Links \cup {p} \subseteq File
    BY <1>8, <2>1 DEF RowType, Links
  <2> HIDE DEF Links, Status, Archived, p
  <2>5. row \in RowType
    BY <2>2, <2>3, <2>4 DEF RowType
  <2>6. [rows[recorder.run] EXCEPT !.links = Links \cup {p}] = row
    BY <2>2, <2>3
  <2> QED BY <1>1, <2>1, <2>5, <2>6 DEF Links
<1> DEFINE at == IF n = 2 THEN "finish" ELSE "archive"
<1>10. recorder' = [recorder EXCEPT !.at = at]
  <2>1. rows'[recorder.run].links = Archived(n + 1)
    BY <1>3, <1>9 DEF ArchiveInv, ArchiveTypes
  <2>2. Cardinality(Archived(n + 1)) = n + 1
    BY <1>5
  <2> HIDE DEF Archived
  <2>3. (IF Cardinality(rows'[recorder.run].links) = Cardinality(Roles)
         THEN "finish" ELSE "archive") = at
    BY <2>1, <2>2, RoleCount
  <2> QED BY <1>1, <2>3
<1>11. /\ recorder' \in RecorderRow
       /\ recorder'.run = recorder.run /\ recorder'.at = at
       /\ recorder'.status = recorder.status
       /\ recorder'.counted = recorder.counted /\ recorder'.missed = recorder.missed
  <2>1. recorder' = [recorder EXCEPT !.at = at, !.status = recorder.status]
    BY <1>10, RecorderFields DEF ArchiveInv
  <2>2. recorder.status \in {"running"} \cup FinalStatuses
    BY RecorderFields DEF ArchiveInv
  <2>3. at \in {"recording", "appended", "summary", "manifest", "archive",
                "finish", "ended", "killed"}
    OBVIOUS
  <2> HIDE DEF at
  <2> QED BY <2>1, <2>2, <2>3, MoveKeeps
<1>12. /\ rows' \in [Runs -> RowType] /\ RunsInv'
       /\ Links' = Archived(n + 1) /\ Status' = Status /\ Finished' = FALSE
  <2>1. row.links = Archived(n + 1) /\ row.status = Status /\ row.finished_at = "null"
    OBVIOUS
  <2> HIDE DEF row
  <2> QED BY <1>3, <1>9, <1>11, <2>1, RowChanges
<1>13. \A k \in 0 .. 3 : Archived(k)' = Archived(k)
  BY <1>1, <1>11, ArchivedKeeps
<1>14. RowInv'
  <2>1. Links' = Archived(n + 1)'
    BY <1>5, <1>12, <1>13
  <2>2. at = "archive" => n + 1 \in 0 .. 2
    OBVIOUS
  <2>3. at = "finish" => n + 1 = 3
    OBVIOUS
  <2>4. at \in {"archive", "finish"}
    OBVIOUS
  <2> HIDE DEF at, Archived, Links, Status, Finished
  <2>5. recorder.run \in Runs /\ Status \in StartStatuses
    BY <1>3
  <2> QED BY <1>11, <1>12, <2>1, <2>2, <2>3, <2>4, <2>5 DEF RowInv, Running
<1>15. FilesInv'
  <2>1. at \in {"archive", "finish"}
    OBVIOUS
  <2> HIDE DEF at
  <2> QED BY <1>1, <1>3, <1>11, <2>1 DEF FilesInv, Sealed, Closing
<1>16. CountsInv'
  <2>1. at \in {"archive", "finish"}
    OBVIOUS
  <2> HIDE DEF at
  <2> QED BY <1>1, <1>2, <1>11, <2>1, CountsStay DEF ArchiveInv
<1>17. StoreTypes' /\ ArchivingInv'
  <2>1. "recorder" \in Writers
    BY DEF Writers
  <2>2. puts'["recorder"].at = "idle" /\ \A w \in Writers \ {"recorder"} : puts'[w] = puts[w]
    BY <1>1, <2>1 DEF NoPut, StoreInv
  <2>3. p \in Payloads
    BY <1>8 DEF Payloads
  <2>4. StoreTypes
    BY DEF ArchiveInv
  <2> HIDE DEF p
  <2> QED BY <1>1, <2>1, <2>2, <2>3, <2>4 DEF StoreTypes, ArchivingInv
<1> QED BY <1>1, <1>11, <1>12, <1>14, <1>15, <1>16, <1>17 DEF ArchiveInv, ArchiveTypes

LEMMA FinishRunKeeps == ASSUME ArchiveInv, FinishRun PROVE ArchiveInv'
<1>1. /\ recorder.at = "finish"
      /\ recorder' = [recorder EXCEPT !.at = "ended"]
      /\ rows' = [rows EXCEPT ![recorder.run].status = recorder.status,
                              ![recorder.run].finished_at = "now"]
      /\ UNCHANGED <<folder, visible, assumed, indexed, puts>>
  BY DEF FinishRun, stored
<1>2. /\ recorder.run \in Runs /\ Links = Archived(3) /\ Sealed
      /\ recorder.status \in FinalStatuses
  BY <1>1 DEF ArchiveInv, RowInv, FilesInv, Running, Closing
<1>3. /\ recorder' \in RecorderRow
      /\ recorder'.run = recorder.run /\ recorder'.at = "ended"
      /\ recorder'.status = recorder.status
      /\ recorder'.counted = recorder.counted /\ recorder'.missed = recorder.missed
  <2>1. recorder' = [recorder EXCEPT !.at = "ended", !.status = recorder.status]
    BY <1>1, RecorderFields DEF ArchiveInv
  <2>2. recorder.status \in {"running"} \cup FinalStatuses
    BY RecorderFields DEF ArchiveInv
  <2> QED BY <2>1, <2>2, MoveKeeps
<1> DEFINE row == [status |-> recorder.status, finished_at |-> "now", links |-> Links]
<1>4. row \in RowType /\ rows' = [rows EXCEPT ![recorder.run] = row]
  <2>1. rows \in [Runs -> RowType] /\ rows[recorder.run] \in RowType
    BY <1>2 DEF ArchiveInv, ArchiveTypes
  <2>2. [rows[recorder.run] EXCEPT !.status = recorder.status, !.finished_at = "now"] = row
    <3> DEFINE r == rows[recorder.run]
               r1 == [r EXCEPT !.status = recorder.status]
    <3>1. r \in RowType /\ recorder.status \in FinalStatuses /\ r.links = Links
      BY <1>2, <2>1 DEF Links
    <3>2. [r EXCEPT !.status = recorder.status, !.finished_at = "now"]
          = [r1 EXCEPT !.finished_at = "now"]
      BY Zenon
    <3> HIDE DEF r, Links
    <3>3. /\ r1 \in RowType /\ r1.links = Links /\ r1.status = recorder.status
      BY <3>1 DEF RowType
    <3> HIDE DEF r1
    <3>4. [r1 EXCEPT !.finished_at = "now"] = row
      BY <3>3 DEF RowType
    <3> QED BY <3>2, <3>4 DEF r
  <2>4. [rows EXCEPT ![recorder.run].status = recorder.status, ![recorder.run].finished_at = "now"]
        = [rows EXCEPT ![recorder.run] = [rows[recorder.run] EXCEPT !.status = recorder.status,
                                                                     !.finished_at = "now"]]
    BY <1>2, <2>1
  <2>3. row \in RowType
    BY <1>2, <2>1 DEF RowType, Links
  <2> QED BY <1>1, <2>2, <2>3, <2>4
<1>5. /\ rows' \in [Runs -> RowType] /\ RunsInv'
      /\ Links' = Links /\ Status' = recorder.status /\ Finished' = TRUE
  <2>1. row.links = Links /\ row.status = recorder.status /\ row.finished_at = "now"
    OBVIOUS
  <2> HIDE DEF row
  <2> QED BY <1>2, <1>3, <1>4, <2>1, RowChanges
<1>6. Archived(3)' = Archived(3)
  <2>1. 3 \in 0 .. 3
    OBVIOUS
  <2> QED BY <1>1, <1>3, <2>1, ArchivedKeeps
<1>7. Sealed'
  BY <1>1, <1>2, <1>3 DEF Sealed
<1>8. RowInv'
  BY <1>2, <1>3, <1>5, <1>6, <1>7 DEF RowInv, Running
<1>9. FilesInv' /\ CountsInv'
  BY <1>1, <1>3, CountsStay DEF ArchiveInv, FilesInv, Closing
<1>10. StoreTypes' /\ ArchivingInv'
  BY <1>1, StoredKeeps DEF ArchiveInv
<1> QED BY <1>1, <1>3, <1>5, <1>8, <1>9, <1>10 DEF ArchiveInv, ArchiveTypes

(* The end of a launch before its row is finished: an exception in close,  *)
(* a kill, a power loss.                                                   *)
LEMMA StopKeeps ==
    ASSUME ArchiveInv, Running, NEW at \in {"ended", "killed"},
           at = "ended" => Closing,
           recorder' = [recorder EXCEPT !.at = at], UNCHANGED <<rows, folder>>,
           puts'["recorder"].at = "idle", StoreTypes'
    PROVE  ArchiveInv'
<1>1. /\ recorder' \in RecorderRow
      /\ recorder'.run = recorder.run /\ recorder'.at = at
      /\ recorder'.status = recorder.status
      /\ recorder'.counted = recorder.counted /\ recorder'.missed = recorder.missed
  <2>1. recorder' = [recorder EXCEPT !.at = at, !.status = recorder.status]
    BY RecorderFields DEF ArchiveInv
  <2>2. recorder.status \in {"running"} \cup FinalStatuses
    BY RecorderFields DEF ArchiveInv
  <2>3. at \in {"recording", "appended", "summary", "manifest", "archive",
                "finish", "ended", "killed"}
    OBVIOUS
  <2> QED BY <2>1, <2>2, <2>3, MoveKeeps
<1>2. RunsInv' /\ Links' = Links /\ Status' = Status /\ Finished' = Finished
  BY <1>1, RowsKeep DEF ArchiveInv
<1>3. recorder.run \in Runs /\ Status \in StartStatuses /\ ~Finished
  BY DEF ArchiveInv, RowInv
<1>4. RowInv' /\ FilesInv'
  BY <1>1, <1>2, <1>3 DEF RowInv, FilesInv, Running, Closing
<1>5. CountsInv'
  BY <1>1, CountsStay DEF ArchiveInv, Closing, Running
<1> QED BY <1>1, <1>2, <1>4, <1>5 DEF ArchiveInv, ArchiveTypes, ArchivingInv

(* The types of the store under its own steps. *)
LEMMA PutTypes ==
    ASSUME StoreTypes, StoreInv, NEW w \in Writers, NEW row,
           puts' = [puts EXCEPT ![w] = row],
           row.at # "idle" => row.payload \in Payloads,
           visible' \subseteq Payloads, assumed' \subseteq Payloads, indexed' \subseteq Payloads
    PROVE  StoreTypes'
<1>1. puts'[w] = row /\ \A x \in Writers \ {w} : puts'[x] = puts[x]
  BY DEF StoreInv
<1> QED BY <1>1 DEF StoreTypes

LEMMA OwnStepKeeps ==
    ASSUME ArchiveInv, StoreInv, NEW w \in Writers, PutStep(w)
    PROVE  ArchiveInv'
<1> DEFINE p == puts[w].payload
<1>1. UNCHANGED <<indexed, rows, recorder, folder>>
  BY DEF PutStep
<1>2. ArchiveTypes' /\ RunsInv' /\ RowInv' /\ FilesInv' /\ CountsInv'
  BY <1>1, ArchiveKeeps
<1>3. /\ puts[w].at # "idle"
      /\ \E at \in {"placed", "stored"} : puts' = [puts EXCEPT ![w].at = at]
      /\ visible' \subseteq visible \cup {p} /\ assumed' \subseteq assumed \cup {p}
  BY DEF PutStep, Place, SyncDirectory
<1>4. PICK at \in {"placed", "stored"} : puts' = [puts EXCEPT ![w].at = at]
  BY <1>3
<1>5. at \in PutStates
  BY DEF PutStates
<1>6. puts' = [puts EXCEPT ![w] = [at |-> at, payload |-> p]]
  BY <1>4, <1>5, PutRow
<1>7. p \in Payloads
  BY <1>3 DEF ArchiveInv, StoreTypes
<1>8. StoreTypes'
  <2>1. visible' \subseteq Payloads /\ assumed' \subseteq Payloads /\ indexed' \subseteq Payloads
    BY <1>1, <1>3, <1>7 DEF ArchiveInv, StoreTypes
  <2>2. [at |-> at, payload |-> p].payload \in Payloads
    BY <1>7
  <2>3. StoreTypes
    BY DEF ArchiveInv
  <2> HIDE DEF p
  <2> QED BY <1>6, <2>1, <2>2, <2>3, PutTypes
<1>9. ArchivingInv'
  <2>1. "recorder" \in Writers /\ "recorder" \in DOMAIN puts
    BY DEF Writers, StoreInv
  <2>2. /\ puts'["recorder"].at # "idle" => puts["recorder"].at # "idle"
        /\ puts'["recorder"].payload = puts["recorder"].payload
    <3>1. puts'[w].payload = puts[w].payload /\ \A x \in Writers \ {w} : puts'[x] = puts[x]
      BY <1>6 DEF StoreInv
    <3> QED BY <1>3, <2>1, <3>1
  <2>3. NextRole' = NextRole
    BY <1>1 DEF NextRole
  <2>4. Payload(NextRole)' = Payload(NextRole)
    BY <1>1, <2>3 DEF Payload
  <2> QED BY <1>1, <2>2, <2>4 DEF ArchiveInv, ArchivingInv
<1> QED BY <1>2, <1>8, <1>9 DEF ArchiveInv

(* Another writer's upload leaves the recorder's alone. *)
LEMMA OthersKeep ==
    ASSUME ArchiveInv, StoreInv, NEW w \in Uploaders, NEW row,
           puts' = [puts EXCEPT ![w] = row],
           row.at # "idle" => row.payload \in Payloads,
           visible' = visible, assumed' = assumed, indexed' \subseteq Payloads,
           UNCHANGED <<rows, recorder, folder>>
    PROVE  ArchiveInv'
<1>1. ArchiveTypes' /\ RunsInv' /\ RowInv' /\ FilesInv' /\ CountsInv'
  BY ArchiveKeeps
<1>2. w \in Writers /\ w # "recorder" /\ "recorder" \in Writers
  BY DEF Uploaders, Writers
<1>3. StoreTypes'
  BY <1>2, PutTypes DEF ArchiveInv, StoreTypes
<1>4. puts'["recorder"] = puts["recorder"]
  BY <1>2 DEF StoreInv
<1>5. NextRole' = NextRole
  BY DEF NextRole
<1>6. Payload(NextRole)' = Payload(NextRole)
  BY <1>5 DEF Payload
<1>7. ArchivingInv'
  BY <1>4, <1>6 DEF ArchiveInv, ArchivingInv
<1> QED BY <1>1, <1>3, <1>7 DEF ArchiveInv

LEMMA NextRoleIsRole ==
    ASSUME ArchiveInv, recorder.at = "archive"
    PROVE  NextRole \in Roles /\ Payload(NextRole) \in File
<1>1. recorder.run \in Runs /\ \E n \in 0 .. 2 : Links = Archived(n)
  BY DEF ArchiveInv, RowInv, Running
<1>2. PICK n \in 0 .. 2 : Links = Archived(n)
  BY <1>1
<1>3. n \in 0 .. 3 /\ \A k \in 0 .. 3 : Cardinality(Archived(k)) = k
  BY <1>1, ArchivedCount DEF ArchiveInv
<1>4. NextRole = RoleOrder[n + 1]
  BY <1>2, <1>3 DEF NextRole, Links
<1>5. n + 1 = 1 \/ n + 1 = 2 \/ n + 1 = 3
  OBVIOUS
<1>6. NextRole \in Roles
  BY <1>4, <1>5, RolesInOrder
<1> QED BY <1>1, <1>6, PayloadIsFile DEF ArchiveInv

LEMMA ArchiveActionKeeps ==
    ASSUME ArchiveInv, StoreInv, Archive
    PROVE  ArchiveInv' /\ StoreInv'
<1> DEFINE p == Payload(NextRole)
<1>1. /\ recorder.at = "archive" /\ WriteTemporary("recorder", p)
      /\ UNCHANGED <<indexed, rows, recorder, folder>>
  BY DEF Archive
<1>2. p \in Payloads /\ "recorder" \in Writers
  BY <1>1, NextRoleIsRole DEF Payloads, Writers
<1>3. NextRole' = NextRole
  BY <1>1 DEF NextRole
<1>4. p' = p
  BY <1>1, <1>3 DEF Payload
<1>5. /\ puts' = [puts EXCEPT !["recorder"] = [at |-> "temporary", payload |-> p]]
      /\ UNCHANGED <<visible, durable, assumed>>
  BY <1>1 DEF WriteTemporary
<1>6. StoreInv'
  BY <1>1, <1>2, TemporaryKeeps
<1>7. ArchiveTypes' /\ RunsInv' /\ RowInv' /\ FilesInv' /\ CountsInv'
  BY <1>1, ArchiveKeeps
<1> HIDE DEF p
<1>8. StoreTypes'
  <2>1. [at |-> "temporary", payload |-> p].payload \in Payloads
    BY <1>2
  <2>2. visible' \subseteq Payloads /\ assumed' \subseteq Payloads /\ indexed' \subseteq Payloads
    BY <1>1, <1>5 DEF ArchiveInv, StoreTypes
  <2> QED BY <1>2, <1>5, <2>1, <2>2, PutTypes DEF ArchiveInv
<1>9. puts'["recorder"].payload = p
  BY <1>2, <1>5 DEF StoreInv
<1>10. ArchivingInv'
  <2>1. Payload(NextRole)' = p
    BY <1>4 DEF p
  <2> QED BY <1>1, <1>9, <2>1 DEF ArchivingInv
<1> QED BY <1>6, <1>7, <1>8, <1>10 DEF ArchiveInv

LEMMA StopsKeep ==
    ASSUME ArchiveInv, StoreInv, CloseFails \/ Killed
    PROVE  ArchiveInv' /\ StoreInv'
<1>1. /\ puts' = [puts EXCEPT !["recorder"] = NoPut]
      /\ UNCHANGED <<visible, durable, assumed, indexed, rows, folder>>
  BY DEF CloseFails, Killed
<1>2. "recorder" \in Writers /\ NoPut.at = "idle"
  BY DEF Writers, NoPut
<1>3. StoreInv'
  BY <1>1, <1>2, PutEnds
<1>4. StoreTypes' /\ puts'["recorder"].at = "idle"
  <2>1. puts'["recorder"].at = "idle"
    BY <1>1, <1>2 DEF StoreInv
  <2>2. visible' \subseteq Payloads /\ assumed' \subseteq Payloads /\ indexed' \subseteq Payloads
    BY <1>1 DEF ArchiveInv, StoreTypes
  <2> QED BY <1>1, <1>2, <2>1, <2>2, PutTypes DEF ArchiveInv
<1>5. CASE CloseFails
  <2>1. Closing /\ Running /\ recorder' = [recorder EXCEPT !.at = "ended"]
    BY <1>5 DEF CloseFails, Closing, Running
  <2> QED BY <1>1, <1>3, <1>4, <2>1, StopKeeps
<1>6. CASE Killed
  <2>1. Running /\ recorder' = [recorder EXCEPT !.at = "killed"]
    BY <1>6 DEF Killed, Running
  <2> QED BY <1>1, <1>3, <1>4, <2>1, StopKeeps
<1> QED BY <1>5, <1>6

LEMMA PowerLossArchive ==
    ASSUME ArchiveInv, StoreInv, PowerLoss
    PROVE  ArchiveInv'
<1>1. /\ visible' \subseteq visible
      /\ puts' = [w \in Writers |-> NoPut]
      /\ recorder' = [recorder EXCEPT !.at = IF recorder.at = "ended" THEN recorder.at ELSE "killed"]
      /\ UNCHANGED <<assumed, indexed, rows, folder>>
  BY DEF PowerLoss, StoreInv
<1>2. \A w \in Writers : puts'[w].at = "idle"
  BY <1>1 DEF NoPut
<1>3. "recorder" \in Writers
  BY DEF Writers
<1>4. StoreTypes' /\ puts'["recorder"].at = "idle"
  BY <1>1, <1>2, <1>3 DEF ArchiveInv, StoreTypes
<1>5. CASE Running
  <2>1. recorder' = [recorder EXCEPT !.at = "killed"]
    BY <1>1, <1>5 DEF Running
  <2> QED BY <1>1, <1>4, <1>5, <2>1, StopKeeps
<1>6. CASE ~Running
  <2>1. recorder' = recorder
    BY <1>1, <1>6, RecorderFields DEF ArchiveInv, Running
  <2>2. ArchiveTypes' /\ RunsInv' /\ RowInv' /\ FilesInv' /\ CountsInv'
    BY <1>1, <2>1, ArchiveKeeps
  <2> QED BY <1>4, <2>2 DEF ArchiveInv, ArchivingInv
<1> QED BY <1>5, <1>6

-------------------------------------------------------------------------------
LEMMA StoreStarts == StoreInit => StoreInv /\ ArchiveInv
<1> SUFFICES ASSUME StoreInit PROVE StoreInv /\ ArchiveInv
  OBVIOUS
<1>1. /\ visible = {} /\ durable = {} /\ assumed = {} /\ indexed = {}
      /\ rows = [r \in Runs |-> NoRow]
      /\ puts = [w \in Writers |-> NoPut] /\ recorder = NoRecorder /\ folder = NewFolder
  BY DEF StoreInit
<1>2. puts \in [Writers -> [at : PutStates, payload : Payloads \cup {Nothing}]]
  BY <1>1, NoPutRow
<1>3. \A w \in Writers : puts[w].at = "idle"
  BY <1>1 DEF NoPut
<1>4. StoreInv
  BY <1>1, <1>2, <1>3 DEF StoreInv
<1>5. StoreTypes
  BY <1>1, <1>3 DEF StoreTypes
<1>6. 0 \in 0 .. MaxRuns /\ 0 \in 0 .. MaxEvents
  BY StoreBounds
<1>7. recorder \in RecorderRow
  BY <1>1, <1>6 DEF NoRecorder, RecorderRow
<1>8. folder \in Folder
  BY <1>1 DEF NewFolder, Folder
<1>9. rows \in [Runs -> RowType]
  BY <1>1 DEF NoRow, RowType
<1>10. recorder.run = 0 /\ recorder.at = "ended" /\ recorder.counted = {} /\ folder.log = {}
  BY <1>1 DEF NoRecorder, NewFolder
<1>11. RunsInv
  BY <1>1, <1>10 DEF RunsInv, Runs
<1>12. RowInv
  <2>1. recorder.run \notin Runs
    BY <1>10 DEF Runs
  <2> QED BY <1>10, <2>1 DEF RowInv, Running
<1>13. FilesInv /\ CountsInv /\ ArchivingInv
  <2>1. "recorder" \in Writers
    BY DEF Writers
  <2> QED BY <1>3, <1>10, <2>1 DEF FilesInv, CountsInv, ArchivingInv, Closing, Own
<1> QED BY <1>4, <1>5, <1>7, <1>8, <1>9, <1>11, <1>12, <1>13 DEF ArchiveInv, ArchiveTypes

LEMMA StoreNextKeeps ==
    ASSUME StoreInv, ArchiveInv, [StoreNext]_storeVars
    PROVE  StoreInv' /\ ArchiveInv'
<1>1. ASSUME NEW w \in Writers, PutStep(w)
      PROVE  StoreInv' /\ ArchiveInv'
  BY <1>1, PutStepKeeps, OwnStepKeeps
<1>2. ASSUME NEW w \in Uploaders, NEW u \in Uploads, Receive(w, u)
      PROVE  StoreInv' /\ ArchiveInv'
  <2>1. w \in Writers /\ Uploaded(u) \in Payloads
    BY DEF Uploaders, Uploaded, Payloads, Upload
  <2>2. /\ WriteTemporary(w, Uploaded(u))
        /\ UNCHANGED <<indexed, rows, recorder, folder>>
        /\ puts' = [puts EXCEPT ![w] = [at |-> "temporary", payload |-> Uploaded(u)]]
        /\ UNCHANGED <<visible, assumed>>
    BY <1>2 DEF Receive, WriteTemporary
  <2>3. [at |-> "temporary", payload |-> Uploaded(u)].payload \in Payloads
    BY <2>1
  <2>4. indexed' \subseteq Payloads
    BY <2>2 DEF ArchiveInv, StoreTypes
  <2> HIDE DEF Uploaded
  <2>5. StoreInv'
    BY <2>1, <2>2, TemporaryKeeps
  <2>6. ArchiveInv'
    BY <2>2, <2>3, <2>4, OthersKeep
  <2> QED BY <2>5, <2>6
<1>3. ASSUME NEW w \in Uploaders, Answer(w)
      PROVE  StoreInv' /\ ArchiveInv'
  <2>1. w \in Writers /\ NoPut.at = "idle"
    BY DEF Uploaders, NoPut
  <2>2. /\ Register(w) /\ puts[w].at = "stored"
        /\ indexed' = indexed \cup {puts[w].payload} /\ puts' = [puts EXCEPT ![w] = NoPut]
        /\ UNCHANGED <<visible, assumed, rows, recorder, folder>>
    BY <1>3 DEF Answer, Register
  <2>3. indexed' \subseteq Payloads
    BY <2>1, <2>2 DEF ArchiveInv, StoreTypes
  <2> QED BY <2>1, <2>2, <2>3, RegisterKeeps, OthersKeep
<1>4. ASSUME NEW w \in Uploaders, UploadStops(w)
      PROVE  StoreInv' /\ ArchiveInv'
  <2>1. w \in Writers /\ NoPut.at = "idle"
    BY DEF Uploaders, NoPut
  <2>2. /\ puts' = [puts EXCEPT ![w] = NoPut]
        /\ UNCHANGED <<visible, durable, assumed, indexed, rows, recorder, folder>>
    BY <1>4 DEF UploadStops
  <2>3. indexed' \subseteq Payloads
    BY <2>2 DEF ArchiveInv, StoreTypes
  <2> QED BY <2>1, <2>2, <2>3, PutEnds, OthersKeep
<1>5. CASE (\E s \in StartStatuses, log \in {{}, folder.log} : StartRun(s, log))
              \/ Append \/ AppendFails \/ Count \/ Interrupt
              \/ (\E s \in FinalStatuses : Close(s)) \/ WriteSummary \/ WriteManifest \/ FinishRun
  <2>1. UNCHANGED stored
    BY <1>5 DEF StartRun, Append, AppendFails, Count, Interrupt, Close, WriteSummary,
                WriteManifest, FinishRun, stored
  <2>2. StoreInv'
    BY <2>1 DEF StoreInv, stored, PutOf
  <2>3. ArchiveInv'
    BY <1>5, StartRunKeeps, AppendKeeps, AppendFailsKeeps, CountKeeps, InterruptKeeps,
       CloseKeeps, WriteSummaryKeeps, WriteManifestKeeps, FinishRunKeeps
  <2> QED BY <2>2, <2>3
<1>6. CASE Archive
  BY <1>6, ArchiveActionKeeps
<1>7. CASE Link
  <2>1. "recorder" \in Writers /\ Register("recorder")
    BY <1>7 DEF Link, Writers
  <2> QED BY <1>7, <2>1, RegisterKeeps, LinkKeeps
<1>8. CASE CloseFails \/ Killed
  BY <1>8, StopsKeep
<1>9. CASE PowerLoss
  BY <1>9, PowerLossKeeps, PowerLossArchive
<1>10. CASE UNCHANGED storeVars
  <2>1. UNCHANGED <<rows, recorder, folder, visible, durable, assumed, indexed, puts>>
    BY <1>10 DEF storeVars
  <2>2. StoreInv' /\ StoreTypes'
    BY <2>1 DEF StoreInv, PutOf, ArchiveInv, StoreTypes
  <2>3. NextRole' = NextRole
    BY <2>1 DEF NextRole
  <2>4. Payload(NextRole)' = Payload(NextRole)
    BY <2>1, <2>3 DEF Payload
  <2>5. ArchivingInv'
    BY <2>1, <2>4 DEF ArchiveInv, ArchivingInv
  <2> QED BY <2>1, <2>2, <2>5, ArchiveKeeps DEF ArchiveInv
<1> QED BY <1>1, <1>2, <1>3, <1>4, <1>5, <1>6, <1>7, <1>8, <1>9, <1>10 DEF StoreNext

(* The store and the recorder keep their invariants.                       *)
THEOREM StoreInvariant == StoreSpec => [](StoreInv /\ ArchiveInv)
<1>1. StoreInit => StoreInv /\ ArchiveInv
  BY StoreStarts
<1>2. (StoreInv /\ ArchiveInv) /\ [StoreNext]_storeVars => (StoreInv /\ ArchiveInv)'
  BY StoreNextKeeps
<1> QED BY <1>1, <1>2, PTL DEF StoreSpec

(* The tables, the store, the writers and the recorder have their types.   *)
THEOREM StoreTypeCorrect == StoreSpec => []TypeOK
<1>1. StoreInv /\ ArchiveInv => TypeOK
  <2> SUFFICES ASSUME StoreInv, ArchiveInv PROVE TypeOK
    OBVIOUS
  <2>1. durable \subseteq visible /\ puts \in [Writers -> [at : PutStates, payload : Payloads \cup {Nothing}]]
    BY DEF StoreInv
  <2>2. /\ visible \subseteq Payloads /\ assumed \subseteq Payloads /\ indexed \subseteq Payloads
        /\ recorder \in RecorderRow /\ folder \in Folder /\ rows \in [Runs -> RowType]
    BY DEF ArchiveInv, StoreTypes, ArchiveTypes
  <2> QED BY <2>1, <2>2 DEF TypeOK, RowType
<1> QED BY <1>1, StoreInvariant, PTL

(* Whatever writers, launches and power losses do, an indexed payload is   *)
(* only lost when it was taken as stored before it was durable: put_file   *)
(* returns without a sync when the entry is there.                         *)
THEOREM LossesAreAssumed == StoreSpec => []OnlyAssumedEntriesAreLost
<1>1. StoreInv => OnlyAssumedEntriesAreLost
  BY DEF StoreInv, OnlyAssumedEntriesAreLost, IndexVerifies
<1> QED BY <1>1, StoreInvariant, PTL

(* A run that is shown as ended has its three files, and they agree with   *)
(* its row and with each other (ArchiveAgrees): close seals the files      *)
(* before it archives them and ends the row last, and nothing is logged    *)
(* once it has begun; also in a folder that was used before, whose log     *)
(* holds other runs' events, and for dry runs, whose rows have their last  *)
(* status from the start.                                                  *)
THEOREM ArchivesAgree == StoreSpec => []ArchiveAgrees
<1>1. ArchiveInv => ArchiveAgrees
  <2> SUFFICES ASSUME ArchiveInv, NEW r \in Runs, Ended(r)
               PROVE  /\ Linked(r) = Roles
                      /\ \A p \in rows[r].links : p.role # "events" => p.status = rows[r].status
                      /\ \A e, s \in rows[r].links :
                           e.role = "events" /\ s.role = "summary" =>
                              /\ s.lines \subseteq e.lines \cap EventsOf(r)
                              /\ r = recorder.run =>
                                    /\ e.lines = folder.log
                                    /\ (e.lines \cap EventsOf(r)) \ s.lines \subseteq recorder.missed
    BY DEF ArchiveAgrees
  <2>1. r \in Int /\ recorder.run \in Int
    BY StoreBounds DEF Runs, ArchiveInv, ArchiveTypes, RecorderRow
  <2>2. rows[r] # NoRow
    BY FinalStatusesAssumption DEF Ended, NoRow
  <2>3. ~(r > recorder.run)
    BY <2>2 DEF ArchiveInv, RunsInv
  <2>4. CASE r < recorder.run
    <3>1. EndedWell(r) /\ r # recorder.run
      BY <2>1, <2>4 DEF ArchiveInv, RunsInv
    <3> QED BY <3>1 DEF EndedWell
  <2>5. CASE r = recorder.run
    <3>1. recorder.run \in Runs /\ (Status \notin StartStatuses \/ Finished)
      BY <2>5, FinalStatusesAssumption DEF Ended, Status, Finished, StartStatuses
    <3>2. recorder.at = "ended" /\ Finished
      BY <3>1 DEF ArchiveInv, RowInv, Running
    <3>3. Status = recorder.status /\ Links = Archived(3) /\ Sealed
      BY <3>1, <3>2 DEF ArchiveInv, RowInv
    <3>4. recorder.counted \subseteq Own /\ Own \ recorder.counted \subseteq recorder.missed
      BY <3>2 DEF ArchiveInv, CountsInv
    <3>5. EndedWell(r)
      BY <2>5, <3>1, <3>3, <3>4, ArchivedAgree
    <3> DEFINE m == Payload("manifest")
               ev == Payload("events")
               su == Payload("summary")
    <3>6. rows[r].links = {m, ev, su}
      BY <2>5, <3>3, ArchivedFiles DEF Links
    <3>7. /\ m.role = "manifest" /\ ev.role = "events" /\ su.role = "summary"
          /\ ev.lines = folder.log /\ su.lines = recorder.counted
      BY <3>3, PayloadOf DEF Sealed
    <3> HIDE DEF m, ev, su
    <3>8. \A e, s \in rows[r].links :
             e.role = "events" /\ s.role = "summary" => e = ev /\ s = su
      BY <3>6, <3>7
    <3> QED BY <2>5, <3>4, <3>5, <3>7, <3>8 DEF EndedWell, Own
  <2> QED BY <2>1, <2>3, <2>4, <2>5
<1> QED BY <1>1, StoreInvariant, PTL

-------------------------------------------------------------------------------
(* OptimizationMemory: memories.                                           *)

IsEntry(e) == DOMAIN e \subseteq Techniques /\ e \in [DOMAIN e -> Nat]

IsMemory(m) == DOMAIN m \subseteq Names /\ m = [s \in DOMAIN m |-> m[s]] /\ \A s \in DOMAIN m : IsEntry(m[s])

(* A discovered state has a number below the size of the memory, so the    *)
(* next one to be named after that size is new.                            *)
WellNumbered(m) ==
    /\ IsFiniteSet(DOMAIN m)
    /\ \A d \in DOMAIN m \cap (Bottlenecks \X Nat) : d[2] < Cardinality(DOMAIN m)

(* m agrees with the steps completed, for the shipped states. *)
Counted(m) ==
    /\ DOMAIN Shipped \subseteq DOMAIN m
    /\ \A s \in DOMAIN Shipped : \A t \in DOMAIN m[s] : m[s][t] = steps[<<s, t>>]

(* A write that succeeded left the counts of the shipped states.           *)
SameShipped(m, n) ==
    /\ DOMAIN Shipped \subseteq DOMAIN m
    /\ \A s \in DOMAIN Shipped : m[s] = n[s]

MemoryTypes ==
    /\ IsMemory(memory) /\ WellNumbered(memory)
    /\ disk \notin {Absent, Torn} => IsMemory(disk)
    /\ disk \notin {Absent, Torn} => WellNumbered(disk)
    /\ steps \in [Names \X Techniques -> Nat]
    /\ process \in {"down", "copying", "up"}
    /\ markdown \in BOOLEAN /\ saved \in BOOLEAN

(* No step of a shipped state was completed yet. *)
Fresh == \A s \in DOMAIN Shipped, t \in Techniques : steps[<<s, t>>] = 0

(* The snapshot is missing only before the first process, and torn only    *)
(* while it is copied, unless that copy was cut short.                     *)
DiskInv ==
    /\ process # "up" => memory = NoMemory
    /\ disk = Absent /\ ~markdown => process = "down"
    /\ disk = Absent /\ ~markdown => Fresh
    /\ process = "copying" => disk = Torn /\ Fresh
    /\ "copy" \notin mishaps =>
         /\ process = "up" => DOMAIN memory # {}
         /\ disk \notin {Absent, Torn} => DOMAIN disk # {}
         /\ disk = Torn => process = "copying"

(* Without mishaps the memory, and the snapshot once it is written, count  *)
(* the steps; and while there is no technique, none was ever applied: this *)
(* is why a technique that comes with the name of a state starts at zero.  *)
CountInv ==
    mishaps = {} =>
       /\ process = "up" => Counted(memory)
       /\ process = "up" /\ saved => disk \notin {Absent, Torn} /\ SameShipped(disk, memory)
       /\ process = "down" /\ disk # Absent => Counted(disk)
       /\ process = "up" /\ Pool = {} => Fresh
       /\ process = "down" /\ (disk \in {Absent, Torn} \/ TechniquesOf(disk) = {}) => Fresh

(* A discovered state that a rollout is in need not be known, but its      *)
(* number is one the memory has reached.                                   *)
Settled(m, s) ==
    /\ s \in Names
    /\ s \in Bottlenecks \X Nat => s[2] <= Cardinality(DOMAIN m)

RolloutRow == [at : {"waiting", "planning", "applying", "matching", "recommending",
                     "ended", "collected"},
               state : Names \cup {None}, technique : Techniques \cup {None},
               next : Names \cup {None}, step : Nat]
PolicyRow == [total : Nat, at : {"idle", "evaluating", "updating"}]

TaskTypes ==
    /\ rollout \in [Tasks -> RolloutRow]
    /\ policy \in [Problems -> PolicyRow]
    /\ place \in [Problems -> {"queued", "initializing", "starting", "rolling", "finished"}]

(* Where a rollout stands in the memory. *)
PlacedIn(m, row) ==
    /\ row.at # "waiting" => Settled(m, row.state)
    /\ row.at \in {"applying", "matching", "recommending"} => row.technique \in TechniquesOf(m)
    /\ row.at = "recommending" => Settled(m, row.next)

(* Only a running process has rollouts, and a policy updates the memory    *)
(* only after an empty start.                                              *)
TaskInv ==
    /\ \A r \in Tasks : PlacedIn(memory, rollout[r])
    /\ process # "up" => /\ \A r \in Tasks : rollout[r].at = "waiting"
                         /\ \A p \in Problems : policy[p].at = "idle"
                                                /\ place[p] \in {"queued", "finished"}
    /\ \A p \in Problems : policy[p].at = "updating" => "copy" \in mishaps


-------------------------------------------------------------------------------
(* Memories. *)

LEMMA EntryIs ==
    ASSUME NEW T \in SUBSET Techniques, NEW e \in [T -> Nat]
    PROVE  IsEntry(e) /\ DOMAIN e = T
BY DEF IsEntry

LEMMA MemoryIsNoMark ==
    ASSUME NEW m, IsMemory(m)
    PROVE  m \notin {Absent, Torn}
<1>1. \A s \in DOMAIN m : m[s] \in Entries
  <2> SUFFICES ASSUME NEW s \in DOMAIN m PROVE m[s] \in Entries
    OBVIOUS
  <2>1. DOMAIN m[s] \in SUBSET Techniques /\ m[s] \in [DOMAIN m[s] -> Nat]
    BY DEF IsMemory, IsEntry
  <2> QED BY <2>1 DEF Entries
<1>2. m \in [DOMAIN m -> Entries] /\ DOMAIN m \in SUBSET Names
  BY <1>1 DEF IsMemory
<1> QED BY <1>2, SnapshotAssumption

LEMMA NoMemoryIs ==
    /\ IsMemory(NoMemory) /\ DOMAIN NoMemory = {}
    /\ \A m : IsMemory(m) /\ DOMAIN m = {} => m = NoMemory
BY DEF IsMemory, NoMemory

LEMMA WithIs ==
    ASSUME NEW m, IsMemory(m), NEW s \in Names, NEW e, IsEntry(e)
    PROVE  /\ IsMemory(With(m, s, e)) /\ DOMAIN With(m, s, e) = DOMAIN m \cup {s}
           /\ \A x \in DOMAIN m \ {s} : With(m, s, e)[x] = m[x]
BY DEF With, IsMemory

(* What an update adds to a state. *)
Under(adds, s) == {a[2] : a \in {x \in adds : x[1] = s}}
Named(adds) == {a[1] : a \in adds}

LEMMA AddedIs ==
    ASSUME NEW m, IsMemory(m), NEW adds \in SUBSET (Names \X Techniques)
    PROVE  /\ IsMemory(Added(m, adds)) /\ DOMAIN Added(m, adds) = DOMAIN m \cup Named(adds)
           /\ \A s \in DOMAIN m :
                /\ DOMAIN m[s] \subseteq DOMAIN Added(m, adds)[s]
                /\ \A t \in DOMAIN m[s] : Added(m, adds)[s][t] = m[s][t]
<1> DEFINE old(s) == IF s \in DOMAIN m THEN m[s] ELSE Unused({})
           row(s) == [t \in DOMAIN old(s) \cup Under(adds, s) |->
                        IF t \in DOMAIN old(s) THEN old(s)[t] ELSE 0]
           D == DOMAIN m \cup Named(adds)
<1>1. Added(m, adds) = [s \in D |-> row(s)]
  BY DEF Added, Under, Named
<1>2. \A s : IsEntry(old(s))
  <2>1. IsEntry(Unused({}))
    BY DEF IsEntry, Unused
  <2>2. \A s \in DOMAIN m : IsEntry(m[s])
    BY DEF IsMemory
  <2> QED BY <2>1, <2>2
<1>3. \A s : Under(adds, s) \subseteq Techniques
  BY DEF Under
<1>4. \A s : IsEntry(row(s)) /\ DOMAIN row(s) = DOMAIN old(s) \cup Under(adds, s)
  <2> TAKE s
  <2>1. DOMAIN old(s) \subseteq Techniques /\ \A t \in DOMAIN old(s) : old(s)[t] \in Nat
    BY <1>2 DEF IsEntry
  <2> HIDE DEF old
  <2>2. DOMAIN row(s) = DOMAIN old(s) \cup Under(adds, s)
    OBVIOUS
  <2>3. row(s) \in [DOMAIN old(s) \cup Under(adds, s) -> Nat]
    BY <2>1
  <2> QED BY <1>3, <2>1, <2>2, <2>3 DEF IsEntry
<1>5. D \subseteq Names
  BY DEF IsMemory, Named
<1>6. \A s \in DOMAIN m : old(s) = m[s]
  OBVIOUS
<1>7. \A s \in DOMAIN m : DOMAIN m[s] \subseteq DOMAIN row(s)
                          /\ \A t \in DOMAIN m[s] : row(s)[t] = m[s][t]
  <2> HIDE DEF old
  <2> QED BY <1>6
<1> HIDE DEF row, D
<1>8. IsMemory(Added(m, adds)) /\ DOMAIN Added(m, adds) = D
  BY <1>1, <1>4, <1>5 DEF IsMemory
<1>9. \A s \in DOMAIN m : s \in D
  BY DEF D
<1> QED BY <1>1, <1>7, <1>8, <1>9 DEF D

LEMMA CountedUp ==
    ASSUME NEW m, IsMemory(m), NEW s \in DOMAIN m, NEW t \in DOMAIN m[s]
    PROVE  /\ IsMemory([m EXCEPT ![s][t] = @ + 1])
           /\ DOMAIN [m EXCEPT ![s][t] = @ + 1] = DOMAIN m
           /\ \A x \in DOMAIN m \ {s} : [m EXCEPT ![s][t] = @ + 1][x] = m[x]
           /\ DOMAIN [m EXCEPT ![s][t] = @ + 1][s] = DOMAIN m[s]
           /\ \A u \in DOMAIN m[s] :
                [m EXCEPT ![s][t] = @ + 1][s][u] = IF u = t THEN m[s][t] + 1 ELSE m[s][u]
<1> DEFINE e == [m[s] EXCEPT ![t] = m[s][t] + 1]
<1>1. IsEntry(m[s])
  BY DEF IsMemory
<1>2. DOMAIN e = DOMAIN m[s] /\ IsEntry(e)
      /\ \A u \in DOMAIN m[s] : e[u] = IF u = t THEN m[s][t] + 1 ELSE m[s][u]
  <2>1. m[s] \in [DOMAIN m[s] -> Nat] /\ DOMAIN m[s] \subseteq Techniques
    BY <1>1 DEF IsEntry
  <2>2. e \in [DOMAIN m[s] -> Nat]
    BY <2>1
  <2> QED BY <2>1, <2>2 DEF IsEntry
<1>3. [m EXCEPT ![s][t] = @ + 1] = [m EXCEPT ![s] = e]
  OBVIOUS
<1> HIDE DEF e
<1> QED BY <1>2, <1>3 DEF IsMemory

-------------------------------------------------------------------------------
(* Names. *)

LEMMA NewNameIs ==
    ASSUME WellNumbered(memory), Cardinality(Discovered) < MaxDiscovered, NEW b \in Bottlenecks
    PROVE  /\ NewName(b) \in Names /\ NewName(b) \in Bottlenecks \X Nat
           /\ NewName(b) \notin DOMAIN memory /\ NewName(b) \notin States
<1> DEFINE D == DOMAIN memory
           c == Cardinality(D)
<1>1. IsFiniteSet(D) /\ IsFiniteSet(States)
  BY ShippedAssumption DEF WellNumbered
<1>2. c \in Nat /\ Cardinality(States) \in Nat
  BY <1>1, FS_CardinalityType
<1>3. Cardinality(D \ States) = c - Cardinality(D \cap States)
  BY <1>1, FS_Difference
<1>4. Cardinality(D \cap States) <= Cardinality(States) /\ Cardinality(D \cap States) \in Nat
  <2>1. IsFiniteSet(D \cap States) /\ Cardinality(D \cap States) <= Cardinality(States)
    BY <1>1, FS_Subset
  <2> QED BY <2>1, FS_CardinalityType
<1>5. Cardinality(D \ States) <= MaxDiscovered /\ MaxDiscovered \in Nat
  <2>1. IsFiniteSet(D \ States)
    BY <1>1, FS_Subset
  <2>2. Cardinality(D \ States) \in Nat /\ MaxDiscovered \in Nat
    BY <2>1, FS_CardinalityType, BoundsAssumption
  <2>3. Cardinality(D \ States) < MaxDiscovered
    BY DEF Discovered
  <2> HIDE DEF D
  <2> QED BY <2>2, <2>3
<1> HIDE DEF c, D
<1>6. c \in 0 .. Cardinality(States) + MaxDiscovered
  BY <1>2, <1>3, <1>4, <1>5
<1>7. NewName(b) = <<b, c>>
  BY DEF NewName, c, D
<1>8. <<b, c>> \in Names /\ <<b, c>> \in Bottlenecks \X Nat
  BY <1>2, <1>6 DEF Names
<1>9. <<b, c>> \notin D
  <2>1. \A d \in D \cap (Bottlenecks \X Nat) : d[2] < c
    BY DEF WellNumbered, D, c
  <2>2. <<b, c>>[2] = c /\ ~(c < c)
    BY <1>2
  <2> QED BY <1>8, <2>1, <2>2
<1>10. <<b, c>> \notin States
  BY <1>8, NamesAssumption
<1> QED BY <1>7, <1>8, <1>9, <1>10 DEF D

LEMMA NamesGrow ==
    ASSUME NEW m, NEW n, WellNumbered(m), DOMAIN m \subseteq DOMAIN n,
           DOMAIN n \subseteq DOMAIN m \cup States
    PROVE  WellNumbered(n)
<1>1. IsFiniteSet(DOMAIN m) /\ IsFiniteSet(States)
  BY ShippedAssumption DEF WellNumbered
<1>2. IsFiniteSet(DOMAIN m \cup States)
  BY <1>1, FS_Union
<1>3. IsFiniteSet(DOMAIN n)
  BY <1>2, FS_Subset
<1>4. Cardinality(DOMAIN m) <= Cardinality(DOMAIN n)
  BY <1>3, FS_Subset
<1>5. Cardinality(DOMAIN m) \in Nat /\ Cardinality(DOMAIN n) \in Nat
  BY <1>1, <1>3, FS_CardinalityType
<1>7. \A d \in DOMAIN n \cap (Bottlenecks \X Nat) : d \in DOMAIN m /\ d[2] \in Nat
  BY NamesAssumption
<1>8. \A d \in DOMAIN n \cap (Bottlenecks \X Nat) : d[2] < Cardinality(DOMAIN m)
  BY <1>7 DEF WellNumbered
<1>9. \A d \in DOMAIN n \cap (Bottlenecks \X Nat) : d[2] < Cardinality(DOMAIN n)
  BY <1>4, <1>5, <1>7, <1>8
<1> QED BY <1>3, <1>9 DEF WellNumbered

(* A discovered state whose number the memory has reached. *)
LEMMA NameAdded ==
    ASSUME NEW x \in Bottlenecks \X Nat, NEW m, NEW n, WellNumbered(m), x \notin DOMAIN m,
           x[2] <= Cardinality(DOMAIN m), DOMAIN n = DOMAIN m \cup {x}
    PROVE  WellNumbered(n)
<1> DEFINE D == DOMAIN m
           c == Cardinality(D)
<1>1. IsFiniteSet(D) /\ x \notin D /\ x[2] \in Nat
  BY DEF WellNumbered
<1>2. c \in Nat
  BY <1>1, FS_CardinalityType
<1>3. IsFiniteSet(D \cup {x}) /\ Cardinality(D \cup {x}) = c + 1
  BY <1>1, FS_AddElement
<1>8. \A d \in (D \cup {x}) \cap (Bottlenecks \X Nat) : d[2] < c + 1
  <2>1. \A d \in D \cap (Bottlenecks \X Nat) : d[2] < c /\ d[2] \in Nat
    BY DEF WellNumbered
  <2>2. x[2] <= c /\ x[2] \in Nat
    OBVIOUS
  <2> HIDE DEF c, D
  <2> QED BY <1>2, <2>1, <2>2
<1> QED BY <1>3, <1>8 DEF WellNumbered

MemoryInv == MemoryTypes /\ DiskInv /\ CountInv
LearningInv == MemoryInv /\ TaskTypes /\ TaskInv

(* Nothing that m knows is forgotten by n. *)
Grows(m, n) ==
    \A s \in DOMAIN m :
        /\ s \in DOMAIN n
        /\ \A t \in DOMAIN m[s] : t \in DOMAIN n[s] /\ n[s][t] >= m[s][t]

LEMMA GrowsIfSame ==
    ASSUME NEW m, NEW n, IsMemory(m), DOMAIN m \subseteq DOMAIN n,
           \A s \in DOMAIN m : DOMAIN m[s] \subseteq DOMAIN n[s],
           \A s \in DOMAIN m : \A t \in DOMAIN m[s] : n[s][t] = m[s][t]
    PROVE  Grows(m, n)
<1>1. \A s \in DOMAIN m : \A t \in DOMAIN m[s] : m[s][t] \in Nat
  BY DEF IsMemory, IsEntry
<1>2. \A s \in DOMAIN m : \A t \in DOMAIN m[s] : n[s][t] >= m[s][t]
  BY <1>1
<1> QED BY <1>2 DEF Grows

LEMMA PoolGrows ==
    ASSUME NEW m, NEW n, Grows(m, n)
    PROVE  TechniquesOf(m) \subseteq TechniquesOf(n)
BY DEF Grows, TechniquesOf

(* A step that adds to the memory, and may write the snapshot. *)
LEMMA WriteKeeps ==
    ASSUME MemoryInv, process = "up", UNCHANGED <<process, mishaps, markdown, steps>>,
           IsMemory(memory'), WellNumbered(memory'), Grows(memory, memory'),
           mishaps = {} => \A s \in DOMAIN Shipped : \A t \in DOMAIN memory'[s] :
                               memory'[s][t] = steps[<<s, t>>],
           \/ /\ UNCHANGED <<disk, saved>>
              /\ mishaps = {} => \A s \in DOMAIN Shipped : memory'[s] = memory[s]
           \/ disk' \in {memory', disk} /\ saved' = (disk' = memory')
    PROVE  MemoryInv'
<1>0. DOMAIN memory \subseteq DOMAIN memory'
  BY DEF Grows
<1>1. memory' \notin {Absent, Torn}
  BY MemoryIsNoMark
<1>2. saved' \in BOOLEAN
  BY DEF MemoryInv, MemoryTypes
<1>3. disk' = disk \/ disk' = memory'
  OBVIOUS
<1>4. MemoryTypes'
  <2>1. /\ disk' \notin {Absent, Torn} => IsMemory(disk') /\ WellNumbered(disk')
    BY <1>3 DEF MemoryInv, MemoryTypes
  <2> QED BY <1>2, <2>1 DEF MemoryInv, MemoryTypes
<1>5. DiskInv'
  <2>1. disk' = Absent => disk = Absent
    BY <1>1, <1>3
  <2> QED BY <1>0, <1>1, <1>3, <2>1 DEF MemoryInv, DiskInv
<1>6. CountInv'
  <2> SUFFICES ASSUME mishaps = {} PROVE CountInv'
    BY DEF CountInv
  <2>1. Counted(memory)
    BY DEF MemoryInv, CountInv
  <2>2. Counted(memory)'
    BY <1>0, <2>1 DEF Counted
  <2>3. saved' => disk' \notin {Absent, Torn} /\ SameShipped(disk', memory')
    <3>1. CASE UNCHANGED <<disk, saved>> /\ \A s \in DOMAIN Shipped : memory'[s] = memory[s]
      <4>1. saved => disk \notin {Absent, Torn} /\ SameShipped(disk, memory)
        BY DEF MemoryInv, CountInv
      <4> QED BY <3>1, <4>1 DEF SameShipped
    <3>2. CASE saved' = (disk' = memory')
      BY <1>1, <2>2, <3>2 DEF SameShipped, Counted
    <3> QED BY <3>1, <3>2
  <2>4. Pool' = {} => Fresh'
    <3>1. Pool = {} => Fresh
      BY DEF MemoryInv, CountInv
    <3>2. Pool \subseteq TechniquesOf(memory')
      BY PoolGrows DEF Pool
    <3>3. Fresh => Fresh'
      BY DEF Fresh
    <3> QED BY <3>1, <3>2, <3>3 DEF Pool
  <2> QED BY <2>2, <2>3, <2>4 DEF CountInv
<1> QED BY <1>4, <1>5, <1>6 DEF MemoryInv

(* A step that leaves the shipped states alone. *)
LEMMA GrowthKeeps ==
    ASSUME MemoryInv, process = "up", UNCHANGED <<process, mishaps, markdown, steps>>,
           IsMemory(memory'), WellNumbered(memory'), Grows(memory, memory'),
           mishaps = {} => \A s \in DOMAIN Shipped : memory'[s] = memory[s],
           \/ UNCHANGED <<disk, saved>>
           \/ disk' \in {memory', disk} /\ saved' = (disk' = memory')
    PROVE  MemoryInv'
<1>1. mishaps = {} => \A s \in DOMAIN Shipped : \A t \in DOMAIN memory'[s] :
                        memory'[s][t] = steps[<<s, t>>]
  BY DEF MemoryInv, CountInv, Counted
<1> QED BY <1>1, WriteKeeps

LEMMA SettledGrows ==
    ASSUME NEW m, NEW n, Grows(m, n), IsFiniteSet(DOMAIN n), NEW s, Settled(m, s)
    PROVE  Settled(n, s)
<1>1. DOMAIN m \subseteq DOMAIN n
  BY DEF Grows
<1>2. Cardinality(DOMAIN m) <= Cardinality(DOMAIN n) /\ IsFiniteSet(DOMAIN m)
  BY <1>1, FS_Subset
<1>3. Cardinality(DOMAIN m) \in Nat /\ Cardinality(DOMAIN n) \in Nat
  BY <1>2, FS_CardinalityType
<1>4. s \in Bottlenecks \X Nat => s[2] \in Nat /\ s[2] <= Cardinality(DOMAIN m)
  BY DEF Settled
<1>5. s \in Bottlenecks \X Nat => s[2] <= Cardinality(DOMAIN n)
  BY <1>2, <1>3, <1>4
<1> QED BY <1>5 DEF Settled

LEMMA PlacedGrows ==
    ASSUME NEW m, NEW n, Grows(m, n), IsFiniteSet(DOMAIN n), NEW row, PlacedIn(m, row)
    PROVE  PlacedIn(n, row)
BY SettledGrows, PoolGrows DEF PlacedIn

LEMMA MemoryIsFinite == MemoryInv => IsFiniteSet(DOMAIN memory)
BY DEF MemoryInv, MemoryTypes, WellNumbered

(* A step of one rollout. *)
LEMMA RolloutMoves ==
    ASSUME TaskTypes, TaskInv, process = "up", UNCHANGED <<process, mishaps, place, policy>>,
           Grows(memory, memory'), IsFiniteSet(DOMAIN memory'),
           NEW r \in Tasks, NEW row \in RolloutRow, PlacedIn(memory', row),
           rollout' = [rollout EXCEPT ![r] = row]
    PROVE  TaskTypes' /\ TaskInv'
<1>1. rollout' \in [Tasks -> RolloutRow]
  BY DEF TaskTypes
<1>2. rollout'[r] = row /\ \A q \in Tasks \ {r} : rollout'[q] = rollout[q]
  BY DEF TaskTypes
<1>3. \A q \in Tasks : PlacedIn(memory', rollout[q])
  BY PlacedGrows DEF TaskInv
<1>4. \A q \in Tasks : PlacedIn(memory', rollout'[q])
  BY <1>2, <1>3
<1> QED BY <1>1, <1>4 DEF TaskTypes, TaskInv

(* A step that leaves the rollouts where they are. *)
LEMMA RolloutsStay ==
    ASSUME TaskTypes, TaskInv, process = "up", UNCHANGED <<process, mishaps, rollout>>,
           Grows(memory, memory'), IsFiniteSet(DOMAIN memory'), TaskTypes',
           \A p \in Problems : policy'[p].at = "updating" => "copy" \in mishaps
    PROVE  TaskInv'
<1>3. \A q \in Tasks : PlacedIn(memory', rollout[q])
  BY PlacedGrows DEF TaskInv
<1> QED BY <1>3 DEF TaskInv

LEMMA TasksRun ==
    ASSUME MemoryInv, TaskTypes, TaskInv
    PROVE  /\ \A r \in Tasks : rollout[r].at # "waiting" => process = "up"
           /\ \A p \in Problems : policy[p].at # "idle" \/ place[p] \notin {"queued", "finished"}
                                    => process = "up"
BY DEF TaskInv

LEMMA RolloutFields ==
    ASSUME TaskTypes, NEW r \in Tasks
    PROVE  /\ rollout[r] \in RolloutRow
           /\ rollout[r] = [at |-> rollout[r].at, state |-> rollout[r].state,
                            technique |-> rollout[r].technique, next |-> rollout[r].next,
                            step |-> rollout[r].step]
           /\ rollout[r].state \in Names \cup {None} /\ rollout[r].next \in Names \cup {None}
           /\ rollout[r].technique \in Techniques \cup {None} /\ rollout[r].step \in Nat
BY DEF TaskTypes, RolloutRow

-------------------------------------------------------------------------------
(* The techniques that a plan may name. *)

LEMMA PoolIs ==
    ASSUME IsMemory(memory)
    PROVE  Pool \subseteq Techniques
BY DEF Pool, TechniquesOf, IsMemory, IsEntry

LEMMA ByNameIs ==
    ASSUME NEW s
    PROVE  /\ ByName(s) \subseteq Techniques
           /\ ByName(s) # {} => s \in States \/ s \in Bottlenecks \X Nat
<1>1. CASE s \in Bottlenecks \X Nat
  <2>1. ByName(s) = DefaultsFor[s[1]] /\ s[1] \in Bottlenecks
    BY <1>1, NamesAssumption DEF ByName
  <2> QED BY <1>1, <2>1, DefaultsForAssumption
<1>2. CASE s \notin Bottlenecks \X Nat /\ s \in States
  BY <1>2, DefaultsForAssumption DEF ByName
<1>3. CASE s \notin Bottlenecks \X Nat /\ s \notin States
  BY <1>3 DEF ByName
<1> QED BY <1>1, <1>2, <1>3

(* Classification adds a state or nothing. *)
LEMMA ClassifiedGrows ==
    ASSUME MemoryInv, NEW s \in Answers, Classified(s), process = "up",
           UNCHANGED <<process, mishaps, markdown, steps, disk, saved>>
    PROVE  /\ MemoryInv' /\ Settled(memory', s) /\ Grows(memory, memory')
           /\ IsFiniteSet(DOMAIN memory')
<1>0. IsMemory(memory) /\ WellNumbered(memory)
  BY DEF MemoryInv, MemoryTypes
<1>00. Cardinality(DOMAIN memory) \in Nat
  BY <1>0, FS_CardinalityType DEF WellNumbered
<1>1. CASE s \in States \cup DOMAIN memory /\ UNCHANGED memory
  <2>1. s \in Names
    BY <1>0, <1>1 DEF Names, IsMemory
  <2>2. Settled(memory', s)
    <3> SUFFICES ASSUME s \in Bottlenecks \X Nat PROVE s[2] <= Cardinality(DOMAIN memory')
      BY <2>1 DEF Settled
    <3>1. s \in DOMAIN memory
      BY <1>1, NamesAssumption
    <3>2. s[2] < Cardinality(DOMAIN memory) /\ s[2] \in Nat
      BY <1>0, <3>1 DEF WellNumbered
    <3> QED BY <1>00, <1>1, <3>2
  <2>3. Grows(memory, memory')
    BY <1>0, <1>1, GrowsIfSame
  <2>4. IsMemory(memory') /\ WellNumbered(memory') /\ IsFiniteSet(DOMAIN memory')
    BY <1>0, <1>1 DEF WellNumbered
  <2> QED BY <1>1, <2>2, <2>3, <2>4, GrowthKeeps
<1>2. CASE \E b \in Bottlenecks : s = NewName(b) /\ Discover(b)
  <2>1. PICK b \in Bottlenecks : s = NewName(b) /\ Discover(b)
    BY <1>2
  <2>3. Cardinality(Discovered) < MaxDiscovered
    BY <2>1 DEF Discover
  <2>2. /\ s \in Names /\ s \in Bottlenecks \X Nat /\ s \notin DOMAIN memory
        /\ s[2] = Cardinality(DOMAIN memory)
    <3>1. s[2] = Cardinality(DOMAIN memory)
      BY <2>1 DEF NewName
    <3> QED BY <1>0, <2>1, <2>3, <3>1, NewNameIs
  <2>4. ASSUME NEW e, IsEntry(e), memory' = With(memory, s, e)
        PROVE  /\ MemoryInv' /\ Settled(memory', s) /\ Grows(memory, memory')
               /\ IsFiniteSet(DOMAIN memory')
    <3>1. /\ IsMemory(memory') /\ DOMAIN memory' = DOMAIN memory \cup {s}
          /\ \A x \in DOMAIN memory \ {s} : memory'[x] = memory[x]
      <4>1. /\ IsMemory(With(memory, s, e)) /\ DOMAIN With(memory, s, e) = DOMAIN memory \cup {s}
            /\ \A x \in DOMAIN memory \ {s} : With(memory, s, e)[x] = memory[x]
        <5>1. IsMemory(memory) /\ s \in Names /\ IsEntry(e)
          BY <1>0, <2>2, <2>4, Zenon
        <5> QED BY <5>1, WithIs, Zenon
      <4> QED BY <2>4, <4>1
    <3>2. WellNumbered(memory')
      BY <1>0, <1>00, <2>2, <3>1, NameAdded
    <3>3. \A x \in DOMAIN memory : memory'[x] = memory[x]
      BY <2>2, <3>1
    <3>4. Grows(memory, memory')
      BY <1>0, <3>1, <3>3, GrowsIfSame
    <3>5. mishaps = {} => \A x \in DOMAIN Shipped : memory'[x] = memory[x]
      BY <3>3 DEF MemoryInv, CountInv, Counted
    <3>6. IsFiniteSet(DOMAIN memory')
      BY <3>2 DEF WellNumbered
    <3>7. MemoryInv'
      BY <3>1, <3>2, <3>4, <3>5, GrowthKeeps
    <3>8. Settled(memory', s)
      <4>1. Settled(memory, s)
        BY <1>00, <2>2 DEF Settled
      <4> QED BY <3>4, <3>6, <4>1, SettledGrows
    <3> QED BY <3>4, <3>6, <3>7, <3>8
  <2>5. CASE \E x \in Rich : memory' = With(memory, NewName(b), memory[x])
    <3>1. PICK x \in Rich : memory' = With(memory, NewName(b), memory[x])
      BY <2>5
    <3>2. IsEntry(memory[x])
      BY <1>0 DEF Rich, IsMemory
    <3> QED BY <2>1, <2>4, <3>1, <3>2
  <2>6. CASE memory' = With(memory, NewName(b), Defaults(b))
    <3>1. IsEntry(Defaults(b))
      BY ByBottleneckAssumption DEF Defaults, Unused, IsEntry
    <3> QED BY <2>1, <2>4, <2>6, <3>1
  <2>7. CASE DOMAIN Defaults(b) = {} /\ memory' = memory
    <3>2. Settled(memory', s)
      BY <1>00, <2>2, <2>7 DEF Settled
    <3>3. Grows(memory, memory')
      BY <1>0, <2>7, GrowsIfSame
    <3>4. IsMemory(memory') /\ WellNumbered(memory') /\ IsFiniteSet(DOMAIN memory')
      BY <1>0, <2>7 DEF WellNumbered
    <3> QED BY <2>7, <3>2, <3>3, <3>4, GrowthKeeps
  <2> QED BY <2>1, <2>5, <2>6, <2>7 DEF Discover
<1> QED BY <1>1, <1>2 DEF Classified

(* What no step that is not a launch or a crash may do to the memory. *)
Growing == process = "up" /\ process' = "up" => Grows(memory, memory')

LEMMA SameGrows ==
    ASSUME MemoryInv, UNCHANGED memory
    PROVE  Grows(memory, memory') /\ IsFiniteSet(DOMAIN memory')
BY GrowsIfSame DEF MemoryInv, MemoryTypes, WellNumbered

LEMMA SameKeeps ==
    ASSUME MemoryInv, process = "up",
           UNCHANGED <<process, mishaps, markdown, steps, memory, disk, saved>>
    PROVE  MemoryInv'
BY GrowthKeeps, SameGrows DEF MemoryInv, MemoryTypes

(* The result of a step, recorded or dropped. *)
LEMMA ResultKeeps ==
    ASSUME MemoryInv, process = "up", UNCHANGED <<process, mishaps, markdown>>,
           NEW s \in Names, NEW t \in Pool, Record(s, t),
           steps' = [steps EXCEPT ![<<s, t>>] = @ + 1]
    PROVE  /\ MemoryInv' /\ Grows(memory, memory')
           /\ IsFiniteSet(DOMAIN memory')
<1>0. t \in Techniques
  BY PoolIs DEF MemoryInv, MemoryTypes
<1>1. /\ IsMemory(memory) /\ WellNumbered(memory) /\ steps \in [Names \X Techniques -> Nat]
      /\ disk \notin {Absent, Torn} => IsMemory(disk) /\ WellNumbered(disk)
      /\ process \in {"down", "copying", "up"} /\ markdown \in BOOLEAN /\ saved \in BOOLEAN
  BY DEF MemoryInv, MemoryTypes
<1>2. /\ steps' \in [Names \X Techniques -> Nat]
      /\ \A x \in Names, u \in Techniques :
           steps'[<<x, u>>] = IF x = s /\ u = t THEN steps[<<s, t>>] + 1 ELSE steps[<<x, u>>]
  BY <1>0, <1>1
<1>3. \A x \in DOMAIN memory : x \in Names /\ DOMAIN memory[x] \subseteq Techniques
                               /\ \A u \in DOMAIN memory[x] : memory[x][u] \in Nat
  BY <1>1 DEF IsMemory, IsEntry
<1>4. CASE s \in DOMAIN memory /\ t \in DOMAIN memory[s]
  <2>1. /\ memory' = [memory EXCEPT ![s][t] = @ + 1]
        /\ disk' \in {memory', disk} /\ saved' = (disk' = memory')
    BY <1>4 DEF Record, Persist, Written
  <2>2. /\ IsMemory(memory') /\ DOMAIN memory' = DOMAIN memory
        /\ \A x \in DOMAIN memory \ {s} : memory'[x] = memory[x]
        /\ DOMAIN memory'[s] = DOMAIN memory[s]
        /\ \A u \in DOMAIN memory[s] :
             memory'[s][u] = IF u = t THEN memory[s][t] + 1 ELSE memory[s][u]
    BY <1>1, <1>4, <2>1, CountedUp
  <2>3. memory' \notin {Absent, Torn}
    BY <2>2, MemoryIsNoMark
  <2>4. WellNumbered(memory')
    BY <1>1, <2>2 DEF WellNumbered
  <2>5. Grows(memory, memory')
    <3>1. ASSUME NEW x \in DOMAIN memory, NEW u \in DOMAIN memory[x]
          PROVE  u \in DOMAIN memory'[x] /\ memory'[x][u] >= memory[x][u]
      <4>1. CASE x = s
        BY <1>3, <2>2, <4>1
      <4>2. CASE x # s
        BY <1>3, <2>2, <4>2
      <4> QED BY <4>1, <4>2
    <3> QED BY <2>2, <3>1 DEF Grows
  <2>6. MemoryTypes'
    BY <1>1, <1>2, <2>1, <2>2, <2>4, ZenonT(60) DEF MemoryTypes
  <2>7. DiskInv'
    BY <2>1, <2>2, <2>3 DEF MemoryInv, DiskInv
  <2>8. CountInv'
    <3> SUFFICES ASSUME mishaps = {} PROVE CountInv'
      BY DEF CountInv
    <3>1. Counted(memory)
      BY DEF MemoryInv, CountInv
    <3>2. ASSUME NEW x \in DOMAIN Shipped, NEW u \in DOMAIN memory'[x]
          PROVE  memory'[x][u] = steps'[<<x, u>>]
      <4>1. x \in DOMAIN memory
        BY <3>1 DEF Counted
      <4>2. CASE x = s
        <5>1. u \in DOMAIN memory[s] /\ u \in Techniques /\ memory[s][u] = steps[<<s, u>>]
          BY <1>3, <2>2, <3>1, <4>1, <4>2 DEF Counted
        <5>2. CASE u = t
          BY <1>2, <2>2, <4>2, <5>1, <5>2
        <5>3. CASE u # t
          BY <1>2, <2>2, <4>2, <5>1, <5>3
        <5> QED BY <5>2, <5>3
      <4>3. CASE x # s
        <5>1. memory'[x] = memory[x] /\ x \in Names /\ u \in Techniques
          BY <1>3, <2>2, <4>1, <4>3
        <5>2. memory[x][u] = steps[<<x, u>>]
          BY <3>1, <5>1 DEF Counted
        <5> QED BY <1>2, <4>3, <5>1, <5>2
      <4> QED BY <4>2, <4>3
    <3>3. Counted(memory)' /\ DOMAIN Shipped \subseteq DOMAIN memory'
      BY <2>2, <3>1, <3>2 DEF Counted
    <3>4. saved' => disk' \notin {Absent, Torn} /\ SameShipped(disk', memory')
      BY <2>1, <2>3, <3>3 DEF SameShipped
    <3>5. Pool' # {}
      BY <2>5, PoolGrows DEF Pool
    <3> QED BY <3>3, <3>4, <3>5 DEF CountInv
  <2>9. IsFiniteSet(DOMAIN memory')
    BY <2>4 DEF WellNumbered
  <2> QED BY <2>5, <2>6, <2>7, <2>8, <2>9 DEF MemoryInv
<1>5. CASE ~(s \in DOMAIN memory /\ t \in DOMAIN memory[s])
  <2>1. UNCHANGED <<memory, disk, saved>>
    BY <1>5 DEF Record
  <2>2. MemoryTypes'
    BY <1>1, <1>2, <2>1 DEF MemoryTypes
  <2>3. DiskInv'
    BY <2>1 DEF MemoryInv, DiskInv
  <2>4. CountInv'
    <3> SUFFICES ASSUME mishaps = {} PROVE CountInv'
      BY DEF CountInv
    <3>1. Counted(memory) /\ (saved => disk \notin {Absent, Torn} /\ SameShipped(disk, memory))
      BY DEF MemoryInv, CountInv
    <3>2. ASSUME NEW x \in DOMAIN Shipped, NEW u \in DOMAIN memory[x]
          PROVE  memory[x][u] = steps'[<<x, u>>]
      <4>1. x \in DOMAIN memory /\ memory[x][u] = steps[<<x, u>>]
        BY <3>1 DEF Counted
      <4>2. x \in Names /\ u \in Techniques /\ ~(x = s /\ u = t)
        BY <1>3, <1>5, <4>1
      <4> QED BY <1>2, <4>1, <4>2
    <3>3. Counted(memory)'
      BY <2>1, <3>1, <3>2 DEF Counted
    <3>4. Pool' # {}
      BY <2>1 DEF Pool
    <3> QED BY <2>1, <3>1, <3>3, <3>4 DEF CountInv, SameShipped
  <2> QED BY <2>1, <2>2, <2>3, <2>4, SameGrows DEF MemoryInv
<1> QED BY <1>4, <1>5

LEMMA NextRow ==
    ASSUME NEW at, NEW state, NEW step
    PROVE  [NoRollout EXCEPT !.at = at, !.state = state, !.step = step] =
             [at |-> at, state |-> state, technique |-> None, next |-> None, step |-> step]
<1> DEFINE one == [NoRollout EXCEPT !.at = at]
           two == [one EXCEPT !.state = state]
<1>1. one = [at |-> at, state |-> None, technique |-> None, next |-> None, step |-> 0]
  BY DEF NoRollout
<1>2. [NoRollout EXCEPT !.at = at, !.state = state, !.step = step] = [two EXCEPT !.step = step]
  BY Zenon
<1> HIDE DEF one
<1>3. two = [at |-> at, state |-> state, technique |-> None, next |-> None, step |-> 0]
  BY <1>1
<1> HIDE DEF two
<1> QED BY <1>2, <1>3

(* A step of a rollout is completed. *)
LEMMA CompleteKeeps ==
    ASSUME LearningInv, NEW r \in Tasks,
           rollout[r].at \in {"applying", "matching", "recommending"},
           NEW next, Settled(memory, next), Complete(r, next),
           UNCHANGED <<markdown, process, place, policy, mishaps>>
    PROVE  LearningInv' /\ Growing
<1> DEFINE s == rollout[r].state
           t == rollout[r].technique
           step == rollout[r].step + 1
<1>1. /\ process = "up" /\ s \in Names /\ t \in Pool /\ step \in Nat
      /\ rollout \in [Tasks -> RolloutRow]
  <2>1. PlacedIn(memory, rollout[r])
    BY DEF LearningInv, TaskInv
  <2>2. rollout[r].step \in Nat
    BY RolloutFields DEF LearningInv
  <2> QED BY <2>1, <2>2, TasksRun DEF LearningInv, PlacedIn, Settled, TaskTypes, Pool
<1>2. /\ Record(s, t) /\ steps' = [steps EXCEPT ![<<s, t>>] = @ + 1]
      /\ \E at \in {"planning", "ended"} :
            rollout' = [rollout EXCEPT ![r] = [NoRollout EXCEPT
                               !.at = at, !.state = next, !.step = step]]
  BY DEF Complete
<1> HIDE DEF s, t, step
<1>3. /\ MemoryInv' /\ Grows(memory, memory') /\ IsFiniteSet(DOMAIN memory')
  BY <1>1, <1>2, ResultKeeps DEF LearningInv
<1>4. PICK at \in {"planning", "ended"} :
            rollout' = [rollout EXCEPT ![r] = [NoRollout EXCEPT
                               !.at = at, !.state = next, !.step = step]]
  BY <1>2
<1> DEFINE row == [at |-> at, state |-> next, technique |-> None, next |-> None, step |-> step]
<1>5. rollout' = [rollout EXCEPT ![r] = row]
  <2>1. [NoRollout EXCEPT !.at = at, !.state = next, !.step = step] = row
    BY NextRow
  <2> QED BY <1>4, <2>1
<1>6. row \in RolloutRow
  BY <1>1 DEF RolloutRow, Settled
<1>7. PlacedIn(memory', row)
  <2>1. Settled(memory', next)
    BY <1>3, SettledGrows
  <2> QED BY <2>1 DEF PlacedIn
<1> HIDE DEF row
<1>8. TaskTypes' /\ TaskInv'
  BY <1>1, <1>3, <1>5, <1>6, <1>7, RolloutMoves DEF LearningInv
<1> QED BY <1>3, <1>8 DEF LearningInv, Growing

LEMMA UnclassifiedSettled == Settled(memory, Unclassified)
BY NamesAssumption DEF Settled, Names

LEMMA RowMoved ==
    ASSUME NEW old \in RolloutRow, NEW at
    PROVE  [old EXCEPT !.at = at] = [at |-> at, state |-> old.state, technique |-> old.technique,
                                    next |-> old.next, step |-> old.step]
BY DEF RolloutRow

LEMMA RowMatched ==
    ASSUME NEW old \in RolloutRow, NEW at, NEW x
    PROVE  [old EXCEPT !.at = at, !.next = x] =
             [at |-> at, state |-> old.state, technique |-> old.technique,
              next |-> x, step |-> old.step]
<1> DEFINE moved == [old EXCEPT !.at = at]
<1>1. moved = [at |-> at, state |-> old.state, technique |-> old.technique,
               next |-> old.next, step |-> old.step]
  BY RowMoved
<1>2. [old EXCEPT !.at = at, !.next = x] = [moved EXCEPT !.next = x]
  BY Zenon
<1> HIDE DEF moved
<1>3. [moved EXCEPT !.next = x] = [at |-> at, state |-> old.state, technique |-> old.technique,
                                   next |-> x, step |-> old.step]
  BY <1>1
<1> QED BY <1>2, <1>3

LEMMA RowTaken ==
    ASSUME NEW old \in RolloutRow, NEW at, NEW x
    PROVE  [old EXCEPT !.at = at, !.technique = x] =
             [at |-> at, state |-> old.state, technique |-> x,
              next |-> old.next, step |-> old.step]
<1> DEFINE moved == [old EXCEPT !.at = at]
<1>1. moved = [at |-> at, state |-> old.state, technique |-> old.technique,
               next |-> old.next, step |-> old.step]
  BY RowMoved
<1>2. [old EXCEPT !.at = at, !.technique = x] = [moved EXCEPT !.technique = x]
  BY Zenon
<1> HIDE DEF moved
<1>3. [moved EXCEPT !.technique = x] = [at |-> at, state |-> old.state, technique |-> x,
                                        next |-> old.next, step |-> old.step]
  BY <1>1
<1> QED BY <1>2, <1>3

(* A rollout that only moves on. *)
LEMMA MoveOnKeeps ==
    ASSUME LearningInv, NEW r \in Tasks, rollout[r].at # "waiting",
           NEW at \in {"matching", "ended", "collected"},
           at = "matching" => rollout[r].at = "applying",
           rollout' = [rollout EXCEPT ![r].at = at],
           UNCHANGED <<markdown, process, place, policy, mishaps, steps, memory, disk, saved>>
    PROVE  LearningInv' /\ Growing
<1>1. process = "up"
  BY TasksRun DEF LearningInv
<1> DEFINE old == rollout[r]
           row == [at |-> at, state |-> old.state, technique |-> old.technique,
                   next |-> old.next, step |-> old.step]
<1>2. rollout' = [rollout EXCEPT ![r] = row]
  <2>0. old \in RolloutRow
    BY RolloutFields DEF LearningInv
  <2>1. [old EXCEPT !.at = at] = row
    BY <2>0, RowMoved
  <2>2. rollout' = [rollout EXCEPT ![r] = [old EXCEPT !.at = at]]
    OBVIOUS
  <2> QED BY <2>1, <2>2
<1>3. row \in RolloutRow
  BY RolloutFields DEF LearningInv, RolloutRow
<1>4. PlacedIn(memory', row)
  <2>1. PlacedIn(memory, old)
    BY DEF LearningInv, TaskInv
  <2> QED BY <2>1 DEF PlacedIn
<1> HIDE DEF row
<1>5. MemoryInv' /\ Grows(memory, memory') /\ IsFiniteSet(DOMAIN memory')
  BY <1>1, SameKeeps, SameGrows DEF LearningInv
<1>6. TaskTypes' /\ TaskInv'
  BY <1>1, <1>2, <1>3, <1>4, <1>5, RolloutMoves DEF LearningInv
<1> QED BY <1>5, <1>6 DEF LearningInv, Growing

LEMMA ApplyKeeps == ASSUME LearningInv, NEW r \in Tasks, Apply(r) PROVE LearningInv' /\ Growing
<1>1. rollout[r].at = "applying" /\ UNCHANGED <<markdown, process, place, policy, mishaps>>
  BY DEF Apply
<1>2. CASE Unclassifiable(r)
  BY <1>1, <1>2, UnclassifiedSettled, CompleteKeeps DEF Unclassifiable
<1>3. CASE (Profiled(r) \/ Rejected(r)) /\ UNCHANGED <<memory, disk, saved, steps>>
  <2>1. PICK at \in {"matching", "ended"} : rollout' = [rollout EXCEPT ![r].at = at]
    BY <1>3 DEF Profiled, Rejected, Ending
  <2> QED BY <1>1, <1>3, <2>1, MoveOnKeeps
<1> QED BY <1>2, <1>3 DEF Apply

LEMMA MatchKeeps == ASSUME LearningInv, NEW r \in Tasks, Match(r) PROVE LearningInv' /\ Growing
<1>1. rollout[r].at = "matching" /\ UNCHANGED <<markdown, process, place, policy, mishaps>>
  BY DEF Match
<1>2. CASE Unclassifiable(r)
  BY <1>1, <1>2, UnclassifiedSettled, CompleteKeeps DEF Unclassifiable
<1>3. ASSUME NEW s \in Answers, Classified(s),
             rollout' = [rollout EXCEPT ![r].at = "recommending", ![r].next = s],
             UNCHANGED <<disk, saved, steps>>
      PROVE  LearningInv' /\ Growing
  <2>1. process = "up"
    BY <1>1, TasksRun DEF LearningInv
  <2>2. /\ MemoryInv' /\ Settled(memory', s) /\ Grows(memory, memory')
        /\ IsFiniteSet(DOMAIN memory')
    BY <1>1, <1>3, <2>1, ClassifiedGrows DEF LearningInv
  <2> DEFINE old == rollout[r]
             row == [at |-> "recommending", state |-> old.state, technique |-> old.technique,
                     next |-> s, step |-> old.step]
  <2>3. rollout' = [rollout EXCEPT ![r] = row]
    <3>0. old \in RolloutRow
      BY RolloutFields DEF LearningInv
    <3>1. [old EXCEPT !.at = "recommending", !.next = s] = row
      BY <3>0, RowMatched
    <3>2. rollout' = [rollout EXCEPT ![r] = [old EXCEPT !.at = "recommending", !.next = s]]
      BY <1>3, RolloutFields DEF LearningInv, TaskTypes
    <3> QED BY <3>1, <3>2
  <2>4. s \in Names
    BY <2>2 DEF Settled
  <2>5. row \in RolloutRow
    BY <2>4, RolloutFields DEF LearningInv, RolloutRow
  <2>6. PlacedIn(memory', row)
    <3>1. PlacedIn(memory, old)
      BY DEF LearningInv, TaskInv
    <3>2. Settled(memory, old.state) /\ old.technique \in TechniquesOf(memory)
      BY <1>1, <3>1 DEF PlacedIn
    <3>3. Settled(memory', old.state) /\ old.technique \in TechniquesOf(memory')
      BY <2>2, <3>2, SettledGrows, PoolGrows
    <3> QED BY <2>2, <3>2, <3>3 DEF PlacedIn
  <2> HIDE DEF row
  <2>7. TaskTypes' /\ TaskInv'
    BY <1>1, <2>1, <2>2, <2>3, <2>5, <2>6, RolloutMoves DEF LearningInv
  <2> QED BY <2>2, <2>7 DEF LearningInv, Growing
<1> QED BY <1>2, <1>3 DEF Match

LEMMA RecommendedKeeps ==
    ASSUME LearningInv, NEW r \in Tasks, Recommended(r) PROVE LearningInv' /\ Growing
<1>1. /\ rollout[r].at = "recommending" /\ Complete(r, rollout[r].next)
      /\ UNCHANGED <<markdown, process, place, policy, mishaps>>
  BY DEF Recommended
<1>2. Settled(memory, rollout[r].next)
  BY <1>1 DEF LearningInv, TaskInv, PlacedIn
<1> QED BY <1>1, <1>2, CompleteKeeps

(* A rollout that takes a technique of its own or of another state. *)
LEMMA ApplyingKeeps ==
    ASSUME LearningInv, NEW r \in Tasks, rollout[r].at = "planning",
           NEW t \in Techniques, t \in TechniquesOf(memory'), Applying(r, t),
           MemoryInv', Grows(memory, memory'), IsFiniteSet(DOMAIN memory'),
           UNCHANGED <<process, place, policy, mishaps>>
    PROVE  LearningInv' /\ Growing
<1>1. process = "up" /\ rollout' = [rollout EXCEPT ![r].at = "applying", ![r].technique = t]
  BY TasksRun DEF LearningInv, Applying
<1> DEFINE old == rollout[r]
           row == [at |-> "applying", state |-> old.state, technique |-> t,
                   next |-> old.next, step |-> old.step]
<1>3. rollout' = [rollout EXCEPT ![r] = row]
  <2>0. old \in RolloutRow
    BY RolloutFields DEF LearningInv
  <2>1. [old EXCEPT !.at = "applying", !.technique = t] = row
    BY <2>0, RowTaken
  <2>2. rollout' = [rollout EXCEPT ![r] = [old EXCEPT !.at = "applying", !.technique = t]]
    BY <1>1, RolloutFields DEF LearningInv, TaskTypes
  <2> QED BY <2>1, <2>2
<1>4. row \in RolloutRow
  BY RolloutFields DEF LearningInv, RolloutRow
<1>5. PlacedIn(memory', row)
  <2>1. PlacedIn(memory, old)
    BY DEF LearningInv, TaskInv
  <2>2. Settled(memory', old.state)
    BY <2>1, SettledGrows DEF PlacedIn
  <2> QED BY <2>2 DEF PlacedIn
<1> HIDE DEF row
<1>6. TaskTypes' /\ TaskInv'
  BY <1>1, <1>3, <1>4, <1>5, RolloutMoves DEF LearningInv
<1> QED BY <1>6 DEF LearningInv, Growing

LEMMA PlanKeeps == ASSUME LearningInv, NEW r \in Tasks, Plan(r) PROVE LearningInv' /\ Growing
<1> DEFINE s == rollout[r].state
<1>1. /\ rollout[r].at = "planning"
      /\ UNCHANGED <<markdown, process, place, policy, steps, mishaps>>
  BY DEF Plan
<1>2. process = "up" /\ IsMemory(memory) /\ WellNumbered(memory)
  BY <1>1, TasksRun DEF LearningInv, MemoryInv, MemoryTypes
<1>3. Settled(memory, s)
  BY <1>1 DEF LearningInv, TaskInv, PlacedIn
<1>4. CASE (\E t \in Pool : Applying(r, t)) /\ UNCHANGED <<memory, disk, saved>>
  <2>1. PICK t \in Pool : Applying(r, t)
    BY <1>4
  <2>2. t \in Techniques /\ t \in TechniquesOf(memory')
    BY <1>2, <1>4, PoolIs DEF Pool
  <2>3. MemoryInv' /\ Grows(memory, memory') /\ IsFiniteSet(DOMAIN memory')
    BY <1>1, <1>2, <1>4, SameKeeps, SameGrows DEF LearningInv
  <2> QED BY <1>1, <2>1, <2>2, <2>3, ApplyingKeeps
<1>5. CASE /\ Pool = {} /\ memory' = Added(memory, {s} \X ByName(s))
           /\ (\E t \in ByName(s) : Applying(r, t)) /\ Persist(memory')
  <2>1. PICK t \in ByName(s) : Applying(r, t)
    BY <1>5
  <2>2. t \in Techniques /\ ByName(s) \subseteq Techniques
    BY ByNameIs
  <2>3. s \in Names /\ (s \in States \/ s \in Bottlenecks \X Nat)
    BY <1>3, <2>1, ByNameIs DEF Settled
  <2> DEFINE adds == {s} \X ByName(s)
  <2>4. /\ adds \in SUBSET (Names \X Techniques) /\ Named(adds) = {s}
        /\ Under(adds, s) = ByName(s)
    <3>2. \A a \in adds : a[1] = s /\ a[2] \in ByName(s)
      OBVIOUS
    <3>3. \A u \in ByName(s) : <<s, u>> \in adds /\ <<s, u>>[1] = s /\ <<s, u>>[2] = u
      OBVIOUS
    <3>5. adds \in SUBSET (Names \X Techniques)
      BY <2>2, <2>3
    <3> HIDE DEF adds
    <3>1. Named(adds) = {s}
      <4>1. <<s, t>> \in adds /\ <<s, t>>[1] = s
        BY <2>1, <3>3
      <4>2. s \in Named(adds)
        BY <4>1, Zenon DEF Named
      <4>3. \A x \in Named(adds) : x = s
        BY <3>2, Zenon DEF Named
      <4> QED BY <4>2, <4>3
    <3>4. Under(adds, s) = ByName(s)
      <4>1. \A u \in Under(adds, s) : u \in ByName(s)
        BY <3>2, Zenon DEF Under
      <4>2. ASSUME NEW u \in ByName(s) PROVE u \in Under(adds, s)
        <5>1. <<s, u>> \in {x \in adds : x[1] = s} /\ <<s, u>>[2] = u
          BY <3>3
        <5> QED BY <5>1, Zenon DEF Under
      <4> QED BY <4>1, <4>2
    <3> QED BY <3>1, <3>4, <3>5
  <2>5. memory' = Added(memory, adds)
    BY <1>5
  <2> HIDE DEF adds
  <2>6. /\ IsMemory(memory') /\ DOMAIN memory' = DOMAIN memory \cup {s}
        /\ \A x \in DOMAIN memory :
             /\ DOMAIN memory[x] \subseteq DOMAIN memory'[x]
             /\ \A u \in DOMAIN memory[x] : memory'[x][u] = memory[x][u]
    <3>1. /\ IsMemory(Added(memory, adds)) /\ DOMAIN Added(memory, adds) = DOMAIN memory \cup Named(adds)
          /\ \A x \in DOMAIN memory :
               /\ DOMAIN memory[x] \subseteq DOMAIN Added(memory, adds)[x]
               /\ \A u \in DOMAIN memory[x] : Added(memory, adds)[x][u] = memory[x][u]
      BY <1>2, <2>4, AddedIs
    <3> QED BY <2>4, <2>5, <3>1
  <2>7. Grows(memory, memory')
    BY <1>2, <2>6, GrowsIfSame
  <2>8. WellNumbered(memory') /\ IsFiniteSet(DOMAIN memory')
    <3>1. CASE s \in States
      <4>1. DOMAIN memory \subseteq DOMAIN memory' /\ DOMAIN memory' \subseteq DOMAIN memory \cup States
        BY <2>6, <3>1
      <4>2. WellNumbered(memory')
        BY <1>2, <4>1, NamesGrow
      <4> QED BY <4>2 DEF WellNumbered
    <3>2. CASE s \in DOMAIN memory
      BY <1>2, <2>6, <3>2 DEF WellNumbered
    <3>3. CASE s \in Bottlenecks \X Nat /\ s \notin DOMAIN memory
      <4>1. s[2] <= Cardinality(DOMAIN memory)
        BY <1>3, <3>3 DEF Settled
      <4>2. WellNumbered(memory')
        BY <1>2, <2>6, <3>3, <4>1, NameAdded
      <4> QED BY <4>2 DEF WellNumbered
    <3> QED BY <2>3, <3>1, <3>2, <3>3
  <2>9. \A x \in DOMAIN memory' : \A u \in DOMAIN memory'[x] : memory'[x][u] = 0
    <3>1. \A x \in DOMAIN memory : DOMAIN memory[x] = {}
      BY <1>5 DEF Pool, TechniquesOf
    <3> DEFINE had(x) == IF x \in DOMAIN memory THEN memory[x] ELSE Unused({})
    <3>2. \A x : DOMAIN had(x) = {}
      BY <3>1 DEF Unused
    <3>3. Added(memory, adds) =
            [x \in DOMAIN memory \cup Named(adds) |->
               [u \in DOMAIN had(x) \cup Under(adds, x) |->
                  IF u \in DOMAIN had(x) THEN had(x)[u] ELSE 0]]
      BY DEF Added, Under, Named
    <3> HIDE DEF had
    <3> QED BY <2>5, <3>2, <3>3
  <2>10. t \in TechniquesOf(memory')
    <3>1. memory'[s] = [u \in DOMAIN (IF s \in DOMAIN memory THEN memory[s] ELSE Unused({}))
                              \cup Under(adds, s) |->
                          IF u \in DOMAIN (IF s \in DOMAIN memory THEN memory[s] ELSE Unused({}))
                          THEN (IF s \in DOMAIN memory THEN memory[s] ELSE Unused({}))[u] ELSE 0]
      BY <2>4, <2>5 DEF Added, Under, Named
    <3>2. t \in DOMAIN memory'[s]
      BY <2>1, <2>4, <3>1
    <3> QED BY <2>6, <3>2 DEF TechniquesOf
  <2>11. disk' \in {memory', disk} /\ saved' = (disk' = memory')
    BY <1>5 DEF Persist, Written
  <2>12. MemoryInv'
    <3>1. ASSUME mishaps = {}, NEW x \in DOMAIN Shipped, NEW u \in DOMAIN memory'[x]
          PROVE  memory'[x][u] = steps[<<x, u>>]
      <4>1. Fresh /\ DOMAIN Shipped \subseteq DOMAIN memory
        BY <1>2, <1>5, <3>1 DEF LearningInv, MemoryInv, CountInv, Counted
      <4>2. x \in DOMAIN memory' /\ u \in Techniques
        BY <2>6, <4>1 DEF IsMemory, IsEntry
      <4>3. memory'[x][u] = 0
        BY <2>9, <4>2
      <4> QED BY <4>1, <4>2, <4>3 DEF Fresh
    <3> QED BY <1>1, <1>2, <2>6, <2>7, <2>8, <2>11, <3>1, WriteKeeps DEF LearningInv
  <2> QED BY <1>1, <2>1, <2>2, <2>7, <2>8, <2>10, <2>12, ApplyingKeeps
<1>6. CASE Ending(r) /\ UNCHANGED <<memory, disk, saved>>
  <2>1. rollout' = [rollout EXCEPT ![r].at = "ended"]
    BY <1>6 DEF Ending
  <2> QED BY <1>1, <1>6, <2>1, MoveOnKeeps
<1> QED BY <1>4, <1>5, <1>6 DEF Plan

(* A problem or its policy moves on while the rollouts stay. *)
LEMMA PlaceMoves ==
    ASSUME TaskTypes, TaskInv, process = "up", UNCHANGED <<process, mishaps, rollout, policy>>,
           Grows(memory, memory'), IsFiniteSet(DOMAIN memory'), NEW p \in Problems,
           NEW at \in {"queued", "initializing", "starting", "rolling", "finished"},
           place' = [place EXCEPT ![p] = at]
    PROVE  TaskTypes' /\ TaskInv'
<1>1. TaskTypes'
  BY DEF TaskTypes
<1>2. \A q \in Problems : policy'[q].at = "updating" => "copy" \in mishaps
  BY DEF TaskInv
<1> QED BY <1>1, <1>2, RolloutsStay

LEMMA PolicyMoves ==
    ASSUME TaskTypes, TaskInv, process = "up", UNCHANGED <<process, mishaps, rollout, place>>,
           Grows(memory, memory'), IsFiniteSet(DOMAIN memory'), NEW p \in Problems,
           NEW at \in {"idle", "evaluating", "updating"},
           at = "updating" => "copy" \in mishaps,
           policy' = [policy EXCEPT ![p].at = at]
    PROVE  TaskTypes' /\ TaskInv'
<1>1. policy'[p].at = at /\ \A q \in Problems \ {p} : policy'[q] = policy[q]
  BY DEF TaskTypes, PolicyRow
<1>2. TaskTypes'
  BY DEF TaskTypes, PolicyRow
<1>3. \A q \in Problems : policy'[q].at = "updating" => "copy" \in mishaps
  BY <1>1 DEF TaskInv
<1> QED BY <1>2, <1>3, RolloutsStay

LEMMA StartRow ==
    ASSUME NEW s
    PROVE  [NoRollout EXCEPT !.at = "planning", !.state = s] =
             [at |-> "planning", state |-> s, technique |-> None, next |-> None, step |-> 0]
<1> DEFINE one == [NoRollout EXCEPT !.at = "planning"]
<1>1. one = [at |-> "planning", state |-> None, technique |-> None, next |-> None, step |-> 0]
  BY DEF NoRollout
<1>2. [NoRollout EXCEPT !.at = "planning", !.state = s] = [one EXCEPT !.state = s]
  BY Zenon
<1> HIDE DEF one
<1>3. [one EXCEPT !.state = s] =
        [at |-> "planning", state |-> s, technique |-> None, next |-> None, step |-> 0]
  BY <1>1
<1> QED BY <1>2, <1>3

LEMMA BeginKeeps ==
    ASSUME TaskTypes, TaskInv, process = "up", UNCHANGED <<process, mishaps, policy>>,
           Grows(memory, memory'), IsFiniteSet(DOMAIN memory'), NEW p \in Problems, NEW s,
           Settled(memory', s), Begin(p, s)
    PROVE  TaskTypes' /\ TaskInv'
<1> DEFINE row == [at |-> "planning", state |-> s, technique |-> None, next |-> None, step |-> 0]
<1>1. /\ place' = [place EXCEPT ![p] = "rolling"]
      /\ rollout' = [r \in Tasks |-> IF r[1] = p THEN row ELSE rollout[r]]
  BY StartRow DEF Begin
<1>2. row \in RolloutRow /\ PlacedIn(memory', row)
  BY DEF RolloutRow, Settled, PlacedIn
<1> HIDE DEF row
<1>3. TaskTypes'
  BY <1>1, <1>2 DEF TaskTypes
<1>4. \A r \in Tasks : PlacedIn(memory', rollout[r])
  BY PlacedGrows DEF TaskInv
<1>5. \A r \in Tasks : PlacedIn(memory', rollout'[r])
  BY <1>1, <1>2, <1>4
<1> QED BY <1>3, <1>5 DEF TaskInv

LEMMA ProblemKeeps ==
    ASSUME LearningInv, NEW p \in Problems, StartProblem(p) \/ Initialized(p) \/ StartRollouts(p)
    PROVE  LearningInv' /\ Growing
<1>1. process = "up" /\ UNCHANGED <<process, mishaps, markdown, steps, disk, saved, policy>>
  <2>1. process = "up"
    BY TasksRun DEF LearningInv, StartProblem, Initialized, StartRollouts
  <2> QED BY <2>1 DEF StartProblem, Initialized, StartRollouts, files, history
<1>2. CASE StartProblem(p)
  <2>1. UNCHANGED memory
    BY <1>2 DEF StartProblem
  <2>2. MemoryInv' /\ Grows(memory, memory') /\ IsFiniteSet(DOMAIN memory')
    BY <1>1, <2>1, SameKeeps, SameGrows DEF LearningInv
  <2>3. CASE place' = [place EXCEPT ![p] = "initializing"] /\ UNCHANGED rollout
    BY <1>1, <2>2, <2>3, PlaceMoves DEF LearningInv, Growing
  <2>4. CASE Begin(p, Unclassified)
    <3>1. Settled(memory', Unclassified)
      BY NamesAssumption DEF Settled, Names
    <3> QED BY <1>1, <2>2, <2>4, <3>1, BeginKeeps DEF LearningInv, Growing
  <2> QED BY <1>2, <2>3, <2>4 DEF StartProblem
<1>3. CASE Initialized(p)
  <2>1. PICK s \in Answers : Classified(s)
    BY <1>3 DEF Initialized
  <2>2. MemoryInv' /\ Grows(memory, memory') /\ IsFiniteSet(DOMAIN memory')
    BY <1>1, <2>1, ClassifiedGrows DEF LearningInv
  <2>3. place' = [place EXCEPT ![p] = "starting"] /\ UNCHANGED rollout
    BY <1>3 DEF Initialized
  <2> QED BY <1>1, <2>2, <2>3, PlaceMoves DEF LearningInv, Growing
<1>4. CASE StartRollouts(p)
  <2>1. PICK s \in Answers : Classified(s) /\ Begin(p, s)
    BY <1>4 DEF StartRollouts
  <2>2. /\ MemoryInv' /\ Grows(memory, memory') /\ IsFiniteSet(DOMAIN memory')
        /\ Settled(memory', s)
    BY <1>1, <2>1, ClassifiedGrows DEF LearningInv
  <2> QED BY <1>1, <2>1, <2>2, BeginKeeps DEF LearningInv, Growing
<1> QED BY <1>2, <1>3, <1>4

LEMMA CollectKeeps == ASSUME LearningInv, NEW r \in Tasks, Collect(r) PROVE LearningInv' /\ Growing
<1> DEFINE p == r[1]
           total == policy[p].total + 1
           due == total % UpdateFrequency = 0
           at == IF due /\ total >= Enough THEN "evaluating" ELSE "idle"
<1>1. /\ rollout[r].at = "ended"
      /\ rollout' = [rollout EXCEPT ![r].at = "collected"]
      /\ policy' = [policy EXCEPT ![p] = [total |-> total, at |-> at]]
      /\ UNCHANGED <<disk, markdown, process, memory, place, steps, saved, mishaps>>
  BY DEF Collect, files, history
<1>2. p \in Problems /\ total \in Nat /\ at \in {"idle", "evaluating"}
  BY DEF Tasks, LearningInv, TaskTypes, PolicyRow
<1> HIDE DEF total, due, at, p
<1>3. process = "up"
  BY <1>1, TasksRun DEF LearningInv
<1>4. MemoryInv' /\ Grows(memory, memory') /\ IsFiniteSet(DOMAIN memory')
  BY <1>1, <1>3, SameKeeps, SameGrows DEF LearningInv
<1> DEFINE old == rollout[r]
           row == [at |-> "collected", state |-> old.state, technique |-> old.technique,
                   next |-> old.next, step |-> old.step]
<1>5. rollout' = [rollout EXCEPT ![r] = row]
  <2>0. old \in RolloutRow
    BY RolloutFields DEF LearningInv
  <2>1. [old EXCEPT !.at = "collected"] = row
    BY <2>0, RowMoved
  <2>2. rollout' = [rollout EXCEPT ![r] = [old EXCEPT !.at = "collected"]]
    BY <1>1
  <2> QED BY <2>1, <2>2
<1>6. row \in RolloutRow
  BY RolloutFields DEF LearningInv, RolloutRow
<1>7. PlacedIn(memory, row)
  <2>1. PlacedIn(memory, old)
    BY DEF LearningInv, TaskInv
  <2> QED BY <1>1, <2>1 DEF PlacedIn
<1> HIDE DEF row
<1>8. TaskTypes'
  BY <1>1, <1>2, <1>5, <1>6 DEF LearningInv, TaskTypes, PolicyRow
<1>9. \A q \in Tasks : PlacedIn(memory, rollout'[q])
  BY <1>5, <1>7 DEF LearningInv, TaskTypes, TaskInv
<1>10. \A q \in Problems : policy'[q].at = "updating" => "copy" \in mishaps
  BY <1>1, <1>2 DEF LearningInv, TaskTypes, TaskInv
<1>11. TaskInv'
  BY <1>1, <1>3, <1>9, <1>10 DEF TaskInv
<1> QED BY <1>4, <1>8, <1>11 DEF LearningInv, Growing

LEMMA AnalyzeKeeps == ASSUME LearningInv, NEW p \in Problems, Analyze(p) PROVE LearningInv' /\ Growing
<1>1. /\ policy[p].at = "evaluating"
      /\ policy' = [policy EXCEPT ![p].at = IF UpdateRaises THEN "idle" ELSE "updating"]
      /\ UNCHANGED <<disk, markdown, process, memory, place, rollout, steps, saved, mishaps>>
  BY DEF Analyze, files, history
<1>2. process = "up"
  BY <1>1, TasksRun DEF LearningInv
<1>3. MemoryInv' /\ Grows(memory, memory') /\ IsFiniteSet(DOMAIN memory')
  BY <1>1, <1>2, SameKeeps, SameGrows DEF LearningInv
<1>4. ~UpdateRaises => "copy" \in mishaps
  BY <1>2, NoMemoryIs DEF UpdateRaises, LearningInv, MemoryInv, DiskInv
<1>5. TaskTypes' /\ TaskInv'
  <2>1. CASE UpdateRaises
    BY <1>1, <1>2, <1>3, <2>1, PolicyMoves DEF LearningInv
  <2>2. CASE ~UpdateRaises
    BY <1>1, <1>2, <1>3, <1>4, <2>2, PolicyMoves DEF LearningInv
  <2> QED BY <2>1, <2>2
<1> QED BY <1>3, <1>5 DEF LearningInv, Growing

LEMMA UpdateKeeps == ASSUME LearningInv, NEW p \in Problems, Update(p) PROVE LearningInv' /\ Growing
<1>1. /\ policy[p].at = "updating" /\ policy' = [policy EXCEPT ![p].at = "idle"]
      /\ UNCHANGED <<markdown, process, place, rollout, steps, mishaps>>
  BY DEF Update
<1>2. process = "up" /\ "copy" \in mishaps /\ IsMemory(memory) /\ WellNumbered(memory)
  BY <1>1, TasksRun DEF LearningInv, TaskInv, MemoryInv, MemoryTypes
<1>3. MemoryInv' /\ Grows(memory, memory')
  <2>1. CASE UNCHANGED <<memory, disk, saved>>
    BY <1>1, <1>2, <2>1, SameKeeps, SameGrows DEF LearningInv
  <2>2. CASE \E adds \in Requests : memory' = Added(memory, adds) /\ Persist(memory')
    <3>1. PICK adds \in Requests : memory' = Added(memory, adds) /\ Persist(memory')
      BY <2>2
    <3>2. adds \in SUBSET (Names \X Techniques) /\ Named(adds) \subseteq States
      BY RequestsAssumption DEF Names, Named
    <3>3. /\ IsMemory(Added(memory, adds))
          /\ DOMAIN Added(memory, adds) = DOMAIN memory \cup Named(adds)
          /\ \A s \in DOMAIN memory :
               /\ DOMAIN memory[s] \subseteq DOMAIN Added(memory, adds)[s]
               /\ \A t \in DOMAIN memory[s] : Added(memory, adds)[s][t] = memory[s][t]
      BY <1>2, <3>2, AddedIs
    <3>4. /\ IsMemory(memory') /\ DOMAIN memory' = DOMAIN memory \cup Named(adds)
          /\ \A s \in DOMAIN memory :
               /\ DOMAIN memory[s] \subseteq DOMAIN memory'[s]
               /\ \A t \in DOMAIN memory[s] : memory'[s][t] = memory[s][t]
      BY <3>1, <3>3
    <3>5. /\ DOMAIN memory \subseteq DOMAIN memory'
          /\ DOMAIN memory' \subseteq DOMAIN memory \cup States
      BY <3>2, <3>4
    <3>6. Grows(memory, memory')
      BY <1>2, <3>4, <3>5, GrowsIfSame
    <3>7. WellNumbered(memory')
      BY <1>2, <3>5, NamesGrow
    <3>8. disk' \in {memory', disk} /\ saved' = (disk' = memory')
      BY <3>1 DEF Persist, Written
    <3>9. mishaps # {}
      BY <1>2
    <3>10. MemoryInv'
      BY <1>1, <1>2, <3>4, <3>6, <3>7, <3>8, <3>9, GrowthKeeps DEF LearningInv
    <3> QED BY <3>6, <3>10
  <2> QED BY <2>1, <2>2 DEF Update
<1>4. IsFiniteSet(DOMAIN memory')
  BY <1>3 DEF MemoryInv, MemoryTypes, WellNumbered
<1>5. TaskTypes' /\ TaskInv'
  BY <1>1, <1>2, <1>3, <1>4, PolicyMoves DEF LearningInv
<1> QED BY <1>3, <1>5 DEF LearningInv, Growing

LEMMA FinishKeeps ==
    ASSUME LearningInv, NEW p \in Problems, FinishProblem(p)
    PROVE  LearningInv' /\ Growing
<1>1. /\ place[p] = "rolling" /\ place' = [place EXCEPT ![p] = "finished"]
      /\ disk' \in {memory, disk} /\ saved' = (disk' = memory)
      /\ UNCHANGED <<markdown, process, memory, rollout, policy, steps, mishaps>>
  BY DEF FinishProblem, Persist, Written
<1>2. process = "up" /\ IsMemory(memory) /\ WellNumbered(memory)
  BY <1>1, TasksRun DEF LearningInv, MemoryInv, MemoryTypes
<1>3. Grows(memory, memory') /\ IsFiniteSet(DOMAIN memory')
  BY <1>1, SameGrows DEF LearningInv
<1>4. IsMemory(memory') /\ WellNumbered(memory')
  BY <1>1, <1>2
<1>5. MemoryInv'
  BY <1>1, <1>2, <1>3, <1>4, GrowthKeeps DEF LearningInv
<1>6. TaskTypes' /\ TaskInv'
  BY <1>1, <1>2, <1>3, PlaceMoves DEF LearningInv
<1> QED BY <1>3, <1>5, <1>6 DEF LearningInv, Growing

-------------------------------------------------------------------------------
(* Memories a process may start with. *)

LEMMA EmptyNumbered == WellNumbered(NoMemory)
<1>1. IsFiniteSet({}) /\ Cardinality({}) = 0
  BY FS_EmptySet
<1>2. DOMAIN NoMemory = {} /\ {} \ States = {}
  BY NoMemoryIs
<1> QED BY <1>1, <1>2 DEF WellNumbered

LEMMA ShippedIs ==
    /\ IsMemory(Shipped) /\ WellNumbered(Shipped)
    /\ \A s \in DOMAIN Shipped : \A t \in DOMAIN Shipped[s] : t \in Techniques /\ Shipped[s][t] = 0
<1>1. \A s \in DOMAIN Shipped : IsEntry(Shipped[s])
                                /\ \A t \in DOMAIN Shipped[s] : Shipped[s][t] = 0
  <2> SUFFICES ASSUME NEW s \in DOMAIN Shipped
               PROVE  IsEntry(Shipped[s]) /\ \A t \in DOMAIN Shipped[s] : Shipped[s][t] = 0
    OBVIOUS
  <2>1. PICK T \in SUBSET Techniques : Shipped[s] \in [T -> {0}]
    BY ShippedAssumption
  <2> QED BY <2>1 DEF IsEntry
<1>2. DOMAIN Shipped \subseteq States /\ States \subseteq Names
      /\ Shipped = [s \in DOMAIN Shipped |-> Shipped[s]]
  BY ShippedAssumption DEF Names
<1>3. IsMemory(Shipped)
  BY <1>1, <1>2 DEF IsMemory
<1>4. WellNumbered(Shipped)
  <2>1. DOMAIN NoMemory \subseteq DOMAIN Shipped /\ DOMAIN Shipped \subseteq DOMAIN NoMemory \cup States
    BY <1>2, NoMemoryIs
  <2> QED BY <2>1, EmptyNumbered, NamesGrow
<1> QED BY <1>1, <1>3, <1>4 DEF IsEntry

LEMMA FromMarkdownIs ==
    /\ IsMemory(FromMarkdown) /\ WellNumbered(FromMarkdown)
    /\ DOMAIN FromMarkdown = DOMAIN Shipped
    /\ \A s \in DOMAIN Shipped : DOMAIN FromMarkdown[s] = {}
<1>1. IsEntry(Unused({})) /\ DOMAIN Unused({}) = {}
  BY DEF IsEntry, Unused
<1>2. DOMAIN FromMarkdown = DOMAIN Shipped /\ \A s \in DOMAIN Shipped : FromMarkdown[s] = Unused({})
  BY DEF FromMarkdown
<1>3. DOMAIN Shipped \subseteq States /\ States \subseteq Names
  BY ShippedAssumption DEF Names
<1>4. FromMarkdown = [s \in DOMAIN FromMarkdown |-> FromMarkdown[s]]
  BY DEF FromMarkdown
<1>5. IsMemory(FromMarkdown)
  BY <1>1, <1>2, <1>3, <1>4 DEF IsMemory
<1>6. WellNumbered(FromMarkdown)
  <2>1. /\ DOMAIN NoMemory \subseteq DOMAIN FromMarkdown
        /\ DOMAIN FromMarkdown \subseteq DOMAIN NoMemory \cup States
    BY <1>2, <1>3, NoMemoryIs
  <2> QED BY <2>1, EmptyNumbered, NamesGrow
<1> QED BY <1>1, <1>2, <1>5, <1>6

LEMMA TasksIdle ==
    ASSUME TaskTypes, TaskInv, process # "up", UNCHANGED tasks, mishaps \subseteq mishaps'
    PROVE  TaskTypes' /\ TaskInv'
<1>1. UNCHANGED <<place, rollout, policy>>
  BY DEF tasks
<1>2. \A r \in Tasks : rollout'[r].at = "waiting"
  BY <1>1 DEF TaskInv
<1>3. \A r \in Tasks : PlacedIn(memory', rollout'[r])
  BY <1>2 DEF PlacedIn
<1> QED BY <1>1, <1>2, <1>3 DEF TaskTypes, TaskInv

LEMMA LaunchKeeps == ASSUME LearningInv, Launch PROVE LearningInv' /\ Growing
<1>1. process = "down" /\ UNCHANGED <<markdown, tasks, steps, mishaps>>
  BY DEF Launch
<1>2. TaskTypes' /\ TaskInv'
  BY <1>1, TasksIdle DEF LearningInv
<1>3. CASE disk = Absent /\ ~markdown
  <2>1. process' = "copying" /\ disk' = Torn /\ UNCHANGED <<memory, saved>>
    BY <1>3 DEF Launch
  <2>2. memory = NoMemory /\ Fresh'
    <3>1. Fresh /\ memory = NoMemory
      BY <1>1, <1>3 DEF LearningInv, MemoryInv, DiskInv
    <3> QED BY <1>1, <3>1 DEF Fresh
  <2>3. MemoryTypes'
    BY <1>1, <2>1 DEF LearningInv, MemoryInv, MemoryTypes
  <2>4. DiskInv'
    BY <1>1, <2>1, <2>2, SnapshotAssumption DEF LearningInv, MemoryInv, DiskInv
  <2>5. CountInv'
    BY <2>1 DEF CountInv
  <2> QED BY <1>1, <1>2, <2>3, <2>4, <2>5 DEF LearningInv, MemoryInv, Growing
<1>4. CASE ~(disk = Absent /\ ~markdown)
  <2>1. /\ process' = "up" /\ memory' = Loaded
        /\ disk' \in {Loaded, disk} /\ saved' = (disk' = Loaded)
    BY <1>4 DEF Launch, Persist, Written
  <2>2. disk \notin {Absent, Torn} => IsMemory(disk) /\ WellNumbered(disk)
    BY DEF LearningInv, MemoryInv, MemoryTypes
  <2>3. /\ disk = Torn => Loaded = NoMemory
        /\ disk = Absent => Loaded = FromMarkdown
        /\ disk \notin {Absent, Torn} => Loaded = disk
    BY SnapshotAssumption DEF Loaded
  <2>4. IsMemory(Loaded) /\ WellNumbered(Loaded)
    BY <2>2, <2>3, NoMemoryIs, EmptyNumbered, FromMarkdownIs
  <2>5. Loaded \notin {Absent, Torn}
    BY <2>4, MemoryIsNoMark
  <2>6. MemoryTypes'
    <3>1. saved' \in BOOLEAN
      BY <2>1
    <3>2. disk' \notin {Absent, Torn} => IsMemory(disk') /\ WellNumbered(disk')
      BY <2>1, <2>2, <2>4
    <3> QED BY <1>1, <2>1, <2>4, <3>1, <3>2 DEF LearningInv, MemoryInv, MemoryTypes
  <2>7. "copy" \notin mishaps => DOMAIN Loaded # {} /\ disk # Torn
    <3>1. "copy" \notin mishaps => disk # Torn /\ (disk \notin {Absent, Torn} => DOMAIN disk # {})
      BY <1>1 DEF LearningInv, MemoryInv, DiskInv
    <3>2. DOMAIN FromMarkdown # {}
      BY FromMarkdownIs, ShippedAssumption
    <3> QED BY <2>3, <3>1, <3>2
  <2>8. DiskInv'
    BY <1>1, <1>4, <2>1, <2>5, <2>7 DEF LearningInv, MemoryInv, DiskInv
  <2>9. CountInv'
    <3> SUFFICES ASSUME mishaps = {} PROVE CountInv'
      BY <1>1 DEF CountInv
    <3>1. Counted(Loaded)
      <4>1. CASE disk = Absent
        BY <2>3, <4>1, FromMarkdownIs DEF Counted
      <4>2. CASE disk # Absent
        BY <1>1, <2>3, <2>7, <4>2 DEF LearningInv, MemoryInv, CountInv
      <4> QED BY <4>1, <4>2
    <3>2. Counted(memory)'
      BY <1>1, <2>1, <3>1 DEF Counted
    <3>3. saved' => disk' \notin {Absent, Torn} /\ SameShipped(disk', memory')
      BY <2>1, <2>5, <3>1 DEF SameShipped, Counted
    <3>4. Pool' = {} => Fresh'
      <4>1. Fresh => Fresh'
        BY <1>1 DEF Fresh
      <4>2. disk = Absent \/ TechniquesOf(disk) = {} => Fresh
        BY <1>1 DEF LearningInv, MemoryInv, CountInv
      <4>3. disk # Absent => Loaded = disk
        BY <2>3, <2>7
      <4>4. Pool' = TechniquesOf(Loaded)
        BY <2>1 DEF Pool
      <4> QED BY <4>1, <4>2, <4>3, <4>4
    <3> QED BY <2>1, <3>2, <3>3, <3>4 DEF CountInv
  <2> QED BY <1>1, <1>2, <2>6, <2>8, <2>9 DEF LearningInv, MemoryInv, Growing
<1> QED BY <1>3, <1>4

LEMMA CopiedKeeps == ASSUME LearningInv, Copied PROVE LearningInv' /\ Growing
<1>1. process = "copying" /\ process' = "up" /\ UNCHANGED <<markdown, tasks, steps>>
      /\ mishaps \subseteq mishaps'
  BY DEF Copied
<1>2. TaskTypes' /\ TaskInv'
  BY <1>1, TasksIdle DEF LearningInv
<1>3. disk = Torn /\ Fresh /\ Fresh'
  <2>1. disk = Torn /\ Fresh
    BY <1>1 DEF LearningInv, MemoryInv, DiskInv
  <2> QED BY <1>1, <2>1 DEF Fresh
<1>4. CASE memory' = Shipped /\ disk' = Shipped /\ saved' = TRUE /\ UNCHANGED mishaps
  <2>1. Shipped \notin {Absent, Torn}
    BY ShippedIs, MemoryIsNoMark
  <2>2. MemoryTypes'
    BY <1>1, <1>4, ShippedIs DEF LearningInv, MemoryInv, MemoryTypes
  <2>3. DiskInv'
    BY <1>1, <1>4, <2>1, ShippedAssumption DEF DiskInv
  <2>4. Counted(memory)'
    BY <1>1, <1>3, <1>4, ShippedIs DEF Counted, Fresh
  <2>5. CountInv'
    BY <1>1, <1>3, <1>4, <2>1, <2>4 DEF CountInv, SameShipped
  <2> QED BY <1>1, <1>2, <2>2, <2>3, <2>5 DEF LearningInv, MemoryInv, Growing
<1>5. CASE memory' = NoMemory /\ Persist(NoMemory) /\ mishaps' = mishaps \cup {"copy"}
  <2>1. disk' \in {NoMemory, Torn} /\ saved' = (disk' = NoMemory) /\ "copy" \in mishaps'
    BY <1>3, <1>5 DEF Persist, Written
  <2>2. NoMemory \notin {Absent, Torn}
    BY NoMemoryIs, MemoryIsNoMark
  <2>3. MemoryTypes'
    <3>1. saved' \in BOOLEAN
      BY <2>1
    <3>2. disk' \notin {Absent, Torn} => IsMemory(disk') /\ WellNumbered(disk')
      BY <2>1, NoMemoryIs, EmptyNumbered
    <3>3. IsMemory(memory') /\ WellNumbered(memory')
      BY <1>5, NoMemoryIs, EmptyNumbered
    <3> QED BY <1>1, <3>1, <3>2, <3>3 DEF LearningInv, MemoryInv, MemoryTypes
  <2>4. DiskInv'
    BY <1>1, <2>1, <2>2, SnapshotAssumption DEF DiskInv
  <2>5. CountInv'
    BY <2>1 DEF CountInv
  <2> QED BY <1>1, <1>2, <2>3, <2>4, <2>5 DEF LearningInv, MemoryInv, Growing
<1> QED BY <1>4, <1>5 DEF Copied

LEMMA NoTasks == /\ NoRollout \in RolloutRow /\ NoRollout.at = "waiting"
                 /\ NoPolicy \in PolicyRow /\ NoPolicy.at = "idle"
BY DEF NoRollout, RolloutRow, NoPolicy, PolicyRow

LEMMA CrashKeeps == ASSUME LearningInv, Crash PROVE LearningInv' /\ Growing
<1>1. /\ process # "down" /\ process' = "down" /\ memory' = NoMemory /\ saved' = TRUE
      /\ mishaps' = mishaps \cup (IF process = "copying" THEN {"copy"} ELSE {})
                            \cup (IF saved THEN {} ELSE {"results"})
                            \cup (IF process = "up" /\ ~TechniquesSaved THEN {"techniques"} ELSE {})
      /\ place' = [p \in Problems |-> IF place[p] = "finished" THEN "finished" ELSE "queued"]
      /\ rollout' = [r \in Tasks |-> NoRollout]
      /\ policy' = [p \in Problems |-> NoPolicy]
      /\ UNCHANGED <<disk, markdown, steps>>
  BY DEF Crash, files
<1>2. TaskTypes'
  BY <1>1, NoTasks DEF TaskTypes
<1>3. TaskInv'
  BY <1>1, NoTasks DEF TaskInv, PlacedIn
<1>4. MemoryTypes'
  BY <1>1, NoMemoryIs, EmptyNumbered DEF LearningInv, MemoryInv, MemoryTypes
<1>5. DiskInv'
  <2>1. Fresh => Fresh'
    BY <1>1 DEF Fresh
  <2> QED BY <1>1, <2>1 DEF LearningInv, MemoryInv, MemoryTypes, DiskInv
<1>6. CountInv'
  <2> SUFFICES ASSUME mishaps' = {} PROVE CountInv'
    BY DEF CountInv
  <2>1. mishaps = {} /\ process # "copying" /\ saved
    BY <1>1
  <2>2. process = "up" /\ TechniquesSaved
    BY <1>1, <2>1 DEF LearningInv, MemoryInv, MemoryTypes
  <2>3. Counted(memory) /\ SameShipped(disk, memory)
    BY <2>1, <2>2 DEF LearningInv, MemoryInv, CountInv
  <2>4. Counted(disk)'
    BY <1>1, <2>3 DEF Counted, SameShipped
  <2>5. disk' \in {Absent, Torn} \/ TechniquesOf(disk') = {} => Fresh'
    <3>1. disk \notin {Absent, Torn} /\ (TechniquesOf(disk) = {} => Pool = {})
      BY <2>2 DEF TechniquesSaved
    <3>2. Pool = {} => Fresh
      BY <2>1, <2>2 DEF LearningInv, MemoryInv, CountInv
    <3>3. Fresh => Fresh'
      BY <1>1 DEF Fresh
    <3> QED BY <1>1, <3>1, <3>2, <3>3
  <2> QED BY <1>1, <2>4, <2>5 DEF CountInv
<1> QED BY <1>1, <1>2, <1>3, <1>4, <1>5, <1>6 DEF LearningInv, MemoryInv, Growing

-------------------------------------------------------------------------------
LEMMA LearningStarts == Init => LearningInv
<1> SUFFICES ASSUME Init PROVE LearningInv
  OBVIOUS
<1>1. /\ disk = Absent /\ markdown \in BOOLEAN /\ process = "down" /\ memory = NoMemory
      /\ place = [p \in Problems |-> "queued"] /\ rollout = [r \in Tasks |-> NoRollout]
      /\ policy = [p \in Problems |-> NoPolicy]
      /\ steps = [x \in Names \X Techniques |-> 0] /\ saved = TRUE /\ mishaps = {}
  BY DEF Init
<1>2. TaskTypes /\ TaskInv
  BY <1>1, NoTasks DEF TaskTypes, TaskInv, PlacedIn
<1>3. MemoryTypes
  BY <1>1, NoMemoryIs, EmptyNumbered DEF MemoryTypes
<1>4. Fresh
  BY <1>1, ShippedAssumption DEF Names, Fresh
<1>5. DiskInv /\ CountInv
  BY <1>1, <1>4, SnapshotAssumption DEF DiskInv, CountInv
<1> QED BY <1>2, <1>3, <1>5 DEF LearningInv, MemoryInv

LEMMA StutterKeeps == ASSUME LearningInv, UNCHANGED vars PROVE LearningInv' /\ Growing
<1>1. /\ UNCHANGED <<disk, markdown, process, memory, place, rollout, policy, steps, saved, mishaps>>
  BY DEF vars, files, tasks, history
<1>2. LearningInv'
  BY <1>1 DEF LearningInv, MemoryInv, MemoryTypes, DiskInv, CountInv, Counted, Fresh, Pool,
              TaskTypes, TaskInv
<1> QED BY <1>1, <1>2, SameGrows DEF LearningInv, Growing

LEMMA LearningNextKeeps == ASSUME LearningInv, [Next]_vars PROVE LearningInv' /\ Growing
<1>1. ASSUME NEW p \in Problems, Proceed(p)
      PROVE  LearningInv' /\ Growing
  BY <1>1, ProblemKeeps, AnalyzeKeeps, UpdateKeeps, FinishKeeps DEF Proceed
<1>2. ASSUME NEW r \in Tasks, Step(r)
      PROVE  LearningInv' /\ Growing
  BY <1>2, PlanKeeps, ApplyKeeps, MatchKeeps, RecommendedKeeps, CollectKeeps DEF Step
<1>3. CASE Launch \/ Copied \/ Crash
  BY <1>3, LaunchKeeps, CopiedKeeps, CrashKeeps
<1>4. CASE UNCHANGED vars
  BY <1>4, StutterKeeps
<1> QED BY <1>1, <1>2, <1>3, <1>4 DEF Next

(* The memory, the snapshot and the rollouts keep their invariants.        *)
THEOREM LearningInvariant == Spec => []LearningInv
<1>1. LearningInv /\ [Next]_vars => LearningInv'
  BY LearningNextKeeps
<1> QED BY <1>1, LearningStarts, PTL DEF Spec

(* However many rollouts share the memory and however often the process    *)
(* starts, a shipped technique counts its completed steps.                 *)
THEOREM CountsAreHistory == Spec => []UsageIsHistory
<1>1. LearningInv => UsageIsHistory
  BY DEF LearningInv, MemoryInv, CountInv, Counted, UsageIsHistory
<1> QED BY <1>1, LearningInvariant, PTL

(* Only a copy that was cut short leaves a process with an empty memory.   *)
THEOREM MemorySurvives == Spec => []EmptyOnlyAfterTornCopy
<1>1. LearningInv => EmptyOnlyAfterTornCopy
  BY NoMemoryIs DEF LearningInv, MemoryInv, DiskInv, EmptyOnlyAfterTornCopy
<1> QED BY <1>1, LearningInvariant, PTL

(* No step of a running process drops a state, a technique or a result:    *)
(* a name made from the memory's size is never one that is in use.         *)
THEOREM NothingIsForgotten == Spec => MemoryOnlyGrows
<1>1. LearningInv /\ [Next]_vars =>
        [process = "up" /\ process' = "up" =>
          \A s \in DOMAIN memory :
            /\ s \in DOMAIN memory'
            /\ \A t \in DOMAIN memory[s] :
                 t \in DOMAIN memory'[s] /\ memory'[s][t] >= memory[s][t]]_vars
  BY LearningNextKeeps DEF Growing, Grows
<1> QED BY <1>1, LearningInvariant, PTL DEF Spec, MemoryOnlyGrows
================================================================================
