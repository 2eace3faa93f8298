----------------------------- MODULE ArtifactStore -----------------------------
(***************************************************************************)
(* The content-addressed store (storage/cas.py), the index of it in        *)
(* SQLite, and their users: Control, which stores what it is sent, the     *)
(* script that registers the trusted bundle in Control's directory, and    *)
(* the run recorder (observability/recorder.py), which logs events and,    *)
(* when it is closed, archives the run's three files.                      *)
(*                                                                         *)
(* A digest is its payload.  A payload is first written to a temporary     *)
(* file and synced, then renamed to its place, then its directory is       *)
(* synced; a renamed entry is visible at once and survives a power loss    *)
(* once its directory is synced (a new two-letter directory is taken to be *)
(* synced with its first entry).  SQLite commits are durable.  A process   *)
(* may be killed, and an operation may fail, at any step; a signal may     *)
(* raise SystemExit at any step of the recorder.                           *)
(***************************************************************************)
EXTENDS Integers, FiniteSets

CONSTANTS Uploads,     \* payloads clients send to Control, or a script registers
          MaxRuns,     \* bound: launches that record
          MaxEvents,   \* bound: events a launch records
          FinalStatuses, \* statuses a run is closed with
          Nothing      \* no payload

ASSUME StoreBounds == MaxRuns \in Nat /\ MaxEvents \in Nat
ASSUME FinalStatusesAssumption ==
    FinalStatuses \subseteq {"completed", "completed_with_errors", "failed", "dry_run"}

VARIABLES visible,   \* payloads found under their digest
          durable,   \* those a power loss cannot take
          assumed,   \* history: taken as stored when visible and not durable
          indexed,   \* rows of table artifacts
          rows,      \* rows of table runs with their links in run_artifacts
          puts,      \* where each writer stands in _put_stream
          recorder,  \* the RunRecorder of the current launch
          folder     \* its files: events.jsonl, summary.json, run_manifest.json

storeVars == <<visible, durable, assumed, indexed, rows, puts, recorder, folder>>

-------------------------------------------------------------------------------
Runs == 1 .. MaxRuns
Sequences == 1 .. MaxEvents
Roles == {"manifest", "events", "summary"}

(* An event is numbered by the recorder of its run. *)
Events == Runs \X Sequences
EventsOf(r) == {r} \X Sequences

(* The files of a run as payloads; lines are the events it holds or counts. *)
(* The log does not name a run but in its lines.                           *)
File == [role : Roles, run : 0 .. MaxRuns, lines : SUBSET Events,
         status : {"none", "running"} \cup FinalStatuses]
Upload == [role : {"upload"}, run : Uploads, lines : {{}}, status : {"none"}]
Payloads == File \cup Upload

Writers == {"control", "registry", "recorder"}
PutStates == {"idle", "temporary", "placed", "stored"}
NoPut == [at |-> "idle", payload |-> Nothing]

(* at: "appended" is inside record_event, past the append; _closed is set   *)
(* from "summary" on, where close goes on.                                  *)
RecorderRow == [run : 0 .. MaxRuns, seq : 0 .. MaxEvents,
                counted : SUBSET Events, status : {"running"} \cup FinalStatuses,
                at : {"recording", "appended", "summary", "manifest", "archive",
                      "finish", "ended", "killed"},
                missed : SUBSET Events]
(* missed: history, the events whose record_event raised after they were   *)
(* numbered.                                                               *)
NoRecorder == [run |-> 0, seq |-> 0, counted |-> {}, status |-> "running",
               at |-> "ended", missed |-> {}]

Folder == [log : SUBSET Events,
           summary : SUBSET Events, summaryStatus : {"running"} \cup FinalStatuses,
           manifestStatus : {"running"} \cup FinalStatuses]
NewFolder == [log |-> {}, summary |-> {}, summaryStatus |-> "running",
              manifestStatus |-> "running"]

NoRow == [status |-> "absent", finished_at |-> "null", links |-> {}]
Event(n) == <<recorder.run, n>>

Payload(role) ==
    [role |-> role, run |-> IF role = "events" THEN 0 ELSE recorder.run,
     lines |-> CASE role = "events" -> folder.log
                 [] role = "summary" -> folder.summary
                 [] role = "manifest" -> {},
     status |-> CASE role = "events" -> "none"
                  [] role = "summary" -> folder.summaryStatus
                  [] role = "manifest" -> folder.manifestStatus]

Linked(r) == {p.role : p \in rows[r].links}
RoleOrder == <<"manifest", "events", "summary">>
(* The next file close puts into the store: those before it are linked. *)
NextRole == RoleOrder[Cardinality(rows[recorder.run].links) + 1]

-------------------------------------------------------------------------------
(* put_bytes and put_file. *)

WriteTemporary(w, p) ==
    /\ puts[w].at = "idle"
    /\ puts' = [puts EXCEPT ![w] = [at |-> "temporary", payload |-> p]]
    /\ UNCHANGED <<visible, durable, assumed>>

(* An entry that is already there is not looked into. *)
Place(w) ==
    LET p == puts[w].payload IN
    /\ puts[w].at = "temporary"
    /\ visible' = visible \cup {p}
    /\ IF p \in visible
       THEN /\ puts' = [puts EXCEPT ![w].at = "stored"]
            /\ assumed' = assumed \cup ({p} \ durable)
       ELSE /\ puts' = [puts EXCEPT ![w].at = "placed"]
            /\ UNCHANGED assumed
    /\ UNCHANGED durable

(* Mutant: the directory is not synced. *)
SyncNothing(w) ==
    /\ puts[w].at = "placed"
    /\ puts' = [puts EXCEPT ![w].at = "stored"]
    /\ UNCHANGED <<visible, durable, assumed>>

SyncDirectory(w) ==
    /\ puts[w].at = "placed"
    /\ durable' = durable \cup {puts[w].payload}
    /\ puts' = [puts EXCEPT ![w].at = "stored"]
    /\ UNCHANGED <<visible, assumed>>

(* register_artifact, once the store has the payload. *)
Register(w) ==
    /\ puts[w].at = "stored"
    /\ indexed' = indexed \cup {puts[w].payload}
    /\ puts' = [puts EXCEPT ![w] = NoPut]
    /\ UNCHANGED <<visible, durable, assumed>>

PutStep(w) == (Place(w) \/ SyncDirectory(w)) /\ UNCHANGED <<indexed, rows, recorder, folder>>

-------------------------------------------------------------------------------
(* Control's PUT .../artifacts: after the body is read nothing is awaited, *)
(* so one upload is handled at a time; a client may send it again.         *)
(* register_trusted_gpu_smoke.py puts the same payloads from a process of  *)
(* its own.                                                                *)

Uploaders == Writers \ {"recorder"}
Uploaded(u) == [role |-> "upload", run |-> u, lines |-> {}, status |-> "none"]

Receive(w, u) ==
    /\ WriteTemporary(w, Uploaded(u))
    /\ UNCHANGED <<indexed, rows, recorder, folder>>

Answer(w) == Register(w) /\ UNCHANGED <<rows, recorder, folder>>

(* An exception (the client is answered 500) or the end of the process. *)
UploadStops(w) ==
    /\ puts[w].at # "idle"
    /\ puts' = [puts EXCEPT ![w] = NoPut]
    /\ UNCHANGED <<visible, durable, assumed, indexed, rows, recorder, folder>>

-------------------------------------------------------------------------------
(* RunRecorder. *)

stored == <<visible, durable, assumed, indexed, puts>>

(* The constructor: run_RL.py takes any --run-record-dir, and one that was  *)
(* used before keeps its log while the other two files start anew;         *)
(* run_portfolio.py refuses such a folder.  Its dry run is inserted with   *)
(* the status it will end with.                                            *)
StartRun(status, log) ==
    /\ recorder.at \in {"ended", "killed"} /\ recorder.run < MaxRuns
    /\ status = "dry_run" => log = {}
    /\ recorder' = [NoRecorder EXCEPT !.run = recorder.run + 1, !.at = "recording",
                                      !.status = status]
    /\ folder' = [log |-> log, summary |-> {}, summaryStatus |-> status,
                  manifestStatus |-> status]
    /\ rows' = [rows EXCEPT ![recorder.run + 1] = [NoRow EXCEPT !.status = status]]
    /\ UNCHANGED stored

StartStatuses == {"running"} \cup (FinalStatuses \cap {"dry_run"})

(* Mutant: an event that arrives after close is written all the same. *)
AppendLate ==
    /\ recorder.at \in {"recording", "ended"} /\ recorder.seq < MaxEvents
    /\ recorder.run > 0
    /\ folder' = [folder EXCEPT !.log = @ \cup {Event(recorder.seq + 1)}]
    /\ recorder' = [recorder EXCEPT !.seq = @ + 1,
                        !.at = IF @ = "recording" THEN "appended" ELSE @]
    /\ UNCHANGED <<rows, stored>>

(* record_event: the line is numbered and appended; after close it is      *)
(* dropped.                                                                *)
Append ==
    /\ recorder.at = "recording" /\ recorder.seq < MaxEvents
    /\ folder' = [folder EXCEPT !.log = @ \cup {Event(recorder.seq + 1)}]
    /\ recorder' = [recorder EXCEPT !.seq = @ + 1, !.at = "appended"]
    /\ UNCHANGED <<rows, stored>>

AppendFails ==
    /\ recorder.at = "recording" /\ recorder.seq < MaxEvents
    /\ recorder' = [recorder EXCEPT !.seq = @ + 1, !.missed = @ \cup {Event(recorder.seq + 1)}]
    /\ UNCHANGED <<rows, stored, folder>>

(* _update_summary and the new summary.json, which may fail to be written. *)
Count ==
    /\ recorder.at = "appended"
    /\ recorder' = [recorder EXCEPT !.at = "recording", !.counted = @ \cup {Event(recorder.seq)}]
    /\ \/ folder' = [folder EXCEPT !.summary = recorder.counted \cup {Event(recorder.seq)}]
       \/ UNCHANGED folder
    /\ UNCHANGED <<rows, stored>>

(* A signal's SystemExit between the line and the count. *)
Interrupt ==
    /\ recorder.at = "appended"
    /\ recorder' = [recorder EXCEPT !.at = "recording", !.missed = @ \cup {Event(recorder.seq)}]
    /\ UNCHANGED <<rows, stored, folder>>

(* close: from here on a second close returns at once.  A dry run is closed *)
(* as one, even by atexit.                                                 *)
Close(status) ==
    /\ recorder.at = "recording"
    /\ recorder.status = "dry_run" <=> status = "dry_run"
    /\ recorder' = [recorder EXCEPT !.at = "summary", !.status = status]
    /\ UNCHANGED <<rows, stored, folder>>

WriteSummary ==
    /\ recorder.at = "summary"
    /\ folder' = [folder EXCEPT !.summary = recorder.counted,
                                !.summaryStatus = recorder.status]
    /\ recorder' = [recorder EXCEPT !.at = "manifest"]
    /\ UNCHANGED <<rows, stored>>

WriteManifest ==
    /\ recorder.at = "manifest"
    /\ folder' = [folder EXCEPT !.manifestStatus = recorder.status]
    /\ recorder' = [recorder EXCEPT !.at = "archive"]
    /\ UNCHANGED <<rows, stored>>

Archive ==
    /\ recorder.at = "archive"
    /\ WriteTemporary("recorder", Payload(NextRole))
    /\ UNCHANGED <<indexed, rows, recorder, folder>>

(* register_artifact and link_run_artifact are two transactions; nothing   *)
(* that is modelled happens between them but a crash, which leaves an      *)
(* indexed payload nobody links, as one before the link would.             *)
Link ==
    /\ Register("recorder")
    /\ rows' = [rows EXCEPT ![recorder.run].links = @ \cup {puts["recorder"].payload}]
    /\ recorder' = [recorder EXCEPT !.at = IF Cardinality(rows'[recorder.run].links)
                                              = Cardinality(Roles)
                                           THEN "finish" ELSE "archive"]
    /\ UNCHANGED folder

FinishRun ==
    /\ recorder.at = "finish"
    /\ rows' = [rows EXCEPT ![recorder.run].status = recorder.status,
                           ![recorder.run].finished_at = "now"]
    /\ recorder' = [recorder EXCEPT !.at = "ended"]
    /\ UNCHANGED <<stored, folder>>

Closing == recorder.at \in {"summary", "manifest", "archive", "finish"}

(* An exception or a signal inside close, which atexit's close cannot make *)
(* up for; or the end of the process anywhere.                             *)
CloseFails ==
    /\ Closing
    /\ recorder' = [recorder EXCEPT !.at = "ended"]
    /\ puts' = [puts EXCEPT !["recorder"] = NoPut]
    /\ UNCHANGED <<visible, durable, assumed, indexed, rows, folder>>

Killed ==
    /\ recorder.at \notin {"ended", "killed"}
    /\ recorder' = [recorder EXCEPT !.at = "killed"]
    /\ puts' = [puts EXCEPT !["recorder"] = NoPut]
    /\ UNCHANGED <<visible, durable, assumed, indexed, rows, folder>>

-------------------------------------------------------------------------------
(* Every process ends, and an entry whose directory was not synced may go. *)
PowerLoss ==
    /\ \E kept \in SUBSET (visible \ durable) :
         /\ visible' = durable \cup kept
         /\ durable' = durable \cup kept
    /\ puts' = [w \in Writers |-> NoPut]
    /\ recorder' = [recorder EXCEPT !.at = IF @ = "ended" THEN @ ELSE "killed"]
    /\ UNCHANGED <<assumed, indexed, rows, folder>>

StoreInit ==
    /\ visible = {} /\ durable = {} /\ assumed = {} /\ indexed = {}
    /\ rows = [r \in Runs |-> NoRow]
    /\ puts = [w \in Writers |-> NoPut]
    /\ recorder = NoRecorder
    /\ folder = NewFolder

StoreNext ==
    \/ \E w \in Writers : PutStep(w)
    \/ \E w \in Uploaders : \/ \E u \in Uploads : Receive(w, u)
                            \/ Answer(w) \/ UploadStops(w)
    \/ \E s \in StartStatuses, log \in {{}, folder.log} : StartRun(s, log)
    \/ Append \/ AppendFails \/ Count \/ Interrupt
    \/ \E s \in FinalStatuses : Close(s)
    \/ WriteSummary \/ WriteManifest \/ Archive \/ Link \/ FinishRun
    \/ CloseFails \/ Killed
    \/ PowerLoss

StoreSpec == StoreInit /\ [][StoreNext]_storeVars

-------------------------------------------------------------------------------
(* Types of the tables, the store and the recorder. *)
TypeOK ==
    /\ visible \subseteq Payloads /\ durable \subseteq visible
    /\ assumed \subseteq Payloads /\ indexed \subseteq Payloads
    /\ rows \in [Runs -> [status : {"absent", "running"} \cup FinalStatuses,
                          finished_at : {"null", "now"}, links : SUBSET File]]
    /\ puts \in [Writers -> [at : PutStates, payload : Payloads \cup {Nothing}]]
    /\ recorder \in RecorderRow
    /\ folder \in Folder

(* verify_artifact_index of state.py: every row has its payload. *)
IndexVerifies == indexed \subseteq visible

(* A row of the index is without its payload only after a power loss took  *)
(* an entry that a former writer had renamed and not synced, and that a    *)
(* later writer of the same payload took for stored.                       *)
OnlyAssumedEntriesAreLost ==
    \/ IndexVerifies
    \/ indexed \ visible \subseteq assumed

(* A dry run has its last status from the start, so that status alone does *)
(* not say that a run ended.                                               *)
Ended(r) == rows[r].finished_at # "null" \/ rows[r].status \in FinalStatuses \ {"dry_run"}

(* A run that its row shows as ended has its three files archived, they    *)
(* give the same status as its row, and the summary counts events of that  *)
(* run, of those of former launches none, though they are in the log of a  *)
(* folder that is used again: all but those whose recording was cut short. *)
(* Nothing is logged for it after they were archived.  (A dry run that was *)
(* killed shows its last status without any of this.)                      *)
ArchiveAgrees ==
    \A r \in Runs :
       Ended(r) =>
          /\ Linked(r) = Roles
          /\ \A p \in rows[r].links : p.role # "events" => p.status = rows[r].status
          /\ \A e, s \in rows[r].links :
               e.role = "events" /\ s.role = "summary" =>
                  /\ s.lines \subseteq e.lines \cap EventsOf(r)
                  /\ r = recorder.run =>
                        /\ e.lines = folder.log
                        /\ (e.lines \cap EventsOf(r)) \ s.lines \subseteq recorder.missed
================================================================================
