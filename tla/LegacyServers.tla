------------------------------ MODULE LegacyServers -----------------------------
(***************************************************************************)
(* compile_and_run_cu_file (agents/utils/commands.py) and the two servers  *)
(* it calls: the compile server (servers/compile.py), whose workers build  *)
(* in directories they use again, and the GPU server (servers/gpu.py),     *)
(* whose workers run one uploaded binary at a time on a GPU each.  Callers *)
(* time out and retry; the GPU server may end and be started again.        *)
(*                                                                         *)
(* A binary is named after the caller whose source it was built from; the  *)
(* runs of one upload are one process.  An item is <<caller, attempt>>.    *)
(***************************************************************************)
EXTENDS Naturals, Sequences, FiniteSets

CONSTANTS Callers,
          Keeping,      \* callers that may ask for persistent_artifacts
          Builders,     \* workers of the compile server
          Gpus,         \* GPUs, each with a worker of the GPU server
          MaxStarts,    \* bound: starts of the GPU server
          Nobody        \* no caller or item

ASSUME StartsAssumption == MaxStarts \in Nat
ASSUME NamesAssumption == /\ Builders \cap Callers = {}
                          /\ Nobody \notin Callers \cup (Callers \X {0, 1})

VARIABLES caller,       \* where a call is, its persistent_artifacts and upload attempt
          compiles,     \* QUEUE of the compile server
          builder,      \* a worker's job and stage
          dir,          \* a directory's sources, and its build directory
          cmakes,       \* directories where a cmake nobody waits for runs
          output,       \* what the output path of a caller's request holds
          server,       \* the GPU server: "down", "checking" or "up"
          starts,
          runs,         \* QUEUE of the GPU server
          worker,       \* a GPU's worker: its item, or "dead"
          process,      \* the stage of the process a worker awaits
          orphan,       \* the same for the process of a server that ended
          files,        \* uploaded binaries in the working directory
          future,       \* completion_future of an item
          unseen        \* history: GPUs with an orphan check_gpu_processes missed

compileVars == <<compiles, builder, dir, cmakes, output>>
gpuVars == <<server, starts, runs, worker, process, orphan, files, future, unseen>>
serversVars == <<caller, compileVars, gpuVars>>

-------------------------------------------------------------------------------
Items == Callers \X {0, 1}
Dirs == Builders \cup Callers

(* The processes of a GPU: nvidia-smi lists those that opened a context. *)
Stages == {"none", "starting", "onGpu"}

(* A worker builds in a directory of its own, cuda_eval_<id>; one that must *)
(* keep its artifacts gets a new one, named after its output.               *)

(* Mutant: all workers build in one directory. *)
WorkDirShared(b, c) == IF caller[c].persistent THEN c ELSE CHOOSE d \in Builders : TRUE

WorkDir(b, c) == IF caller[c].persistent THEN c ELSE b

Idle == [job |-> Nobody, at |-> "idle"]

-------------------------------------------------------------------------------
(* The compile server.                                                     *)

Call(c, at) == caller' = [caller EXCEPT ![c].at = at]

RequestCompile(c) ==
    /\ caller[c].at = "idle"
    /\ \E persistent \in {FALSE, (c \in Keeping)} :
         caller' = [caller EXCEPT ![c].at = "compiling", ![c].persistent = persistent]
    /\ compiles' = Append(compiles, c)
    /\ UNCHANGED <<builder, dir, cmakes, output, gpuVars>>

(* The future answers the request, if its client still waits. *)
Answered(c, at) == IF caller[c].at = "compiling" THEN Call(c, at) ELSE UNCHANGED caller

(* split_files_for_compilation replaces the three sources. *)
WithSources(d, c) == [dir EXCEPT ![d].sources = c]

(* write_compilation_files, and cmake unless there is a build directory. *)
StartBuild(b) ==
    LET c == Head(compiles)
        d == WorkDir(b, c)
        new == dir[d].build = "absent"
    IN /\ builder[b] = Idle /\ compiles # <<>>
       /\ compiles' = Tail(compiles)
       /\ dir' = [WithSources(d, c) EXCEPT ![d].build = IF new THEN "made" ELSE @]
       /\ builder' = [builder EXCEPT ![b] =
                        [job |-> c, at |-> IF new THEN "configuring" ELSE "making"]]
       /\ UNCHANGED <<caller, cmakes, output, gpuVars>>

Configured(b) ==
    /\ builder[b].at = "configuring"
    /\ builder' = [builder EXCEPT ![b].at = "making"]
    /\ dir' = [dir EXCEPT ![WorkDir(b, builder[b].job)].build = "configured"]
    /\ UNCHANGED <<caller, compiles, cmakes, output, gpuVars>>

(* A cmake that fails leaves the build directory, and one that takes too   *)
(* long is left running.                                                   *)
ConfigureFails(b) ==
    LET c == builder[b].job IN
    /\ builder[b].at = "configuring"
    /\ builder' = [builder EXCEPT ![b] = Idle]
    /\ cmakes' \in {cmakes, cmakes \cup {WorkDir(b, c)}}
    /\ Answered(c, "failed")
    /\ UNCHANGED <<compiles, dir, output, gpuVars>>

ConfiguredLate(d) ==
    /\ d \in cmakes /\ cmakes' = cmakes \ {d}
    /\ dir' \in {dir, [dir EXCEPT ![d].build = "configured"]}
    /\ UNCHANGED <<caller, compiles, builder, output, gpuVars>>

(* make builds what the directory holds; without a configuration it fails. *)
Made(b) ==
    LET c == builder[b].job
        d == WorkDir(b, c)
    IN /\ builder[b].at = "making"
       /\ builder' = [builder EXCEPT ![b] = Idle]
       /\ \/ /\ dir[d].build = "configured"
             /\ output' = [output EXCEPT ![c] = dir[d].sources]
             /\ Answered(c, "uploading")
          \/ Answered(c, "failed") /\ UNCHANGED output
       /\ UNCHANGED <<compiles, dir, cmakes, gpuVars>>

(* _compile_cu gives up; its compilation goes on. *)
CompileTimesOut(c) ==
    /\ caller[c].at = "compiling" /\ Call(c, "failed")
    /\ UNCHANGED <<compileVars, gpuVars>>

-------------------------------------------------------------------------------
(* The GPU server.                                                         *)

(* Mutant: an upload is saved under the name the client gives. *)
PathByName(i) == <<i[1], 0>>

(* save_binary_to_temp makes a path for every upload. *)
Path(i) == i

Upload(c) ==
    LET i == <<c, caller[c].attempt>> IN
    /\ caller[c].at = "uploading" /\ server = "up"
    /\ Call(c, "waiting")
    /\ files' = files \cup {Path(i)}
    /\ runs' = Append(runs, i)
    /\ future' = [future EXCEPT ![i] = "pending"]
    /\ UNCHANGED <<compileVars, server, starts, worker, process, orphan, unseen>>

(* _run_gpu_binary calls itself once, a second after. *)
Retry(c) ==
    IF caller[c].attempt = 0
    THEN caller' = [caller EXCEPT ![c].at = "uploading", ![c].attempt = 1]
    ELSE Call(c, "failed")

(* The client's timeout or a lost connection, after which the server's      *)
(* handler may be cancelled and what it has queued stays; or an answer that *)
(* is an error, which is not repeated.                                      *)
GiveUp(c) ==
    LET i == <<c, caller[c].attempt>> IN
    /\ caller[c].at \in {"uploading", "waiting"}
    /\ Retry(c) \/ Call(c, "failed")
    /\ future' \in {future, [future EXCEPT ![i] = IF @ = "pending" THEN "cancelled" ELSE @]}
    /\ UNCHANGED <<compileVars, server, starts, runs, worker, process, orphan, files, unseen>>

Get(g) ==
    /\ server = "up" /\ worker[g] = Nobody /\ runs # <<>>
    /\ worker' = [worker EXCEPT ![g] = Head(runs)]
    /\ runs' = Tail(runs)
    /\ process' = [process EXCEPT ![g] = IF Path(Head(runs)) \in files THEN "starting" ELSE "none"]
    /\ UNCHANGED <<caller, compileVars, server, starts, orphan, files, future, unseen>>

OpenContext(g) ==
    /\ process[g] = "starting" /\ process' = [process EXCEPT ![g] = "onGpu"]
    /\ UNCHANGED <<caller, compileVars, server, starts, runs, worker, orphan, files, future, unseen>>

Answer(i, at) ==
    LET c == i[1] IN
    IF future[i] = "pending" /\ caller[c].at = "waiting" /\ caller[c].attempt = i[2]
    THEN Call(c, at) ELSE UNCHANGED caller

(* Mutant: the result is set on a future that was cancelled, which raises. *)
CompleteFutureUnchecked(g, i, at) ==
    /\ future' = [future EXCEPT ![i] = IF @ = "pending" THEN "done" ELSE @]
    /\ worker' = [worker EXCEPT ![g] = IF future[i] = "pending" THEN Nobody ELSE "dead"]
    /\ Answer(i, at)

(* complete_future: the worker goes on, whoever waits for the answer. *)
CompleteFuture(g, i, at) ==
    /\ worker' = [worker EXCEPT ![g] = Nobody]
    /\ future' = [future EXCEPT ![i] = IF @ = "pending" THEN "done" ELSE @]
    /\ Answer(i, at)

(* The process ended, failed, was killed at its timeout or did not start:  *)
(* the binary is removed and the answer given.                             *)
Executed(g) ==
    LET i == worker[g] IN
    /\ i \in Items
    /\ process' = [process EXCEPT ![g] = "none"]
    /\ files' = files \ {Path(i)}
    /\ \E at \in IF process[g] = "none" THEN {"failed"} ELSE {"done", "failed"} :
         CompleteFuture(g, i, at)
    /\ UNCHANGED <<compileVars, server, starts, runs, orphan, unseen>>

(* The server ends: its processes have sessions of their own and go on. *)
End ==
    /\ server = "up" /\ server' = "down"
    /\ orphan' = [g \in Gpus |-> IF process[g] = "none" THEN orphan[g] ELSE process[g]]
    /\ process' = [g \in Gpus |-> "none"]
    /\ worker' = [g \in Gpus |-> Nobody]
    /\ runs' = <<>> /\ files' = {}
    /\ future' = [i \in Items |-> "none"]
    /\ UNCHANGED <<caller, compileVars, starts, unseen>>

OrphanGoesOn(g) ==
    /\ \/ orphan[g] = "starting" /\ orphan' = [orphan EXCEPT ![g] = "onGpu"]
       \/ orphan[g] # "none" /\ orphan' = [orphan EXCEPT ![g] = "none"]
    /\ UNCHANGED <<caller, compileVars, server, starts, runs, worker, process, files, future, unseen>>

(* Mutant: the processes found are not looked for on this machine. *)
QuietAnyway == TRUE

(* check_gpu_processes refuses a GPU that is in use. *)
Quiet == \A g \in Gpus : orphan[g] # "onGpu"

(* The launcher starts the server's process, which looks for others on its  *)
(* GPUs first and ends when it finds some; a launcher tired of waiting for  *)
(* /health terminates it.                                                   *)
Launch ==
    /\ server = "down" /\ starts < MaxStarts
    /\ server' = "checking" /\ starts' = starts + 1
    /\ UNCHANGED <<caller, compileVars, runs, worker, process, orphan, files, future, unseen>>

Checked ==
    /\ server = "checking"
    /\ IF Quiet THEN server' = "up" /\ unseen' = {g \in Gpus : orphan[g] = "starting"}
                ELSE server' = "down" /\ UNCHANGED unseen
    /\ UNCHANGED <<caller, compileVars, starts, runs, worker, process, orphan, files, future>>

Terminated ==
    /\ server = "checking" /\ server' = "down"
    /\ UNCHANGED <<caller, compileVars, starts, runs, worker, process, orphan, files, future, unseen>>

-------------------------------------------------------------------------------
ServersInit == /\ caller = [c \in Callers |-> [at |-> "idle", persistent |-> FALSE, attempt |-> 0]]
               /\ compiles = <<>>
               /\ builder = [b \in Builders |-> Idle]
               /\ dir = [d \in Dirs |-> [sources |-> Nobody, build |-> "absent"]]
               /\ cmakes = {}
               /\ output = [c \in Callers |-> Nobody]
               /\ server = "down" /\ starts = 0
               /\ runs = <<>>
               /\ worker = [g \in Gpus |-> Nobody]
               /\ process = [g \in Gpus |-> "none"]
               /\ orphan = [g \in Gpus |-> "none"]
               /\ files = {}
               /\ future = [i \in Items |-> "none"]
               /\ unseen = {}

Build(b) == StartBuild(b) \/ Configured(b) \/ ConfigureFails(b) \/ Made(b)
Execute(g) == Get(g) \/ OpenContext(g) \/ Executed(g)
Wait(c) == Upload(c) \/ GiveUp(c) \/ CompileTimesOut(c)

ServersNext == \/ \E c \in Callers : RequestCompile(c) \/ Wait(c)
               \/ \E b \in Builders : Build(b)
               \/ \E d \in Dirs : ConfiguredLate(d)
               \/ \E g \in Gpus : Execute(g) \/ OrphanGoesOn(g)
               \/ End \/ Launch \/ Checked \/ Terminated

ServersSpec == ServersInit /\ [][ServersNext]_serversVars

(* Workers take what is queued, processes have timeouts, and so do calls. *)
FairServersSpec == /\ ServersSpec
                   /\ \A b \in Builders : WF_serversVars(Build(b))
                   /\ \A g \in Gpus : WF_serversVars(Execute(g))
                   /\ \A c \in Callers : WF_serversVars(Wait(c))

-------------------------------------------------------------------------------
(* A caller's binary is built from its own sources, though workers build   *)
(* at the same time, in directories that keep what was there.              *)
OutputIsOfItsSource == \A c \in Callers : output[c] \in {Nobody, c}

(* What is queued or runs has its binary until its own execution is over,  *)
(* whatever retries, cancelled requests and other workers do; nothing else *)
(* is kept.                                                                *)
FilesAreHeld ==
    files = {Path(runs[k]) : k \in DOMAIN runs} \cup {Path(worker[g]) : g \in {h \in Gpus : worker[h] \in Items}}
    /\ \A g \in Gpus : worker[g] \in Items => process[g] # "none"

(* Two programs share a GPU only when a server was started over an orphan  *)
(* that had not opened its context, which nvidia-smi does not list.        *)
OnlyUnseenOrphansShare ==
    \A g \in Gpus : process[g] # "none" /\ orphan[g] # "none" => g \in unseen

Queued(c) == c \in {compiles[k] : k \in DOMAIN compiles} \cup {runs[k][1] : k \in DOMAIN runs}

(* No request stays in a queue for ever: no worker is lost to a timed out, *)
(* cancelled or failed one (the GPU server's queue also ends with it).  And *)
(* every call ends: a failed upload is repeated once.                      *)
QueuesDrain ==
    <>[](\A c \in Callers :
            ~Queued(c) /\ caller[c].at \in {"idle", "done", "failed"})

===============================================================================
