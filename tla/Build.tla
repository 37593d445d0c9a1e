--------------------------------- MODULE Build --------------------------------
(***************************************************************************)
(* The executor of the ACT build (framework/src/act/build.py): build()     *)
(* walks the task graph in topological order, a thread pool runs           *)
(* execute_task, and a failure or an interrupt kills the subprocesses in   *)
(* flight.  The main thread, the pool's workers and the subprocesses       *)
(* interleave; builds follow one another on the same files.                *)
(*                                                                         *)
(* graphlib's sorter and concurrent.futures' pool are modelled by what     *)
(* build() uses of them.  One step of the main thread handles one ready    *)
(* task or one finished future.                                            *)
(***************************************************************************)
EXTENDS BuildCache

CONSTANTS
    Kind,         \* Kind[t]: "subprocess" or "python" (a PythonAction or SymlinkAction).
    StdoutFile,   \* StdoutFile[t]: "none", "log", or "output" when it is t's output.
    Jobs,         \* Workers in the pool.
    OptionSets,   \* The option records that builds are started with.
    CanFail,      \* Tasks that may fail or hang.
    MaxBuilds,    \* Bound on the number of builds.
    MaxStops,     \* Bound on the number of interrupts, failing saves and crashes; an
                  \* interrupt of the handler of an interrupt comes on top.
    MaxEdits      \* Bound on the number of edits and deletions between builds.

Options == [keep_going : BOOLEAN, dry_run : BOOLEAN, clean_intermediates : BOOLEAN]

ASSUME BuildAssumption ==
    /\ Kind \in [Tasks -> {"subprocess", "python"}]
    /\ StdoutFile \in [Tasks -> {"none", "log", "output"}]
    /\ \A t \in Tasks : Kind[t] = "python" => StdoutFile[t] = "none"
    /\ Jobs \in Nat \ {0}
    /\ OptionSets \subseteq Options
    /\ CanFail \subseteq Tasks
    /\ MaxBuilds \in Nat /\ MaxStops \in Nat /\ MaxEdits \in Nat

VARIABLES
    options,
    pc,              \* Where the main thread is; "idle" when no build runs.
    outcome,         \* "open" until the loop ends; then how it ended.
    handed_out,      \* Tasks that sorter.get_ready() has returned.
    done,            \* Tasks the sorter was told are done.
    ready,           \* The tuple of get_ready() that is being scheduled.
    needed_tasks,
    remaining_consumers,
    in_flight,
    done_futures,    \* The futures of the last wait() not yet recorded.
    failed_tasks,
    result,          \* BuildResult.
    worker,          \* worker[t]: how far execute_task has come for t.
    child,           \* child[t]: the subprocess of t.
    active_pgids,    \* Tasks whose process group is registered.
    shutdown_event,
    pgids,           \* kill_active's snapshot, what is left of it.
    log,             \* Tasks whose log file exists.
    builds, stops, edits,
    cut              \* What an interrupt or an error cut short in the present build.

sorter_vars == <<handed_out, done, ready, needed_tasks, remaining_consumers>>
result_vars == <<in_flight, done_futures, failed_tasks, result>>
pool_vars == <<worker, child>>
kill_vars == <<active_pgids, shutdown_event, pgids>>
tally_vars == <<builds, stops, edits, cut>>
main_vars == <<options, pc, outcome>>
build_vars == <<disk_vars, cache_vars, main_vars, sorter_vars, result_vars,
                pool_vars, kill_vars, log, tally_vars>>

Stages == {"none", "queued", "cancelled", "starting", "spawned", "doomed", "running",
           "logging", "succeeded", "errored"}
Started == {"starting", "spawned", "doomed", "running", "logging"}
Finished == {"succeeded", "errored"}

NoResult == [succeeded |-> 0, failed |-> 0, skipped |-> 0, errors |-> {}]

TypeOK ==
    /\ CacheTypeOK
    /\ options \in Options
    /\ pc \in {"idle", "top", "schedule", "wait", "record", "kill", "caught", "handle",
              "save", "join"}
    /\ outcome \in {"open", "complete", "abandoned", "crashed"}
    /\ handed_out \subseteq Tasks /\ done \subseteq Tasks /\ ready \subseteq Tasks
    /\ needed_tasks \subseteq Tasks
    /\ remaining_consumers \in [Tasks -> Nat]
    /\ in_flight \subseteq Tasks /\ done_futures \subseteq Tasks
    /\ failed_tasks \subseteq Tasks
    /\ result \in [succeeded : Nat, failed : Nat, skipped : Nat, errors : SUBSET Tasks]
    /\ worker \in [Tasks -> Stages]
    /\ child \in [Tasks -> {"none", "alive", "ok", "bad"}]
    /\ active_pgids \subseteq Tasks /\ pgids \subseteq Tasks
    /\ shutdown_event \in BOOLEAN
    /\ log \subseteq Tasks
    /\ builds \in 0 .. MaxBuilds /\ stops \in 0 .. MaxStops /\ edits \in 0 .. MaxEdits
    /\ cut \subseteq {"kill", "save"}

-----------------------------------------------------------------------------
(* Between builds: the user edits sources, deletes outputs, starts a build. *)

Init ==
    /\ source \in [Sources -> Versions]
    /\ output = [t \in Tasks |-> Absent]
    /\ stored = [t \in Tasks |-> Unrecorded]
    /\ hashes = Recipe
    /\ manifest = stored
    /\ updated = {}
    /\ options \in OptionSets
    /\ pc = "idle" /\ outcome = "complete"
    /\ handed_out = {} /\ done = {} /\ ready = {} /\ needed_tasks = {}
    /\ remaining_consumers = [t \in Tasks |-> 0]
    /\ in_flight = {} /\ done_futures = {} /\ failed_tasks = {} /\ result = NoResult
    /\ worker = [t \in Tasks |-> "none"] /\ child = [t \in Tasks |-> "none"]
    /\ active_pgids = {} /\ shutdown_event = FALSE /\ pgids = {}
    /\ log = {}
    /\ builds = 0 /\ stops = 0 /\ edits = 0 /\ cut = {}

EditSource ==
    /\ pc = "idle" /\ edits < MaxEdits
    /\ \E s \in Sources, v \in Versions :
           v # source[s] /\ source' = [source EXCEPT ![s] = v]
    /\ edits' = edits + 1
    /\ UNCHANGED <<output, stored, cache_vars, main_vars, sorter_vars, result_vars,
                   pool_vars, kill_vars, log, builds, stops, cut>>

DeleteOutput ==
    /\ pc = "idle" /\ edits < MaxEdits
    /\ \E t \in Tasks :
           output[t] # Absent /\ output' = [output EXCEPT ![t] = Absent]
    /\ edits' = edits + 1
    /\ UNCHANGED <<source, stored, cache_vars, main_vars, sorter_vars, result_vars,
                   pool_vars, kill_vars, log, builds, stops, cut>>

Consumers(t) == {u \in Tasks : t \in Deps[u]}

StartBuild ==
    /\ pc = "idle" /\ builds < MaxBuilds
    /\ builds' = builds + 1
    /\ options' \in OptionSets
    /\ OpenCache
    /\ needed_tasks' = NeededTasks(options'.clean_intermediates, manifest', hashes')
    /\ remaining_consumers' =
           [t \in Tasks |-> IF /\ options'.clean_intermediates /\ ~ options'.dry_run
                               /\ t \in Intermediate
                            THEN Cardinality(Consumers(t)) ELSE 0]
    /\ pc' = "top" /\ outcome' = "open" /\ cut' = {}
    /\ handed_out' = {} /\ done' = {} /\ ready' = {}
    /\ in_flight' = {} /\ done_futures' = {} /\ failed_tasks' = {} /\ result' = NoResult
    /\ worker' = [t \in Tasks |-> "none"] /\ child' = [t \in Tasks |-> "none"]
    /\ active_pgids' = {} /\ shutdown_event' = FALSE /\ pgids' = {}
    /\ UNCHANGED <<disk_vars, log, stops, edits>>

-----------------------------------------------------------------------------
(* The loop of the main thread. *)

ReadyNodes == {t \in Tasks \ handed_out : Deps[t] \subseteq done}

GetReady ==
    /\ pc = "top"
    /\ done # handed_out \/ ReadyNodes # {}
    /\ ready' = ReadyNodes
    /\ handed_out' = handed_out \cup ReadyNodes
    /\ pc' = "schedule"
    /\ UNCHANGED <<disk_vars, cache_vars, options, outcome, done, needed_tasks,
                   remaining_consumers, result_vars, pool_vars, kill_vars, log, tally_vars>>

\* sorter.is_active() is false.
Complete ==
    /\ pc = "top"
    /\ done = handed_out /\ ReadyNodes = {}
    /\ pc' = "save" /\ outcome' = "complete"
    /\ UNCHANGED <<disk_vars, cache_vars, options, sorter_vars, result_vars, pool_vars,
                   kill_vars, log, tally_vars>>

\* Faulty variant: the count is not looked at; the first consumer deletes.
ExhaustedAtFirst(t) == {d \in Deps[t] : remaining_consumers[d] > 0}

\* The intermediates that t is the last consumer of.
Exhausted(t) == {d \in Deps[t] : remaining_consumers[d] = 1}

\* Faulty variant: dependents of a finished task are released, its inputs are kept.
RetireKeepingInputs(t) ==
    /\ done' = done \cup {t}
    /\ UNCHANGED <<remaining_consumers, output, log>>

\* Faulty variant: a count may have been used up before.
RetireCountingDown(t) ==
    /\ done' = done \cup {t}
    /\ remaining_consumers' =
           [d \in Tasks |-> IF d \in Deps[t] /\ options.clean_intermediates
                            THEN remaining_consumers[d] - 1 ELSE remaining_consumers[d]]
    /\ output' = [d \in Tasks |-> IF d \in Exhausted(t) THEN Absent ELSE output[d]]
    /\ log' = log \ Exhausted(t)

Retire(t) ==
    /\ done' = done \cup {t}
    /\ remaining_consumers' =
           [d \in Tasks |-> IF d \in Deps[t] /\ remaining_consumers[d] > 0
                            THEN remaining_consumers[d] - 1 ELSE remaining_consumers[d]]
    /\ output' = [d \in Tasks |-> IF d \in Exhausted(t) THEN Absent ELSE output[d]]
    /\ log' = log \ Exhausted(t)

Scheduling(t) ==
    /\ pc = "schedule" /\ t \in ready
    /\ ready' = ready \ {t}
    /\ UNCHANGED <<source, stored, cache_vars, main_vars, handed_out, needed_tasks,
                   done_futures, child, kill_vars, tally_vars>>

\* Faulty variant: a task is submitted whatever became of its dependencies.
DependencyFailedNever(t) == FALSE

DependencyFailed(t) == \E d \in Deps[t] : d \in failed_tasks

FailForDependency(t) ==
    /\ Scheduling(t)
    /\ DependencyFailed(t)
    /\ failed_tasks' = failed_tasks \cup {t}
    /\ result' = [result EXCEPT !.failed = @ + 1]
    /\ Retire(t)
    /\ UNCHANGED <<in_flight, worker>>

\* Up to date, or printed by a dry run.
Skip(t) ==
    /\ Scheduling(t)
    /\ ~ DependencyFailed(t)
    /\ t \notin needed_tasks \/ options.dry_run
    /\ result' = [result EXCEPT !.skipped = @ + 1]
    /\ Retire(t)
    /\ UNCHANGED <<failed_tasks, in_flight, worker>>

Submit(t) ==
    /\ Scheduling(t)
    /\ ~ DependencyFailed(t)
    /\ t \in needed_tasks /\ ~ options.dry_run
    /\ worker' = [worker EXCEPT ![t] = "queued"]
    /\ in_flight' = in_flight \cup {t}
    /\ UNCHANGED <<done, remaining_consumers, output, log, failed_tasks, result>>

\* Faulty variant: the main thread waits although nothing is in flight.
ScheduledWaits ==
    /\ pc = "schedule" /\ ready = {}
    /\ pc' = "wait"
    /\ UNCHANGED <<disk_vars, cache_vars, options, outcome, sorter_vars, result_vars,
                   pool_vars, kill_vars, log, tally_vars>>

Scheduled ==
    /\ pc = "schedule" /\ ready = {}
    /\ pc' = IF in_flight = {} THEN "top" ELSE "wait"
    /\ UNCHANGED <<disk_vars, cache_vars, options, outcome, sorter_vars, result_vars,
                   pool_vars, kill_vars, log, tally_vars>>

\* wait(..., FIRST_COMPLETED) returns every future that is done by then.
Wait ==
    /\ pc = "wait"
    /\ done_futures' = {t \in in_flight : worker[t] \in Finished}
    /\ done_futures' # {}
    /\ pc' = "record"
    /\ UNCHANGED <<disk_vars, cache_vars, options, outcome, sorter_vars, in_flight,
                   failed_tasks, result, pool_vars, kill_vars, log, tally_vars>>

Recording(t) ==
    /\ pc = "record" /\ t \in done_futures
    /\ done_futures' = done_futures \ {t}
    /\ in_flight' = in_flight \ {t}
    /\ UNCHANGED <<source, stored, options, handed_out, ready, needed_tasks, pool_vars,
                   active_pgids, tally_vars>>

RecordSuccess(t) ==
    /\ Recording(t)
    /\ worker[t] = "succeeded"
    /\ result' = [result EXCEPT !.succeeded = @ + 1]
    /\ RecordInManifest(t)
    /\ Retire(t)
    /\ UNCHANGED <<pc, outcome, failed_tasks, shutdown_event, pgids>>

\* Faulty variant: the error is counted but not kept for the summary.
RecordFailureWithoutError(t) ==
    /\ Recording(t)
    /\ worker[t] = "errored"
    /\ result' = [result EXCEPT !.failed = @ + 1]
    /\ failed_tasks' = failed_tasks \cup {t}
    /\ UNCHANGED cache_vars

RecordFailure(t) ==
    /\ Recording(t)
    /\ worker[t] = "errored"
    /\ result' = [result EXCEPT !.failed = @ + 1, !.errors = @ \cup {t}]
    /\ failed_tasks' = failed_tasks \cup {t}
    /\ UNCHANGED cache_vars

RecordFailureGoOn(t) ==
    /\ RecordFailure(t)
    /\ options.keep_going
    /\ Retire(t)
    /\ UNCHANGED <<pc, outcome, shutdown_event, pgids>>

\* kill_active up to the release of the lock.
KillActive ==
    /\ shutdown_event' = TRUE
    /\ pgids' = active_pgids
    /\ outcome' = "abandoned"

RecordFailureAbort(t) ==
    /\ RecordFailure(t)
    /\ ~ options.keep_going
    /\ KillActive
    /\ pc' = "kill"
    /\ UNCHANGED <<done, remaining_consumers, output, log>>

Recorded ==
    /\ pc = "record" /\ done_futures = {}
    /\ pc' = "top"
    /\ UNCHANGED <<disk_vars, cache_vars, options, outcome, sorter_vars, result_vars,
                   pool_vars, kill_vars, log, tally_vars>>

\* A KeyboardInterrupt in the try block; it may find record_result killing.
Interrupt ==
    /\ pc \in {"top", "schedule", "wait", "record", "kill"} /\ stops < MaxStops
    /\ stops' = stops + 1
    /\ pc' = "caught" /\ outcome' = "abandoned"
    /\ UNCHANGED <<disk_vars, cache_vars, options, sorter_vars, result_vars, pool_vars,
                   kill_vars, log, builds, edits, cut>>

\* except KeyboardInterrupt.
HandleInterrupt ==
    /\ pc = "caught"
    /\ KillActive
    /\ pc' = "handle"
    /\ UNCHANGED <<disk_vars, cache_vars, options, sorter_vars, result_vars, pool_vars,
                   active_pgids, log, tally_vars>>

\* A KeyboardInterrupt in the handler leaves it: what it has not killed lives
\* on, what is queued is not cancelled.
InterruptHandler ==
    /\ pc \in {"caught", "handle"}
    /\ pc' = "save" /\ pgids' = {} /\ cut' = cut \cup {"kill"}
    /\ UNCHANGED <<disk_vars, cache_vars, options, outcome, sorter_vars, result_vars, pool_vars,
                   active_pgids, shutdown_event, log, builds, stops, edits>>

\* SIGKILL to a group; nothing happens when its process has ended.
KillOne(t) ==
    /\ pc \in {"kill", "handle"} /\ t \in pgids
    /\ pgids' = pgids \ {t}
    /\ child' = [child EXCEPT ![t] = IF @ = "alive" THEN "bad" ELSE @]
    /\ UNCHANGED <<disk_vars, cache_vars, main_vars, sorter_vars, result_vars, worker,
                   active_pgids, shutdown_event, log, tally_vars>>

\* executor.shutdown(wait=False, cancel_futures=True)
CancelFutures ==
    /\ worker' = [t \in Tasks |-> IF worker[t] = "queued" THEN "cancelled" ELSE worker[t]]
    /\ UNCHANGED child

\* Faulty variant: only a build that ends well saves.
KilledUnsaved ==
    /\ pc \in {"kill", "handle"} /\ pgids = {}
    /\ CancelFutures
    /\ pc' = "join"
    /\ UNCHANGED <<disk_vars, cache_vars, options, outcome, sorter_vars, result_vars,
                   kill_vars, log, tally_vars>>

Killed ==
    /\ pc \in {"kill", "handle"} /\ pgids = {}
    /\ CancelFutures
    /\ pc' = "save"
    /\ UNCHANGED <<disk_vars, cache_vars, options, outcome, sorter_vars, result_vars,
                   kill_vars, log, tally_vars>>

\* cache.save(), one config dir.
Save(c) ==
    /\ pc = "save"
    /\ SaveManifest(c)
    /\ UNCHANGED <<main_vars, sorter_vars, result_vars, pool_vars, kill_vars, log, tally_vars>>

\* What cuts cache.save() short leaves the finally clause.
CutSave ==
    /\ pc = "save" /\ stops < MaxStops
    /\ stops' = stops + 1
    /\ pc' = "join" /\ cut' = cut \cup {"save"}
    /\ UNCHANGED <<options, outcome, sorter_vars, result_vars, pool_vars, kill_vars, log,
                   builds, edits>>

SaveFails(c) == CutSave /\ SaveManifestFails(c)

InterruptSave == CutSave /\ UNCHANGED <<disk_vars, cache_vars>>

Saved ==
    /\ pc = "save" /\ updated = {}
    /\ pc' = "join"
    /\ UNCHANGED <<disk_vars, cache_vars, options, outcome, sorter_vars, result_vars,
                   pool_vars, kill_vars, log, tally_vars>>

\* ThreadPoolExecutor.__exit__: wait for the workers.  A KeyboardInterrupt here
\* only moves the wait to the exit of the interpreter.
Join ==
    /\ pc = "join"
    /\ \A t \in Tasks : worker[t] \notin Started \cup {"queued"}
    /\ pc' = "idle"
    /\ UNCHANGED <<disk_vars, cache_vars, options, outcome, sorter_vars, result_vars,
                   pool_vars, kill_vars, log, tally_vars>>

\* The machine or container stops, and the tools with it.
Crash ==
    /\ pc # "idle" /\ stops < MaxStops
    /\ stops' = stops + 1
    /\ pc' = "idle" /\ outcome' = "crashed"
    /\ worker' = [t \in Tasks |-> IF worker[t] \in Started \cup {"queued"}
                                  THEN "cancelled" ELSE worker[t]]
    /\ child' = [t \in Tasks |-> IF child[t] = "alive" THEN "bad" ELSE child[t]]
    /\ UNCHANGED <<disk_vars, cache_vars, options, sorter_vars, result_vars, kill_vars,
                   log, builds, edits, cut>>

-----------------------------------------------------------------------------
(* execute_task in a worker, and the subprocess it starts. *)

Work(t, from) ==
    /\ worker[t] = from
    /\ UNCHANGED <<source, stored, cache_vars, main_vars, sorter_vars, result_vars,
                   shutdown_event, pgids, tally_vars>>

Advance(t, to) == worker' = [worker EXCEPT ![t] = to]

Begin(t) ==
    /\ Work(t, "queued")
    /\ Cardinality({u \in Tasks : worker[u] \in Started}) < Jobs
    /\ Advance(t, "starting")
    /\ UNCHANGED <<output, child, active_pgids, log>>

Spawn(t) ==
    /\ Work(t, "starting") /\ Kind[t] = "subprocess"
    /\ Advance(t, "spawned")
    /\ child' = [child EXCEPT ![t] = "alive"]
    /\ UNCHANGED <<output, active_pgids, log>>

SpawnFails(t) ==
    /\ Work(t, "starting") /\ Kind[t] = "subprocess" /\ t \in CanFail
    /\ Advance(t, "errored")
    /\ UNCHANGED <<output, child, active_pgids, log>>

\* Faulty variant: the event is not looked at before registering.
RegisterAlways(t) ==
    /\ Work(t, "spawned")
    /\ Advance(t, "running") /\ active_pgids' = active_pgids \cup {t}
    /\ UNCHANGED <<output, child, log>>

Register(t) ==
    /\ Work(t, "spawned")
    /\ IF shutdown_event
       THEN Advance(t, "doomed") /\ UNCHANGED active_pgids
       ELSE Advance(t, "running") /\ active_pgids' = active_pgids \cup {t}
    /\ UNCHANGED <<output, child, log>>

KillDoomed(t) ==
    /\ Work(t, "doomed")
    /\ Advance(t, "running")
    /\ child' = [child EXCEPT ![t] = IF @ = "alive" THEN "bad" ELSE @]
    /\ UNCHANGED <<output, active_pgids, log>>

\* communicate() returns, the group is discarded.
Communicate(t) ==
    /\ Work(t, "running") /\ child[t] \in {"ok", "bad"}
    /\ active_pgids' = active_pgids \ {t}
    /\ Advance(t, IF StdoutFile[t] # "none" THEN "logging"
                  ELSE IF child[t] = "ok" THEN "succeeded" ELSE "errored")
    /\ UNCHANGED <<output, child, log>>

\* BUILD_STEP_TIMEOUT_SECONDS have passed.
Timeout(t) ==
    /\ Work(t, "running") /\ child[t] = "alive" /\ t \in CanFail
    /\ child' = [child EXCEPT ![t] = "bad"]
    /\ UNCHANGED <<output, worker, active_pgids, log>>

\* stdout_file.write_text, whatever the exit status was.
WriteStdout(t) ==
    /\ Work(t, "logging")
    /\ Advance(t, IF child[t] = "ok" THEN "succeeded" ELSE "errored")
    /\ IF StdoutFile[t] = "output"
       THEN /\ output' = [output EXCEPT ![t] = IF child[t] = "ok" THEN Built(t) ELSE Corrupt]
            /\ UNCHANGED log
       ELSE log' = log \cup {t} /\ UNCHANGED output
    /\ UNCHANGED <<child, active_pgids>>

WriteStdoutFails(t) ==
    /\ Work(t, "logging") /\ t \in CanFail
    /\ Advance(t, "errored")
    /\ IF StdoutFile[t] = "output"
       THEN output' = [output EXCEPT ![t] = Corrupt]
       ELSE UNCHANGED output
    /\ UNCHANGED <<child, active_pgids, log>>

\* action.fn, or the new symlink.
PythonSucceeds(t) ==
    /\ Work(t, "starting") /\ Kind[t] = "python"
    /\ Advance(t, "succeeded")
    /\ output' = [output EXCEPT ![t] = Built(t)]
    /\ UNCHANGED <<child, active_pgids, log>>

PythonFails(t) ==
    /\ Work(t, "starting") /\ Kind[t] = "python" /\ t \in CanFail
    /\ Advance(t, "errored")
    /\ \E left \in {output[t], Corrupt} : output' = [output EXCEPT ![t] = left]
    /\ UNCHANGED <<child, active_pgids, log>>

Tool(t) ==
    /\ child[t] = "alive"
    /\ UNCHANGED <<source, stored, cache_vars, main_vars, sorter_vars, result_vars, worker,
                   kill_vars, log, tally_vars>>

\* The tool opens and fills its output file; the old content is gone.
ToolWrites(t) ==
    /\ Tool(t) /\ StdoutFile[t] # "output" /\ output[t] # Corrupt
    /\ output' = [output EXCEPT ![t] = Corrupt]
    /\ UNCHANGED child

ToolSucceeds(t) ==
    /\ Tool(t)
    /\ child' = [child EXCEPT ![t] = "ok"]
    /\ output' = IF StdoutFile[t] = "output" THEN output
                 ELSE [output EXCEPT ![t] = Built(t)]

ToolFails(t) ==
    /\ Tool(t) /\ t \in CanFail
    /\ child' = [child EXCEPT ![t] = "bad"]
    /\ UNCHANGED output

-----------------------------------------------------------------------------
User == EditSource \/ DeleteOutput \/ StartBuild

Main ==
    \/ GetReady \/ Complete \/ Scheduled \/ Wait \/ Recorded \/ HandleInterrupt \/ Killed
    \/ Saved \/ Join
    \/ \E c \in Configs : Save(c)
    \/ \E t \in Tasks :
           \/ FailForDependency(t) \/ Skip(t) \/ Submit(t)
           \/ RecordSuccess(t) \/ RecordFailureGoOn(t) \/ RecordFailureAbort(t)
           \/ KillOne(t)

Worker(t) ==
    \/ Begin(t) \/ Spawn(t) \/ SpawnFails(t) \/ Register(t) \/ KillDoomed(t)
    \/ Communicate(t) \/ WriteStdout(t) \/ WriteStdoutFails(t)
    \/ PythonSucceeds(t) \/ PythonFails(t)

Process(t) == ToolWrites(t) \/ ToolSucceeds(t) \/ ToolFails(t)

Stop ==
    \/ \E c \in Configs : SaveFails(c)
    \/ InterruptSave \/ Interrupt \/ InterruptHandler \/ Crash

Next ==
    \/ User \/ Main \/ Stop
    \/ \E t \in Tasks : Worker(t) \/ Timeout(t) \/ Process(t)

Spec == Init /\ [][Next]_build_vars

\* Builds one after the other, with nobody at the files in between.
Unedited ==
    \/ StartBuild \/ Main \/ Stop
    \/ \E t \in Tasks : Worker(t) \/ Timeout(t) \/ Process(t)

\* The interpreter runs every thread that can run.
FairSpec ==
    /\ Init /\ [][Unedited]_build_vars
    /\ WF_build_vars(Main) /\ \A t \in Tasks : WF_build_vars(Worker(t))

-----------------------------------------------------------------------------
(* Safety. *)

DagStatus ==
    [t \in Tasks |-> CASE t \in failed_tasks -> "failed"
                       [] t \in done \ failed_tasks -> "done"
                       [] t \in in_flight \ (done \cup failed_tasks) -> "running"
                       [] OTHER -> "waiting"]

DagWalk == IF outcome = "crashed" THEN "abandoned" ELSE outcome

Dag == INSTANCE DagRun WITH status <- DagStatus, walk <- DagWalk

\* Each build is one walk over the graph: no task is attempted twice or before
\* its dependencies are settled and well, failures are inherited, and a build
\* is complete only when every task is settled.
OrderedWalk == Dag!Spec

\* A task that was submitted has its inputs until it has read them: an
\* intermediate is deleted only after its last consumer is through.
InputsPresent ==
    \A t \in Tasks : worker[t] \in Started \cup {"queued"} =>
        \A d \in Deps[t] : output[d] # Absent

\* Once shutdown is signalled, every subprocess that still runs is about to be
\* killed, by the main thread or by its own worker.  An interrupt of the handler
\* may spare the registered ones (build.py:383), and no others.
ShutdownReachesAll ==
    shutdown_event =>
        \A t \in Tasks : child[t] = "alive" =>
            \/ worker[t] \in {"spawned", "doomed"} \/ t \in pgids
            \/ "kill" \in cut /\ t \in active_pgids

\* A build with clean_intermediates that went through all tasks leaves no
\* consumed intermediate and no log of one behind, whatever failed.
CleanLeavesNothing ==
    (outcome = "complete" /\ pc \in {"save", "join"}
        /\ options.clean_intermediates /\ ~ options.dry_run) =>
        \A t \in Intermediate :
            Consumers(t) # {} => output[t] = Absent /\ t \notin log

\* Every task is counted once, and a summary with failures names a reason.
SummaryAddsUp ==
    /\ result.succeeded + result.failed + result.skipped =
           Cardinality(done \cup failed_tasks)
    /\ outcome = "complete" /\ pc # "idle" => done = Tasks
    /\ result.failed > 0 => result.errors # {}

\* However a build ends short of a crash, what it counted as succeeded is in
\* the manifest file afterwards; when an interrupt or an error cuts
\* cache.save() itself short, all but the manifests it had not reached.
RecordedIsSaved ==
    (pc \in {"join", "idle"} /\ outcome # "crashed") =>
        \A t \in done : worker[t] = "succeeded" =>
            \/ stored[t] = hashes[t]
            \/ "save" \in cut /\ ConfigOf[t] \in updated

\* After a build without failures everything it has to keep up to date holds
\* what the present sources make of it.
BuildIsUpToDate ==
    (outcome = "complete" /\ pc \in {"save", "join"}
        /\ ~ options.dry_run /\ result.failed = 0) =>
        \A t \in DemandRoots(options.clean_intermediates) : output[t] = hashes[t]

\* build.py:291: "Skip tasks whose outputs are already up to date."
SkippedIsCurrent ==
    (outcome = "complete" /\ pc \in {"save", "join"} /\ ~ options.dry_run) =>
        \A t \in DemandRoots(options.clean_intermediates) :
            (t \notin needed_tasks /\ t \notin failed_tasks) => output[t] = hashes[t]

(* Liveness. *)

\* A failure or an interrupt ends the build, although no tool ends by itself;
\* unless a second interrupt meets the handler before it has killed them all.
AbortEnds == shutdown_event ~> (pc = "idle" \/ "kill" \in cut)

\* The clock that communicate(timeout) waits on never stops.
TimeoutsFire == \A t \in Tasks : WF_build_vars(Timeout(t))

\* Every build ends, with tools that hang until they time out.
EveryBuildEnds == TimeoutsFire => (pc # "idle" ~> pc = "idle")

=============================================================================
