------------------------------ MODULE BuildHistory ----------------------------
(***************************************************************************)
(* The executor with a history variable: the tasks whose last execution    *)
(* the manifest files do not know of.  It says how far builds that fail,   *)
(* are interrupted or crash can mislead the staleness cache.               *)
(***************************************************************************)
EXTENDS Build

VARIABLE
    lost    \* Executed and not recorded since, or made from the output of such a task.

history_vars == <<build_vars, lost>>

HistoryInit == Init /\ lost = {}

\* From here on the outputs of t are being replaced.
BeginLosing(t) == Begin(t) /\ lost' = lost \cup {t}

\* An execution that is recorded counts if what it read did.
RecordFound(t) ==
    /\ RecordSuccess(t)
    /\ lost' = IF Deps[t] \cap lost = {} THEN lost \ {t} ELSE lost

\* What was recorded since the manifests were read or saved is recorded no more.
StopLosing ==
    /\ Crash \/ InterruptSave \/ \E c \in Configs : SaveFails(c)
    /\ lost' = lost \cup {t \in Tasks : worker[t] = "succeeded" /\ ConfigOf[t] \in updated}

\* The actions that neither start an execution nor record one.
Silent ==
    \/ User \/ Interrupt \/ HandleInterrupt \/ InterruptHandler
    \/ GetReady \/ Complete \/ Scheduled \/ Wait \/ Recorded \/ Killed \/ Saved \/ Join
    \/ \E c \in Configs : Save(c)
    \/ \E t \in Tasks :
           \/ FailForDependency(t) \/ Skip(t) \/ Submit(t)
           \/ RecordFailureGoOn(t) \/ RecordFailureAbort(t) \/ KillOne(t)
           \/ Spawn(t) \/ SpawnFails(t) \/ Register(t) \/ KillDoomed(t) \/ Communicate(t)
           \/ WriteStdout(t) \/ WriteStdoutFails(t) \/ PythonSucceeds(t) \/ PythonFails(t)
           \/ Timeout(t) \/ Process(t)

HistoryNext ==
    \/ Silent /\ UNCHANGED lost
    \/ StopLosing
    \/ \E t \in Tasks : BeginLosing(t) \/ RecordFound(t)

HistorySpec == HistoryInit /\ [][HistoryNext]_history_vars

-----------------------------------------------------------------------------
\* Whatever failed, was interrupted or crashed in earlier builds, and however
\* sources were edited meanwhile: after a build that went through all its tasks
\* an output it answers for is what the present sources make of it, unless the
\* task failed in this build, or its last execution was cut short before the
\* manifest knew of it, or read the output of one that was.
UpToDateUnlessLost ==
    (outcome = "complete" /\ pc \in {"save", "join"} /\ ~ options.dry_run) =>
        \A t \in DemandRoots(options.clean_intermediates) :
            t \notin failed_tasks \cup lost => output[t] = hashes[t]

=============================================================================
