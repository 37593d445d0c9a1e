-------------------------- MODULE BuildHistoryProofs --------------------------
(***************************************************************************)
(* Proof of how far builds that fail, are interrupted or crash can mislead *)
(* the staleness cache.                                                    *)
(***************************************************************************)
EXTENDS BuildHistory, BuildProofs

\* What an execution may have replaced and no record tells is lost.
LostInv ==
    /\ lost \subseteq Tasks
    /\ \A t \in Tasks :
           \/ worker[t] \in Started \cup {"errored"}
           \/ worker[t] = "succeeded" /\ t \notin done
           => t \in lost
    /\ \A t \in Tasks : worker[t] = "starting" => child[t] = "none"

\* The running build's hashes are those of the present sources; an entry that is
\* not in the file yet is of a task that ran in this build, and will be saved, or
\* its task is lost.
RecipeInv ==
    pc # "idle" =>
        /\ hashes = Recipe
        /\ \A t \in Tasks :
               \/ stored[t] = manifest[t]
               \/ ConfigOf[t] \in updated /\ worker[t] = "succeeded"
        /\ pc = "join" => \A t \in Tasks \ lost : stored[t] = manifest[t]

\* What the running build goes by, or the next one will.
Entry(t) == IF pc = "idle" THEN stored[t] ELSE manifest[t]

\* An output that is there and not lost is what its entry says; a task in flight
\* whose inputs are not lost reads current ones and writes a current output.
OutputInv ==
    /\ \A t \in Tasks \ lost :
           output[t] # Absent /\ Entry(t) # Unrecorded => output[t] = Entry(t)
    /\ pc # "idle" =>
           \A t \in in_flight : Deps[t] \cap lost = {} =>
               /\ \A d \in Deps[t] : output[d] = hashes[d]
               /\ \/ worker[t] = "succeeded"
                  \/ child[t] = "ok" /\ StdoutFile[t] # "output"
                  => output[t] = hashes[t]

\* A task that is not needed although a needed task or a user wants its output
\* has the right entry, and so has one that was run; what the user wants is there.
SettledInv ==
    pc # "idle" /\ ~ options.dry_run =>
        /\ \A t \in needed_tasks : \A d \in Deps[t] \ needed_tasks : manifest[d] = hashes[d]
        /\ \A t \in (done \cap needed_tasks) \ failed_tasks : manifest[t] = hashes[t]
        /\ \A t \in DemandRoots(options.clean_intermediates) \ needed_tasks :
               manifest[t] = hashes[t]
        /\ \A t \in DemandRoots(options.clean_intermediates) \ failed_tasks :
               t \notin needed_tasks \/ t \in done => output[t] # Absent

BuildInv == TypeOK /\ WalkInv /\ WorkerInv /\ SavingInv /\ ConsumersInv /\ InputsInv

HistoryInv == BuildInv /\ LostInv /\ RecipeInv /\ OutputInv /\ SettledInv

-----------------------------------------------------------------------------
(* The history variable only watches. *)

LEMMA HistoryWatches ==
    ASSUME [HistoryNext]_history_vars
    PROVE  [Next]_build_vars
BY SavesCut DEF HistoryNext, Silent, User, Process, BeginLosing, RecordFound, StopLosing, Next,
   Main, Stop, Worker, history_vars

LEMMA BuildInvInit == Init => BuildInv
<1> SUFFICES ASSUME Init PROVE BuildInv
  OBVIOUS
<1>1. TypeOK /\ WalkInv /\ WorkerInv
  BY InitType, WalkInit
<1>2. SavingInv /\ ConsumersInv /\ InputsInv
  BY DEF Init, SavingInv, ConsumersInv, Cleaning, InputsInv, InputsPresent, Started
<1> QED BY <1>1, <1>2 DEF BuildInv

LEMMA BuildInvStep ==
    ASSUME BuildInv, [HistoryNext]_history_vars
    PROVE  BuildInv'
BY HistoryWatches, NextType, WalkStep, WorkerStep, SavingStep, ConsumersStep, InputsStep
   DEF BuildInv

LEMMA LostStep ==
    ASSUME BuildInv, LostInv, [HistoryNext]_history_vars
    PROVE  LostInv'
<1>1. ASSUME UNCHANGED <<worker, child, done, lost>>
      PROVE  LostInv'
  BY <1>1 DEF LostInv
<1>2. CASE UNCHANGED lost /\ (EditSource \/ DeleteOutput \/ Handling \/ GetReady \/
             Complete \/ Scheduled \/ Wait \/ Recorded \/ Saved \/ Join)
  BY <1>1, <1>2 DEF EditSource, DeleteOutput, Handling, Interrupt,
     HandleInterrupt, InterruptHandler, KillActive, GetReady,
     ReadyNodes, Complete, Scheduled, Wait, Recorded, Saved, Join, disk_vars,
     cache_vars, main_vars, sorter_vars, result_vars, pool_vars, kill_vars,
     tally_vars
<1>3. ASSUME NEW c \in Configs, Save(c), UNCHANGED lost
      PROVE  LostInv'
  BY <1>1, <1>3 DEF Save, SaveManifest, disk_vars, cache_vars, main_vars,
     sorter_vars, result_vars, pool_vars, kill_vars, tally_vars
<1>4. ASSUME NEW t \in Tasks, UNCHANGED lost,
             RecordFailureAbort(t) \/ ToolWrites(t)
      PROVE  LostInv'
  BY <1>1, <1>4 DEF RecordFailureAbort, RecordFailure, Recording, KillActive,
     ToolWrites, Tool, disk_vars, cache_vars, main_vars, sorter_vars, result_vars,
     pool_vars, kill_vars, tally_vars
<1>5. CASE StartBuild /\ UNCHANGED lost
  BY <1>5 DEF StartBuild, OpenCache, BuildInv, TypeOK, WorkerInv, LostInv, Started,
     Stages, disk_vars, cache_vars, main_vars, sorter_vars, result_vars, pool_vars,
     kill_vars, tally_vars
<1>6. CASE Killed /\ UNCHANGED lost
  BY <1>6 DEF Killed, CancelFutures, BuildInv, TypeOK, WorkerInv, LostInv, Started,
     Stages, disk_vars, cache_vars, main_vars, sorter_vars, result_vars, pool_vars,
     kill_vars, tally_vars
<1>7. CASE StopLosing
  BY <1>7, SavesCut DEF StopLosing, InterruptSave, CutSave, Crash, BuildInv, TypeOK, WorkerInv, LostInv, Started,
     Stages, disk_vars, cache_vars, main_vars, sorter_vars, result_vars, pool_vars,
     kill_vars, tally_vars
<1>8. ASSUME NEW t \in Tasks, FailForDependency(t), UNCHANGED lost
      PROVE  LostInv'
  BY <1>8 DEF FailForDependency, Scheduling, DependencyFailed, Retire, BuildInv,
     TypeOK, WorkerInv, LostInv, Started, Stages, disk_vars, cache_vars, main_vars,
     sorter_vars, result_vars, pool_vars, kill_vars, tally_vars
<1>9. ASSUME NEW t \in Tasks, Skip(t), UNCHANGED lost
      PROVE  LostInv'
  BY <1>9 DEF Skip, Scheduling, DependencyFailed, Retire, BuildInv, TypeOK,
     WorkerInv, LostInv, Started, Stages, disk_vars, cache_vars, main_vars,
     sorter_vars, result_vars, pool_vars, kill_vars, tally_vars
<1>10. ASSUME NEW t \in Tasks, Submit(t), UNCHANGED lost
      PROVE  LostInv'
  BY <1>10 DEF Submit, Scheduling, DependencyFailed, BuildInv, TypeOK, WorkerInv,
     LostInv, Started, Stages, disk_vars, cache_vars, main_vars, sorter_vars,
     result_vars, pool_vars, kill_vars, tally_vars
<1>11. ASSUME NEW t \in Tasks, RecordFailureGoOn(t), UNCHANGED lost
      PROVE  LostInv'
  BY <1>11 DEF RecordFailureGoOn, RecordFailure, Recording, Retire, BuildInv,
     TypeOK, WorkerInv, LostInv, Started, Stages, disk_vars, cache_vars, main_vars,
     sorter_vars, result_vars, pool_vars, kill_vars, tally_vars
<1>12. ASSUME NEW t \in Tasks, KillOne(t), UNCHANGED lost
      PROVE  LostInv'
  BY <1>12 DEF KillOne, BuildInv, TypeOK, WorkerInv, LostInv, Started, Stages,
     disk_vars, cache_vars, main_vars, sorter_vars, result_vars, pool_vars,
     kill_vars, tally_vars
<1>13. ASSUME NEW t \in Tasks, Spawn(t), UNCHANGED lost
      PROVE  LostInv'
  BY <1>13 DEF Spawn, Work, Advance, BuildInv, TypeOK, WorkerInv, LostInv, Started,
     Stages, disk_vars, cache_vars, main_vars, sorter_vars, result_vars, pool_vars,
     kill_vars, tally_vars
<1>14. ASSUME NEW t \in Tasks, SpawnFails(t), UNCHANGED lost
      PROVE  LostInv'
  BY <1>14 DEF SpawnFails, Work, Advance, BuildInv, TypeOK, WorkerInv, LostInv,
     Started, Stages, disk_vars, cache_vars, main_vars, sorter_vars, result_vars,
     pool_vars, kill_vars, tally_vars
<1>15. ASSUME NEW t \in Tasks, Register(t), UNCHANGED lost
      PROVE  LostInv'
  BY <1>15 DEF Register, Work, Advance, BuildInv, TypeOK, WorkerInv, LostInv,
     Started, Stages, disk_vars, cache_vars, main_vars, sorter_vars, result_vars,
     pool_vars, kill_vars, tally_vars
<1>16. ASSUME NEW t \in Tasks, KillDoomed(t), UNCHANGED lost
      PROVE  LostInv'
  BY <1>16 DEF KillDoomed, Work, Advance, BuildInv, TypeOK, WorkerInv, LostInv,
     Started, Stages, disk_vars, cache_vars, main_vars, sorter_vars, result_vars,
     pool_vars, kill_vars, tally_vars
<1>17. ASSUME NEW t \in Tasks, Communicate(t), UNCHANGED lost
      PROVE  LostInv'
  BY <1>17 DEF Communicate, Work, Advance, BuildInv, TypeOK, WorkerInv, LostInv,
     Started, Stages, disk_vars, cache_vars, main_vars, sorter_vars, result_vars,
     pool_vars, kill_vars, tally_vars
<1>18. ASSUME NEW t \in Tasks, WriteStdout(t), UNCHANGED lost
      PROVE  LostInv'
  BY <1>18 DEF WriteStdout, Work, Advance, BuildInv, TypeOK, WorkerInv, LostInv,
     Started, Stages, disk_vars, cache_vars, main_vars, sorter_vars, result_vars,
     pool_vars, kill_vars, tally_vars
<1>19. ASSUME NEW t \in Tasks, WriteStdoutFails(t), UNCHANGED lost
      PROVE  LostInv'
  BY <1>19 DEF WriteStdoutFails, Work, Advance, BuildInv, TypeOK, WorkerInv,
     LostInv, Started, Stages, disk_vars, cache_vars, main_vars, sorter_vars,
     result_vars, pool_vars, kill_vars, tally_vars
<1>20. ASSUME NEW t \in Tasks, PythonSucceeds(t), UNCHANGED lost
      PROVE  LostInv'
  BY <1>20 DEF PythonSucceeds, Work, Advance, BuildInv, TypeOK, WorkerInv, LostInv,
     Started, Stages, disk_vars, cache_vars, main_vars, sorter_vars, result_vars,
     pool_vars, kill_vars, tally_vars
<1>21. ASSUME NEW t \in Tasks, PythonFails(t), UNCHANGED lost
      PROVE  LostInv'
  BY <1>21 DEF PythonFails, Work, Advance, BuildInv, TypeOK, WorkerInv, LostInv,
     Started, Stages, disk_vars, cache_vars, main_vars, sorter_vars, result_vars,
     pool_vars, kill_vars, tally_vars
<1>22. ASSUME NEW t \in Tasks, Timeout(t), UNCHANGED lost
      PROVE  LostInv'
  BY <1>22 DEF Timeout, Work, Advance, BuildInv, TypeOK, WorkerInv, LostInv,
     Started, Stages, disk_vars, cache_vars, main_vars, sorter_vars, result_vars,
     pool_vars, kill_vars, tally_vars
<1>23. ASSUME NEW t \in Tasks, ToolSucceeds(t), UNCHANGED lost
      PROVE  LostInv'
  BY <1>23 DEF ToolSucceeds, Tool, BuildInv, TypeOK, WorkerInv, LostInv, Started,
     Stages, disk_vars, cache_vars, main_vars, sorter_vars, result_vars, pool_vars,
     kill_vars, tally_vars
<1>24. ASSUME NEW t \in Tasks, ToolFails(t), UNCHANGED lost
      PROVE  LostInv'
  BY <1>24 DEF ToolFails, Tool, BuildInv, TypeOK, WorkerInv, LostInv, Started,
     Stages, disk_vars, cache_vars, main_vars, sorter_vars, result_vars, pool_vars,
     kill_vars, tally_vars
<1>25. ASSUME NEW t \in Tasks, BeginLosing(t)
      PROVE  LostInv'
  BY <1>25 DEF BeginLosing, Begin, Work, Advance, BuildInv, TypeOK, WorkerInv,
     LostInv, Started, Stages, disk_vars, cache_vars, main_vars, sorter_vars,
     result_vars, pool_vars, kill_vars, tally_vars
<1>26. ASSUME NEW t \in Tasks, RecordFound(t)
      PROVE  LostInv'
  BY <1>26 DEF RecordFound, RecordSuccess, Recording, RecordInManifest, Retire,
     BuildInv, TypeOK, WorkerInv, LostInv, Started, Stages, disk_vars, cache_vars,
     main_vars, sorter_vars, result_vars, pool_vars, kill_vars, tally_vars
<1>27. CASE UNCHANGED history_vars
  BY <1>1, <1>27 DEF history_vars, build_vars, disk_vars, cache_vars, main_vars,
     sorter_vars, result_vars, pool_vars, kill_vars, tally_vars
<1> QED BY <1>1, <1>2, <1>3, <1>4, <1>5, <1>6, <1>7, <1>8, <1>9, <1>10, <1>11, <1>12,
       <1>13, <1>14, <1>15, <1>16, <1>17, <1>18, <1>19, <1>20, <1>21, <1>22, <1>23, <1>24,
       <1>25, <1>26, <1>27 DEF HistoryNext, Silent, User, Handling, Process

LEMMA RecipeStep ==
    ASSUME BuildInv, RecipeInv, [HistoryNext]_history_vars
    PROVE  RecipeInv'
<1>1. ASSUME UNCHANGED <<source, hashes, stored, manifest, updated, worker, lost>>,
             pc' # "idle" => pc # "idle", pc' = "join" => pc = "join"
      PROVE  RecipeInv'
  BY <1>1 DEF RecipeInv, Recipe, OwnInputs
<1>2. CASE UNCHANGED lost /\ (DeleteOutput \/ Handling \/ GetReady \/ Complete \/ Scheduled \/
             Wait \/ Recorded)
  BY <1>1, <1>2 DEF DeleteOutput, Handling, Interrupt, HandleInterrupt, InterruptHandler,
     KillActive, GetReady, ReadyNodes,
     Complete, Scheduled, Wait, Recorded, Saved, disk_vars, cache_vars, main_vars,
     sorter_vars, result_vars, pool_vars, kill_vars, tally_vars
<1>23. CASE Saved /\ UNCHANGED lost
  BY <1>23 DEF Saved, RecipeInv, Recipe, OwnInputs, disk_vars, cache_vars, pool_vars
<1>3. ASSUME NEW c \in Configs, Save(c), UNCHANGED lost
      PROVE  RecipeInv'
  <2>1. Recipe' = Recipe
    BY <1>3 DEF Save, SaveManifest, Recipe, OwnInputs
  <2> QED BY <1>3, <2>1 DEF Save, SaveManifest, BuildInv, TypeOK, CacheTypeOK, RecipeInv,
     main_vars, pool_vars
<1>4. ASSUME NEW t \in Tasks, UNCHANGED lost,
             FailForDependency(t) \/ Skip(t) \/ RecordFailureGoOn(t) \/
             RecordFailureAbort(t) \/ KillOne(t) \/ ToolWrites(t) \/ ToolSucceeds(t) \/
             ToolFails(t) \/ Timeout(t)
      PROVE  RecipeInv'
  BY <1>1, <1>4 DEF FailForDependency, Scheduling, DependencyFailed, Retire, Skip,
     RecordFailureGoOn, RecordFailure, Recording, RecordFailureAbort, KillActive,
     KillOne, ToolWrites, Tool, ToolSucceeds, ToolFails, Timeout, Work, Advance,
     disk_vars, cache_vars, main_vars, sorter_vars, result_vars, pool_vars,
     kill_vars, tally_vars
<1>5. CASE EditSource /\ UNCHANGED lost
  BY <1>5 DEF EditSource, RecipeInv, disk_vars, cache_vars, main_vars, sorter_vars,
     result_vars, pool_vars, kill_vars, tally_vars
<1>6. CASE StartBuild /\ UNCHANGED lost
  <2>1. Recipe' = Recipe
    BY <1>6 DEF StartBuild, OpenCache, Recipe, OwnInputs, disk_vars, cache_vars,
       main_vars, sorter_vars, result_vars, pool_vars, kill_vars, tally_vars
  <2> QED BY <1>6, <2>1 DEF StartBuild, OpenCache, BuildInv, TypeOK, CacheTypeOK,
     WorkerInv, WalkInv, Loop, RecipeInv, disk_vars, cache_vars, main_vars,
     sorter_vars, result_vars, pool_vars, kill_vars, tally_vars
<1>7. CASE Killed /\ UNCHANGED lost
  <2>1. Recipe' = Recipe
    BY <1>7 DEF Killed, CancelFutures, Recipe, OwnInputs, disk_vars, cache_vars,
       main_vars, sorter_vars, result_vars, pool_vars, kill_vars, tally_vars
  <2> QED BY <1>7, <2>1 DEF Killed, CancelFutures, BuildInv, TypeOK, CacheTypeOK,
     WorkerInv, WalkInv, Loop, RecipeInv, disk_vars, cache_vars, main_vars,
     sorter_vars, result_vars, pool_vars, kill_vars, tally_vars
<1>8. CASE Join /\ UNCHANGED lost
  BY <1>8 DEF Join, RecipeInv
<1>9. CASE StopLosing
  <2>1. CASE Crash
    BY <2>1 DEF Crash, RecipeInv
  <2>2. CASE InterruptSave
    <3>1. Recipe' = Recipe
      BY <2>2 DEF InterruptSave, Recipe, OwnInputs, disk_vars
    <3> QED BY <1>9, <2>2, <3>1 DEF StopLosing, InterruptSave, CutSave, RecipeInv, disk_vars,
       cache_vars, pool_vars
  <2> QED BY <1>9, <2>1, <2>2, SavesCut DEF StopLosing
<1>10. ASSUME NEW t \in Tasks, Submit(t), UNCHANGED lost
      PROVE  RecipeInv'
  <2>1. Recipe' = Recipe
    BY <1>10 DEF Submit, Scheduling, DependencyFailed, Recipe, OwnInputs, disk_vars,
       cache_vars, main_vars, sorter_vars, result_vars, pool_vars, kill_vars,
       tally_vars
  <2> QED BY <1>10, <2>1 DEF Submit, Scheduling, DependencyFailed, BuildInv, TypeOK,
     CacheTypeOK, WorkerInv, WalkInv, Loop, RecipeInv, disk_vars, cache_vars,
     main_vars, sorter_vars, result_vars, pool_vars, kill_vars, tally_vars
<1>11. ASSUME NEW t \in Tasks, Spawn(t), UNCHANGED lost
      PROVE  RecipeInv'
  <2>1. Recipe' = Recipe
    BY <1>11 DEF Spawn, Work, Advance, Recipe, OwnInputs, disk_vars, cache_vars,
       main_vars, sorter_vars, result_vars, pool_vars, kill_vars, tally_vars
  <2> QED BY <1>11, <2>1 DEF Spawn, Work, Advance, BuildInv, TypeOK, CacheTypeOK, WorkerInv,
     WalkInv, Loop, RecipeInv, disk_vars, cache_vars, main_vars, sorter_vars,
     result_vars, pool_vars, kill_vars, tally_vars
<1>12. ASSUME NEW t \in Tasks, SpawnFails(t), UNCHANGED lost
      PROVE  RecipeInv'
  <2>1. Recipe' = Recipe
    BY <1>12 DEF SpawnFails, Work, Advance, Recipe, OwnInputs, disk_vars,
       cache_vars, main_vars, sorter_vars, result_vars, pool_vars, kill_vars,
       tally_vars
  <2> QED BY <1>12, <2>1 DEF SpawnFails, Work, Advance, BuildInv, TypeOK, CacheTypeOK,
     WorkerInv, WalkInv, Loop, RecipeInv, disk_vars, cache_vars, main_vars,
     sorter_vars, result_vars, pool_vars, kill_vars, tally_vars
<1>13. ASSUME NEW t \in Tasks, Register(t), UNCHANGED lost
      PROVE  RecipeInv'
  <2>1. Recipe' = Recipe
    BY <1>13 DEF Register, Work, Advance, Recipe, OwnInputs, disk_vars, cache_vars,
       main_vars, sorter_vars, result_vars, pool_vars, kill_vars, tally_vars
  <2> QED BY <1>13, <2>1 DEF Register, Work, Advance, BuildInv, TypeOK, CacheTypeOK,
     WorkerInv, WalkInv, Loop, RecipeInv, disk_vars, cache_vars, main_vars,
     sorter_vars, result_vars, pool_vars, kill_vars, tally_vars
<1>14. ASSUME NEW t \in Tasks, KillDoomed(t), UNCHANGED lost
      PROVE  RecipeInv'
  <2>1. Recipe' = Recipe
    BY <1>14 DEF KillDoomed, Work, Advance, Recipe, OwnInputs, disk_vars,
       cache_vars, main_vars, sorter_vars, result_vars, pool_vars, kill_vars,
       tally_vars
  <2> QED BY <1>14, <2>1 DEF KillDoomed, Work, Advance, BuildInv, TypeOK, CacheTypeOK,
     WorkerInv, WalkInv, Loop, RecipeInv, disk_vars, cache_vars, main_vars,
     sorter_vars, result_vars, pool_vars, kill_vars, tally_vars
<1>15. ASSUME NEW t \in Tasks, Communicate(t), UNCHANGED lost
      PROVE  RecipeInv'
  <2>1. Recipe' = Recipe
    BY <1>15 DEF Communicate, Work, Advance, Recipe, OwnInputs, disk_vars,
       cache_vars, main_vars, sorter_vars, result_vars, pool_vars, kill_vars,
       tally_vars
  <2> QED BY <1>15, <2>1 DEF Communicate, Work, Advance, BuildInv, TypeOK, CacheTypeOK,
     WorkerInv, WalkInv, Loop, RecipeInv, disk_vars, cache_vars, main_vars,
     sorter_vars, result_vars, pool_vars, kill_vars, tally_vars
<1>16. ASSUME NEW t \in Tasks, WriteStdout(t), UNCHANGED lost
      PROVE  RecipeInv'
  <2>1. Recipe' = Recipe
    BY <1>16 DEF WriteStdout, Work, Advance, Recipe, OwnInputs, disk_vars,
       cache_vars, main_vars, sorter_vars, result_vars, pool_vars, kill_vars,
       tally_vars
  <2> QED BY <1>16, <2>1 DEF WriteStdout, Work, Advance, BuildInv, TypeOK, CacheTypeOK,
     WorkerInv, WalkInv, Loop, RecipeInv, disk_vars, cache_vars, main_vars,
     sorter_vars, result_vars, pool_vars, kill_vars, tally_vars
<1>17. ASSUME NEW t \in Tasks, WriteStdoutFails(t), UNCHANGED lost
      PROVE  RecipeInv'
  <2>1. Recipe' = Recipe
    BY <1>17 DEF WriteStdoutFails, Work, Advance, Recipe, OwnInputs, disk_vars,
       cache_vars, main_vars, sorter_vars, result_vars, pool_vars, kill_vars,
       tally_vars
  <2> QED BY <1>17, <2>1 DEF WriteStdoutFails, Work, Advance, BuildInv, TypeOK, CacheTypeOK,
     WorkerInv, WalkInv, Loop, RecipeInv, disk_vars, cache_vars, main_vars,
     sorter_vars, result_vars, pool_vars, kill_vars, tally_vars
<1>18. ASSUME NEW t \in Tasks, PythonSucceeds(t), UNCHANGED lost
      PROVE  RecipeInv'
  <2>1. Recipe' = Recipe
    BY <1>18 DEF PythonSucceeds, Work, Advance, Recipe, OwnInputs, disk_vars,
       cache_vars, main_vars, sorter_vars, result_vars, pool_vars, kill_vars,
       tally_vars
  <2> QED BY <1>18, <2>1 DEF PythonSucceeds, Work, Advance, BuildInv, TypeOK, CacheTypeOK,
     WorkerInv, WalkInv, Loop, RecipeInv, disk_vars, cache_vars, main_vars,
     sorter_vars, result_vars, pool_vars, kill_vars, tally_vars
<1>19. ASSUME NEW t \in Tasks, PythonFails(t), UNCHANGED lost
      PROVE  RecipeInv'
  <2>1. Recipe' = Recipe
    BY <1>19 DEF PythonFails, Work, Advance, Recipe, OwnInputs, disk_vars,
       cache_vars, main_vars, sorter_vars, result_vars, pool_vars, kill_vars,
       tally_vars
  <2> QED BY <1>19, <2>1 DEF PythonFails, Work, Advance, BuildInv, TypeOK, CacheTypeOK,
     WorkerInv, WalkInv, Loop, RecipeInv, disk_vars, cache_vars, main_vars,
     sorter_vars, result_vars, pool_vars, kill_vars, tally_vars
<1>20. ASSUME NEW t \in Tasks, BeginLosing(t)
      PROVE  RecipeInv'
  <2>1. Recipe' = Recipe
    BY <1>20 DEF BeginLosing, Begin, Work, Advance, Recipe, OwnInputs, disk_vars,
       cache_vars, main_vars, sorter_vars, result_vars, pool_vars, kill_vars,
       tally_vars
  <2> QED BY <1>20, <2>1 DEF BeginLosing, Begin, Work, Advance, BuildInv, TypeOK,
     CacheTypeOK, WorkerInv, WalkInv, Loop, RecipeInv, disk_vars, cache_vars,
     main_vars, sorter_vars, result_vars, pool_vars, kill_vars, tally_vars
<1>21. ASSUME NEW t \in Tasks, RecordFound(t)
      PROVE  RecipeInv'
  <2>1. Recipe' = Recipe
    BY <1>21 DEF RecordFound, RecordSuccess, Recording, RecordInManifest, Retire,
       Recipe, OwnInputs, disk_vars, cache_vars, main_vars, sorter_vars,
       result_vars, pool_vars, kill_vars, tally_vars
  <2> QED BY <1>21, <2>1 DEF RecordFound, RecordSuccess, Recording, RecordInManifest,
     Retire, BuildInv, TypeOK, CacheTypeOK, WorkerInv, WalkInv, Loop, RecipeInv,
     disk_vars, cache_vars, main_vars, sorter_vars, result_vars, pool_vars,
     kill_vars, tally_vars
<1>22. CASE UNCHANGED history_vars
  BY <1>1, <1>22 DEF history_vars, build_vars, disk_vars, cache_vars, main_vars,
     sorter_vars, result_vars, pool_vars, kill_vars, tally_vars
<1> QED BY <1>1, <1>2, <1>3, <1>4, <1>5, <1>6, <1>7, <1>8, <1>9, <1>10, <1>11, <1>12,
       <1>13, <1>14, <1>15, <1>16, <1>17, <1>18, <1>19, <1>20, <1>21, <1>22, <1>23 DEF HistoryNext,
       Silent, User, Handling, Process

-----------------------------------------------------------------------------
(* What the steps that touch outputs leave alone. *)

\* Whoever is about to write an output is executing its task, which is lost and
\* which no task in flight depends on.
LEMMA WriterIsLost ==
    ASSUME BuildInv, LostInv, NEW t \in Tasks,
           worker[t] \in Started \/ child[t] = "alive"
    PROVE  /\ t \in lost /\ t \notin done /\ pc # "idle"
           /\ \A u \in in_flight : u \in Tasks /\ t \notin Deps[u]
<1>1. worker[t] \in Started
  BY DEF BuildInv, WorkerInv, Started
<1>2. t \in lost /\ t \notin done /\ pc # "idle"
  BY <1>1 DEF BuildInv, WorkerInv, LostInv, Started, Finished
<1>3. \A u \in in_flight : u \in Tasks /\ Deps[u] \subseteq done
  BY DEF BuildInv, TypeOK, WalkInv
<1> QED BY <1>2, <1>3

\* A task that ends keeps what the user wants, what the tasks in flight read and
\* what they have written.
LEMMA RetireSpares ==
    ASSUME BuildInv, pc # "idle", NEW t \in handed_out \ done, Retire(t)
    PROVE  /\ \A u \in Tasks : output'[u] \in {output[u], Absent}
           /\ \A u \in in_flight \ {t} : \A d \in Deps[u] \cup {u} : output'[d] = output[d]
           /\ \A u \in DemandRoots(options.clean_intermediates) : output'[u] = output[u]
           /\ output'[t] = output[t]
<1>1. t \in Tasks /\ Deps[t] \subseteq done /\ in_flight \subseteq Tasks \ done
  BY DEF BuildInv, TypeOK, WalkInv
<1>2. \A u \in Tasks : output'[u] \in {output[u], Absent}
  BY <1>1 DEF Retire
<1>3. \A u \in Tasks \ done : output'[u] = output[u]
  BY <1>1, RetireOnlyDeletes DEF BuildInv
<1>4. \A u \in in_flight \ {t} : \A d \in Deps[u] : output'[d] = output[d]
  BY <1>1, RetireKeeps DEF BuildInv
<1>5. \A u \in DemandRoots(options.clean_intermediates) : u \in Tasks /\ u \notin Exhausted(t)
  BY <1>1, DemandedStays DEF BuildInv, DemandRoots
<1>6. \A u \in DemandRoots(options.clean_intermediates) : output'[u] = output[u]
  BY <1>5 DEF Retire
<1> QED BY <1>1, <1>2, <1>3, <1>4, <1>6

\* What is recorded was made.
LEMMA RecordedIsThere ==
    ASSUME BuildInv, NEW t \in Tasks, RecordSuccess(t)
    PROVE  output[t] # Absent /\ t \in in_flight /\ t \in handed_out \ done
BY DEF BuildInv, WalkInv, Loop, InputsInv, RecordSuccess, Recording

LEMMA SettledStep ==
    ASSUME BuildInv, LostInv, SettledInv, [HistoryNext]_history_vars
    PROVE  SettledInv'
<1>1. ASSUME UNCHANGED <<options, needed_tasks, done, failed_tasks, manifest, hashes>>,
             pc' # "idle" => pc # "idle",
             \A u \in Tasks : output'[u] = output[u] \/ output'[u] # Absent
      PROVE  SettledInv'
  BY <1>1 DEF SettledInv, DemandRoots, IsDeliverable
<1>2. CASE (EditSource \/ Handling \/ GetReady \/ Complete \/ Scheduled \/ Wait \/
             Recorded \/ Killed \/ Saved \/ Join \/ StopLosing)
  BY <1>1, <1>2, SavesCut DEF EditSource, Handling, Interrupt, HandleInterrupt,
     InterruptHandler, KillActive, GetReady, ReadyNodes,
     Complete, Scheduled, Wait, Recorded, Killed, CancelFutures, Saved, Join,
     StopLosing, InterruptSave, CutSave, Crash, disk_vars, cache_vars, main_vars, sorter_vars,
     result_vars, pool_vars, kill_vars, tally_vars
<1>3. ASSUME NEW c \in Configs, Save(c), UNCHANGED lost
      PROVE  SettledInv'
  BY <1>1, <1>3 DEF Save, SaveManifest, disk_vars, cache_vars, main_vars,
     sorter_vars, result_vars, pool_vars, kill_vars, tally_vars
<1>4. ASSUME NEW t \in Tasks,
             Submit(t) \/ KillOne(t) \/ Spawn(t) \/ SpawnFails(t) \/ Register(t) \/
             KillDoomed(t) \/ Communicate(t) \/ Timeout(t) \/ ToolFails(t) \/
             BeginLosing(t)
      PROVE  SettledInv'
  BY <1>1, <1>4 DEF Submit, Scheduling, DependencyFailed, KillOne, Spawn, Work,
     Advance, SpawnFails, Register, KillDoomed, Communicate, Timeout, ToolFails,
     Tool, BeginLosing, Begin, disk_vars, cache_vars, main_vars, sorter_vars,
     result_vars, pool_vars, kill_vars, tally_vars
<1>5. CASE DeleteOutput /\ UNCHANGED lost
  BY <1>5 DEF DeleteOutput, SettledInv, main_vars
<1>6. CASE StartBuild /\ UNCHANGED lost
  <2>1. /\ needed_tasks' = NeededTasks(options'.clean_intermediates, manifest', hashes')
        /\ done' = {} /\ output' = output
    BY <1>6 DEF StartBuild, disk_vars
  <2>2. \A t \in needed_tasks' : \A d \in Deps[t] \ needed_tasks' : manifest'[d] = hashes'[d]
    BY <2>1, NeededClosed2
  <2>3. \A t \in DemandRoots(options'.clean_intermediates) \ needed_tasks' :
            manifest'[t] = hashes'[t] /\ output[t] # Absent
    BY <2>1, NeededRoots
  <2>4. \A c : DemandRoots(c)' = DemandRoots(c)
    BY DEF DemandRoots, IsDeliverable
  <2> QED BY <2>1, <2>2, <2>3, <2>4 DEF SettledInv
<1>7. ASSUME NEW t \in Tasks, FailForDependency(t), UNCHANGED lost
      PROVE  SettledInv'
  <2>1. /\ t \in handed_out \ done /\ pc # "idle" /\ Retire(t) /\ done' = done \cup {t}
        /\ UNCHANGED <<options, needed_tasks, manifest, hashes, pc>>
        /\ failed_tasks' = failed_tasks \cup {t}
    BY <1>7 DEF FailForDependency, Scheduling, Retire, BuildInv, WalkInv, TypeOK,
       main_vars, cache_vars
  <2>2. \A u \in DemandRoots(options.clean_intermediates) : output'[u] = output[u]
    BY <2>1, RetireSpares
  <2>3. \A c : DemandRoots(c)' = DemandRoots(c)
    BY DEF DemandRoots, IsDeliverable
  <2> QED BY <2>1, <2>2, <2>3 DEF SettledInv
<1>8. ASSUME NEW t \in Tasks, Skip(t), UNCHANGED lost
      PROVE  SettledInv'
  <2>1. /\ t \in handed_out \ done /\ pc # "idle" /\ Retire(t) /\ done' = done \cup {t}
        /\ UNCHANGED <<options, needed_tasks, manifest, hashes, pc>>
        /\ failed_tasks' = failed_tasks /\ (t \notin needed_tasks \/ options.dry_run)
    BY <1>8 DEF Skip, Scheduling, Retire, BuildInv, WalkInv, TypeOK, main_vars,
       cache_vars
  <2>2. \A u \in DemandRoots(options.clean_intermediates) : output'[u] = output[u]
    BY <2>1, RetireSpares
  <2>3. \A c : DemandRoots(c)' = DemandRoots(c)
    BY DEF DemandRoots, IsDeliverable
  <2> QED BY <2>1, <2>2, <2>3 DEF SettledInv
<1>9. ASSUME NEW t \in Tasks, RecordFailureGoOn(t), UNCHANGED lost
      PROVE  SettledInv'
  <2>1. /\ t \in handed_out \ done /\ pc # "idle" /\ Retire(t) /\ done' = done \cup {t}
        /\ UNCHANGED <<options, needed_tasks, manifest, hashes, pc>>
        /\ failed_tasks' = failed_tasks \cup {t}
    BY <1>9 DEF RecordFailureGoOn, RecordFailure, Recording, Retire, BuildInv,
       WalkInv, TypeOK, main_vars, cache_vars
  <2>2. \A u \in DemandRoots(options.clean_intermediates) : output'[u] = output[u]
    BY <2>1, RetireSpares
  <2>3. \A c : DemandRoots(c)' = DemandRoots(c)
    BY DEF DemandRoots, IsDeliverable
  <2> QED BY <2>1, <2>2, <2>3 DEF SettledInv
<1>10. ASSUME NEW t \in Tasks, RecordFailureAbort(t), UNCHANGED lost
      PROVE  SettledInv'
  BY <1>10 DEF RecordFailureAbort, RecordFailure, Recording, KillActive, SettledInv,
     DemandRoots, IsDeliverable, cache_vars
<1>11. ASSUME NEW t \in Tasks, WriteStdout(t), UNCHANGED lost
      PROVE  SettledInv'
  <2>1. \A u \in Tasks : output'[u] = output[u] \/ output'[u] # Absent
    BY <1>11, BuiltType, ContentAssumption DEF WriteStdout, Work, Advance, BuildInv,
       TypeOK, CacheTypeOK
  <2> QED BY <1>1, <1>11, <2>1 DEF WriteStdout, Work, Advance, disk_vars, cache_vars,
     main_vars, sorter_vars, result_vars, pool_vars, kill_vars, tally_vars
<1>12. ASSUME NEW t \in Tasks, WriteStdoutFails(t), UNCHANGED lost
      PROVE  SettledInv'
  <2>1. \A u \in Tasks : output'[u] = output[u] \/ output'[u] # Absent
    BY <1>12, BuiltType, ContentAssumption DEF WriteStdoutFails, Work, Advance,
       BuildInv, TypeOK, CacheTypeOK
  <2> QED BY <1>1, <1>12, <2>1 DEF WriteStdoutFails, Work, Advance, disk_vars, cache_vars,
     main_vars, sorter_vars, result_vars, pool_vars, kill_vars, tally_vars
<1>13. ASSUME NEW t \in Tasks, PythonSucceeds(t), UNCHANGED lost
      PROVE  SettledInv'
  <2>1. \A u \in Tasks : output'[u] = output[u] \/ output'[u] # Absent
    BY <1>13, BuiltType, ContentAssumption DEF PythonSucceeds, Work, Advance,
       BuildInv, TypeOK, CacheTypeOK
  <2> QED BY <1>1, <1>13, <2>1 DEF PythonSucceeds, Work, Advance, disk_vars, cache_vars,
     main_vars, sorter_vars, result_vars, pool_vars, kill_vars, tally_vars
<1>14. ASSUME NEW t \in Tasks, PythonFails(t), UNCHANGED lost
      PROVE  SettledInv'
  <2>1. \A u \in Tasks : output'[u] = output[u] \/ output'[u] # Absent
    BY <1>14, BuiltType, ContentAssumption DEF PythonFails, Work, Advance, BuildInv,
       TypeOK, CacheTypeOK
  <2> QED BY <1>1, <1>14, <2>1 DEF PythonFails, Work, Advance, disk_vars, cache_vars,
     main_vars, sorter_vars, result_vars, pool_vars, kill_vars, tally_vars
<1>15. ASSUME NEW t \in Tasks, ToolWrites(t), UNCHANGED lost
      PROVE  SettledInv'
  <2>1. \A u \in Tasks : output'[u] = output[u] \/ output'[u] # Absent
    BY <1>15, BuiltType, ContentAssumption DEF ToolWrites, Tool, BuildInv, TypeOK,
       CacheTypeOK
  <2> QED BY <1>1, <1>15, <2>1 DEF ToolWrites, Tool, disk_vars, cache_vars, main_vars,
     sorter_vars, result_vars, pool_vars, kill_vars, tally_vars
<1>16. ASSUME NEW t \in Tasks, ToolSucceeds(t), UNCHANGED lost
      PROVE  SettledInv'
  <2>1. \A u \in Tasks : output'[u] = output[u] \/ output'[u] # Absent
    BY <1>16, BuiltType, ContentAssumption DEF ToolSucceeds, Tool, BuildInv, TypeOK,
       CacheTypeOK
  <2> QED BY <1>1, <1>16, <2>1 DEF ToolSucceeds, Tool, disk_vars, cache_vars, main_vars,
     sorter_vars, result_vars, pool_vars, kill_vars, tally_vars
<1>17. ASSUME NEW t \in Tasks, RecordFound(t)
      PROVE  SettledInv'
  <2>1. /\ t \in handed_out \ done /\ pc # "idle" /\ Retire(t) /\ done' = done \cup {t}
        /\ UNCHANGED <<options, needed_tasks, hashes, pc, failed_tasks>>
        /\ manifest' = [manifest EXCEPT ![t] = hashes[t]]
    BY <1>17 DEF RecordFound, RecordSuccess, Recording, RecordInManifest, Retire, BuildInv,
       WalkInv, TypeOK
  <2>2. \A u \in DemandRoots(options.clean_intermediates) : output'[u] = output[u]
    BY <2>1, RetireSpares
  <2>3. output[t] # Absent
    BY <1>17, RecordedIsThere DEF RecordFound
  <2>4. \A u \in Tasks : manifest[u] = hashes[u] \/ u = t => manifest'[u] = hashes[u]
    BY <2>1 DEF BuildInv, TypeOK, CacheTypeOK
  <2>5. /\ needed_tasks \subseteq Tasks
        /\ \A c : DemandRoots(c) \subseteq Tasks /\ DemandRoots(c)' = DemandRoots(c)
    BY DEF BuildInv, TypeOK, DemandRoots, IsDeliverable
  <2> QED BY <2>1, <2>2, <2>3, <2>4, <2>5, GraphAssumption DEF SettledInv
<1>18. CASE UNCHANGED history_vars
  BY <1>1, <1>18 DEF history_vars, build_vars, disk_vars, cache_vars, main_vars,
     sorter_vars, result_vars, pool_vars, kill_vars, tally_vars
<1> QED BY <1>1, <1>2, <1>3, <1>4, <1>5, <1>6, <1>7, <1>8, <1>9, <1>10, <1>11, <1>12,
       <1>13, <1>14, <1>15, <1>16, <1>17, <1>18 DEF HistoryNext, Silent, User, Handling, Process

-----------------------------------------------------------------------------
(* What outputs hold. *)

\* A task in flight with current inputs makes of them what its recipe says.
LEMMA BuiltFromCurrent ==
    ASSUME BuildInv, RecipeInv, OutputInv, pc # "idle",
           NEW t \in in_flight, Deps[t] \cap lost = {}
    PROVE  Built(t) = hashes[t]
<1>1. t \in Tasks /\ Deps[t] \subseteq Tasks
  BY GraphAssumption DEF BuildInv, TypeOK
<1>2. \A d \in Tasks : hashes[d] \notin {Absent, Corrupt}
  BY ContentAssumption DEF BuildInv, TypeOK, CacheTypeOK, Hash
<1>3. \A d \in Deps[t] : output[d] = hashes[d]
  BY DEF OutputInv
<1>4. Built(t) = OwnInputs(t) \cup UNION {hashes[d] : d \in Deps[t]}
  BY <1>1, <1>2, <1>3 DEF Built
<1> QED BY <1>1, <1>4, RecipeUnfolds DEF RecipeInv

\* An input of a task that is submitted is current unless it is lost.
LEMMA SubmittedReads ==
    ASSUME BuildInv, SettledInv, OutputInv, NEW t \in Tasks, Submit(t),
           NEW d \in Deps[t] \ lost
    PROVE  output[d] = hashes[d]
<1>1. /\ t \in needed_tasks \ done /\ ~ options.dry_run /\ outcome = "open" /\ pc # "idle"
      /\ d \in Tasks /\ d \in done \ failed_tasks
  BY GraphAssumption DEF Submit, Scheduling, DependencyFailed, BuildInv, TypeOK, WalkInv, Loop
<1>2. manifest[d] = hashes[d]
  BY <1>1 DEF SettledInv
<1>3. output[d] # Absent
  BY <1>1 DEF BuildInv, InputsInv
<1>4. manifest[d] # Unrecorded
  BY <1>1, <1>2, ContentAssumption DEF BuildInv, TypeOK, CacheTypeOK, Hash
<1> QED BY <1>1, <1>2, <1>3, <1>4 DEF OutputInv, Entry

LEMMA OutputStep ==
    ASSUME BuildInv, LostInv, RecipeInv, SettledInv, OutputInv, [HistoryNext]_history_vars
    PROVE  OutputInv'
<1>1. ASSUME lost \subseteq lost', pc' # "idle" => pc # "idle" /\ hashes' = hashes,
             \A t \in Tasks \ lost' : output'[t] \in {output[t], Absent} /\ Entry(t)' = Entry(t),
             pc' # "idle" =>
                 \A t \in in_flight' :
                     /\ t \in in_flight
                     /\ \A d \in Deps[t] \cup {t} : output'[d] = output[d]
                     /\ \/ worker'[t] = "succeeded"
                        \/ child'[t] = "ok" /\ StdoutFile[t] # "output"
                        => \/ worker[t] = "succeeded"
                           \/ child[t] = "ok" /\ StdoutFile[t] # "output"
      PROVE  OutputInv'
  BY <1>1 DEF OutputInv
<1>2. CASE UNCHANGED lost /\ (EditSource \/ Handling \/ GetReady \/ Complete \/ Scheduled \/
             Wait \/ Recorded \/ Saved)
  BY <1>1, <1>2 DEF EditSource, Handling, Interrupt, HandleInterrupt, InterruptHandler,
     KillActive, GetReady, ReadyNodes,
     Complete, Scheduled, Wait, Recorded, Saved, Entry, BuildInv, WalkInv, Loop,
     TypeOK, disk_vars, cache_vars, main_vars, sorter_vars, result_vars, pool_vars,
     kill_vars, tally_vars
<1>3. ASSUME NEW c \in Configs, Save(c), UNCHANGED lost
      PROVE  OutputInv'
  BY <1>1, <1>3 DEF Save, SaveManifest, Entry, BuildInv, WalkInv, Loop, TypeOK,
     CacheTypeOK, disk_vars, cache_vars, main_vars, sorter_vars, result_vars,
     pool_vars, kill_vars, tally_vars
<1>4. ASSUME NEW t \in Tasks, UNCHANGED lost,
             RecordFailureAbort(t) \/ KillOne(t) \/ Spawn(t) \/ SpawnFails(t) \/
             Register(t) \/ KillDoomed(t) \/ Communicate(t) \/ Timeout(t) \/
             ToolFails(t)
      PROVE  OutputInv'
  BY <1>1, <1>4 DEF RecordFailureAbort, RecordFailure, Recording, KillActive,
     KillOne, Spawn, Work, Advance, SpawnFails, Register, KillDoomed, Communicate,
     Timeout, ToolFails, Tool, Entry, BuildInv, WalkInv, Loop, TypeOK, disk_vars,
     cache_vars, main_vars, sorter_vars, result_vars, pool_vars, kill_vars,
     tally_vars
<1>5. CASE DeleteOutput /\ UNCHANGED lost
  BY <1>1, <1>5 DEF DeleteOutput, Entry, BuildInv, WorkerInv, WalkInv, Loop,
     TypeOK, CacheTypeOK, disk_vars, cache_vars, main_vars, sorter_vars,
     result_vars, pool_vars, kill_vars, tally_vars
<1>6. CASE StartBuild /\ UNCHANGED lost
  BY <1>6 DEF StartBuild, OpenCache, OutputInv, Entry, BuildInv, TypeOK,
     CacheTypeOK, disk_vars
<1>7. CASE Killed /\ UNCHANGED lost
  BY <1>1, <1>7 DEF Killed, CancelFutures, Entry, BuildInv, WorkerInv, WalkInv,
     Loop, TypeOK, CacheTypeOK, disk_vars, cache_vars, main_vars, sorter_vars,
     result_vars, pool_vars, kill_vars, tally_vars
<1>8. CASE Join /\ UNCHANGED lost
  <2>1. \A t \in Tasks \ lost : stored[t] = manifest[t]
    BY <1>8 DEF Join, RecipeInv
  <2> QED BY <1>1, <1>8, <2>1 DEF Join, Entry, disk_vars, cache_vars
<1>9. CASE StopLosing
  <2>1. CASE Crash
    <3>1. \A t \in Tasks \ lost' : stored[t] = manifest[t]
      BY <1>9, <2>1 DEF StopLosing, Crash, RecipeInv
    <3> QED BY <1>1, <1>9, <2>1, <3>1 DEF StopLosing, Crash, Entry, disk_vars, cache_vars
  <2>2. CASE InterruptSave
    <3>1. /\ UNCHANGED <<output, stored, manifest, hashes, in_flight, worker, child>>
          /\ lost \subseteq lost' /\ pc = "save" /\ pc' = "join"
      BY <1>9, <2>2 DEF StopLosing, InterruptSave, CutSave, disk_vars, cache_vars,
         result_vars, pool_vars
    <3>2. \A t \in Tasks : Entry(t)' = Entry(t)
      BY <3>1 DEF Entry
    <3> QED BY <1>1, <3>1, <3>2
  <2> QED BY <1>9, <2>1, <2>2, SavesCut DEF StopLosing
<1>10. ASSUME NEW t \in Tasks, FailForDependency(t), UNCHANGED lost
      PROVE  OutputInv'
  <2>1. /\ t \in handed_out \ done /\ pc # "idle" /\ Retire(t)
        /\ UNCHANGED <<manifest, hashes, pc, worker, child, lost>>
        /\ in_flight' \subseteq in_flight \ {t}
    BY <1>10 DEF FailForDependency, Scheduling, BuildInv, WalkInv, TypeOK,
       main_vars, cache_vars, pool_vars
  <2>2. /\ \A u \in Tasks : output'[u] \in {output[u], Absent}
        /\ \A u \in in_flight' : \A d \in Deps[u] \cup {u} : output'[d] = output[d]
    BY <2>1, RetireSpares
  <2> QED BY <1>1, <2>1, <2>2 DEF Entry
<1>11. ASSUME NEW t \in Tasks, Skip(t), UNCHANGED lost
      PROVE  OutputInv'
  <2>1. /\ t \in handed_out \ done /\ pc # "idle" /\ Retire(t)
        /\ UNCHANGED <<manifest, hashes, pc, worker, child, lost>>
        /\ in_flight' \subseteq in_flight \ {t}
    BY <1>11 DEF Skip, Scheduling, BuildInv, WalkInv, TypeOK, main_vars, cache_vars,
       pool_vars
  <2>2. /\ \A u \in Tasks : output'[u] \in {output[u], Absent}
        /\ \A u \in in_flight' : \A d \in Deps[u] \cup {u} : output'[d] = output[d]
    BY <2>1, RetireSpares
  <2> QED BY <1>1, <2>1, <2>2 DEF Entry
<1>12. ASSUME NEW t \in Tasks, Submit(t), UNCHANGED lost
      PROVE  OutputInv'
  <2>1. /\ pc # "idle" /\ in_flight' = in_flight \cup {t}
        /\ worker' = [worker EXCEPT ![t] = "queued"] /\ child[t] = "none"
        /\ UNCHANGED <<output, child, manifest, stored, hashes, pc>>
    BY <1>12 DEF Submit, Scheduling, BuildInv, WorkerInv, WalkInv, main_vars, cache_vars
  <2>2. \A d \in Deps[t] \ lost : output[d] = hashes[d]
    BY <1>12, SubmittedReads
  <2>3. \A u \in Tasks : Entry(u)' = Entry(u)
    BY <2>1 DEF Entry
  <2>4. in_flight \subseteq Tasks /\ worker \in [Tasks -> Stages]
    BY DEF BuildInv, TypeOK
  <2> QED BY <1>12, <2>1, <2>2, <2>3, <2>4 DEF OutputInv
<1>13. ASSUME NEW t \in Tasks, RecordFailureGoOn(t), UNCHANGED lost
      PROVE  OutputInv'
  <2>1. /\ t \in handed_out \ done /\ pc # "idle" /\ Retire(t)
        /\ UNCHANGED <<manifest, hashes, pc, worker, child, lost>>
        /\ in_flight' \subseteq in_flight \ {t}
    BY <1>13 DEF RecordFailureGoOn, RecordFailure, Recording, BuildInv, WalkInv,
       TypeOK, main_vars, cache_vars, pool_vars
  <2>2. /\ \A u \in Tasks : output'[u] \in {output[u], Absent}
        /\ \A u \in in_flight' : \A d \in Deps[u] \cup {u} : output'[d] = output[d]
    BY <2>1, RetireSpares
  <2> QED BY <1>1, <2>1, <2>2 DEF Entry
<1>14. ASSUME NEW t \in Tasks, WriteStdout(t), UNCHANGED lost
      PROVE  OutputInv'
  <2>1. /\ t \in lost /\ pc # "idle"
        /\ \A u \in in_flight : u \in Tasks /\ t \notin Deps[u]
    BY <1>14, WriterIsLost DEF WriteStdout, Work, Advance, Started
  <2>2. /\ \A u \in Tasks \ {t} :
               output'[u] = output[u] /\ worker'[u] = worker[u] /\ child'[u] = child[u]
        /\ UNCHANGED <<hashes, manifest, stored, pc, in_flight>>
    BY <1>14 DEF WriteStdout, Work, Advance, BuildInv, TypeOK, CacheTypeOK,
       disk_vars, cache_vars, main_vars, sorter_vars, result_vars, pool_vars,
       kill_vars, tally_vars
  <2>3. \A u \in Tasks \ lost : output'[u] = output[u] /\ Entry(u)' = Entry(u)
    BY <2>1, <2>2 DEF Entry
  <2>4. \A u \in in_flight : \A d \in Deps[u] : output'[d] = output[d]
    BY <2>1, <2>2, GraphAssumption
  <2>5. ASSUME t \in in_flight, Deps[t] \cap lost = {},
               \/ worker'[t] = "succeeded"
               \/ child'[t] = "ok" /\ StdoutFile[t] # "output"
        PROVE  output'[t] = hashes[t]
    <3>1. Built(t) = hashes[t]
      BY <2>1, <2>5, BuiltFromCurrent
    <3> QED BY <1>14, <2>1, <2>5, <3>1, BuildAssumption DEF WriteStdout, Work, Advance,
       BuildInv, TypeOK, CacheTypeOK, WorkerInv, LostInv, OutputInv, pool_vars
  <2> QED BY <1>14, <2>1, <2>2, <2>3, <2>4, <2>5 DEF OutputInv
<1>15. ASSUME NEW t \in Tasks, WriteStdoutFails(t), UNCHANGED lost
      PROVE  OutputInv'
  <2>1. /\ t \in lost /\ pc # "idle"
        /\ \A u \in in_flight : u \in Tasks /\ t \notin Deps[u]
    BY <1>15, WriterIsLost DEF WriteStdoutFails, Work, Advance, Started
  <2>2. /\ \A u \in Tasks \ {t} :
               output'[u] = output[u] /\ worker'[u] = worker[u] /\ child'[u] = child[u]
        /\ UNCHANGED <<hashes, manifest, stored, pc, in_flight>>
    BY <1>15 DEF WriteStdoutFails, Work, Advance, BuildInv, TypeOK, CacheTypeOK,
       disk_vars, cache_vars, main_vars, sorter_vars, result_vars, pool_vars,
       kill_vars, tally_vars
  <2>3. \A u \in Tasks \ lost : output'[u] = output[u] /\ Entry(u)' = Entry(u)
    BY <2>1, <2>2 DEF Entry
  <2>4. \A u \in in_flight : \A d \in Deps[u] : output'[d] = output[d]
    BY <2>1, <2>2, GraphAssumption
  <2>5. ASSUME t \in in_flight, Deps[t] \cap lost = {},
               \/ worker'[t] = "succeeded"
               \/ child'[t] = "ok" /\ StdoutFile[t] # "output"
        PROVE  output'[t] = hashes[t]
    BY <1>15, <2>1, <2>5, BuildAssumption DEF WriteStdoutFails, Work, Advance,
       BuildInv, TypeOK, CacheTypeOK, WorkerInv, LostInv, OutputInv, pool_vars
  <2> QED BY <1>15, <2>1, <2>2, <2>3, <2>4, <2>5 DEF OutputInv
<1>16. ASSUME NEW t \in Tasks, PythonSucceeds(t), UNCHANGED lost
      PROVE  OutputInv'
  <2>1. /\ t \in lost /\ pc # "idle"
        /\ \A u \in in_flight : u \in Tasks /\ t \notin Deps[u]
    BY <1>16, WriterIsLost DEF PythonSucceeds, Work, Advance, Started
  <2>2. /\ \A u \in Tasks \ {t} :
               output'[u] = output[u] /\ worker'[u] = worker[u] /\ child'[u] = child[u]
        /\ UNCHANGED <<hashes, manifest, stored, pc, in_flight>>
    BY <1>16 DEF PythonSucceeds, Work, Advance, BuildInv, TypeOK, CacheTypeOK,
       disk_vars, cache_vars, main_vars, sorter_vars, result_vars, pool_vars,
       kill_vars, tally_vars
  <2>3. \A u \in Tasks \ lost : output'[u] = output[u] /\ Entry(u)' = Entry(u)
    BY <2>1, <2>2 DEF Entry
  <2>4. \A u \in in_flight : \A d \in Deps[u] : output'[d] = output[d]
    BY <2>1, <2>2, GraphAssumption
  <2>5. ASSUME t \in in_flight, Deps[t] \cap lost = {},
               \/ worker'[t] = "succeeded"
               \/ child'[t] = "ok" /\ StdoutFile[t] # "output"
        PROVE  output'[t] = hashes[t]
    <3>1. Built(t) = hashes[t]
      BY <2>1, <2>5, BuiltFromCurrent
    <3> QED BY <1>16, <2>1, <2>5, <3>1, BuildAssumption DEF PythonSucceeds, Work, Advance,
       BuildInv, TypeOK, CacheTypeOK, WorkerInv, LostInv, OutputInv, pool_vars
  <2> QED BY <1>16, <2>1, <2>2, <2>3, <2>4, <2>5 DEF OutputInv
<1>17. ASSUME NEW t \in Tasks, PythonFails(t), UNCHANGED lost
      PROVE  OutputInv'
  <2>1. /\ t \in lost /\ pc # "idle"
        /\ \A u \in in_flight : u \in Tasks /\ t \notin Deps[u]
    BY <1>17, WriterIsLost DEF PythonFails, Work, Advance, Started
  <2>2. /\ \A u \in Tasks \ {t} :
               output'[u] = output[u] /\ worker'[u] = worker[u] /\ child'[u] = child[u]
        /\ UNCHANGED <<hashes, manifest, stored, pc, in_flight>>
    BY <1>17 DEF PythonFails, Work, Advance, BuildInv, TypeOK, CacheTypeOK,
       disk_vars, cache_vars, main_vars, sorter_vars, result_vars, pool_vars,
       kill_vars, tally_vars
  <2>3. \A u \in Tasks \ lost : output'[u] = output[u] /\ Entry(u)' = Entry(u)
    BY <2>1, <2>2 DEF Entry
  <2>4. \A u \in in_flight : \A d \in Deps[u] : output'[d] = output[d]
    BY <2>1, <2>2, GraphAssumption
  <2>5. ASSUME t \in in_flight, Deps[t] \cap lost = {},
               \/ worker'[t] = "succeeded"
               \/ child'[t] = "ok" /\ StdoutFile[t] # "output"
        PROVE  output'[t] = hashes[t]
    BY <1>17, <2>1, <2>5, BuildAssumption DEF PythonFails, Work, Advance, BuildInv,
       TypeOK, CacheTypeOK, WorkerInv, LostInv, OutputInv, pool_vars
  <2> QED BY <1>17, <2>1, <2>2, <2>3, <2>4, <2>5 DEF OutputInv
<1>18. ASSUME NEW t \in Tasks, ToolWrites(t), UNCHANGED lost
      PROVE  OutputInv'
  <2>1. /\ t \in lost /\ pc # "idle"
        /\ \A u \in in_flight : u \in Tasks /\ t \notin Deps[u]
    BY <1>18, WriterIsLost DEF ToolWrites, Tool, Started
  <2>2. /\ \A u \in Tasks \ {t} :
               output'[u] = output[u] /\ worker'[u] = worker[u] /\ child'[u] = child[u]
        /\ UNCHANGED <<hashes, manifest, stored, pc, in_flight>>
    BY <1>18 DEF ToolWrites, Tool, BuildInv, TypeOK, CacheTypeOK, disk_vars,
       cache_vars, main_vars, sorter_vars, result_vars, pool_vars, kill_vars,
       tally_vars
  <2>3. \A u \in Tasks \ lost : output'[u] = output[u] /\ Entry(u)' = Entry(u)
    BY <2>1, <2>2 DEF Entry
  <2>4. \A u \in in_flight : \A d \in Deps[u] : output'[d] = output[d]
    BY <2>1, <2>2, GraphAssumption
  <2>5. ASSUME t \in in_flight, Deps[t] \cap lost = {},
               \/ worker'[t] = "succeeded"
               \/ child'[t] = "ok" /\ StdoutFile[t] # "output"
        PROVE  output'[t] = hashes[t]
    BY <1>18, <2>1, <2>5, BuildAssumption DEF ToolWrites, Tool, BuildInv, TypeOK,
       CacheTypeOK, WorkerInv, LostInv, OutputInv, pool_vars
  <2> QED BY <1>18, <2>1, <2>2, <2>3, <2>4, <2>5 DEF OutputInv
<1>19. ASSUME NEW t \in Tasks, ToolSucceeds(t), UNCHANGED lost
      PROVE  OutputInv'
  <2>1. /\ t \in lost /\ pc # "idle"
        /\ \A u \in in_flight : u \in Tasks /\ t \notin Deps[u]
    BY <1>19, WriterIsLost DEF ToolSucceeds, Tool, Started
  <2>2. /\ \A u \in Tasks \ {t} :
               output'[u] = output[u] /\ worker'[u] = worker[u] /\ child'[u] = child[u]
        /\ UNCHANGED <<hashes, manifest, stored, pc, in_flight>>
    BY <1>19 DEF ToolSucceeds, Tool, BuildInv, TypeOK, CacheTypeOK, disk_vars,
       cache_vars, main_vars, sorter_vars, result_vars, pool_vars, kill_vars,
       tally_vars
  <2>3. \A u \in Tasks \ lost : output'[u] = output[u] /\ Entry(u)' = Entry(u)
    BY <2>1, <2>2 DEF Entry
  <2>4. \A u \in in_flight : \A d \in Deps[u] : output'[d] = output[d]
    BY <2>1, <2>2, GraphAssumption
  <2>5. ASSUME t \in in_flight, Deps[t] \cap lost = {},
               \/ worker'[t] = "succeeded"
               \/ child'[t] = "ok" /\ StdoutFile[t] # "output"
        PROVE  output'[t] = hashes[t]
    <3>1. Built(t) = hashes[t]
      BY <2>1, <2>5, BuiltFromCurrent
    <3> QED BY <1>19, <2>1, <2>5, <3>1, BuildAssumption DEF ToolSucceeds, Tool, BuildInv,
       TypeOK, CacheTypeOK, WorkerInv, LostInv, OutputInv, pool_vars
  <2> QED BY <1>19, <2>1, <2>2, <2>3, <2>4, <2>5 DEF OutputInv
<1>20. ASSUME NEW t \in Tasks, BeginLosing(t)
      PROVE  OutputInv'
  BY <1>1, <1>20 DEF BeginLosing, Begin, Work, Advance, Entry, BuildInv, WorkerInv,
     WalkInv, Loop, TypeOK, CacheTypeOK, disk_vars, cache_vars, main_vars,
     sorter_vars, result_vars, pool_vars, kill_vars, tally_vars
<1>21. ASSUME NEW t \in Tasks, RecordFound(t)
      PROVE  OutputInv'
  <2>1. /\ t \in handed_out \ done /\ pc # "idle" /\ Retire(t) /\ pc' = pc
        /\ UNCHANGED <<hashes, worker, child>>
        /\ t \in in_flight /\ in_flight' = in_flight \ {t} /\ worker[t] = "succeeded"
        /\ manifest' = [manifest EXCEPT ![t] = hashes[t]]
    BY <1>21 DEF RecordFound, RecordSuccess, Recording, RecordInManifest, BuildInv, WalkInv,
       TypeOK, pool_vars
  <2>2. /\ \A u \in Tasks : output'[u] \in {output[u], Absent}
        /\ \A u \in in_flight \ {t} : \A d \in Deps[u] \cup {u} : output'[d] = output[d]
        /\ output'[t] = output[t]
    BY <2>1, RetireSpares
  <2>3. t \in lost /\ (t \notin lost' => output[t] = hashes[t])
    BY <2>1, <1>21 DEF RecordFound, OutputInv, LostInv
  <2>4. /\ lost \ {t} \subseteq lost'
        /\ \A u \in in_flight : u \in Tasks /\ t \notin Deps[u]
    BY <1>21, <2>1 DEF RecordFound, BuildInv, WalkInv, TypeOK
  <2>5. /\ Entry(t)' = hashes[t]
        /\ \A u \in Tasks \ {t} : Entry(u)' = Entry(u)
    BY <2>1 DEF Entry, BuildInv, TypeOK, CacheTypeOK
  <2>6. (\A u \in Tasks \ lost :
             output[u] # Absent /\ Entry(u) # Unrecorded => output[u] = Entry(u))'
    BY <2>2, <2>3, <2>4, <2>5 DEF OutputInv
  <2>7. \A u \in in_flight' : Deps[u] \cap lost' = {} => Deps[u] \cap lost = {}
    BY <2>1, <2>4
  <2> QED BY <2>1, <2>2, <2>6, <2>7 DEF OutputInv
<1>22. CASE UNCHANGED history_vars
  BY <1>1, <1>22 DEF history_vars, build_vars, Entry, BuildInv, WalkInv, Loop,
     TypeOK, disk_vars, cache_vars, main_vars, sorter_vars, result_vars, pool_vars,
     kill_vars, tally_vars
<1> QED BY <1>1, <1>2, <1>3, <1>4, <1>5, <1>6, <1>7, <1>8, <1>9, <1>10, <1>11, <1>12,
       <1>13, <1>14, <1>15, <1>16, <1>17, <1>18, <1>19, <1>20, <1>21, <1>22 DEF HistoryNext,
       Silent, User, Handling, Process

-----------------------------------------------------------------------------
\* Whatever failed, was interrupted or crashed in earlier builds, and however sources
\* were edited and outputs deleted meanwhile: a build that went through all its tasks
\* leaves every output it answers for as the present sources make it, except those of
\* tasks that failed in it and of the tasks in lost (build_cache.py:148-187 together
\* with build.py:193-211 and 377-403).
THEOREM UpToDateAfterAll == HistorySpec => []UpToDateUnlessLost
<1>1. HistoryInit => HistoryInv
  <2> SUFFICES ASSUME HistoryInit PROVE HistoryInv
    OBVIOUS
  <2>1. BuildInv
    BY BuildInvInit DEF HistoryInit
  <2>2. LostInv /\ RecipeInv /\ OutputInv /\ SettledInv
    BY DEF HistoryInit, Init, LostInv, RecipeInv, OutputInv, SettledInv, Entry, Started
  <2> QED BY <2>1, <2>2 DEF HistoryInv
<1>2. HistoryInv /\ [HistoryNext]_history_vars => HistoryInv'
  BY BuildInvStep, LostStep, RecipeStep, OutputStep, SettledStep DEF HistoryInv
<1>3. HistoryInv => UpToDateUnlessLost
  <2> SUFFICES ASSUME HistoryInv, outcome = "complete", pc \in {"save", "join"},
                      ~ options.dry_run,
                      NEW t \in DemandRoots(options.clean_intermediates),
                      t \notin failed_tasks \cup lost
               PROVE  output[t] = hashes[t]
    BY DEF UpToDateUnlessLost
  <2>1. t \in Tasks /\ t \in done
    BY DEF HistoryInv, BuildInv, WalkInv, DemandRoots
  <2>2. manifest[t] = hashes[t] /\ output[t] # Absent
    BY <2>1 DEF HistoryInv, SettledInv
  <2>3. manifest[t] # Unrecorded
    BY <2>1, <2>2, ContentAssumption DEF HistoryInv, BuildInv, TypeOK, CacheTypeOK, Hash
  <2> QED BY <2>1, <2>2, <2>3 DEF HistoryInv, OutputInv, Entry
<1> QED BY <1>1, <1>2, <1>3, PTL DEF HistorySpec

=============================================================================
