---------------------------- MODULE BuildProofs ----------------------------
(***************************************************************************)
(* Proofs about the build executor, for every task graph, every number of  *)
(* workers, and any number of builds, edits, failures and interrupts.      *)
(***************************************************************************)
EXTENDS Build, FiniteSetTheorems, TLAPS

-----------------------------------------------------------------------------
(* Interrupts. *)

Handling == Interrupt \/ HandleInterrupt \/ InterruptHandler

\* An error cuts the saving short as an interrupt does.
LEMMA SavesCut ==
    ASSUME NEW c, SaveFails(c)
    PROVE  InterruptSave
BY DEF SaveFails, SaveManifestFails, InterruptSave

-----------------------------------------------------------------------------
(* Types. *)

LEMMA ConsumersFinite ==
    ASSUME NEW t
    PROVE  IsFiniteSet(Consumers(t)) /\ Cardinality(Consumers(t)) \in Nat
BY GraphAssumption, FS_Subset, FS_CardinalityType DEF Consumers

LEMMA RecipeType ==
    ASSUME source \in [Sources -> Versions]
    PROVE  Recipe \in [Tasks -> Hash]
<1>1. \A t \in Tasks : OwnInputs(t) \in Made
  BY GraphAssumption DEF OwnInputs, Made
<1> QED BY <1>1 DEF Recipe, Cone, Hash, Made

\* A task that succeeds leaves some output.
LEMMA BuiltType ==
    ASSUME CacheTypeOK, NEW t \in Tasks
    PROVE  Built(t) \in Content /\ Built(t) # Absent
<1>1. OwnInputs(t) \in Made
  BY GraphAssumption DEF OwnInputs, Made, CacheTypeOK
<1>2. CASE \E d \in Deps[t] : output[d] \in {Absent, Corrupt}
  BY <1>2, ContentAssumption DEF Built, Content
<1>3. CASE \A d \in Deps[t] : output[d] \notin {Absent, Corrupt}
  <2>1. \A d \in Deps[t] : output[d] \in Made
    BY <1>3, GraphAssumption DEF CacheTypeOK, Content
  <2>2. OwnInputs(t) \cup UNION {output[d] : d \in Deps[t]} \in Made
    BY <1>1, <2>1 DEF Made
  <2> QED BY <1>3, <2>2, ContentAssumption DEF Built, Content
<1> QED BY <1>2, <1>3

LEMMA RetireType ==
    ASSUME TypeOK, NEW t \in Tasks, Retire(t)
    PROVE  /\ done' \subseteq Tasks
           /\ remaining_consumers' \in [Tasks -> Nat]
           /\ output' \in [Tasks -> Content]
           /\ log' \subseteq Tasks
BY DEF TypeOK, CacheTypeOK, Retire, Content

LEMMA FailureResultType ==
    ASSUME TypeOK, NEW t \in Tasks,
           result' = [result EXCEPT !.failed = @ + 1, !.errors = @ \cup {t}]
    PROVE  result' \in [succeeded : Nat, failed : Nat, skipped : Nat, errors : SUBSET Tasks]
<1> DEFINE counted == [result EXCEPT !.failed = result.failed + 1]
<1>1. /\ counted \in [succeeded : Nat, failed : Nat, skipped : Nat, errors : SUBSET Tasks]
      /\ counted.errors = result.errors
  BY DEF TypeOK
<1>2. result' = [counted EXCEPT !.errors = counted.errors \cup {t}]
  BY <1>1
<1> HIDE DEF counted
<1> QED BY <1>1, <1>2

LEMMA InitType == Init => TypeOK
<1> SUFFICES ASSUME Init
      PROVE  TypeOK
  OBVIOUS
<1>1. Recipe \in [Tasks -> Hash]
  BY RecipeType DEF Init
<1>2. options \in Options
  BY BuildAssumption DEF Init
<1>3. CacheTypeOK
  BY <1>1 DEF Init, CacheTypeOK, Content
<1>4. result \in [succeeded : Nat, failed : Nat, skipped : Nat, errors : SUBSET Tasks]
  BY DEF Init, NoResult
<1>5. builds \in 0 .. MaxBuilds /\ stops \in 0 .. MaxStops /\ edits \in 0 .. MaxEdits
  BY BuildAssumption DEF Init
<1>6. remaining_consumers \in [Tasks -> Nat] /\ worker \in [Tasks -> Stages]
  BY DEF Init, Stages
<1> QED BY <1>2, <1>3, <1>4, <1>5, <1>6 DEF Init, TypeOK

LEMMA NextType ==
    TypeOK /\ [Next]_build_vars => TypeOK'
<1> SUFFICES ASSUME TypeOK, [Next]_build_vars
      PROVE  TypeOK'
  OBVIOUS
<1> USE DEF TypeOK, CacheTypeOK
<1>1. CASE EditSource
  BY <1>1, BuildAssumption, GraphAssumption
     DEF EditSource, disk_vars, cache_vars, main_vars, sorter_vars, result_vars, pool_vars,
         kill_vars, tally_vars, Stages, Content
<1>2. CASE DeleteOutput
  BY <1>2, BuildAssumption, GraphAssumption
     DEF DeleteOutput, disk_vars, cache_vars, main_vars, sorter_vars, result_vars, pool_vars,
         kill_vars, tally_vars, Stages, Content
<1>3. CASE StartBuild
  <2>1. /\ hashes' \in [Tasks -> Hash]
        /\ manifest' \in [Tasks -> {Unrecorded} \cup Hash]
        /\ updated' = {}
    BY <1>3, RecipeType DEF StartBuild, OpenCache
  <2>2. remaining_consumers' \in [Tasks -> Nat]
    BY <1>3, ConsumersFinite DEF StartBuild
  <2>3. needed_tasks' \subseteq Tasks
    BY <1>3 DEF StartBuild, NeededTasks
  <2>4. result' \in [succeeded : Nat, failed : Nat, skipped : Nat, errors : SUBSET Tasks]
    BY <1>3 DEF StartBuild, NoResult
  <2>5. builds' \in 0 .. MaxBuilds /\ options' \in Options
    BY <1>3, BuildAssumption DEF StartBuild
  <2> QED BY <1>3, <2>1, <2>2, <2>3, <2>4, <2>5 DEF StartBuild, disk_vars, Stages
<1>4. CASE GetReady
  BY <1>4 DEF GetReady, ReadyNodes, disk_vars, cache_vars, result_vars, pool_vars, kill_vars,
     tally_vars
<1>5. CASE Complete
  BY <1>5, BuildAssumption, GraphAssumption
     DEF Complete, disk_vars, cache_vars, main_vars, sorter_vars, result_vars, pool_vars,
         kill_vars, tally_vars, Stages, Content
<1>6. CASE Scheduled
  BY <1>6, BuildAssumption, GraphAssumption
     DEF Scheduled, disk_vars, cache_vars, main_vars, sorter_vars, result_vars, pool_vars,
         kill_vars, tally_vars, Stages, Content
<1>7. CASE Wait
  BY <1>7, BuildAssumption, GraphAssumption
     DEF Wait, disk_vars, cache_vars, main_vars, sorter_vars, result_vars, pool_vars,
         kill_vars, tally_vars, Stages, Content
<1>8. CASE Recorded
  BY <1>8, BuildAssumption, GraphAssumption
     DEF Recorded, disk_vars, cache_vars, main_vars, sorter_vars, result_vars, pool_vars,
         kill_vars, tally_vars, Stages, Content
<1>9. CASE Killed
  BY <1>9, BuildAssumption, GraphAssumption
     DEF Killed, CancelFutures, disk_vars, cache_vars, main_vars, sorter_vars, result_vars,
         pool_vars, kill_vars, tally_vars, Stages, Content
<1>10. CASE Saved
  BY <1>10, BuildAssumption, GraphAssumption
     DEF Saved, disk_vars, cache_vars, main_vars, sorter_vars, result_vars, pool_vars,
         kill_vars, tally_vars, Stages, Content
<1>11. CASE Join
  BY <1>11, BuildAssumption, GraphAssumption
     DEF Join, disk_vars, cache_vars, main_vars, sorter_vars, result_vars, pool_vars,
         kill_vars, tally_vars, Stages, Content
<1>12. ASSUME NEW c \in Configs, Save(c)
      PROVE  TypeOK'
  BY <1>12, BuildAssumption, GraphAssumption
     DEF Save, SaveManifest, disk_vars, cache_vars, main_vars, sorter_vars, result_vars,
         pool_vars, kill_vars, tally_vars, Stages, Content
<1>13. ASSUME NEW t \in Tasks, FailForDependency(t)
      PROVE  TypeOK'
  <2>1. result' \in [succeeded : Nat, failed : Nat, skipped : Nat, errors : SUBSET Tasks]
    BY <1>13 DEF FailForDependency
  <2>2. /\ remaining_consumers' \in [Tasks -> Nat]
        /\ output' \in [Tasks -> Content]
        /\ done' \subseteq Tasks /\ ready' \subseteq Tasks /\ log' \subseteq Tasks
    BY <1>13, GraphAssumption DEF FailForDependency, Scheduling, Retire, Content
  <2>3. failed_tasks' \subseteq Tasks
    BY <1>13 DEF FailForDependency
  <2> QED BY <1>13, <2>1, <2>2, <2>3
             DEF FailForDependency, Scheduling, cache_vars, main_vars, kill_vars, tally_vars
<1>14. ASSUME NEW t \in Tasks, Skip(t)
      PROVE  TypeOK'
  <2>1. result' \in [succeeded : Nat, failed : Nat, skipped : Nat, errors : SUBSET Tasks]
    BY <1>14 DEF Skip
  <2>2. /\ remaining_consumers' \in [Tasks -> Nat]
        /\ output' \in [Tasks -> Content]
        /\ done' \subseteq Tasks /\ ready' \subseteq Tasks /\ log' \subseteq Tasks
    BY <1>14, GraphAssumption DEF Skip, Scheduling, Retire, Content
  <2>3. failed_tasks' \subseteq Tasks
    BY <1>14 DEF Skip
  <2> QED BY <1>14, <2>1, <2>2, <2>3
             DEF Skip, Scheduling, cache_vars, main_vars, kill_vars, tally_vars
<1>15. ASSUME NEW t \in Tasks, Submit(t)
      PROVE  TypeOK'
  BY <1>15, BuildAssumption, GraphAssumption
     DEF Submit, Scheduling, DependencyFailed, disk_vars, cache_vars, main_vars, sorter_vars,
         result_vars, pool_vars, kill_vars, tally_vars, Stages, Content
<1>16. ASSUME NEW t \in Tasks, RecordSuccess(t)
      PROVE  TypeOK'
  <2>1. result' \in [succeeded : Nat, failed : Nat, skipped : Nat, errors : SUBSET Tasks]
    BY <1>16 DEF RecordSuccess
  <2>2. /\ manifest' \in [Tasks -> {Unrecorded} \cup Hash]
        /\ updated' \subseteq Configs /\ hashes' = hashes
    BY <1>16 DEF RecordSuccess, RecordInManifest, Configs
  <2> QED BY <1>16, <2>1, <2>2, RetireType
          DEF RecordSuccess, Recording, pool_vars, tally_vars
<1>17. ASSUME NEW t \in Tasks, RecordFailureGoOn(t)
      PROVE  TypeOK'
  <2>1. result' \in [succeeded : Nat, failed : Nat, skipped : Nat, errors : SUBSET Tasks]
    BY <1>17, FailureResultType DEF RecordFailureGoOn, RecordFailure
  <2> QED BY <1>17, <2>1, RetireType
          DEF RecordFailureGoOn, RecordFailure, Recording, KillActive, pool_vars, cache_vars,
              tally_vars
<1>18. ASSUME NEW t \in Tasks, RecordFailureAbort(t)
      PROVE  TypeOK'
  <2>1. result' \in [succeeded : Nat, failed : Nat, skipped : Nat, errors : SUBSET Tasks]
    BY <1>18, FailureResultType DEF RecordFailureAbort, RecordFailure
  <2> QED BY <1>18, <2>1
          DEF RecordFailureAbort, RecordFailure, Recording, KillActive, pool_vars, cache_vars,
              tally_vars
<1>19. ASSUME NEW t \in Tasks, KillOne(t)
      PROVE  TypeOK'
  BY <1>19, BuildAssumption, GraphAssumption
     DEF KillOne, disk_vars, cache_vars, main_vars, sorter_vars, result_vars, pool_vars,
         kill_vars, tally_vars, Stages, Content
<1>20. CASE Handling \/ InterruptSave
  <2>1. CASE Interrupt
    BY <2>1, BuildAssumption DEF Interrupt, disk_vars, cache_vars, sorter_vars, result_vars,
       pool_vars, kill_vars
  <2>2. CASE HandleInterrupt
    BY <2>2 DEF HandleInterrupt, KillActive, disk_vars, cache_vars, sorter_vars, result_vars,
       pool_vars, tally_vars
  <2>3. CASE InterruptHandler
    BY <2>3 DEF InterruptHandler, disk_vars, cache_vars, sorter_vars, result_vars, pool_vars
  <2>4. CASE InterruptSave
    BY <2>4, BuildAssumption DEF InterruptSave, CutSave, disk_vars, cache_vars, sorter_vars,
       result_vars, pool_vars, kill_vars
  <2> QED BY <1>20, <2>1, <2>2, <2>3, <2>4 DEF Handling
<1>21. CASE Crash
  BY <1>21, BuildAssumption, GraphAssumption
     DEF Crash, disk_vars, cache_vars, main_vars, sorter_vars, result_vars, pool_vars,
         kill_vars, tally_vars, Stages, Content
<1>22. ASSUME NEW t \in Tasks, Begin(t)
      PROVE  TypeOK'
  BY <1>22, BuildAssumption, GraphAssumption
     DEF Begin, Work, Advance, disk_vars, cache_vars, main_vars, sorter_vars, result_vars,
         pool_vars, kill_vars, tally_vars, Stages, Content
<1>23. ASSUME NEW t \in Tasks, Spawn(t)
      PROVE  TypeOK'
  BY <1>23, BuildAssumption, GraphAssumption
     DEF Spawn, Work, Advance, disk_vars, cache_vars, main_vars, sorter_vars, result_vars,
         pool_vars, kill_vars, tally_vars, Stages, Content
<1>24. ASSUME NEW t \in Tasks, SpawnFails(t)
      PROVE  TypeOK'
  BY <1>24, BuildAssumption, GraphAssumption
     DEF SpawnFails, Work, Advance, disk_vars, cache_vars, main_vars, sorter_vars, result_vars,
         pool_vars, kill_vars, tally_vars, Stages, Content
<1>25. ASSUME NEW t \in Tasks, Register(t)
      PROVE  TypeOK'
  BY <1>25, BuildAssumption, GraphAssumption
     DEF Register, Work, Advance, disk_vars, cache_vars, main_vars, sorter_vars, result_vars,
         pool_vars, kill_vars, tally_vars, Stages, Content
<1>26. ASSUME NEW t \in Tasks, KillDoomed(t)
      PROVE  TypeOK'
  BY <1>26, BuildAssumption, GraphAssumption
     DEF KillDoomed, Work, Advance, disk_vars, cache_vars, main_vars, sorter_vars, result_vars,
         pool_vars, kill_vars, tally_vars, Stages, Content
<1>27. ASSUME NEW t \in Tasks, Communicate(t)
      PROVE  TypeOK'
  BY <1>27, BuildAssumption, GraphAssumption
     DEF Communicate, Work, Advance, disk_vars, cache_vars, main_vars, sorter_vars,
         result_vars, pool_vars, kill_vars, tally_vars, Stages, Content
<1>28. ASSUME NEW t \in Tasks, WriteStdout(t)
      PROVE  TypeOK'
  <2>1. output' \in [Tasks -> Content]
    BY <1>28, BuiltType DEF WriteStdout, Work, Advance, Content
  <2> QED BY <1>28, <2>1 DEF WriteStdout, Work, Advance, disk_vars, cache_vars, main_vars,
      sorter_vars, result_vars, pool_vars, kill_vars, tally_vars, Stages
<1>29. ASSUME NEW t \in Tasks, WriteStdoutFails(t)
      PROVE  TypeOK'
  BY <1>29, BuildAssumption, GraphAssumption
     DEF WriteStdoutFails, Work, Advance, disk_vars, cache_vars, main_vars, sorter_vars,
         result_vars, pool_vars, kill_vars, tally_vars, Stages, Content
<1>30. ASSUME NEW t \in Tasks, PythonSucceeds(t)
      PROVE  TypeOK'
  <2>1. output' \in [Tasks -> Content]
    BY <1>30, BuiltType DEF PythonSucceeds, Work, Advance, Content
  <2> QED BY <1>30, <2>1 DEF PythonSucceeds, Work, Advance, disk_vars, cache_vars, main_vars,
      sorter_vars, result_vars, pool_vars, kill_vars, tally_vars, Stages
<1>31. ASSUME NEW t \in Tasks, PythonFails(t)
      PROVE  TypeOK'
  BY <1>31, BuildAssumption, GraphAssumption
     DEF PythonFails, Work, Advance, disk_vars, cache_vars, main_vars, sorter_vars,
         result_vars, pool_vars, kill_vars, tally_vars, Stages, Content
<1>32. ASSUME NEW t \in Tasks, Timeout(t)
      PROVE  TypeOK'
  BY <1>32, BuildAssumption, GraphAssumption
     DEF Timeout, Work, Advance, disk_vars, cache_vars, main_vars, sorter_vars, result_vars,
         pool_vars, kill_vars, tally_vars, Stages, Content
<1>33. ASSUME NEW t \in Tasks, ToolWrites(t)
      PROVE  TypeOK'
  BY <1>33, BuildAssumption, GraphAssumption
     DEF ToolWrites, Tool, disk_vars, cache_vars, main_vars, sorter_vars, result_vars,
         pool_vars, kill_vars, tally_vars, Stages, Content
<1>34. ASSUME NEW t \in Tasks, ToolSucceeds(t)
      PROVE  TypeOK'
  <2>1. output' \in [Tasks -> Content]
    BY <1>34, BuiltType DEF ToolSucceeds, Tool, Content
  <2> QED BY <1>34, <2>1 DEF ToolSucceeds, Tool, disk_vars, cache_vars, main_vars, sorter_vars,
      result_vars, pool_vars, kill_vars, tally_vars, Stages
<1>35. ASSUME NEW t \in Tasks, ToolFails(t)
      PROVE  TypeOK'
  BY <1>35, BuildAssumption, GraphAssumption
     DEF ToolFails, Tool, disk_vars, cache_vars, main_vars, sorter_vars, result_vars,
         pool_vars, kill_vars, tally_vars, Stages, Content
<1>36. CASE UNCHANGED build_vars
  BY <1>36 DEF build_vars, disk_vars, cache_vars, main_vars, sorter_vars, result_vars,
      pool_vars, kill_vars, tally_vars
<1> QED BY <1>1, <1>2, <1>3, <1>4, <1>5, <1>6, <1>7, <1>8, <1>9, <1>10, <1>11, <1>12,
   <1>13, <1>14, <1>15, <1>16, <1>17, <1>18, <1>19, <1>20, <1>21, <1>22, <1>23, <1>24,
   <1>25, <1>26, <1>27, <1>28, <1>29, <1>30, <1>31, <1>32, <1>33, <1>34, <1>35, <1>36,
   SavesCut DEF Next, User, Main, Stop, Handling, Worker, Process

\* Every variable keeps its type; in particular no count of consumers falls
\* below zero (build.py:258-277).
THEOREM TypeCorrect == Spec => []TypeOK
BY InitType, NextType, PTL DEF Spec

-----------------------------------------------------------------------------
(* The walk over the graph. *)

Loop == {"top", "schedule", "wait", "record"}

\* A task moves from ready to in flight or done, a task in flight to done; it
\* is handed out only when all its dependencies are done.
WalkInv ==
    /\ pc \in Loop <=> outcome = "open"
    /\ pc \in {"kill", "caught", "handle"} => outcome = "abandoned"
    /\ ready \subseteq handed_out \ done
    /\ in_flight \subseteq handed_out \ (done \cup ready)
    /\ done_futures \subseteq in_flight
    /\ done \subseteq handed_out
    /\ \A t \in handed_out : Deps[t] \subseteq done
    /\ failed_tasks \subseteq handed_out \ (ready \cup in_flight)
    /\ outcome = "open" => failed_tasks \subseteq done
    /\ outcome = "complete" /\ pc # "idle" => done = Tasks

\* The worker's stage goes with the task's place in the walk.
WorkerInv ==
    /\ \A t \in Tasks : worker[t] # "none" => t \in handed_out \ ready
    /\ \A t \in in_flight : worker[t] # "none"
    /\ \A t \in done \cup failed_tasks \cup done_futures :
           worker[t] \in Finished \cup {"none"}
    /\ pc = "idle" => \A t \in Tasks : worker[t] \notin Started \cup {"queued"}
    /\ \A t \in Tasks : worker[t] \in {"none", "queued"} => child[t] = "none"
    /\ \A t \in Tasks : child[t] = "alive" => worker[t] \in {"spawned", "doomed", "running"}

LEMMA WalkStep ==
    TypeOK /\ WalkInv /\ [Next]_build_vars => WalkInv'
<1> SUFFICES ASSUME TypeOK, WalkInv, [Next]_build_vars
      PROVE  WalkInv'
  OBVIOUS
<1>1. ASSUME UNCHANGED <<pc, outcome, handed_out, done, ready, in_flight, done_futures, failed_tasks>>
      PROVE  WalkInv'
  BY <1>1 DEF TypeOK, WalkInv, Loop
<1>2. CASE EditSource \/ DeleteOutput
  BY <1>1, <1>2 DEF DeleteOutput, EditSource, disk_vars, cache_vars, main_vars,
     sorter_vars, result_vars, pool_vars, kill_vars, tally_vars
<1>3. ASSUME NEW c \in Configs, Save(c)
      PROVE  WalkInv'
  BY <1>1, <1>3 DEF Save, SaveManifest, disk_vars, cache_vars, main_vars, sorter_vars,
     result_vars, pool_vars, kill_vars, tally_vars
<1>4. ASSUME NEW t \in Tasks, Begin(t) \/ Spawn(t) \/ SpawnFails(t) \/ Register(t) \/
   KillDoomed(t) \/ Communicate(t) \/ WriteStdout(t) \/ WriteStdoutFails(t) \/
   PythonSucceeds(t) \/ PythonFails(t) \/ Timeout(t) \/ ToolWrites(t) \/ ToolSucceeds(t)
   \/ ToolFails(t) \/ KillOne(t) PROVE WalkInv'
  BY <1>1, <1>4 DEF Advance, Begin, Communicate, KillDoomed, KillOne, PythonFails,
     PythonSucceeds, Register, Spawn, SpawnFails, Timeout, Tool, ToolFails,
     ToolSucceeds, ToolWrites, Work, WriteStdout, WriteStdoutFails, disk_vars,
     cache_vars, main_vars, sorter_vars, result_vars, pool_vars, kill_vars, tally_vars
<1>5. CASE StartBuild
  BY <1>5, GraphAssumption DEF StartBuild, OpenCache, TypeOK, WalkInv, Loop, disk_vars,
     cache_vars, main_vars, sorter_vars, result_vars, pool_vars, kill_vars, tally_vars
<1>6. CASE GetReady
  BY <1>6, GraphAssumption DEF GetReady, ReadyNodes, TypeOK, WalkInv, Loop, disk_vars,
     cache_vars, main_vars, sorter_vars, result_vars, pool_vars, kill_vars, tally_vars
<1>7. CASE Complete
  <2>1. done = Tasks
    <3>1. SUFFICES ASSUME Tasks \ done # {} PROVE FALSE
      BY DEF TypeOK
    <3>2. PICK t \in Tasks \ done : Deps[t] \cap (Tasks \ done) = {}
      BY <3>1, GraphAssumption
    <3>3. t \in ReadyNodes
      BY <1>7, <3>2, GraphAssumption DEF Complete, ReadyNodes
    <3> QED BY <1>7, <3>3 DEF Complete
  <2> QED BY <1>7, <2>1 DEF Complete, WalkInv, Loop, sorter_vars, result_vars
<1>8. CASE Scheduled
  BY <1>8, GraphAssumption DEF Scheduled, TypeOK, WalkInv, Loop, disk_vars, cache_vars,
     main_vars, sorter_vars, result_vars, pool_vars, kill_vars, tally_vars
<1>9. CASE Wait
  BY <1>9, GraphAssumption DEF Wait, TypeOK, WalkInv, Loop, disk_vars, cache_vars,
     main_vars, sorter_vars, result_vars, pool_vars, kill_vars, tally_vars
<1>10. CASE Recorded
  BY <1>10, GraphAssumption DEF Recorded, TypeOK, WalkInv, Loop, disk_vars, cache_vars,
     main_vars, sorter_vars, result_vars, pool_vars, kill_vars, tally_vars
<1>11. CASE Killed
  BY <1>11, GraphAssumption DEF Killed, CancelFutures, TypeOK, WalkInv, Loop, disk_vars,
     cache_vars, main_vars, sorter_vars, result_vars, pool_vars, kill_vars, tally_vars
<1>12. CASE Saved
  BY <1>12, GraphAssumption DEF Saved, TypeOK, WalkInv, Loop, disk_vars, cache_vars,
     main_vars, sorter_vars, result_vars, pool_vars, kill_vars, tally_vars
<1>13. CASE Join
  BY <1>13, GraphAssumption DEF Join, TypeOK, WalkInv, Loop, disk_vars, cache_vars,
     main_vars, sorter_vars, result_vars, pool_vars, kill_vars, tally_vars
<1>14. ASSUME NEW t \in Tasks, FailForDependency(t)
      PROVE  WalkInv'
  BY <1>14, GraphAssumption DEF FailForDependency, Scheduling, DependencyFailed, Retire,
     TypeOK, WalkInv, Loop, disk_vars, cache_vars, main_vars, sorter_vars, result_vars,
     pool_vars, kill_vars, tally_vars
<1>15. ASSUME NEW t \in Tasks, Skip(t)
      PROVE  WalkInv'
  BY <1>15, GraphAssumption DEF Skip, Scheduling, DependencyFailed, Retire, TypeOK,
     WalkInv, Loop, disk_vars, cache_vars, main_vars, sorter_vars, result_vars,
     pool_vars, kill_vars, tally_vars
<1>16. ASSUME NEW t \in Tasks, Submit(t)
      PROVE  WalkInv'
  BY <1>16, GraphAssumption DEF Submit, Scheduling, DependencyFailed, TypeOK, WalkInv,
     Loop, disk_vars, cache_vars, main_vars, sorter_vars, result_vars, pool_vars,
     kill_vars, tally_vars
<1>17. ASSUME NEW t \in Tasks, RecordSuccess(t)
      PROVE  WalkInv'
  BY <1>17, GraphAssumption DEF RecordSuccess, Recording, RecordInManifest, Retire,
     TypeOK, WalkInv, Loop, disk_vars, cache_vars, main_vars, sorter_vars, result_vars,
     pool_vars, kill_vars, tally_vars
<1>18. ASSUME NEW t \in Tasks, RecordFailureGoOn(t)
      PROVE  WalkInv'
  BY <1>18, GraphAssumption DEF RecordFailureGoOn, RecordFailure, Recording, Retire,
     TypeOK, WalkInv, Loop, disk_vars, cache_vars, main_vars, sorter_vars, result_vars,
     pool_vars, kill_vars, tally_vars
<1>19. ASSUME NEW t \in Tasks, RecordFailureAbort(t)
      PROVE  WalkInv'
  BY <1>19, GraphAssumption DEF RecordFailureAbort, RecordFailure, Recording,
     KillActive, TypeOK, WalkInv, Loop, disk_vars, cache_vars, main_vars, sorter_vars,
     result_vars, pool_vars, kill_vars, tally_vars
<1>20. CASE Handling \/ InterruptSave
  BY <1>20, GraphAssumption DEF Handling, Interrupt, HandleInterrupt, InterruptHandler,
     InterruptSave, CutSave, KillActive, TypeOK, WalkInv, Loop, disk_vars, cache_vars,
     main_vars, sorter_vars, result_vars, pool_vars, kill_vars, tally_vars
<1>21. CASE Crash
  BY <1>21, GraphAssumption DEF Crash, TypeOK, WalkInv, Loop, disk_vars, cache_vars,
     main_vars, sorter_vars, result_vars, pool_vars, kill_vars, tally_vars
<1>22. CASE UNCHANGED build_vars
  BY <1>1, <1>22 DEF build_vars, disk_vars, cache_vars, main_vars, sorter_vars,
     result_vars, pool_vars, kill_vars, tally_vars
<1> QED BY <1>1, <1>2, <1>3, <1>4, <1>5, <1>6, <1>7, <1>8, <1>9, <1>10, <1>11, <1>12,
   <1>13, <1>14, <1>15, <1>16, <1>17, <1>18, <1>19, <1>20, <1>21, <1>22, SavesCut DEF
   Next, User, Main, Stop, Handling, Worker, Process

LEMMA WorkerStep ==
    TypeOK /\ WalkInv /\ WorkerInv /\ [Next]_build_vars => WorkerInv'
<1> SUFFICES ASSUME TypeOK, WalkInv, WorkerInv, [Next]_build_vars
      PROVE  WorkerInv'
  OBVIOUS
<1>1. ASSUME UNCHANGED <<pc, handed_out, done, ready, in_flight, done_futures, failed_tasks, worker, child>>
      PROVE  WorkerInv'
  BY <1>1 DEF TypeOK, WalkInv, WorkerInv, Loop, Started, Finished
<1>2. CASE EditSource \/ DeleteOutput
  BY <1>1, <1>2 DEF DeleteOutput, EditSource, disk_vars, cache_vars, main_vars,
     sorter_vars, result_vars, pool_vars, kill_vars, tally_vars
<1>3. ASSUME NEW c \in Configs, Save(c)
      PROVE  WorkerInv'
  BY <1>1, <1>3 DEF Save, SaveManifest, disk_vars, cache_vars, main_vars, sorter_vars,
     result_vars, pool_vars, kill_vars, tally_vars
<1>4. CASE StartBuild
  BY <1>4 DEF StartBuild, OpenCache, TypeOK, WalkInv, WorkerInv, Loop, Started,
     Finished, disk_vars, cache_vars, main_vars, sorter_vars, result_vars, pool_vars,
     kill_vars, tally_vars
<1>5. CASE GetReady
  BY <1>5 DEF GetReady, ReadyNodes, TypeOK, WalkInv, WorkerInv, Loop, Started, Finished,
     disk_vars, cache_vars, main_vars, sorter_vars, result_vars, pool_vars, kill_vars,
     tally_vars
<1>6. CASE Complete
  BY <1>6 DEF Complete, TypeOK, WalkInv, WorkerInv, Loop, Started, Finished, disk_vars,
     cache_vars, main_vars, sorter_vars, result_vars, pool_vars, kill_vars, tally_vars
<1>7. CASE Scheduled
  BY <1>7 DEF Scheduled, TypeOK, WalkInv, WorkerInv, Loop, Started, Finished, disk_vars,
     cache_vars, main_vars, sorter_vars, result_vars, pool_vars, kill_vars, tally_vars
<1>8. CASE Wait
  BY <1>8 DEF Wait, TypeOK, WalkInv, WorkerInv, Loop, Started, Finished, disk_vars,
     cache_vars, main_vars, sorter_vars, result_vars, pool_vars, kill_vars, tally_vars
<1>9. CASE Recorded
  BY <1>9 DEF Recorded, TypeOK, WalkInv, WorkerInv, Loop, Started, Finished, disk_vars,
     cache_vars, main_vars, sorter_vars, result_vars, pool_vars, kill_vars, tally_vars
<1>10. CASE Killed
  BY <1>10 DEF Killed, CancelFutures, TypeOK, WalkInv, WorkerInv, Loop, Started,
     Finished, disk_vars, cache_vars, main_vars, sorter_vars, result_vars, pool_vars,
     kill_vars, tally_vars
<1>11. CASE Saved
  BY <1>11 DEF Saved, TypeOK, WalkInv, WorkerInv, Loop, Started, Finished, disk_vars,
     cache_vars, main_vars, sorter_vars, result_vars, pool_vars, kill_vars, tally_vars
<1>12. CASE Join
  BY <1>12 DEF Join, TypeOK, WalkInv, WorkerInv, Loop, Started, Finished, disk_vars,
     cache_vars, main_vars, sorter_vars, result_vars, pool_vars, kill_vars, tally_vars
<1>13. ASSUME NEW t \in Tasks, FailForDependency(t)
      PROVE  WorkerInv'
  BY <1>13 DEF FailForDependency, Scheduling, DependencyFailed, Retire, TypeOK, WalkInv,
     WorkerInv, Loop, Started, Finished, disk_vars, cache_vars, main_vars, sorter_vars,
     result_vars, pool_vars, kill_vars, tally_vars
<1>14. ASSUME NEW t \in Tasks, Skip(t)
      PROVE  WorkerInv'
  BY <1>14 DEF Skip, Scheduling, DependencyFailed, Retire, TypeOK, WalkInv, WorkerInv,
     Loop, Started, Finished, disk_vars, cache_vars, main_vars, sorter_vars,
     result_vars, pool_vars, kill_vars, tally_vars
<1>15. ASSUME NEW t \in Tasks, Submit(t)
      PROVE  WorkerInv'
  BY <1>15 DEF Submit, Scheduling, DependencyFailed, TypeOK, WalkInv, WorkerInv, Loop,
     Started, Finished, disk_vars, cache_vars, main_vars, sorter_vars, result_vars,
     pool_vars, kill_vars, tally_vars
<1>16. ASSUME NEW t \in Tasks, RecordSuccess(t)
      PROVE  WorkerInv'
  BY <1>16 DEF RecordSuccess, Recording, RecordInManifest, Retire, TypeOK, WalkInv,
     WorkerInv, Loop, Started, Finished, disk_vars, cache_vars, main_vars, sorter_vars,
     result_vars, pool_vars, kill_vars, tally_vars
<1>17. ASSUME NEW t \in Tasks, RecordFailureGoOn(t)
      PROVE  WorkerInv'
  BY <1>17 DEF RecordFailureGoOn, RecordFailure, Recording, Retire, TypeOK, WalkInv,
     WorkerInv, Loop, Started, Finished, disk_vars, cache_vars, main_vars, sorter_vars,
     result_vars, pool_vars, kill_vars, tally_vars
<1>18. ASSUME NEW t \in Tasks, RecordFailureAbort(t)
      PROVE  WorkerInv'
  BY <1>18 DEF RecordFailureAbort, RecordFailure, Recording, KillActive, TypeOK,
     WalkInv, WorkerInv, Loop, Started, Finished, disk_vars, cache_vars, main_vars,
     sorter_vars, result_vars, pool_vars, kill_vars, tally_vars
<1>19. ASSUME NEW t \in Tasks, KillOne(t)
      PROVE  WorkerInv'
  BY <1>19 DEF KillOne, TypeOK, WalkInv, WorkerInv, Loop, Started, Finished, disk_vars,
     cache_vars, main_vars, sorter_vars, result_vars, pool_vars, kill_vars, tally_vars
<1>20. CASE Handling \/ InterruptSave
  BY <1>20 DEF Handling, Interrupt, HandleInterrupt, InterruptHandler, InterruptSave,
     CutSave, KillActive, TypeOK, WalkInv, WorkerInv, Loop, Started, Finished,
     disk_vars, cache_vars, main_vars, sorter_vars, result_vars, pool_vars, kill_vars,
     tally_vars
<1>21. CASE Crash
  BY <1>21 DEF Crash, TypeOK, WalkInv, WorkerInv, Loop, Started, Finished, disk_vars,
     cache_vars, main_vars, sorter_vars, result_vars, pool_vars, kill_vars, tally_vars
<1>22. ASSUME NEW t \in Tasks, Begin(t)
      PROVE  WorkerInv'
  BY <1>22 DEF Begin, Work, Advance, TypeOK, WalkInv, WorkerInv, Loop, Started,
     Finished, disk_vars, cache_vars, main_vars, sorter_vars, result_vars, pool_vars,
     kill_vars, tally_vars
<1>23. ASSUME NEW t \in Tasks, Spawn(t)
      PROVE  WorkerInv'
  BY <1>23 DEF Spawn, Work, Advance, TypeOK, WalkInv, WorkerInv, Loop, Started,
     Finished, disk_vars, cache_vars, main_vars, sorter_vars, result_vars, pool_vars,
     kill_vars, tally_vars
<1>24. ASSUME NEW t \in Tasks, SpawnFails(t)
      PROVE  WorkerInv'
  BY <1>24 DEF SpawnFails, Work, Advance, TypeOK, WalkInv, WorkerInv, Loop, Started,
     Finished, disk_vars, cache_vars, main_vars, sorter_vars, result_vars, pool_vars,
     kill_vars, tally_vars
<1>25. ASSUME NEW t \in Tasks, Register(t)
      PROVE  WorkerInv'
  BY <1>25 DEF Register, Work, Advance, TypeOK, WalkInv, WorkerInv, Loop, Started,
     Finished, disk_vars, cache_vars, main_vars, sorter_vars, result_vars, pool_vars,
     kill_vars, tally_vars
<1>26. ASSUME NEW t \in Tasks, KillDoomed(t)
      PROVE  WorkerInv'
  BY <1>26 DEF KillDoomed, Work, Advance, TypeOK, WalkInv, WorkerInv, Loop, Started,
     Finished, disk_vars, cache_vars, main_vars, sorter_vars, result_vars, pool_vars,
     kill_vars, tally_vars
<1>27. ASSUME NEW t \in Tasks, Communicate(t)
      PROVE  WorkerInv'
  BY <1>27 DEF Communicate, Work, Advance, TypeOK, WalkInv, WorkerInv, Loop, Started,
     Finished, disk_vars, cache_vars, main_vars, sorter_vars, result_vars, pool_vars,
     kill_vars, tally_vars
<1>28. ASSUME NEW t \in Tasks, WriteStdout(t)
      PROVE  WorkerInv'
  BY <1>28 DEF WriteStdout, Work, Advance, TypeOK, WalkInv, WorkerInv, Loop, Started,
     Finished, disk_vars, cache_vars, main_vars, sorter_vars, result_vars, pool_vars,
     kill_vars, tally_vars
<1>29. ASSUME NEW t \in Tasks, WriteStdoutFails(t)
      PROVE  WorkerInv'
  BY <1>29 DEF WriteStdoutFails, Work, Advance, TypeOK, WalkInv, WorkerInv, Loop,
     Started, Finished, disk_vars, cache_vars, main_vars, sorter_vars, result_vars,
     pool_vars, kill_vars, tally_vars
<1>30. ASSUME NEW t \in Tasks, PythonSucceeds(t)
      PROVE  WorkerInv'
  BY <1>30 DEF PythonSucceeds, Work, Advance, TypeOK, WalkInv, WorkerInv, Loop, Started,
     Finished, disk_vars, cache_vars, main_vars, sorter_vars, result_vars, pool_vars,
     kill_vars, tally_vars
<1>31. ASSUME NEW t \in Tasks, PythonFails(t)
      PROVE  WorkerInv'
  BY <1>31 DEF PythonFails, Work, Advance, TypeOK, WalkInv, WorkerInv, Loop, Started,
     Finished, disk_vars, cache_vars, main_vars, sorter_vars, result_vars, pool_vars,
     kill_vars, tally_vars
<1>32. ASSUME NEW t \in Tasks, Timeout(t)
      PROVE  WorkerInv'
  BY <1>32 DEF Timeout, Work, Advance, TypeOK, WalkInv, WorkerInv, Loop, Started,
     Finished, disk_vars, cache_vars, main_vars, sorter_vars, result_vars, pool_vars,
     kill_vars, tally_vars
<1>33. ASSUME NEW t \in Tasks, ToolWrites(t)
      PROVE  WorkerInv'
  BY <1>33 DEF ToolWrites, Tool, TypeOK, WalkInv, WorkerInv, Loop, Started, Finished,
     disk_vars, cache_vars, main_vars, sorter_vars, result_vars, pool_vars, kill_vars,
     tally_vars
<1>34. ASSUME NEW t \in Tasks, ToolSucceeds(t)
      PROVE  WorkerInv'
  BY <1>34 DEF ToolSucceeds, Tool, TypeOK, WalkInv, WorkerInv, Loop, Started, Finished,
     disk_vars, cache_vars, main_vars, sorter_vars, result_vars, pool_vars, kill_vars,
     tally_vars
<1>35. ASSUME NEW t \in Tasks, ToolFails(t)
      PROVE  WorkerInv'
  BY <1>35 DEF ToolFails, Tool, TypeOK, WalkInv, WorkerInv, Loop, Started, Finished,
     disk_vars, cache_vars, main_vars, sorter_vars, result_vars, pool_vars, kill_vars,
     tally_vars
<1>36. CASE UNCHANGED build_vars
  BY <1>1, <1>36 DEF build_vars, disk_vars, cache_vars, main_vars, sorter_vars,
     result_vars, pool_vars, kill_vars, tally_vars
<1> QED BY <1>1, <1>2, <1>3, <1>4, <1>5, <1>6, <1>7, <1>8, <1>9, <1>10, <1>11, <1>12,
   <1>13, <1>14, <1>15, <1>16, <1>17, <1>18, <1>19, <1>20, <1>21, <1>22, <1>23, <1>24,
   <1>25, <1>26, <1>27, <1>28, <1>29, <1>30, <1>31, <1>32, <1>33, <1>34, <1>35, <1>36,
   SavesCut DEF Next, User, Main, Stop, Handling, Worker, Process

LEMMA WalkInit == Init => WalkInv /\ WorkerInv
BY DEF Init, WalkInv, WorkerInv, Loop, Started, Finished

LEMMA WalkCorrect == Spec => [](TypeOK /\ WalkInv /\ WorkerInv)
BY InitType, NextType, WalkInit, WalkStep, WorkerStep, PTL DEF Spec

-----------------------------------------------------------------------------
(* The build implements one walk after another. *)

LEMMA DagInit == Init => Dag!Init
BY DEF Init, Dag!Init, DagStatus, DagWalk

LEMMA DagStep ==
    TypeOK /\ WalkInv /\ WorkerInv /\ [Next]_build_vars => [Dag!Next]_(Dag!dag_vars)
<1> SUFFICES ASSUME TypeOK, WalkInv, WorkerInv, [Next]_build_vars
         PROVE  [Dag!Next]_<<DagStatus, DagWalk>>
  BY DEF Dag!dag_vars
<1>1. ASSUME UNCHANGED <<outcome, done, in_flight, failed_tasks>>
      PROVE  UNCHANGED <<DagStatus, DagWalk>>
  BY <1>1 DEF DagStatus, DagWalk
<1>2. CASE EditSource \/ DeleteOutput \/ GetReady \/ Scheduled \/ Wait \/ Recorded \/
   Killed \/ Saved \/ Join
  BY <1>1, <1>2 DEF CancelFutures, DeleteOutput, EditSource, GetReady, Join, Killed,
     ReadyNodes, Recorded, Saved, Scheduled, Wait, disk_vars, cache_vars, main_vars,
     sorter_vars, result_vars, pool_vars, kill_vars, tally_vars
<1>3. ASSUME NEW c \in Configs, Save(c)
      PROVE  UNCHANGED <<DagStatus, DagWalk>>
  BY <1>1, <1>3 DEF Save, SaveManifest, disk_vars, cache_vars, main_vars, sorter_vars,
     result_vars, pool_vars, kill_vars, tally_vars
<1>4. ASSUME NEW t \in Tasks, Begin(t) \/ Spawn(t) \/ SpawnFails(t) \/ Register(t) \/
   KillDoomed(t) \/ Communicate(t) \/ WriteStdout(t) \/ WriteStdoutFails(t) \/
   PythonSucceeds(t) \/ PythonFails(t) \/ Timeout(t) \/ ToolWrites(t) \/ ToolSucceeds(t)
   \/ ToolFails(t) \/ KillOne(t) PROVE UNCHANGED <<DagStatus, DagWalk>>
  BY <1>1, <1>4 DEF Advance, Begin, Communicate, KillDoomed, KillOne, PythonFails,
     PythonSucceeds, Register, Spawn, SpawnFails, Timeout, Tool, ToolFails,
     ToolSucceeds, ToolWrites, Work, WriteStdout, WriteStdoutFails, disk_vars,
     cache_vars, main_vars, sorter_vars, result_vars, pool_vars, kill_vars, tally_vars
<1>5. CASE StartBuild
  <2>1. Dag!Open
    BY <1>5 DEF StartBuild, OpenCache, Dag!Open, DagStatus, DagWalk, TypeOK, WalkInv,
       Loop, disk_vars, cache_vars, main_vars, sorter_vars, result_vars, pool_vars,
       kill_vars, tally_vars
  <2> QED BY <2>1 DEF Dag!Next
<1>6. CASE Complete
  <2>1. done = Tasks
    <3>1. WalkInv'
      BY WalkStep
    <3> QED BY <1>6, <3>1 DEF Complete, WalkInv, sorter_vars
  <2>2. Dag!Close
    BY <1>6, <2>1 DEF Complete, sorter_vars, result_vars, DagStatus, DagWalk, TypeOK, WalkInv,
        Loop, Dag!Close, Dag!Settled
  <2> QED BY <2>2 DEF Dag!Next
<1>7. CASE Handling \/ InterruptSave
  <2>1. CASE Interrupt /\ pc \in Loop
    <3>1. Dag!Abandon
      BY <2>1 DEF Interrupt, Dag!Abandon, DagStatus, DagWalk, WalkInv, Loop, sorter_vars,
         result_vars
    <3> QED BY <3>1 DEF Dag!Next
  <2>2. CASE Interrupt /\ pc \notin Loop
    BY <1>1, <2>2 DEF Interrupt, WalkInv, Loop, sorter_vars, result_vars
  <2>3. CASE HandleInterrupt \/ InterruptHandler \/ InterruptSave
    BY <1>1, <2>3 DEF HandleInterrupt, InterruptHandler, InterruptSave, CutSave, KillActive,
       WalkInv, sorter_vars, result_vars
  <2> QED BY <1>7, <2>1, <2>2, <2>3 DEF Handling
<1>8. CASE Crash
  <2>1. Dag!Abandon
    BY <1>8 DEF Crash, Dag!Abandon, DagStatus, DagWalk, TypeOK, WalkInv, Loop,
       disk_vars, cache_vars, main_vars, sorter_vars, result_vars, pool_vars, kill_vars,
       tally_vars
  <2> QED BY <2>1 DEF Dag!Next
<1>9. ASSUME NEW t \in Tasks, FailForDependency(t)
      PROVE  Dag!Next
  <2>1. DagWalk = "open" /\ DagStatus[t] = "waiting"
    BY <1>9 DEF FailForDependency, Scheduling, DependencyFailed, Retire, DagStatus,
       DagWalk, TypeOK, WalkInv, Loop
  <2>2. DagStatus' = [DagStatus EXCEPT ![t] = "failed"]
    BY <1>9 DEF FailForDependency, Scheduling, DependencyFailed, Retire, DagStatus,
       DagWalk, TypeOK, WalkInv, Loop, disk_vars, cache_vars, main_vars, sorter_vars,
       result_vars, pool_vars, kill_vars, tally_vars
  <2>3. /\ \A d \in Deps[t] : DagStatus[d] \in {"done", "failed"}
        /\ \E d \in Deps[t] : DagStatus[d] = "failed"
    BY <1>9, GraphAssumption DEF FailForDependency, Scheduling, DependencyFailed,
       Retire, DagStatus, DagWalk, TypeOK, WalkInv, Loop
  <2>4. DagWalk' = DagWalk
    BY <1>9 DEF FailForDependency, Scheduling, DependencyFailed, Retire, DagWalk,
       disk_vars, cache_vars, main_vars, sorter_vars, result_vars, pool_vars, kill_vars,
       tally_vars
  <2>5. Dag!Inherit(t)
    BY <2>1, <2>2, <2>3, <2>4 DEF Dag!Inherit, Dag!Becomes, Dag!Settled
  <2> QED BY <2>5 DEF Dag!Next
<1>10. ASSUME NEW t \in Tasks, Skip(t)
      PROVE  Dag!Next
  <2>1. DagWalk = "open" /\ DagStatus[t] = "waiting"
    BY <1>10 DEF Skip, Scheduling, DependencyFailed, Retire, DagStatus, DagWalk, TypeOK,
       WalkInv, Loop
  <2>2. DagStatus' = [DagStatus EXCEPT ![t] = "done"]
    BY <1>10 DEF Skip, Scheduling, DependencyFailed, Retire, DagStatus, DagWalk, TypeOK,
       WalkInv, Loop, disk_vars, cache_vars, main_vars, sorter_vars, result_vars,
       pool_vars, kill_vars, tally_vars
  <2>3. \A d \in Deps[t] : DagStatus[d] = "done"
    BY <1>10, GraphAssumption DEF Skip, Scheduling, DependencyFailed, Retire, DagStatus,
       DagWalk, TypeOK, WalkInv, Loop
  <2>4. DagWalk' = DagWalk
    BY <1>10 DEF Skip, Scheduling, DependencyFailed, Retire, DagWalk, disk_vars,
       cache_vars, main_vars, sorter_vars, result_vars, pool_vars, kill_vars, tally_vars
  <2>5. Dag!Proceed(t, "done")
    BY <2>1, <2>2, <2>3, <2>4 DEF Dag!Proceed, Dag!Becomes
  <2> QED BY <2>5 DEF Dag!Next
<1>11. ASSUME NEW t \in Tasks, Submit(t)
      PROVE  Dag!Next
  <2>1. DagWalk = "open" /\ DagStatus[t] = "waiting"
    BY <1>11 DEF Submit, Scheduling, DependencyFailed, DagStatus, DagWalk, TypeOK,
       WalkInv, Loop
  <2>2. DagStatus' = [DagStatus EXCEPT ![t] = "running"]
    BY <1>11 DEF Submit, Scheduling, DependencyFailed, DagStatus, DagWalk, TypeOK,
       WalkInv, Loop, disk_vars, cache_vars, main_vars, sorter_vars, result_vars,
       pool_vars, kill_vars, tally_vars
  <2>3. \A d \in Deps[t] : DagStatus[d] = "done"
    BY <1>11, GraphAssumption DEF Submit, Scheduling, DependencyFailed, DagStatus,
       DagWalk, TypeOK, WalkInv, Loop
  <2>4. DagWalk' = DagWalk
    BY <1>11 DEF Submit, Scheduling, DependencyFailed, DagWalk, disk_vars, cache_vars,
       main_vars, sorter_vars, result_vars, pool_vars, kill_vars, tally_vars
  <2>5. Dag!Proceed(t, "running")
    BY <2>1, <2>2, <2>3, <2>4 DEF Dag!Proceed, Dag!Becomes
  <2> QED BY <2>5 DEF Dag!Next
<1>12. ASSUME NEW t \in Tasks, RecordSuccess(t)
      PROVE  Dag!Next
  <2>1. DagWalk = "open" /\ DagStatus[t] = "running"
    BY <1>12 DEF RecordSuccess, Recording, RecordInManifest, Retire, DagStatus, DagWalk,
       TypeOK, WalkInv, Loop
  <2>2. DagStatus' = [DagStatus EXCEPT ![t] = "done"]
    BY <1>12 DEF RecordSuccess, Recording, RecordInManifest, Retire, DagStatus, DagWalk,
       TypeOK, WalkInv, Loop, disk_vars, cache_vars, main_vars, sorter_vars,
       result_vars, pool_vars, kill_vars, tally_vars
  <2>4. DagWalk' = DagWalk
    BY <1>12 DEF RecordSuccess, Recording, RecordInManifest, Retire, DagWalk, disk_vars,
       cache_vars, main_vars, sorter_vars, result_vars, pool_vars, kill_vars, tally_vars
  <2>5. Dag!Succeed(t)
    BY <2>1, <2>2, <2>4 DEF Dag!Succeed, Dag!Becomes
  <2> QED BY <2>5 DEF Dag!Next
<1>13. ASSUME NEW t \in Tasks, RecordFailureGoOn(t)
      PROVE  Dag!Next
  <2>1. DagWalk = "open" /\ DagStatus[t] = "running"
    BY <1>13 DEF RecordFailureGoOn, RecordFailure, Recording, Retire, DagStatus,
       DagWalk, TypeOK, WalkInv, Loop
  <2>2. DagStatus' = [DagStatus EXCEPT ![t] = "failed"]
    BY <1>13 DEF RecordFailureGoOn, RecordFailure, Recording, Retire, DagStatus,
       DagWalk, TypeOK, WalkInv, Loop, disk_vars, cache_vars, main_vars, sorter_vars,
       result_vars, pool_vars, kill_vars, tally_vars
  <2>4. DagWalk' = DagWalk
    BY <1>13 DEF RecordFailureGoOn, RecordFailure, Recording, Retire, DagWalk,
       disk_vars, cache_vars, main_vars, sorter_vars, result_vars, pool_vars, kill_vars,
       tally_vars
  <2>5. Dag!Fail(t)
    BY <2>1, <2>2, <2>4 DEF Dag!Fail, Dag!Becomes
  <2> QED BY <2>5 DEF Dag!Next
<1>14. ASSUME NEW t \in Tasks, RecordFailureAbort(t)
      PROVE  Dag!Next
  <2>1. DagWalk = "open" /\ DagStatus[t] = "running"
    BY <1>14 DEF RecordFailureAbort, RecordFailure, Recording, KillActive, DagStatus,
       DagWalk, TypeOK, WalkInv, Loop
  <2>2. DagStatus' = [DagStatus EXCEPT ![t] = "failed"]
    BY <1>14 DEF RecordFailureAbort, RecordFailure, Recording, KillActive, DagStatus,
       DagWalk, TypeOK, WalkInv, Loop, disk_vars, cache_vars, main_vars, sorter_vars,
       result_vars, pool_vars, kill_vars, tally_vars
  <2>4. DagWalk' = "abandoned"
    BY <1>14 DEF RecordFailureAbort, RecordFailure, Recording, KillActive, DagStatus,
       DagWalk, TypeOK, WalkInv, Loop
  <2>5. Dag!Fail(t)
    BY <2>1, <2>2, <2>4 DEF Dag!Fail, Dag!Becomes
  <2> QED BY <2>5 DEF Dag!Next
<1>15. CASE UNCHANGED build_vars
  BY <1>1, <1>15 DEF build_vars, disk_vars, cache_vars, main_vars, sorter_vars,
     result_vars, pool_vars, kill_vars, tally_vars
<1> QED BY <1>1, <1>2, <1>3, <1>4, <1>5, <1>6, <1>7, <1>8, <1>9, <1>10, <1>11, <1>12,
   <1>13, <1>14, <1>15, SavesCut DEF Next, User, Main, Stop, Handling, Worker, Process

\* Every build walks the graph in order: a task is attempted once at most, after
\* all it depends on has succeeded; failures are inherited; a build is complete
\* only when every task is settled.
THEOREM WalksInOrder == Spec => OrderedWalk
<1>1. Init => Dag!Init
  BY DagInit
<1>2. TypeOK /\ WalkInv /\ WorkerInv /\ [Next]_build_vars => [Dag!Next]_(Dag!dag_vars)
  BY DagStep
<1> QED BY <1>1, <1>2, WalkCorrect, PTL DEF Spec, OrderedWalk, Dag!Spec

-----------------------------------------------------------------------------
(* The counts of the summary. *)

LEMMA OneMore ==
    ASSUME NEW S \in SUBSET Tasks, NEW t \in Tasks \ S
    PROVE  Cardinality(S) \in Nat /\ Cardinality(S \cup {t}) = Cardinality(S) + 1
<1>1. IsFiniteSet(S)
  BY GraphAssumption, FS_Subset
<1> QED BY <1>1, FS_CardinalityType, FS_AddElement

CountsAddUp ==
    /\ result.succeeded + result.failed + result.skipped =
           Cardinality(done \cup failed_tasks)
    /\ failed_tasks # {} => result.errors # {}
    /\ result.failed > 0 => result.errors # {}

LEMMA CountsStep ==
    TypeOK /\ WalkInv /\ CountsAddUp /\ [Next]_build_vars => CountsAddUp'
<1> SUFFICES ASSUME TypeOK, WalkInv, CountsAddUp, [Next]_build_vars
      PROVE  CountsAddUp'
  OBVIOUS
<1>1. ASSUME UNCHANGED <<result, done, failed_tasks>>
      PROVE  CountsAddUp'
  BY <1>1 DEF CountsAddUp
<1>2. CASE EditSource \/ DeleteOutput \/ GetReady \/ Complete \/ Scheduled \/ Wait \/
   Recorded \/ Killed \/ Saved \/ Join \/ Crash \/
   Handling \/ InterruptSave
  BY <1>1, <1>2 DEF CancelFutures, Complete, Crash, DeleteOutput, EditSource, GetReady,
     Handling, Interrupt, HandleInterrupt, InterruptHandler, InterruptSave, CutSave,
     KillActive, Join, Killed, ReadyNodes, Recorded, Saved, Scheduled, Wait, disk_vars,
     cache_vars, main_vars, sorter_vars, result_vars, pool_vars, kill_vars, tally_vars
<1>3. ASSUME NEW c \in Configs, Save(c)
      PROVE  CountsAddUp'
  BY <1>1, <1>3 DEF Save, SaveManifest, disk_vars, cache_vars, main_vars, sorter_vars,
     result_vars, pool_vars, kill_vars, tally_vars
<1>4. ASSUME NEW t \in Tasks, Submit(t) \/ KillOne(t) \/ Begin(t) \/ Spawn(t) \/
   SpawnFails(t) \/ Register(t) \/ KillDoomed(t) \/ Communicate(t) \/ WriteStdout(t) \/
   WriteStdoutFails(t) \/ PythonSucceeds(t) \/ PythonFails(t) \/ Timeout(t) \/
   ToolWrites(t) \/ ToolSucceeds(t) \/ ToolFails(t) PROVE CountsAddUp'
  BY <1>1, <1>4 DEF Advance, Begin, Communicate, DependencyFailed, KillDoomed, KillOne,
     PythonFails, PythonSucceeds, Register, Scheduling, Spawn, SpawnFails, Submit,
     Timeout, Tool, ToolFails, ToolSucceeds, ToolWrites, Work, WriteStdout,
     WriteStdoutFails, disk_vars, cache_vars, main_vars, sorter_vars, result_vars,
     pool_vars, kill_vars, tally_vars
<1>5. CASE StartBuild
  BY <1>5, FS_EmptySet DEF StartBuild, NoResult, CountsAddUp
<1>6. ASSUME NEW t \in Tasks, FailForDependency(t)
      PROVE  CountsAddUp'
  <2>1. /\ t \notin done \cup failed_tasks
        /\ done' \cup failed_tasks' = (done \cup failed_tasks) \cup {t}
    BY <1>6 DEF FailForDependency, Scheduling, DependencyFailed, Retire, TypeOK, WalkInv
  <2>2. Cardinality(done' \cup failed_tasks') = Cardinality(done \cup failed_tasks) + 1
    BY <2>1, OneMore DEF TypeOK
  <2>3. result' = [result EXCEPT !.failed = @ + 1]
    BY <1>6 DEF FailForDependency, Scheduling, DependencyFailed, Retire
  <2>4. /\ result'.succeeded + result'.failed + result'.skipped =
               result.succeeded + result.failed + result.skipped + 1
        /\ result'.errors = result.errors
    BY <2>3 DEF TypeOK
  <2>5. failed_tasks # {} \/ result'.errors # {}
    BY <1>6, <2>4 DEF FailForDependency, Scheduling, DependencyFailed, Retire, TypeOK
  <2> QED BY <2>2, <2>4, <2>5 DEF CountsAddUp
<1>7. ASSUME NEW t \in Tasks, Skip(t)
      PROVE  CountsAddUp'
  <2>1. /\ t \notin done \cup failed_tasks
        /\ done' \cup failed_tasks' = (done \cup failed_tasks) \cup {t}
    BY <1>7 DEF Skip, Scheduling, DependencyFailed, Retire, TypeOK, WalkInv
  <2>2. Cardinality(done' \cup failed_tasks') = Cardinality(done \cup failed_tasks) + 1
    BY <2>1, OneMore DEF TypeOK
  <2>3. result' = [result EXCEPT !.skipped = @ + 1]
    BY <1>7 DEF Skip, Scheduling, DependencyFailed, Retire
  <2>4. /\ result'.succeeded + result'.failed + result'.skipped =
               result.succeeded + result.failed + result.skipped + 1
        /\ result'.errors = result.errors
        /\ result'.failed = result.failed
    BY <2>3 DEF TypeOK
  <2>5. failed_tasks' = failed_tasks
    BY <1>7 DEF Skip, Scheduling, DependencyFailed, Retire
  <2> QED BY <2>2, <2>4, <2>5 DEF CountsAddUp
<1>8. ASSUME NEW t \in Tasks, RecordSuccess(t)
      PROVE  CountsAddUp'
  <2>1. /\ t \notin done \cup failed_tasks
        /\ done' \cup failed_tasks' = (done \cup failed_tasks) \cup {t}
    BY <1>8 DEF RecordSuccess, Recording, RecordInManifest, Retire, TypeOK, WalkInv
  <2>2. Cardinality(done' \cup failed_tasks') = Cardinality(done \cup failed_tasks) + 1
    BY <2>1, OneMore DEF TypeOK
  <2>3. result' = [result EXCEPT !.succeeded = @ + 1]
    BY <1>8 DEF RecordSuccess, Recording, RecordInManifest, Retire
  <2>4. /\ result'.succeeded + result'.failed + result'.skipped =
               result.succeeded + result.failed + result.skipped + 1
        /\ result'.errors = result.errors
        /\ result'.failed = result.failed
    BY <2>3 DEF TypeOK
  <2>5. failed_tasks' = failed_tasks
    BY <1>8 DEF RecordSuccess, Recording, RecordInManifest, Retire
  <2> QED BY <2>2, <2>4, <2>5 DEF CountsAddUp
<1>9. ASSUME NEW t \in Tasks, RecordFailureGoOn(t)
      PROVE  CountsAddUp'
  <2>1. /\ t \notin done \cup failed_tasks
        /\ done' \cup failed_tasks' = (done \cup failed_tasks) \cup {t}
    BY <1>9 DEF RecordFailureGoOn, RecordFailure, Recording, Retire, TypeOK, WalkInv
  <2>2. Cardinality(done' \cup failed_tasks') = Cardinality(done \cup failed_tasks) + 1
    BY <2>1, OneMore DEF TypeOK
  <2>3. result' = [result EXCEPT !.failed = @ + 1, !.errors = @ \cup {t}]
    BY <1>9 DEF RecordFailureGoOn, RecordFailure, Recording, Retire
  <2>4. /\ result'.succeeded + result'.failed + result'.skipped =
               result.succeeded + result.failed + result.skipped + 1
        /\ result'.errors = result.errors \cup {t}
    BY <2>3 DEF TypeOK
  <2>5. failed_tasks # {} \/ result'.errors # {}
    BY <1>9, <2>4 DEF RecordFailureGoOn, RecordFailure, Recording, Retire, TypeOK
  <2> QED BY <2>2, <2>4, <2>5 DEF CountsAddUp
<1>10. ASSUME NEW t \in Tasks, RecordFailureAbort(t)
      PROVE  CountsAddUp'
  <2>1. /\ t \notin done \cup failed_tasks
        /\ done' \cup failed_tasks' = (done \cup failed_tasks) \cup {t}
    BY <1>10 DEF RecordFailureAbort, RecordFailure, Recording, KillActive, TypeOK, WalkInv
  <2>2. Cardinality(done' \cup failed_tasks') = Cardinality(done \cup failed_tasks) + 1
    BY <2>1, OneMore DEF TypeOK
  <2>3. result' = [result EXCEPT !.failed = @ + 1, !.errors = @ \cup {t}]
    BY <1>10 DEF RecordFailureAbort, RecordFailure, Recording, KillActive
  <2>4. /\ result'.succeeded + result'.failed + result'.skipped =
               result.succeeded + result.failed + result.skipped + 1
        /\ result'.errors = result.errors \cup {t}
    BY <2>3 DEF TypeOK
  <2>5. failed_tasks # {} \/ result'.errors # {}
    BY <1>10, <2>4 DEF RecordFailureAbort, RecordFailure, Recording, KillActive, TypeOK
  <2> QED BY <2>2, <2>4, <2>5 DEF CountsAddUp
<1>11. CASE UNCHANGED build_vars
  BY <1>1, <1>11 DEF build_vars, disk_vars, cache_vars, main_vars, sorter_vars,
     result_vars, pool_vars, kill_vars, tally_vars
<1> QED BY <1>1, <1>2, <1>3, <1>4, <1>5, <1>6, <1>7, <1>8, <1>9, <1>10, <1>11, SavesCut
   DEF Next, User, Main, Stop, Handling, Worker, Process

\* Every task is counted exactly once in the summary, and a summary that counts
\* failures lists one that is not inherited (build.py:284-302, 336-347).
THEOREM SummaryCorrect == Spec => []SummaryAddsUp
<1>1. Init => CountsAddUp
  BY FS_EmptySet DEF Init, NoResult, CountsAddUp
<1>2. WalkInv /\ CountsAddUp => SummaryAddsUp
  BY DEF WalkInv, CountsAddUp, SummaryAddsUp
<1> QED BY <1>1, <1>2, CountsStep, WalkCorrect, PTL DEF Spec

-----------------------------------------------------------------------------
(* Shutting down. *)

\* The inductive form: a worker that waits for its subprocess has registered it.
ShutdownInv ==
    /\ ShutdownReachesAll
    /\ \A t \in Tasks : child[t] = "alive" /\ worker[t] = "running" => t \in active_pgids

LEMMA ShutdownStep ==
    TypeOK /\ WorkerInv /\ ShutdownInv /\ [Next]_build_vars => ShutdownInv'
<1> SUFFICES ASSUME TypeOK, WorkerInv, ShutdownInv, [Next]_build_vars
      PROVE  ShutdownInv'
  OBVIOUS
<1>1. ASSUME UNCHANGED <<shutdown_event, pgids, active_pgids, worker, child, cut>>
      PROVE  ShutdownInv'
  BY <1>1 DEF TypeOK, WorkerInv, ShutdownInv, ShutdownReachesAll, Started, Finished
<1>2. CASE EditSource \/ DeleteOutput \/ GetReady \/ Complete \/ Scheduled \/ Wait \/
   Recorded \/ Saved \/ Join
  BY <1>1, <1>2 DEF Complete, DeleteOutput, EditSource, GetReady, Join, ReadyNodes,
     Recorded, Saved, Scheduled, Wait, disk_vars, cache_vars, main_vars, sorter_vars,
     result_vars, pool_vars, kill_vars, tally_vars
<1>3. ASSUME NEW c \in Configs, Save(c)
      PROVE  ShutdownInv'
  BY <1>1, <1>3 DEF Save, SaveManifest, disk_vars, cache_vars, main_vars, sorter_vars,
     result_vars, pool_vars, kill_vars, tally_vars
<1>4. ASSUME NEW t \in Tasks, FailForDependency(t) \/ Skip(t) \/ RecordSuccess(t) \/
   RecordFailureGoOn(t) PROVE ShutdownInv'
  BY <1>1, <1>4 DEF DependencyFailed, FailForDependency, RecordFailure,
     RecordFailureGoOn, RecordInManifest, RecordSuccess, Recording, Retire, Scheduling,
     Skip, disk_vars, cache_vars, main_vars, sorter_vars, result_vars, pool_vars,
     kill_vars, tally_vars
<1>5. CASE StartBuild
  BY <1>5 DEF StartBuild, OpenCache, TypeOK, WorkerInv, ShutdownInv, ShutdownReachesAll,
     Started, Finished, disk_vars, cache_vars, main_vars, sorter_vars, result_vars,
     pool_vars, kill_vars, tally_vars
<1>6. CASE Killed
  BY <1>6 DEF Killed, CancelFutures, TypeOK, WorkerInv, ShutdownInv, ShutdownReachesAll,
     Started, Finished, disk_vars, cache_vars, main_vars, sorter_vars, result_vars,
     pool_vars, kill_vars, tally_vars
<1>7. ASSUME NEW t \in Tasks, Submit(t)
      PROVE  ShutdownInv'
  BY <1>7 DEF Submit, Scheduling, DependencyFailed, TypeOK, WorkerInv, ShutdownInv,
     ShutdownReachesAll, Started, Finished, disk_vars, cache_vars, main_vars,
     sorter_vars, result_vars, pool_vars, kill_vars, tally_vars
<1>8. ASSUME NEW t \in Tasks, RecordFailureAbort(t)
      PROVE  ShutdownInv'
  BY <1>8 DEF RecordFailureAbort, RecordFailure, Recording, KillActive, TypeOK,
     WorkerInv, ShutdownInv, ShutdownReachesAll, Started, Finished, disk_vars,
     cache_vars, main_vars, sorter_vars, result_vars, pool_vars, kill_vars, tally_vars
<1>9. ASSUME NEW t \in Tasks, KillOne(t)
      PROVE  ShutdownInv'
  BY <1>9 DEF KillOne, TypeOK, WorkerInv, ShutdownInv, ShutdownReachesAll, Started,
     Finished, disk_vars, cache_vars, main_vars, sorter_vars, result_vars, pool_vars,
     kill_vars, tally_vars
<1>10. CASE Handling \/ InterruptSave
  BY <1>10 DEF Handling, Interrupt, HandleInterrupt, InterruptHandler, InterruptSave,
     CutSave, KillActive, TypeOK, WorkerInv, ShutdownInv, ShutdownReachesAll, Started,
     Finished, disk_vars, cache_vars, main_vars, sorter_vars, result_vars, pool_vars,
     kill_vars, tally_vars
<1>11. CASE Crash
  BY <1>11 DEF Crash, TypeOK, WorkerInv, ShutdownInv, ShutdownReachesAll, Started,
     Finished, disk_vars, cache_vars, main_vars, sorter_vars, result_vars, pool_vars,
     kill_vars, tally_vars
<1>12. ASSUME NEW t \in Tasks, Begin(t)
      PROVE  ShutdownInv'
  BY <1>12 DEF Begin, Work, Advance, TypeOK, WorkerInv, ShutdownInv, ShutdownReachesAll,
     Started, Finished, disk_vars, cache_vars, main_vars, sorter_vars, result_vars,
     pool_vars, kill_vars, tally_vars
<1>13. ASSUME NEW t \in Tasks, Spawn(t)
      PROVE  ShutdownInv'
  BY <1>13 DEF Spawn, Work, Advance, TypeOK, WorkerInv, ShutdownInv, ShutdownReachesAll,
     Started, Finished, disk_vars, cache_vars, main_vars, sorter_vars, result_vars,
     pool_vars, kill_vars, tally_vars
<1>14. ASSUME NEW t \in Tasks, SpawnFails(t)
      PROVE  ShutdownInv'
  BY <1>14 DEF SpawnFails, Work, Advance, TypeOK, WorkerInv, ShutdownInv,
     ShutdownReachesAll, Started, Finished, disk_vars, cache_vars, main_vars,
     sorter_vars, result_vars, pool_vars, kill_vars, tally_vars
<1>15. ASSUME NEW t \in Tasks, Register(t)
      PROVE  ShutdownInv'
  BY <1>15 DEF Register, Work, Advance, TypeOK, WorkerInv, ShutdownInv,
     ShutdownReachesAll, Started, Finished, disk_vars, cache_vars, main_vars,
     sorter_vars, result_vars, pool_vars, kill_vars, tally_vars
<1>16. ASSUME NEW t \in Tasks, KillDoomed(t)
      PROVE  ShutdownInv'
  BY <1>16 DEF KillDoomed, Work, Advance, TypeOK, WorkerInv, ShutdownInv,
     ShutdownReachesAll, Started, Finished, disk_vars, cache_vars, main_vars,
     sorter_vars, result_vars, pool_vars, kill_vars, tally_vars
<1>17. ASSUME NEW t \in Tasks, Communicate(t)
      PROVE  ShutdownInv'
  BY <1>17 DEF Communicate, Work, Advance, TypeOK, WorkerInv, ShutdownInv,
     ShutdownReachesAll, Started, Finished, disk_vars, cache_vars, main_vars,
     sorter_vars, result_vars, pool_vars, kill_vars, tally_vars
<1>18. ASSUME NEW t \in Tasks, WriteStdout(t)
      PROVE  ShutdownInv'
  BY <1>18 DEF WriteStdout, Work, Advance, TypeOK, WorkerInv, ShutdownInv,
     ShutdownReachesAll, Started, Finished, disk_vars, cache_vars, main_vars,
     sorter_vars, result_vars, pool_vars, kill_vars, tally_vars
<1>19. ASSUME NEW t \in Tasks, WriteStdoutFails(t)
      PROVE  ShutdownInv'
  BY <1>19 DEF WriteStdoutFails, Work, Advance, TypeOK, WorkerInv, ShutdownInv,
     ShutdownReachesAll, Started, Finished, disk_vars, cache_vars, main_vars,
     sorter_vars, result_vars, pool_vars, kill_vars, tally_vars
<1>20. ASSUME NEW t \in Tasks, PythonSucceeds(t)
      PROVE  ShutdownInv'
  BY <1>20 DEF PythonSucceeds, Work, Advance, TypeOK, WorkerInv, ShutdownInv,
     ShutdownReachesAll, Started, Finished, disk_vars, cache_vars, main_vars,
     sorter_vars, result_vars, pool_vars, kill_vars, tally_vars
<1>21. ASSUME NEW t \in Tasks, PythonFails(t)
      PROVE  ShutdownInv'
  BY <1>21 DEF PythonFails, Work, Advance, TypeOK, WorkerInv, ShutdownInv,
     ShutdownReachesAll, Started, Finished, disk_vars, cache_vars, main_vars,
     sorter_vars, result_vars, pool_vars, kill_vars, tally_vars
<1>22. ASSUME NEW t \in Tasks, Timeout(t)
      PROVE  ShutdownInv'
  BY <1>22 DEF Timeout, Work, Advance, TypeOK, WorkerInv, ShutdownInv,
     ShutdownReachesAll, Started, Finished, disk_vars, cache_vars, main_vars,
     sorter_vars, result_vars, pool_vars, kill_vars, tally_vars
<1>23. ASSUME NEW t \in Tasks, ToolWrites(t)
      PROVE  ShutdownInv'
  BY <1>23 DEF ToolWrites, Tool, TypeOK, WorkerInv, ShutdownInv, ShutdownReachesAll,
     Started, Finished, disk_vars, cache_vars, main_vars, sorter_vars, result_vars,
     pool_vars, kill_vars, tally_vars
<1>24. ASSUME NEW t \in Tasks, ToolSucceeds(t)
      PROVE  ShutdownInv'
  BY <1>24 DEF ToolSucceeds, Tool, TypeOK, WorkerInv, ShutdownInv, ShutdownReachesAll,
     Started, Finished, disk_vars, cache_vars, main_vars, sorter_vars, result_vars,
     pool_vars, kill_vars, tally_vars
<1>25. ASSUME NEW t \in Tasks, ToolFails(t)
      PROVE  ShutdownInv'
  BY <1>25 DEF ToolFails, Tool, TypeOK, WorkerInv, ShutdownInv, ShutdownReachesAll,
     Started, Finished, disk_vars, cache_vars, main_vars, sorter_vars, result_vars,
     pool_vars, kill_vars, tally_vars
<1>26. CASE UNCHANGED build_vars
  BY <1>1, <1>26 DEF build_vars, disk_vars, cache_vars, main_vars, sorter_vars,
     result_vars, pool_vars, kill_vars, tally_vars
<1> QED BY <1>1, <1>2, <1>3, <1>4, <1>5, <1>6, <1>7, <1>8, <1>9, <1>10, <1>11, <1>12,
   <1>13, <1>14, <1>15, <1>16, <1>17, <1>18, <1>19, <1>20, <1>21, <1>22, <1>23, <1>24,
   <1>25, <1>26, SavesCut DEF Next, User, Main, Stop, Handling, Worker, Process

\* Whichever way a worker that has just started a subprocess races the main
\* thread that shuts down, the subprocess is killed by one of them
\* (build.py:121-127, 315-321); only registered ones are spared, and only when
\* an interrupt meets the handler of an interrupt (build.py:383).
THEOREM ShutdownCorrect == Spec => []ShutdownReachesAll
<1>1. Init => ShutdownInv
  BY DEF Init, ShutdownInv, ShutdownReachesAll
<1>2. ShutdownInv => ShutdownReachesAll
  BY DEF ShutdownInv
<1> QED BY <1>1, <1>2, ShutdownStep, WalkCorrect, PTL DEF Spec

-----------------------------------------------------------------------------
(* The manifests. *)

\* The inductive form: what is counted is in the manifest in memory, and as long
\* as it is not in the file its config dir is marked for saving.
SavingInv ==
    /\ \A t \in done : worker[t] = "succeeded" =>
           /\ manifest[t] = hashes[t]
           /\ ConfigOf[t] \in updated \/ stored[t] = hashes[t]
    /\ pc = "join" \/ (pc = "idle" /\ outcome # "crashed") =>
           updated = {} \/ "save" \in cut

LEMMA SavingStep ==
    TypeOK /\ WalkInv /\ WorkerInv /\ SavingInv /\ [Next]_build_vars => SavingInv'
<1> SUFFICES ASSUME TypeOK, WalkInv, WorkerInv, SavingInv, [Next]_build_vars
      PROVE  SavingInv'
  OBVIOUS
<1>1. ASSUME UNCHANGED <<done, worker, manifest, hashes, updated, stored, pc, outcome, cut>>
      PROVE  SavingInv'
  BY <1>1 DEF TypeOK, CacheTypeOK, WalkInv, WorkerInv, SavingInv, Loop, Started,
     Finished
<1>2. CASE EditSource \/ DeleteOutput
  BY <1>1, <1>2 DEF DeleteOutput, EditSource, disk_vars, cache_vars, main_vars,
     sorter_vars, result_vars, pool_vars, kill_vars, tally_vars
<1>3. ASSUME NEW t \in Tasks, KillOne(t) \/ Timeout(t) \/ ToolWrites(t) \/
   ToolSucceeds(t) \/ ToolFails(t) PROVE SavingInv'
  BY <1>1, <1>3 DEF Advance, KillOne, Timeout, Tool, ToolFails, ToolSucceeds,
     ToolWrites, Work, disk_vars, cache_vars, main_vars, sorter_vars, result_vars,
     pool_vars, kill_vars, tally_vars
<1>4. CASE StartBuild
  BY <1>4 DEF StartBuild, OpenCache, TypeOK, CacheTypeOK, WalkInv, WorkerInv, SavingInv,
     Loop, Started, Finished, disk_vars, cache_vars, main_vars, sorter_vars,
     result_vars, pool_vars, kill_vars, tally_vars
<1>5. CASE GetReady
  BY <1>5 DEF GetReady, ReadyNodes, TypeOK, CacheTypeOK, WalkInv, WorkerInv, SavingInv,
     Loop, Started, Finished, disk_vars, cache_vars, main_vars, sorter_vars,
     result_vars, pool_vars, kill_vars, tally_vars
<1>6. CASE Complete
  BY <1>6 DEF Complete, TypeOK, CacheTypeOK, WalkInv, WorkerInv, SavingInv, Loop,
     Started, Finished, disk_vars, cache_vars, main_vars, sorter_vars, result_vars,
     pool_vars, kill_vars, tally_vars
<1>7. CASE Scheduled
  BY <1>7 DEF Scheduled, TypeOK, CacheTypeOK, WalkInv, WorkerInv, SavingInv, Loop,
     Started, Finished, disk_vars, cache_vars, main_vars, sorter_vars, result_vars,
     pool_vars, kill_vars, tally_vars
<1>8. CASE Wait
  BY <1>8 DEF Wait, TypeOK, CacheTypeOK, WalkInv, WorkerInv, SavingInv, Loop, Started,
     Finished, disk_vars, cache_vars, main_vars, sorter_vars, result_vars, pool_vars,
     kill_vars, tally_vars
<1>9. CASE Recorded
  BY <1>9 DEF Recorded, TypeOK, CacheTypeOK, WalkInv, WorkerInv, SavingInv, Loop,
     Started, Finished, disk_vars, cache_vars, main_vars, sorter_vars, result_vars,
     pool_vars, kill_vars, tally_vars
<1>10. CASE Killed
  BY <1>10 DEF Killed, CancelFutures, TypeOK, CacheTypeOK, WalkInv, WorkerInv,
     SavingInv, Loop, Started, Finished, disk_vars, cache_vars, main_vars, sorter_vars,
     result_vars, pool_vars, kill_vars, tally_vars
<1>11. CASE Saved
  BY <1>11 DEF Saved, TypeOK, CacheTypeOK, WalkInv, WorkerInv, SavingInv, Loop, Started,
     Finished, disk_vars, cache_vars, main_vars, sorter_vars, result_vars, pool_vars,
     kill_vars, tally_vars
<1>12. CASE Join
  BY <1>12 DEF Join, TypeOK, CacheTypeOK, WalkInv, WorkerInv, SavingInv, Loop, Started,
     Finished, disk_vars, cache_vars, main_vars, sorter_vars, result_vars, pool_vars,
     kill_vars, tally_vars
<1>13. ASSUME NEW c \in Configs, Save(c)
      PROVE  SavingInv'
  BY <1>13 DEF Save, SaveManifest, TypeOK, CacheTypeOK, WalkInv, WorkerInv, SavingInv,
     Loop, Started, Finished, disk_vars, cache_vars, main_vars, sorter_vars,
     result_vars, pool_vars, kill_vars, tally_vars
<1>14. ASSUME NEW t \in Tasks, FailForDependency(t)
      PROVE  SavingInv'
  BY <1>14 DEF FailForDependency, Scheduling, DependencyFailed, Retire, TypeOK,
     CacheTypeOK, WalkInv, WorkerInv, SavingInv, Loop, Started, Finished, disk_vars,
     cache_vars, main_vars, sorter_vars, result_vars, pool_vars, kill_vars, tally_vars
<1>15. ASSUME NEW t \in Tasks, Skip(t)
      PROVE  SavingInv'
  BY <1>15 DEF Skip, Scheduling, DependencyFailed, Retire, TypeOK, CacheTypeOK, WalkInv,
     WorkerInv, SavingInv, Loop, Started, Finished, disk_vars, cache_vars, main_vars,
     sorter_vars, result_vars, pool_vars, kill_vars, tally_vars
<1>16. ASSUME NEW t \in Tasks, Submit(t)
      PROVE  SavingInv'
  BY <1>16 DEF Submit, Scheduling, DependencyFailed, TypeOK, CacheTypeOK, WalkInv,
     WorkerInv, SavingInv, Loop, Started, Finished, disk_vars, cache_vars, main_vars,
     sorter_vars, result_vars, pool_vars, kill_vars, tally_vars
<1>17. ASSUME NEW t \in Tasks, RecordSuccess(t)
      PROVE  SavingInv'
  BY <1>17 DEF RecordSuccess, Recording, RecordInManifest, Retire, TypeOK, CacheTypeOK,
     WalkInv, WorkerInv, SavingInv, Loop, Started, Finished, disk_vars, cache_vars,
     main_vars, sorter_vars, result_vars, pool_vars, kill_vars, tally_vars
<1>18. ASSUME NEW t \in Tasks, RecordFailureGoOn(t)
      PROVE  SavingInv'
  BY <1>18 DEF RecordFailureGoOn, RecordFailure, Recording, Retire, TypeOK, CacheTypeOK,
     WalkInv, WorkerInv, SavingInv, Loop, Started, Finished, disk_vars, cache_vars,
     main_vars, sorter_vars, result_vars, pool_vars, kill_vars, tally_vars
<1>19. ASSUME NEW t \in Tasks, RecordFailureAbort(t)
      PROVE  SavingInv'
  BY <1>19 DEF RecordFailureAbort, RecordFailure, Recording, KillActive, TypeOK,
     CacheTypeOK, WalkInv, WorkerInv, SavingInv, Loop, Started, Finished, disk_vars,
     cache_vars, main_vars, sorter_vars, result_vars, pool_vars, kill_vars, tally_vars
<1>20. CASE Handling \/ InterruptSave
  BY <1>20 DEF Handling, Interrupt, HandleInterrupt, InterruptHandler, InterruptSave,
     CutSave, KillActive, TypeOK, CacheTypeOK, WalkInv, WorkerInv, SavingInv, Loop,
     Started, Finished, disk_vars, cache_vars, main_vars, sorter_vars, result_vars,
     pool_vars, kill_vars, tally_vars
<1>21. CASE Crash
  BY <1>21 DEF Crash, TypeOK, CacheTypeOK, WalkInv, WorkerInv, SavingInv, Loop, Started,
     Finished, disk_vars, cache_vars, main_vars, sorter_vars, result_vars, pool_vars,
     kill_vars, tally_vars
<1>22. ASSUME NEW t \in Tasks, Begin(t)
      PROVE  SavingInv'
  BY <1>22 DEF Begin, Work, Advance, TypeOK, CacheTypeOK, WalkInv, WorkerInv, SavingInv,
     Loop, Started, Finished, disk_vars, cache_vars, main_vars, sorter_vars,
     result_vars, pool_vars, kill_vars, tally_vars
<1>23. ASSUME NEW t \in Tasks, Spawn(t)
      PROVE  SavingInv'
  BY <1>23 DEF Spawn, Work, Advance, TypeOK, CacheTypeOK, WalkInv, WorkerInv, SavingInv,
     Loop, Started, Finished, disk_vars, cache_vars, main_vars, sorter_vars,
     result_vars, pool_vars, kill_vars, tally_vars
<1>24. ASSUME NEW t \in Tasks, SpawnFails(t)
      PROVE  SavingInv'
  BY <1>24 DEF SpawnFails, Work, Advance, TypeOK, CacheTypeOK, WalkInv, WorkerInv,
     SavingInv, Loop, Started, Finished, disk_vars, cache_vars, main_vars, sorter_vars,
     result_vars, pool_vars, kill_vars, tally_vars
<1>25. ASSUME NEW t \in Tasks, Register(t)
      PROVE  SavingInv'
  BY <1>25 DEF Register, Work, Advance, TypeOK, CacheTypeOK, WalkInv, WorkerInv,
     SavingInv, Loop, Started, Finished, disk_vars, cache_vars, main_vars, sorter_vars,
     result_vars, pool_vars, kill_vars, tally_vars
<1>26. ASSUME NEW t \in Tasks, KillDoomed(t)
      PROVE  SavingInv'
  BY <1>26 DEF KillDoomed, Work, Advance, TypeOK, CacheTypeOK, WalkInv, WorkerInv,
     SavingInv, Loop, Started, Finished, disk_vars, cache_vars, main_vars, sorter_vars,
     result_vars, pool_vars, kill_vars, tally_vars
<1>27. ASSUME NEW t \in Tasks, Communicate(t)
      PROVE  SavingInv'
  BY <1>27 DEF Communicate, Work, Advance, TypeOK, CacheTypeOK, WalkInv, WorkerInv,
     SavingInv, Loop, Started, Finished, disk_vars, cache_vars, main_vars, sorter_vars,
     result_vars, pool_vars, kill_vars, tally_vars
<1>28. ASSUME NEW t \in Tasks, WriteStdout(t)
      PROVE  SavingInv'
  BY <1>28 DEF WriteStdout, Work, Advance, TypeOK, CacheTypeOK, WalkInv, WorkerInv,
     SavingInv, Loop, Started, Finished, disk_vars, cache_vars, main_vars, sorter_vars,
     result_vars, pool_vars, kill_vars, tally_vars
<1>29. ASSUME NEW t \in Tasks, WriteStdoutFails(t)
      PROVE  SavingInv'
  BY <1>29 DEF WriteStdoutFails, Work, Advance, TypeOK, CacheTypeOK, WalkInv, WorkerInv,
     SavingInv, Loop, Started, Finished, disk_vars, cache_vars, main_vars, sorter_vars,
     result_vars, pool_vars, kill_vars, tally_vars
<1>30. ASSUME NEW t \in Tasks, PythonSucceeds(t)
      PROVE  SavingInv'
  BY <1>30 DEF PythonSucceeds, Work, Advance, TypeOK, CacheTypeOK, WalkInv, WorkerInv,
     SavingInv, Loop, Started, Finished, disk_vars, cache_vars, main_vars, sorter_vars,
     result_vars, pool_vars, kill_vars, tally_vars
<1>31. ASSUME NEW t \in Tasks, PythonFails(t)
      PROVE  SavingInv'
  BY <1>31 DEF PythonFails, Work, Advance, TypeOK, CacheTypeOK, WalkInv, WorkerInv,
     SavingInv, Loop, Started, Finished, disk_vars, cache_vars, main_vars, sorter_vars,
     result_vars, pool_vars, kill_vars, tally_vars
<1>32. CASE UNCHANGED build_vars
  BY <1>1, <1>32 DEF build_vars, disk_vars, cache_vars, main_vars, sorter_vars,
     result_vars, pool_vars, kill_vars, tally_vars
<1> QED BY <1>1, <1>2, <1>3, <1>4, <1>5, <1>6, <1>7, <1>8, <1>9, <1>10, <1>11, <1>12,
   <1>13, <1>14, <1>15, <1>16, <1>17, <1>18, <1>19, <1>20, <1>21, <1>22, <1>23, <1>24,
   <1>25, <1>26, <1>27, <1>28, <1>29, <1>30, <1>31, <1>32, SavesCut DEF Next, User,
   Main, Stop, Handling, Worker, Process

\* Success, failure or interrupt: the successes a build has counted are in the
\* manifest files when it returns (build.py:386-387).  A save cut short by an
\* interrupt or an error misses those of the manifests it had not reached
\* (build_cache.py:107-112, 195-199), and no others.
THEOREM SavingCorrect == Spec => []RecordedIsSaved
<1>1. Init => SavingInv
  BY DEF Init, SavingInv
<1>2. SavingInv => RecordedIsSaved
  BY DEF SavingInv, RecordedIsSaved
<1> QED BY <1>1, <1>2, SavingStep, WalkCorrect, PTL DEF Spec

-----------------------------------------------------------------------------
(* Inputs and intermediates. *)

Cleaning == pc # "idle" /\ options.clean_intermediates /\ ~ options.dry_run

\* The counters count the consumers that are not done.
ConsumersInv ==
    /\ Cleaning => \A d \in Intermediate :
           remaining_consumers[d] = Cardinality(Consumers(d) \ done)
    /\ \A d \in Tasks : remaining_consumers[d] > 0 =>
           /\ d \in Intermediate
           /\ options.clean_intermediates /\ ~ options.dry_run

LEMMA OneConsumerLess ==
    ASSUME NEW d \in Tasks, NEW t \in Tasks \ done
    PROVE  /\ Cardinality(Consumers(d) \ done) \in Nat
           /\ t \in Consumers(d) =>
                  Cardinality(Consumers(d) \ (done \cup {t})) =
                      Cardinality(Consumers(d) \ done) - 1
           /\ t \notin Consumers(d) =>
                  Consumers(d) \ (done \cup {t}) = Consumers(d) \ done
<1>1. IsFiniteSet(Consumers(d) \ done)
  BY ConsumersFinite, FS_Subset
<1>2. Consumers(d) \ (done \cup {t}) = (Consumers(d) \ done) \ {t}
  OBVIOUS
<1>3. t \in Consumers(d) => t \in Consumers(d) \ done
  OBVIOUS
<1>4. t \notin Consumers(d) => Consumers(d) \ (done \cup {t}) = Consumers(d) \ done
  OBVIOUS
<1> HIDE DEF Consumers
<1>5. Cardinality(Consumers(d) \ done) \in Nat
  BY <1>1, FS_CardinalityType
<1>6. ASSUME t \in Consumers(d) \ done
      PROVE  Cardinality((Consumers(d) \ done) \ {t}) = Cardinality(Consumers(d) \ done) - 1
  BY <1>1, <1>6, FS_RemoveElement
<1> QED BY <1>2, <1>3, <1>4, <1>5, <1>6

LEMMA RetireCounts ==
    ASSUME TypeOK, ConsumersInv, pc # "idle", pc' # "idle",
           NEW t \in Tasks \ done, Retire(t), UNCHANGED options
    PROVE  ConsumersInv'
<1>1. \A d \in Tasks : d \in Deps[t] <=> t \in Consumers(d)
  BY DEF Consumers
<1>2. ASSUME Cleaning, NEW d \in Intermediate
      PROVE  remaining_consumers'[d] = Cardinality(Consumers(d) \ done')
  <2>1. d \in Tasks
    BY GraphAssumption
  <2>2. done' = done \cup {t}
    BY DEF Retire
  <2>3. remaining_consumers[d] = Cardinality(Consumers(d) \ done)
    BY <1>2 DEF ConsumersInv
  <2>4. CASE t \in Consumers(d)
    <3>1. Cardinality(Consumers(d) \ done) > 0
      <4>1. t \in Consumers(d) \ done
        BY <2>4
      <4>2. IsFiniteSet(Consumers(d) \ done)
        BY ConsumersFinite, FS_Subset
      <4> QED BY <4>1, <4>2, FS_CardinalityType, FS_EmptySet
    <3>2. remaining_consumers'[d] = remaining_consumers[d] - 1
      BY <1>1, <2>1, <2>3, <2>4, <3>1 DEF Retire
    <3> QED BY <2>1, <2>2, <2>3, <2>4, <3>2, OneConsumerLess
  <2>5. CASE t \notin Consumers(d)
    <3>1. remaining_consumers'[d] = remaining_consumers[d]
      BY <1>1, <2>1, <2>5 DEF Retire
    <3> QED BY <2>1, <2>2, <2>3, <2>5, <3>1, OneConsumerLess
  <2> QED BY <2>4, <2>5
<1>3. \A d \in Tasks : remaining_consumers'[d] > 0 => remaining_consumers[d] > 0
  BY DEF Retire, TypeOK
<1>4. \A d : Consumers(d)' = Consumers(d)
  BY DEF Consumers
<1> QED BY <1>2, <1>3, <1>4 DEF ConsumersInv, Cleaning

LEMMA ConsumersStep ==
    TypeOK /\ WalkInv /\ ConsumersInv /\ [Next]_build_vars => ConsumersInv'
<1> SUFFICES ASSUME TypeOK, WalkInv, ConsumersInv, [Next]_build_vars
      PROVE  ConsumersInv'
  OBVIOUS
<1>1. ASSUME UNCHANGED <<pc, options, done, remaining_consumers>>
      PROVE  ConsumersInv'
  BY <1>1 DEF ConsumersInv, Cleaning, Consumers
<1>2. CASE EditSource \/ DeleteOutput
  BY <1>1, <1>2 DEF DeleteOutput, EditSource, disk_vars, cache_vars, main_vars,
     sorter_vars, result_vars, pool_vars, kill_vars, tally_vars
<1>3. ASSUME NEW c \in Configs, Save(c)
      PROVE  ConsumersInv'
  BY <1>1, <1>3 DEF Save, SaveManifest, disk_vars, cache_vars, main_vars, sorter_vars,
     result_vars, pool_vars, kill_vars, tally_vars
<1>4. ASSUME NEW t \in Tasks, Begin(t) \/ Spawn(t) \/ SpawnFails(t) \/ Register(t) \/
   KillDoomed(t) \/ Communicate(t) \/ WriteStdout(t) \/ WriteStdoutFails(t) \/
   PythonSucceeds(t) \/ PythonFails(t) \/ Timeout(t) \/ ToolWrites(t) \/ ToolSucceeds(t)
   \/ ToolFails(t) \/ KillOne(t) PROVE ConsumersInv'
  BY <1>1, <1>4 DEF Advance, Begin, Communicate, KillDoomed, KillOne, PythonFails,
     PythonSucceeds, Register, Spawn, SpawnFails, Timeout, Tool, ToolFails,
     ToolSucceeds, ToolWrites, Work, WriteStdout, WriteStdoutFails, disk_vars,
     cache_vars, main_vars, sorter_vars, result_vars, pool_vars, kill_vars, tally_vars
<1>5. CASE StartBuild
  <2>1. \A d \in Tasks : Consumers(d) \ {} = Consumers(d)
    OBVIOUS
  <2>2. /\ done' = {}
        /\ \A d \in Tasks : remaining_consumers'[d] =
               IF options'.clean_intermediates /\ ~ options'.dry_run /\ d \in Intermediate
               THEN Cardinality(Consumers(d)) ELSE 0
    BY <1>5 DEF StartBuild
  <2>3. \A d : Consumers(d)' = Consumers(d)
    BY DEF Consumers
  <2> QED BY <2>1, <2>2, <2>3, GraphAssumption DEF ConsumersInv, Cleaning
<1>6. CASE GetReady
  BY <1>6 DEF GetReady, ReadyNodes, ConsumersInv, Cleaning, Consumers, disk_vars,
     cache_vars, main_vars, sorter_vars, result_vars, pool_vars, kill_vars, tally_vars
<1>7. CASE Complete
  BY <1>7 DEF Complete, ConsumersInv, Cleaning, Consumers, disk_vars, cache_vars,
     main_vars, sorter_vars, result_vars, pool_vars, kill_vars, tally_vars
<1>8. CASE Scheduled
  BY <1>8 DEF Scheduled, ConsumersInv, Cleaning, Consumers, disk_vars, cache_vars,
     main_vars, sorter_vars, result_vars, pool_vars, kill_vars, tally_vars
<1>9. CASE Wait
  BY <1>9 DEF Wait, ConsumersInv, Cleaning, Consumers, disk_vars, cache_vars, main_vars,
     sorter_vars, result_vars, pool_vars, kill_vars, tally_vars
<1>10. CASE Recorded
  BY <1>10 DEF Recorded, ConsumersInv, Cleaning, Consumers, disk_vars, cache_vars,
     main_vars, sorter_vars, result_vars, pool_vars, kill_vars, tally_vars
<1>11. CASE Killed
  BY <1>11 DEF Killed, CancelFutures, ConsumersInv, Cleaning, Consumers, disk_vars,
     cache_vars, main_vars, sorter_vars, result_vars, pool_vars, kill_vars, tally_vars
<1>12. CASE Saved
  BY <1>12 DEF Saved, ConsumersInv, Cleaning, Consumers, disk_vars, cache_vars,
     main_vars, sorter_vars, result_vars, pool_vars, kill_vars, tally_vars
<1>13. CASE Join
  BY <1>13 DEF Join, ConsumersInv, Cleaning, Consumers, disk_vars, cache_vars,
     main_vars, sorter_vars, result_vars, pool_vars, kill_vars, tally_vars
<1>14. ASSUME NEW t \in Tasks, FailForDependency(t)
      PROVE  ConsumersInv'
  BY <1>14, RetireCounts DEF FailForDependency, Scheduling, DependencyFailed, Retire,
     TypeOK, WalkInv, Loop, main_vars
<1>15. ASSUME NEW t \in Tasks, Skip(t)
      PROVE  ConsumersInv'
  BY <1>15, RetireCounts DEF Skip, Scheduling, DependencyFailed, Retire, TypeOK, WalkInv,
     Loop, main_vars
<1>16. ASSUME NEW t \in Tasks, Submit(t)
      PROVE  ConsumersInv'
  BY <1>16 DEF Submit, Scheduling, DependencyFailed, ConsumersInv, Cleaning, Consumers,
     disk_vars, cache_vars, main_vars, sorter_vars, result_vars, pool_vars, kill_vars,
     tally_vars
<1>17. ASSUME NEW t \in Tasks, RecordSuccess(t)
      PROVE  ConsumersInv'
  BY <1>17, RetireCounts DEF RecordSuccess, Recording, RecordInManifest, Retire, TypeOK,
     WalkInv, Loop, main_vars
<1>18. ASSUME NEW t \in Tasks, RecordFailureGoOn(t)
      PROVE  ConsumersInv'
  BY <1>18, RetireCounts DEF RecordFailureGoOn, RecordFailure, Recording, Retire, TypeOK,
     WalkInv, Loop, main_vars
<1>19. ASSUME NEW t \in Tasks, RecordFailureAbort(t)
      PROVE  ConsumersInv'
  BY <1>19 DEF RecordFailureAbort, RecordFailure, Recording, KillActive, ConsumersInv,
     Cleaning, Consumers, disk_vars, cache_vars, main_vars, sorter_vars, result_vars,
     pool_vars, kill_vars, tally_vars
<1>20. CASE Handling \/ InterruptSave
  BY <1>20 DEF Handling, Interrupt, HandleInterrupt, InterruptHandler, InterruptSave,
     CutSave, KillActive, ConsumersInv, Cleaning, Consumers, disk_vars, cache_vars,
     main_vars, sorter_vars, result_vars, pool_vars, kill_vars, tally_vars
<1>21. CASE Crash
  BY <1>21 DEF Crash, ConsumersInv, Cleaning, Consumers, disk_vars, cache_vars,
     main_vars, sorter_vars, result_vars, pool_vars, kill_vars, tally_vars
<1>22. CASE UNCHANGED build_vars
  BY <1>1, <1>22 DEF build_vars, disk_vars, cache_vars, main_vars, sorter_vars,
     result_vars, pool_vars, kill_vars, tally_vars
<1> QED BY <1>1, <1>2, <1>3, <1>4, <1>5, <1>6, <1>7, <1>8, <1>9, <1>10, <1>11, <1>12,
   <1>13, <1>14, <1>15, <1>16, <1>17, <1>18, <1>19, <1>20, <1>21, <1>22, SavesCut DEF
   Next, User, Main, Stop, Handling, Worker, Process

\* An output that a task not yet done depends on survives the end of any other.
LEMMA RetireKeeps ==
    ASSUME TypeOK, ConsumersInv, pc # "idle", NEW t \in Tasks \ done, Retire(t),
           NEW u \in Tasks \ done, u # t, NEW d \in Deps[u]
    PROVE  output'[d] = output[d]
<1>1. d \in Tasks
  BY GraphAssumption
<1>2. SUFFICES ASSUME d \in Exhausted(t)
      PROVE  FALSE
  BY <1>1 DEF Retire
<1>3. remaining_consumers[d] = 1 /\ d \in Intermediate /\ Cleaning
  BY <1>1, <1>2 DEF Exhausted, ConsumersInv, Cleaning
<1>4. Cardinality(Consumers(d) \ done) = 1
  BY <1>3 DEF ConsumersInv
<1>5. {t, u} \subseteq Consumers(d) \ done
  BY <1>2 DEF Exhausted, Consumers
<1>6. PICK x : Consumers(d) \ done = {x}
  BY <1>4, ConsumersFinite, FS_Subset, FS_Singleton
<1> QED BY <1>5, <1>6

LEMMA RetireOnlyDeletes ==
    ASSUME TypeOK, NEW t \in Tasks, Retire(t), NEW d \in Tasks, d \notin Deps[t]
    PROVE  output'[d] = output[d]
BY DEF Retire, Exhausted

\* A needed task's dependencies are there already or needed as well.
LEMMA NeededClosed ==
    ASSUME NEW clean, NEW entries, NEW recipe,
           NEW t \in NeededTasks(clean, entries, recipe), NEW d \in Deps[t]
    PROVE  /\ t \in Tasks
           /\ d \in NeededTasks(clean, entries, recipe) \/ output[d] # Absent
BY GraphAssumption DEF NeededTasks, IsSatisfied

\* Everything a task still has to read is there: what is done well, and what
\* was satisfied when the build started.
InputsInv ==
    /\ InputsPresent
    /\ outcome = "open" /\ ~ options.dry_run =>
           \A t \in needed_tasks \ done : \A d \in Deps[t] :
               d \in done \ failed_tasks \/ d \notin needed_tasks => output[d] # Absent
    /\ outcome = "open" =>
           \A t \in in_flight :
               \/ worker[t] = "succeeded"
               \/ child[t] = "ok" /\ StdoutFile[t] # "output"
               => output[t] # Absent

LEMMA InputsStep ==
    TypeOK /\ WalkInv /\ WorkerInv /\ ConsumersInv /\ InputsInv /\ [Next]_build_vars => InputsInv'
<1> SUFFICES ASSUME TypeOK, WalkInv, WorkerInv, ConsumersInv, InputsInv, [Next]_build_vars
      PROVE  InputsInv'
  OBVIOUS
<1>1. ASSUME UNCHANGED <<outcome, options, done, in_flight, failed_tasks, needed_tasks, output, worker, child>>
      PROVE  InputsInv'
  BY <1>1 DEF TypeOK, CacheTypeOK, WalkInv, WorkerInv, InputsInv, InputsPresent, Loop,
     Started, Finished
<1>2. CASE EditSource \/ GetReady \/ Scheduled \/ Wait \/ Recorded \/ Saved \/ Join
  BY <1>1, <1>2 DEF EditSource, GetReady, Join, ReadyNodes, Recorded, Saved, Scheduled,
     Wait, disk_vars, cache_vars, main_vars, sorter_vars, result_vars, pool_vars,
     kill_vars, tally_vars
<1>3. ASSUME NEW c \in Configs, Save(c)
      PROVE  InputsInv'
  BY <1>1, <1>3 DEF Save, SaveManifest, disk_vars, cache_vars, main_vars, sorter_vars,
     result_vars, pool_vars, kill_vars, tally_vars
<1>4. CASE DeleteOutput
  BY <1>4, GraphAssumption DEF DeleteOutput, TypeOK, CacheTypeOK, WalkInv, WorkerInv,
     InputsInv, InputsPresent, Loop, Started, Finished, disk_vars, cache_vars,
     main_vars, sorter_vars, result_vars, pool_vars, kill_vars, tally_vars
<1>5. CASE StartBuild
  <2>1. \A t \in needed_tasks' : \A d \in Deps[t] : d \notin needed_tasks' => output[d] # Absent
    BY <1>5, NeededClosed DEF StartBuild
  <2> QED BY <1>5, <2>1 DEF StartBuild, InputsInv, InputsPresent, disk_vars, Started
<1>6. CASE Complete
  BY <1>6, GraphAssumption DEF Complete, TypeOK, CacheTypeOK, WalkInv, WorkerInv,
     InputsInv, InputsPresent, Loop, Started, Finished, disk_vars, cache_vars,
     main_vars, sorter_vars, result_vars, pool_vars, kill_vars, tally_vars
<1>7. CASE Killed
  BY <1>7, GraphAssumption DEF Killed, CancelFutures, TypeOK, CacheTypeOK, WalkInv,
     WorkerInv, InputsInv, InputsPresent, Loop, Started, Finished, disk_vars,
     cache_vars, main_vars, sorter_vars, result_vars, pool_vars, kill_vars, tally_vars
<1>8. ASSUME NEW t \in Tasks, FailForDependency(t)
      PROVE  InputsInv'
  <2>1. t \in Tasks \ done /\ Retire(t) /\ pc # "idle"
    BY <1>8 DEF FailForDependency, Scheduling, DependencyFailed, Retire, TypeOK, WalkInv, Loop
  <2>2. \A u \in Tasks \ done : u # t => \A d \in Deps[u] : output'[d] = output[d]
    BY <2>1, RetireKeeps
  <2>3. \A u \in Tasks \ done : output'[u] = output[u]
    BY <2>1, <1>8, RetireOnlyDeletes DEF FailForDependency, Scheduling, DependencyFailed,
        Retire, WalkInv, TypeOK
  <2>4. done' = done \cup {t}
    BY <2>1 DEF Retire
  <2>5. InputsPresent'
    BY <1>8, <2>2, GraphAssumption DEF FailForDependency, Scheduling, DependencyFailed,
       TypeOK, CacheTypeOK, WalkInv, WorkerInv, InputsInv, InputsPresent, Loop, Started,
       Finished, disk_vars, cache_vars, main_vars, sorter_vars, result_vars, pool_vars,
       kill_vars, tally_vars
  <2> QED BY <1>8, <2>1, <2>2, <2>3, <2>4, <2>5, GraphAssumption DEF FailForDependency,
   Scheduling, DependencyFailed, TypeOK, CacheTypeOK, WalkInv, WorkerInv, InputsInv,
   InputsPresent, Loop, Started, Finished, disk_vars, cache_vars, main_vars,
   sorter_vars, result_vars, pool_vars, kill_vars, tally_vars
<1>9. ASSUME NEW t \in Tasks, Skip(t)
      PROVE  InputsInv'
  <2>1. t \in Tasks \ done /\ Retire(t) /\ pc # "idle"
    BY <1>9 DEF Skip, Scheduling, DependencyFailed, Retire, TypeOK, WalkInv, Loop
  <2>2. \A u \in Tasks \ done : u # t => \A d \in Deps[u] : output'[d] = output[d]
    BY <2>1, RetireKeeps
  <2>3. \A u \in Tasks \ done : output'[u] = output[u]
    BY <2>1, <1>9, RetireOnlyDeletes DEF Skip, Scheduling, DependencyFailed, Retire, WalkInv,
        TypeOK
  <2>4. done' = done \cup {t}
    BY <2>1 DEF Retire
  <2>5. InputsPresent'
    BY <1>9, <2>2, GraphAssumption DEF Skip, Scheduling, DependencyFailed, TypeOK,
       CacheTypeOK, WalkInv, WorkerInv, InputsInv, InputsPresent, Loop, Started,
       Finished, disk_vars, cache_vars, main_vars, sorter_vars, result_vars, pool_vars,
       kill_vars, tally_vars
  <2> QED BY <1>9, <2>1, <2>2, <2>3, <2>4, <2>5, GraphAssumption DEF Skip, Scheduling,
   DependencyFailed, TypeOK, CacheTypeOK, WalkInv, WorkerInv, InputsInv, InputsPresent,
   Loop, Started, Finished, disk_vars, cache_vars, main_vars, sorter_vars, result_vars,
   pool_vars, kill_vars, tally_vars
<1>10. ASSUME NEW t \in Tasks, Submit(t)
      PROVE  InputsInv'
  <2>1. /\ t \in needed_tasks \ done /\ ~ options.dry_run /\ outcome = "open"
        /\ Deps[t] \subseteq done \ failed_tasks
    BY <1>10, GraphAssumption DEF Submit, Scheduling, DependencyFailed, TypeOK, WalkInv, Loop
  <2>2. \A d \in Deps[t] : output[d] # Absent
    BY <2>1 DEF InputsInv
  <2>3. /\ worker' = [worker EXCEPT ![t] = "queued"] /\ in_flight' = in_flight \cup {t}
        /\ UNCHANGED <<output, child, outcome, options, needed_tasks, done, failed_tasks>>
    BY <1>10 DEF Submit, Scheduling, main_vars
  <2>4. child[t] # "ok"
    BY <1>10 DEF Submit, Scheduling, WorkerInv
  <2> QED BY <2>2, <2>3, <2>4 DEF InputsInv, InputsPresent, TypeOK
<1>11. ASSUME NEW t \in Tasks, RecordSuccess(t)
      PROVE  InputsInv'
  <2>1. t \in Tasks \ done /\ Retire(t) /\ pc # "idle"
    BY <1>11 DEF RecordSuccess, Recording, RecordInManifest, Retire, TypeOK, WalkInv, Loop
  <2>2. \A u \in Tasks \ done : u # t => \A d \in Deps[u] : output'[d] = output[d]
    BY <2>1, RetireKeeps
  <2>3. \A u \in Tasks \ done : output'[u] = output[u]
    BY <2>1, <1>11, RetireOnlyDeletes DEF RecordSuccess, Recording, RecordInManifest, Retire,
        WalkInv, TypeOK
  <2>4. done' = done \cup {t}
    BY <2>1 DEF Retire
  <2>5. InputsPresent'
    BY <1>11, <2>2, GraphAssumption DEF RecordSuccess, Recording, RecordInManifest,
       TypeOK, CacheTypeOK, WalkInv, WorkerInv, InputsInv, InputsPresent, Loop, Started,
       Finished, disk_vars, cache_vars, main_vars, sorter_vars, result_vars, pool_vars,
       kill_vars, tally_vars
  <2> QED BY <1>11, <2>1, <2>2, <2>3, <2>4, <2>5, GraphAssumption DEF RecordSuccess,
   Recording, RecordInManifest, TypeOK, CacheTypeOK, WalkInv, WorkerInv, InputsInv,
   InputsPresent, Loop, Started, Finished, disk_vars, cache_vars, main_vars,
   sorter_vars, result_vars, pool_vars, kill_vars, tally_vars
<1>12. ASSUME NEW t \in Tasks, RecordFailureGoOn(t)
      PROVE  InputsInv'
  <2>1. t \in Tasks \ done /\ Retire(t) /\ pc # "idle"
    BY <1>12 DEF RecordFailureGoOn, RecordFailure, Recording, Retire, TypeOK, WalkInv, Loop
  <2>2. \A u \in Tasks \ done : u # t => \A d \in Deps[u] : output'[d] = output[d]
    BY <2>1, RetireKeeps
  <2>3. \A u \in Tasks \ done : output'[u] = output[u]
    BY <2>1, <1>12, RetireOnlyDeletes DEF RecordFailureGoOn, RecordFailure, Recording, Retire,
        WalkInv, TypeOK
  <2>4. done' = done \cup {t}
    BY <2>1 DEF Retire
  <2>5. InputsPresent'
    BY <1>12, <2>2, GraphAssumption DEF RecordFailureGoOn, RecordFailure, Recording,
       TypeOK, CacheTypeOK, WalkInv, WorkerInv, InputsInv, InputsPresent, Loop, Started,
       Finished, disk_vars, cache_vars, main_vars, sorter_vars, result_vars, pool_vars,
       kill_vars, tally_vars
  <2> QED BY <1>12, <2>1, <2>2, <2>3, <2>4, <2>5, GraphAssumption DEF RecordFailureGoOn,
   RecordFailure, Recording, TypeOK, CacheTypeOK, WalkInv, WorkerInv, InputsInv,
   InputsPresent, Loop, Started, Finished, disk_vars, cache_vars, main_vars,
   sorter_vars, result_vars, pool_vars, kill_vars, tally_vars
<1>13. ASSUME NEW t \in Tasks, RecordFailureAbort(t)
      PROVE  InputsInv'
  BY <1>13, GraphAssumption DEF RecordFailureAbort, RecordFailure, Recording,
     KillActive, TypeOK, CacheTypeOK, WalkInv, WorkerInv, InputsInv, InputsPresent,
     Loop, Started, Finished, disk_vars, cache_vars, main_vars, sorter_vars,
     result_vars, pool_vars, kill_vars, tally_vars
<1>14. ASSUME NEW t \in Tasks, KillOne(t)
      PROVE  InputsInv'
  BY <1>14, GraphAssumption DEF KillOne, TypeOK, CacheTypeOK, WalkInv, WorkerInv,
     InputsInv, InputsPresent, Loop, Started, Finished, disk_vars, cache_vars,
     main_vars, sorter_vars, result_vars, pool_vars, kill_vars, tally_vars
<1>15. CASE Handling \/ InterruptSave
  BY <1>15, GraphAssumption DEF Handling, Interrupt, HandleInterrupt, InterruptHandler,
     InterruptSave, CutSave, KillActive, TypeOK, CacheTypeOK, WalkInv, WorkerInv,
     InputsInv, InputsPresent, Loop, Started, Finished, disk_vars, cache_vars,
     main_vars, sorter_vars, result_vars, pool_vars, kill_vars, tally_vars
<1>16. CASE Crash
  BY <1>16, GraphAssumption DEF Crash, TypeOK, CacheTypeOK, WalkInv, WorkerInv,
     InputsInv, InputsPresent, Loop, Started, Finished, disk_vars, cache_vars,
     main_vars, sorter_vars, result_vars, pool_vars, kill_vars, tally_vars
<1>17. ASSUME NEW t \in Tasks, Begin(t)
      PROVE  InputsInv'
  BY <1>17, GraphAssumption DEF Begin, Work, Advance, TypeOK, CacheTypeOK, WalkInv,
     WorkerInv, InputsInv, InputsPresent, Loop, Started, Finished, disk_vars,
     cache_vars, main_vars, sorter_vars, result_vars, pool_vars, kill_vars, tally_vars
<1>18. ASSUME NEW t \in Tasks, Spawn(t)
      PROVE  InputsInv'
  BY <1>18, GraphAssumption DEF Spawn, Work, Advance, TypeOK, CacheTypeOK, WalkInv,
     WorkerInv, InputsInv, InputsPresent, Loop, Started, Finished, disk_vars,
     cache_vars, main_vars, sorter_vars, result_vars, pool_vars, kill_vars, tally_vars
<1>19. ASSUME NEW t \in Tasks, SpawnFails(t)
      PROVE  InputsInv'
  BY <1>19, GraphAssumption DEF SpawnFails, Work, Advance, TypeOK, CacheTypeOK, WalkInv,
     WorkerInv, InputsInv, InputsPresent, Loop, Started, Finished, disk_vars,
     cache_vars, main_vars, sorter_vars, result_vars, pool_vars, kill_vars, tally_vars
<1>20. ASSUME NEW t \in Tasks, Register(t)
      PROVE  InputsInv'
  BY <1>20, GraphAssumption DEF Register, Work, Advance, TypeOK, CacheTypeOK, WalkInv,
     WorkerInv, InputsInv, InputsPresent, Loop, Started, Finished, disk_vars,
     cache_vars, main_vars, sorter_vars, result_vars, pool_vars, kill_vars, tally_vars
<1>21. ASSUME NEW t \in Tasks, KillDoomed(t)
      PROVE  InputsInv'
  BY <1>21, GraphAssumption DEF KillDoomed, Work, Advance, TypeOK, CacheTypeOK, WalkInv,
     WorkerInv, InputsInv, InputsPresent, Loop, Started, Finished, disk_vars,
     cache_vars, main_vars, sorter_vars, result_vars, pool_vars, kill_vars, tally_vars
<1>22. ASSUME NEW t \in Tasks, Communicate(t)
      PROVE  InputsInv'
  BY <1>22, GraphAssumption DEF Communicate, Work, Advance, TypeOK, CacheTypeOK,
     WalkInv, WorkerInv, InputsInv, InputsPresent, Loop, Started, Finished, disk_vars,
     cache_vars, main_vars, sorter_vars, result_vars, pool_vars, kill_vars, tally_vars
<1>23. ASSUME NEW t \in Tasks, WriteStdout(t)
      PROVE  InputsInv'
  <2>1. output'[t] # Absent \/ output'[t] = output[t]
    BY <1>23, BuiltType, ContentAssumption DEF WriteStdout, Work, Advance, TypeOK, CacheTypeOK
  <2>2. \A u \in Tasks : u # t => output'[u] = output[u]
    BY <1>23 DEF WriteStdout, Work, Advance, TypeOK, CacheTypeOK
  <2>3. InputsPresent'
    <3>1. \A u \in Tasks : worker'[u] \in Started \cup {"queued"} => worker[u] \in Started \cup {"queued"}
      BY <1>23 DEF WriteStdout, Work, Advance, TypeOK, Started
    <3> QED BY <2>1, <2>2, <3>1, GraphAssumption DEF InputsInv, InputsPresent
  <2>4. /\ worker'[t] = "succeeded" \/ (child'[t] = "ok" /\ StdoutFile[t] # "output")
        /\ t \in in_flight /\ outcome = "open"
        => output'[t] # Absent
    BY <1>23, BuiltType, BuildAssumption, ContentAssumption DEF WriteStdout, Work, Advance,
        TypeOK, CacheTypeOK, InputsInv, WorkerInv, pool_vars
  <2>5. UNCHANGED <<outcome, options, needed_tasks, done, failed_tasks, in_flight>>
    BY <1>23 DEF WriteStdout, Work, Advance, disk_vars, cache_vars, main_vars, sorter_vars,
        result_vars, pool_vars, kill_vars, tally_vars
  <2>6. \A u \in Tasks : u # t => worker'[u] = worker[u] /\ child'[u] = child[u]
    BY <1>23 DEF WriteStdout, Work, Advance, TypeOK
  <2>7. in_flight \subseteq Tasks /\ needed_tasks \subseteq Tasks
    BY DEF TypeOK
  <2>8. \A u \in Tasks : output[u] # Absent => output'[u] # Absent
    BY <2>1, <2>2
  <2>9. (outcome = "open" /\ ~ options.dry_run => \A v \in needed_tasks \ done : \A d \in Deps[v] :
           d \in done \ failed_tasks \/ d \notin needed_tasks => output[d] # Absent)'
    BY <2>5, <2>7, <2>8, GraphAssumption DEF InputsInv
  <2>10. (outcome = "open" => \A v \in in_flight :
            \/ worker[v] = "succeeded"
            \/ child[v] = "ok" /\ StdoutFile[v] # "output"
            => output[v] # Absent)'
    BY <2>2, <2>4, <2>5, <2>6, <2>7 DEF InputsInv
  <2> QED BY <2>3, <2>9, <2>10 DEF InputsInv
<1>24. ASSUME NEW t \in Tasks, WriteStdoutFails(t)
      PROVE  InputsInv'
  <2>1. output'[t] # Absent \/ output'[t] = output[t]
    BY <1>24, BuiltType, ContentAssumption DEF WriteStdoutFails, Work, Advance, TypeOK,
        CacheTypeOK
  <2>2. \A u \in Tasks : u # t => output'[u] = output[u]
    BY <1>24 DEF WriteStdoutFails, Work, Advance, TypeOK, CacheTypeOK
  <2>3. InputsPresent'
    <3>1. \A u \in Tasks : worker'[u] \in Started \cup {"queued"} => worker[u] \in Started \cup {"queued"}
      BY <1>24 DEF WriteStdoutFails, Work, Advance, TypeOK, Started
    <3> QED BY <2>1, <2>2, <3>1, GraphAssumption DEF InputsInv, InputsPresent
  <2>4. /\ worker'[t] = "succeeded" \/ (child'[t] = "ok" /\ StdoutFile[t] # "output")
        /\ t \in in_flight /\ outcome = "open"
        => output'[t] # Absent
    BY <1>24, BuiltType, BuildAssumption, ContentAssumption DEF WriteStdoutFails, Work,
        Advance, TypeOK, CacheTypeOK, InputsInv, WorkerInv, pool_vars
  <2>5. UNCHANGED <<outcome, options, needed_tasks, done, failed_tasks, in_flight>>
    BY <1>24 DEF WriteStdoutFails, Work, Advance, disk_vars, cache_vars, main_vars,
        sorter_vars, result_vars, pool_vars, kill_vars, tally_vars
  <2>6. \A u \in Tasks : u # t => worker'[u] = worker[u] /\ child'[u] = child[u]
    BY <1>24 DEF WriteStdoutFails, Work, Advance, TypeOK
  <2>7. in_flight \subseteq Tasks /\ needed_tasks \subseteq Tasks
    BY DEF TypeOK
  <2>8. \A u \in Tasks : output[u] # Absent => output'[u] # Absent
    BY <2>1, <2>2
  <2>9. (outcome = "open" /\ ~ options.dry_run => \A v \in needed_tasks \ done : \A d \in Deps[v] :
           d \in done \ failed_tasks \/ d \notin needed_tasks => output[d] # Absent)'
    BY <2>5, <2>7, <2>8, GraphAssumption DEF InputsInv
  <2>10. (outcome = "open" => \A v \in in_flight :
            \/ worker[v] = "succeeded"
            \/ child[v] = "ok" /\ StdoutFile[v] # "output"
            => output[v] # Absent)'
    BY <2>2, <2>4, <2>5, <2>6, <2>7 DEF InputsInv
  <2> QED BY <2>3, <2>9, <2>10 DEF InputsInv
<1>25. ASSUME NEW t \in Tasks, PythonSucceeds(t)
      PROVE  InputsInv'
  <2>1. output'[t] # Absent \/ output'[t] = output[t]
    BY <1>25, BuiltType, ContentAssumption DEF PythonSucceeds, Work, Advance, TypeOK,
        CacheTypeOK
  <2>2. \A u \in Tasks : u # t => output'[u] = output[u]
    BY <1>25 DEF PythonSucceeds, Work, Advance, TypeOK, CacheTypeOK
  <2>3. InputsPresent'
    <3>1. \A u \in Tasks : worker'[u] \in Started \cup {"queued"} => worker[u] \in Started \cup {"queued"}
      BY <1>25 DEF PythonSucceeds, Work, Advance, TypeOK, Started
    <3> QED BY <2>1, <2>2, <3>1, GraphAssumption DEF InputsInv, InputsPresent
  <2>4. /\ worker'[t] = "succeeded" \/ (child'[t] = "ok" /\ StdoutFile[t] # "output")
        /\ t \in in_flight /\ outcome = "open"
        => output'[t] # Absent
    BY <1>25, BuiltType, BuildAssumption, ContentAssumption DEF PythonSucceeds, Work, Advance,
        TypeOK, CacheTypeOK, InputsInv, WorkerInv, pool_vars
  <2>5. UNCHANGED <<outcome, options, needed_tasks, done, failed_tasks, in_flight>>
    BY <1>25 DEF PythonSucceeds, Work, Advance, disk_vars, cache_vars, main_vars, sorter_vars,
        result_vars, pool_vars, kill_vars, tally_vars
  <2>6. \A u \in Tasks : u # t => worker'[u] = worker[u] /\ child'[u] = child[u]
    BY <1>25 DEF PythonSucceeds, Work, Advance, TypeOK
  <2>7. in_flight \subseteq Tasks /\ needed_tasks \subseteq Tasks
    BY DEF TypeOK
  <2>8. \A u \in Tasks : output[u] # Absent => output'[u] # Absent
    BY <2>1, <2>2
  <2>9. (outcome = "open" /\ ~ options.dry_run => \A v \in needed_tasks \ done : \A d \in Deps[v] :
           d \in done \ failed_tasks \/ d \notin needed_tasks => output[d] # Absent)'
    BY <2>5, <2>7, <2>8, GraphAssumption DEF InputsInv
  <2>10. (outcome = "open" => \A v \in in_flight :
            \/ worker[v] = "succeeded"
            \/ child[v] = "ok" /\ StdoutFile[v] # "output"
            => output[v] # Absent)'
    BY <2>2, <2>4, <2>5, <2>6, <2>7 DEF InputsInv
  <2> QED BY <2>3, <2>9, <2>10 DEF InputsInv
<1>26. ASSUME NEW t \in Tasks, PythonFails(t)
      PROVE  InputsInv'
  <2>1. output'[t] # Absent \/ output'[t] = output[t]
    BY <1>26, BuiltType, ContentAssumption DEF PythonFails, Work, Advance, TypeOK, CacheTypeOK
  <2>2. \A u \in Tasks : u # t => output'[u] = output[u]
    BY <1>26 DEF PythonFails, Work, Advance, TypeOK, CacheTypeOK
  <2>3. InputsPresent'
    <3>1. \A u \in Tasks : worker'[u] \in Started \cup {"queued"} => worker[u] \in Started \cup {"queued"}
      BY <1>26 DEF PythonFails, Work, Advance, TypeOK, Started
    <3> QED BY <2>1, <2>2, <3>1, GraphAssumption DEF InputsInv, InputsPresent
  <2>4. /\ worker'[t] = "succeeded" \/ (child'[t] = "ok" /\ StdoutFile[t] # "output")
        /\ t \in in_flight /\ outcome = "open"
        => output'[t] # Absent
    BY <1>26, BuiltType, BuildAssumption, ContentAssumption DEF PythonFails, Work, Advance,
        TypeOK, CacheTypeOK, InputsInv, WorkerInv, pool_vars
  <2>5. UNCHANGED <<outcome, options, needed_tasks, done, failed_tasks, in_flight>>
    BY <1>26 DEF PythonFails, Work, Advance, disk_vars, cache_vars, main_vars, sorter_vars,
        result_vars, pool_vars, kill_vars, tally_vars
  <2>6. \A u \in Tasks : u # t => worker'[u] = worker[u] /\ child'[u] = child[u]
    BY <1>26 DEF PythonFails, Work, Advance, TypeOK
  <2>7. in_flight \subseteq Tasks /\ needed_tasks \subseteq Tasks
    BY DEF TypeOK
  <2>8. \A u \in Tasks : output[u] # Absent => output'[u] # Absent
    BY <2>1, <2>2
  <2>9. (outcome = "open" /\ ~ options.dry_run => \A v \in needed_tasks \ done : \A d \in Deps[v] :
           d \in done \ failed_tasks \/ d \notin needed_tasks => output[d] # Absent)'
    BY <2>5, <2>7, <2>8, GraphAssumption DEF InputsInv
  <2>10. (outcome = "open" => \A v \in in_flight :
            \/ worker[v] = "succeeded"
            \/ child[v] = "ok" /\ StdoutFile[v] # "output"
            => output[v] # Absent)'
    BY <2>2, <2>4, <2>5, <2>6, <2>7 DEF InputsInv
  <2> QED BY <2>3, <2>9, <2>10 DEF InputsInv
<1>27. ASSUME NEW t \in Tasks, Timeout(t)
      PROVE  InputsInv'
  BY <1>27, GraphAssumption DEF Timeout, Work, Advance, TypeOK, CacheTypeOK, WalkInv,
     WorkerInv, InputsInv, InputsPresent, Loop, Started, Finished, disk_vars,
     cache_vars, main_vars, sorter_vars, result_vars, pool_vars, kill_vars, tally_vars
<1>28. ASSUME NEW t \in Tasks, ToolWrites(t)
      PROVE  InputsInv'
  <2>1. output'[t] # Absent \/ output'[t] = output[t]
    BY <1>28, BuiltType, ContentAssumption DEF ToolWrites, Tool, TypeOK, CacheTypeOK
  <2>2. \A u \in Tasks : u # t => output'[u] = output[u]
    BY <1>28 DEF ToolWrites, Tool, TypeOK, CacheTypeOK
  <2>3. InputsPresent'
    <3>1. \A u \in Tasks : worker'[u] \in Started \cup {"queued"} => worker[u] \in Started \cup {"queued"}
      BY <1>28 DEF ToolWrites, Tool, TypeOK, Started
    <3> QED BY <2>1, <2>2, <3>1, GraphAssumption DEF InputsInv, InputsPresent
  <2>4. /\ worker'[t] = "succeeded" \/ (child'[t] = "ok" /\ StdoutFile[t] # "output")
        /\ t \in in_flight /\ outcome = "open"
        => output'[t] # Absent
    BY <1>28, BuiltType, BuildAssumption, ContentAssumption DEF ToolWrites, Tool, TypeOK,
        CacheTypeOK, InputsInv, WorkerInv, pool_vars
  <2>5. UNCHANGED <<outcome, options, needed_tasks, done, failed_tasks, in_flight>>
    BY <1>28 DEF ToolWrites, Tool, disk_vars, cache_vars, main_vars, sorter_vars, result_vars,
        pool_vars, kill_vars, tally_vars
  <2>6. \A u \in Tasks : u # t => worker'[u] = worker[u] /\ child'[u] = child[u]
    BY <1>28 DEF ToolWrites, Tool, TypeOK
  <2>7. in_flight \subseteq Tasks /\ needed_tasks \subseteq Tasks
    BY DEF TypeOK
  <2>8. \A u \in Tasks : output[u] # Absent => output'[u] # Absent
    BY <2>1, <2>2
  <2>9. (outcome = "open" /\ ~ options.dry_run => \A v \in needed_tasks \ done : \A d \in Deps[v] :
           d \in done \ failed_tasks \/ d \notin needed_tasks => output[d] # Absent)'
    BY <2>5, <2>7, <2>8, GraphAssumption DEF InputsInv
  <2>10. (outcome = "open" => \A v \in in_flight :
            \/ worker[v] = "succeeded"
            \/ child[v] = "ok" /\ StdoutFile[v] # "output"
            => output[v] # Absent)'
    BY <2>2, <2>4, <2>5, <2>6, <2>7 DEF InputsInv
  <2> QED BY <2>3, <2>9, <2>10 DEF InputsInv
<1>29. ASSUME NEW t \in Tasks, ToolSucceeds(t)
      PROVE  InputsInv'
  <2>1. output'[t] # Absent \/ output'[t] = output[t]
    BY <1>29, BuiltType, ContentAssumption DEF ToolSucceeds, Tool, TypeOK, CacheTypeOK
  <2>2. \A u \in Tasks : u # t => output'[u] = output[u]
    BY <1>29 DEF ToolSucceeds, Tool, TypeOK, CacheTypeOK
  <2>3. InputsPresent'
    <3>1. \A u \in Tasks : worker'[u] \in Started \cup {"queued"} => worker[u] \in Started \cup {"queued"}
      BY <1>29 DEF ToolSucceeds, Tool, TypeOK, Started
    <3> QED BY <2>1, <2>2, <3>1, GraphAssumption DEF InputsInv, InputsPresent
  <2>4. /\ worker'[t] = "succeeded" \/ (child'[t] = "ok" /\ StdoutFile[t] # "output")
        /\ t \in in_flight /\ outcome = "open"
        => output'[t] # Absent
    BY <1>29, BuiltType, BuildAssumption, ContentAssumption DEF ToolSucceeds, Tool, TypeOK,
        CacheTypeOK, InputsInv, WorkerInv, pool_vars
  <2>5. UNCHANGED <<outcome, options, needed_tasks, done, failed_tasks, in_flight>>
    BY <1>29 DEF ToolSucceeds, Tool, disk_vars, cache_vars, main_vars, sorter_vars,
        result_vars, pool_vars, kill_vars, tally_vars
  <2>6. \A u \in Tasks : u # t => worker'[u] = worker[u] /\ child'[u] = child[u]
    BY <1>29 DEF ToolSucceeds, Tool, TypeOK
  <2>7. in_flight \subseteq Tasks /\ needed_tasks \subseteq Tasks
    BY DEF TypeOK
  <2>8. \A u \in Tasks : output[u] # Absent => output'[u] # Absent
    BY <2>1, <2>2
  <2>9. (outcome = "open" /\ ~ options.dry_run => \A v \in needed_tasks \ done : \A d \in Deps[v] :
           d \in done \ failed_tasks \/ d \notin needed_tasks => output[d] # Absent)'
    BY <2>5, <2>7, <2>8, GraphAssumption DEF InputsInv
  <2>10. (outcome = "open" => \A v \in in_flight :
            \/ worker[v] = "succeeded"
            \/ child[v] = "ok" /\ StdoutFile[v] # "output"
            => output[v] # Absent)'
    BY <2>2, <2>4, <2>5, <2>6, <2>7 DEF InputsInv
  <2> QED BY <2>3, <2>9, <2>10 DEF InputsInv
<1>30. ASSUME NEW t \in Tasks, ToolFails(t)
      PROVE  InputsInv'
  BY <1>30, GraphAssumption DEF ToolFails, Tool, TypeOK, CacheTypeOK, WalkInv,
     WorkerInv, InputsInv, InputsPresent, Loop, Started, Finished, disk_vars,
     cache_vars, main_vars, sorter_vars, result_vars, pool_vars, kill_vars, tally_vars
<1>31. CASE UNCHANGED build_vars
  BY <1>1, <1>31 DEF build_vars, disk_vars, cache_vars, main_vars, sorter_vars,
     result_vars, pool_vars, kill_vars, tally_vars
<1> QED BY <1>1, <1>2, <1>3, <1>4, <1>5, <1>6, <1>7, <1>8, <1>9, <1>10, <1>11, <1>12,
   <1>13, <1>14, <1>15, <1>16, <1>17, <1>18, <1>19, <1>20, <1>21, <1>22, <1>23, <1>24,
   <1>25, <1>26, <1>27, <1>28, <1>29, <1>30, <1>31, SavesCut DEF Next, User, Main,
   Stop, Handling, Worker, Process

\* Intermediates are never deleted under a task that still has to read them,
\* whatever order tasks finish, fail or are skipped in (build.py:258-277).
THEOREM InputsCorrect == Spec => []InputsPresent
<1>1. Init => ConsumersInv /\ InputsInv
  BY DEF Init, ConsumersInv, Cleaning, InputsInv, InputsPresent, Started
<1>2. InputsInv => InputsPresent
  BY DEF InputsInv
<1> QED BY <1>1, <1>2, ConsumersStep, InputsStep, WalkCorrect, PTL DEF Spec

\* An intermediate is gone as soon as its consumers are done.
CleanInv ==
    Cleaning => \A d \in Intermediate :
        Consumers(d) # {} /\ Consumers(d) \subseteq done => output[d] = Absent /\ d \notin log

LEMMA RetireCleans ==
    ASSUME TypeOK, ConsumersInv, CleanInv, Cleaning, NEW t \in Tasks \ done, Retire(t),
           NEW d \in Intermediate, Consumers(d) # {}, Consumers(d) \subseteq done'
    PROVE  output'[d] = Absent /\ d \notin log'
<1>1. d \in Tasks
  BY GraphAssumption
<1>2. CASE Consumers(d) \subseteq done
  BY <1>1, <1>2 DEF Retire, CleanInv
<1>3. CASE ~ (Consumers(d) \subseteq done)
  <2>1. Consumers(d) \ done = {t}
    BY <1>3 DEF Retire
  <2>2. remaining_consumers[d] = 1
    BY <2>1, FS_Singleton DEF ConsumersInv
  <2>3. d \in Exhausted(t)
    BY <2>1, <2>2 DEF Exhausted, Consumers
  <2> QED BY <1>1, <2>3 DEF Retire
<1> QED BY <1>2, <1>3

\* Nothing that still runs writes an intermediate whose consumers are done.
LEMMA CleanedIsOver ==
    ASSUME TypeOK, WalkInv, WorkerInv, NEW d \in Intermediate,
           Consumers(d) # {}, Consumers(d) \subseteq done
    PROVE  worker[d] \in Finished \cup {"none"} /\ child[d] # "alive"
<1>1. d \in done
  BY GraphAssumption DEF WalkInv, Consumers
<1> QED BY <1>1, GraphAssumption DEF WorkerInv, Finished

LEMMA CleanStep ==
    TypeOK /\ WalkInv /\ WorkerInv /\ ConsumersInv /\ CleanInv /\ [Next]_build_vars => CleanInv'
<1> SUFFICES ASSUME TypeOK, WalkInv, WorkerInv, ConsumersInv, CleanInv, [Next]_build_vars
      PROVE  CleanInv'
  OBVIOUS
<1>1. ASSUME UNCHANGED <<options, done, output, log>>, pc' # "idle" => pc # "idle"
      PROVE  CleanInv'
  BY <1>1 DEF CleanInv, Cleaning, Consumers, Loop, WalkInv
<1>2. CASE EditSource \/ GetReady \/ Complete \/ Scheduled \/ Wait \/ Recorded \/ Saved
   \/ Killed \/ Handling \/ InterruptSave
  BY <1>1, <1>2 DEF CancelFutures, Complete, EditSource, GetReady, Handling, Interrupt,
     HandleInterrupt, InterruptHandler, InterruptSave, CutSave, KillActive, Killed,
     ReadyNodes, Recorded, Saved, Scheduled, Wait, disk_vars, cache_vars, main_vars,
     sorter_vars, result_vars, pool_vars, kill_vars, tally_vars
<1>3. ASSUME NEW c \in Configs, Save(c)
      PROVE  CleanInv'
  BY <1>1, <1>3 DEF Save, SaveManifest, disk_vars, cache_vars, main_vars, sorter_vars,
     result_vars, pool_vars, kill_vars, tally_vars
<1>4. ASSUME NEW t \in Tasks, Submit(t) \/ RecordFailureAbort(t) \/ KillOne(t) \/
   Begin(t) \/ Spawn(t) \/ SpawnFails(t) \/ Register(t) \/ KillDoomed(t) \/
   Communicate(t) \/ Timeout(t) \/ ToolFails(t) PROVE CleanInv'
  BY <1>1, <1>4 DEF Advance, Begin, Communicate, DependencyFailed, KillActive,
     KillDoomed, KillOne, RecordFailure, RecordFailureAbort, Recording, Register,
     Scheduling, Spawn, SpawnFails, Submit, Timeout, Tool, ToolFails, Work, disk_vars,
     cache_vars, main_vars, sorter_vars, result_vars, pool_vars, kill_vars, tally_vars
<1>5. CASE DeleteOutput
  BY <1>5 DEF DeleteOutput, CleanInv, Cleaning, Consumers, Loop, WalkInv, disk_vars,
     cache_vars, main_vars, sorter_vars, result_vars, pool_vars, kill_vars, tally_vars
<1>6. CASE StartBuild
  BY <1>6 DEF StartBuild, OpenCache, CleanInv, Cleaning, Consumers, Loop, WalkInv,
     disk_vars, cache_vars, main_vars, sorter_vars, result_vars, pool_vars, kill_vars,
     tally_vars
<1>7. CASE Join
  BY <1>7 DEF Join, CleanInv, Cleaning, Consumers, Loop, WalkInv, disk_vars, cache_vars,
     main_vars, sorter_vars, result_vars, pool_vars, kill_vars, tally_vars
<1>8. ASSUME NEW t \in Tasks, FailForDependency(t)
      PROVE  CleanInv'
  <2>1. /\ t \in Tasks \ done /\ Retire(t) /\ pc # "idle" /\ pc' # "idle"
        /\ UNCHANGED options
    BY <1>8 DEF FailForDependency, Scheduling, DependencyFailed, TypeOK, WalkInv, Loop,
        main_vars
  <2> QED BY <2>1, RetireCleans DEF CleanInv, Cleaning, Consumers
<1>9. ASSUME NEW t \in Tasks, Skip(t)
      PROVE  CleanInv'
  <2>1. /\ t \in Tasks \ done /\ Retire(t) /\ pc # "idle" /\ pc' # "idle"
        /\ UNCHANGED options
    BY <1>9 DEF Skip, Scheduling, DependencyFailed, TypeOK, WalkInv, Loop, main_vars
  <2> QED BY <2>1, RetireCleans DEF CleanInv, Cleaning, Consumers
<1>10. ASSUME NEW t \in Tasks, RecordSuccess(t)
      PROVE  CleanInv'
  <2>1. /\ t \in Tasks \ done /\ Retire(t) /\ pc # "idle" /\ pc' # "idle"
        /\ UNCHANGED options
    BY <1>10 DEF RecordSuccess, Recording, RecordInManifest, TypeOK, WalkInv, Loop, main_vars
  <2> QED BY <2>1, RetireCleans DEF CleanInv, Cleaning, Consumers
<1>11. ASSUME NEW t \in Tasks, RecordFailureGoOn(t)
      PROVE  CleanInv'
  <2>1. /\ t \in Tasks \ done /\ Retire(t) /\ pc # "idle" /\ pc' # "idle"
        /\ UNCHANGED options
    BY <1>11 DEF RecordFailureGoOn, RecordFailure, Recording, TypeOK, WalkInv, Loop, main_vars
  <2> QED BY <2>1, RetireCleans DEF CleanInv, Cleaning, Consumers
<1>12. CASE Crash
  BY <1>12 DEF Crash, CleanInv, Cleaning, Consumers, Loop, WalkInv, disk_vars,
     cache_vars, main_vars, sorter_vars, result_vars, pool_vars, kill_vars, tally_vars
<1>13. ASSUME NEW t \in Tasks, WriteStdout(t)
      PROVE  CleanInv'
  <2>1. /\ \A u \in Tasks : u # t => output'[u] = output[u] /\ (u \in log' => u \in log)
        /\ UNCHANGED <<pc, options, done>>
    BY <1>13 DEF WriteStdout, Work, Advance, TypeOK, CacheTypeOK, disk_vars, cache_vars,
        main_vars, sorter_vars, result_vars, pool_vars, kill_vars, tally_vars
  <2>2. worker[t] \notin Finished \cup {"none"} \/ child[t] = "alive"
    BY <1>13 DEF WriteStdout, Work, Advance, Finished
  <2> QED BY <2>1, <2>2, CleanedIsOver, GraphAssumption DEF CleanInv, Cleaning, Consumers
<1>14. ASSUME NEW t \in Tasks, WriteStdoutFails(t)
      PROVE  CleanInv'
  <2>1. /\ \A u \in Tasks : u # t => output'[u] = output[u] /\ (u \in log' => u \in log)
        /\ UNCHANGED <<pc, options, done>>
    BY <1>14 DEF WriteStdoutFails, Work, Advance, TypeOK, CacheTypeOK, disk_vars, cache_vars,
        main_vars, sorter_vars, result_vars, pool_vars, kill_vars, tally_vars
  <2>2. worker[t] \notin Finished \cup {"none"} \/ child[t] = "alive"
    BY <1>14 DEF WriteStdoutFails, Work, Advance, Finished
  <2> QED BY <2>1, <2>2, CleanedIsOver, GraphAssumption DEF CleanInv, Cleaning, Consumers
<1>15. ASSUME NEW t \in Tasks, PythonSucceeds(t)
      PROVE  CleanInv'
  <2>1. /\ \A u \in Tasks : u # t => output'[u] = output[u] /\ (u \in log' => u \in log)
        /\ UNCHANGED <<pc, options, done>>
    BY <1>15 DEF PythonSucceeds, Work, Advance, TypeOK, CacheTypeOK, disk_vars, cache_vars,
        main_vars, sorter_vars, result_vars, pool_vars, kill_vars, tally_vars
  <2>2. worker[t] \notin Finished \cup {"none"} \/ child[t] = "alive"
    BY <1>15 DEF PythonSucceeds, Work, Advance, Finished
  <2> QED BY <2>1, <2>2, CleanedIsOver, GraphAssumption DEF CleanInv, Cleaning, Consumers
<1>16. ASSUME NEW t \in Tasks, PythonFails(t)
      PROVE  CleanInv'
  <2>1. /\ \A u \in Tasks : u # t => output'[u] = output[u] /\ (u \in log' => u \in log)
        /\ UNCHANGED <<pc, options, done>>
    BY <1>16 DEF PythonFails, Work, Advance, TypeOK, CacheTypeOK, disk_vars, cache_vars,
        main_vars, sorter_vars, result_vars, pool_vars, kill_vars, tally_vars
  <2>2. worker[t] \notin Finished \cup {"none"} \/ child[t] = "alive"
    BY <1>16 DEF PythonFails, Work, Advance, Finished
  <2> QED BY <2>1, <2>2, CleanedIsOver, GraphAssumption DEF CleanInv, Cleaning, Consumers
<1>17. ASSUME NEW t \in Tasks, ToolWrites(t)
      PROVE  CleanInv'
  <2>1. /\ \A u \in Tasks : u # t => output'[u] = output[u] /\ (u \in log' => u \in log)
        /\ UNCHANGED <<pc, options, done>>
    BY <1>17 DEF ToolWrites, Tool, TypeOK, CacheTypeOK, disk_vars, cache_vars, main_vars,
        sorter_vars, result_vars, pool_vars, kill_vars, tally_vars
  <2>2. worker[t] \notin Finished \cup {"none"} \/ child[t] = "alive"
    BY <1>17 DEF ToolWrites, Tool, Finished
  <2> QED BY <2>1, <2>2, CleanedIsOver, GraphAssumption DEF CleanInv, Cleaning, Consumers
<1>18. ASSUME NEW t \in Tasks, ToolSucceeds(t)
      PROVE  CleanInv'
  <2>1. /\ \A u \in Tasks : u # t => output'[u] = output[u] /\ (u \in log' => u \in log)
        /\ UNCHANGED <<pc, options, done>>
    BY <1>18 DEF ToolSucceeds, Tool, TypeOK, CacheTypeOK, disk_vars, cache_vars, main_vars,
        sorter_vars, result_vars, pool_vars, kill_vars, tally_vars
  <2>2. worker[t] \notin Finished \cup {"none"} \/ child[t] = "alive"
    BY <1>18 DEF ToolSucceeds, Tool, Finished
  <2> QED BY <2>1, <2>2, CleanedIsOver, GraphAssumption DEF CleanInv, Cleaning, Consumers
<1>19. CASE UNCHANGED build_vars
  BY <1>1, <1>19 DEF build_vars, disk_vars, cache_vars, main_vars, sorter_vars,
     result_vars, pool_vars, kill_vars, tally_vars
<1> QED BY <1>1, <1>2, <1>3, <1>4, <1>5, <1>6, <1>7, <1>8, <1>9, <1>10, <1>11, <1>12,
   <1>13, <1>14, <1>15, <1>16, <1>17, <1>18, <1>19, SavesCut DEF Next, User, Main,
   Stop, Handling, Worker, Process

\* A build with clean_intermediates that goes through all its tasks leaves no
\* consumed intermediate and no log of one, whatever failed (build.py:187-190).
THEOREM CleanCorrect == Spec => []CleanLeavesNothing
<1>1. Init => ConsumersInv /\ CleanInv
  BY DEF Init, ConsumersInv, CleanInv, Cleaning
<1>2. WalkInv /\ CleanInv => CleanLeavesNothing
  BY GraphAssumption DEF WalkInv, CleanInv, CleanLeavesNothing, Cleaning, Consumers
<1> QED BY <1>1, <1>2, ConsumersStep, CleanStep, WalkCorrect, PTL DEF Spec

-----------------------------------------------------------------------------
(* Up to date after builds without faults. *)

\* No task fails or hangs, nothing interrupts a build.
NoFaults == CanFail = {} /\ MaxStops = 0

\* The recipe of a task is its own inputs and the recipes of its dependencies.
LEMMA RecipeUnfolds ==
    ASSUME NEW t \in Tasks
    PROVE  Recipe[t] = OwnInputs(t) \cup UNION {Recipe[d] : d \in Deps[t]}
<1>1. t \in Cone(t)
  BY DEF Cone
<1>2. ASSUME NEW d \in Deps[t], NEW a \in Cone(d)
      PROVE  a \in Cone(t)
  BY <1>2 DEF Cone
<1>3. ASSUME NEW a \in Cone(t)
      PROVE  a = t \/ \E d \in Deps[t] : a \in Cone(d)
  <2> DEFINE S == {t} \cup UNION {Cone(d) : d \in Deps[t]}
  <2>1. S \in SUBSET Tasks /\ t \in S
    BY DEF Cone
  <2>2. ASSUME NEW u \in S PROVE Deps[u] \subseteq S
    <3>1. CASE u = t
      <4>1. \A d \in Deps[t] : d \in Cone(d)
        BY GraphAssumption DEF Cone
      <4> QED BY <3>1, <4>1
    <3>2. ASSUME NEW d \in Deps[t], u \in Cone(d) PROVE Deps[u] \subseteq Cone(d)
      <4>1. u \in Tasks
        BY <3>2 DEF Cone
      <4>2. Deps[u] \subseteq Tasks
        BY <4>1, GraphAssumption
      <4> QED BY <3>2, <4>2 DEF Cone
    <3> QED BY <3>1, <3>2
  <2> HIDE DEF S
  <2>3. a \in S
    BY <2>1, <2>2 DEF Cone
  <2> QED BY <2>3 DEF S
<1>4. Cone(t) = {t} \cup UNION {Cone(d) : d \in Deps[t]}
  BY <1>1, <1>2, <1>3
<1>5. \A d \in Deps[t] : d \in Tasks
  BY GraphAssumption
<1> HIDE DEF Cone
<1>6. \A u \in Tasks : Recipe[u] = UNION {OwnInputs(a) : a \in Cone(u)}
  BY DEF Recipe
<1>7. ASSUME NEW x
      PROVE  x \in Recipe[t] <=> \E a \in Cone(t) : x \in OwnInputs(a)
  BY <1>6
<1>8. ASSUME NEW x, NEW d \in Deps[t]
      PROVE  x \in Recipe[d] <=> \E a \in Cone(d) : x \in OwnInputs(a)
  BY <1>5, <1>6
<1>9. ASSUME NEW x
      PROVE  x \in Recipe[t] <=> x \in OwnInputs(t) \/ \E d \in Deps[t] : x \in Recipe[d]
  BY <1>4, <1>7, <1>8
<1> QED BY <1>9

\* Without faults every task that was submitted runs and succeeds.
CalmInv ==
    /\ outcome \in {"open", "complete"} /\ pc \notin {"kill", "caught", "handle"}
    /\ stops = 0 /\ cut = {} /\ ~ shutdown_event /\ failed_tasks = {}
    /\ \A t \in Tasks :
           /\ worker[t] \in {"none", "queued", "starting", "spawned", "running", "logging",
                             "succeeded"}
           /\ child[t] \in {"none", "alive", "ok"}
           /\ worker[t] = "none" \/ t \in in_flight \cup done
    /\ \A t \in Tasks : worker[t] = "logging" => child[t] = "ok"
    /\ pc = "idle" => in_flight = {}

LEMMA CalmStep ==
    NoFaults /\ TypeOK /\ WalkInv /\ WorkerInv /\ CalmInv /\ [Next]_build_vars => CalmInv'
<1> SUFFICES ASSUME NoFaults, TypeOK, WalkInv, WorkerInv, CalmInv, [Next]_build_vars
      PROVE  CalmInv'
  OBVIOUS
<1>1. ASSUME UNCHANGED <<pc, outcome, stops, cut, shutdown_event, failed_tasks, in_flight, done,
                         worker, child>>
      PROVE  CalmInv'
  BY <1>1 DEF NoFaults, TypeOK, WalkInv, WorkerInv, CalmInv, Loop
<1>2. CASE EditSource \/ DeleteOutput
  BY <1>1, <1>2 DEF DeleteOutput, EditSource, disk_vars, cache_vars, main_vars,
     sorter_vars, result_vars, pool_vars, kill_vars, tally_vars
<1>3. ASSUME NEW c \in Configs, Save(c)
      PROVE  CalmInv'
  BY <1>1, <1>3 DEF Save, SaveManifest, disk_vars, cache_vars, main_vars, sorter_vars,
     result_vars, pool_vars, kill_vars, tally_vars
<1>4. CASE StartBuild
  BY <1>4 DEF StartBuild, OpenCache, NoFaults, TypeOK, WalkInv, WorkerInv, CalmInv,
     Loop, disk_vars, cache_vars, main_vars, sorter_vars, result_vars, pool_vars,
     kill_vars, tally_vars
<1>5. CASE GetReady
  BY <1>5 DEF GetReady, ReadyNodes, NoFaults, TypeOK, WalkInv, WorkerInv, CalmInv, Loop,
     disk_vars, cache_vars, main_vars, sorter_vars, result_vars, pool_vars, kill_vars,
     tally_vars
<1>6. CASE Complete
  BY <1>6 DEF Complete, NoFaults, TypeOK, WalkInv, WorkerInv, CalmInv, Loop, disk_vars,
     cache_vars, main_vars, sorter_vars, result_vars, pool_vars, kill_vars, tally_vars
<1>7. CASE Scheduled
  BY <1>7 DEF Scheduled, NoFaults, TypeOK, WalkInv, WorkerInv, CalmInv, Loop, disk_vars,
     cache_vars, main_vars, sorter_vars, result_vars, pool_vars, kill_vars, tally_vars
<1>8. CASE Wait
  BY <1>8 DEF Wait, NoFaults, TypeOK, WalkInv, WorkerInv, CalmInv, Loop, disk_vars,
     cache_vars, main_vars, sorter_vars, result_vars, pool_vars, kill_vars, tally_vars
<1>9. CASE Recorded
  BY <1>9 DEF Recorded, NoFaults, TypeOK, WalkInv, WorkerInv, CalmInv, Loop, disk_vars,
     cache_vars, main_vars, sorter_vars, result_vars, pool_vars, kill_vars, tally_vars
<1>10. CASE Killed
  BY <1>10 DEF Killed, CancelFutures, NoFaults, TypeOK, WalkInv, WorkerInv, CalmInv,
     Loop, disk_vars, cache_vars, main_vars, sorter_vars, result_vars, pool_vars,
     kill_vars, tally_vars
<1>11. CASE Saved
  BY <1>11 DEF Saved, NoFaults, TypeOK, WalkInv, WorkerInv, CalmInv, Loop, disk_vars,
     cache_vars, main_vars, sorter_vars, result_vars, pool_vars, kill_vars, tally_vars
<1>12. CASE Join
  <2>1. in_flight = {}
    BY <1>12 DEF Join, CalmInv, WalkInv, TypeOK, Loop
  <2> QED BY <1>12, <2>1 DEF Join, CalmInv, tally_vars, kill_vars, result_vars, pool_vars,
      sorter_vars
<1>13. ASSUME NEW t \in Tasks, FailForDependency(t)
      PROVE  CalmInv'
  BY <1>13 DEF FailForDependency, Scheduling, DependencyFailed, Retire, NoFaults,
     TypeOK, WalkInv, WorkerInv, CalmInv, Loop, disk_vars, cache_vars, main_vars,
     sorter_vars, result_vars, pool_vars, kill_vars, tally_vars
<1>14. ASSUME NEW t \in Tasks, Skip(t)
      PROVE  CalmInv'
  BY <1>14 DEF Skip, Scheduling, DependencyFailed, Retire, NoFaults, TypeOK, WalkInv,
     WorkerInv, CalmInv, Loop, disk_vars, cache_vars, main_vars, sorter_vars,
     result_vars, pool_vars, kill_vars, tally_vars
<1>15. ASSUME NEW t \in Tasks, Submit(t)
      PROVE  CalmInv'
  BY <1>15 DEF Submit, Scheduling, DependencyFailed, NoFaults, TypeOK, WalkInv,
     WorkerInv, CalmInv, Loop, disk_vars, cache_vars, main_vars, sorter_vars,
     result_vars, pool_vars, kill_vars, tally_vars
<1>16. ASSUME NEW t \in Tasks, RecordSuccess(t)
      PROVE  CalmInv'
  BY <1>16 DEF RecordSuccess, Recording, RecordInManifest, Retire, NoFaults, TypeOK,
     WalkInv, WorkerInv, CalmInv, Loop, disk_vars, cache_vars, main_vars, sorter_vars,
     result_vars, pool_vars, kill_vars, tally_vars
<1>17. ASSUME NEW t \in Tasks, RecordFailureGoOn(t)
      PROVE  CalmInv'
  BY <1>17 DEF RecordFailureGoOn, RecordFailure, Recording, Retire, NoFaults, TypeOK,
     WalkInv, WorkerInv, CalmInv, Loop, disk_vars, cache_vars, main_vars, sorter_vars,
     result_vars, pool_vars, kill_vars, tally_vars
<1>18. ASSUME NEW t \in Tasks, RecordFailureAbort(t)
      PROVE  CalmInv'
  BY <1>18 DEF RecordFailureAbort, RecordFailure, Recording, KillActive, NoFaults,
     TypeOK, WalkInv, WorkerInv, CalmInv, Loop, disk_vars, cache_vars, main_vars,
     sorter_vars, result_vars, pool_vars, kill_vars, tally_vars
<1>19. ASSUME NEW t \in Tasks, KillOne(t)
      PROVE  CalmInv'
  BY <1>19 DEF KillOne, NoFaults, TypeOK, WalkInv, WorkerInv, CalmInv, Loop, disk_vars,
     cache_vars, main_vars, sorter_vars, result_vars, pool_vars, kill_vars, tally_vars
<1>20. CASE Handling \/ InterruptSave
  BY <1>20 DEF Handling, Interrupt, HandleInterrupt, InterruptHandler, InterruptSave,
     CutSave, KillActive, NoFaults, TypeOK, WalkInv, WorkerInv, CalmInv, Loop,
     disk_vars, cache_vars, main_vars, sorter_vars, result_vars, pool_vars, kill_vars,
     tally_vars
<1>21. CASE Crash
  BY <1>21 DEF Crash, NoFaults, TypeOK, WalkInv, WorkerInv, CalmInv, Loop, disk_vars,
     cache_vars, main_vars, sorter_vars, result_vars, pool_vars, kill_vars, tally_vars
<1>22. ASSUME NEW t \in Tasks, Begin(t)
      PROVE  CalmInv'
  BY <1>22 DEF Begin, Work, Advance, NoFaults, TypeOK, WalkInv, WorkerInv, CalmInv,
     Loop, disk_vars, cache_vars, main_vars, sorter_vars, result_vars, pool_vars,
     kill_vars, tally_vars
<1>23. ASSUME NEW t \in Tasks, Spawn(t)
      PROVE  CalmInv'
  BY <1>23 DEF Spawn, Work, Advance, NoFaults, TypeOK, WalkInv, WorkerInv, CalmInv,
     Loop, disk_vars, cache_vars, main_vars, sorter_vars, result_vars, pool_vars,
     kill_vars, tally_vars
<1>24. ASSUME NEW t \in Tasks, SpawnFails(t)
      PROVE  CalmInv'
  BY <1>24 DEF SpawnFails, Work, Advance, NoFaults, TypeOK, WalkInv, WorkerInv, CalmInv,
     Loop, disk_vars, cache_vars, main_vars, sorter_vars, result_vars, pool_vars,
     kill_vars, tally_vars
<1>25. ASSUME NEW t \in Tasks, Register(t)
      PROVE  CalmInv'
  BY <1>25 DEF Register, Work, Advance, NoFaults, TypeOK, WalkInv, WorkerInv, CalmInv,
     Loop, disk_vars, cache_vars, main_vars, sorter_vars, result_vars, pool_vars,
     kill_vars, tally_vars
<1>26. ASSUME NEW t \in Tasks, KillDoomed(t)
      PROVE  CalmInv'
  BY <1>26 DEF KillDoomed, Work, Advance, NoFaults, TypeOK, WalkInv, WorkerInv, CalmInv,
     Loop, disk_vars, cache_vars, main_vars, sorter_vars, result_vars, pool_vars,
     kill_vars, tally_vars
<1>27. ASSUME NEW t \in Tasks, Communicate(t)
      PROVE  CalmInv'
  BY <1>27 DEF Communicate, Work, Advance, NoFaults, TypeOK, WalkInv, WorkerInv,
     CalmInv, Loop, disk_vars, cache_vars, main_vars, sorter_vars, result_vars,
     pool_vars, kill_vars, tally_vars
<1>28. ASSUME NEW t \in Tasks, WriteStdout(t)
      PROVE  CalmInv'
  <2>1. worker' = [worker EXCEPT ![t] = "succeeded"] /\ worker[t] = "logging"
    BY <1>28 DEF WriteStdout, Work, Advance, CalmInv
  <2>2. UNCHANGED <<pc, outcome, stops, cut, shutdown_event, failed_tasks, in_flight, done,
                   child>>
    BY <1>28 DEF WriteStdout, Work, main_vars, result_vars, sorter_vars, tally_vars
  <2> QED BY <2>1, <2>2 DEF CalmInv, TypeOK
<1>29. ASSUME NEW t \in Tasks, WriteStdoutFails(t)
      PROVE  CalmInv'
  BY <1>29 DEF WriteStdoutFails, Work, Advance, NoFaults, TypeOK, WalkInv, WorkerInv,
     CalmInv, Loop, disk_vars, cache_vars, main_vars, sorter_vars, result_vars,
     pool_vars, kill_vars, tally_vars
<1>30. ASSUME NEW t \in Tasks, PythonSucceeds(t)
      PROVE  CalmInv'
  BY <1>30 DEF PythonSucceeds, Work, Advance, NoFaults, TypeOK, WalkInv, WorkerInv,
     CalmInv, Loop, disk_vars, cache_vars, main_vars, sorter_vars, result_vars,
     pool_vars, kill_vars, tally_vars
<1>31. ASSUME NEW t \in Tasks, PythonFails(t)
      PROVE  CalmInv'
  BY <1>31 DEF PythonFails, Work, Advance, NoFaults, TypeOK, WalkInv, WorkerInv,
     CalmInv, Loop, disk_vars, cache_vars, main_vars, sorter_vars, result_vars,
     pool_vars, kill_vars, tally_vars
<1>32. ASSUME NEW t \in Tasks, Timeout(t)
      PROVE  CalmInv'
  BY <1>32 DEF Timeout, Work, Advance, NoFaults, TypeOK, WalkInv, WorkerInv, CalmInv,
     Loop, disk_vars, cache_vars, main_vars, sorter_vars, result_vars, pool_vars,
     kill_vars, tally_vars
<1>33. ASSUME NEW t \in Tasks, ToolWrites(t)
      PROVE  CalmInv'
  BY <1>33 DEF ToolWrites, Tool, NoFaults, TypeOK, WalkInv, WorkerInv, CalmInv, Loop,
     disk_vars, cache_vars, main_vars, sorter_vars, result_vars, pool_vars, kill_vars,
     tally_vars
<1>34. ASSUME NEW t \in Tasks, ToolSucceeds(t)
      PROVE  CalmInv'
  BY <1>34 DEF ToolSucceeds, Tool, NoFaults, TypeOK, WalkInv, WorkerInv, CalmInv, Loop,
     disk_vars, cache_vars, main_vars, sorter_vars, result_vars, pool_vars, kill_vars,
     tally_vars
<1>35. ASSUME NEW t \in Tasks, ToolFails(t)
      PROVE  CalmInv'
  BY <1>35 DEF ToolFails, Tool, NoFaults, TypeOK, WalkInv, WorkerInv, CalmInv, Loop,
     disk_vars, cache_vars, main_vars, sorter_vars, result_vars, pool_vars, kill_vars,
     tally_vars
<1>36. CASE UNCHANGED build_vars
  BY <1>1, <1>36 DEF build_vars, disk_vars, cache_vars, main_vars, sorter_vars,
     result_vars, pool_vars, kill_vars, tally_vars
<1> QED BY <1>1, <1>2, <1>3, <1>4, <1>5, <1>6, <1>7, <1>8, <1>9, <1>10, <1>11, <1>12,
   <1>13, <1>14, <1>15, <1>16, <1>17, <1>18, <1>19, <1>20, <1>21, <1>22, <1>23, <1>24,
   <1>25, <1>26, <1>27, <1>28, <1>29, <1>30, <1>31, <1>32, <1>33, <1>34, <1>35, <1>36,
   SavesCut DEF Next, User, Main, Stop, Handling, Worker, Process

\* The running build's hashes are those of the present sources, and a config dir
\* that is not to be saved has its entries in the file.
HashInv ==
    /\ pc # "idle" => hashes = Recipe
    /\ \A t \in Tasks : ConfigOf[t] \notin updated => stored[t] = manifest[t]
    /\ pc = "idle" => updated = {}

\* Entries recorded so far: a task that is not needed although a needed task or a
\* user wants its output has the right entry, and so has one that was run.
EntriesInv ==
    pc # "idle" /\ ~ options.dry_run =>
        /\ \A t \in needed_tasks : \A d \in Deps[t] \ needed_tasks : manifest[d] = hashes[d]
        /\ \A t \in done \cap needed_tasks : manifest[t] = hashes[t]
        /\ \A t \in DemandRoots(options.clean_intermediates) \ needed_tasks :
               manifest[t] = hashes[t]

\* An output is what its entry says, except while its task is in flight; a task
\* in flight reads current inputs and writes a current output.
ContentInv ==
    /\ \A t \in Tasks \ in_flight :
           output[t] # Absent /\ manifest[t] # Unrecorded => output[t] = manifest[t]
    /\ \A t \in in_flight : \A d \in Deps[t] : output[d] = hashes[d]
    /\ \A t \in in_flight :
           worker[t] = "succeeded" \/ (child[t] = "ok" /\ StdoutFile[t] # "output") =>
               output[t] = hashes[t]
    /\ pc # "idle" /\ ~ options.dry_run =>
           \A t \in DemandRoots(options.clean_intermediates) :
               t \notin needed_tasks \/ t \in done => output[t] # Absent

LEMMA HashStep ==
    NoFaults /\ TypeOK /\ WalkInv /\ WorkerInv /\ CalmInv /\ SavingInv /\ HashInv /\ [Next]_build_vars => HashInv'
<1> SUFFICES ASSUME NoFaults, TypeOK, WalkInv, WorkerInv, CalmInv, SavingInv, HashInv, [Next]_build_vars
      PROVE  HashInv'
  OBVIOUS
<1>1. ASSUME UNCHANGED <<pc, source, hashes, updated, stored, manifest>>
      PROVE  HashInv'
  BY <1>1 DEF HashInv, Recipe, OwnInputs
<1>2. CASE DeleteOutput
  BY <1>1, <1>2 DEF DeleteOutput, disk_vars, cache_vars, main_vars, sorter_vars,
     result_vars, pool_vars, kill_vars, tally_vars
<1>3. ASSUME NEW t \in Tasks, FailForDependency(t) \/ Skip(t) \/ Submit(t) \/
   RecordFailureGoOn(t) \/ KillOne(t) \/ Begin(t) \/ Spawn(t) \/ SpawnFails(t) \/
   Register(t) \/ KillDoomed(t) \/ Communicate(t) \/ WriteStdout(t) \/
   WriteStdoutFails(t) \/ PythonSucceeds(t) \/ PythonFails(t) \/ Timeout(t) \/
   ToolWrites(t) \/ ToolSucceeds(t) \/ ToolFails(t) PROVE HashInv'
  BY <1>1, <1>3 DEF Advance, Begin, Communicate, DependencyFailed, FailForDependency,
     KillDoomed, KillOne, PythonFails, PythonSucceeds, RecordFailure, RecordFailureGoOn,
     Recording, Register, Retire, Scheduling, Skip, Spawn, SpawnFails, Submit, Timeout,
     Tool, ToolFails, ToolSucceeds, ToolWrites, Work, WriteStdout, WriteStdoutFails,
     disk_vars, cache_vars, main_vars, sorter_vars, result_vars, pool_vars, kill_vars,
     tally_vars
<1>4. CASE EditSource
  BY <1>4 DEF EditSource, HashInv, CalmInv, NoFaults, disk_vars, cache_vars, main_vars,
     sorter_vars, result_vars, pool_vars, kill_vars, tally_vars
<1>5. CASE StartBuild
  <2>1. Recipe' = Recipe
    BY <1>5 DEF Recipe, OwnInputs, StartBuild, OpenCache, disk_vars
  <2> QED BY <1>5, <2>1 DEF HashInv, CalmInv, NoFaults, StartBuild, OpenCache, disk_vars,
      cache_vars, main_vars, sorter_vars, result_vars, pool_vars, kill_vars, tally_vars
<1>6. CASE GetReady
  <2>1. Recipe' = Recipe
    BY <1>6 DEF Recipe, OwnInputs, GetReady, ReadyNodes, disk_vars
  <2> QED BY <1>6, <2>1 DEF HashInv, CalmInv, NoFaults, GetReady, ReadyNodes, disk_vars,
      cache_vars, main_vars, sorter_vars, result_vars, pool_vars, kill_vars, tally_vars
<1>7. CASE Complete
  <2>1. Recipe' = Recipe
    BY <1>7 DEF Recipe, OwnInputs, Complete, disk_vars
  <2> QED BY <1>7, <2>1 DEF HashInv, CalmInv, NoFaults, Complete, disk_vars, cache_vars,
      main_vars, sorter_vars, result_vars, pool_vars, kill_vars, tally_vars
<1>8. CASE Scheduled
  <2>1. Recipe' = Recipe
    BY <1>8 DEF Recipe, OwnInputs, Scheduled, disk_vars
  <2> QED BY <1>8, <2>1 DEF HashInv, CalmInv, NoFaults, Scheduled, disk_vars, cache_vars,
      main_vars, sorter_vars, result_vars, pool_vars, kill_vars, tally_vars
<1>9. CASE Wait
  <2>1. Recipe' = Recipe
    BY <1>9 DEF Recipe, OwnInputs, Wait, disk_vars
  <2> QED BY <1>9, <2>1 DEF HashInv, CalmInv, NoFaults, Wait, disk_vars, cache_vars, main_vars,
      sorter_vars, result_vars, pool_vars, kill_vars, tally_vars
<1>10. CASE Recorded
  <2>1. Recipe' = Recipe
    BY <1>10 DEF Recipe, OwnInputs, Recorded, disk_vars
  <2> QED BY <1>10, <2>1 DEF HashInv, CalmInv, NoFaults, Recorded, disk_vars, cache_vars,
      main_vars, sorter_vars, result_vars, pool_vars, kill_vars, tally_vars
<1>11. CASE Killed
  <2>1. Recipe' = Recipe
    BY <1>11 DEF Recipe, OwnInputs, Killed, CancelFutures, disk_vars
  <2> QED BY <1>11, <2>1 DEF HashInv, CalmInv, NoFaults, Killed, CancelFutures, disk_vars,
      cache_vars, main_vars, sorter_vars, result_vars, pool_vars, kill_vars, tally_vars
<1>12. CASE Saved
  <2>1. Recipe' = Recipe
    BY <1>12 DEF Recipe, OwnInputs, Saved, disk_vars
  <2> QED BY <1>12, <2>1 DEF HashInv, CalmInv, NoFaults, Saved, disk_vars, cache_vars,
      main_vars, sorter_vars, result_vars, pool_vars, kill_vars, tally_vars
<1>13. CASE Join
  <2>1. updated = {}
    BY <1>13 DEF Join, SavingInv, CalmInv
  <2> QED BY <1>13, <2>1 DEF Join, HashInv, cache_vars, disk_vars
<1>14. ASSUME NEW c \in Configs, Save(c)
      PROVE  HashInv'
  <2>1. Recipe' = Recipe
    BY <1>14 DEF Recipe, OwnInputs, Save, SaveManifest
  <2> QED BY <1>14, <2>1 DEF HashInv, Save, SaveManifest, main_vars, TypeOK, CacheTypeOK
<1>15. ASSUME NEW t \in Tasks, RecordSuccess(t)
      PROVE  HashInv'
  <2>1. Recipe' = Recipe /\ hashes' = hashes
    BY <1>15 DEF Recipe, OwnInputs, RecordSuccess, Recording, RecordInManifest
  <2>2. /\ pc' = pc /\ stored' = stored /\ updated' = updated \cup {ConfigOf[t]}
        /\ \A u \in Tasks : u # t => manifest'[u] = manifest[u]
    BY <1>15 DEF RecordSuccess, Recording, RecordInManifest, TypeOK, CacheTypeOK
  <2> QED BY <1>15, <2>1, <2>2 DEF HashInv, RecordSuccess, Recording
<1>16. ASSUME NEW t \in Tasks, RecordFailureAbort(t)
      PROVE  HashInv'
  <2>1. Recipe' = Recipe
    BY <1>16 DEF Recipe, OwnInputs, RecordFailureAbort, RecordFailure, Recording, KillActive,
        disk_vars
  <2> QED BY <1>16, <2>1 DEF HashInv, CalmInv, NoFaults, RecordFailureAbort, RecordFailure,
      Recording, KillActive, disk_vars, cache_vars, main_vars, sorter_vars, result_vars,
      pool_vars, kill_vars, tally_vars
<1>17. CASE Handling \/ InterruptSave
  <2>1. Recipe' = Recipe
    BY <1>17 DEF Recipe, OwnInputs, Handling, Interrupt, HandleInterrupt,
       InterruptHandler, InterruptSave, CutSave, KillActive, disk_vars
  <2> QED BY <1>17, <2>1 DEF HashInv, CalmInv, NoFaults, Handling, Interrupt,
     HandleInterrupt, InterruptHandler, InterruptSave, CutSave, KillActive, disk_vars,
     cache_vars, main_vars, sorter_vars, result_vars, pool_vars, kill_vars, tally_vars
<1>18. CASE Crash
  <2>1. Recipe' = Recipe
    BY <1>18 DEF Recipe, OwnInputs, Crash, disk_vars
  <2> QED BY <1>18, <2>1 DEF HashInv, CalmInv, NoFaults, Crash, disk_vars, cache_vars,
      main_vars, sorter_vars, result_vars, pool_vars, kill_vars, tally_vars
<1>19. CASE UNCHANGED build_vars
  BY <1>1, <1>19 DEF build_vars, disk_vars, cache_vars, main_vars, sorter_vars,
     result_vars, pool_vars, kill_vars, tally_vars
<1> QED BY <1>1, <1>2, <1>3, <1>4, <1>5, <1>6, <1>7, <1>8, <1>9, <1>10, <1>11, <1>12,
   <1>13, <1>14, <1>15, <1>16, <1>17, <1>18, <1>19, SavesCut DEF Next, User, Main,
   Stop, Handling, Worker, Process

LEMMA NeededClosed2 ==
    ASSUME NEW clean, NEW entries, NEW recipe,
           NEW t \in NeededTasks(clean, entries, recipe),
           NEW d \in Deps[t] \ NeededTasks(clean, entries, recipe)
    PROVE  entries[d] = recipe[d]
BY GraphAssumption DEF NeededTasks, IsSatisfied

LEMMA NeededRoots ==
    ASSUME NEW clean, NEW entries, NEW recipe,
           NEW t \in DemandRoots(clean) \ NeededTasks(clean, entries, recipe)
    PROVE  entries[t] = recipe[t] /\ output[t] # Absent
BY DEF NeededTasks, DemandRoots, IsSatisfied

LEMMA EntriesStep ==
    NoFaults /\ TypeOK /\ WalkInv /\ WorkerInv /\ CalmInv /\ EntriesInv /\ [Next]_build_vars => EntriesInv'
<1> SUFFICES ASSUME NoFaults, TypeOK, WalkInv, WorkerInv, CalmInv, EntriesInv, [Next]_build_vars
      PROVE  EntriesInv'
  OBVIOUS
<1>1. ASSUME UNCHANGED <<options, needed_tasks, done, manifest, hashes>>,
       pc' # "idle" => pc # "idle" PROVE EntriesInv'
  BY <1>1 DEF EntriesInv, DemandRoots, IsDeliverable, Loop, CalmInv, NoFaults
<1>2. CASE DeleteOutput \/ EditSource \/ GetReady \/ Complete \/ Scheduled \/ Wait \/
   Recorded \/ Killed \/ Saved \/ Join \/ Crash \/
   Handling \/ InterruptSave
  BY <1>1, <1>2 DEF CancelFutures, Complete, Crash, DeleteOutput, EditSource, GetReady,
     Handling, Interrupt, HandleInterrupt, InterruptHandler, InterruptSave, CutSave,
     KillActive, Join, Killed, ReadyNodes, Recorded, Saved, Scheduled, Wait, disk_vars,
     cache_vars, main_vars, sorter_vars, result_vars, pool_vars, kill_vars, tally_vars
<1>3. ASSUME NEW c \in Configs, Save(c)
      PROVE  EntriesInv'
  BY <1>1, <1>3 DEF Save, SaveManifest, disk_vars, cache_vars, main_vars, sorter_vars,
     result_vars, pool_vars, kill_vars, tally_vars
<1>4. ASSUME NEW t \in Tasks, Submit(t) \/ RecordFailureAbort(t) \/ Begin(t) \/ Spawn(t)
   \/ SpawnFails(t) \/ Register(t) \/ KillDoomed(t) \/ Communicate(t) \/ WriteStdout(t)
   \/ WriteStdoutFails(t) \/ PythonSucceeds(t) \/ PythonFails(t) \/ Timeout(t) \/
   ToolWrites(t) \/ ToolSucceeds(t) \/ ToolFails(t) \/ KillOne(t) PROVE EntriesInv'
  BY <1>1, <1>4 DEF Advance, Begin, Communicate, DependencyFailed, KillActive,
     KillDoomed, KillOne, PythonFails, PythonSucceeds, RecordFailure,
     RecordFailureAbort, Recording, Register, Scheduling, Spawn, SpawnFails, Submit,
     Timeout, Tool, ToolFails, ToolSucceeds, ToolWrites, Work, WriteStdout,
     WriteStdoutFails, disk_vars, cache_vars, main_vars, sorter_vars, result_vars,
     pool_vars, kill_vars, tally_vars
<1>5. CASE StartBuild
  <2>1. /\ needed_tasks' = NeededTasks(options'.clean_intermediates, manifest', hashes')
        /\ done' = {}
    BY <1>5 DEF StartBuild
  <2>2. \A t \in needed_tasks' : \A d \in Deps[t] \ needed_tasks' : manifest'[d] = hashes'[d]
    BY <2>1, NeededClosed2
  <2>3. \A t \in DemandRoots(options'.clean_intermediates) \ needed_tasks' :
            manifest'[t] = hashes'[t]
    BY <2>1, NeededRoots
  <2>4. \A c : DemandRoots(c)' = DemandRoots(c)
    BY DEF DemandRoots, IsDeliverable
  <2> QED BY <2>1, <2>2, <2>3, <2>4 DEF EntriesInv
<1>6. ASSUME NEW t \in Tasks, FailForDependency(t)
      PROVE  EntriesInv'
  <2>1. FALSE
    BY <1>6 DEF FailForDependency, Scheduling, DependencyFailed, CalmInv, TypeOK
  <2> QED BY <2>1
<1>7. ASSUME NEW t \in Tasks, Skip(t)
      PROVE  EntriesInv'
  <2>1. /\ options' = options /\ needed_tasks' = needed_tasks /\ pc' = pc
        /\ manifest' = manifest /\ hashes' = hashes /\ done' = done \cup {t}
        /\ ~ options.dry_run => t \notin needed_tasks
    BY <1>7 DEF Skip, Scheduling, Retire, main_vars, cache_vars
  <2> QED BY <2>1 DEF EntriesInv, DemandRoots, IsDeliverable
<1>8. ASSUME NEW t \in Tasks, RecordSuccess(t)
      PROVE  EntriesInv'
  <2>1. /\ options' = options /\ needed_tasks' = needed_tasks /\ pc' = pc
        /\ hashes' = hashes /\ done' = done \cup {t}
        /\ manifest' = [manifest EXCEPT ![t] = hashes[t]]
    BY <1>8 DEF RecordSuccess, Recording, RecordInManifest, Retire
  <2>2. \A u \in Tasks : manifest[u] = hashes[u] \/ u = t => manifest'[u] = hashes[u]
    BY <2>1 DEF TypeOK, CacheTypeOK
  <2>3. /\ needed_tasks \subseteq Tasks
        /\ \A c : DemandRoots(c) \subseteq Tasks /\ DemandRoots(c)' = DemandRoots(c)
    BY DEF TypeOK, DemandRoots, IsDeliverable
  <2> QED BY <2>1, <2>2, <2>3, GraphAssumption DEF EntriesInv
<1>9. ASSUME NEW t \in Tasks, RecordFailureGoOn(t)
      PROVE  EntriesInv'
  <2>1. FALSE
    BY <1>9 DEF RecordFailureGoOn, RecordFailure, Recording, CalmInv, TypeOK
  <2> QED BY <2>1
<1>10. CASE UNCHANGED build_vars
  BY <1>1, <1>10 DEF build_vars, disk_vars, cache_vars, main_vars, sorter_vars,
     result_vars, pool_vars, kill_vars, tally_vars
<1> QED BY <1>1, <1>2, <1>3, <1>4, <1>5, <1>6, <1>7, <1>8, <1>9, <1>10, SavesCut DEF
   Next, User, Main, Stop, Handling, Worker, Process

LEMMA DemandedStays ==
    ASSUME ConsumersInv, NEW d \in DemandRoots(options.clean_intermediates),
           NEW t \in Tasks
    PROVE  d \notin Exhausted(t)
BY DEF DemandRoots, IsDeliverable, ConsumersInv, Exhausted

\* A task in flight makes of its inputs what its recipe says.
LEMMA BuiltIsRecipe ==
    ASSUME TypeOK, HashInv, ContentInv, pc # "idle", NEW t \in in_flight
    PROVE  Built(t) = hashes[t] /\ hashes[t] # Absent
<1>1. t \in Tasks /\ Deps[t] \subseteq Tasks
  BY GraphAssumption DEF TypeOK
<1>2. \A d \in Tasks : hashes[d] \notin {Absent, Corrupt}
  BY ContentAssumption DEF TypeOK, CacheTypeOK, Hash
<1>3. \A d \in Deps[t] : output[d] = hashes[d]
  BY DEF ContentInv
<1>4. Built(t) = OwnInputs(t) \cup UNION {hashes[d] : d \in Deps[t]}
  BY <1>1, <1>2, <1>3 DEF Built
<1> QED BY <1>1, <1>2, <1>4, RecipeUnfolds DEF HashInv

\* The inputs of a task that is submitted are current.
LEMMA SubmittedReadsCurrent ==
    ASSUME TypeOK, WalkInv, CalmInv, EntriesInv, InputsInv, ContentInv,
           NEW t \in needed_tasks \ done, ~ options.dry_run, outcome = "open",
           Deps[t] \subseteq done, NEW d \in Deps[t]
    PROVE  output[d] = hashes[d]
<1>1. d \in Tasks /\ pc # "idle"
  BY GraphAssumption DEF TypeOK, WalkInv, Loop
<1>2. manifest[d] = hashes[d]
  BY <1>1 DEF EntriesInv
<1>3. output[d] # Absent
  BY DEF InputsInv, CalmInv
<1>4. d \notin in_flight /\ manifest[d] # Unrecorded
  BY <1>1, <1>2, ContentAssumption DEF WalkInv, TypeOK, CacheTypeOK, Hash
<1> QED BY <1>1, <1>2, <1>3, <1>4 DEF ContentInv

LEMMA ContentStep ==
    NoFaults /\ TypeOK /\ WalkInv /\ WorkerInv /\ ConsumersInv /\ InputsInv /\ CalmInv /\ HashInv /\ EntriesInv /\ ContentInv /\ [Next]_build_vars => ContentInv'
<1> SUFFICES ASSUME NoFaults, TypeOK, WalkInv, WorkerInv, ConsumersInv, InputsInv, CalmInv, HashInv, EntriesInv, ContentInv, [Next]_build_vars
      PROVE  ContentInv'
  OBVIOUS
<1>1. ASSUME UNCHANGED <<output, in_flight, manifest, hashes, worker, child, options, needed_tasks, done>>, pc' # "idle" => pc # "idle"
      PROVE  ContentInv'
  BY <1>1 DEF ContentInv, DemandRoots, IsDeliverable, TypeOK, Loop
<1>2. CASE EditSource \/ GetReady \/ Complete \/ Scheduled \/ Wait \/ Recorded \/ Saved
  BY <1>1, <1>2 DEF Complete, EditSource, GetReady, ReadyNodes, Recorded, Saved,
     Scheduled, Wait, disk_vars, cache_vars, main_vars, sorter_vars, result_vars,
     pool_vars, kill_vars, tally_vars
<1>3. ASSUME NEW c \in Configs, Save(c)
      PROVE  ContentInv'
  BY <1>1, <1>3 DEF Save, SaveManifest, disk_vars, cache_vars, main_vars, sorter_vars,
     result_vars, pool_vars, kill_vars, tally_vars
<1>4. CASE DeleteOutput
  BY <1>4 DEF DeleteOutput, ContentInv, CalmInv, TypeOK, CacheTypeOK, DemandRoots,
      IsDeliverable,
     disk_vars, cache_vars, main_vars, sorter_vars, result_vars, pool_vars
<1>5. CASE StartBuild
  <2>1. manifest' = manifest
    BY <1>5 DEF StartBuild, OpenCache, HashInv, TypeOK, CacheTypeOK
  <2>2. /\ output' = output /\ in_flight' = {} /\ done' = {}
        /\ needed_tasks' = NeededTasks(options'.clean_intermediates, manifest', hashes')
    BY <1>5 DEF StartBuild, disk_vars
  <2>3. in_flight = {}
    BY <1>5 DEF StartBuild, CalmInv
  <2>4. \A t \in DemandRoots(options'.clean_intermediates) \ needed_tasks' : output[t] # Absent
    BY <2>2, NeededRoots
  <2>5. \A c : DemandRoots(c)' = DemandRoots(c)
    BY DEF DemandRoots, IsDeliverable
  <2> QED BY <2>1, <2>2, <2>3, <2>4, <2>5 DEF ContentInv
<1>6. CASE Killed
  <2>1. FALSE
    BY <1>6 DEF Killed, CalmInv
  <2> QED BY <2>1
<1>7. CASE Join
  BY <1>7 DEF Join, ContentInv, CalmInv, TypeOK, CacheTypeOK, DemandRoots, IsDeliverable,
     disk_vars, cache_vars, main_vars, sorter_vars, result_vars, pool_vars
<1>8. ASSUME NEW t \in Tasks, FailForDependency(t)
      PROVE  ContentInv'
  <2>1. FALSE
    BY <1>8 DEF FailForDependency, Scheduling, DependencyFailed, CalmInv, TypeOK
  <2> QED BY <2>1
<1>9. ASSUME NEW t \in Tasks, Skip(t)
      PROVE  ContentInv'
  <2>1. t \in Tasks \ done /\ Retire(t) /\ pc # "idle" /\ pc' = pc
    BY <1>9 DEF Skip, Scheduling, TypeOK, WalkInv, Loop, main_vars
  <2>2. \A u \in in_flight' : \A d \in Deps[u] : output'[d] = output[d]
    <3>1. \A u \in in_flight' : u \in Tasks \ done /\ u # t
      BY <1>9 DEF Skip, Scheduling, TypeOK, WalkInv
    <3> QED BY <2>1, <3>1, RetireKeeps
  <2>3. \A u \in Tasks \ done : output'[u] = output[u]
    BY <2>1, <1>9, RetireOnlyDeletes DEF Skip, Scheduling, WalkInv, TypeOK
  <2>4. /\ \A u \in Tasks : output'[u] \in {Absent, output[u]}
        /\ \A u \in DemandRoots(options.clean_intermediates) : output'[u] = output[u]
    BY <2>1, DemandedStays DEF Retire, TypeOK, CacheTypeOK, DemandRoots
  <2>5. \A c : DemandRoots(c)' = DemandRoots(c)
    BY DEF DemandRoots, IsDeliverable
  <2>6. /\ done' = done \cup {t} /\ (~ options.dry_run => t \notin needed_tasks)
        /\ UNCHANGED <<options, needed_tasks, manifest, hashes, in_flight, worker, child>>
    BY <1>9 DEF Skip, Scheduling, Retire, main_vars, cache_vars
  <2>7. in_flight \subseteq Tasks \ done
    BY DEF WalkInv, TypeOK
  <2> QED BY <2>1, <2>2, <2>3, <2>4, <2>5, <2>6, <2>7 DEF ContentInv
<1>10. ASSUME NEW t \in Tasks, Submit(t)
      PROVE  ContentInv'
  <2>1. /\ t \in needed_tasks \ done /\ ~ options.dry_run /\ outcome = "open"
        /\ Deps[t] \subseteq done
    BY <1>10, GraphAssumption DEF Submit, Scheduling, TypeOK, WalkInv, Loop
  <2>2. \A d \in Deps[t] : output[d] = hashes[d]
    BY <2>1, SubmittedReadsCurrent
  <2>3. /\ worker' = [worker EXCEPT ![t] = "queued"] /\ in_flight' = in_flight \cup {t}
        /\ UNCHANGED <<output, child, manifest, hashes, pc, options, needed_tasks, done>>
    BY <1>10 DEF Submit, Scheduling, main_vars, cache_vars
  <2>4. child[t] # "ok"
    BY <1>10 DEF Submit, Scheduling, WorkerInv, WalkInv
  <2>5. \A c : DemandRoots(c)' = DemandRoots(c)
    BY DEF DemandRoots, IsDeliverable
  <2> QED BY <2>2, <2>3, <2>4, <2>5 DEF ContentInv, TypeOK
<1>11. ASSUME NEW t \in Tasks, RecordSuccess(t)
      PROVE  ContentInv'
  <2>1. t \in Tasks \ done /\ Retire(t) /\ pc # "idle" /\ pc' = pc
    BY <1>11 DEF RecordSuccess, Recording, TypeOK, WalkInv, Loop, main_vars
  <2>2. \A u \in in_flight' : \A d \in Deps[u] : output'[d] = output[d]
    <3>1. \A u \in in_flight' : u \in Tasks \ done /\ u # t
      BY <1>11 DEF RecordSuccess, Recording, TypeOK, WalkInv
    <3> QED BY <2>1, <3>1, RetireKeeps
  <2>3. \A u \in Tasks \ done : output'[u] = output[u]
    BY <2>1, <1>11, RetireOnlyDeletes DEF RecordSuccess, Recording, WalkInv, TypeOK
  <2>4. /\ \A u \in Tasks : output'[u] \in {Absent, output[u]}
        /\ \A u \in DemandRoots(options.clean_intermediates) : output'[u] = output[u]
    BY <2>1, DemandedStays DEF Retire, TypeOK, CacheTypeOK, DemandRoots
  <2>5. \A c : DemandRoots(c)' = DemandRoots(c)
    BY DEF DemandRoots, IsDeliverable
  <2>6. /\ done' = done \cup {t} /\ in_flight' = in_flight \ {t}
        /\ UNCHANGED <<options, needed_tasks, hashes, worker, child>>
    BY <1>11 DEF RecordSuccess, Recording, RecordInManifest, Retire, pool_vars
  <2>7. manifest'[t] = hashes[t] /\ \A u \in Tasks : u # t => manifest'[u] = manifest[u]
    BY <1>11 DEF RecordSuccess, RecordInManifest, TypeOK, CacheTypeOK
  <2>8. output[t] = hashes[t] /\ hashes[t] # Absent
    BY <1>11, BuiltIsRecipe, <2>1 DEF RecordSuccess, Recording, WalkInv, ContentInv
  <2>9. in_flight \subseteq Tasks \ done
    BY DEF WalkInv, TypeOK
  <2>10. (\A u \in Tasks \ in_flight :
             output[u] # Absent /\ manifest[u] # Unrecorded => output[u] = manifest[u])'
    BY <2>3, <2>4, <2>6, <2>7, <2>8 DEF ContentInv
  <2>11. (\A u \in in_flight : \A d \in Deps[u] : output[d] = hashes[d])'
    BY <2>2, <2>6 DEF ContentInv
  <2>12. (\A u \in in_flight :
             worker[u] = "succeeded" \/ (child[u] = "ok" /\ StdoutFile[u] # "output") =>
                 output[u] = hashes[u])'
    BY <2>3, <2>6, <2>9 DEF ContentInv
  <2>13. (pc # "idle" /\ ~ options.dry_run =>
             \A u \in DemandRoots(options.clean_intermediates) :
                 u \notin needed_tasks \/ u \in done => output[u] # Absent)'
    BY <2>1, <2>4, <2>5, <2>6, <2>8 DEF ContentInv
  <2> QED BY <2>10, <2>11, <2>12, <2>13 DEF ContentInv
<1>12. ASSUME NEW t \in Tasks, RecordFailureGoOn(t)
      PROVE  ContentInv'
  <2>1. FALSE
    BY <1>12 DEF RecordFailureGoOn, RecordFailure, Recording, CalmInv, TypeOK
  <2> QED BY <2>1
<1>13. ASSUME NEW t \in Tasks, RecordFailureAbort(t)
      PROVE  ContentInv'
  <2>1. FALSE
    BY <1>13 DEF RecordFailureAbort, RecordFailure, Recording, CalmInv, TypeOK
  <2> QED BY <2>1
<1>14. ASSUME NEW t \in Tasks, KillOne(t)
      PROVE  ContentInv'
  <2>1. FALSE
    BY <1>14 DEF KillOne, CalmInv
  <2> QED BY <2>1
<1>15. CASE Handling \/ InterruptSave
  <2>1. FALSE
    BY <1>15 DEF Handling, Interrupt, HandleInterrupt, InterruptHandler, InterruptSave,
       CutSave, CalmInv, NoFaults
  <2> QED BY <2>1
<1>16. CASE Crash
  <2>1. FALSE
    BY <1>16 DEF Crash, CalmInv, NoFaults
  <2> QED BY <2>1
<1>17. ASSUME NEW t \in Tasks, Begin(t)
      PROVE  ContentInv'
  BY <1>17 DEF Begin, Work, Advance, ContentInv, DemandRoots, IsDeliverable, TypeOK,
     Loop, disk_vars, cache_vars, main_vars, sorter_vars, result_vars, pool_vars,
     kill_vars, tally_vars
<1>18. ASSUME NEW t \in Tasks, Spawn(t)
      PROVE  ContentInv'
  BY <1>18 DEF Spawn, Work, Advance, ContentInv, DemandRoots, IsDeliverable, TypeOK,
     Loop, disk_vars, cache_vars, main_vars, sorter_vars, result_vars, pool_vars,
     kill_vars, tally_vars
<1>19. ASSUME NEW t \in Tasks, SpawnFails(t)
      PROVE  ContentInv'
  <2>1. FALSE
    BY <1>19 DEF SpawnFails, NoFaults
  <2> QED BY <2>1
<1>20. ASSUME NEW t \in Tasks, Register(t)
      PROVE  ContentInv'
  BY <1>20 DEF Register, Work, Advance, ContentInv, DemandRoots, IsDeliverable, TypeOK,
     Loop, disk_vars, cache_vars, main_vars, sorter_vars, result_vars, pool_vars,
     kill_vars, tally_vars
<1>21. ASSUME NEW t \in Tasks, KillDoomed(t)
      PROVE  ContentInv'
  BY <1>21 DEF KillDoomed, Work, Advance, ContentInv, DemandRoots, IsDeliverable,
     TypeOK, Loop, disk_vars, cache_vars, main_vars, sorter_vars, result_vars,
     pool_vars, kill_vars, tally_vars
<1>22. ASSUME NEW t \in Tasks, Communicate(t)
      PROVE  ContentInv'
  <2>1. child[t] = "ok" /\ UNCHANGED <<output, child, pc, options, needed_tasks, done, in_flight, hashes, manifest>>
    BY <1>22 DEF Communicate, Work, CalmInv, disk_vars, cache_vars, main_vars, sorter_vars,
        result_vars, pool_vars, kill_vars, tally_vars
  <2>2. \A u \in Tasks : u # t => worker'[u] = worker[u]
    BY <1>22 DEF Communicate, Advance, TypeOK
  <2>3. worker'[t] = "succeeded" => StdoutFile[t] # "output"
    BY <1>22 DEF Communicate, Advance, TypeOK
  <2>4. in_flight \subseteq Tasks /\ \A c : DemandRoots(c)' = DemandRoots(c)
    BY DEF TypeOK, DemandRoots, IsDeliverable
  <2> QED BY <2>1, <2>2, <2>3, <2>4 DEF ContentInv
<1>23. ASSUME NEW t \in Tasks, WriteStdout(t)
      PROVE  ContentInv'
  <2>1. t \in in_flight /\ pc # "idle"
    BY <1>23 DEF WriteStdout, Work, Advance, CalmInv, WorkerInv, Started, Finished
  <2>2. /\ \A u \in Tasks : u # t => output'[u] = output[u] /\ worker'[u] = worker[u] /\ child'[u] = child[u]
        /\ UNCHANGED <<pc, options, needed_tasks, done, in_flight, hashes, manifest>>
    BY <1>23 DEF WriteStdout, Work, Advance, TypeOK, CacheTypeOK, disk_vars, cache_vars,
        main_vars, sorter_vars, result_vars, pool_vars, kill_vars, tally_vars
  <2>3. worker'[t] = "succeeded" \/ (child'[t] = "ok" /\ StdoutFile[t] # "output") => output'[t] = hashes[t]
    BY <1>23, <2>1, BuiltIsRecipe, BuildAssumption DEF WriteStdout, Work, Advance, TypeOK,
        CacheTypeOK, WorkerInv, ContentInv, CalmInv, pool_vars
  <2>4. \A u \in in_flight : u \in Tasks \ done /\ t \notin Deps[u]
    BY <2>1 DEF WalkInv, TypeOK
  <2>5. t \notin done /\ in_flight \subseteq Tasks
    BY <2>1 DEF WalkInv, TypeOK
  <2>6. \A u \in DemandRoots(options.clean_intermediates) :
            ~ options.dry_run /\ (u \notin needed_tasks \/ u \in done) => output'[u] # Absent
    BY <1>23, <2>1, <2>2, BuiltType, ContentAssumption DEF WriteStdout, Work, Advance, TypeOK,
        CacheTypeOK, ContentInv, DemandRoots, IsDeliverable
  <2>7. \A c : DemandRoots(c)' = DemandRoots(c)
    BY DEF DemandRoots, IsDeliverable
  <2>8. (\A u \in in_flight : \A d \in Deps[u] : output[d] = hashes[d])'
    BY <2>2, <2>4, GraphAssumption DEF ContentInv
  <2>9. (\A u \in in_flight :
            worker[u] = "succeeded" \/ (child[u] = "ok" /\ StdoutFile[u] # "output") =>
                output[u] = hashes[u])'
    BY <2>2, <2>3, <2>5 DEF ContentInv
  <2>10. (\A u \in Tasks \ in_flight :
             output[u] # Absent /\ manifest[u] # Unrecorded => output[u] = manifest[u])'
    BY <2>1, <2>2 DEF ContentInv
  <2> QED BY <2>2, <2>6, <2>7, <2>8, <2>9, <2>10 DEF ContentInv
<1>24. ASSUME NEW t \in Tasks, WriteStdoutFails(t)
      PROVE  ContentInv'
  <2>1. FALSE
    BY <1>24 DEF WriteStdoutFails, NoFaults
  <2> QED BY <2>1
<1>25. ASSUME NEW t \in Tasks, PythonSucceeds(t)
      PROVE  ContentInv'
  <2>1. t \in in_flight /\ pc # "idle"
    BY <1>25 DEF PythonSucceeds, Work, Advance, CalmInv, WorkerInv, Started, Finished
  <2>2. /\ \A u \in Tasks : u # t => output'[u] = output[u] /\ worker'[u] = worker[u] /\ child'[u] = child[u]
        /\ UNCHANGED <<pc, options, needed_tasks, done, in_flight, hashes, manifest>>
    BY <1>25 DEF PythonSucceeds, Work, Advance, TypeOK, CacheTypeOK, disk_vars, cache_vars,
        main_vars, sorter_vars, result_vars, pool_vars, kill_vars, tally_vars
  <2>3. worker'[t] = "succeeded" \/ (child'[t] = "ok" /\ StdoutFile[t] # "output") => output'[t] = hashes[t]
    BY <1>25, <2>1, BuiltIsRecipe, BuildAssumption DEF PythonSucceeds, Work, Advance, TypeOK,
        CacheTypeOK, WorkerInv, ContentInv, CalmInv, pool_vars
  <2>4. \A u \in in_flight : u \in Tasks \ done /\ t \notin Deps[u]
    BY <2>1 DEF WalkInv, TypeOK
  <2>5. t \notin done /\ in_flight \subseteq Tasks
    BY <2>1 DEF WalkInv, TypeOK
  <2>6. \A u \in DemandRoots(options.clean_intermediates) :
            ~ options.dry_run /\ (u \notin needed_tasks \/ u \in done) => output'[u] # Absent
    BY <1>25, <2>1, <2>2, BuiltType, ContentAssumption DEF PythonSucceeds, Work, Advance,
        TypeOK, CacheTypeOK, ContentInv, DemandRoots, IsDeliverable
  <2>7. \A c : DemandRoots(c)' = DemandRoots(c)
    BY DEF DemandRoots, IsDeliverable
  <2>8. (\A u \in in_flight : \A d \in Deps[u] : output[d] = hashes[d])'
    BY <2>2, <2>4, GraphAssumption DEF ContentInv
  <2>9. (\A u \in in_flight :
            worker[u] = "succeeded" \/ (child[u] = "ok" /\ StdoutFile[u] # "output") =>
                output[u] = hashes[u])'
    BY <2>2, <2>3, <2>5 DEF ContentInv
  <2>10. (\A u \in Tasks \ in_flight :
             output[u] # Absent /\ manifest[u] # Unrecorded => output[u] = manifest[u])'
    BY <2>1, <2>2 DEF ContentInv
  <2> QED BY <2>2, <2>6, <2>7, <2>8, <2>9, <2>10 DEF ContentInv
<1>26. ASSUME NEW t \in Tasks, PythonFails(t)
      PROVE  ContentInv'
  <2>1. FALSE
    BY <1>26 DEF PythonFails, NoFaults
  <2> QED BY <2>1
<1>27. ASSUME NEW t \in Tasks, Timeout(t)
      PROVE  ContentInv'
  <2>1. FALSE
    BY <1>27 DEF Timeout, NoFaults
  <2> QED BY <2>1
<1>28. ASSUME NEW t \in Tasks, ToolWrites(t)
      PROVE  ContentInv'
  <2>1. t \in in_flight /\ pc # "idle"
    BY <1>28 DEF ToolWrites, Tool, CalmInv, WorkerInv, Started, Finished
  <2>2. /\ \A u \in Tasks : u # t => output'[u] = output[u] /\ worker'[u] = worker[u] /\ child'[u] = child[u]
        /\ UNCHANGED <<pc, options, needed_tasks, done, in_flight, hashes, manifest>>
    BY <1>28 DEF ToolWrites, Tool, TypeOK, CacheTypeOK, disk_vars, cache_vars, main_vars,
        sorter_vars, result_vars, pool_vars, kill_vars, tally_vars
  <2>3. worker'[t] = "succeeded" \/ (child'[t] = "ok" /\ StdoutFile[t] # "output") => output'[t] = hashes[t]
    BY <1>28, <2>1, BuiltIsRecipe, BuildAssumption DEF ToolWrites, Tool, TypeOK, CacheTypeOK,
        WorkerInv, ContentInv, CalmInv, pool_vars
  <2>4. \A u \in in_flight : u \in Tasks \ done /\ t \notin Deps[u]
    BY <2>1 DEF WalkInv, TypeOK
  <2>5. t \notin done /\ in_flight \subseteq Tasks
    BY <2>1 DEF WalkInv, TypeOK
  <2>6. \A u \in DemandRoots(options.clean_intermediates) :
            ~ options.dry_run /\ (u \notin needed_tasks \/ u \in done) => output'[u] # Absent
    BY <1>28, <2>1, <2>2, BuiltType, ContentAssumption DEF ToolWrites, Tool, TypeOK,
        CacheTypeOK, ContentInv, DemandRoots, IsDeliverable
  <2>7. \A c : DemandRoots(c)' = DemandRoots(c)
    BY DEF DemandRoots, IsDeliverable
  <2>8. (\A u \in in_flight : \A d \in Deps[u] : output[d] = hashes[d])'
    BY <2>2, <2>4, GraphAssumption DEF ContentInv
  <2>9. (\A u \in in_flight :
            worker[u] = "succeeded" \/ (child[u] = "ok" /\ StdoutFile[u] # "output") =>
                output[u] = hashes[u])'
    BY <2>2, <2>3, <2>5 DEF ContentInv
  <2>10. (\A u \in Tasks \ in_flight :
             output[u] # Absent /\ manifest[u] # Unrecorded => output[u] = manifest[u])'
    BY <2>1, <2>2 DEF ContentInv
  <2> QED BY <2>2, <2>6, <2>7, <2>8, <2>9, <2>10 DEF ContentInv
<1>29. ASSUME NEW t \in Tasks, ToolSucceeds(t)
      PROVE  ContentInv'
  <2>1. t \in in_flight /\ pc # "idle"
    BY <1>29 DEF ToolSucceeds, Tool, CalmInv, WorkerInv, Started, Finished
  <2>2. /\ \A u \in Tasks : u # t => output'[u] = output[u] /\ worker'[u] = worker[u] /\ child'[u] = child[u]
        /\ UNCHANGED <<pc, options, needed_tasks, done, in_flight, hashes, manifest>>
    BY <1>29 DEF ToolSucceeds, Tool, TypeOK, CacheTypeOK, disk_vars, cache_vars, main_vars,
        sorter_vars, result_vars, pool_vars, kill_vars, tally_vars
  <2>3. worker'[t] = "succeeded" \/ (child'[t] = "ok" /\ StdoutFile[t] # "output") => output'[t] = hashes[t]
    BY <1>29, <2>1, BuiltIsRecipe, BuildAssumption DEF ToolSucceeds, Tool, TypeOK, CacheTypeOK,
        WorkerInv, ContentInv, CalmInv, pool_vars
  <2>4. \A u \in in_flight : u \in Tasks \ done /\ t \notin Deps[u]
    BY <2>1 DEF WalkInv, TypeOK
  <2>5. t \notin done /\ in_flight \subseteq Tasks
    BY <2>1 DEF WalkInv, TypeOK
  <2>6. \A u \in DemandRoots(options.clean_intermediates) :
            ~ options.dry_run /\ (u \notin needed_tasks \/ u \in done) => output'[u] # Absent
    BY <1>29, <2>1, <2>2, BuiltType, ContentAssumption DEF ToolSucceeds, Tool, TypeOK,
        CacheTypeOK, ContentInv, DemandRoots, IsDeliverable
  <2>7. \A c : DemandRoots(c)' = DemandRoots(c)
    BY DEF DemandRoots, IsDeliverable
  <2>8. (\A u \in in_flight : \A d \in Deps[u] : output[d] = hashes[d])'
    BY <2>2, <2>4, GraphAssumption DEF ContentInv
  <2>9. (\A u \in in_flight :
            worker[u] = "succeeded" \/ (child[u] = "ok" /\ StdoutFile[u] # "output") =>
                output[u] = hashes[u])'
    BY <2>2, <2>3, <2>5 DEF ContentInv
  <2>10. (\A u \in Tasks \ in_flight :
             output[u] # Absent /\ manifest[u] # Unrecorded => output[u] = manifest[u])'
    BY <2>1, <2>2 DEF ContentInv
  <2> QED BY <2>2, <2>6, <2>7, <2>8, <2>9, <2>10 DEF ContentInv
<1>30. ASSUME NEW t \in Tasks, ToolFails(t)
      PROVE  ContentInv'
  <2>1. FALSE
    BY <1>30 DEF ToolFails, NoFaults
  <2> QED BY <2>1
<1>31. CASE UNCHANGED build_vars
  BY <1>1, <1>31 DEF build_vars, disk_vars, cache_vars, main_vars, sorter_vars,
     result_vars, pool_vars, kill_vars, tally_vars
<1> QED BY <1>1, <1>2, <1>3, <1>4, <1>5, <1>6, <1>7, <1>8, <1>9, <1>10, <1>11, <1>12,
   <1>13, <1>14, <1>15, <1>16, <1>17, <1>18, <1>19, <1>20, <1>21, <1>22, <1>23, <1>24,
   <1>25, <1>26, <1>27, <1>28, <1>29, <1>30, <1>31, SavesCut DEF Next, User, Main,
   Stop, Handling, Worker, Process

\* In a world without faults, however sources are edited and outputs deleted
\* between builds, every build leaves each output it has to keep up to date as the
\* present sources make it; what was skipped is current too (build_cache.py:148-187).
THEOREM UpToDate ==
    ASSUME NoFaults
    PROVE  Spec => []BuildIsUpToDate
<1> DEFINE IInv == /\ TypeOK /\ WalkInv /\ WorkerInv /\ SavingInv /\ ConsumersInv /\ InputsInv
                  /\ CalmInv /\ HashInv /\ EntriesInv /\ ContentInv
<1>1. Init => IInv
  <2> SUFFICES ASSUME Init PROVE IInv
    OBVIOUS
  <2>1. TypeOK /\ WalkInv /\ WorkerInv
    BY InitType, WalkInit
  <2>2. SavingInv /\ ConsumersInv /\ InputsInv
    BY DEF Init, SavingInv, ConsumersInv, Cleaning, InputsInv, InputsPresent, Started
  <2>3. CalmInv /\ HashInv /\ EntriesInv /\ ContentInv
    BY DEF Init, CalmInv, HashInv, EntriesInv, ContentInv
  <2> QED BY <2>1, <2>2, <2>3
<1>2. IInv /\ [Next]_build_vars => IInv'
  BY NextType, WalkStep, WorkerStep, SavingStep, ConsumersStep, InputsStep, CalmStep, HashStep,
     EntriesStep, ContentStep
<1>3. IInv => BuildIsUpToDate
  <2> SUFFICES ASSUME IInv, outcome = "complete", pc \in {"save", "join"}, ~ options.dry_run,
                      NEW t \in DemandRoots(options.clean_intermediates)
               PROVE  output[t] = hashes[t]
    BY DEF BuildIsUpToDate
  <2>1. done = Tasks /\ in_flight = {}
    BY DEF WalkInv, TypeOK
  <2>2. t \in Tasks
    BY DEF DemandRoots
  <2>3. manifest[t] = hashes[t] /\ output[t] # Absent
    BY <2>1, <2>2 DEF EntriesInv, ContentInv
  <2>4. manifest[t] # Unrecorded
    BY <2>2, <2>3, ContentAssumption DEF TypeOK, CacheTypeOK, Hash
  <2> QED BY <2>1, <2>2, <2>3, <2>4 DEF ContentInv
<1> HIDE DEF IInv
<1> QED BY <1>1, <1>2, <1>3, PTL DEF Spec

==============================================================================
