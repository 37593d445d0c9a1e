------------------------------ MODULE BuildCache ------------------------------
(***************************************************************************)
(* The staleness cache of the ACT build (framework/src/act/build_cache.py) *)
(* over the task graph of build_types.py: recipe hashes, the manifests     *)
(* they are compared with, and the tasks a build has to run.               *)
(*                                                                         *)
(* The content of a file is abstracted to what it was made from: the set   *)
(* of <<source, version>> pairs that went into it.  A recipe hash is a     *)
(* Merkle hash over the same pairs, so an output is current exactly when   *)
(* its content equals its task's recipe.                                   *)
(***************************************************************************)
EXTENDS Naturals, FiniteSets

CONSTANTS
    Tasks,         \* Keys of the build tasks: their primary output paths.
    Deps,          \* Deps[t]: keys of the tasks that t depends on.
    Sources,       \* Files that no task produces.
    Inputs,        \* Inputs[t]: the extra_inputs of t.
    Versions,      \* Contents that a source file takes.
    Intermediate,  \* Tasks with intermediate=True.
    ConfigOf,      \* ConfigOf[t]: the config dir that t's outputs are below.
    Absent,        \* Content of an output that does not exist.
    Corrupt,       \* Content of a half-written output, or of one made from such.
    Unrecorded     \* A manifest without an entry for the task.

Made == SUBSET (Sources \X Versions)
Content == {Absent, Corrupt} \cup Made
Hash == Made
Configs == {ConfigOf[t] : t \in Tasks}

ASSUME GraphAssumption ==
    /\ Deps \in [Tasks -> SUBSET Tasks]
    /\ Inputs \in [Tasks -> SUBSET Sources]
    /\ Intermediate \subseteq Tasks
    /\ DOMAIN ConfigOf = Tasks
    /\ IsFiniteSet(Tasks)
    \* No cycles: TopologicalSorter.prepare() would have raised CycleError.
    /\ \A S \in SUBSET Tasks : S # {} => \E t \in S : Deps[t] \cap S = {}

ASSUME ContentAssumption ==
    /\ \A m \in Made : m # Absent /\ m # Corrupt /\ m # Unrecorded
    /\ Absent # Corrupt

VARIABLES
    source,    \* source[s]: the version that source file s has now.
    output,    \* output[t]: the content of the outputs of t.
    stored,    \* stored[t]: t's entry in the manifest file of its config dir.
    hashes,    \* The recipe hashes, fixed when the build starts.
    manifest,  \* The manifests as the running build holds them in memory.
    updated    \* Config dirs whose manifest gained an entry.

disk_vars == <<source, output, stored>>
cache_vars == <<hashes, manifest, updated>>

CacheTypeOK ==
    /\ source \in [Sources -> Versions]
    /\ output \in [Tasks -> Content]
    /\ stored \in [Tasks -> {Unrecorded} \cup Hash]
    /\ hashes \in [Tasks -> Hash]
    /\ manifest \in [Tasks -> {Unrecorded} \cup Hash]
    /\ updated \subseteq Configs

-----------------------------------------------------------------------------
OwnInputs(t) == {<<s, source[s]>> : s \in Inputs[t]}

\* t and the tasks it depends on, directly or not.
Cone(t) ==
    {a \in Tasks : \A S \in SUBSET Tasks :
         (t \in S /\ \A u \in S : Deps[u] \subseteq S) => a \in S}

\* The recipe of every task, from the present content of its sources: the
\* hash of a dependency is folded in, so it covers all inputs of the cone.
Recipe == [t \in Tasks |-> UNION {OwnInputs(a) : a \in Cone(t)}]

\* What running t now makes of the files as they are.
Built(t) ==
    IF \E d \in Deps[t] : output[d] \in {Absent, Corrupt}
    THEN Corrupt
    ELSE OwnInputs(t) \cup UNION {output[d] : d \in Deps[t]}

\* Faulty variant: existence alone makes a task satisfied.
SatisfiedByExistence(t, entries, recipe) == output[t] # Absent

\* All outputs exist and the entry recorded for them is today's recipe.
IsSatisfied(t, entries, recipe) ==
    /\ output[t] # Absent
    /\ entries[t] = recipe[t]

IsDeliverable(t, clean) == ~ (t \in Intermediate /\ clean)

DemandRoots(clean) ==
    {t \in Tasks : IsDeliverable(t, clean) \/ \A u \in Tasks : t \notin Deps[u]}

\* The smallest set with the unsatisfied roots and, for each member, its
\* unsatisfied dependencies.
NeededTasks(clean, entries, recipe) ==
    LET Unsatisfied == {t \in Tasks : ~ IsSatisfied(t, entries, recipe)}
        Closed(N) == /\ DemandRoots(clean) \cap Unsatisfied \subseteq N
                     /\ \A t \in N : Deps[t] \cap Unsatisfied \subseteq N
    IN  {t \in Unsatisfied : \A N \in SUBSET Unsatisfied : Closed(N) => t \in N}

-----------------------------------------------------------------------------
\* BuildCache(...): hash the sources as they are, read the manifests.
OpenCache ==
    /\ hashes' = Recipe
    /\ manifest' = stored
    /\ updated' = {}

RecordInManifest(t) ==
    /\ manifest' = [manifest EXCEPT ![t] = hashes[t]]
    /\ updated' = updated \cup {ConfigOf[t]}
    /\ UNCHANGED hashes

\* One config dir's manifest, replaced as a whole by a rename.
SaveManifest(c) ==
    /\ c \in updated
    /\ stored' = [t \in Tasks |-> IF ConfigOf[t] = c THEN manifest[t] ELSE stored[t]]
    /\ updated' = updated \ {c}
    /\ UNCHANGED <<source, output, hashes, manifest>>

\* mkdir, write_text or replace raises: the old manifest stays, and those of
\* the config dirs still in updated with it.
SaveManifestFails(c) ==
    /\ c \in updated
    /\ UNCHANGED <<disk_vars, cache_vars>>

=============================================================================
