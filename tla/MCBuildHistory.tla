---------------------------- MODULE MCBuildHistory ----------------------------
(***************************************************************************)
(* The chain of MCBuild with its history.                                  *)
(***************************************************************************)
EXTENDS MCBuild, BuildHistory

ElfOnly == {Elf}

\* Cleaning builds go on after failures, the others do not; one kind is dry.
HistoryOptions ==
    {[keep_going |-> k, dry_run |-> FALSE, clean_intermediates |-> k] : k \in BOOLEAN}
        \cup {[keep_going |-> FALSE, dry_run |-> TRUE, clean_intermediates |-> TRUE]}

=============================================================================
