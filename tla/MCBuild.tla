------------------------------- MODULE MCBuild -------------------------------
(***************************************************************************)
(* Instances of Build.  The graph is a cut of what gen_compile_tasks       *)
(* makes in a debug build: an intermediate with two consumers, the         *)
(* reference model's run (a subprocess with a log) or the Python step on   *)
(* its signature, and an objdump listing (a subprocess whose standard      *)
(* output is the task's output).                                           *)
(***************************************************************************)
EXTENDS Build, TLC

Sig == "sig"
Elf == "elf"
Listing == "listing"
Report == "report"

\* sig -> {elf, report}, elf -> listing.
TreeTasks == {Sig, Elf, Report, Listing}
TreeDeps == (Sig :> {}) @@ (Elf :> {Sig}) @@ (Report :> {Sig}) @@ (Listing :> {Elf})
TreeInputs == [t \in TreeTasks |-> IF t \in {Sig, Elf} THEN {"test"} ELSE {}]
TreeKind == [t \in TreeTasks |-> IF t = Report THEN "python" ELSE "subprocess"]
TreeStdout ==
    (Sig :> "log") @@ (Elf :> "none") @@ (Report :> "none") @@ (Listing :> "output")
TreeConfig == [t \in TreeTasks |-> IF t = Listing THEN "listings" ELSE "rv32i"]

\* sig -> elf -> listing, the last below a config dir of its own.
ChainTasks == {Sig, Elf, Listing}
ChainDeps == (Sig :> {}) @@ (Elf :> {Sig}) @@ (Listing :> {Elf})
ChainInputs == (Sig :> {"model"}) @@ (Elf :> {"test"}) @@ (Listing :> {})
ChainKind == [t \in ChainTasks |-> "subprocess"]
ChainStdout == (Sig :> "log") @@ (Elf :> "none") @@ (Listing :> "output")
ChainConfig == (Sig :> "rv32i") @@ (Elf :> "rv32i") @@ (Listing :> "listings")

SigOnly == {Sig}
AllOptions == [keep_going : BOOLEAN, dry_run : {FALSE}, clean_intermediates : BOOLEAN]

=============================================================================
