------------------------------- MODULE RunTests -------------------------------
(***************************************************************************)
(* The test runner (run_tests.py): a pool of workers runs one simulator    *)
(* command per ELF, each in a session of its own, ends it after a time     *)
(* limit and puts a verdict together from its exit status and the          *)
(* RVCP-SUMMARY lines it printed; the main process collects the verdicts   *)
(* in any order.                                                           *)
(*                                                                         *)
(* A command is two processes, as for run_v1.sh: the group leader, whose   *)
(* exit status the runner sees, and the simulator below it, which prints.  *)
(* A file is the set of its summary lines, each with the number of the run *)
(* whose simulator printed it.                                             *)
(***************************************************************************)
EXTENDS Naturals, FiniteSets

CONSTANTS
    Tests,           \* The ELF files found.
    Jobs,            \* args.jobs.
    HasSummaryFile,  \* Whether the command has a __SUMMARYFILE__ placeholder.
    Graceful,        \* Tests whose simulator handles SIGTERM and may go on.
    Printable,       \* What the simulators may print.
    Missing,         \* A file that does not exist; the report of no verdict.
    MaxRuns,         \* Bound on the number of runs of the runner.
    MaxInterrupts    \* Bound on the number of Ctrl-C.

\* What _SUMMARY_RE matches, and the testbench's other lines, which it does not.
Matched == {"PASSED", "FAILED", "SIGRUN"}
Verdicts == Matched \cup {"TIMED_OUT"}

ASSUME RunAssumption ==
    /\ IsFiniteSet(Tests) /\ Tests # {}
    /\ Jobs \in Nat \ {0}
    /\ HasSummaryFile \in BOOLEAN
    /\ Graceful \subseteq Tests /\ Printable \subseteq Verdicts
    /\ MaxRuns \in Nat /\ MaxInterrupts \in Nat

Lines == Verdicts \X (0 .. MaxRuns)

\* What run_test returned, the text it had read and the exit status it had seen.
Verdict == [result : {"pass", "fail"}, read : SUBSET Lines, status : {"zero", "nonzero"}]

ASSUME FileAssumption ==
    (\A f \in SUBSET Lines : f # Missing) /\ (\A v \in Verdict : v # Missing)

VARIABLES
    main,        \* "idle", "collecting", or how the last run ended.
    failed,      \* main()'s count of failing tests.
    entries,     \* Tests whose result was taken from imap_unordered.
    stage,       \* stage[t]: how far run_test has come.
    timed_out,   \* Tests whose time limit has expired.
    report,      \* report[t]: what run_test returned and what it had read.
    leader,      \* leader[t]: the group leader.
    simulator,   \* simulator[t]: the simulator below it.
    returncode,  \* returncode[t]: exit status of the leader.
    log_file,    \* log_file[t]
    summary_file,\* summary_file[t]
    opened,      \* Tests whose simulator has opened its summary file.
    remnants,    \* <<t, n>>: simulators of earlier runs n that outlived their run.
    runs, interrupts

run_vars == <<main, failed, entries>>
worker_vars == <<stage, timed_out, report>>
group_vars == <<leader, simulator, returncode>>
file_vars == <<log_file, summary_file, opened>>
count_vars == <<runs, interrupts>>
vars == <<run_vars, worker_vars, group_vars, file_vars, remnants, count_vars>>

Processes == {"none", "alive", "over"}
Files == {Missing} \cup SUBSET Lines
Reports == {Missing} \cup Verdict

TypeOK ==
    /\ main \in {"idle", "collecting", "exit_0", "exit_1", "interrupted"}
    /\ failed \in Nat
    /\ entries \subseteq Tests
    /\ stage \in [Tests -> {"none", "queued", "waiting", "expired", "grace", "overdue",
                            "killed", "ended", "returned"}]
    /\ timed_out \subseteq Tests
    /\ report \in [Tests -> Reports]
    /\ leader \in [Tests -> Processes] /\ simulator \in [Tests -> Processes]
    /\ returncode \in [Tests -> {"none", "zero", "nonzero"}]
    /\ log_file \in [Tests -> Files] /\ summary_file \in [Tests -> Files]
    /\ opened \subseteq Tests
    /\ remnants \subseteq Tests \X (0 .. MaxRuns)
    /\ runs \in 0 .. MaxRuns /\ interrupts \in 0 .. MaxInterrupts

Init ==
    /\ main = "idle" /\ failed = 0 /\ entries = {}
    /\ stage = [t \in Tests |-> "none"] /\ timed_out = {}
    /\ report = [t \in Tests |-> Missing]
    /\ leader = [t \in Tests |-> "none"] /\ simulator = [t \in Tests |-> "none"]
    /\ returncode = [t \in Tests |-> "none"]
    /\ log_file = [t \in Tests |-> Missing] /\ summary_file = [t \in Tests |-> Missing]
    /\ opened = {} /\ remnants = {}
    /\ runs = 0 /\ interrupts = 0

-----------------------------------------------------------------------------
(* main() *)

\* Simulators that still run when a new run starts are of an earlier one.
StartRun ==
    /\ main # "collecting" /\ runs < MaxRuns
    /\ runs' = runs + 1
    /\ main' = "collecting" /\ failed' = 0 /\ entries' = {}
    /\ stage' = [t \in Tests |-> "queued"] /\ timed_out' = {}
    /\ report' = [t \in Tests |-> Missing]
    /\ remnants' = remnants \cup {<<t, runs>> : t \in {u \in Tests : simulator[u] = "alive"}}
    /\ leader' = [t \in Tests |-> "none"] /\ simulator' = [t \in Tests |-> "none"]
    /\ opened' = {}
    /\ UNCHANGED <<returncode, log_file, summary_file, interrupts>>

\* The next result that imap_unordered yields.
Collect(t) ==
    /\ main = "collecting" /\ stage[t] = "returned" /\ t \notin entries
    /\ entries' = entries \cup {t}
    /\ failed' = IF report[t].result = "fail" THEN failed + 1 ELSE failed
    /\ UNCHANGED <<main, worker_vars, group_vars, file_vars, remnants, count_vars>>

\* Faulty variant: the pool is joined without taking the results.
FinishUncollected ==
    /\ main = "collecting" /\ \A t \in Tests : stage[t] = "returned"
    /\ main' = IF failed > 0 THEN "exit_1" ELSE "exit_0"
    /\ UNCHANGED <<failed, entries, worker_vars, group_vars, file_vars, remnants, count_vars>>

\* All results are in: the pool is joined, the summary rewritten.
Finish ==
    /\ main = "collecting" /\ entries = Tests
    /\ main' = IF failed > 0 THEN "exit_1" ELSE "exit_0"
    /\ UNCHANGED <<failed, entries, worker_vars, group_vars, file_vars, remnants, count_vars>>

\* Ctrl-C reaches the runner and its workers, but not the simulators' sessions.
Interrupt ==
    /\ main = "collecting" /\ interrupts < MaxInterrupts
    /\ interrupts' = interrupts + 1
    /\ main' = "interrupted"
    /\ stage' = [t \in Tests |-> "none"]
    /\ UNCHANGED <<failed, entries, timed_out, report, group_vars, file_vars, remnants, runs>>

-----------------------------------------------------------------------------
(* run_test(), in a worker of the pool *)

RunTest(t, from, to) ==
    /\ stage[t] = from
    /\ stage' = [stage EXCEPT ![t] = to]
    /\ UNCHANGED <<run_vars, remnants, count_vars>>

\* Faulty variant: the log of the last run is appended to.
StartAppending(t) ==
    /\ Cardinality({u \in Tests : stage[u] \notin {"none", "queued", "returned"}}) < Jobs
    /\ RunTest(t, "queued", "waiting")
    /\ log_file' = [log_file EXCEPT ![t] = IF @ = Missing THEN {} ELSE @]
    /\ leader' = [leader EXCEPT ![t] = "alive"]
    /\ returncode' = [returncode EXCEPT ![t] = "none"]
    /\ UNCHANGED <<timed_out, report, simulator, summary_file, opened>>

\* log_file.open("w") truncates, Popen starts the leader.
Start(t) ==
    /\ Cardinality({u \in Tests : stage[u] \notin {"none", "queued", "returned"}}) < Jobs
    /\ RunTest(t, "queued", "waiting")
    /\ log_file' = [log_file EXCEPT ![t] = {}]
    /\ leader' = [leader EXCEPT ![t] = "alive"]
    /\ returncode' = [returncode EXCEPT ![t] = "none"]
    /\ UNCHANGED <<timed_out, report, simulator, summary_file, opened>>

\* proc.wait() returns: the first, the one after SIGTERM or the last.
WaitReturns(t) ==
    /\ leader[t] = "over"
    /\ \E from \in {"waiting", "grace", "killed"} : RunTest(t, from, "ended")
    /\ UNCHANGED <<timed_out, report, group_vars, file_vars>>

\* TimeoutExpired; the leader may still end before it is signalled.
Expire(t) ==
    /\ leader[t] = "alive"
    /\ RunTest(t, "waiting", "expired")
    /\ timed_out' = timed_out \cup {t}
    /\ UNCHANGED <<report, group_vars, file_vars>>

Dies(process) == IF process = "alive" THEN "over" ELSE process

\* Faulty variant: only the leader is signalled, not its group.
TerminateLeader(t) ==
    /\ RunTest(t, "expired", "grace")
    /\ UNCHANGED <<timed_out, report, group_vars, file_vars>>

\* SIGTERM to the group; the leader of a graceful simulator is a process of
\* its own and goes at once or not.
Terminate(t) ==
    /\ RunTest(t, "expired", "grace")
    /\ simulator' = [simulator EXCEPT ![t] = IF t \in Graceful THEN @ ELSE Dies(@)]
    /\ UNCHANGED <<timed_out, report, leader, returncode, file_vars>>

\* Faulty variant: the wait after SIGTERM has no limit.
GraceForever(t) == FALSE

\* Faulty variant: a command that ignores SIGTERM is given up.
GraceGivesUp(t) ==
    /\ leader[t] = "alive"
    /\ RunTest(t, "grace", "ended")
    /\ UNCHANGED <<timed_out, report, group_vars, file_vars>>

\* The five seconds are over.
GraceExpires(t) ==
    /\ leader[t] = "alive"
    /\ RunTest(t, "grace", "overdue")
    /\ UNCHANGED <<timed_out, report, group_vars, file_vars>>

\* SIGKILL to the group.
Kill(t) ==
    /\ RunTest(t, "overdue", "killed")
    /\ leader' = [leader EXCEPT ![t] = Dies(@)]
    /\ simulator' = [simulator EXCEPT ![t] = Dies(@)]
    /\ returncode' = [returncode EXCEPT ![t] = IF leader[t] = "alive" THEN "nonzero" ELSE @]
    /\ UNCHANGED <<timed_out, report, file_vars>>

SummaryText(t) ==
    IF HasSummaryFile /\ summary_file[t] # Missing THEN summary_file[t] ELSE log_file[t]

Summaries(text) == {l[1] : l \in text} \cap Matched

TestFailed(t) ==
    \/ t \in timed_out
    \/ returncode[t] = "nonzero"
    \/ Summaries(SummaryText(t)) \cap {"FAILED", "SIGRUN"} # {}
    \/ Summaries(SummaryText(t)) = {}

Return(t) ==
    /\ RunTest(t, "ended", "returned")
    /\ report' = [report EXCEPT ![t] =
           [result |-> IF TestFailed(t) THEN "fail" ELSE "pass",
            read |-> SummaryText(t), status |-> returncode[t]]]
    /\ UNCHANGED <<timed_out, group_vars, file_vars>>

-----------------------------------------------------------------------------
(* The command *)

Command(t) == UNCHANGED <<run_vars, worker_vars, remnants, count_vars>>

StartSimulator(t) ==
    /\ leader[t] = "alive" /\ simulator[t] = "none"
    /\ stage[t] \notin {"grace", "overdue"}
    /\ simulator' = [simulator EXCEPT ![t] = "alive"]
    /\ UNCHANGED <<leader, returncode, file_vars>>
    /\ Command(t)

\* A summary file is the simulator's to create, or to empty, if it gets that far.
OpenSummary(t) ==
    /\ simulator[t] = "alive" /\ HasSummaryFile /\ t \notin opened
    /\ opened' = opened \cup {t}
    /\ summary_file' = [summary_file EXCEPT ![t] = {}]
    /\ UNCHANGED <<group_vars, log_file>>
    /\ Command(t)

\* A simulator prints to the log until it has opened a summary file.
Printed(t, line, redirected) ==
    /\ IF redirected
       THEN summary_file' = [summary_file EXCEPT ![t] = @ \cup {line}] /\ UNCHANGED log_file
       ELSE log_file' = [log_file EXCEPT ![t] = @ \cup {line}] /\ UNCHANGED summary_file
    /\ UNCHANGED opened

PrintLine(t) ==
    /\ simulator[t] = "alive"
    /\ \E v \in Printable : Printed(t, <<v, runs>>, t \in opened)
    /\ UNCHANGED group_vars
    /\ Command(t)

SimulatorEnds(t) ==
    /\ simulator[t] = "alive"
    /\ simulator' = [simulator EXCEPT ![t] = "over"]
    /\ UNCHANGED <<leader, returncode, file_vars>>
    /\ Command(t)

\* The leader waits for its simulator, unless a SIGTERM ends it.
LeaderEnds(t) ==
    /\ leader[t] = "alive"
    /\ simulator[t] # "alive" \/ stage[t] \in {"grace", "overdue"}
    /\ leader' = [leader EXCEPT ![t] = "over"]
    /\ \E status \in {"zero", "nonzero"} : returncode' = [returncode EXCEPT ![t] = status]
    /\ UNCHANGED <<simulator, file_vars>>
    /\ Command(t)

\* A simulator of an earlier run still has that run's file open, the log or the
\* summary file, until it ends; nothing but its silence tells when that is.
RemnantPrints(r) ==
    /\ r \in remnants
    /\ \E v \in Printable, redirected \in BOOLEAN :
           /\ redirected => HasSummaryFile /\ summary_file[r[1]] # Missing
           /\ Printed(r[1], <<v, r[2]>>, redirected)
    /\ UNCHANGED <<run_vars, worker_vars, group_vars, remnants, count_vars>>

-----------------------------------------------------------------------------
Runner(t) ==
    \/ Start(t) \/ WaitReturns(t) \/ Terminate(t) \/ Kill(t) \/ Return(t) \/ Collect(t)

Clock(t) == Expire(t) \/ GraceExpires(t)

Group(t) ==
    \/ StartSimulator(t) \/ OpenSummary(t) \/ PrintLine(t) \/ SimulatorEnds(t) \/ LeaderEnds(t)

Next ==
    \/ StartRun \/ Finish \/ Interrupt
    \/ \E t \in Tests : Runner(t) \/ Clock(t) \/ Group(t)
    \/ \E r \in remnants : RemnantPrints(r)

Spec == Init /\ [][Next]_vars

\* The runner's processes are scheduled and the clock goes on; nothing is
\* asked of the commands, which may hang.
FairSpec ==
    /\ Spec
    /\ WF_vars(Finish)
    /\ \A t \in Tests : WF_vars(Runner(t)) /\ WF_vars(Clock(t))

-----------------------------------------------------------------------------
\* A test passes only when its simulator of this run printed PASSED, printed
\* nothing against it and the command ended with status zero: no verdict is
\* taken from the files of an earlier run, and none before the simulator is
\* through.
PassIsEarned ==
    \A t \in Tests :
        report[t] # Missing /\ report[t].result = "pass" =>
            /\ <<"PASSED", runs>> \in report[t].read
            /\ report[t].read \subseteq {"PASSED", "TIMED_OUT"} \X {runs}
            /\ report[t].status = "zero"

\* Whichever of the two files a verdict is read from, every line it rests on was
\* printed by the test's simulator of this run, or by one that outlived an earlier
\* run, unless it is a summary file that this run's simulator had not opened.
VerdictsAreOwn ==
    [][\A t \in Tests :
           Return(t) /\ (HasSummaryFile /\ summary_file[t] # Missing => t \in opened) =>
               \A l \in report'[t].read : l[2] = runs \/ <<t, l[2]>> \in remnants]_vars

\* run_tests.py:229: "exit code 0 but no RVCP-SUMMARY line found" is a failure.
SilentTestFails ==
    \A t \in Tests :
        report[t] # Missing /\ report[t].result = "pass" => \E l \in report[t].read : l[2] = runs

\* When main() is through, every simulator it started has ended.
NothingLeftRunning ==
    main \in {"exit_0", "exit_1"} => \A t \in Tests :
        leader[t] = "over" /\ simulator[t] # "alive"

\* Every test is counted once, and the exit status is zero exactly when each
\* of them passed in this run.
ExitTellsTheTruth ==
    /\ failed = Cardinality({t \in entries : report[t].result = "fail"})
    /\ (main \in {"exit_0", "exit_1"}) =>
           /\ entries = Tests
           /\ (main = "exit_0") <=> (\A t \in Tests : report[t].result = "pass")

\* A run always ends, whatever the commands do.
RunEnds == main = "collecting" ~> main # "collecting"

=============================================================================
