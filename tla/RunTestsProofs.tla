---------------------------- MODULE RunTestsProofs ----------------------------
(***************************************************************************)
(* Proofs about the test runner, for every set of tests, number of jobs,   *)
(* runs and interrupts.  That a pass is earned by this run is proved for   *)
(* commands without a summary file of their own and simulators that a      *)
(* SIGTERM ends, as those of run_v1.sh are; for all others, which text of  *)
(* earlier runs a verdict may rest on.                                     *)
(***************************************************************************)
EXTENDS RunTests, FiniteSetTheorems, TLAPS

-----------------------------------------------------------------------------
(* Types *)

\* How far a worker has come says what its process group has done.
GroupInv ==
    \A t \in Tests :
        /\ stage[t] \notin {"none", "queued"} => leader[t] # "none"
        /\ stage[t] \in {"ended", "returned"} => leader[t] = "over"
        /\ leader[t] = "over" => returncode[t] # "none"
        /\ simulator[t] = "alive" => leader[t] # "none"
        /\ leader[t] # "none" => log_file[t] # Missing
        /\ t \in opened => HasSummaryFile /\ summary_file[t] # Missing

\* A remnant's files exist.
RemnantInv == \A r \in remnants : log_file[r[1]] # Missing


LEMMA InitType == Init => TypeOK /\ GroupInv /\ RemnantInv
BY RunAssumption DEF Init, TypeOK, Processes, Files, Reports, GroupInv, RemnantInv

LEMMA NextType == TypeOK /\ GroupInv /\ RemnantInv /\ [Next]_vars => TypeOK'
<1> SUFFICES ASSUME TypeOK, GroupInv, RemnantInv, [Next]_vars PROVE TypeOK'
  OBVIOUS
<1> USE DEF run_vars, worker_vars, group_vars, file_vars, count_vars, TypeOK, Processes
<1>1. CASE StartRun
  <2>1. runs \in 0 .. MaxRuns /\ runs' \in 0 .. MaxRuns
    BY <1>1, RunAssumption DEF StartRun
  <2>2. remnants' \subseteq Tests \X (0 .. MaxRuns)
    BY <1>1, <2>1 DEF StartRun
  <2>3. [t \in Tests |-> Missing] \in [Tests -> Reports]
    BY DEF Reports
  <2> QED BY <1>1, <2>1, <2>2, <2>3 DEF StartRun
<1>2. CASE Finish
  BY <1>2 DEF Finish
<1>3. CASE Interrupt
  BY <1>3, RunAssumption DEF Interrupt
<1>4. ASSUME NEW t \in Tests, Collect(t) PROVE TypeOK'
  BY <1>4 DEF Collect
<1>5. ASSUME NEW t \in Tests, Start(t) PROVE TypeOK'
  <2>1. log_file' \in [Tests -> Files]
    BY <1>5 DEF Start, Files
  <2> QED BY <1>5, <2>1 DEF Start, RunTest
<1>6. ASSUME NEW t \in Tests, WaitReturns(t) PROVE TypeOK'
  BY <1>6 DEF WaitReturns, RunTest
<1>7. ASSUME NEW t \in Tests, Terminate(t) PROVE TypeOK'
  BY <1>7 DEF Terminate, RunTest, Dies
<1>8. ASSUME NEW t \in Tests, Kill(t) PROVE TypeOK'
  BY <1>8 DEF Kill, RunTest, Dies
<1>9. ASSUME NEW t \in Tests, Return(t) PROVE TypeOK'
  <2> DEFINE new == [result |-> IF TestFailed(t) THEN "fail" ELSE "pass",
                     read |-> SummaryText(t), status |-> returncode[t]]
  <2>1. returncode[t] \in {"zero", "nonzero"} /\ log_file[t] \in SUBSET Lines
    BY <1>9 DEF Return, RunTest, GroupInv, Files
  <2>2. SummaryText(t) \in SUBSET Lines
    BY <2>1 DEF SummaryText, Files
  <2>3. new \in Reports
    BY <2>1, <2>2 DEF Reports, Verdict
  <2>4. report' = [report EXCEPT ![t] = new]
    BY <1>9 DEF Return
  <2> HIDE DEF new
  <2> QED BY <1>9, <2>3, <2>4 DEF Return, RunTest
<1>10. ASSUME NEW t \in Tests, Expire(t) PROVE TypeOK'
  BY <1>10 DEF Expire, RunTest
<1>11. ASSUME NEW t \in Tests, GraceExpires(t) PROVE TypeOK'
  BY <1>11 DEF GraceExpires, RunTest
<1>12. ASSUME NEW t \in Tests, StartSimulator(t) PROVE TypeOK'
  BY <1>12 DEF StartSimulator, Command
<1>13. ASSUME NEW t \in Tests, OpenSummary(t) PROVE TypeOK'
  <2>1. summary_file' \in [Tests -> Files]
    BY <1>13 DEF OpenSummary, Files
  <2> QED BY <1>13, <2>1 DEF OpenSummary, Command
<1>14. ASSUME NEW t \in Tests, PrintLine(t) PROVE TypeOK'
  <2>1. PICK v \in Printable : Printed(t, <<v, runs>>, t \in opened)
    BY <1>14 DEF PrintLine
  <2>2. <<v, runs>> \in Lines
    BY <2>1, RunAssumption DEF Lines
  <2>3. t \in opened => summary_file[t] \in SUBSET Lines
    BY DEF GroupInv, Files
  <2>4. log_file[t] \in SUBSET Lines
    BY <1>14 DEF PrintLine, GroupInv, Files
  <2>5. log_file' \in [Tests -> Files] /\ summary_file' \in [Tests -> Files]
    BY <2>1, <2>2, <2>3, <2>4 DEF Printed, Files
  <2> QED BY <1>14, <2>1, <2>5 DEF PrintLine, Printed, Command
<1>15. ASSUME NEW t \in Tests, SimulatorEnds(t) PROVE TypeOK'
  BY <1>15 DEF SimulatorEnds, Command
<1>16. ASSUME NEW t \in Tests, LeaderEnds(t) PROVE TypeOK'
  BY <1>16 DEF LeaderEnds, Command
<1>17. ASSUME NEW r \in remnants, RemnantPrints(r) PROVE TypeOK'
  <2>0. r[1] \in Tests /\ r[2] \in 0 .. MaxRuns
    OBVIOUS
  <2>1. PICK v \in Printable, redirected \in BOOLEAN :
            /\ redirected => summary_file[r[1]] # Missing
            /\ Printed(r[1], <<v, r[2]>>, redirected)
    BY <1>17 DEF RemnantPrints
  <2>2. <<v, r[2]>> \in Lines
    BY <2>1, <2>0, RunAssumption DEF Lines
  <2>3. redirected => summary_file[r[1]] \in SUBSET Lines
    BY <2>0, <2>1 DEF Files
  <2>4. log_file[r[1]] \in SUBSET Lines
    BY <2>0 DEF RemnantInv, Files
  <2>5. log_file' \in [Tests -> Files] /\ summary_file' \in [Tests -> Files]
    BY <2>1, <2>2, <2>3, <2>4, <2>0 DEF Printed, Files
  <2> QED BY <1>17, <2>1, <2>5 DEF RemnantPrints, Printed
<1>18. CASE UNCHANGED vars
  BY <1>18 DEF vars
<1> QED
  BY <1>1, <1>2, <1>3, <1>4, <1>5, <1>6, <1>7, <1>8, <1>9, <1>10, <1>11, <1>12, <1>13, <1>14, <1>15, <1>16, <1>17, <1>18 DEF Next, Runner, Clock, Group

\* A file that exists goes on existing when a line is written.
LEMMA FileKept ==
    ASSUME TypeOK, NEW u \in Tests, NEW t \in Tests, NEW v \in Printable,
           NEW n \in 0 .. MaxRuns, NEW redirected, Printed(t, <<v, n>>, redirected)
    PROVE  /\ log_file[u] # Missing => log_file'[u] # Missing
           /\ summary_file[u] # Missing => summary_file'[u] # Missing
<1>1. <<v, n>> \in Lines
  BY RunAssumption DEF Lines
<1>2. log_file[u] \in Files /\ summary_file[u] \in Files
  BY DEF TypeOK
<1>3. log_file[u] # Missing => (log_file[u] \cup {<<v, n>>}) \in SUBSET Lines
  BY <1>1, <1>2 DEF Files
<1>4. summary_file[u] # Missing => (summary_file[u] \cup {<<v, n>>}) \in SUBSET Lines
  BY <1>1, <1>2 DEF Files
<1> QED BY <1>3, <1>4, FileAssumption DEF Printed, TypeOK

LEMMA NextGroup ==
    TypeOK /\ GroupInv /\ RemnantInv /\ [Next]_vars => (GroupInv /\ RemnantInv)'
<1> SUFFICES ASSUME TypeOK, GroupInv, RemnantInv, [Next]_vars PROVE (GroupInv /\ RemnantInv)'
  OBVIOUS
<1> USE DEF run_vars, worker_vars, group_vars, file_vars, count_vars, TypeOK, Processes, GroupInv, RemnantInv
<1>1. CASE StartRun
  <2>1. \A r \in remnants' : log_file[r[1]] # Missing
    BY <1>1 DEF StartRun
  <2> QED BY <1>1, <2>1 DEF StartRun
<1>2. CASE Finish
  BY <1>2 DEF Finish
<1>3. CASE Interrupt
  BY <1>3 DEF Interrupt
<1>4. ASSUME NEW t \in Tests, Collect(t) PROVE (GroupInv /\ RemnantInv)'
  BY <1>4 DEF Collect
<1>5. ASSUME NEW t \in Tests, Start(t) PROVE (GroupInv /\ RemnantInv)'
  <2>1. log_file' = [log_file EXCEPT ![t] = {}] /\ {} # Missing
    BY <1>5, FileAssumption DEF Start
  <2> QED BY <1>5, <2>1 DEF Start, RunTest
<1>6. ASSUME NEW t \in Tests, WaitReturns(t) PROVE (GroupInv /\ RemnantInv)'
  BY <1>6 DEF WaitReturns, RunTest
<1>7. ASSUME NEW t \in Tests, Terminate(t) PROVE (GroupInv /\ RemnantInv)'
  BY <1>7 DEF Terminate, RunTest, Dies
<1>8. ASSUME NEW t \in Tests, Kill(t) PROVE (GroupInv /\ RemnantInv)'
  BY <1>8 DEF Kill, RunTest, Dies
<1>9. ASSUME NEW t \in Tests, Return(t) PROVE (GroupInv /\ RemnantInv)'
  BY <1>9 DEF Return, RunTest
<1>10. ASSUME NEW t \in Tests, Expire(t) PROVE (GroupInv /\ RemnantInv)'
  BY <1>10 DEF Expire, RunTest
<1>11. ASSUME NEW t \in Tests, GraceExpires(t) PROVE (GroupInv /\ RemnantInv)'
  BY <1>11 DEF GraceExpires, RunTest
<1>12. ASSUME NEW t \in Tests, StartSimulator(t) PROVE (GroupInv /\ RemnantInv)'
  BY <1>12 DEF StartSimulator, Command
<1>13. ASSUME NEW t \in Tests, OpenSummary(t) PROVE (GroupInv /\ RemnantInv)'
  <2>1. summary_file' = [summary_file EXCEPT ![t] = {}] /\ {} # Missing
    BY <1>13, FileAssumption DEF OpenSummary
  <2> QED BY <1>13, <2>1 DEF OpenSummary, Command
<1>14. ASSUME NEW t \in Tests, PrintLine(t) PROVE (GroupInv /\ RemnantInv)'
  <2>1. \A u \in Tests : log_file[u] # Missing => log_file'[u] # Missing
    BY <1>14, FileKept DEF PrintLine
  <2>2. \A u \in Tests : summary_file[u] # Missing => summary_file'[u] # Missing
    BY <1>14, FileKept DEF PrintLine
  <2> QED BY <1>14, <2>1, <2>2 DEF PrintLine, Printed, Command
<1>15. ASSUME NEW t \in Tests, SimulatorEnds(t) PROVE (GroupInv /\ RemnantInv)'
  BY <1>15 DEF SimulatorEnds, Command
<1>16. ASSUME NEW t \in Tests, LeaderEnds(t) PROVE (GroupInv /\ RemnantInv)'
  BY <1>16 DEF LeaderEnds, Command
<1>17. ASSUME NEW r \in remnants, RemnantPrints(r) PROVE (GroupInv /\ RemnantInv)'
  <2>1. r[1] \in Tests /\ r[2] \in 0 .. MaxRuns
    OBVIOUS
  <2>2. \A u \in Tests : log_file[u] # Missing => log_file'[u] # Missing
    BY <1>17, <2>1, FileKept DEF RemnantPrints
  <2>3. \A u \in Tests : summary_file[u] # Missing => summary_file'[u] # Missing
    BY <1>17, <2>1, FileKept DEF RemnantPrints
  <2> QED BY <1>17, <2>2, <2>3 DEF RemnantPrints, Printed
<1>18. CASE UNCHANGED vars
  BY <1>18 DEF vars
<1> QED
  BY <1>1, <1>2, <1>3, <1>4, <1>5, <1>6, <1>7, <1>8, <1>9, <1>10, <1>11, <1>12, <1>13, <1>14, <1>15, <1>16, <1>17, <1>18 DEF Next, Runner, Clock, Group

\* What the state of a run can be, whatever the commands do.
THEOREM TypeCorrect == Spec => []TypeOK
<1>1. TypeOK /\ GroupInv /\ RemnantInv /\ [Next]_vars => (TypeOK /\ GroupInv /\ RemnantInv)'
  BY NextType, NextGroup
<1> QED BY <1>1, InitType, PTL DEF Spec

-----------------------------------------------------------------------------
(* Verdicts are counted once *)

\* What Return reports.
LEMMA NewReport ==
    ASSUME TypeOK, GroupInv, NEW t \in Tests, Return(t)
    PROVE  /\ report'[t] # Missing
           /\ report'[t].result = (IF TestFailed(t) THEN "fail" ELSE "pass")
           /\ report'[t].read = SummaryText(t) /\ report'[t].status = returncode[t]
           /\ returncode[t] \in {"zero", "nonzero"}
<1> DEFINE new == [result |-> IF TestFailed(t) THEN "fail" ELSE "pass",
                   read |-> SummaryText(t), status |-> returncode[t]]
<1>1. returncode[t] \in {"zero", "nonzero"} /\ log_file[t] \in SUBSET Lines
  BY DEF TypeOK, GroupInv, Return, RunTest, Processes, Files
<1>2. SummaryText(t) \in SUBSET Lines
  BY <1>1 DEF SummaryText, TypeOK, Files
<1>3. new \in Verdict
  BY <1>1, <1>2 DEF Verdict
<1>4. report'[t] = new
  BY DEF Return, TypeOK
<1> QED BY <1>1, <1>3, <1>4, FileAssumption

\* A returned test of this run has a report.
ReportInv ==
    /\ \A t \in Tests : stage[t] = "returned" => report[t] # Missing
    /\ \A t \in Tests : report[t] # Missing => stage[t] \in {"returned", "none"}

LEMMA NextReport == TypeOK /\ GroupInv /\ ReportInv /\ [Next]_vars => ReportInv'
<1> SUFFICES ASSUME TypeOK, GroupInv, ReportInv, [Next]_vars PROVE ReportInv'
  OBVIOUS
<1> USE DEF run_vars, worker_vars, group_vars, file_vars, count_vars, TypeOK, ReportInv
<1>1. CASE StartRun
  BY <1>1 DEF StartRun
<1>2. CASE Finish
  BY <1>2 DEF Finish
<1>3. CASE Interrupt
  BY <1>3 DEF Interrupt
<1>4. ASSUME NEW t \in Tests, Collect(t) PROVE ReportInv'
  BY <1>4 DEF Collect
<1>5. ASSUME NEW t \in Tests, Start(t) PROVE ReportInv'
  BY <1>5 DEF Start, RunTest
<1>6. ASSUME NEW t \in Tests, WaitReturns(t) PROVE ReportInv'
  BY <1>6 DEF WaitReturns, RunTest
<1>7. ASSUME NEW t \in Tests, Terminate(t) PROVE ReportInv'
  BY <1>7 DEF Terminate, RunTest, Dies
<1>8. ASSUME NEW t \in Tests, Kill(t) PROVE ReportInv'
  BY <1>8 DEF Kill, RunTest, Dies
<1>9. ASSUME NEW t \in Tests, Return(t) PROVE ReportInv'
  <2>1. report'[t] # Missing
    BY <1>9, NewReport
  <2> QED BY <1>9, <2>1 DEF Return, RunTest
<1>10. ASSUME NEW t \in Tests, Expire(t) PROVE ReportInv'
  BY <1>10 DEF Expire, RunTest
<1>11. ASSUME NEW t \in Tests, GraceExpires(t) PROVE ReportInv'
  BY <1>11 DEF GraceExpires, RunTest
<1>12. ASSUME NEW t \in Tests, StartSimulator(t) PROVE ReportInv'
  BY <1>12 DEF StartSimulator, Command
<1>13. ASSUME NEW t \in Tests, OpenSummary(t) PROVE ReportInv'
  BY <1>13 DEF OpenSummary, Command
<1>14. ASSUME NEW t \in Tests, PrintLine(t) PROVE ReportInv'
  BY <1>14 DEF PrintLine, Command, Printed
<1>15. ASSUME NEW t \in Tests, SimulatorEnds(t) PROVE ReportInv'
  BY <1>15 DEF SimulatorEnds, Command
<1>16. ASSUME NEW t \in Tests, LeaderEnds(t) PROVE ReportInv'
  BY <1>16 DEF LeaderEnds, Command
<1>17. ASSUME NEW r \in remnants, RemnantPrints(r) PROVE ReportInv'
  BY <1>17 DEF RemnantPrints, Printed
<1>18. CASE UNCHANGED vars
  BY <1>18 DEF vars
<1> QED
  BY <1>1, <1>2, <1>3, <1>4, <1>5, <1>6, <1>7, <1>8, <1>9, <1>10, <1>11, <1>12, <1>13, <1>14, <1>15, <1>16, <1>17, <1>18 DEF Next, Runner, Clock, Group

CountInv ==
    /\ \A t \in entries : report[t] # Missing /\ stage[t] \in {"returned", "none"}
    /\ failed = Cardinality({t \in entries : report[t].result = "fail"})
    /\ main \in {"exit_0", "exit_1"} => entries = Tests /\ ((main = "exit_0") <=> (failed = 0))
    /\ main = "collecting" => \A t \in entries : stage[t] = "returned"

LEMMA NextCount == TypeOK /\ ReportInv /\ CountInv /\ [Next]_vars => CountInv'
<1> SUFFICES ASSUME TypeOK, ReportInv, CountInv, [Next]_vars PROVE CountInv'
  OBVIOUS
<1> USE DEF run_vars, worker_vars, group_vars, file_vars, count_vars, TypeOK, CountInv
<1>1. CASE StartRun
  <2>1. {t \in {} : report'[t].result = "fail"} = {}
    OBVIOUS
  <2> QED BY <1>1, <2>1, FS_EmptySet DEF StartRun
<1>2. CASE Finish
  <2>1. failed' = 0 <=> main' = "exit_0"
    BY <1>2 DEF Finish
  <2> QED BY <1>2, <2>1 DEF Finish
<1>3. CASE Interrupt
  BY <1>3 DEF Interrupt
<1>4. ASSUME NEW t \in Tests, Collect(t) PROVE CountInv'
  <2> DEFINE F == {u \in entries : report[u].result = "fail"}
  <2>1. IsFiniteSet(F)
    BY RunAssumption, FS_Subset
  <2>2. t \notin F /\ report' = report /\ entries' = entries \cup {t}
    BY <1>4 DEF Collect
  <2>3. Cardinality(F \cup {t}) = Cardinality(F) + 1
    BY <2>1, <2>2, FS_AddElement
  <2>4. {u \in entries' : report'[u].result = "fail"}
        = IF report[t].result = "fail" THEN F \cup {t} ELSE F
    BY <2>2
  <2>5. failed' = Cardinality({u \in entries' : report'[u].result = "fail"})
    BY <1>4, <2>3, <2>4 DEF Collect
  <2>6. report[t] # Missing
    BY <1>4 DEF Collect, ReportInv
  <2> QED BY <1>4, <2>2, <2>5, <2>6 DEF Collect
<1>5. ASSUME NEW t \in Tests, Start(t) PROVE CountInv'
  BY <1>5 DEF Start, RunTest
<1>6. ASSUME NEW t \in Tests, WaitReturns(t) PROVE CountInv'
  BY <1>6 DEF WaitReturns, RunTest
<1>7. ASSUME NEW t \in Tests, Terminate(t) PROVE CountInv'
  BY <1>7 DEF Terminate, RunTest, Dies
<1>8. ASSUME NEW t \in Tests, Kill(t) PROVE CountInv'
  BY <1>8 DEF Kill, RunTest, Dies
<1>9. ASSUME NEW t \in Tests, Return(t) PROVE CountInv'
  <2>1. t \notin entries /\ stage[t] = "ended"
    BY <1>9 DEF Return, RunTest
  <2>2. \A u \in entries : report'[u] = report[u] /\ stage'[u] = stage[u]
    BY <1>9, <2>1 DEF Return, RunTest
  <2>3. {u \in entries : report'[u].result = "fail"} = {u \in entries : report[u].result = "fail"}
    BY <2>2
  <2> QED BY <1>9, <2>2, <2>3 DEF Return, RunTest
<1>10. ASSUME NEW t \in Tests, Expire(t) PROVE CountInv'
  BY <1>10 DEF Expire, RunTest
<1>11. ASSUME NEW t \in Tests, GraceExpires(t) PROVE CountInv'
  BY <1>11 DEF GraceExpires, RunTest
<1>12. ASSUME NEW t \in Tests, StartSimulator(t) PROVE CountInv'
  BY <1>12 DEF StartSimulator, Command
<1>13. ASSUME NEW t \in Tests, OpenSummary(t) PROVE CountInv'
  BY <1>13 DEF OpenSummary, Command
<1>14. ASSUME NEW t \in Tests, PrintLine(t) PROVE CountInv'
  BY <1>14 DEF PrintLine, Command, Printed
<1>15. ASSUME NEW t \in Tests, SimulatorEnds(t) PROVE CountInv'
  BY <1>15 DEF SimulatorEnds, Command
<1>16. ASSUME NEW t \in Tests, LeaderEnds(t) PROVE CountInv'
  BY <1>16 DEF LeaderEnds, Command
<1>17. ASSUME NEW r \in remnants, RemnantPrints(r) PROVE CountInv'
  BY <1>17 DEF RemnantPrints, Printed
<1>18. CASE UNCHANGED vars
  BY <1>18 DEF vars
<1> QED
  BY <1>1, <1>2, <1>3, <1>4, <1>5, <1>6, <1>7, <1>8, <1>9, <1>10, <1>11, <1>12, <1>13, <1>14, <1>15, <1>16, <1>17, <1>18 DEF Next, Runner, Clock, Group

LEMMA InitCount == Init => ReportInv /\ CountInv
<1> SUFFICES ASSUME Init PROVE ReportInv /\ CountInv
  OBVIOUS
<1>1. {t \in entries : report[t].result = "fail"} = {}
  BY DEF Init
<1> QED BY <1>1, FS_EmptySet DEF Init, ReportInv, CountInv

\* The exit status is that of the verdicts.
THEOREM ExitTruthful == Spec => []ExitTellsTheTruth
<1>1. TypeOK /\ ReportInv /\ CountInv => ExitTellsTheTruth
  <2> SUFFICES ASSUME TypeOK, ReportInv, CountInv PROVE ExitTellsTheTruth
    OBVIOUS
  <2> DEFINE F == {t \in entries : report[t].result = "fail"}
  <2>1. IsFiniteSet(F)
    BY RunAssumption, FS_Subset DEF TypeOK
  <2>2. (failed = 0) <=> (F = {})
    BY <2>1, FS_EmptySet DEF CountInv
  <2>3. \A t \in entries : report[t].result \in {"pass", "fail"}
    BY DEF TypeOK, CountInv, Reports, Verdict
  <2>4. ASSUME main \in {"exit_0", "exit_1"}
        PROVE (main = "exit_0") <=> (\A t \in Tests : report[t].result = "pass")
    BY <2>2, <2>3, <2>4 DEF CountInv
  <2> QED BY <2>4 DEF ExitTellsTheTruth, CountInv
<1>2. TypeOK /\ GroupInv /\ RemnantInv /\ ReportInv /\ CountInv /\ [Next]_vars
      => (TypeOK /\ GroupInv /\ RemnantInv /\ ReportInv /\ CountInv)'
  BY NextType, NextGroup, NextReport, NextCount
<1> QED BY <1>1, <1>2, InitType, InitCount, PTL DEF Spec

-----------------------------------------------------------------------------
(* Processes *)

\* A simulator that SIGTERM ends does not outlive its leader.
LeaderInv ==
    \A t \in Tests :
        /\ leader[t] = "over" => simulator[t] # "alive"
        /\ stage[t] \in {"grace", "overdue", "killed"} => simulator[t] # "alive"
        /\ stage[t] = "killed" => leader[t] = "over"

LEMMA NextLeader ==
    Graceful = {} /\ TypeOK /\ GroupInv /\ LeaderInv /\ [Next]_vars => LeaderInv'
<1> SUFFICES ASSUME Graceful = {}, TypeOK, GroupInv, LeaderInv, [Next]_vars PROVE LeaderInv'
  OBVIOUS
<1> USE DEF run_vars, worker_vars, group_vars, file_vars, count_vars, TypeOK, Processes, GroupInv, LeaderInv
<1>1. CASE StartRun
  BY <1>1 DEF StartRun
<1>2. CASE Finish
  BY <1>2 DEF Finish
<1>3. CASE Interrupt
  BY <1>3 DEF Interrupt
<1>4. ASSUME NEW t \in Tests, Collect(t) PROVE LeaderInv'
  BY <1>4 DEF Collect
<1>5. ASSUME NEW t \in Tests, Start(t) PROVE LeaderInv'
  BY <1>5 DEF Start, RunTest
<1>6. ASSUME NEW t \in Tests, WaitReturns(t) PROVE LeaderInv'
  BY <1>6 DEF WaitReturns, RunTest
<1>7. ASSUME NEW t \in Tests, Terminate(t) PROVE LeaderInv'
  BY <1>7 DEF Terminate, RunTest, Dies
<1>8. ASSUME NEW t \in Tests, Kill(t) PROVE LeaderInv'
  BY <1>8 DEF Kill, RunTest, Dies
<1>9. ASSUME NEW t \in Tests, Return(t) PROVE LeaderInv'
  BY <1>9 DEF Return, RunTest
<1>10. ASSUME NEW t \in Tests, Expire(t) PROVE LeaderInv'
  BY <1>10 DEF Expire, RunTest
<1>11. ASSUME NEW t \in Tests, GraceExpires(t) PROVE LeaderInv'
  BY <1>11 DEF GraceExpires, RunTest
<1>12. ASSUME NEW t \in Tests, StartSimulator(t) PROVE LeaderInv'
  BY <1>12 DEF StartSimulator, Command
<1>13. ASSUME NEW t \in Tests, OpenSummary(t) PROVE LeaderInv'
  BY <1>13 DEF OpenSummary, Command
<1>14. ASSUME NEW t \in Tests, PrintLine(t) PROVE LeaderInv'
  BY <1>14 DEF PrintLine, Command, Printed
<1>15. ASSUME NEW t \in Tests, SimulatorEnds(t) PROVE LeaderInv'
  BY <1>15 DEF SimulatorEnds, Command
<1>16. ASSUME NEW t \in Tests, LeaderEnds(t) PROVE LeaderInv'
  BY <1>16 DEF LeaderEnds, Command
<1>17. ASSUME NEW r \in remnants, RemnantPrints(r) PROVE LeaderInv'
  BY <1>17 DEF RemnantPrints, Printed
<1>18. CASE UNCHANGED vars
  BY <1>18 DEF vars
<1> QED
  BY <1>1, <1>2, <1>3, <1>4, <1>5, <1>6, <1>7, <1>8, <1>9, <1>10, <1>11, <1>12, <1>13, <1>14, <1>15, <1>16, <1>17, <1>18 DEF Next, Runner, Clock, Group

\* A run in progress, or one that is through, has started all of its tests.
StageInv ==
    /\ main \in {"collecting", "exit_0", "exit_1"} => \A t \in Tests : stage[t] # "none"
    /\ \A t \in Tests : stage[t] = "queued" => main = "collecting"

LEMMA NextStage == TypeOK /\ CountInv /\ StageInv /\ [Next]_vars => StageInv'
<1> SUFFICES ASSUME TypeOK, CountInv, StageInv, [Next]_vars PROVE StageInv'
  OBVIOUS
<1> USE DEF run_vars, worker_vars, group_vars, file_vars, count_vars, TypeOK, StageInv
<1>1. CASE StartRun
  BY <1>1 DEF StartRun
<1>2. CASE Finish
  BY <1>2 DEF Finish, CountInv
<1>3. CASE Interrupt
  BY <1>3 DEF Interrupt
<1>4. ASSUME NEW t \in Tests, Collect(t) PROVE StageInv'
  BY <1>4 DEF Collect
<1>5. ASSUME NEW t \in Tests, Start(t) PROVE StageInv'
  BY <1>5 DEF Start, RunTest
<1>6. ASSUME NEW t \in Tests, WaitReturns(t) PROVE StageInv'
  BY <1>6 DEF WaitReturns, RunTest
<1>7. ASSUME NEW t \in Tests, Terminate(t) PROVE StageInv'
  BY <1>7 DEF Terminate, RunTest, Dies
<1>8. ASSUME NEW t \in Tests, Kill(t) PROVE StageInv'
  BY <1>8 DEF Kill, RunTest, Dies
<1>9. ASSUME NEW t \in Tests, Return(t) PROVE StageInv'
  BY <1>9 DEF Return, RunTest
<1>10. ASSUME NEW t \in Tests, Expire(t) PROVE StageInv'
  BY <1>10 DEF Expire, RunTest
<1>11. ASSUME NEW t \in Tests, GraceExpires(t) PROVE StageInv'
  BY <1>11 DEF GraceExpires, RunTest
<1>12. ASSUME NEW t \in Tests, StartSimulator(t) PROVE StageInv'
  BY <1>12 DEF StartSimulator, Command
<1>13. ASSUME NEW t \in Tests, OpenSummary(t) PROVE StageInv'
  BY <1>13 DEF OpenSummary, Command
<1>14. ASSUME NEW t \in Tests, PrintLine(t) PROVE StageInv'
  BY <1>14 DEF PrintLine, Command, Printed
<1>15. ASSUME NEW t \in Tests, SimulatorEnds(t) PROVE StageInv'
  BY <1>15 DEF SimulatorEnds, Command
<1>16. ASSUME NEW t \in Tests, LeaderEnds(t) PROVE StageInv'
  BY <1>16 DEF LeaderEnds, Command
<1>17. ASSUME NEW r \in remnants, RemnantPrints(r) PROVE StageInv'
  BY <1>17 DEF RemnantPrints, Printed
<1>18. CASE UNCHANGED vars
  BY <1>18 DEF vars
<1> QED
  BY <1>1, <1>2, <1>3, <1>4, <1>5, <1>6, <1>7, <1>8, <1>9, <1>10, <1>11, <1>12, <1>13, <1>14, <1>15, <1>16, <1>17, <1>18 DEF Next, Runner, Clock, Group

\* When the runner exits, what it started is over.
LEMMA ExitQuiet ==
    GroupInv /\ LeaderInv /\ StageInv /\ ReportInv /\ CountInv => NothingLeftRunning
BY DEF GroupInv, LeaderInv, StageInv, ReportInv, CountInv, NothingLeftRunning

SafeInv ==
    /\ TypeOK /\ GroupInv /\ RemnantInv /\ ReportInv /\ CountInv
    /\ LeaderInv /\ StageInv

LEMMA SafeStep == Graceful = {} => (Init => SafeInv) /\ (SafeInv /\ [Next]_vars => SafeInv')
<1>1. Init => LeaderInv /\ StageInv
  BY DEF Init, LeaderInv, StageInv
<1> QED BY <1>1, InitType, InitCount, NextType, NextGroup, NextReport, NextCount, NextLeader,
           NextStage DEF SafeInv

\* With simulators that SIGTERM ends, nothing of a run is left when it exits.
THEOREM NothingLeft == ASSUME Graceful = {} PROVE Spec => []NothingLeftRunning
<1>1. SafeInv => NothingLeftRunning
  BY ExitQuiet DEF SafeInv
<1>2. (Init => SafeInv) /\ (SafeInv /\ [Next]_vars => SafeInv')
  BY SafeStep
<1> QED BY <1>1, <1>2, PTL DEF Spec

-----------------------------------------------------------------------------
(* Whose lines a verdict rests on *)

\* Printed by the simulator of this run, or by one that outlived an earlier run.
Own(t, text) == \A l \in text : l[2] = runs \/ <<t, l[2]>> \in remnants

\* A log since its command started and a summary file since its simulator opened it.
OwnInv ==
    \A t \in Tests :
        /\ leader[t] # "none" => Own(t, log_file[t])
        /\ t \in opened => Own(t, summary_file[t])

LEMMA OwnKept ==
    ASSUME OwnInv, UNCHANGED <<file_vars, runs, remnants>>,
           \A t \in Tests : leader[t] = "none" => leader'[t] = "none"
    PROVE  OwnInv'
BY DEF OwnInv, Own, file_vars

\* Who writes is this run's simulator or a remnant.
LEMMA OwnWritten ==
    ASSUME TypeOK, OwnInv, NEW t \in Tests, NEW v, NEW n, NEW redirected,
           Printed(t, <<v, n>>, redirected), n = runs \/ <<t, n>> \in remnants,
           UNCHANGED <<leader, runs, remnants>>
    PROVE  OwnInv'
<1>1. ASSUME NEW text, Own(t, text) PROVE Own(t, text \cup {<<v, n>>})
  BY <1>1 DEF Own
<1>2. ASSUME NEW u \in Tests, leader'[u] # "none" PROVE Own(u, log_file'[u])
  <2>1. Own(u, log_file[u])
    BY <1>2 DEF OwnInv
  <2> QED BY <1>1, <2>1 DEF Printed, TypeOK
<1>3. ASSUME NEW u \in Tests, u \in opened' PROVE Own(u, summary_file'[u])
  <2>1. Own(u, summary_file[u])
    BY <1>3 DEF OwnInv, Printed
  <2> QED BY <1>1, <2>1 DEF Printed, TypeOK
<1> QED BY <1>2, <1>3 DEF OwnInv, Own

LEMMA NextOwn == TypeOK /\ OwnInv /\ [Next]_vars => OwnInv'
<1> SUFFICES ASSUME TypeOK, OwnInv, [Next]_vars PROVE OwnInv'
  OBVIOUS
<1> USE DEF run_vars, worker_vars, group_vars, count_vars
<1>1. CASE StartRun
  BY <1>1 DEF StartRun, OwnInv, Own
<1>2. CASE Finish
  BY <1>2, OwnKept DEF Finish
<1>3. CASE Interrupt
  BY <1>3, OwnKept DEF Interrupt
<1>4. ASSUME NEW t \in Tests, Start(t) PROVE OwnInv'
  <2>1. log_file' = [log_file EXCEPT ![t] = {}] /\ UNCHANGED <<summary_file, opened, runs, remnants>>
        /\ leader' = [leader EXCEPT ![t] = "alive"]
    BY <1>4 DEF Start, RunTest
  <2>2. \A u \in Tests : leader'[u] # "none" => Own(u, log_file'[u])
    BY <2>1 DEF OwnInv, Own, TypeOK
  <2> QED BY <2>1, <2>2 DEF OwnInv, Own
<1>5. ASSUME NEW t \in Tests, OpenSummary(t) PROVE OwnInv'
  <2>1. /\ summary_file' = [summary_file EXCEPT ![t] = {}]
        /\ opened' = opened \cup {t}
        /\ UNCHANGED <<log_file, leader, runs, remnants>>
    BY <1>5 DEF OpenSummary, Command
  <2>2. \A u \in Tests : u \in opened' => Own(u, summary_file'[u])
    BY <2>1 DEF OwnInv, Own, TypeOK
  <2> QED BY <2>1, <2>2 DEF OwnInv, Own
<1>6. ASSUME NEW t \in Tests, PrintLine(t) PROVE OwnInv'
  <2>1. PICK v \in Printable : Printed(t, <<v, runs>>, t \in opened)
    BY <1>6 DEF PrintLine
  <2> QED BY <1>6, <2>1, OwnWritten DEF PrintLine, Command
<1>7. ASSUME NEW r \in remnants, RemnantPrints(r) PROVE OwnInv'
  <2>1. PICK v \in Printable, redirected \in BOOLEAN : Printed(r[1], <<v, r[2]>>, redirected)
    BY <1>7 DEF RemnantPrints
  <2>2. r[1] \in Tests /\ r = <<r[1], r[2]>>
    BY DEF TypeOK
  <2> QED BY <1>7, <2>1, <2>2, OwnWritten DEF RemnantPrints
<1>8. ASSUME NEW t \in Tests,
             WaitReturns(t) \/ Terminate(t) \/ Return(t) \/ Collect(t) \/ Clock(t)
      PROVE  OwnInv'
  BY <1>8, OwnKept DEF WaitReturns, Terminate, Return, Collect, Clock, Expire, GraceExpires, RunTest
<1>9. ASSUME NEW t \in Tests,
             Kill(t) \/ StartSimulator(t) \/ SimulatorEnds(t) \/ LeaderEnds(t)
      PROVE  OwnInv'
  <2>1. \A u \in Tests : leader[u] = "none" => leader'[u] = "none"
    BY <1>9 DEF Kill, Dies, StartSimulator, SimulatorEnds, LeaderEnds, TypeOK
  <2> QED BY <1>9, <2>1, OwnKept DEF Kill, StartSimulator, SimulatorEnds, LeaderEnds, RunTest, Command
<1>10. CASE UNCHANGED vars
  BY <1>10, OwnKept DEF vars
<1> QED
  BY <1>1, <1>2, <1>3, <1>4, <1>5, <1>6, <1>7, <1>8, <1>9, <1>10 DEF Next, Runner, Group

\* Whatever the command, its simulators and the user do: whichever of its two files
\* it is read from, no verdict rests on the text of an earlier run, but for survivors
\* and unopened summary files (run_tests.py:133 and 183-186).
THEOREM VerdictsOwned == Spec => VerdictsAreOwn
<1> DEFINE A == \A t \in Tests :
             Return(t) /\ (HasSummaryFile /\ summary_file[t] # Missing => t \in opened) =>
                 \A l \in report'[t].read : l[2] = runs \/ <<t, l[2]>> \in remnants
<1>1. TypeOK /\ GroupInv /\ OwnInv /\ [Next]_vars => [A]_vars
  <2> SUFFICES ASSUME TypeOK, GroupInv, OwnInv, NEW t \in Tests, Return(t),
                      HasSummaryFile /\ summary_file[t] # Missing => t \in opened
               PROVE  Own(t, report'[t].read)
    BY DEF Own
  <2>1. report'[t].read = SummaryText(t)
    BY NewReport
  <2>2. leader[t] # "none"
    BY DEF Return, RunTest, GroupInv
  <2>3. Own(t, SummaryText(t))
    BY <2>2 DEF SummaryText, OwnInv
  <2> QED BY <2>1, <2>3
<1>2. Init => OwnInv
  BY DEF Init, OwnInv
<1>3. /\ Init => TypeOK /\ GroupInv /\ RemnantInv
      /\ TypeOK /\ GroupInv /\ RemnantInv /\ OwnInv /\ [Next]_vars
           => (TypeOK /\ GroupInv /\ RemnantInv /\ OwnInv)'
  BY InitType, NextType, NextGroup, NextOwn
<1> QED BY <1>1, <1>2, <1>3, PTL DEF Spec, VerdictsAreOwn

-----------------------------------------------------------------------------
(* A pass is of this run *)

\* Without Ctrl-C no simulator survives its run, and the log of a started test
\* holds lines of this run only.
FreshInv ==
    /\ main # "interrupted" /\ interrupts = 0
    /\ main = "idle" => \A t \in Tests : leader[t] = "none" /\ simulator[t] = "none"
    /\ remnants = {}
    /\ \A t \in Tests : stage[t] = "queued" => leader[t] = "none"
    /\ \A t \in Tests : leader[t] # "none" => log_file[t] \subseteq Verdicts \X {runs}
    /\ PassIsEarned

LEMMA NextFresh ==
    ASSUME ~HasSummaryFile, MaxInterrupts = 0
    PROVE  SafeInv /\ FreshInv /\ [Next]_vars => FreshInv'
<1> SUFFICES ASSUME TypeOK, GroupInv, ReportInv, CountInv, LeaderInv, StageInv, NothingLeftRunning, FreshInv, [Next]_vars
             PROVE  FreshInv'
  BY ExitQuiet DEF SafeInv
<1> USE DEF run_vars, worker_vars, group_vars, file_vars, count_vars, TypeOK, FreshInv, PassIsEarned
<1>1. CASE StartRun
  <2>1. \A t \in Tests : simulator[t] # "alive"
    BY <1>1 DEF StartRun, NothingLeftRunning, StageInv
  <2> QED BY <1>1, <2>1 DEF StartRun
<1>2. CASE Finish
  BY <1>2 DEF Finish
<1>3. CASE Interrupt
  BY <1>3 DEF Interrupt
<1>4. ASSUME NEW t \in Tests, Collect(t) PROVE FreshInv'
  BY <1>4 DEF Collect
<1>5. ASSUME NEW t \in Tests, Start(t) PROVE FreshInv'
  <2>1. log_file' = [log_file EXCEPT ![t] = {}] /\ leader' = [leader EXCEPT ![t] = "alive"]
        /\ main = "collecting"
    BY <1>5 DEF Start, RunTest, StageInv
  <2>2. \A u \in Tests : leader'[u] # "none" => log_file'[u] \subseteq Verdicts \X {runs}
    BY <2>1
  <2> QED BY <1>5, <2>1, <2>2 DEF Start, RunTest
<1>6. ASSUME NEW t \in Tests, WaitReturns(t) PROVE FreshInv'
  BY <1>6 DEF WaitReturns, RunTest
<1>7. ASSUME NEW t \in Tests, Terminate(t) PROVE FreshInv'
  BY <1>7 DEF Terminate, RunTest, Dies
<1>8. ASSUME NEW t \in Tests, Kill(t) PROVE FreshInv'
  BY <1>8 DEF Kill, RunTest, Dies
<1>9. ASSUME NEW t \in Tests, Return(t) PROVE FreshInv'
  <2>1. report'[t].result = "pass" =>
          /\ <<"PASSED", runs>> \in report'[t].read
          /\ report'[t].read \subseteq {"PASSED", "TIMED_OUT"} \X {runs}
          /\ report'[t].status = "zero"
    <3> SUFFICES ASSUME report'[t].result = "pass"
                 PROVE  /\ <<"PASSED", runs>> \in report'[t].read
                        /\ report'[t].read \subseteq {"PASSED", "TIMED_OUT"} \X {runs}
                        /\ report'[t].status = "zero"
      OBVIOUS
    <3> DEFINE read == log_file[t]
    <3>1. report'[t].read = read /\ report'[t].status = returncode[t] /\ ~TestFailed(t)
          /\ returncode[t] \in {"zero", "nonzero"}
      BY <1>9, NewReport DEF SummaryText
    <3>2. read \subseteq Verdicts \X {runs}
      BY <1>9 DEF Return, RunTest, GroupInv
    <3>3. Summaries(read) \cap {"FAILED", "SIGRUN"} = {} /\ Summaries(read) # {}
          /\ returncode[t] = "zero"
      BY <3>1 DEF TestFailed, SummaryText
    <3> HIDE DEF read
    <3>4. \A l \in read : l = <<l[1], runs>> /\ l[1] \in {"PASSED", "TIMED_OUT"}
      <4> SUFFICES ASSUME NEW l \in read
                   PROVE  l = <<l[1], runs>> /\ l[1] \in {"PASSED", "TIMED_OUT"}
        OBVIOUS
      <4>1. PICK v \in Verdicts : l = <<v, runs>>
        BY <3>2
      <4>2. v \in Matched => v \in Summaries(read)
        BY <4>1 DEF Summaries
      <4>3. v \in {"PASSED", "TIMED_OUT"}
        BY <3>3, <4>2 DEF Verdicts, Matched
      <4> QED BY <4>1, <4>3
    <3>5. \E l \in read : l[1] = "PASSED"
      BY <3>3, <3>4 DEF Summaries, Matched
    <3>6. <<"PASSED", runs>> \in read
      BY <3>4, <3>5
    <3>7. read \subseteq {"PASSED", "TIMED_OUT"} \X {runs}
      BY <3>4
    <3> QED BY <3>1, <3>3, <3>6, <3>7
  <2>2. \A u \in Tests \ {t} : report'[u] = report[u]
    BY <1>9 DEF Return
  <2> QED BY <1>9, <2>1, <2>2 DEF Return, RunTest
<1>10. ASSUME NEW t \in Tests, Expire(t) PROVE FreshInv'
  BY <1>10 DEF Expire, RunTest
<1>11. ASSUME NEW t \in Tests, GraceExpires(t) PROVE FreshInv'
  BY <1>11 DEF GraceExpires, RunTest
<1>12. ASSUME NEW t \in Tests, StartSimulator(t) PROVE FreshInv'
  BY <1>12 DEF StartSimulator, Command
<1>13. ASSUME NEW t \in Tests, OpenSummary(t) PROVE FreshInv'
  BY <1>13 DEF OpenSummary, Command
<1>14. ASSUME NEW t \in Tests, PrintLine(t) PROVE FreshInv'
  <2>1. PICK v \in Verdicts : log_file' = [log_file EXCEPT ![t] = log_file[t] \cup {<<v, runs>>}]
    BY <1>14, RunAssumption DEF PrintLine, Printed, GroupInv
  <2>2. log_file[t] \subseteq Verdicts \X {runs}
    BY <1>14 DEF PrintLine, GroupInv
  <2>3. \A u \in Tests : leader[u] # "none" => log_file'[u] \subseteq Verdicts \X {runs}
    BY <2>1, <2>2
  <2> QED BY <1>14, <2>3 DEF PrintLine, Printed, Command
<1>15. ASSUME NEW t \in Tests, SimulatorEnds(t) PROVE FreshInv'
  BY <1>15 DEF SimulatorEnds, Command
<1>16. ASSUME NEW t \in Tests, LeaderEnds(t) PROVE FreshInv'
  BY <1>16 DEF LeaderEnds, Command
<1>17. ASSUME NEW r \in remnants, RemnantPrints(r) PROVE FreshInv'
  BY <1>17 DEF RemnantPrints, Printed
<1>18. CASE UNCHANGED vars
  BY <1>18 DEF vars
<1> QED
  BY <1>1, <1>2, <1>3, <1>4, <1>5, <1>6, <1>7, <1>8, <1>9, <1>10, <1>11, <1>12, <1>13, <1>14, <1>15, <1>16, <1>17, <1>18 DEF Next, Runner, Clock, Group

\* With a command that prints to the log and that SIGTERM ends, and no Ctrl-C, a
\* test passes only on a PASSED of its own simulator and a zero exit status.
THEOREM PassEarned ==
    ASSUME ~HasSummaryFile, Graceful = {}, MaxInterrupts = 0
    PROVE  Spec => []PassIsEarned
<1>1. Init => FreshInv
  BY RunAssumption DEF Init, FreshInv, PassIsEarned
<1>2. FreshInv => PassIsEarned
  BY DEF FreshInv
<1>3. (Init => SafeInv) /\ (SafeInv /\ [Next]_vars => SafeInv')
  BY SafeStep
<1>4. SafeInv /\ FreshInv /\ [Next]_vars => FreshInv'
  BY NextFresh
<1> QED BY <1>1, <1>2, <1>3, <1>4, PTL DEF Spec

=============================================================================
