------------------------------- MODULE Testbench ------------------------------
(***************************************************************************)
(* The simulation that runs one architecture test on the processor         *)
(* (src/rtl/v1/tb_data_path.sv): the reset pulse, the cycle counter, and   *)
(* the process that watches the data memory for the byte a finished test   *)
(* stores at the halt address (RVMODEL_HALT_PASS and RVMODEL_HALT_FAIL of  *)
(* rvmodel_macros.h), prints an RVCP-SUMMARY line and ends the simulator.  *)
(*                                                                         *)
(* One step is one rising clock edge of the whole simulation.              *)
(***************************************************************************)
EXTENDS Pipeline

CONSTANTS
    HaltAddress,     \* 32'h2000_0000
    ResetEdges,      \* Rising edges while reset is high: 2, at 5 ns and 15 ns.
    MaxCycleCounts   \* Values of +MAX_CYCLES to explore.

ASSUME TestbenchAssumption ==
    /\ HaltAddress \in Word
    /\ ResetEdges \in Nat
    /\ MaxCycleCounts \subseteq Nat

VARIABLES
    reset_edges,      \* Rising edges still to come before reset falls.
    cycle_count,
    max_cycle_count,  \* The +MAX_CYCLES argument.
    summary,          \* The RVCP-SUMMARY lines printed so far; only PASSED can be
                      \* followed by another, TIMED OUT.
    exit              \* "running", or how the simulator process ended.

tb_vars == <<reset_edges, cycle_count, max_cycle_count, summary, exit>>
sim_vars == <<vars, tb_vars>>

reset == reset_edges > 0

TbInit ==
    /\ Init
    /\ reset_edges = ResetEdges
    /\ cycle_count = 0
    /\ max_cycle_count \in MaxCycleCounts
    /\ summary = {}
    /\ exit = "running"

\* Faulty variant: the limit is checked one cycle late.
LateByOne == cycle_count > max_cycle_count

Late == cycle_count >= max_cycle_count

\* Faulty variant: an unmapped halt byte is read as zero.
HaltLinesUnmapped(m) ==
    CASE ByteAt(m, HaltAddress) = 0 -> {"PASSED"}
      [] ByteAt(m, HaltAddress) = 1 -> {"FAILED"}
      [] OTHER -> {"INCORRECT"}

\* The verdict on the halt byte in memory m, if it is there.
HaltLines(m) ==
    CASE HaltAddress \notin DOMAIN m -> {}
      [] HaltAddress \in DOMAIN m /\ m[HaltAddress] = 0 -> {"PASSED"}
      [] HaltAddress \in DOMAIN m /\ m[HaltAddress] = 1 -> {"FAILED"}
      [] OTHER -> {"INCORRECT"}

\* Faulty variant: the time limit is checked before the halt byte.
WatchTimeoutFirst(m) ==
    LET halt == HaltLines(m)
    IN  IF Late THEN [lines |-> {"TIMED_OUT"}, exit |-> "fatal"]
        ELSE [lines |-> halt,
              exit |-> CASE halt = {} -> "running"
                         [] halt = {"PASSED"} -> "finish"
                         [] OTHER -> "fatal"]

\* The RVCP-SUMMARY lines and the end of the process, for the memory m that one
\* activation of the watching process sees.  $fatal ends the simulator at once;
\* after $finish the block runs on, so that a time-out in the same cycle is
\* reported as well.
Watch(m) ==
    LET halt == HaltLines(m)
    IN  IF Late /\ halt \subseteq {"PASSED"}
        THEN [lines |-> halt \cup {"TIMED_OUT"}, exit |-> "fatal"]
        ELSE [lines |-> halt,
              exit |-> CASE halt = {} -> "running"
                         [] halt = {"PASSED"} -> "finish"
                         [] OTHER -> "fatal"]

\* Faulty variant: the counter is not incremented.
CountNothing == cycle_count

\* The increment at the end of the block overrides cycle_count <= 0.
CountCycle == cycle_count + 1

\* The data path and the watching process are both triggered by the edge.
\* data_mem stores with a blocking assignment, so the process sees the memory
\* from before or from after the store of this edge, whichever is scheduled
\* first.
Edge ==
    /\ exit = "running"
    /\ IF reset THEN Reset ELSE Run
    /\ \E m \in {mem, NextMem} :
          LET seen == Watch(m)
          IN  /\ summary' = seen.lines
              /\ exit' = seen.exit
    /\ cycle_count' = CountCycle
    /\ reset_edges' = IF reset THEN reset_edges - 1 ELSE 0
    /\ UNCHANGED max_cycle_count

\* The clock (always #5 clk = ~clk) toggles until the simulation ends.
TbSpec == TbInit /\ [][Edge]_sim_vars /\ WF_sim_vars(Edge)

-----------------------------------------------------------------------------
Line == {"PASSED", "FAILED", "INCORRECT", "TIMED_OUT"}

\* Type invariant of the testbench's own state.
TbTypeOK ==
    /\ TypeOK
    /\ reset_edges \in 0 .. ResetEdges
    /\ cycle_count \in 0 .. max_cycle_count + 1
    /\ max_cycle_count \in MaxCycleCounts
    /\ summary \in SUBSET Line
    /\ exit \in {"running", "finish", "fatal"}

\* A simulation always ends, whatever the program does: with a verdict if the
\* program halts, else by the cycle limit (tb_data_path.sv's MAX_CYCLES).
SimulationEnds == <>(exit # "running")

OnlyTimedOut == summary = {"TIMED_OUT"}

\* A test whose halt byte is in the memory before an edge is never reported as
\* nothing but timed out: the halt byte is looked at first.
TimeoutNeverHidesHalt ==
    [][(HaltAddress \in DOMAIN mem) => ~OnlyTimedOut']_sim_vars

\* No verdict is printed for a program that has not halted, even while wrong-path
\* instructions or the reset are in the pipeline.
VerdictNeedsHalt ==
    summary # {} /\ ~OnlyTimedOut => HaltAddress \in DOMAIN mem
=============================================================================
