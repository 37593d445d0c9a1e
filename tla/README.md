# bonato-2 in TLA+

A specification of the bonato-2 processor and of the programs that test it, kept beside the code.
The v1 processor is a five-stage RV32I pipeline in SystemVerilog (`src/rtl/v1`); around it stand a
testbench and a vendored copy of the RISC-V architectural test suite (`src/riscv-arch-test`) with a
generator of test programs, a parallel build executor and a parallel test runner, all in Python.

Four questions organise the project:

* **Pipeline.** Does overlapping instructions ever show? Forwarding, stalls, flushes and
  write-through have to make a machine that works on five instructions at once look like one that
  works on one. Stated as a refinement (`DataPath` implements `Isa`).
* **Generator.** Does every generated test still know where its registers and pointers are, however
  they were requested, moved and returned?
* **Build.** Whatever fails, hangs, is interrupted or edited: is every task run once and in order,
  are intermediates there as long as they are needed, does an abort reach every subprocess, and is
  what a build believes to be up to date so?
* **Runner.** Is a PASS earned by this run's simulation, and does every run end with the exit status
  of its verdicts, whatever the simulators do?

Each is checked with TLC on small instances and the safety part proved with TLAPS for every value of
the constants.

## 1. The system

| part | code | state it keeps | operations |
| --- | --- | --- | --- |
| data path | `rtl/v1/data_path.sv`, `pc.sv`, `instr_mem.sv`, `regfile.sv` | pc, the pipeline registers `if_id_q`, `id_ex_q`, `ex_mem_q`, `mem_wb_q`, the register file, the rom | one clock edge; one clock edge in reset |
| decoder, ALU, comparator | `decoder.sv`, `alu.sv`, `comparator.sv` | none (combinational) | functions of their inputs |
| forwarding unit | `forwarding.sv` | none | chooses the source of each operand in execute |
| hazard unit | `hazard.sv` | none | stall and flush signals |
| data memory | `data_mem.sv` | `mem`, the width latched at time zero, the latch `mem_out` | combinational read, clocked store |
| testbench | `tb_data_path.sv` | reset, `cycle_count`, what has been printed, the process itself | reset pulse, halt-byte watcher, cycle limit |
| test configuration | `riscv-arch-test/config/cores/bonato/bonato-2-v1` | temporary hex file | halt macros; elf to hex, run simulator, clean up |
| test runner | `riscv-arch-test/run_tests.py` | one process group per test, log and summary files, counters | start, time out, terminate, kill, judge, collect, exit |
| build executor | `riscv-arch-test/framework/src/act/build.py` | sorter, futures, process groups, shutdown event, outputs, logs | schedule, execute, record, retire, clean up, abort, join |
| build cache | `build_cache.py`, `build_types.py` | recipe hashes, manifests | open, decide what is needed, record, save |
| test generator | `riscv-arch-test/generators/testgen/src/testgen` (`data/registers.py`, `formatters`, `generate/unpriv.py`, `io/writer.py`) | the register file of the allocator, the testcases of a file | consume, draw, format, return, split into files, destroy |
| ACT front end | rest of `framework/` | none that outlives a call | read configurations, emit tasks |
| v2, v3 | `rtl/v2`, `rtl/v3` | - | a port list and notes; no behaviour yet |

How they interact. The decoder feeds ID/EX; the hazard unit looks at the decoder's output (the
instruction in decode), at ID/EX and at the branch decision made in execute, and gates the pc, IF/ID
and ID/EX; the forwarding unit compares ID/EX with EX/MEM and MEM/WB; write-back writes the register
file that decode is reading in the same cycle. The ALU result is the branch target of fetch in the
same cycle. The testbench loads the rom, pulses reset, and at each clock edge looks into the data
memory *by hierarchical reference*, at the very edge at which the memory stores with a blocking
assignment. It ends the simulator, whose exit status and output `run_tests.py` turns into a verdict, through
`run_v1.sh`. The program it runs was written by the generator, one file per chunk of testcases, and
compiled by the build: a signature is taken from a reference model (an intermediate task), then the
self-checking ELF is linked, then listings are made. Generator, build and runner share only files;
build and runner are started again and again on the same ones.

What is hard, and what correctness means in each part:

* **Pipeline.** Up to five instructions interleave in every cycle. Each operand must be the value
  of program order (`ForwardedOperandsCurrent`), no wrong-path instruction may take effect and none
  may be lost or repeated (`StagesInProgramOrder`), the two units must together leave no case open
  (`UnforwardableNeverNeeded`), stalls must be short and end (`StallIsOneCycle`, `BubblesDrain`,
  `Progress`), and all of it must amount to the programmer's view (`ImplementsIsa`, `ImplementsIsaRun`).
* **Reset.** Only the pc and the pipeline registers see `rst`; memory and register file finish what
  they were given. A reset must leave a state from which the program runs correctly (`IInv`), having
  lost no more than the one result that was between EX/MEM and MEM/WB (`Restart` in `Isa`).
* **Testbench.** Two processes race at each edge, `$finish` does not stop its block, and only a
  counter ends the simulation of a program that does not halt.
* **Build.** The main thread, the pool's workers and the subprocesses interleave. A worker may start a
  process while the main thread shuts down (`ShutdownReachesAll`, `AbortEnds`); dependencies settle in any
  order (`OrderedWalk`); counters decide when an intermediate is deleted (`InputsPresent`,
  `CleanLeavesNothing`); a failure aborts in the middle of a batch of results (`SummaryAddsUp`), and what
  was counted is saved on every way out, one manifest after the other, with an interrupt or an error in
  between (`RecordedIsSaved`); manifests outlive builds, sources change between them and cleaning removes
  what was recorded (`UpToDateUnlessLost`); and nothing may wait for what will never come
  (`EveryBuildEnds`).
* **Runner.** The time limit races the command's own end, and its grace period a leader that ends
  before its simulator (`NothingLeftRunning`); files outlive runs and simulators may outlive an
  interrupted one (`PassIsEarned`, `VerdictsAreOwn`, `ExitTellsTheTruth`); a command may hang (`RunEnds`).
* **Generator.** A long sequence of legal requests moves pointers and the temporary pair out of each
  other's way, formatters reserve registers their instruction implies, and pointers carry over from
  file to file in the generator but not in the generated programs (`RegistersAccounted`,
  `NeverRaises`, `PointersHold`, `OperandsIntact`, `FilesComplete`).

`PROJECT.json` lists these hazards with the source lines where they bite.

## 2. Modules

| module | what it is | code |
| --- | --- | --- |
| `Encodings` | words, registers, instructions, control encodings | `encodings.svh` |
| `Decoder` | `Decode`: instruction to control signals | `decoder.sv` |
| `Forwarding` | `GetForward` | `forwarding.sv` |
| `Hazard` | `LoadUse`, `HazardSignals` | `hazard.sv` |
| `DataMem` | `MemRead`, `MemWrite` on partial functions from addresses to bytes | `data_mem.sv` |
| `Alu`, `Comparator` | the execute stage's units | `alu.sv`, `comparator.sv` |
| `DataPath` | the state machine: `Init`, `Run` and `Reset` | `data_path.sv`, `pc.sv`, `instr_mem.sv`, `regfile.sv` |
| `Isa` | abstract specification: one instruction per step | what `DataPath` promises |
| `Pipeline` | invariants, refinement mapping, the inductive invariant | properties of `DataPath` |
| `Testbench` | `DataPath` composed with the testbench | `tb_data_path.sv` |
| `HaltMacro` | the halt macros, and which programs are tests that end in one | `rvmodel_macros.h` |
| `BuildCache` | recipe hashes, manifests, the tasks a build has to run | `build_cache.py`, `build_types.py` |
| `Build` | main thread, workers, subprocesses, user; extends `BuildCache` | `build.py` |
| `BuildHistory` | `Build` with a history variable: the outputs the manifests know nothing of | `build.py`, `build_cache.py` |
| `DagRun` | abstract specification: one walk over a task graph | what `build()` promises |
| `RunTests` | collector, workers, command process groups, files | `run_tests.py`, `run_v1.sh` |
| `Registers` | the integer register allocator | `data/registers.py` |
| `TestGen` | coverpoint loop, draws, formatters, files, and a machine that runs the generated code | `generate/`, `formatters/`, `asm/`, `io/` of `testgen` |
| `MCPipeline`, `MCTestbench`, `MCBuild`, `MCBuildHistory`, `MCRunTests`, `MCTestGen` | instances for TLC | - |
| `PipelineProofs`, `RefinementProofs`, `TestbenchProofs`, `BuildProofs`, `BuildHistoryProofs`, `RunTestsProofs`, `TestGenProofs`, `TestGenRoomProofs` | theorems and proofs | - |

### The processor

**State.** A step is one rising clock edge, and the variables of `DataPath` are exactly the clocked
state: `pc` is `pc_i.currentpc`, `if_id` ... `mem_wb` are the `_q` structs, `registers`, `mem` and
`rom` the arrays. All combinational signals are definitions over them, named after the signal or
after what it is (`Rs1Forwarded`, `AluResult`, `BranchTaken`, `NextPc`, `Executed` = `ex_mem_d`,
`Signals` = the outputs of `hazard_i`). `Run` is an edge with `rst` low, `Reset` one with `rst` high;
both include the writes of register file and memory (`WriteState`), which ignore `rst`. `id_ex` keeps
the decoder's outputs together in the field `ctl`.

**Data.** A word is four bytes of `ByteSize` values; the hardware has `ByteSize = 256`, the
instances 2 or 4. Addresses wrap, sums lose their carry and bit fields are divisions, at every width.
An instruction is the record of the fields the decoder slices; the immediate is one field, as the
decoder has gathered it. `OTHER` is every undefined opcode.

**As built.** Two things are modelled as the code is and not as its notes say (section 6): the
comparator has rs1 on both ports, and the access width is `Funct3AtInit`, the funct3 the port had
when the memory's declaration initialisers ran. `Isa` leaves both open as parameters
(`BranchCondition`, `AccessFunct3`), so that the refinement says exactly what the pipeline adds and
nothing about these. `mem_out` is a latch: while a store is in the memory stage it keeps the word of
the cycle before, which is `mem_wb.mem_out`.

**Abstract specification and mapping.** An instruction takes effect when it leaves execute. `ArchPc`
is the pc of the oldest instruction that has not (in execute, else in decode, else being fetched);
`ArchRegs` overlays the register file with what MEM/WB and EX/MEM are going to write; `NextMem` is
the memory with the store in EX/MEM done. Under this mapping a clock edge is one `Step` of `Isa` or,
when a bubble is in execute, a stutter; a reset is `Restart`, which goes back to address zero, keeps
the memory and may spoil one register.

**Testbench.** `Edge` is one clock edge of the whole simulation: the data path's `Reset` or `Run`,
and one activation of the watching process, which sees the memory from before or from after the store
of that edge. `Watch` gives the lines it prints and how the process ends: `$fatal` at once, `$finish`
only at the end of the time step, so that `PASSED` can be followed by `TIMED OUT` and a failing exit.
The counter counts the two reset edges too: the assignment under `reset` is overridden by the
increment at the end of the block (`CountCycle`). `HaltMacro` adds how a test ends (`HaltMacroAt`, four
instructions) and the tests whose verdict can be told from their text (`HaltsAt`): a body of any length
that computes, loads, branches and jumps to itself or to its end, and there a halt macro.

### The build

One step of the main thread (`pc`) handles one ready task (`FailForDependency`, `Skip`, `Submit`) or
one finished future (`RecordSuccess`, `RecordFailureGoOn`, `RecordFailureAbort`), each including the
retirement of the task and the deletion of intermediates it was the last consumer of (`Retire`), as
the code does between two points where another thread can matter. `GetReady`, `Complete`, `Scheduled`
and `Wait` are the loop around them, `KillOne` ... `Join` the way out: `kill_active` takes its snapshot
of process groups under the lock and signals one after the other, while workers go on. `worker[t]` is
how far `execute_task` has come, with a step between starting a process and registering it;
`child[t]` is the process, which writes its output in two steps (opened and half-written, complete).
A tool that fails leaves whatever it had written. Between builds the user edits sources and deletes
outputs; disk and manifest files stay.

A build can be stopped wherever the main thread is before it joins the pool. `Interrupt` is a Ctrl-C in the
`try` block, the `kill_active` of a failure included; `HandleInterrupt` is the handler's `kill_active`, and
`InterruptHandler` a second Ctrl-C that meets the handler, after which nothing more is signalled or
cancelled. `cache.save()` runs in the `finally` clause, outside the `try` block: `InterruptSave` is a Ctrl-C
in it and `SaveFails` an `OSError` of `_save_manifest` (`SaveManifestFails`); both leave the manifests that
were still to be written as they were. `Crash` is the end of the machine and everything on it. `cut`
remembers what was cut short in the present build, the handler (`"kill"`) or the save (`"save"`), and three
properties name it: `ShutdownReachesAll` and `AbortEnds` let a second Ctrl-C spare registered subprocesses,
`RecordedIsSaved` lets a save that was cut short miss the manifests it had not reached.

The content of a file is abstracted to what it was made from: the set of source versions that went
into it. A recipe hash is a Merkle hash over the same set (`Recipe`), so that *current* means content
equal to recipe. `graphlib.TopologicalSorter` and the pool are modelled by what `build()` uses of
them. `NeededTasks` is stated as a least set instead of the code's two passes. `DagStatus` maps a
build to `DagRun`: `OrderedWalk` says that a task is attempted at most once, after everything it
depends on is settled and well, inherits failures, and that a walk is complete only when every task is
settled.

`BuildHistory` adds one variable that the code does not have and that no guard reads. A task is in
`lost` from the moment its execution starts (`BeginLosing`) until it is recorded (`RecordFound`),
unless the output of a lost task was among what it read; a crash and a save cut short lose what was
recorded and not yet saved (`StopLosing`). Every step is a step of `Build` (`HistoryWatches`).

### The runner

`stage[t]` is how far `run_test` has come for a test: waiting, time expired, grace period after
SIGTERM, grace expired, killed, ended, returned. The command is two processes, as for `run_v1.sh`: a
group leader, whose exit status the runner sees, and the simulator below it, which prints. `Graceful`
tests have a simulator that handles SIGTERM and may go on. A file is the set of summary lines in it,
each with the number of the run whose simulator printed it, so that a verdict from stale text can be
told from an earned one; `TIMED_OUT` is the testbench's line that the runner's pattern does not match.
Log files are emptied by the runner when a command starts, summary files only by the simulator that
opens them (`OpenSummary`). A simulator prints to its standard output, which is the log, and with a
summary file to that from when it has opened it (`Printed`); the runner reads the summary file if there is
one and else the log (`SummaryText`). Simulators that survive a run (`remnants`) may go on writing
into either of its files; when they end is not modelled, since nothing but their silence shows it.
`VerdictsAreOwn` says of both files what a verdict can rest on: of the log, because the runner empties
it (`Start`), of the summary file, because and as far as a simulator has.

### The generator

`Registers` models `IntegerRegisterFile` by sets: an operation that chooses at random is the set of
register files it may leave, the empty set a `ValueError`. `TestGen` runs the loop over one
instruction's coverpoints: `Consume` (the coverpoint fixes an operand to a register and requests it),
`Generate` (the other operands are drawn, the formatter writes the testcase, the registers return, the
testcase goes into the present or the next file), `Destroy`. The assembly text is modelled by what it
does: an abstract machine runs it as it is generated and knows of each register what it holds
(`junk`, `sig`, `data`, `value`, `result`, `target`); each use of a register that does not hold what the code
relies on clears `intact`. A testcase may rely on nothing but the pointers of what ran before it
(`Forget`). The eight formatters are those that move, imply or give back registers, and `R` for all
that do none of it; the formatter of CI instructions has two cases, `c.addi16sp` (`ADDI16SP`), which
gives back its operand for sp, and the others (`CI`). `write_test_file` writes every file that has
testcases; `written` says of the last one what its teardown found and whether it was `misresumed` (section
6). The coverpoint generators are absent from the repository; `Consume` follows the
pattern of docs/DeveloperGuide.md:335-391.

Definitions named as a *faulty variant* are used by no specification: each is a plausible mistake in
the definition that follows it, recorded in `PROJECT.json` with the property that catches it.

## 3. Runs

All with TLC. Each run asks one question; the properties are those named in its cfg.

| run | instance | shows |
| --- | --- | --- |
| `core` | every program of 4 instructions out of 12 (all opcodes, an undefined one, loads with and without sign extension), two power-up register files: 550,879 states, depth 773 | the type invariant, the forwarding, stall and flush invariants, that bubbles drain, the refinement of `Isa`, and under fairness of the clock that instructions keep reaching execute |
| `core_reset` | every program of 4 out of 8 instructions, a reset possible at any edge: 275,352 states | the inductive invariant and the refinement with `Restart` |
| `testbench` | halting tests with every halt byte behind two arbitrary instructions and in front of the opposite macro, tests that never halt, cycle limits around the halt: 17,468 states | the simulation ends, with the test's own verdict |
| `branch_operands` | as `core` | finding 1 |
| `access_width` | programs of loads and stores of every width | finding 2 |
| `build` | the graph sig -> {elf, report}, elf -> listing; two workers, two builds, `keep_going` and `clean_intermediates` on and off, every task may fail or hang, one interrupt (in the loop or of the save), failing save or crash, and an interrupt of the handler: 349,643 states | the refinement of `DagRun`, inputs and clean-up, shutdown, counting and saving; every build ends, an aborted one even if no tool does |
| `build_edits` | the chain sig -> elf -> listing; three builds, with cleaning and `keep_going`, without, and dry; the elf may fail or hang, one interrupt, failing save or crash, two edits or deletions between builds: 1,524,776 states | after a complete build an output it answers for is up to date, unless its last execution was cut short or not saved, or read something that was |
| `build_partial` | the chain; three builds, one deletion, one interrupt or crash | finding 3 |
| `run_tests` | two tests, one worker, no summary file, commands that hang, die or print anything at any time; two runs: 262,422 states | a pass is earned, nothing is left running, the exit status is true, every run ends |
| `run_survivors` | one test with a summary file whose simulator may go on after SIGTERM, a Ctrl-C, two runs, prints `PASSED` or `FAILED`: 124,970 states | with simulators that survive and write into the next run's files, the exit status still is that of the verdicts, these rest on nothing else of earlier runs, in the log or in the summary file, unless it is a summary file that was not opened, and every run ends |
| `run_stale` | one test with a summary file, two runs | finding 4 |
| `testgen` | 12 registers, 3 temporary pairs, 8 formatters, 7 registers to draw from, 2 testcases to a file; every sequence of requests: 309,838 states | no request fails, registers are accounted for, pointers and operands are where the code needs them, files are complete; of misresumed files, registers and sizes only |

**Why these bounds.** *Processor*: words of four 1-bit bytes (16 values) and registers x0 to x2. At
most five instructions are in flight and a value can be forwarded over a distance of two, so that
every pair and triple of neighbours, in all combinations of producer and consumer, occurs among the
four-instruction programs; taken branches and jumps go back inside the program, over one instruction,
or beyond its end, where addresses read as zero and the pc wraps around the 16-value address space
into the program again. Two writable registers make a dependence between neighbours the rule; three
registers in total include x0. One-bit bytes keep sign extension, carries and wrapping observable.
`ResetPrograms` store to one address only, since the memory accumulates over rounds of resets. In
`testbench` bytes have two bits because a halt byte must be able to be neither 0 nor 1, and the
limits 9 to 14 put the deadline before, at and after the edge at which each test's byte appears.

*Build*: the tree has an intermediate with two consumers, two tasks that run at once, a task ready while
another runs, every kind of task (subprocess, Python action, subprocess with a log or with its output on
stdout) and outputs below two config directories; with two workers and four tasks one waits for a worker.
Two builds are what a state left by the first needs to hurt the second, three what edit, build, delete,
build needs. `MaxStops` bounds interrupts, failing saves and crashes together (an interrupt of the handler
comes on top), `MaxEdits` edits and deletions together. The run `build` has neither (`Unedited`): an output
that was deleted looks to the next build like one whose task failed, and fairness asks nothing of the user.
In `build_edits` a chain is enough, since staleness travels along it; there the middle task may fail, and an
interrupt cuts short any task; cleaning goes together with `keep_going`, the only way a cleaning build gets
past a failure. Finding 3 is what an interrupted build does to the next one: its output is in `lost`.

*Runner*: one worker for two tests makes one wait for the other; two runs are needed for files and
processes that outlive one. A file is a set of lines, so printing is bounded by the kinds of lines; in
`run_survivors` simulators print two of them (`Printable`), one for either verdict, since survivors fill
two files in every order.

*Generator*: three pairs, as the code has, of which one may be in use, one blocked by a pointer and one
requested; the other registers that may be drawn are x0, ra, sp, one of each pair and one more; two
testcases to a file make every order of files that do and do not move pointers. The state space is
finite without a bound on the number of testcases.

**Fairness.** *Clock*: `WF_vars(Run)` and `WF_sim_vars(Edge)`: `always #5 clk = ~clk` (`tb_data_path.sv:81`)
never stops while the simulation runs, and `reset` is low from 20 ns on (lines 99-100), so that from then on
every edge is a `Run`. *Build*: the main thread and every worker are scheduled when they can go on
(`FairSpec`). Nothing is asked of tools: `AbortEnds` holds although they all hang; only a second Ctrl-C in
the handler, which it exempts, lets the build wait for one. `EveryBuildEnds` has the antecedent
`TimeoutsFire`, the time limit of `communicate` (`build.py:85`), and tasks outside `CanFail` would need the
fairness of their tools; in the run every task may hang. *Runner*: the pool's processes, the collector and
the clock of the two time limits; nothing of the commands. *Generator*: none, there is no liveness. Runs of
systems that do end say `CHECK_DEADLOCK FALSE`.

## 4. Theorems

Proved by TLAPS from the assumptions named in the modules, which TLC evaluates for the instances:
`WidthAssumption` (word is four bytes, a byte an even number of values, at least two registers),
`AluAssumption` (the ALU yields words and `ALU_ADD` adds), `ComparatorAssumption` (it yields a truth value),
`DataPathAssumption`, `TestbenchAssumption`, `MacroAssumption` (t0 and t1 are two registers, not x0),
`GraphAssumption` (finite, no cycles), `ContentAssumption`, `BuildAssumption`, `RunAssumption`,
`FileAssumption`, `RegistersAssumption`, `TestGenAssumption` and `RoomAssumption` (ten registers, three
temporary pairs and five registers to draw from or more). They hold for programs, task graphs, sets of tests
and register files of any size, any number of workers, builds, runs, crashes and testcases.

| module | theorem | statement |
| --- | --- | --- |
| `PipelineProofs` | `TypeCorrect`, `InvariantHolds` | `Spec => []TypeOK`, `Spec => []IInv` |
| | `OperandsCorrect` | `Spec => []ForwardedOperandsCurrent` |
| | `NeverUnforwardable` | `Spec => []UnforwardableNeverNeeded` |
| | `ProgramOrder` | `Spec => []StagesInProgramOrder` |
| | `OneCycleStall` | `Spec => StallIsOneCycle` |
| | `BubblesBounded` | `Spec => BubblesDrain` |
| | `LoadReturnsStored` | `MemRead` after `MemWrite` at any address, of any width, against `LowPart`; no other byte changes |
| `RefinementProofs` | `ImplementationCorrect` | `Spec => ImplementsIsa` |
| | `RunImplementationCorrect` | `RunSpec => ImplementsIsaRun` |
| `TestbenchProofs` | `SimulationRunsPipeline` | `TbSpec => Spec`: all of the above hold in the simulation |
| | `SimulationTypeCorrect` | `TbSpec => []TbTypeOK` |
| | `NoVerdictWithoutHalt` | `TbSpec => []VerdictNeedsHalt` |
| | `HaltIsSeen` | `TbSpec => TimeoutNeverHidesHalt` |
| | `VerdictCorrect` | `TbSpec => []VerdictIsTheTests`: for every program, from its text to the summary line |
| `BuildProofs` | `TypeCorrect` | `Spec => []TypeOK` |
| | `WalksInOrder` | `Spec => OrderedWalk`, the refinement of `DagRun` |
| | `SummaryCorrect` | `Spec => []SummaryAddsUp` |
| | `ShutdownCorrect` | `Spec => []ShutdownReachesAll` |
| | `SavingCorrect` | `Spec => []RecordedIsSaved` |
| | `InputsCorrect` | `Spec => []InputsPresent` |
| | `CleanCorrect` | `Spec => []CleanLeavesNothing` |
| | `UpToDate` | `Spec => []BuildIsUpToDate`, if no task fails and no build is interrupted (`NoFaults`) |
| `BuildHistoryProofs` | `UpToDateAfterAll` | `HistorySpec => []UpToDateUnlessLost`, whatever fails, is interrupted or crashes |
| `RunTestsProofs` | `TypeCorrect` | `Spec => []TypeOK` |
| | `ExitTruthful` | `Spec => []ExitTellsTheTruth` |
| | `VerdictsOwned` | `Spec => VerdictsAreOwn` |
| | `NothingLeft` | `Spec => []NothingLeftRunning`, if SIGTERM ends every simulator |
| | `PassEarned` | `Spec => []PassIsEarned`, if there is no summary file, SIGTERM ends every simulator and nobody interrupts |
| `TestGenProofs` | `TestGenTypeOK` | `Spec => []TypeOK` |
| | `RegistersAreAccounted` | `Spec => []RegistersAccounted` |
| | `PointersAreHeld` | `Spec => []PointersHold` |
| | `OperandsAreIntact` | `Spec => []OperandsIntact` |
| | `FilesAreComplete` | `Spec => []FilesComplete` |
| `TestGenRoomProofs` | `NeverRaised` | `Spec => []NeverRaises` |

**The processor's argument.** None of the interesting invariants is inductive alone.
`ForwardedOperandsCurrent` needs to know that the operands in `id_ex` are what the register file holds
now (`OperandsAsRead`: read, or written through, at the last edge), and that no operand is needed from
a producer that cannot be forwarded (`UnforwardableNeverNeeded`). The latter has two cases. A load in
execute whose reader is in decode is stalled by the hazard unit, so the reader meets it in
write-back. A link address in EX/MEM or MEM/WB has no reader because a jump leaves two bubbles behind
it (`LinkLeavesBubbles`), which needs that flushed stages are empty (`BubblesAreEmpty`). The stages
have no valid bit; "this stage holds an instruction" is expressed by `pcplus4 # pc` (`Valid`), which
is sound because pcs are aligned and carried with their successors (`PcAligned`, `PcPlus4Carried`).
`StoreWritesNoRegister` closes the latch: while `mem_out` is stale, nobody writes it to a register.
`IInv` is the conjunction, proved preserved by `Run` and `Reset`. The refinement proof then takes one
`Run` step and shows: when execute holds a bubble, the mapped variables stay (`BubbleStutters`); when
it holds an instruction, that is the instruction at `ArchPc`, its operands are the mapped registers
(`Current`), and what it leaves in EX/MEM is what `Isa` writes (`RetireIsStep`, one case per opcode).
`BubblesBounded` is the part of `Progress` that needs no fairness: with a bubble in execute the hazard
unit neither stalls nor flushes, so that two clock edges later at the latest an instruction executes.

**The data memory's argument** is arithmetic, for every byte size: a number is split by a division in one way
only (`DivisionUnique`), dividing twice is dividing by the product (`DivisionTwice`), so the four bytes of
a word make it up again (`BytesOfWord`); filling the upper bytes with ones is adding what makes the number
negative (`FillExtends`); and the addresses of an access are different, also around the end of the address
space (`FourAddresses`). `LowPart` is the reference: the low byte, half or whole of the stored word,
extended by its sign or by zeros.

**The simulation's argument** uses the refinement end to end. A simulation is a behaviour of the pipeline
(`SimulationRunsPipeline`), a pipeline edge is a step, a restart or a stutter of `Isa` (`RefinesNext`), so
the verdict can be followed one instruction at a time, with no stall, flush or operand in sight.
`PlaceInv` says where `Isa` is in a test (in the body, or at one of the macro's four instructions) and what
t0 and t1 hold there; `PlaceStep` has one case per place, and a reset goes back to the first. So the one
store of a test is the macro's (`TestStores`), whose lowest byte lands at the halt address at every access
width (`StoresLowByte`), also as built. `Decided` says that a halt byte in the memory is the test's own,
and the watcher turns it into its verdict (`WatchSays`), whether it sees the memory before or after the
store. `HaltsAt` asks of a test that its body has no store and no JALR: where these go depends on
register values, so that whether they write the halt byte or leave the test cannot be read off the text.

**The build's argument** is a tower of invariants, each proved preserved from the ones below it.
`WalkInv` ties the main thread's place to the sets it works on (handed out, done, in flight, batch);
`WorkerInv` says which stages a worker can be in for a task in flight or not; these give `OrderedWalk`
and, with `CountsAddUp`, the summary. `ShutdownInv` says that every live process is registered, about
to be, or doomed, or was spared by an interrupt of the handler. `SavingInv`: what succeeded and was retired
is in the manifest in memory, and a manifest with entries not on disk is in `updated`, which is empty
when the pool is joined unless the save was cut short. `ConsumersInv`: the counter of an intermediate is
the number of its consumers that are not retired, a fact about cardinalities of a set that loses one
member a time; with it `InputsInv` (a needed task's inputs exist or are themselves being made) and
`CleanInv` (a counter at zero means deleted). `UpToDate` adds that without faults no worker ever fails
(`CalmInv`), that recipes are those of the present sources (`HashInv`), that every retired task that
was needed has its entry (`EntriesInv`), and that whatever is recorded and exists was made of what its
recipe names (`ContentInv`). No run checks `BuildIsUpToDate`: the next theorem says more.

`UpToDateAfterAll` drops `NoFaults` and gives the exact extent of finding 3. Its invariant `HistoryInv` adds
to the tower: whatever a worker may have written and no record tells of is in `lost` (`LostInv`); the hashes
of the running build are those of the present sources, and an entry that is in memory and not on disk is of
a task that ran in this build and will be saved, or is in `lost` (`RecipeInv`); an output that is there, not
lost and recorded is what its entry says, and a task in flight that reads nothing lost reads current inputs
and writes a current output (`OutputInv`); what a build need not run, or has run, has the right entry
(`SettledInv`). The delicate step is `RecordSuccess`: recording pardons a task only if none of its
dependencies is lost, and deletes intermediates (`RetireSpares`: none that a later task is still to read).
That a recorded output is there at all (`RecordedIsThere`) comes from `InputsInv`.

**The runner's argument.** `GroupInv`, `LeaderInv` and `StageInv` relate the stage of `run_test` to
what can be alive; `ReportInv` and `CountInv` are the counting; `RemnantInv` says that what a survivor
writes to exists. `FreshInv` adds, under the hypotheses of `PassEarned`, that no run is interrupted,
that there are no survivors and that the log of a test that has started holds lines of this run only.
With a summary file the conclusion is false (finding 4), with survivors as well. How far, says
`VerdictsOwned`, without any hypothesis: `OwnInv` is that a log whose command has started, and a summary
file that this run's simulator has opened, hold lines of this run's simulator and of those in `remnants`
only. A stale verdict therefore comes from a survivor or from a summary file left unopened, and from
nothing else.

**The generator's argument.** `RegistersInv` says that the special registers are four different ones
and that they, the free and the held registers partition the register file (`Accounts`), preserved by
every operation of the allocator. `MachineReady` says that the abstract machine has the pointers where
the register file has them, has met no false operand, and has used as many slots and values as are
reserved (`Ready`); one lemma for each formatter shows it preserved, one for the moves
(`RelocateReady`), which may copy a pointer over a register that another move is still to read unless
targets and sources are apart. `FromBefore` relates the register file during a testcase to the one
before its coverpoint's request.

`NeverRaised` is counting (`AtLeast`, and lemmas that remove up to four members from a set). Its
invariant `RoomInv` adds to `RegistersInv` that the data pointer is never in a temporary pair, so that
only the signature pointer can be in the way of a moved pair, in one of the two others (`PairLeft`). A
moved pointer finds a place because at most four registers outside the pairs are special, held or
requested (`PoolRegister`), and a draw because what is held or special leaves enough of the registers
that are drawn from. `RoomAssumption` holds with room to
spare for the register files of RV32I and RV32E, which have 32 and 16 registers.

## 5. Model-checked only

`Progress`, `SimulationEnds`, `AbortEnds`, `EveryBuildEnds` and `RunEnds` are liveness properties, out
of reach of the prover. That the ALU adds and stays in range is an assumption of the proofs; TLC checks it
for the instances. `SkippedIsCurrent` and `SilentTestFails` are violated (findings 3 and 4).

## 6. Findings

1. `data_path.sv:144-146` connects `rs1_val_forwarded_ex` to both ports of the comparator. Run
   `branch_operands` shows a branch on two different registers decided by comparing one with itself:
   BEQ, BGE and BGEU are always taken, BNE, BLT and BLTU never. NOTES-v1.md:52 describes "a parallel
   comparison unit (which compares rs1 and rs2)". The self-checking tests compare with branches, so
   that such a fault can also hide other failures from them.
2. `data_mem.sv:16-17` gives `sign_ext` and `size` their values in declaration initialisers, which run
   once, at time zero, and not whenever `funct3` changes. Run `access_width` shows a half-word or word
   access treated as a byte. NOTES-v1.md:65 says funct3 is there "to choose between loading/storing a
   word/half/byte".
3. `build_cache.py:154` takes a task as satisfied when its outputs exist and the manifest has its
   recipe hash, and nothing removes the entry when a rebuild of the task starts. Run `build_partial`:
   build, delete an output, rebuild and interrupt (or crash) while the tool is writing; the next build
   skips the half-written file, where `build.py:291` says "Skip tasks whose outputs are already up to
   date."
4. `run_tests.py` empties the log before it starts a command but never removes the summary file of an
   earlier run. Run `run_stale`: a simulator that exits with zero before it opens its summary file
   gets the verdict of the last run, where line 229 reports "exit code 0 but no RVCP-SUMMARY line
   found" as a failure. The configuration of bonato-2-v1 has no summary file and is not affected.

Met while modelling, without a run of their own:

* The log of a failed intermediate is deleted with its outputs when `keep_going` and
  `clean_intermediates` are on (`build.py:270-272`), although the failure message points to it (442,
  466).
* After SIGTERM the runner waits for the group leader only (`run_tests.py:156`), and SIGKILL follows
  only if that wait times out. A simulator that handles SIGTERM under a shell that does not is left
  running, where the help text of `--timeout` (line 258) says "Kills the entire simulator process
  group on expiry". `run_survivors` includes such simulators; `NothingLeft` excludes them.
* `begin_test_chunk` records the pointers after the coverpoint's `consume_registers` has moved them,
  while the moves themselves are part of the chunk (`state.py:162-171`, `writer.py:42`, in the pattern
  of docs/DeveloperGuide.md:363-383). When such a chunk starts a file that is not the first, its first
  move copies a register that the file has not set. With the signature pointer in ra and a testcase that
  requests ra at the start of a file, the preamble leaves the pointer in x2, where the testcase wants it,
  and the testcase opens with a `mv` from ra to x2 that overwrites it. From there on the file has no
  pointer where its code looks for one, and its teardown finds none in x2. `writer.py:32-33` says that
  later files "need to re-establish them in whichever registers the chunks expect", `state.py:162-166` that
  the snapshot is taken for that, and `unpriv.py:34-36` that the teardown "assumes the signature pointer is
  in DEFAULT_SIG_REG" and is given it by a final `mv`: in such a file none of it comes about. The model
  writes these files like all others and keeps the fault (`Misresumes`, `misresumed`). `PointersHold`,
  `OperandsIntact` and the teardown's part of `FilesComplete` exempt them by name and are violated without
  the exemption: with `written.intact` as an invariant TLC stops in the run `testgen` with the sequence above,
  three testcases long. `RegistersAccounted`, `NeverRaises` and the counts of `FilesComplete` hold of these
  files too.
* When rs2 is x2, `css_type.py` overwrites the loaded operand with the signature pointer and stores
  that.

## 7. Not modelled, and why

*Processor.* `print_info` and waveform dumping only display. `csr_file.sv` (v2) has no behaviour yet.
The bit gathering of the decoder's immediates. Setup and hold times, metastability and other analogue
matters have no counterpart in the source. Registers at power-up are arbitrary words, not four-state
values; the build is a two-state simulation.

*Build.* A Ctrl-C falls between two steps of the main thread, never within one: within
`record_result` it may leave a success counted and not recorded, in a summary that nobody sees because
the interrupt is raised again, and of a task the sorter has not been told of. A Ctrl-C while the pool is
joined moves the wait to the end of the interpreter, which waits for the same workers; further ones
are left out, as are the temporary file that a failing save leaves beside a manifest, and errors of the
loop itself. A SIGKILL of the Python process alone, which orphans its tools; edits of sources while a
build runs; an empty task list; errors of `unlink`, which the code suppresses; descendants of a tool
that keep its pipe open after the tool has gone; two `act` processes on one directory; reuse of
process numbers. `print_summary` and the progress display only format.

*Runner.* Death of a pool worker from outside; the temporary hex file of `run_v1.sh`; banners,
placeholders and messages.

*Generator.* The assembly text itself; the formatters that only load operands, execute and check (as
`R` does); floating-point and vector register files; register pairs, `move_data_reg` and
`reset_special_registers`, which only privileged generators and coverpoints outside the repository
use; the coverpoint generators, which are absent; the privileged and vector generators.

*The rest*: the ACT front end, the configurations of other cores, coverage points, test plans, CI and
documents are data or sequential transformations of it.

By far most of the repository's Python lines are generators of straight-line assembly text
(`generators/testgen/src/testgen/priv`, `generators/testgen/scripts`, `generators/coverage`): they have
no state that outlives a function, and a model would be a transcription of text. The lines that the
models do stand for are those of the programs with state and concurrency, and, in SystemVerilog, all
of v1.

## 8. Plan

Done: the v1 processor and its testbench; the build executor and its cache; the test runner; the
allocator and the one-instruction generator; their runs and proofs.

Open, in this order:

1. The bit gathering of the decoder against the instruction formats.
2. Register pairs, `move_data_reg` and the floating-point register file, with the formatters that use
   them.
