--------------------------- MODULE TestbenchProofs ---------------------------
(***************************************************************************)
(* Proofs about the simulation: it runs the pipeline, so that everything   *)
(* proved of the pipeline holds in it; and no verdict is printed that the  *)
(* halt byte does not justify, whichever way the watcher and the store of  *)
(* an edge are ordered.                                                    *)
(***************************************************************************)
EXTENDS HaltMacro, RefinementProofs

\* A store only adds addresses to the memory.
LEMMA OverwriteGrows ==
    ASSUME NEW m, NEW bytes
    PROVE  DOMAIN m \subseteq DOMAIN Overwrite(m, bytes)
BY DEF Overwrite

LEMMA NextMemGrows == DOMAIN mem \subseteq DOMAIN NextMem
<1> DEFINE w == MemWrite(mem, ex_mem.alu_out, ex_mem.rs2_val, Funct3AtInit)
<1>1. DOMAIN mem \subseteq DOMAIN w
  <2> DEFINE stored(n) == Overwrite(mem, StoredBytes(ex_mem.alu_out, ex_mem.rs2_val, n))
  <2>1. w \in {stored(1), stored(2), stored(4), mem}
    BY Zenon DEF MemWrite
  <2>2. \A n \in {1, 2, 4} : DOMAIN mem \subseteq DOMAIN stored(n)
    BY OverwriteGrows
  <2> HIDE DEF stored, w
  <2> QED BY <2>1, <2>2
<1>2. NextMem \in {w, mem}
  BY DEF NextMem
<1> QED BY <1>1, <1>2

\* Every edge of the simulation is an edge of the data path.
LEMMA EdgeIsNext == [Edge]_sim_vars => [Next]_vars
BY DEF Edge, Next, sim_vars, vars

\* The simulation runs the pipeline of DataPath, its reset pulse included.
THEOREM SimulationRunsPipeline == TbSpec => Spec
<1>1. TbInit => Init
  BY DEF TbInit
<1> QED BY <1>1, EdgeIsNext, PTL DEF TbSpec, Spec

-----------------------------------------------------------------------------
Verdict == {"PASSED", "FAILED", "INCORRECT"}

\* What the watching process makes of a memory.
LEMMA HaltLinesCases ==
    ASSUME NEW m
    PROVE  \/ HaltAddress \notin DOMAIN m /\ HaltLines(m) = {}
           \/ HaltAddress \in DOMAIN m /\ \E v \in Verdict : HaltLines(m) = {v}
<1>1. CASE HaltAddress \notin DOMAIN m
  <2>1. HaltLines(m) = {}
    BY <1>1, Zenon DEF HaltLines
  <2> QED BY <1>1, <2>1
<1>2. CASE HaltAddress \in DOMAIN m
  <2>1. \/ HaltLines(m) = {"PASSED"}
        \/ HaltLines(m) = {"FAILED"}
        \/ HaltLines(m) = {"INCORRECT"}
    <3>0. 0 # 1
      OBVIOUS
    <3>1. CASE m[HaltAddress] = 0
      BY <1>2, <3>0, <3>1, Zenon DEF HaltLines
    <3>2. CASE m[HaltAddress] = 1
      BY <1>2, <3>0, <3>2, Zenon DEF HaltLines
    <3>3. CASE m[HaltAddress] # 0 /\ m[HaltAddress] # 1
      BY <1>2, <3>3, Zenon DEF HaltLines
    <3> QED BY <3>1, <3>2, <3>3
  <2> QED BY <1>2, <2>1 DEF Verdict
<1> QED BY <1>1, <1>2

LEMMA WatchCases ==
    ASSUME NEW m
    PROVE  \/ /\ Watch(m).lines = {}
              /\ Watch(m).exit = "running"
              /\ HaltAddress \notin DOMAIN m
              /\ ~Late
           \/ /\ Watch(m).lines = {"TIMED_OUT"}
              /\ Watch(m).exit = "fatal"
              /\ HaltAddress \notin DOMAIN m
           \/ /\ \E v \in Verdict : v \in Watch(m).lines
              /\ Watch(m).lines \subseteq Line
              /\ Watch(m).exit \in {"finish", "fatal"}
              /\ HaltAddress \in DOMAIN m
<1> DEFINE h == HaltLines(m)
<1>1. \/ HaltAddress \notin DOMAIN m /\ h = {}
      \/ HaltAddress \in DOMAIN m /\ \E v \in Verdict : h = {v}
  BY HaltLinesCases
<1>2. h \subseteq Line
  BY <1>1 DEF Verdict, Line
<1>3. CASE h \subseteq {"PASSED"} /\ Late
  <2>1. Watch(m) = [lines |-> h \cup {"TIMED_OUT"}, exit |-> "fatal"]
    BY <1>3, Zenon DEF Watch
  <2>2. Watch(m).lines = h \cup {"TIMED_OUT"} /\ Watch(m).exit = "fatal"
    BY <2>1
  <2> HIDE DEF h
  <2> QED BY <1>1, <1>2, <2>2 DEF Line
<1>4. CASE ~(h \subseteq {"PASSED"} /\ Late)
  <2> DEFINE e == CASE h = {} -> "running" [] h = {"PASSED"} -> "finish"
                    [] OTHER -> "fatal"
  <2>1. Watch(m) = [lines |-> h, exit |-> e]
    BY <1>4, Zenon DEF Watch
  <2>2. Watch(m).lines = h /\ Watch(m).exit = e
    BY <2>1
  <2>3. CASE h = {}
    <3>1. {} # {"PASSED"}
      OBVIOUS
    <3>2. e = "running"
      BY <2>3, <3>1, Zenon
    <3> HIDE DEF e, h
    <3> QED BY <1>1, <1>4, <2>2, <2>3, <3>2
  <2>4. CASE h # {}
    <3>1. e \in {"finish", "fatal"}
      BY <2>4, Zenon
    <3> HIDE DEF e, h
    <3> QED BY <1>1, <1>2, <2>2, <2>4, <3>1
  <2> QED BY <2>3, <2>4
<1> QED BY <1>3, <1>4

\* What one edge does to the testbench.
LEMMA EdgeWatches ==
    ASSUME Edge
    PROVE  \E m \in {mem, NextMem} :
              summary' = Watch(m).lines /\ exit' = Watch(m).exit
BY DEF Edge

LEMMA EdgeStores == Edge => mem' = NextMem
BY DEF Edge, Run, Reset, WriteState

-----------------------------------------------------------------------------
\* While the simulation runs nothing has been printed and the cycle limit has
\* not been passed.
Running == exit = "running" => summary = {} /\ cycle_count <= max_cycle_count

TbState ==
    /\ reset_edges \in 0 .. ResetEdges
    /\ cycle_count \in 0 .. max_cycle_count + 1
    /\ max_cycle_count \in MaxCycleCounts
    /\ summary \in SUBSET Line
    /\ exit \in {"running", "finish", "fatal"}

LEMMA TbStateInit == TbInit => TbState /\ Running
BY TestbenchAssumption DEF TbInit, TbState, Running, Line

LEMMA TbStateNext == TbState /\ Running /\ [Edge]_sim_vars => (TbState /\ Running)'
<1> SUFFICES ASSUME TbState, Running, [Edge]_sim_vars
             PROVE  (TbState /\ Running)'
  OBVIOUS
<1>1. CASE Edge
  <2>1. PICK m \in {mem, NextMem} :
            summary' = Watch(m).lines /\ exit' = Watch(m).exit
    BY <1>1, EdgeWatches
  <2>2. /\ cycle_count' = cycle_count + 1
        /\ max_cycle_count' = max_cycle_count
        /\ reset_edges' = IF reset_edges > 0 THEN reset_edges - 1 ELSE 0
        /\ exit = "running"
    BY <1>1 DEF Edge, CountCycle, reset
  <2>3. max_cycle_count \in Nat /\ ResetEdges \in Nat
    BY TestbenchAssumption DEF TbState
  <2>4. /\ reset_edges' \in 0 .. ResetEdges
        /\ cycle_count' \in 0 .. max_cycle_count' + 1
        /\ max_cycle_count' \in MaxCycleCounts
    BY <2>2, <2>3 DEF TbState, Running
  <2>5. \/ summary' = {} /\ exit' = "running" /\ ~Late
        \/ summary' \subseteq Line /\ exit' \in {"finish", "fatal"}
    BY <2>1, WatchCases DEF Line
  <2>6. summary' \in SUBSET Line
    BY <2>5 DEF Line
  <2>7. Running'
    BY <2>2, <2>3, <2>5 DEF Late, Running, TbState
  <2>8. exit' \in {"running", "finish", "fatal"}
    BY <2>5
  <2> QED BY <2>4, <2>6, <2>7, <2>8 DEF TbState
<1>2. CASE UNCHANGED sim_vars
  BY <1>2 DEF sim_vars, tb_vars, TbState, Running
<1> QED BY <1>1, <1>2

\* The testbench's state keeps its type; the cycle counter stops at the limit.
THEOREM SimulationTypeCorrect == TbSpec => []TbTypeOK
<1>1. TbState /\ TypeOK => TbTypeOK
  BY DEF TbState, TbTypeOK
<1> QED BY <1>1, TbStateInit, TbStateNext, SimulationRunsPipeline, TypeCorrect,
           PTL DEF TbSpec

\* No verdict other than a time-out is printed before the program has stored its
\* halt byte (tb_data_path.sv, the watching process).
THEOREM NoVerdictWithoutHalt == TbSpec => []VerdictNeedsHalt
<1>1. TbInit => VerdictNeedsHalt
  BY DEF TbInit, VerdictNeedsHalt
<1>2. VerdictNeedsHalt /\ [Edge]_sim_vars => VerdictNeedsHalt'
  <2>1. ASSUME Edge PROVE VerdictNeedsHalt'
    <3>1. PICK m \in {mem, NextMem} : summary' = Watch(m).lines
      BY <2>1, EdgeWatches
    <3>2. summary' = {} \/ summary' = {"TIMED_OUT"} \/ HaltAddress \in DOMAIN m
      BY <3>1, WatchCases
    <3>3. DOMAIN m \subseteq DOMAIN mem'
      BY <2>1, NextMemGrows, EdgeStores
    <3> QED BY <3>2, <3>3 DEF VerdictNeedsHalt, OnlyTimedOut
  <2>2. VerdictNeedsHalt /\ UNCHANGED sim_vars => VerdictNeedsHalt'
    BY DEF VerdictNeedsHalt, OnlyTimedOut, sim_vars, vars, tb_vars
  <2> QED BY <2>1, <2>2
<1> QED BY <1>1, <1>2, PTL DEF TbSpec

\* A halt byte that is in the memory is always seen, also in the last cycle the
\* limit permits.
THEOREM HaltIsSeen == TbSpec => TimeoutNeverHidesHalt
<1>1. ASSUME Edge, HaltAddress \in DOMAIN mem PROVE ~OnlyTimedOut'
  <2>1. PICK m \in {mem, NextMem} : summary' = Watch(m).lines
    BY <1>1, EdgeWatches
  <2>2. HaltAddress \in DOMAIN m
    BY <1>1, NextMemGrows
  <2>3. \E v \in Verdict : v \in summary'
    BY <2>1, <2>2, WatchCases
  <2> QED BY <2>3 DEF OnlyTimedOut, Verdict
<1> QED BY <1>1, PTL DEF TbSpec, TimeoutNeverHidesHalt
-----------------------------------------------------------------------------
(* The halt macro: what the programmer's view of the processor makes of it. *)

LEMMA AddSmall ==
    ASSUME NEW a \in Nat, NEW b \in Nat, a + b < WordSize
    PROVE  Add(a, b) = a + b
<1>1. a \in Word /\ b \in Word
  BY WordSizes, SMT DEF Word
<1> QED BY <1>1, AddCases

\* The instruction after the n-th.
LEMMA NextOf ==
    ASSUME NEW n \in Nat, 4 * (n + 1) < WordSize
    PROVE  Align(Add(4 * n, 4)) = 4 * (n + 1)
<1>1. Add(4 * n, 4) = 4 * (n + 1)
  BY AddSmall, SMT
<1> QED BY <1>1, SMT DEF Align

LEMMA InstrOf ==
    ASSUME NEW n \in Nat
    PROVE  InstrAt(4 * n) = IF n \in DOMAIN rom THEN rom[n] ELSE ZeroInstr
<1>1. (4 * n) \div 4 = n
  BY SMT
<1> QED BY <1>1 DEF InstrAt

LEMMA ArchInstruction == Arch!Instruction = InstrAt(ArchPc)
BY SameOperators DEF Arch!Instruction, InstrAt

\* Only stores change the memory, and only jumps leave the order of the program.
LEMMA StepGoes ==
    ASSUME Arch!Step, Arch!Instruction.op \notin {"STORE", "JALR"}
    PROVE  /\ UNCHANGED <<rom, NextMem>>
           /\ \/ ArchPc' = Align(Add(ArchPc, 4))
              \/ /\ Arch!Instruction.op \in {"BRANCH", "JAL"}
                 /\ ArchPc' = Align(Add(ArchPc, Arch!Instruction.imm))
BY SameOperators
DEF Arch!Step, Arch!AlReg, Arch!AlImm, Arch!Load, Arch!Store, Arch!Branch, Arch!Jal, Arch!Jalr,
    Arch!Lui, Arch!Auipc, Arch!Undefined, Arch!Retire, Arch!PcPlus4, Arch!Imm

\* The byte at the address of a store is the lowest of the word.
LEMMA StoresLowByte ==
    ASSUME NEW m, NEW a \in Word, NEW w \in Byte, NEW f
    PROVE  MemWrite(m, a, w, f) = m \/ MemWrite(m, a, w, f)[a] = w
<1>1. MemWrite(m, a, w, f) \in {Stored(m, a, w, 1), Stored(m, a, w, 2), Stored(m, a, w, 4), m}
  BY Zenon DEF MemWrite, Stored
<1>2. ASSUME NEW n \in {1, 2, 4} PROVE Stored(m, a, w, n)[a] = w
  <2>1. Add(a, 0) = a
    BY AddNothing
  <2>2. a \in {Add(a, i) : i \in 0 .. n - 1}
    BY <2>1, SMT
  <2>3. a \in DOMAIN Stored(m, a, w, n)
    BY <2>2, Zenon DEF StoredBytes, Stored, Overwrite
  <2>4. Byte0(w) = w
    BY WidthAssumption, SMT DEF Byte0, Byte
  <2> QED BY <2>1, <2>3, <2>4, StoredByteAt DEF ByteAt
<1> QED BY <1>1, <1>2

-----------------------------------------------------------------------------
\* Where the programmer's view is in a test, and what the macro has loaded.
Place(k) ==
    \E n \in 0 .. k + 3 :
        /\ ArchPc = 4 * n
        /\ n \in {k + 1, k + 2} => ArchRegs[T0] = rom[k].imm
        /\ n = k + 2 => ArchRegs[T1] = HaltAddress

PlaceInv == \A k \in DOMAIN rom \cap Nat : HaltsAt(k) => Place(k)

\* The halt byte in m is the test's own, and some instruction stored it.
Decided(m) ==
    HaltAddress \in DOMAIN m =>
        /\ \E n \in DOMAIN rom : rom[n].op = "STORE"
        /\ \A k \in DOMAIN rom \cap Nat : HaltsAt(k) => m[HaltAddress] = rom[k].imm

LEMMA SameTest ==
    ASSUME rom' = rom
    PROVE  \A k : HaltsAt(k)' <=> HaltsAt(k)
BY DEF HaltsAt, StaysBefore, HaltMacroAt, InstrAt

\* The four instructions of the macro, as the programmer's view meets them.
LEMMA MacroInstructions ==
    ASSUME NEW k \in DOMAIN rom \cap Nat, HaltsAt(k)
    PROVE  /\ \E byte \in Byte : rom[k] = LiT0(byte) /\ byte = rom[k].imm
           /\ InstrAt(4 * k) = rom[k]
           /\ InstrAt(4 * (k + 1)) = LiT1
           /\ InstrAt(4 * (k + 2)) = Sw
           /\ InstrAt(4 * (k + 3)) = SelfLoop
<1>1. PICK byte \in Byte : HaltMacroAt(k, byte)
  BY DEF HaltsAt
<1>2. LiT0(byte).imm = byte
  BY DEF LiT0, ZeroInstr
<1>3. {k, k + 1, k + 2, k + 3} \subseteq k .. k + 3
  BY SMT
<1>4. {k, k + 1, k + 2, k + 3} \subseteq DOMAIN rom
  BY <1>3 DEF HaltsAt
<1>5. k + 1 \in Nat /\ k + 2 \in Nat /\ k + 3 \in Nat
  BY SMT
<1> QED BY <1>1, <1>2, <1>4, <1>5, InstrOf DEF HaltMacroAt

\* What the instruction at each place of a test does to the view.
LEMMA StepIs ==
    ASSUME Arch!Step
    PROVE  /\ rom' = rom
           /\ Arch!Instruction.op = "AL_IMM" => Arch!AlImm
           /\ Arch!Instruction.op = "LUI" => Arch!Lui
           /\ Arch!Instruction.op = "STORE" => Arch!Store
           /\ Arch!Instruction.op = "JAL" => Arch!Jal
<1>1. rom' = rom
  BY DEF Arch!Step, Arch!AlReg, Arch!AlImm, Arch!Load, Arch!Store, Arch!Branch, Arch!Jal,
         Arch!Jalr, Arch!Lui, Arch!Auipc, Arch!Undefined, Arch!Retire
<1> DEFINE op == Arch!Instruction.op
<1>2. /\ Arch!AlReg => op = "AL_REG"
      /\ Arch!AlImm => op = "AL_IMM"
      /\ Arch!Load => op = "LOAD"
      /\ Arch!Store => op = "STORE"
      /\ Arch!Branch => op = "BRANCH"
      /\ Arch!Jal => op = "JAL"
      /\ Arch!Jalr => op = "JALR"
      /\ Arch!Lui => op = "LUI"
      /\ Arch!Auipc => op = "AUIPC"
      /\ Arch!Undefined => op = "OTHER"
  BY DEF Arch!AlReg, Arch!AlImm, Arch!Load, Arch!Store, Arch!Branch, Arch!Jal,
         Arch!Jalr, Arch!Lui, Arch!Auipc, Arch!Undefined
<1> HIDE DEF op
<1> QED BY <1>1, <1>2 DEF op, Arch!Step

LEMMA PlaceStep ==
    ASSUME IInv, Arch!Step, NEW k \in DOMAIN rom \cap Nat, HaltsAt(k), Place(k)
    PROVE  Place(k)'
<1>1. PICK n \in 0 .. k + 3 :
          /\ ArchPc = 4 * n
          /\ n \in {k + 1, k + 2} => ArchRegs[T0] = rom[k].imm
          /\ n = k + 2 => ArchRegs[T1] = HaltAddress
  BY DEF Place
<1>2. /\ n \in Nat /\ k \in Nat /\ 4 * (k + 4) <= WordSize
      /\ Arch!Instruction = InstrAt(4 * n)
      /\ rom' = rom
  BY <1>1, ArchInstruction, StepIs, SMT DEF HaltsAt
<1>3. PICK byte \in Byte : rom[k] = LiT0(byte) /\ byte = rom[k].imm
  BY MacroInstructions
<1>4. /\ T0 \in Reg \ {0} /\ T1 \in Reg \ {0} /\ T0 # T1
      /\ \A w : Arch!Written(w) =
             [r \in Reg \ {0} |-> IF r = Arch!Instruction.rd THEN w ELSE ArchRegs[r]]
  BY MacroAssumption DEF Arch!Written, ArchRegs
<1>5. n < k + 3 => Align(Add(ArchPc, 4)) = 4 * (n + 1)
  BY <1>1, <1>2, NextOf, WordSizes, SMT
<1>6. CASE n < k
  <2>1. n \in 0 .. k - 1
    BY <1>2, <1>6, SMT
  <2>2. StaysBefore(n, k)
    BY <2>1 DEF HaltsAt
  <2>3. \E m \in 0 .. k : ArchPc' = 4 * m
    <3>1. CASE ArchPc' = Align(Add(ArchPc, 4))
      <4>1. n + 1 \in 0 .. k /\ n < k + 3
        BY <1>2, <1>6, SMT
      <4> QED BY <1>5, <3>1, <4>1
    <3>2. CASE ArchPc' # Align(Add(ArchPc, 4))
      BY <1>1, <1>2, <2>2, <3>2, StepGoes DEF StaysBefore
    <3> QED BY <3>1, <3>2
  <2>4. PICK m \in 0 .. k : ArchPc' = 4 * m
    BY <2>3
  <2>5. m \in 0 .. k + 3 /\ m \notin {k + 1, k + 2} /\ m # k + 2
    BY <1>2, SMT
  <2> QED BY <2>4, <2>5 DEF Place
<1>7. CASE n = k
  <2>1. /\ Arch!Instruction.op = "AL_IMM" /\ Arch!Instruction.funct3 = 0
        /\ Arch!Instruction.rs1 = 0 /\ Arch!Instruction.rd = T0
        /\ Arch!Instruction.imm = rom[k].imm
    <3>1. Arch!Instruction = LiT0(byte)
      BY <1>2, <1>3, <1>7, MacroInstructions
    <3> QED BY <1>3, <3>1 DEF LiT0, ZeroInstr
  <2>2. Arch!AlImm
    BY <2>1, StepIs
  <2>3. ArchRegs' = Arch!Written(AluOut(0, 0, rom[k].imm)) /\ ArchPc' = Align(Add(ArchPc, 4))
    <3>1. Arch!V1 = 0 /\ Arch!Imm = rom[k].imm /\ Arch!PcPlus4 = Add(ArchPc, 4)
      BY <2>1, SameOperators DEF Arch!V1, Arch!Val, Arch!Imm, Arch!PcPlus4
    <3> QED BY <2>1, <2>2, <3>1, SameOperators DEF Arch!AlImm, Arch!Retire
  <2>4. AluOut(0, 0, rom[k].imm) = rom[k].imm
    <3>1. rom[k].imm \in Word /\ 0 \in Word
      <4>1. rom \in [DOMAIN rom -> Instr]
        BY DataPathAssumption DEF IInv, TypeOK
      <4>2. rom[k] \in Instr
        BY <4>1
      <4> QED BY <4>2, WordSizes, SMT DEF Instr, Word
    <3>2. AluOut(0, 0, rom[k].imm) = Add(0, rom[k].imm)
      BY <3>1, AluAssumption DEF ALU_ADD
    <3> QED BY <3>1, <3>2, AddCases, WordSizes, SMT DEF Word
  <2>5. ArchRegs'[T0] = rom[k].imm /\ ArchPc' = 4 * (k + 1)
    BY <1>2, <1>4, <1>5, <1>7, <2>1, <2>3, <2>4
  <2>6. k + 1 \in 0 .. k + 3 /\ k + 1 # k + 2
    BY <1>2, SMT
  <2> QED BY <1>2, <2>5, <2>6 DEF Place
<1>8. CASE n = k + 1
  <2>1. /\ Arch!Instruction.op = "LUI" /\ Arch!Instruction.rd = T1
        /\ Arch!Instruction.imm = HaltAddress
    BY <1>2, <1>8, MacroInstructions DEF LiT1, ZeroInstr
  <2>2. Arch!Lui
    BY <2>1, StepIs
  <2>3. ArchRegs' = Arch!Written(HaltAddress) /\ ArchPc' = Align(Add(ArchPc, 4))
    BY <2>1, <2>2, SameOperators DEF Arch!Lui, Arch!Retire, Arch!Imm, Arch!PcPlus4
  <2>4. ArchRegs'[T1] = HaltAddress /\ ArchRegs'[T0] = rom[k].imm
    BY <1>1, <1>4, <1>8, <2>1, <2>3
  <2>5. ArchPc' = 4 * (k + 2) /\ k + 2 \in 0 .. k + 3
    BY <1>2, <1>5, <1>8, <2>3, SMT
  <2> QED BY <1>2, <2>4, <2>5 DEF Place
<1>9. CASE n = k + 2
  <2>1. Arch!Instruction.op = "STORE"
    BY <1>2, <1>9, MacroInstructions DEF Sw, ZeroInstr
  <2>2. Arch!Store
    BY <2>1, StepIs
  <2>3. ArchPc' = Align(Add(ArchPc, 4))
    BY <2>2, SameOperators DEF Arch!Store, Arch!PcPlus4
  <2>4. ArchPc' = 4 * (k + 3) /\ k + 3 \in 0 .. k + 3 /\ k + 3 \notin {k + 1, k + 2}
    BY <1>2, <1>5, <1>9, <2>3, SMT
  <2> QED BY <2>4 DEF Place
<1>10. CASE n = k + 3
  <2>1. Arch!Instruction.op = "JAL" /\ Arch!Instruction.imm = 0
    BY <1>2, <1>10, MacroInstructions DEF SelfLoop, ZeroInstr
  <2>2. Arch!Jal
    BY <2>1, StepIs
  <2>3. ArchPc' = Align(Add(ArchPc, 0))
    BY <2>1, <2>2, SameOperators DEF Arch!Jal, Arch!Retire, Arch!Imm
  <2>4. Add(ArchPc, 0) = ArchPc
    <3>1. ArchPc \in Word
      BY <1>1, <1>2, <1>10, WordSizes, SMT DEF Word
    <3> QED BY <3>1, AddNothing
  <2>5. ArchPc' = 4 * (k + 3)
    BY <1>1, <1>10, <2>3, <2>4, SMT DEF Align
  <2>6. k + 3 \in 0 .. k + 3 /\ k + 3 \notin {k + 1, k + 2}
    BY <1>2, SMT
  <2> QED BY <2>5, <2>6 DEF Place
<1> QED BY <1>1, <1>2, <1>6, <1>7, <1>8, <1>9, <1>10, SMT

\* The only store of a test is the macro's, of its byte to the halt address.
LEMMA TestStores ==
    ASSUME IInv, Arch!Store, NEW k \in DOMAIN rom \cap Nat, HaltsAt(k), Place(k)
    PROVE  NextMem' = MemWrite(NextMem, HaltAddress, rom[k].imm, Funct3AtInit)
<1>1. PICK n \in 0 .. k + 3 :
          /\ ArchPc = 4 * n
          /\ n \in {k + 1, k + 2} => ArchRegs[T0] = rom[k].imm
          /\ n = k + 2 => ArchRegs[T1] = HaltAddress
  BY DEF Place
<1>2. Arch!Instruction = InstrAt(4 * n) /\ Arch!Instruction.op = "STORE"
  BY <1>1, ArchInstruction DEF Arch!Store
<1>3. ~(n \in 0 .. k - 1)
  BY <1>2 DEF HaltsAt, StaysBefore
<1>4. n # k
  <2>1. PICK byte \in Byte : InstrAt(4 * k) = LiT0(byte)
    BY MacroInstructions
  <2>2. LiT0(byte).op = "AL_IMM"
    BY DEF LiT0, ZeroInstr
  <2> QED BY <1>2, <2>1, <2>2
<1>5. n # k + 1
  BY <1>2, MacroInstructions DEF LiT1, ZeroInstr
<1>6. n # k + 3
  BY <1>2, MacroInstructions DEF SelfLoop, ZeroInstr
<1>7. n = k + 2
  BY <1>3, <1>4, <1>5, <1>6, SMT
<1>8. Arch!Instruction = Sw
  BY <1>2, <1>7, MacroInstructions
<1>9. /\ Arch!Instruction.rs1 = T1 /\ Arch!Instruction.rs2 = T0
      /\ Arch!Instruction.imm = 0 /\ T0 # 0 /\ T1 # 0
  BY <1>8, MacroAssumption DEF Sw, ZeroInstr
<1>10. Arch!V1 = HaltAddress /\ Arch!V2 = rom[k].imm /\ Arch!Imm = 0
  BY <1>1, <1>7, <1>9 DEF Arch!V1, Arch!V2, Arch!Val, Arch!Imm
<1>11. Add(HaltAddress, 0) = HaltAddress
  BY AddNothing, TestbenchAssumption
<1> QED BY <1>10, <1>11, SameOperators DEF Arch!Store, BuiltFunct3

\* Every step keeps the place; a memory that has changed since holds the test's byte.
LEMMA PlaceNext ==
    ASSUME IInv, [Next]_vars, PlaceInv, Decided(NextMem)
    PROVE  PlaceInv' /\ Decided(NextMem)'
<1>1. Arch!Step \/ Arch!Restart \/ UNCHANGED Arch!vars
  BY RefinesNext
<1>2. rom' = rom
  BY <1>1, StepIs DEF Arch!Restart, Arch!vars
<1>3. \A k : HaltsAt(k)' <=> HaltsAt(k)
  BY <1>2, SameTest
<1>4. ASSUME NEW k \in DOMAIN rom \cap Nat, HaltsAt(k) PROVE Place(k)'
  <2>1. Place(k)
    BY <1>4 DEF PlaceInv
  <2>2. CASE Arch!Step
    BY <1>4, <2>1, <2>2, PlaceStep
  <2>3. CASE Arch!Restart
    <3>1. ArchPc' = 4 * 0 /\ 0 \in 0 .. k + 3 /\ 0 \notin {k + 1, k + 2}
      BY <2>3, SMT DEF Arch!Restart
    <3> QED BY <3>1 DEF Place
  <2>4. CASE UNCHANGED Arch!vars
    BY <2>1, <2>4 DEF Arch!vars, Place
  <2> QED BY <1>1, <2>2, <2>3, <2>4
<1>5. PlaceInv'
  BY <1>2, <1>3, <1>4 DEF PlaceInv
<1>6. CASE NextMem' = NextMem
  <2>1. Decided(NextMem)'
    BY <1>2, <1>3, <1>6 DEF Decided
  <2> QED BY <1>5, <2>1
<1>7. CASE NextMem' # NextMem
  <2>1. Arch!Step /\ Arch!Store
    <3>1. Arch!Step
      BY <1>1, <1>7 DEF Arch!Restart, Arch!vars
    <3> QED BY <1>7, <3>1
        DEF Arch!Step, Arch!AlReg, Arch!AlImm, Arch!Load, Arch!Branch, Arch!Jal, Arch!Jalr,
            Arch!Lui, Arch!Auipc, Arch!Undefined, Arch!Retire
  <2>2. \E n \in DOMAIN rom' : rom'[n].op = "STORE"
    <3>1. Arch!Instruction.op = "STORE"
      BY <2>1 DEF Arch!Store
    <3>2. ArchPc \div 4 \in DOMAIN rom /\ rom[ArchPc \div 4].op = "STORE"
      BY <3>1, SameOperators DEF Arch!Instruction, ZeroInstr
    <3> QED BY <1>2, <3>2
  <2>3. ASSUME NEW k \in DOMAIN rom \cap Nat, HaltsAt(k)
        PROVE  NextMem'[HaltAddress] = rom[k].imm
    <3>1. NextMem' = MemWrite(NextMem, HaltAddress, rom[k].imm, Funct3AtInit)
      BY <2>1, <2>3, TestStores DEF PlaceInv
    <3>2. rom[k].imm \in Byte /\ HaltAddress \in Word
      BY <2>3, MacroInstructions, TestbenchAssumption
    <3> QED BY <1>7, <3>1, <3>2, StoresLowByte
  <2>4. Decided(NextMem)'
    BY <1>2, <1>3, <2>2, <2>3 DEF Decided
  <2> QED BY <1>5, <2>4
<1> QED BY <1>5, <1>6, <1>7

LEMMA PlaceInit == TbInit => PlaceInv /\ Decided(NextMem) /\ Decided(mem)
<1> SUFFICES ASSUME TbInit PROVE PlaceInv /\ Decided(NextMem) /\ Decided(mem)
  OBVIOUS
<1>1. ArchPc = 0 /\ NextMem = EmptyMemory
  BY RefinesInit, SameOperators DEF TbInit, Arch!Init
<1>2. ASSUME NEW k \in DOMAIN rom \cap Nat PROVE Place(k)
  <2>1. ArchPc = 4 * 0 /\ 0 \in 0 .. k + 3 /\ 0 \notin {k + 1, k + 2}
    BY <1>1, SMT
  <2> QED BY <2>1 DEF Place
<1>3. HaltAddress \notin DOMAIN NextMem /\ HaltAddress \notin DOMAIN mem
  BY <1>1 DEF TbInit, Init, EmptyMemory
<1> QED BY <1>2, <1>3 DEF PlaceInv, Decided

\* The watching process says what the halt byte says.
LEMMA WatchSays ==
    ASSUME NEW m, HaltAddress \in DOMAIN m
    PROVE  VerdictOf(m[HaltAddress]) \in Watch(m).lines
<1> DEFINE h == HaltLines(m)
<1>1. h = {VerdictOf(m[HaltAddress])}
  <2>0. 0 # 1
    OBVIOUS
  <2>1. CASE m[HaltAddress] = 0
    <3>1. h = {"PASSED"}
      BY <2>0, <2>1, Zenon DEF HaltLines
    <3>2. VerdictOf(m[HaltAddress]) = "PASSED"
      BY <2>0, <2>1, Zenon DEF VerdictOf
    <3> QED BY <3>1, <3>2
  <2>2. CASE m[HaltAddress] = 1
    <3>1. h = {"FAILED"}
      BY <2>0, <2>2, Zenon DEF HaltLines
    <3>2. VerdictOf(m[HaltAddress]) = "FAILED"
      BY <2>0, <2>2, Zenon DEF VerdictOf
    <3> QED BY <3>1, <3>2
  <2>3. CASE m[HaltAddress] # 0 /\ m[HaltAddress] # 1
    <3>1. h = {"INCORRECT"}
      BY <2>3, Zenon DEF HaltLines
    <3>2. VerdictOf(m[HaltAddress]) = "INCORRECT"
      BY <2>3, Zenon DEF VerdictOf
    <3> QED BY <3>1, <3>2
  <2> QED BY <2>1, <2>2, <2>3
<1>2. h \subseteq Watch(m).lines
  <2>1. CASE Late /\ h \subseteq {"PASSED"}
    <3>1. Watch(m) = [lines |-> h \cup {"TIMED_OUT"}, exit |-> "fatal"]
      BY <2>1, Zenon DEF Watch
    <3> HIDE DEF h
    <3> QED BY <3>1
  <2>2. CASE ~(Late /\ h \subseteq {"PASSED"})
    <3> DEFINE e == CASE h = {} -> "running" [] h = {"PASSED"} -> "finish"
                      [] OTHER -> "fatal"
    <3>1. Watch(m) = [lines |-> h, exit |-> e]
      BY <2>2, Zenon DEF Watch
    <3> HIDE DEF h, e
    <3> QED BY <3>1
  <2> QED BY <2>1, <2>2
<1> HIDE DEF h
<1> QED BY <1>1, <1>2

\* For every program, of any length: a test that ends in a halt macro gets the verdict
\* of that macro or runs out of time, and a program that stores nothing gets none
\* (tb_data_path.sv, rvmodel_macros.h and data_path.sv together).
THEOREM VerdictCorrect == TbSpec => []VerdictIsTheTests
<1> DEFINE J == PlaceInv /\ Decided(NextMem) /\ Decided(mem)
<1>1. TbInit => J /\ VerdictIsTheTests
  BY PlaceInit DEF TbInit, VerdictIsTheTests
<1>2. IInv /\ J /\ VerdictIsTheTests /\ [Edge]_sim_vars => (J /\ VerdictIsTheTests)'
  <2> SUFFICES ASSUME IInv, J, VerdictIsTheTests, [Edge]_sim_vars
               PROVE  J' /\ VerdictIsTheTests'
    OBVIOUS
  <2>1. PlaceInv' /\ Decided(NextMem)'
    BY EdgeIsNext, PlaceNext
  <2>2. CASE UNCHANGED sim_vars
    <3>1. rom' = rom /\ mem' = mem /\ summary' = summary
      BY <2>2 DEF sim_vars, vars, tb_vars
    <3>2. Decided(mem)'
      BY <3>1, SameTest DEF Decided
    <3>3. VerdictIsTheTests'
      BY <3>1, SameTest DEF VerdictIsTheTests, OnlyTimedOut
    <3> QED BY <2>1, <3>2, <3>3
  <2>3. CASE Edge
    <3>1. rom' = rom /\ mem' = NextMem
      BY <2>3, EdgeStores DEF Edge, Run, Reset, WriteState
    <3>2. Decided(mem)'
      BY <3>1, SameTest DEF Decided
    <3>3. PICK m \in {mem, NextMem} : summary' = Watch(m).lines
      BY <2>3, EdgeWatches
    <3>4. CASE HaltAddress \notin DOMAIN m
      <4>1. summary' = {} \/ summary' = {"TIMED_OUT"}
        BY <3>3, <3>4, WatchCases
      <4>2. VerdictIsTheTests'
        BY <4>1 DEF VerdictIsTheTests, OnlyTimedOut
      <4> QED BY <2>1, <3>2, <4>2
    <3>5. CASE HaltAddress \in DOMAIN m
      <4>1. /\ \E n \in DOMAIN rom : rom[n].op = "STORE"
            /\ \A k \in DOMAIN rom \cap Nat : HaltsAt(k) => m[HaltAddress] = rom[k].imm
        BY <3>5, <3>3 DEF Decided
      <4>2. VerdictOf(m[HaltAddress]) \in summary'
        BY <3>3, <3>5, WatchSays
      <4>3. VerdictIsTheTests'
        BY <3>1, <4>1, <4>2, SameTest DEF VerdictIsTheTests
      <4> QED BY <2>1, <3>2, <4>3
    <3> QED BY <3>4, <3>5
  <2> QED BY <2>2, <2>3
<1>3. TbSpec => []IInv
  BY SimulationRunsPipeline, InvariantHolds, PTL
<1> HIDE DEF J
<1> QED BY <1>1, <1>2, <1>3, PTL DEF TbSpec
=============================================================================
