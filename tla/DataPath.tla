------------------------------ MODULE DataPath -------------------------------
(***************************************************************************)
(* The five-stage pipeline of bonato-2 v1 (src/rtl/v1/data_path.sv, with   *)
(* the program counter, the instruction memory and the register file it    *)
(* wires): fetch, decode, execute, memory and write-back, separated by the *)
(* pipeline registers if_id, id_ex, ex_mem and mem_wb.                     *)
(*                                                                         *)
(* The variables are the clocked state; everything combinational is a      *)
(* definition over them.  One step is one rising clock edge: all registers *)
(* change at once, from the values the combinational logic has before the  *)
(* edge.                                                                   *)
(***************************************************************************)
EXTENDS Decoder, Forwarding, Hazard, DataMem

CONSTANTS
    AluOut(_, _, _),           \* The ALU: alu_op, operands a and b.
    ComparisonResult(_, _, _), \* The comparator: funct3, operands a and b.
    Funct3AtInit,              \* ex_mem.funct3 when data_mem's initialisers run.
    Programs,                  \* Contents the testbench may load into the rom.
    PowerUpRegisters           \* Register files at power-up: they are not reset.

ASSUME AluAssumption ==
    /\ \A op \in AluOp, a, b \in Word : AluOut(op, a, b) \in Word
    /\ \A a, b \in Word : AluOut(ALU_ADD, a, b) = Add(a, b)

ASSUME ComparatorAssumption ==
    \A f3 \in Funct3, a, b \in Word : ComparisonResult(f3, a, b) \in BOOLEAN

ASSUME DataPathAssumption ==
    /\ Funct3AtInit \in Funct3
    /\ \A p \in Programs : p \in [DOMAIN p -> Instr]
    /\ PowerUpRegisters \subseteq [Reg \ {0} -> Word]

VARIABLES
    rom,        \* instr_mem_i.rom: instruction number (address >> 2) -> instruction.
    pc,         \* pc_i.currentpc, the address being fetched.
    if_id, id_ex, ex_mem, mem_wb,  \* The pipeline registers.
    registers,  \* regfile_i.registers; entry 0 is never read nor written.
    mem         \* data_mem_i.mem.

vars == <<rom, pc, if_id, id_ex, ex_mem, mem_wb, registers, mem>>

\* The values of the pipeline registers that '0 stands for.
EmptyIfId == [pc |-> 0, pcplus4 |-> 0, instr |-> ZeroInstr]
EmptyIdEx == [pc |-> 0, pcplus4 |-> 0, rs1_val |-> 0, rs2_val |-> 0,
              ctl |-> ZeroControl(0)]
EmptyExMem == [pcplus4 |-> 0, alu_out |-> 0, rs2_val |-> 0, rd |-> 0,
               funct3 |-> 0, mem_mode |-> "MEM_READ", rf_in_sel |-> "ALU_OUT"]
EmptyMemWb == [pcplus4 |-> 0, alu_out |-> 0, mem_out |-> 0, rd |-> 0,
               rf_in_sel |-> "ALU_OUT"]

-----------------------------------------------------------------------------
(* Fetch: the word at pc (zero when unmapped) and the incremented pc.      *)

InstrAt(addr) == IF addr \div 4 \in DOMAIN rom THEN rom[addr \div 4] ELSE ZeroInstr

\* Faulty variant: the incremented pc keeps its carry.
FetchedWithCarry == [pc |-> pc, pcplus4 |-> pc + 4, instr |-> InstrAt(pc)]

Fetched == [pc |-> pc, pcplus4 |-> Add(pc, 4), instr |-> InstrAt(pc)]

(* Write-back: the word written to the register file at the next edge.     *)

WriteData ==
    CASE mem_wb.rf_in_sel = "MEM_OUT"  -> mem_wb.mem_out
      [] mem_wb.rf_in_sel = "PC_PLUS4" -> mem_wb.pcplus4
      [] OTHER -> mem_wb.alu_out

(* Decode: the control signals and the register file read, which sees the  *)
(* word being written back in the same cycle.                              *)

RegRead(r) ==
    CASE r = 0 -> 0
      [] r # 0 /\ r = mem_wb.rd -> WriteData
      [] OTHER -> registers[r]

Decoded ==
    LET ctl == Decode(if_id.instr)
    IN  [pc |-> if_id.pc, pcplus4 |-> if_id.pcplus4,
         rs1_val |-> RegRead(ctl.rs1), rs2_val |-> RegRead(ctl.rs2), ctl |-> ctl]

(* Execute: forwarded operands, ALU, comparator.                           *)

Forwarded(rs, rs_val) ==
    LET source == GetForward(rs, ex_mem.rd, ex_mem.rf_in_sel,
                                 mem_wb.rd, mem_wb.rf_in_sel)
    IN  CASE source = "ALU_OUT_MEM" -> ex_mem.alu_out
          [] source = "ALU_OUT_WB"  -> mem_wb.alu_out
          [] source = "MEM_OUT_WB"  -> mem_wb.mem_out
          [] OTHER -> rs_val

Rs1Forwarded == Forwarded(id_ex.ctl.rs1, id_ex.rs1_val)
Rs2Forwarded == Forwarded(id_ex.ctl.rs2, id_ex.rs2_val)

AluResult ==
    AluOut(id_ex.ctl.alu_op,
           IF id_ex.ctl.alu_in1_sel = "PC" THEN id_ex.pc ELSE Rs1Forwarded,
           IF id_ex.ctl.alu_in2_sel = "IMM" THEN id_ex.ctl.imm ELSE Rs2Forwarded)

\* Both inputs of the comparator are wired to rs1_val_forwarded_ex.
Comparison == ComparisonResult(id_ex.ctl.funct3, Rs1Forwarded, Rs1Forwarded)

\* nextpc_is_branch_ex_cond
BranchTaken ==
    id_ex.ctl.nextpc_is_branch /\ (id_ex.ctl.is_cond => Comparison)

NextPc == Align(IF BranchTaken THEN AluResult ELSE Fetched.pcplus4)

\* Faulty variant: a store takes its data from the register file only.
ExecutedStaleStore ==
    [pcplus4 |-> id_ex.pcplus4, alu_out |-> AluResult, rs2_val |-> id_ex.rs2_val,
     rd |-> id_ex.ctl.rd, funct3 |-> id_ex.ctl.funct3,
     mem_mode |-> id_ex.ctl.mem_mode, rf_in_sel |-> id_ex.ctl.rf_in_sel]

\* ex_mem_d
Executed ==
    [pcplus4 |-> id_ex.pcplus4, alu_out |-> AluResult, rs2_val |-> Rs2Forwarded,
     rd |-> id_ex.ctl.rd, funct3 |-> id_ex.ctl.funct3,
     mem_mode |-> id_ex.ctl.mem_mode, rf_in_sel |-> id_ex.ctl.rf_in_sel]

(* Memory: a read is combinational; during a store mem_out keeps the word  *)
(* of the cycle before (always_comb assigns it only when reading).         *)

MemOut ==
    IF ex_mem.mem_mode = "MEM_READ"
    THEN MemRead(mem, ex_mem.alu_out, Funct3AtInit)
    ELSE mem_wb.mem_out

Accessed ==
    [pcplus4 |-> ex_mem.pcplus4, alu_out |-> ex_mem.alu_out, mem_out |-> MemOut,
     rd |-> ex_mem.rd, rf_in_sel |-> ex_mem.rf_in_sel]

\* data_mem's contents after the edge.
NextMem ==
    IF ex_mem.mem_mode = "MEM_WRITE"
    THEN MemWrite(mem, ex_mem.alu_out, ex_mem.rs2_val, Funct3AtInit)
    ELSE mem

Signals ==
    LET ctl == Decode(if_id.instr)
    IN  HazardSignals(ctl.rs1, ctl.rs2, id_ex.ctl.rd, id_ex.ctl.rf_in_sel,
                      BranchTaken)

\* The pc register after an edge with rst low.
PcAfter == IF Signals.pc_we THEN NextPc ELSE pc

-----------------------------------------------------------------------------
(***************************************************************************)
(* The state after the testbench's reset pulse: the program is loaded, the *)
(* pc and the pipeline registers are cleared, the data memory is empty and *)
(* the registers hold whatever they powered up with.                       *)
(***************************************************************************)
Init ==
    /\ rom \in Programs
    /\ pc = 0
    /\ if_id = EmptyIfId
    /\ id_ex = EmptyIdEx
    /\ ex_mem = EmptyExMem
    /\ mem_wb = EmptyMemWb
    /\ registers \in PowerUpRegisters
    /\ mem = EmptyMemory

\* Neither the register file nor the data memory looks at rst.
WriteState ==
    /\ registers' = IF mem_wb.rd = 0 THEN registers
                    ELSE [registers EXCEPT ![mem_wb.rd] = WriteData]
    /\ mem' = NextMem
    /\ UNCHANGED rom

\* Faulty variant: a flush clears the pcs of ID/EX and not its control signals.
RunKeepingControl ==
    /\ pc' = PcAfter
    /\ if_id' = CASE Signals.if_id_flush -> EmptyIfId
                  [] ~Signals.if_id_flush /\ Signals.if_id_we -> Fetched
                  [] OTHER -> if_id
    /\ id_ex' = IF Signals.id_ex_flush THEN [EmptyIdEx EXCEPT !.ctl = Decoded.ctl] ELSE Decoded
    /\ ex_mem' = Executed
    /\ mem_wb' = Accessed
    /\ WriteState

\* A rising edge with rst low.
Run ==
    /\ pc' = PcAfter
    /\ if_id' = CASE Signals.if_id_flush -> EmptyIfId
                  [] ~Signals.if_id_flush /\ Signals.if_id_we -> Fetched
                  [] OTHER -> if_id
    /\ id_ex' = IF Signals.id_ex_flush THEN EmptyIdEx ELSE Decoded
    /\ ex_mem' = Executed
    /\ mem_wb' = Accessed
    /\ WriteState

\* Faulty variants: a reset forgets to clear a pipeline register.
ResetKeepsDecode ==
    /\ pc' = 0
    /\ if_id' = if_id
    /\ id_ex' = EmptyIdEx /\ ex_mem' = EmptyExMem /\ mem_wb' = EmptyMemWb
    /\ WriteState
ResetKeepsExecute ==
    /\ pc' = 0
    /\ if_id' = EmptyIfId
    /\ id_ex' = id_ex /\ ex_mem' = EmptyExMem /\ mem_wb' = EmptyMemWb
    /\ WriteState

\* A rising edge with rst high.
Reset ==
    /\ pc' = 0
    /\ if_id' = EmptyIfId
    /\ id_ex' = EmptyIdEx
    /\ ex_mem' = EmptyExMem
    /\ mem_wb' = EmptyMemWb
    /\ WriteState

Next == Run \/ Reset

Spec == Init /\ [][Next]_vars

\* The testbench's clock never stops and, after Init, rst stays low.
RunSpec == Init /\ [][Run]_vars /\ WF_vars(Run)
=============================================================================
