------------------------------- MODULE Pipeline ------------------------------
(***************************************************************************)
(* What makes the pipeline of DataPath correct: the invariants of its      *)
(* forwarding, stall and flush logic, and the mapping under which it       *)
(* implements Isa.                                                         *)
(***************************************************************************)
EXTENDS DataPath

\* The stages have no valid bit (NOTES-v1.md names it as a possible change), but
\* a stage holds an instruction, and not a bubble, exactly when its pcplus4
\* was computed from its pc.
Valid(stage) == stage.pcplus4 # stage.pc

(* An instruction takes effect, for the programmer, when it leaves execute. *)
(* What it has still to write to the registers or to the memory is in       *)
(* ex_mem and mem_wb; what was fetched behind it does not exist yet.        *)

\* The word the instruction in the memory stage is going to write to rd.
ExMemValue ==
    CASE ex_mem.rf_in_sel = "MEM_OUT"  -> MemRead(mem, ex_mem.alu_out, Funct3AtInit)
      [] ex_mem.rf_in_sel = "PC_PLUS4" -> ex_mem.pcplus4
      [] OTHER -> ex_mem.alu_out

ArchRegs ==
    [r \in Reg \ {0} |-> CASE r = ex_mem.rd -> ExMemValue
                           [] r # ex_mem.rd /\ r = mem_wb.rd -> WriteData
                           [] OTHER -> registers[r]]

ArchVal(r) == IF r = 0 THEN 0 ELSE ArchRegs[r]

ArchPc == CASE Valid(id_ex) -> id_ex.pc
            [] ~Valid(id_ex) /\ Valid(if_id) -> if_id.pc
            [] OTHER -> pc

\* The branch condition and the access width of the code as it is built.
BuiltCondition(funct3, v1, v2) == ComparisonResult(funct3, v1, v1)
BuiltFunct3(funct3) == Funct3AtInit

Arch == INSTANCE Isa WITH pc <- ArchPc, regs <- ArchRegs, mem <- NextMem,
                          BranchCondition <- BuiltCondition,
                          AccessFunct3 <- BuiltFunct3

-----------------------------------------------------------------------------
IfId == [pc : Word, pcplus4 : Word, instr : Instr]
IdEx == [pc : Word, pcplus4 : Word, rs1_val : Word, rs2_val : Word, ctl : Control]
ExMem == [pcplus4 : Word, alu_out : Word, rs2_val : Word, rd : Reg,
          funct3 : Funct3, mem_mode : MemMode, rf_in_sel : RfInSel]
MemWb == [pcplus4 : Word, alu_out : Word, mem_out : Word, rd : Reg,
          rf_in_sel : RfInSel]

\* Type invariant: every register of the data path holds a value of its width.
TypeOK ==
    /\ rom \in Programs
    /\ pc \in Word
    /\ if_id \in IfId
    /\ id_ex \in IdEx
    /\ ex_mem \in ExMem
    /\ mem_wb \in MemWb
    /\ registers \in [Reg \ {0} -> Word]
    /\ IsMemory(mem)

\* The operands the execute stage computes with are the values the registers
\* have in program order, whatever older instructions are still in flight:
\* forwarding, the load-use stall and the register file's write-through
\* together leave no gap (forwarding.sv, hazard.sv, regfile.sv).
ForwardedOperandsCurrent ==
    /\ Rs1Forwarded = ArchVal(id_ex.ctl.rs1)
    /\ Rs2Forwarded = ArchVal(id_ex.ctl.rs2)

\* A register the instruction in execute reads is never one for which the
\* forwarding unit has no source: a word still to be loaded, or a link address
\* (get_forward falls through to FORWARD_NONE there, and the id_ex value would
\* be stale).  The load-use stall and the flush behind jumps see to it.
Unforwardable(rs) ==
    \/ rs = ex_mem.rd /\ ex_mem.rf_in_sel # "ALU_OUT"
    \/ rs # ex_mem.rd /\ rs = mem_wb.rd /\ mem_wb.rf_in_sel = "PC_PLUS4"

UnforwardableNeverNeeded ==
    \A rs \in {id_ex.ctl.rs1, id_ex.ctl.rs2} \ {0} : ~Unforwardable(rs)

\* Fetch, decode and execute hold consecutive instructions of the program, with
\* bubbles only where a flush or a stall put them, and each carries the word
\* and the control signals of its own address: no instruction is skipped,
\* repeated or taken from a squashed path.
StagesInProgramOrder ==
    /\ Valid(if_id) => if_id.instr = InstrAt(if_id.pc) /\ pc = if_id.pcplus4
    /\ Valid(id_ex) => /\ id_ex.ctl = Decode(InstrAt(id_ex.pc))
                       /\ Valid(if_id)
                       /\ if_id.pc = id_ex.pcplus4

\* A stall lasts one cycle: the bubble it inserts cannot cause another.
StallIsOneCycle == [][~Signals.pc_we => Signals.pc_we']_vars

\* A stall or a flush costs no more than the bubbles it inserted: with execute
\* empty nothing stalls or flushes, so decode's instruction is the next to execute
\* and a fetched one follows it.  Never are more than two bubbles in a row executed.
BubblesDrain ==
    [][Run /\ ~Valid(id_ex) =>
           /\ Valid(if_id)' /\ if_id'.pc = pc
           /\ Valid(if_id) => Valid(id_ex)' /\ id_ex'.pc = if_id.pc]_vars

\* Under the mapping above every clock edge is one step of Isa, or none.
ImplementsIsa == Arch!Spec
ImplementsIsaRun == Arch!RunSpec

\* Instructions keep reaching the execute stage: no program can make the
\* pipeline stall or flush itself forever.
Progress == []<>Valid(id_ex)

-----------------------------------------------------------------------------
(* The inductive invariant behind the properties above.                    *)

\* A flushed or reset stage holds no leftover of the instruction it dropped.
BubblesAreEmpty ==
    /\ ~Valid(if_id) => if_id = EmptyIfId
    /\ ~Valid(id_ex) => id_ex = EmptyIdEx

PcAligned == pc % 4 = 0

\* The operands in id_ex were read, or written through, at the last edge.
RegVal(r) == IF r = 0 THEN 0 ELSE registers[r]

OperandsAsRead ==
    /\ id_ex.rs1_val = RegVal(id_ex.ctl.rs1)
    /\ id_ex.rs2_val = RegVal(id_ex.ctl.rs2)

\* Behind a jump that links there are two bubbles.
LinkLeavesBubbles ==
    ex_mem.rf_in_sel = "PC_PLUS4" => ~Valid(id_ex) /\ ~Valid(if_id)

\* Addresses are aligned and carry their successor.
PcPlus4Carried ==
    /\ Valid(if_id) => if_id.pc % 4 = 0 /\ if_id.pcplus4 = Add(if_id.pc, 4)
    /\ Valid(id_ex) => id_ex.pc % 4 = 0 /\ id_ex.pcplus4 = Add(id_ex.pc, 4)

\* The mem_out held over from an earlier load while a store is in the memory
\* stage goes to no register.
StoreWritesNoRegister ==
    ex_mem.mem_mode = "MEM_WRITE" => ex_mem.rd = 0

IInv ==
    /\ TypeOK
    /\ BubblesAreEmpty
    /\ PcAligned
    /\ StagesInProgramOrder
    /\ OperandsAsRead
    /\ LinkLeavesBubbles
    /\ PcPlus4Carried
    /\ StoreWritesNoRegister
    /\ UnforwardableNeverNeeded

-----------------------------------------------------------------------------
\* NOTES-v1.md: the execute stage has "a parallel comparison unit (which
\* compares rs1 and rs2)".
BranchComparesRs1AndRs2 ==
    id_ex.ctl.is_cond =>
        (BranchTaken <=>
            ComparisonResult(id_ex.ctl.funct3, Rs1Forwarded, Rs2Forwarded))

\* NOTES-v1.md: the memory stage gets "funct3 (to choose between
\* loading/storing a word/half/byte)".
AccessHasTheInstructionsWidth ==
    /\ ex_mem.rf_in_sel = "MEM_OUT" =>
           MemOut = MemRead(mem, ex_mem.alu_out, ex_mem.funct3)
    /\ ex_mem.mem_mode = "MEM_WRITE" =>
           NextMem = MemWrite(mem, ex_mem.alu_out, ex_mem.rs2_val, ex_mem.funct3)
=============================================================================
