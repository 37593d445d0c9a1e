--------------------------- MODULE RefinementProofs --------------------------
(***************************************************************************)
(* Proof that the pipeline implements Isa under the mapping of Pipeline:   *)
(* the initial states map to initial states, and every clock edge maps to  *)
(* one instruction of Isa, to its Restart or to a stutter.                 *)
(***************************************************************************)
EXTENDS PipelineProofs

\* Isa's operators on words and memories are the ones of the data path.
LEMMA SameOperators ==
    /\ Arch!Word = Word
    /\ Arch!EmptyMemory = EmptyMemory
    /\ Arch!ZeroInstr = ZeroInstr
    /\ \A a, b : Arch!Add(a, b) = Add(a, b)
    /\ \A a : Arch!Align(a) = Align(a)
    /\ \A m, a, f3 : Arch!MemRead(m, a, f3) = MemRead(m, a, f3)
    /\ \A m, a, d, f3 : Arch!MemWrite(m, a, d, f3) = MemWrite(m, a, d, f3)
  <1>1. Arch!Word = Word /\ Arch!EmptyMemory = EmptyMemory
    BY DEF Arch!Word, Word, Arch!EmptyMemory, EmptyMemory
  <1>2. Arch!ZeroInstr = ZeroInstr
    BY DEF Arch!ZeroInstr, ZeroInstr
  <1>3. \A a, b : Arch!Add(a, b) = Add(a, b)
    BY DEF Arch!Add, Add
  <1>4. \A a : Arch!Align(a) = Align(a)
    BY DEF Arch!Align, Align
  <1>5. ASSUME NEW m, NEW a, NEW f3
        PROVE  Arch!MemRead(m, a, f3) = MemRead(m, a, f3)
    <2>1. \A x : Arch!ByteAt(m, x) = ByteAt(m, x)
      BY DEF Arch!ByteAt, ByteAt
    <2>2. \A x, e : Arch!Filler(x, e) = Filler(x, e)
      BY DEF Arch!Filler, Filler
    <2>3. \A b0, b1, b2, b3 : Arch!WordOf(b0, b1, b2, b3) = WordOf(b0, b1, b2, b3)
      BY DEF Arch!WordOf, WordOf
    <2>4. /\ Arch!Size(f3) = Size(f3) /\ Arch!SignExt(f3) = SignExt(f3)
          /\ Arch!SIZE_BYTE = SIZE_BYTE /\ Arch!SIZE_HALF = SIZE_HALF
          /\ Arch!SIZE_WORD = SIZE_WORD
      BY DEF Arch!Size, Size, Arch!SignExt, SignExt, Arch!SIZE_BYTE, SIZE_BYTE,
             Arch!SIZE_HALF, SIZE_HALF, Arch!SIZE_WORD, SIZE_WORD
    <2> QED BY <1>3, <2>1, <2>2, <2>3, <2>4 DEF Arch!MemRead, MemRead
  <1>6. ASSUME NEW m, NEW a, NEW d, NEW f3
        PROVE  Arch!MemWrite(m, a, d, f3) = MemWrite(m, a, d, f3)
    <2>1. \A x, y : Arch!Overwrite(x, y) = Overwrite(x, y)
      BY DEF Arch!Overwrite, Overwrite
    <2>2. \A n : Arch!StoredBytes(a, d, n) = StoredBytes(a, d, n)
      BY <1>3 DEF Arch!StoredBytes, StoredBytes, Arch!Byte0, Byte0, Arch!Byte1, Byte1,
                  Arch!Byte2, Byte2, Arch!Byte3, Byte3
    <2>3. /\ Arch!Size(f3) = Size(f3)
          /\ Arch!SIZE_BYTE = SIZE_BYTE /\ Arch!SIZE_HALF = SIZE_HALF
          /\ Arch!SIZE_WORD = SIZE_WORD
      BY DEF Arch!Size, Size, Arch!SIZE_BYTE, SIZE_BYTE, Arch!SIZE_HALF, SIZE_HALF,
             Arch!SIZE_WORD, SIZE_WORD
    <2> QED BY <2>1, <2>2, <2>3 DEF Arch!MemWrite, MemWrite
  <1> QED BY <1>1, <1>2, <1>3, <1>4, <1>5, <1>6

LEMMA RefinesInit == Init => Arch!Init
  <1> SUFFICES ASSUME Init PROVE ArchPc = 0 /\ NextMem = EmptyMemory
    BY SameOperators DEF Arch!Init
  <1>1. ArchPc = 0
    BY EmptyInvalid DEF Init, ArchPc
  <1>2. NextMem = EmptyMemory
    BY DEF Init, NextMem, EmptyExMem
  <1> QED BY <1>1, <1>2

\* A reset keeps the memory and loses at most the result in the memory stage.
LEMMA RefinesReset ==
    ASSUME IInv, Reset
    PROVE  Arch!Restart
  <1>1. ArchPc' = 0
    BY EmptyInvalid DEF Reset, ArchPc, Valid
  <1>2. NextMem' = NextMem
    BY DEF Reset, WriteState, NextMem, EmptyExMem
  <1>3. rom' = rom
    BY DEF Reset, WriteState
  <1>4. \/ ArchRegs' = ArchRegs
        \/ \E r \in DOMAIN ArchRegs, w \in Word :
               ArchRegs' = [ArchRegs EXCEPT ![r] = w]
    <2>1. /\ registers' \in [Reg \ {0} -> Word]
          /\ ex_mem.rd \in Reg
          /\ DOMAIN ArchRegs = Reg \ {0}
      BY WriteStateType DEF IInv, TypeOK, Reset, ExMem, ArchRegs
    <2>2. ASSUME NEW r \in Reg \ {0} PROVE ArchRegs'[r] = registers'[r]
      BY DEF Reset, ArchRegs, EmptyExMem, EmptyMemWb
    <2>3. ASSUME NEW r \in Reg \ {0}, r # ex_mem.rd
          PROVE  ArchRegs[r] = registers'[r]
      BY <2>3 DEF Reset, WriteState, ArchRegs, IInv, TypeOK
    <2>4. ArchRegs' = [r \in Reg \ {0} |-> ArchRegs'[r]]
      BY DEF ArchRegs
    <2>5. CASE ex_mem.rd = 0
      <3>1. ArchRegs' = ArchRegs
        BY <2>2, <2>3, <2>5 DEF ArchRegs
      <3> QED BY <3>1
    <2>6. CASE ex_mem.rd # 0
      <3>1. ArchRegs' = [ArchRegs EXCEPT ![ex_mem.rd] = registers'[ex_mem.rd]]
        <4>1. \A r \in Reg \ {0} :
                  ArchRegs'[r] = IF r = ex_mem.rd THEN registers'[r] ELSE ArchRegs[r]
          BY <2>2, <2>3
        <4>2. ArchRegs' = [r \in Reg \ {0} |-> IF r = ex_mem.rd THEN registers'[r]
                                                              ELSE ArchRegs[r]]
          BY <2>4, <4>1
        <4> QED BY <2>1, <4>2
      <3>2. ex_mem.rd \in DOMAIN ArchRegs /\ registers'[ex_mem.rd] \in Word
        BY <2>1, <2>6
      <3> QED BY <3>1, <3>2
    <2> QED BY <2>5, <2>6
  <1> QED BY <1>1, <1>2, <1>3, <1>4, SameOperators DEF Arch!Restart
-----------------------------------------------------------------------------
(* One clock edge with rst low, seen through the mapping.                  *)

\* Only the instruction that leaves execute changes the mapped registers.
LEMMA RunRegs ==
    ASSUME IInv, Run
    PROVE  ArchRegs' = [r \in Reg \ {0} |-> IF r = id_ex.ctl.rd THEN ExMemValue'
                                                           ELSE ArchRegs[r]]
  <1>1. /\ ex_mem'.rd = id_ex.ctl.rd
        /\ mem_wb'.rd = ex_mem.rd
        /\ mem_wb'.rf_in_sel = ex_mem.rf_in_sel
        /\ mem_wb'.pcplus4 = ex_mem.pcplus4
        /\ mem_wb'.alu_out = ex_mem.alu_out
        /\ mem_wb'.mem_out = MemOut
    BY DEF Run, Executed, Accessed
  <1>2. ASSUME ex_mem.rd # 0
        PROVE  WriteData' = ExMemValue
    <2>1. ex_mem.mem_mode = "MEM_READ"
      BY <1>2 DEF IInv, StoreWritesNoRegister, TypeOK, ExMem, MemMode
    <2>2. MemOut = MemRead(mem, ex_mem.alu_out, Funct3AtInit)
      BY <2>1 DEF MemOut
    <2> QED BY <1>1, <2>2 DEF WriteData, ExMemValue
  <1>3. ASSUME NEW r \in Reg \ {0}, r # ex_mem.rd
        PROVE  registers'[r] = ArchRegs[r]
    BY <1>3 DEF Run, WriteState, ArchRegs, IInv, TypeOK
  <1>4. ASSUME NEW r \in Reg \ {0}, r = ex_mem.rd
        PROVE  ArchRegs[r] = ExMemValue
    BY <1>4 DEF ArchRegs
  <1>5. ASSUME NEW r \in Reg \ {0}
        PROVE  ArchRegs'[r] = IF r = id_ex.ctl.rd THEN ExMemValue' ELSE ArchRegs[r]
    <2>1. CASE r = id_ex.ctl.rd
      BY <1>1, <2>1 DEF ArchRegs
    <2>2. CASE r # id_ex.ctl.rd /\ r = ex_mem.rd
      <3>1. ArchRegs'[r] = WriteData'
        BY <1>1, <2>2 DEF ArchRegs
      <3> QED BY <1>2, <1>4, <2>2, <3>1
    <2>3. CASE r # id_ex.ctl.rd /\ r # ex_mem.rd
      <3>1. ArchRegs'[r] = registers'[r]
        BY <1>1, <2>3 DEF ArchRegs
      <3> QED BY <1>3, <2>3, <3>1
    <2> QED BY <2>1, <2>2, <2>3
  <1>6. ArchRegs' = [r \in Reg \ {0} |-> ArchRegs'[r]]
    BY DEF ArchRegs
  <1> QED BY <1>5, <1>6

\* What the leaving instruction writes, and the memory after it.
LEMMA RunValue ==
    ASSUME IInv, Run
    PROVE  /\ mem' = NextMem
           /\ id_ex.ctl.rf_in_sel = "MEM_OUT" =>
                  ExMemValue' = MemRead(NextMem, AluResult, Funct3AtInit)
           /\ id_ex.ctl.rf_in_sel = "PC_PLUS4" => ExMemValue' = id_ex.pcplus4
           /\ id_ex.ctl.rf_in_sel = "ALU_OUT" => ExMemValue' = AluResult
           /\ id_ex.ctl.mem_mode = "MEM_WRITE" =>
                  NextMem' = MemWrite(NextMem, AluResult, Rs2Forwarded, Funct3AtInit)
           /\ id_ex.ctl.mem_mode # "MEM_WRITE" => NextMem' = NextMem
  <1>1. mem' = NextMem
    BY DEF Run, WriteState
  <1>2. /\ ex_mem'.rf_in_sel = id_ex.ctl.rf_in_sel
        /\ ex_mem'.pcplus4 = id_ex.pcplus4
        /\ ex_mem'.alu_out = AluResult
        /\ ex_mem'.rs2_val = Rs2Forwarded
        /\ ex_mem'.mem_mode = id_ex.ctl.mem_mode
    BY DEF Run, Executed
  <1>3. /\ ex_mem'.rf_in_sel = "MEM_OUT" =>
               ExMemValue' = MemRead(mem', ex_mem'.alu_out, Funct3AtInit)
        /\ ex_mem'.rf_in_sel = "PC_PLUS4" => ExMemValue' = ex_mem'.pcplus4
        /\ ex_mem'.rf_in_sel = "ALU_OUT" => ExMemValue' = ex_mem'.alu_out
    BY DEF ExMemValue
  <1>4. NextMem' = IF ex_mem'.mem_mode = "MEM_WRITE"
                   THEN MemWrite(mem', ex_mem'.alu_out, ex_mem'.rs2_val, Funct3AtInit)
                   ELSE mem'
    BY DEF NextMem
  <1> QED BY <1>1, <1>2, <1>3, <1>4

\* The next instruction of the program is the branch target or the successor.
LEMMA RunPc ==
    ASSUME IInv, Run, Valid(id_ex)
    PROVE  /\ ArchPc = id_ex.pc
           /\ id_ex.pcplus4 = Add(id_ex.pc, 4)
           /\ ArchPc' = IF BranchTaken THEN Align(AluResult)
                                       ELSE Align(Add(id_ex.pc, 4))
  <1>1. ArchPc = id_ex.pc
    BY DEF ArchPc
  <1>2. /\ id_ex.pcplus4 = Add(id_ex.pc, 4)
        /\ Add(id_ex.pc, 4) = Align(Add(id_ex.pc, 4))
    BY NextAddress DEF IInv, PcPlus4Carried, TypeOK, IdEx
  <1>3. Valid(if_id) /\ if_id.pc = id_ex.pcplus4
    BY DEF IInv, StagesInProgramOrder
  <1>4. CASE BranchTaken
    <2>1. if_id' = EmptyIfId /\ id_ex' = EmptyIdEx /\ pc' = NextPc
      BY <1>4, RunStages DEF IInv
    <2>2. ArchPc' = pc'
      BY <2>1, EmptyInvalid DEF ArchPc, Valid
    <2> QED BY <1>1, <1>2, <1>4, <2>1, <2>2 DEF NextPc
  <1>5. CASE ~Signals.pc_we
    <2>1. if_id' = if_id /\ id_ex' = EmptyIdEx /\ ~BranchTaken
      BY <1>5, RunStages DEF IInv
    <2>2. ~Valid(id_ex)' /\ Valid(if_id)'
      BY <1>3, <2>1, EmptyInvalid DEF Valid
    <2>3. ArchPc' = if_id'.pc
      BY <2>2 DEF ArchPc
    <2> QED BY <1>1, <1>2, <1>3, <2>1, <2>3
  <1>6. CASE Signals.pc_we /\ ~BranchTaken
    <2>1. id_ex' = Decoded
      BY <1>6, RunStages DEF IInv
    <2>2. Valid(id_ex)' /\ id_ex'.pc = if_id.pc
      BY <1>3, <2>1, DecodedFields DEF Valid
    <2>3. ArchPc' = id_ex'.pc
      BY <2>2 DEF ArchPc
    <2> QED BY <1>1, <1>2, <1>3, <1>6, <2>2, <2>3
  <1> QED BY <1>4, <1>5, <1>6, RunStages DEF IInv

\* A bubble in execute is a stutter of Isa.
LEMMA BubbleStutters ==
    ASSUME IInv, Run, ~Valid(id_ex)
    PROVE  UNCHANGED Arch!vars
  <1>1. id_ex = EmptyIdEx /\ id_ex.ctl = ZeroControl(0)
    BY EmptyInvalid DEF IInv, BubblesAreEmpty
  <1>2. ~BranchTaken /\ id_ex.ctl.rd = 0 /\ id_ex.ctl.mem_mode = "MEM_READ"
        /\ id_ex.ctl.rf_in_sel = "ALU_OUT"
    BY <1>1 DEF BranchTaken, ZeroControl
  <1>3. Signals.pc_we
    BY <1>2 DEF Signals, HazardSignals, LoadUse
  <1>4. if_id' = Fetched /\ id_ex' = Decoded
    BY <1>2, <1>3, RunStages DEF IInv
  <1>5. ArchPc' = ArchPc
    <2>1. Valid(id_ex)' <=> Valid(if_id)
      BY <1>4, DecodedFields DEF Valid
    <2>2. CASE Valid(if_id)
      <3>1. ArchPc = if_id.pc
        BY <2>2 DEF ArchPc
      <3>2. ArchPc' = id_ex'.pc
        BY <2>1, <2>2 DEF ArchPc
      <3> QED BY <1>4, <3>1, <3>2, DecodedFields
    <2>3. CASE ~Valid(if_id)
      <3>1. ArchPc = pc
        BY <2>3 DEF ArchPc
      <3>2. Valid(if_id)' /\ if_id'.pc = pc
        BY <1>4, NextAddress DEF Fetched, Valid, IInv, TypeOK
      <3>3. ArchPc' = if_id'.pc
        BY <2>1, <2>3, <3>2 DEF ArchPc
      <3> QED BY <3>1, <3>2, <3>3
    <2> QED BY <2>2, <2>3
  <1>6. ArchRegs' = ArchRegs
    <2>1. \A r \in Reg \ {0} : r # id_ex.ctl.rd
      BY <1>2
    <2>2. ArchRegs' = [r \in Reg \ {0} |-> ArchRegs[r]]
      BY <2>1, RunRegs
    <2>3. ArchRegs = [r \in Reg \ {0} |-> ArchRegs[r]]
      BY DEF ArchRegs
    <2> QED BY <2>2, <2>3
  <1>7. NextMem' = NextMem
    BY <1>2, RunValue
  <1>8. rom' = rom
    BY DEF Run, WriteState
  <1> QED BY <1>5, <1>6, <1>7, <1>8 DEF Arch!vars
-----------------------------------------------------------------------------
(* The instruction that leaves execute is a step of Isa.                   *)

\* The instruction in execute, as Isa sees it.
LEMMA Current ==
    ASSUME IInv, Run, Valid(id_ex)
    PROVE  /\ Arch!Instruction \in Instr
           /\ id_ex.ctl = Decode(Arch!Instruction)
           /\ Rs1Forwarded = ArchVal(id_ex.ctl.rs1)
           /\ Rs2Forwarded = ArchVal(id_ex.ctl.rs2)
           /\ Arch!V1 = ArchVal(Arch!Instruction.rs1)
           /\ Arch!V2 = ArchVal(Arch!Instruction.rs2)
           /\ Arch!PcPlus4 = Add(id_ex.pc, 4)
           /\ ArchPc = id_ex.pc
           /\ Rs1Forwarded \in Word /\ Rs2Forwarded \in Word
           /\ id_ex.pc \in Word /\ id_ex.ctl.imm \in Word
  <1>1. ArchPc = id_ex.pc
    BY RunPc
  <1>2. Arch!Instruction = InstrAt(id_ex.pc)
    BY <1>1, SameOperators DEF Arch!Instruction, InstrAt
  <1>3. Arch!Instruction \in Instr /\ id_ex.ctl = Decode(Arch!Instruction)
    BY <1>2, InstrAtType DEF IInv, StagesInProgramOrder, TypeOK, IdEx
  <1>4. Rs1Forwarded = ArchVal(id_ex.ctl.rs1) /\ Rs2Forwarded = ArchVal(id_ex.ctl.rs2)
    BY IInvForwards DEF ForwardedOperandsCurrent
  <1>5. /\ Arch!V1 = ArchVal(Arch!Instruction.rs1)
        /\ Arch!V2 = ArchVal(Arch!Instruction.rs2)
    BY DEF Arch!V1, Arch!V2, Arch!Val, ArchVal
  <1>6. Arch!PcPlus4 = Add(id_ex.pc, 4)
    BY <1>1, SameOperators DEF Arch!PcPlus4
  <1>7. /\ Rs1Forwarded \in Word /\ Rs2Forwarded \in Word
        /\ id_ex.pc \in Word /\ id_ex.ctl.imm \in Word
    BY SignalTypes DEF IInv, TypeOK, IdEx, Control
  <1> QED BY <1>1, <1>3, <1>4, <1>5, <1>6, <1>7

\* An instruction that writes a register and not the memory.
LEMMA Retires ==
    ASSUME IInv, Run, Valid(id_ex), NEW w, NEW next,
           id_ex.ctl.rd = Arch!Instruction.rd, id_ex.ctl.mem_mode # "MEM_WRITE",
           ExMemValue' = w, ArchPc' = Align(next)
    PROVE  Arch!Retire(w, next)
  <1>1. ArchRegs' = Arch!Written(w)
    <2>1. DOMAIN ArchRegs = Reg \ {0}
      BY DEF ArchRegs
    <2> QED BY <2>1, RunRegs DEF Arch!Written
  <1>2. NextMem' = NextMem /\ rom' = rom
    BY RunValue DEF Run, WriteState
  <1> QED BY <1>1, <1>2, SameOperators DEF Arch!Retire

\* An instruction that writes no register.
LEMMA KeepsRegs ==
    ASSUME IInv, Run, id_ex.ctl.rd = 0
    PROVE  ArchRegs' = ArchRegs /\ rom' = rom
  <1>1. ArchRegs = [r \in Reg \ {0} |-> ArchRegs[r]]
    BY DEF ArchRegs
  <1>2. ArchRegs' = [r \in Reg \ {0} |-> ArchRegs[r]]
    <2>1. \A r \in Reg \ {0} : r # id_ex.ctl.rd
      OBVIOUS
    <2> QED BY <2>1, RunRegs
  <1> QED BY <1>1, <1>2 DEF Run, WriteState

\* The ALU adds in every instruction but the arithmetic ones.
LEMMA AluAdds ==
    ASSUME IInv, Run, Valid(id_ex), id_ex.ctl.alu_op = ALU_ADD,
           id_ex.ctl.alu_in2_sel = "IMM"
    PROVE  AluResult = IF id_ex.ctl.alu_in1_sel = "PC"
                       THEN Add(id_ex.pc, id_ex.ctl.imm)
                       ELSE Add(Rs1Forwarded, id_ex.ctl.imm)
  BY Current, AluAssumption DEF AluResult

LEMMA RetireIsStep ==
    ASSUME IInv, Run, Valid(id_ex)
    PROVE  Arch!Step
  <1> DEFINE i == Arch!Instruction
             ctl == id_ex.ctl
             target == ArchPc'
  <1>0. i.op \in OpCode /\ ctl = Decode(i)
    BY Current DEF Instr
  <1>a. ~BranchTaken => target = Align(Arch!PcPlus4)
    BY RunPc, Current
  <1>b. BranchTaken => target = Align(AluResult)
    BY RunPc
  <1>1. CASE i.op = "AL_REG"
    <2>1. /\ ctl.rs1 = i.rs1 /\ ctl.rs2 = i.rs2 /\ ctl.rd = i.rd
          /\ ctl.alu_op = 8 * i.mod + i.funct3
          /\ ctl.alu_in1_sel = "RS1" /\ ctl.alu_in2_sel = "RS2"
          /\ ctl.rf_in_sel = "ALU_OUT" /\ ctl.mem_mode = "MEM_READ"
          /\ ~ctl.nextpc_is_branch
      BY <1>0, <1>1 DEF Decode, ZeroControl
    <2>2. AluResult = AluOut(8 * i.mod + i.funct3, Arch!V1, Arch!V2)
      BY <2>1, Current DEF AluResult
    <2>3. ExMemValue' = AluResult /\ target = Align(Arch!PcPlus4)
      BY <2>1, <1>a, RunValue DEF BranchTaken
    <2>4. Arch!Retire(AluOut(8 * i.mod + i.funct3, Arch!V1, Arch!V2), Arch!PcPlus4)
      BY <2>1, <2>2, <2>3, Retires
    <2> QED BY <1>1, <2>4 DEF Arch!Step, Arch!AlReg
  <1>2. CASE i.op = "AL_IMM"
    <2> DEFINE op == IF i.funct3 = 5 THEN 8 * i.mod + 5 ELSE i.funct3
    <2>1. /\ ctl.rs1 = i.rs1 /\ ctl.rd = i.rd /\ ctl.imm = i.imm
          /\ ctl.alu_op = 8 * ImmModifier(i) + i.funct3
          /\ ctl.alu_in1_sel = "RS1" /\ ctl.alu_in2_sel = "IMM"
          /\ ctl.rf_in_sel = "ALU_OUT" /\ ctl.mem_mode = "MEM_READ"
          /\ ~ctl.nextpc_is_branch
      BY <1>0, <1>2 DEF Decode, ZeroControl
    <2>2. i.funct3 \in Int /\ i.mod \in Int
      BY Current DEF Instr, Funct3
    <2>3. 8 * ImmModifier(i) + i.funct3 = op
      BY <2>2, SMT DEF ImmModifier
    <2>4. AluResult = AluOut(op, Arch!V1, Arch!Imm)
      BY <2>1, <2>3, Current DEF AluResult, Arch!Imm
    <2>5. ExMemValue' = AluResult /\ target = Align(Arch!PcPlus4)
      BY <2>1, <1>a, RunValue DEF BranchTaken
    <2>6. Arch!Retire(AluOut(op, Arch!V1, Arch!Imm), Arch!PcPlus4)
      BY <2>1, <2>4, <2>5, Retires
    <2> QED BY <1>2, <2>6 DEF Arch!Step, Arch!AlImm
  <1>3. CASE i.op = "LOAD"
    <2>1. /\ ctl.rs1 = i.rs1 /\ ctl.rd = i.rd /\ ctl.imm = i.imm
          /\ ctl.alu_op = ALU_ADD
          /\ ctl.alu_in1_sel = "RS1" /\ ctl.alu_in2_sel = "IMM"
          /\ ctl.rf_in_sel = "MEM_OUT" /\ ctl.mem_mode = "MEM_READ"
          /\ ~ctl.nextpc_is_branch
      BY <1>0, <1>3 DEF Decode, ZeroControl
    <2> DEFINE w == MemRead(NextMem, Add(Arch!V1, Arch!Imm), Funct3AtInit)
    <2>2. AluResult = Add(Arch!V1, Arch!Imm)
      BY <2>1, Current, AluAdds DEF Arch!Imm
    <2>3. ExMemValue' = w /\ target = Align(Arch!PcPlus4)
      BY <2>1, <2>2, <1>a, RunValue DEF BranchTaken
    <2>4. Arch!Retire(w, Arch!PcPlus4)
      BY <2>1, <2>3, Retires
    <2>5. Arch!Load
      BY <1>3, <2>4, SameOperators DEF Arch!Load, BuiltFunct3
    <2> QED BY <2>5 DEF Arch!Step
  <1>4. CASE i.op = "STORE"
    <2>1. /\ ctl.rs1 = i.rs1 /\ ctl.rs2 = i.rs2 /\ ctl.rd = 0 /\ ctl.imm = i.imm
          /\ ctl.alu_op = ALU_ADD
          /\ ctl.alu_in1_sel = "RS1" /\ ctl.alu_in2_sel = "IMM"
          /\ ctl.mem_mode = "MEM_WRITE" /\ ~ctl.nextpc_is_branch
      BY <1>0, <1>4 DEF Decode, ZeroControl
    <2>2. AluResult = Add(Arch!V1, Arch!Imm) /\ Rs2Forwarded = Arch!V2
      BY <2>1, Current, AluAdds DEF Arch!Imm
    <2>3. NextMem' = MemWrite(NextMem, Add(Arch!V1, Arch!Imm), Arch!V2, Funct3AtInit)
      BY <2>1, <2>2, RunValue
    <2>4. target = Align(Arch!PcPlus4)
      BY <2>1, <1>a DEF BranchTaken
    <2>5. ArchRegs' = ArchRegs /\ rom' = rom
      BY <2>1, KeepsRegs
    <2>6. Arch!Store
      BY <1>4, <2>3, <2>4, <2>5, SameOperators DEF Arch!Store, BuiltFunct3
    <2> QED BY <2>6 DEF Arch!Step
  <1>5. CASE i.op = "BRANCH"
    <2>1. /\ ctl.rs1 = i.rs1 /\ ctl.rs2 = i.rs2 /\ ctl.rd = 0 /\ ctl.imm = i.imm
          /\ ctl.funct3 = i.funct3 /\ ctl.alu_op = ALU_ADD
          /\ ctl.alu_in1_sel = "PC" /\ ctl.alu_in2_sel = "IMM"
          /\ ctl.mem_mode = "MEM_READ" /\ ctl.nextpc_is_branch /\ ctl.is_cond
      BY <1>0, <1>5 DEF Decode, ZeroControl
    <2>2. AluResult = Add(ArchPc, Arch!Imm)
      BY <2>1, Current, AluAdds DEF Arch!Imm
    <2>3. BranchTaken <=> BuiltCondition(i.funct3, Arch!V1, Arch!V2)
      BY <2>1, Current DEF BranchTaken, Comparison, BuiltCondition
    <2>4. target = Align(IF BuiltCondition(i.funct3, Arch!V1, Arch!V2)
                         THEN Add(ArchPc, Arch!Imm) ELSE Arch!PcPlus4)
      BY <2>2, <2>3, <1>a, <1>b
    <2>5. NextMem' = NextMem /\ ArchRegs' = ArchRegs /\ rom' = rom
      BY <2>1, RunValue, KeepsRegs
    <2>6. Arch!Branch
      BY <1>5, <2>4, <2>5, SameOperators DEF Arch!Branch
    <2> QED BY <2>6 DEF Arch!Step
  <1>6. CASE i.op = "JAL"
    <2>1. /\ ctl.rd = i.rd /\ ctl.imm = i.imm /\ ctl.alu_op = ALU_ADD
          /\ ctl.alu_in1_sel = "PC" /\ ctl.alu_in2_sel = "IMM"
          /\ ctl.rf_in_sel = "PC_PLUS4" /\ ctl.mem_mode = "MEM_READ"
          /\ ctl.nextpc_is_branch /\ ~ctl.is_cond
      BY <1>0, <1>6 DEF Decode, ZeroControl
    <2>2. ExMemValue' = Arch!PcPlus4
      BY <2>1, Current, RunPc, RunValue
    <2>3. target = Align(Add(ArchPc, Arch!Imm))
      BY <2>1, <1>b, Current, AluAdds DEF Arch!Imm, BranchTaken
    <2>4. Arch!Retire(Arch!PcPlus4, Add(ArchPc, Arch!Imm))
      BY <2>1, <2>2, <2>3, Retires
    <2>5. Arch!Jal
      BY <1>6, <2>4, SameOperators DEF Arch!Jal
    <2> QED BY <2>5 DEF Arch!Step
  <1>7. CASE i.op = "JALR"
    <2>1. /\ ctl.rs1 = i.rs1 /\ ctl.rd = i.rd /\ ctl.imm = i.imm
          /\ ctl.alu_op = ALU_ADD
          /\ ctl.alu_in1_sel = "RS1" /\ ctl.alu_in2_sel = "IMM"
          /\ ctl.rf_in_sel = "PC_PLUS4" /\ ctl.mem_mode = "MEM_READ"
          /\ ctl.nextpc_is_branch /\ ~ctl.is_cond
      BY <1>0, <1>7 DEF Decode, ZeroControl
    <2>2. ExMemValue' = Arch!PcPlus4
      BY <2>1, Current, RunPc, RunValue
    <2>3. target = Align(Add(Arch!V1, Arch!Imm))
      BY <2>1, <1>b, Current, AluAdds DEF Arch!Imm, BranchTaken
    <2>4. Arch!Retire(Arch!PcPlus4, Add(Arch!V1, Arch!Imm))
      BY <2>1, <2>2, <2>3, Retires
    <2>5. Arch!Jalr
      BY <1>7, <2>4, SameOperators DEF Arch!Jalr
    <2> QED BY <2>5 DEF Arch!Step
  <1>8. CASE i.op = "LUI"
    <2>1. /\ ctl.rs1 = 0 /\ ctl.rd = i.rd /\ ctl.imm = i.imm /\ ctl.alu_op = ALU_ADD
          /\ ctl.alu_in1_sel = "RS1" /\ ctl.alu_in2_sel = "IMM"
          /\ ctl.rf_in_sel = "ALU_OUT" /\ ctl.mem_mode = "MEM_READ"
          /\ ~ctl.nextpc_is_branch
      BY <1>0, <1>8 DEF Decode, ZeroControl
    <2>2. AluResult = Add(0, i.imm) /\ i.imm \in Word
      BY <2>1, Current, AluAdds DEF ArchVal
    <2>3. Add(0, i.imm) = i.imm
      BY <2>2, WordSizes, SMT DEF Add, Word
    <2>4. ExMemValue' = Arch!Imm /\ target = Align(Arch!PcPlus4)
      BY <2>1, <2>2, <2>3, <1>a, RunValue DEF BranchTaken, Arch!Imm
    <2>5. Arch!Retire(Arch!Imm, Arch!PcPlus4)
      BY <2>1, <2>4, Retires
    <2> QED BY <1>8, <2>5 DEF Arch!Step, Arch!Lui
  <1>9. CASE i.op = "AUIPC"
    <2>1. /\ ctl.rd = i.rd /\ ctl.imm = i.imm /\ ctl.alu_op = ALU_ADD
          /\ ctl.alu_in1_sel = "PC" /\ ctl.alu_in2_sel = "IMM"
          /\ ctl.rf_in_sel = "ALU_OUT" /\ ctl.mem_mode = "MEM_READ"
          /\ ~ctl.nextpc_is_branch
      BY <1>0, <1>9 DEF Decode, ZeroControl
    <2>2. AluResult = Add(ArchPc, Arch!Imm)
      BY <2>1, Current, AluAdds DEF Arch!Imm
    <2>3. ExMemValue' = AluResult /\ target = Align(Arch!PcPlus4)
      BY <2>1, <1>a, RunValue DEF BranchTaken
    <2>4. Arch!Retire(Add(ArchPc, Arch!Imm), Arch!PcPlus4)
      BY <2>1, <2>2, <2>3, Retires
    <2>5. Arch!Auipc
      BY <1>9, <2>4, SameOperators DEF Arch!Auipc
    <2> QED BY <2>5 DEF Arch!Step
  <1>10. CASE i.op = "OTHER"
    <2>1. ctl = ZeroControl(i.funct3)
      BY <1>0, <1>10 DEF Decode
    <2>2. ctl.rd = 0 /\ ctl.mem_mode = "MEM_READ" /\ ~ctl.nextpc_is_branch
      BY <2>1 DEF ZeroControl
    <2>3. target = Align(Arch!PcPlus4)
      BY <2>2, <1>a DEF BranchTaken
    <2>4. NextMem' = NextMem /\ ArchRegs' = ArchRegs /\ rom' = rom
      BY <2>2, RunValue, KeepsRegs
    <2>5. Arch!Undefined
      BY <1>10, <2>3, <2>4, SameOperators DEF Arch!Undefined
    <2> QED BY <2>5 DEF Arch!Step
  <1> QED BY <1>0, <1>1, <1>2, <1>3, <1>4, <1>5, <1>6, <1>7, <1>8, <1>9, <1>10 DEF OpCode

LEMMA RefinesNext ==
    IInv /\ [Next]_vars => [Arch!Step \/ Arch!Restart]_(Arch!vars)
  <1> SUFFICES ASSUME IInv, [Next]_vars
               PROVE  Arch!Step \/ Arch!Restart \/ UNCHANGED Arch!vars
    OBVIOUS
  <1>1. CASE Run
    BY <1>1, RetireIsStep, BubbleStutters
  <1>2. CASE Reset
    BY <1>2, RefinesReset
  <1>3. CASE UNCHANGED vars
    BY <1>3 DEF vars, Arch!vars, ArchPc, ArchRegs, NextMem, ExMemValue, WriteData, Valid
  <1> QED BY <1>1, <1>2, <1>3 DEF Next

\* The pipeline implements Isa: with all its stalls, flushes, forwarding and
\* resets, the programmer sees one instruction after the other (data_path.sv).
THEOREM ImplementationCorrect == Spec => ImplementsIsa
  <1> QED BY RefinesInit, RefinesNext, InvariantHolds, PTL
          DEF Spec, ImplementsIsa, Arch!Spec
\* Without a reset no retired result is ever lost (data_path.sv).
THEOREM RunImplementationCorrect == RunSpec => ImplementsIsaRun
  <1>1. [Run]_vars => [Next]_vars
    BY DEF Next
  <1>2. IInv /\ [Run]_vars => [Arch!Step]_(Arch!vars)
    <2> SUFFICES ASSUME IInv, [Run]_vars
                 PROVE  Arch!Step \/ UNCHANGED Arch!vars
      OBVIOUS
    <2>1. CASE Run
      BY <2>1, RetireIsStep, BubbleStutters
    <2>2. CASE UNCHANGED vars
      BY <2>2 DEF vars, Arch!vars, ArchPc, ArchRegs, NextMem, ExMemValue, WriteData,
                  Valid
    <2> QED BY <2>1, <2>2
  <1> QED BY <1>1, <1>2, RefinesInit, InvariantHolds, PTL
          DEF Spec, RunSpec, ImplementsIsaRun, Arch!RunSpec

=============================================================================
