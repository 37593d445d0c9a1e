------------------------------- MODULE Decoder -------------------------------
(***************************************************************************)
(* The instruction decoder (src/rtl/v1/decoder.sv): a combinational map    *)
(* from an instruction to the control signals of the later stages.         *)
(***************************************************************************)
EXTENDS Encodings

Control == [rs1 : Reg, rs2 : Reg, rd : Reg, imm : Word, funct3 : Funct3,
            alu_op : AluOp, alu_in1_sel : AluIn1Sel, alu_in2_sel : AluIn2Sel,
            is_cond : BOOLEAN, nextpc_is_branch : BOOLEAN,
            mem_mode : MemMode, rf_in_sel : RfInSel]

\* The control signals of an undefined opcode; with funct3 = 0 also the value
\* '0 that a flush or a reset gives the control part of ID/EX.
ZeroControl(funct3) ==
    [rs1 |-> 0, rs2 |-> 0, rd |-> 0, imm |-> 0, funct3 |-> funct3,
     alu_op |-> ALU_ADD, alu_in1_sel |-> "RS1", alu_in2_sel |-> "RS2",
     is_cond |-> FALSE, nextpc_is_branch |-> FALSE,
     mem_mode |-> "MEM_READ", rf_in_sel |-> "ALU_OUT"]

\* OP-IMM keeps the modifier bit only for the right shifts (funct3 = 101): in
\* the others instr[30] is a bit of the immediate.
ImmModifier(i) == IF i.funct3 = 5 THEN i.mod ELSE 0

Decode(i) ==
    LET zero == ZeroControl(i.funct3) IN
    CASE i.op = "AL_REG" ->
           [zero EXCEPT !.rs1 = i.rs1, !.rs2 = i.rs2, !.rd = i.rd,
                        !.alu_op = 8 * i.mod + i.funct3]
      [] i.op = "AL_IMM" ->
           [zero EXCEPT !.rs1 = i.rs1, !.rd = i.rd, !.imm = i.imm,
                        !.alu_in2_sel = "IMM",
                        !.alu_op = 8 * ImmModifier(i) + i.funct3]
      [] i.op = "LOAD" ->
           [zero EXCEPT !.rs1 = i.rs1, !.rd = i.rd, !.imm = i.imm,
                        !.alu_in2_sel = "IMM", !.rf_in_sel = "MEM_OUT"]
      [] i.op = "STORE" ->
           [zero EXCEPT !.rs1 = i.rs1, !.rs2 = i.rs2, !.imm = i.imm,
                        !.alu_in2_sel = "IMM", !.mem_mode = "MEM_WRITE"]
      [] i.op = "BRANCH" ->
           [zero EXCEPT !.rs1 = i.rs1, !.rs2 = i.rs2, !.imm = i.imm,
                        !.alu_in1_sel = "PC", !.alu_in2_sel = "IMM",
                        !.is_cond = TRUE, !.nextpc_is_branch = TRUE]
      [] i.op = "JAL" ->
           [zero EXCEPT !.rd = i.rd, !.imm = i.imm, !.alu_in1_sel = "PC",
                        !.alu_in2_sel = "IMM", !.rf_in_sel = "PC_PLUS4",
                        !.nextpc_is_branch = TRUE]
      [] i.op = "JALR" ->
           [zero EXCEPT !.rs1 = i.rs1, !.rd = i.rd, !.imm = i.imm,
                        !.alu_in2_sel = "IMM", !.rf_in_sel = "PC_PLUS4",
                        !.nextpc_is_branch = TRUE]
      [] i.op = "LUI" ->
           [zero EXCEPT !.rd = i.rd, !.imm = i.imm, !.alu_in2_sel = "IMM"]
      [] i.op = "AUIPC" ->
           [zero EXCEPT !.rd = i.rd, !.imm = i.imm, !.alu_in1_sel = "PC",
                        !.alu_in2_sel = "IMM"]
      [] OTHER -> zero
=============================================================================
