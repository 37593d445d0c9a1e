------------------------------ MODULE MCPipeline -----------------------------
(***************************************************************************)
(* Pipeline with the real ALU and comparator, over all programs of a given *)
(* length made of a given set of instructions.                             *)
(***************************************************************************)
EXTENDS Pipeline, Alu, Comparator

\* The data path's units, tabulated once by TLC.
AluTable == [op \in AluOp, a \in Word, b \in Word |-> Alu(op, a, b)]
ComparatorTable == [f3 \in Funct3, a \in Word, b \in Word |-> Comparator(f3, a, b)]
MCAluOut(op, a, b) == AluTable[op, a, b]
MCComparisonResult(f3, a, b) == ComparatorTable[f3, a, b]

R(funct3, mod, rd, rs1, rs2) ==
    [op |-> "AL_REG", funct3 |-> funct3, mod |-> mod,
     rd |-> rd, rs1 |-> rs1, rs2 |-> rs2, imm |-> 0]
I(op, funct3, rd, rs1, imm) ==
    [op |-> op, funct3 |-> funct3, mod |-> 0,
     rd |-> rd, rs1 |-> rs1, rs2 |-> 0, imm |-> imm]
S(op, funct3, rs1, rs2, imm) ==
    [op |-> op, funct3 |-> funct3, mod |-> 0,
     rd |-> 0, rs1 |-> rs1, rs2 |-> rs2, imm |-> imm]

\* One or more instructions of every opcode; x1 and x2 depend on each other,
\* so that two neighbours nearly always share a register.  Offsets jump
\* forward, backward and over one instruction of a four-instruction program.
AllOps ==
    {R(0, 0, 1, 1, 2),              \* add  x1, x1, x2
     I("AL_IMM", 0, 2, 1, 3),       \* addi x2, x1, 3
     I("LOAD", 0, 1, 2, 1),         \* lb   x1, 1(x2)
     I("LOAD", 4, 2, 2, 0),         \* lbu  x2, 0(x2)
     S("STORE", 0, 1, 2, 2),        \* sb   x2, 2(x1)
     S("BRANCH", 0, 1, 2, 8),       \* beq  x1, x2, +8
     S("BRANCH", 1, 2, 1, 12),      \* bne  x2, x1, -4
     I("JAL", 0, 1, 0, 12),         \* jal  x1, -4
     I("JALR", 0, 2, 1, 0),         \* jalr x2, 0(x1)
     I("LUI", 0, 1, 0, 8),          \* lui  x1, 8
     I("AUIPC", 0, 2, 0, 4),        \* auipc x2, 4
     ZeroInstr}

AllPrograms(n, instrs) == [0 .. n - 1 -> instrs]

\* Across resets the memory keeps what earlier rounds stored, so the programs
\* of the reset run store to one address only.
ResetOps == {i \in AllOps : i.op \notin {"AL_REG", "STORE", "AUIPC", "OTHER"}}
                \cup {S("STORE", 0, 0, 2, 2)}

ResetPrograms == AllPrograms(4, ResetOps)
Programs4 == AllPrograms(4, AllOps)

\* The loads and stores of every width.
WidthPrograms ==
    AllPrograms(4, {I("LOAD", f3, 1, 2, 0) : f3 \in {0, 1, 2, 4, 5}}
                   \cup {S("STORE", f3, 2, 1, 0) : f3 \in {0, 1, 2}})

\* Registers power up with anything; two different files are enough to tell
\* apart the addresses and operands that the programs compute from them.
PowerUp == {[r \in Reg \ {0} |-> 5 * r], [r \in Reg \ {0} |-> 15 - r]}
=============================================================================
