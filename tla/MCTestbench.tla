------------------------------ MODULE MCTestbench -----------------------------
(***************************************************************************)
(* Testbench over the programs of finished tests: a few instructions, then *)
(* the halt macro for every possible byte, or a loop that never halts.     *)
(***************************************************************************)
EXTENDS HaltMacro, Alu, Comparator, Sequences

Halt(byte) == <<LiT0(byte), LiT1, Sw, SelfLoop>>

Prefix1 ==
    {[ZeroInstr EXCEPT !.op = "AL_REG", !.rd = 1, !.rs1 = 1, !.rs2 = 2],
     [ZeroInstr EXCEPT !.op = "LOAD", !.rd = 1, !.rs1 = 2],
     [ZeroInstr EXCEPT !.op = "LUI", !.rd = 2, !.imm = 9],
     ZeroInstr}
\* Jumps over the second instruction, forwards only.
Prefix0 ==
    Prefix1 \cup
    {[ZeroInstr EXCEPT !.op = "BRANCH", !.rs1 = 1, !.rs2 = 2, !.imm = 8],
     [ZeroInstr EXCEPT !.op = "BRANCH", !.funct3 = 1, !.imm = 8],
     [ZeroInstr EXCEPT !.op = "JAL", !.rd = 1, !.imm = 8]}

\* The rom counts instructions from zero.
Rom(seq) == [n \in 0 .. Len(seq) - 1 |-> seq[n + 1]]

\* Behind the self loop lies the macro of the opposite verdict.
HaltPrograms ==
    {Rom(<<i, j>> \o Halt(b) \o Halt((b + 1) % 2)) :
        i \in Prefix0, j \in Prefix1, b \in Byte}
LoopPrograms == {Rom(<<i, SelfLoop>>) : i \in Prefix1}
TestPrograms == HaltPrograms \cup LoopPrograms

PowerUp == {[r \in Reg \ {0} |-> 0], [r \in Reg \ {0} |-> 21 * r]}
=============================================================================
