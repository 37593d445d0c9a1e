------------------------------ MODULE Encodings ------------------------------
(***************************************************************************)
(* The words, registers, instructions and control encodings of the         *)
(* bonato-2 processor (src/rtl/v1/encodings.svh).                          *)
(*                                                                         *)
(* The hardware has 32-bit words made of four 8-bit bytes and 32           *)
(* registers.  All three sizes are parameters here: a word is always four  *)
(* bytes of ByteSize values each, so ByteSize = 256 and NRegs = 32 are the *)
(* values of the hardware, and a small ByteSize gives an instance that can *)
(* be explored exhaustively.                                               *)
(***************************************************************************)
EXTENDS Integers

CONSTANTS
    ByteSize,      \* Number of values of a byte (256 in the hardware).
    WordSize,      \* Number of values of a word, four bytes.
    NRegs          \* Number of registers (32 in the hardware).

\* Words are four bytes; bytes have whole bits, so that the low two bits of a
\* word address can be cleared.
ASSUME WidthAssumption ==
    /\ ByteSize \in Nat \ {0}
    /\ ByteSize % 2 = 0
    /\ WordSize = ByteSize * ByteSize * ByteSize * ByteSize
    /\ NRegs \in Nat \ {0, 1}

Byte == 0 .. ByteSize - 1
Word == 0 .. WordSize - 1
Reg  == 0 .. NRegs - 1

\* A 32-bit addition drops the carry.
Add(a, b) == (a + b) % WordSize

\* {x[31:2], 2'b0}
Align(x) == x - (x % 4)

\* $signed(x)
Signed(x) == IF 2 * x >= WordSize THEN x - WordSize ELSE x

-----------------------------------------------------------------------------
(***************************************************************************)
(* An instruction is the tuple of fields the decoder slices out of the     *)
(* 32-bit word.  imm is the immediate of the instruction's own format (the *)
(* bits are gathered from different places per format); mod is             *)
(* instr[30].  OTHER stands for every opcode outside opcode_e, the all-zero *)
(* word of an unmapped address among them.                                 *)
(***************************************************************************)
OpCode == {"AL_REG", "AL_IMM", "LOAD", "STORE", "BRANCH",
           "JAL", "JALR", "LUI", "AUIPC", "OTHER"}

Funct3 == 0 .. 7

Instr == [op : OpCode, funct3 : Funct3, mod : 0 .. 1,
          rd : Reg, rs1 : Reg, rs2 : Reg, imm : Word]

ZeroInstr == [op |-> "OTHER", funct3 |-> 0, mod |-> 0,
              rd |-> 0, rs1 |-> 0, rs2 |-> 0, imm |-> 0]

\* alu_op_e is the 4-bit number {modifier bit, funct3}; the named codes.
AluOp == 0 .. 15
ALU_ADD  == 0
ALU_SLL  == 1
ALU_SLT  == 2
ALU_SLTU == 3
ALU_XOR  == 4
ALU_SRL  == 5
ALU_OR   == 6
ALU_AND  == 7
ALU_SUB  == 8
ALU_SRA  == 13

MemMode  == {"MEM_READ", "MEM_WRITE"}
AluIn1Sel == {"RS1", "PC"}
AluIn2Sel == {"RS2", "IMM"}
RfInSel  == {"ALU_OUT", "MEM_OUT", "PC_PLUS4"}

SIZE_BYTE == 0
SIZE_HALF == 1
SIZE_WORD == 2
=============================================================================
