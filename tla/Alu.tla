--------------------------------- MODULE Alu ---------------------------------
(***************************************************************************)
(* The arithmetic logic unit (src/rtl/v1/alu.sv).  The bitwise operations  *)
(* are set operations on the positions of the ones, so that the module is  *)
(* about any word size that is a power of two.                             *)
(***************************************************************************)
EXTENDS Encodings, FiniteSetsExt

Xlen == CHOOSE n \in 1 .. WordSize : 2 ^ n = WordSize

\* The positions of the ones of a word, and the word with given ones.
Ones(x) == {i \in 0 .. Xlen - 1 : (x \div 2 ^ i) % 2 = 1}
FromOnes(S) == MapThenSumSet(LAMBDA i : 2 ^ i, S)

\* The shift amount: the low bits of b that can count up to Xlen - 1 (b[4:0]).
Shamt(b) == b % Xlen

Bool2Word(p) == IF p THEN 1 ELSE 0

Alu(alu_op, a, b) ==
    CASE alu_op = ALU_ADD  -> (a + b) % WordSize
      [] alu_op = ALU_SUB  -> (a - b) % WordSize
      [] alu_op = ALU_SLL  -> (a * 2 ^ Shamt(b)) % WordSize
      [] alu_op = ALU_SLT  -> Bool2Word(Signed(a) < Signed(b))
      [] alu_op = ALU_SLTU -> Bool2Word(a < b)
      [] alu_op = ALU_XOR  -> FromOnes((Ones(a) \cup Ones(b)) \ (Ones(a) \cap Ones(b)))
      [] alu_op = ALU_SRL  -> a \div 2 ^ Shamt(b)
      [] alu_op = ALU_SRA  -> (Signed(a) \div 2 ^ Shamt(b)) % WordSize
      [] alu_op = ALU_OR   -> FromOnes(Ones(a) \cup Ones(b))
      [] alu_op = ALU_AND  -> FromOnes(Ones(a) \cap Ones(b))
      [] OTHER -> 0
=============================================================================
