------------------------------- MODULE HaltMacro ------------------------------
(***************************************************************************)
(* How a test program ends: RVMODEL_HALT_PASS and RVMODEL_HALT_FAIL of the *)
(* configuration's rvmodel_macros.h, and the verdict that the testbench    *)
(* owes to a program that ends so.                                         *)
(***************************************************************************)
EXTENDS Testbench

CONSTANTS T0, T1   \* t0 and t1, x5 and x6.

ASSUME MacroAssumption == {T0, T1} \subseteq Reg \ {0} /\ T0 # T1

\* li t0, byte; li t1, 0x20000000; sw t0, 0(t1); and j to itself.
LiT0(byte) == [ZeroInstr EXCEPT !.op = "AL_IMM", !.rd = T0, !.imm = byte]
LiT1 == [ZeroInstr EXCEPT !.op = "LUI", !.rd = T1, !.imm = HaltAddress]
Sw == [ZeroInstr EXCEPT !.op = "STORE", !.funct3 = 2, !.rs1 = T1, !.rs2 = T0]
SelfLoop == [ZeroInstr EXCEPT !.op = "JAL"]

\* RVMODEL_HALT_PASS (byte 0), RVMODEL_HALT_FAIL (1), and what no macro stores.
HaltMacroAt(k, byte) ==
    /\ rom[k] = LiT0(byte) /\ rom[k + 1] = LiT1
    /\ rom[k + 2] = Sw /\ rom[k + 3] = SelfLoop

\* The n-th instruction leaves memory alone and goes on to one up to the k-th.
StaysBefore(n, k) ==
    LET i == InstrAt(4 * n)
    IN  /\ i.op \notin {"STORE", "JALR"}
        /\ i.op \in {"BRANCH", "JAL"} => Align(Add(4 * n, i.imm)) \in {4 * m : m \in 0 .. k}

\* A test whose body, the first k instructions, computes and jumps within itself or
\* to its end, where a halt macro stands; whatever follows is never reached.
HaltsAt(k) ==
    /\ k .. k + 3 \subseteq DOMAIN rom /\ 4 * (k + 4) <= WordSize
    /\ \A n \in 0 .. k - 1 : StaysBefore(n, k)
    /\ \E byte \in Byte : HaltMacroAt(k, byte)

VerdictOf(byte) ==
    CASE byte = 0 -> "PASSED" [] byte = 1 -> "FAILED" [] OTHER -> "INCORRECT"

-----------------------------------------------------------------------------
\* End to end, from the instructions to the summary: the verdict of a simulation
\* is the one of the test's own halt macro, or that it ran out of time; and no
\* program gets a verdict that stores nothing.
VerdictIsTheTests ==
    summary # {} /\ ~OnlyTimedOut =>
        /\ \E n \in DOMAIN rom : rom[n].op = "STORE"
        /\ \A k \in DOMAIN rom \cap Nat : HaltsAt(k) => VerdictOf(rom[k].imm) \in summary
=============================================================================
