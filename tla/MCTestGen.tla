------------------------------- MODULE MCTestGen ------------------------------
(***************************************************************************)
(* A register file of twelve with three pairs for the temporary and link   *)
(* register, as many as the generator has: one may be in use, one blocked  *)
(* by the signature pointer and one requested.                             *)
(***************************************************************************)
EXTENDS TestGen

MCTempRegs == {4, 6, 8}
MCCompressed == 6 .. 11

\* x0, ra, sp, one of each pair, and one more.
MCDrawn == {0, 1, 2, 4, 7, 8, 10}

MCFixed == {{"rd"}, {"rs1"}, {"rs2"}, {"rd", "rs1"}, {"rs1", "rs2"}}

=============================================================================
