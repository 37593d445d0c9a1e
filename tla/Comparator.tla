------------------------------ MODULE Comparator -----------------------------
(***************************************************************************)
(* The comparator of the execute stage (src/rtl/v1/comparator.sv), one     *)
(* funct3 per branch instruction.                                          *)
(***************************************************************************)
EXTENDS Encodings

Comparator(funct3, a, b) ==
    CASE funct3 = 0 -> a = b
      [] funct3 = 1 -> a # b
      [] funct3 = 4 -> Signed(a) < Signed(b)
      [] funct3 = 5 -> Signed(a) >= Signed(b)
      [] funct3 = 6 -> a < b
      [] funct3 = 7 -> a >= b
      [] OTHER -> FALSE
=============================================================================
