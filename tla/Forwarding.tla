----------------------------- MODULE Forwarding ------------------------------
(***************************************************************************)
(* The forwarding unit (src/rtl/v1/forwarding.sv): where the execute stage *)
(* takes an operand register from when an older instruction, still in the  *)
(* memory or the write-back stage, is to write that register.              *)
(***************************************************************************)
EXTENDS Encodings

ForwardSource ==
    {"NONE", "ALU_OUT_MEM", "ALU_OUT_WB", "MEM_OUT_WB"}

\* Faulty variant: the older producer hides the younger one.
GetForwardOldestFirst(rs_ex, rd_mem, rf_in_sel_mem, rd_wb, rf_in_sel_wb) ==
    CASE rs_ex # 0 /\ rs_ex = rd_wb /\ rf_in_sel_wb = "ALU_OUT" -> "ALU_OUT_WB"
      [] rs_ex # 0 /\ rs_ex = rd_wb /\ rf_in_sel_wb = "MEM_OUT" -> "MEM_OUT_WB"
      [] rs_ex # 0 /\ rs_ex = rd_mem /\ rs_ex # rd_wb
             /\ rf_in_sel_mem = "ALU_OUT" -> "ALU_OUT_MEM"
      [] OTHER -> "NONE"

\* The younger producer (memory stage) hides the older one (write-back) even
\* when its own value cannot be forwarded.
GetForward(rs_ex, rd_mem, rf_in_sel_mem, rd_wb, rf_in_sel_wb) ==
    IF rs_ex # 0 /\ rs_ex = rd_mem
    THEN IF rf_in_sel_mem = "ALU_OUT" THEN "ALU_OUT_MEM" ELSE "NONE"
    ELSE IF rs_ex # 0 /\ rs_ex = rd_wb
    THEN CASE rf_in_sel_wb = "ALU_OUT" -> "ALU_OUT_WB"
           [] rf_in_sel_wb = "MEM_OUT" -> "MEM_OUT_WB"
           [] OTHER -> "NONE"
    ELSE "NONE"
=============================================================================
