------------------------------- MODULE Hazard --------------------------------
(***************************************************************************)
(* The hazard unit (src/rtl/v1/hazard.sv): the stall and flush signals of  *)
(* the pipeline registers.                                                 *)
(***************************************************************************)
EXTENDS Encodings

\* Faulty variants: the second source register is not looked at; every producer
\* stalls its reader, x0 included.
LoadUseRs1Only(rs1_id, rs2_id, rd_ex, rf_in_sel_ex) ==
    rf_in_sel_ex = "MEM_OUT" /\ rd_ex # 0 /\ rd_ex = rs1_id
LoadUseAnyProducer(rs1_id, rs2_id, rd_ex, rf_in_sel_ex) ==
    rd_ex \in {rs1_id, rs2_id}

\* The instruction in decode needs the word that the load in execute is only
\* about to read.
LoadUse(rs1_id, rs2_id, rd_ex, rf_in_sel_ex) ==
    /\ rf_in_sel_ex = "MEM_OUT"
    /\ rd_ex # 0
    /\ rd_ex \in {rs1_id, rs2_id}

\* Faulty variants: a taken branch flushes one stage only; a stall inserts no
\* bubble.
SignalsFlushFetchOnly(rs1_id, rs2_id, rd_ex, rf_in_sel_ex, taken) ==
    LET stall == ~taken /\ LoadUse(rs1_id, rs2_id, rd_ex, rf_in_sel_ex)
    IN  [if_id_we |-> ~stall, if_id_flush |-> taken,
         id_ex_flush |-> stall, pc_we |-> ~stall]
SignalsNoBubble(rs1_id, rs2_id, rd_ex, rf_in_sel_ex, taken) ==
    LET stall == ~taken /\ LoadUse(rs1_id, rs2_id, rd_ex, rf_in_sel_ex)
    IN  [if_id_we |-> ~stall, if_id_flush |-> taken,
         id_ex_flush |-> taken, pc_we |-> ~stall]

\* A taken branch flushes and, by the else-if, never stalls.
HazardSignals(rs1_id, rs2_id, rd_ex, rf_in_sel_ex, taken) ==
    LET stall == ~taken /\ LoadUse(rs1_id, rs2_id, rd_ex, rf_in_sel_ex)
    IN  [if_id_we    |-> ~stall,
         if_id_flush |-> taken,
         id_ex_flush |-> taken \/ stall,
         pc_we       |-> ~stall]
=============================================================================
