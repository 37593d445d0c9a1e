------------------------------- MODULE Registers ------------------------------
(***************************************************************************)
(* The integer register allocator of the test generator                    *)
(* (generators/testgen/src/testgen/data/registers.py).  It hands out       *)
(* registers for the operands of a test and moves its own special          *)
(* registers (signature pointer, data pointer, and the pair of temporary   *)
(* and link register) out of the way.                                      *)
(*                                                                         *)
(* Operations that may fail or choose are sets of the register files they  *)
(* may leave: the empty set is a ValueError.                               *)
(***************************************************************************)
EXTENDS Naturals

CONSTANTS
    RegCount,    \* 32, or 16 for RV32E.
    TempRegs     \* temp_regs: the legal temporary registers.

Reg == 0 .. RegCount - 1

default_sig_reg == 2
default_data_reg == 3
default_temp_reg == 4

ASSUME RegistersAssumption ==
    /\ RegCount \in Nat /\ RegCount > 5
    /\ default_temp_reg \in TempRegs
    /\ \A r \in TempRegs : r \in Reg /\ r > 3 /\ r + 1 \in Reg /\ r + 1 \notin TempRegs

\* The registers a test is never to find its pointers moved to.
link_temp_regs == TempRegs \cup {r + 1 : r \in TempRegs}

\* reg_list and the special registers; the link register is temp + 1.
RegisterFile == [reg_list : SUBSET Reg, sig : Reg, data : Reg, temp : Reg]

Specials(f) == {f.sig, f.data, f.temp, f.temp + 1}

InitRegisters ==
    [reg_list |-> Reg \ {default_sig_reg, default_data_reg, default_temp_reg,
                         default_temp_reg + 1},
     sig |-> default_sig_reg, data |-> default_data_reg, temp |-> default_temp_reg]

\* get_register: what may be drawn.
Available(f, exclude, range) == (f.reg_list \cap range) \ exclude

Take(f, regs) == [f EXCEPT !.reg_list = @ \ regs]

return_registers(f, regs) == [f EXCEPT !.reg_list = @ \cup regs]

\* Special registers that conflict with the request go back to the pool first.
Freed(f, regs) ==
    f.reg_list
        \cup ({f.sig, f.data} \cap regs)
        \cup (IF regs \cap {f.temp, f.temp + 1} # {} THEN {f.temp, f.temp + 1} ELSE {})

\* Faulty variant: a pointer may move to any free register.
PointerChoicesAnywhere(old, rest, regs) ==
    IF old \in regs THEN rest \ {0} ELSE {old}

PointerChoices(old, rest, regs) ==
    IF old \in regs THEN rest \ ({0} \cup link_temp_regs) ELSE {old}

\* Faulty variant: the pair's second register is not looked at.
TempChoicesUnpaired(f, rest, regs) ==
    IF regs \cap {f.temp, f.temp + 1} # {} THEN TempRegs \cap rest ELSE {f.temp}

TempChoices(f, rest, regs) ==
    IF regs \cap {f.temp, f.temp + 1} # {}
    THEN {r \in TempRegs \cap rest : r + 1 \in rest}
    ELSE {f.temp}

\* One pair (signature pointer, data pointer) and temporary for the request.
consume_registers(f, regs) ==
    LET rest == Freed(f, regs) \ regs
        choices == {c \in PointerChoices(f.sig, rest, regs)
                              \X PointerChoices(f.data, rest, regs)
                              \X TempChoices(f, rest, regs) : c[1] # c[2]}
    IN  IF ~ (regs \subseteq Freed(f, regs)) THEN {}
        ELSE {[reg_list |-> rest \ {c[1], c[2], c[3], c[3] + 1},
               sig |-> c[1], data |-> c[2], temp |-> c[3]] : c \in choices}

move_sig_reg(f, new) == [f EXCEPT !.reg_list = (@ \cup {f.sig}) \ {new}, !.sig = new]

=============================================================================
