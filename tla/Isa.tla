--------------------------------- MODULE Isa ---------------------------------
(***************************************************************************)
(* The programmer's view of the processor: one instruction at a time, no   *)
(* pipeline.  This is what DataPath promises to implement; its state is    *)
(* the pc of the next instruction, the registers and the data memory.      *)
(*                                                                         *)
(* Two things are left open, because the code settles them in a way of its *)
(* own: which comparison decides a conditional branch, and which funct3    *)
(* selects the width and the extension of a memory access.                 *)
(***************************************************************************)
EXTENDS DataMem

CONSTANTS
    AluOut(_, _, _),
    BranchCondition(_, _, _),  \* funct3, value of rs1, value of rs2
    AccessFunct3(_)            \* of the funct3 of a load or a store

VARIABLES rom, pc, regs, mem

vars == <<rom, pc, regs, mem>>

Instruction == IF pc \div 4 \in DOMAIN rom THEN rom[pc \div 4] ELSE ZeroInstr

Val(r) == IF r = 0 THEN 0 ELSE regs[r]

V1 == Val(Instruction.rs1)
V2 == Val(Instruction.rs2)
Imm == Instruction.imm
PcPlus4 == Add(pc, 4)

\* The register file after w is written to rd; x0 ignores writes.
Written(w) ==
    [r \in DOMAIN regs |-> IF r = Instruction.rd THEN w ELSE regs[r]]

\* Retire an instruction that writes w to rd and goes on at address next.
Retire(w, next) ==
    /\ regs' = Written(w)
    /\ pc' = Align(next)
    /\ UNCHANGED <<rom, mem>>

AlReg == LET i == Instruction IN
    /\ i.op = "AL_REG"
    /\ Retire(AluOut(8 * i.mod + i.funct3, V1, V2), PcPlus4)

AlImm == LET i == Instruction IN
    /\ i.op = "AL_IMM"
    /\ Retire(AluOut(IF i.funct3 = 5 THEN 8 * i.mod + 5 ELSE i.funct3, V1, Imm),
              PcPlus4)

Load ==
    /\ Instruction.op = "LOAD"
    /\ Retire(MemRead(mem, Add(V1, Imm), AccessFunct3(Instruction.funct3)),
              PcPlus4)

Store ==
    /\ Instruction.op = "STORE"
    /\ mem' = MemWrite(mem, Add(V1, Imm), V2, AccessFunct3(Instruction.funct3))
    /\ pc' = Align(PcPlus4)
    /\ UNCHANGED <<rom, regs>>

Branch ==
    /\ Instruction.op = "BRANCH"
    /\ pc' = Align(IF BranchCondition(Instruction.funct3, V1, V2)
                   THEN Add(pc, Imm) ELSE PcPlus4)
    /\ UNCHANGED <<rom, regs, mem>>

Jal ==
    /\ Instruction.op = "JAL"
    /\ Retire(PcPlus4, Add(pc, Imm))

\* The target uses the old value of rs1, also when rd is the same register.
Jalr ==
    /\ Instruction.op = "JALR"
    /\ Retire(PcPlus4, Add(V1, Imm))

Lui ==
    /\ Instruction.op = "LUI"
    /\ Retire(Imm, PcPlus4)

Auipc ==
    /\ Instruction.op = "AUIPC"
    /\ Retire(Add(pc, Imm), PcPlus4)

\* An undefined instruction is quietly skipped.
Undefined ==
    /\ Instruction.op = "OTHER"
    /\ pc' = Align(PcPlus4)
    /\ UNCHANGED <<rom, regs, mem>>

Step == AlReg \/ AlImm \/ Load \/ Store \/ Branch \/ Jal \/ Jalr \/ Lui
            \/ Auipc \/ Undefined

\* A reset restarts the program.  It keeps the memory, and every register
\* except possibly one: the last retired instruction may lose its result.
Restart ==
    /\ pc' = 0
    /\ regs' = regs \/ \E r \in DOMAIN regs, w \in Word :
                           regs' = [regs EXCEPT ![r] = w]
    /\ UNCHANGED <<rom, mem>>

Init == pc = 0 /\ mem = EmptyMemory

Spec == Init /\ [][Step \/ Restart]_vars
RunSpec == Init /\ [][Step]_vars
=============================================================================
