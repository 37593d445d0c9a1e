-------------------------------- MODULE TestGen -------------------------------
(***************************************************************************)
(* Generation of the unprivileged tests of one instruction                 *)
(* (generators/testgen/src/testgen): a coverpoint asks for registers, the  *)
(* other operands are drawn, a formatter writes the testcase, the          *)
(* registers are returned; the testcases are split into files whose first  *)
(* one re-establishes the pointers.                                        *)
(*                                                                         *)
(* The assembly text is modelled by what it does: the code of a testcase   *)
(* is run, as it is generated, on a machine that knows of every register   *)
(* what it holds.  The coverpoint generators are not in the repository and *)
(* are modelled from docs/DeveloperGuide.md:335-391.                       *)
(***************************************************************************)
EXTENDS Registers, FiniteSets

CONSTANTS
    Kinds,       \* The formatters, one of which an instruction has; CI's other case
                 \* is ADDI16SP.
    Drawn,       \* The registers that random draws may give.
    Fixed,       \* The sets of operands that a coverpoint fixes to one register.
    Compressed,  \* x8 to x15.
    FileSize     \* TESTCASES_PER_FILE

AllKinds == {"R", "S", "L", "CSS", "CILS", "CIW", "CI", "ADDI16SP", "CJALR"}
Operands == {"rd", "rs1", "rs2", "temp_reg"}

ASSUME TestGenAssumption ==
    /\ Kinds \subseteq AllKinds
    /\ Drawn \subseteq Reg
    /\ Fixed \subseteq (SUBSET {"rd", "rs1", "rs2"}) \ {{}}
    /\ Compressed \subseteq Reg \ {0, 2}
    /\ FileSize \in Nat \ {0}

\* The register file is large enough for a testcase: the code has three temporary
\* pairs, x8 to x15, and at least sixteen registers, all of which may be drawn.
ASSUME RoomAssumption ==
    /\ RegCount >= 10
    /\ Cardinality(TempRegs) >= 3
    /\ Cardinality(Reg \ ({0} \cup link_temp_regs)) >= 5
    /\ Cardinality(Compressed) >= 5
    /\ \A t \in TempRegs : Cardinality(Drawn \ {0, t, t + 1}) >= 5

VARIABLES
    kind,        \* The instruction's formatter.
    stage,       \* Where the loop over a coverpoint's registers is.
    file,        \* test_data.int_regs
    before,      \* int_regs when the last testcase ended.
    fixed,       \* The operands the coverpoint fixed, and to which register.
    machine,     \* What the code of the present test file has done.
    reserved,    \* Signature slots and data values that file reserves.
    cases,       \* Testcases in that file.
    misresumed,  \* Its first instruction moves a pointer from where it is not.
    written      \* The file written last.

vars == <<kind, stage, file, before, fixed, machine, reserved, cases, misresumed, written>>

required_params ==
    [R |-> {"rd", "rs1", "rs2"}, S |-> {"rs1", "rs2", "temp_reg"},
     L |-> {"rd", "rs1", "temp_reg"}, CSS |-> {"rs2", "temp_reg"},
     CILS |-> {"rd", "temp_reg"}, CIW |-> {"rd"}, CI |-> {"rs1"},
     ADDI16SP |-> {"rs1"}, CJALR |-> {"rs1", "temp_reg"}]

reg_range(k) ==
    CASE k = "CIW" -> Compressed
      [] k = "CILS" -> {r \in Reg : 1 <= r /\ r < 31}
      [] k = "CJALR" -> Reg \ {0}
      [] OTHER -> Reg

-----------------------------------------------------------------------------
(* The machine: holds[r] is what register r holds; "sig" and "data" are the  *)
(* present signature and data pointer.                                       *)

Contents == {"junk", "sig", "data", "value", "result", "target"}

Machine == [holds : [Reg -> Contents], intact : BOOLEAN, slots : Nat, values : Nat]

Put(m, r, c) == IF r = 0 THEN m ELSE [m EXCEPT !.holds[r] = c]

Mv(m, new, old) == Put(m, new, m.holds[old])

\* An instruction that relies on r holding c.
Needs(m, r, c) == IF r = 0 \/ m.holds[r] = c THEN m ELSE [m EXCEPT !.intact = FALSE]

\* A pointer is advanced: other copies of it are of no use any more.
Advance(m, r, c) ==
    [Needs(m, r, c) EXCEPT
        !.holds = [q \in Reg |-> IF q # r /\ m.holds[q] = c THEN "junk" ELSE m.holds[q]],
        !.slots = IF c = "sig" THEN @ + 1 ELSE @,
        !.values = IF c = "data" THEN @ + 1 ELSE @]

\* A testcase may rely on nothing but the pointers of what an earlier one left.
Forget(m) ==
    [m EXCEPT !.holds = [r \in Reg |-> IF @[r] \in {"sig", "data"} THEN @[r] ELSE "junk"]]

\* RVTEST_BEGIN leaves the pointers in their default registers.
Fresh ==
    [holds |-> [r \in Reg |-> IF r = default_sig_reg THEN "sig"
                              ELSE IF r = default_data_reg THEN "data" ELSE "junk"],
     intact |-> TRUE, slots |-> 0, values |-> 0]

\* RVTEST_TESTDATA_LOAD_INT
load_int_reg(m, f, r) == Put(Advance(m, f.data, "data"), r, "value")

\* RVTEST_SIGUPD stores or compares r, with the temporary and link register.
write_sigupd(m, f, r) ==
    Advance(Needs(Put(Put(m, f.temp, "junk"), f.temp + 1, "junk"), r, "result"), f.sig, "sig")

\* The moves that consume_registers returns.
Relocate(m, f, g) ==
    LET MovedSig == IF g.sig # f.sig THEN Mv(m, g.sig, f.sig) ELSE m
        MovedData == IF g.data # f.data THEN Mv(MovedSig, g.data, f.data) ELSE MovedSig
    IN  IF g.temp # f.temp
        THEN Mv(Mv(MovedData, g.temp, f.temp), g.temp + 1, f.temp + 1)
        ELSE MovedData

\* Faulty variant: the data pointer is taken to be where it was.
reinit_sig_only(f) ==
    IF f.sig # default_sig_reg THEN Put(Fresh, f.sig, "sig") ELSE Fresh

reinit_pointer_registers(f) ==
    LET WithSig == IF f.sig # default_sig_reg THEN Put(Fresh, f.sig, "sig") ELSE Fresh
    IN  IF f.data # default_data_reg THEN Put(WithSig, f.data, "data") ELSE WithSig

-----------------------------------------------------------------------------
(* The formatters.  An outcome is what is left when one is through: the      *)
(* register file, the machine, the registers the testcase returns, and what  *)
(* the formatter added to sigupd_count and data_values.                      *)

Outcome(f, m, regs, slots, values) ==
    [file |-> f, machine |-> m, used |-> regs, slots |-> slots, values |-> values]

\* A formatter reserves a register that its instruction implies.
Reserving(f, r, regs) == IF r \in regs THEN {f} ELSE consume_registers(f, {r})

\* A base register x0 is returned for another one.
NonZeroBase(f, r) ==
    IF r # 0 THEN {[base |-> r, file |-> f]}
    ELSE {[base |-> q, file |-> Take(return_registers(f, {0}), {q})] :
              q \in Available(f, {0}, Drawn)}

R_type(f, m, p) ==
    LET loaded == load_int_reg(load_int_reg(m, f, p["rs1"]), f, p["rs2"])
        tested == Put(Needs(Needs(loaded, p["rs1"], "value"), p["rs2"], "value"),
                      p["rd"], "result")
    IN  {Outcome(f, write_sigupd(tested, f, p["rd"]), {p["rd"], p["rs1"], p["rs2"]}, 1, 2)}

\* The signature pointer becomes the base of the store.
Stored(f, m, base, p, regs, slots) ==
    LET g == IF base # f.sig THEN move_sig_reg(f, base) ELSE f
        loaded == load_int_reg(m, f, p["rs2"])
        based == IF base # f.sig THEN Mv(loaded, base, f.sig) ELSE loaded
        stored == Advance(Needs(based, p["rs2"], "value"), base, "sig")
        checked == write_sigupd(Put(stored, p["temp_reg"], "result"), g, p["temp_reg"])
    IN  Outcome(g, checked, regs \cup {p["rs2"], p["temp_reg"]}, slots, 1)

S_type(f, m, p) ==
    {Stored(x.file, m, x.base, p, IF x.base # x.file.sig THEN {} ELSE {x.base}, 2) :
        x \in NonZeroBase(f, p["rs1"])}

L_type(f, m, p) ==
    {LET based == Put(Needs(m, x.file.data, "data"), x.base, "target")
         loaded == Put(Needs(based, x.base, "target"), p["rd"], "result")
         checked == Advance(write_sigupd(loaded, x.file, p["rd"]), x.file.data, "data")
     IN  Outcome(x.file, checked, {p["rd"], x.base, p["temp_reg"]}, 1, 1) :
        x \in NonZeroBase(f, p["rs1"])}

\* sp is a copy of the signature pointer.  When sp is the operand as well, the
\* value loaded into it is gone and the pointer itself is stored.
CSS_type(f, m, p) ==
    {LET loaded == load_int_reg(Relocate(m, f, g), g, p["rs2"])
         based == Needs(Mv(loaded, 2, g.sig), 2, "sig")
         tested == Needs(based, p["rs2"], IF p["rs2"] = 2 THEN "sig" ELSE "value")
         advanced == Advance(Put(tested, p["temp_reg"], "result"), g.sig, "sig")
     IN  Outcome(return_registers(g, {2} \ {p["rs2"]}),
                 write_sigupd(advanced, g, p["temp_reg"]), {p["rs2"], p["temp_reg"]}, 2, 1) :
        g \in Reserving(f, 2, {p["rs2"]})}

\* sp is a copy of the data pointer.
CILS_type(f, m, p) ==
    {LET based == Mv(Relocate(m, f, g), 2, g.data)
         tested == Put(Needs(based, 2, "data"), p["rd"], "result")
         checked == Advance(write_sigupd(tested, g, p["rd"]), g.data, "data")
     IN  Outcome(return_registers(g, {2} \ {p["rd"]}), checked, {p["rd"], p["temp_reg"]}, 1, 1) :
        g \in Reserving(f, 2, {p["rd"]})}

CIW_type(f, m, p) ==
    {LET loaded == load_int_reg(Relocate(m, f, g), g, 2)
         tested == Put(Needs(loaded, 2, "value"), p["rd"], "result")
     IN  Outcome(return_registers(g, {2} \ {p["rd"]}),
                 write_sigupd(tested, g, p["rd"]), {p["rd"]}, 1, 1) :
        g \in Reserving(f, 2, {p["rd"]})}

\* The operand is changed in place.
CI_case(f, m, r) ==
    LET loaded == load_int_reg(m, f, r)
        tested == Put(Needs(loaded, r, "value"), r, "result")
    IN  Outcome(f, write_sigupd(tested, f, r), {r}, 1, 1)

\* For c.addi16sp the operand drawn is returned, sp takes its place.
CI_type(k, f, m, p) ==
    IF k = "CI" THEN {CI_case(f, m, p["rs1"])}
    ELSE {CI_case(g, Relocate(m, f, g), 2) :
             g \in consume_registers(return_registers(f, {p["rs1"]}), {2})}

\* Faulty variant: ra is not reserved.
CJALR_typeUnreserved(f, m, p) ==
    {LET loaded == Put(load_int_reg(m, f, p["temp_reg"]), p["rs1"], "target")
         jumped == Put(Needs(loaded, p["rs1"], "target"), 1, "result")
         kept == IF p["temp_reg"] = 1 THEN jumped
                 ELSE Put(Needs(jumped, p["temp_reg"], "value"), p["temp_reg"], "result")
     IN  Outcome(f, write_sigupd(write_sigupd(kept, f, p["temp_reg"]), f, 1),
                 {p["rs1"], p["temp_reg"]}, 2, 1)}

\* c.jalr leaves its return address in ra.
CJALR_type(f, m, p) ==
    {LET loaded == Put(load_int_reg(m, f, p["temp_reg"]), p["rs1"], "target")
         jumped == Put(Needs(Relocate(loaded, f, g), p["rs1"], "target"), 1, "result")
         kept == IF p["temp_reg"] = 1 THEN jumped
                 ELSE Put(Needs(jumped, p["temp_reg"], "value"), p["temp_reg"], "result")
     IN  Outcome(return_registers(g, {1} \ {p["temp_reg"], p["rs1"]}),
                 write_sigupd(write_sigupd(kept, g, p["temp_reg"]), g, 1),
                 {p["rs1"], p["temp_reg"]}, 2, 1) :
        g \in Reserving(f, 1, {p["temp_reg"], p["rs1"]})}

format_instruction(k, f, m, p) ==
    CASE k = "R" -> R_type(f, m, p)
      [] k = "S" -> S_type(f, m, p)
      [] k = "L" -> L_type(f, m, p)
      [] k = "CSS" -> CSS_type(f, m, p)
      [] k = "CILS" -> CILS_type(f, m, p)
      [] k = "CIW" -> CIW_type(f, m, p)
      [] k \in {"CI", "ADDI16SP"} -> CI_type(k, f, m, p)
      [] OTHER -> CJALR_type(f, m, p)

-----------------------------------------------------------------------------
Init ==
    /\ kind \in Kinds
    /\ stage = "idle"
    /\ file = InitRegisters /\ before = InitRegisters
    /\ fixed = [operands |-> {}, reg |-> 0]
    /\ machine = Fresh /\ reserved = [slots |-> 0, values |-> 0]
    /\ cases = 0 /\ misresumed = FALSE
    /\ written = [misresumed |-> FALSE, intact |-> TRUE, slots |-> 0, values |-> 0,
                  reserved |-> reserved]

\* The coverpoint's loop: consume_registers([reg]).
Consume(operands, reg) ==
    /\ stage = "idle"
    /\ operands \subseteq required_params[kind] /\ reg \in reg_range(kind)
    /\ kind = "S" => ~ ({"rs1", "rs2"} \subseteq operands)
    /\ fixed' = [operands |-> operands, reg |-> reg]
    /\ IF consume_registers(file, {reg}) = {}
       THEN stage' = "raised" /\ UNCHANGED file
       ELSE stage' = "consumed" /\ file' \in consume_registers(file, {reg})
    /\ UNCHANGED <<kind, before, machine, reserved, cases, misresumed, written>>

\* A coverpoint that fixes no register.
ConsumeNothing ==
    /\ stage = "idle" /\ stage' = "consumed"
    /\ fixed' = [operands |-> {}, reg |-> 0]
    /\ UNCHANGED <<kind, file, before, machine, reserved, cases, misresumed, written>>

\* generate_random_params: one register after the other from what is available.
random_params(f, k) ==
    LET missing == required_params[k] \ fixed.operands
    IN  {[o \in required_params[k] |-> IF o \in missing THEN drawn[o] ELSE fixed.reg] :
            drawn \in {d \in [missing -> Available(f, {}, reg_range(k) \cap Drawn)] :
                          /\ \A o1, o2 \in missing : d[o1] = d[o2] => o1 = o2
                          /\ "temp_reg" \in missing => d["temp_reg"] \notin {0, 2}}}

\* One of these draws finds nothing left, and get_register raises; the
\* temporary register is the last one and may be neither x0 nor x2.
DrawsFail(f, k) ==
    LET missing == required_params[k] \ fixed.operands
        others == missing \ {"temp_reg"}
        left == Available(f, {}, reg_range(k))
    IN  \/ Cardinality(left) < Cardinality(others)
        \/ "temp_reg" \in missing /\ Cardinality(left \ {0, 2}) <= Cardinality(others)

\* Faulty variant: a file takes one testcase too many.
StartsFileLate == ~ (cases > 0 /\ cases <= FileSize)

\* split_test_chunks: the file is full, or the first one.
StartsFile == ~ (cases > 0 /\ cases + 1 <= FileSize)

\* Faulty variant: the pointer is moved back from where it is now.
sig_reg_reset_late ==
    IF file.sig # default_sig_reg THEN Mv(machine, default_sig_reg, file.sig) ELSE machine

\* _append_sig_reg_reset, at the end of a file.
sig_reg_reset ==
    IF before.sig # default_sig_reg THEN Mv(machine, default_sig_reg, before.sig) ELSE machine

\* write_test_file; the teardown reads the signature pointer in x2.
write_test_file ==
    written' = IF cases = 0 THEN written
               ELSE [misresumed |-> misresumed,
                     intact |-> Needs(sig_reg_reset, default_sig_reg, "sig").intact,
                     slots |-> machine.slots, values |-> machine.values,
                     reserved |-> reserved]

\* The file's first code moves a pointer out of a register that neither
\* RVTEST_BEGIN nor the file's own preamble has set.
Misresumes ==
    \/ file.sig # before.sig /\ before.sig # default_sig_reg
    \/ file.data # before.data /\ before.data # default_data_reg

\* format_single_testcase behind the coverpoint's moves, then
\* return_testcase_registers.
Testcase(o) ==
    /\ file' = return_registers(o.file, o.used)
    /\ before' = file'
    /\ machine' = Forget(o.machine)
    /\ reserved' = IF StartsFile THEN [slots |-> o.slots, values |-> o.values]
                   ELSE [slots |-> reserved.slots + o.slots, values |-> reserved.values + o.values]
    /\ cases' = IF StartsFile THEN 1 ELSE cases + 1
    /\ misresumed' = IF StartsFile THEN Misresumes ELSE misresumed
    /\ IF StartsFile THEN write_test_file ELSE UNCHANGED written

Generate ==
    /\ stage = "consumed"
    /\ \/ /\ DrawsFail(file, kind) /\ stage' = "raised"
          /\ UNCHANGED <<file, before, machine, reserved, cases, misresumed, written>>
       \/ \E p \in random_params(file, kind) :
              LET start == IF StartsFile THEN reinit_pointer_registers(file) ELSE machine
                  allocated == Take(file, {p[o] : o \in required_params[kind]})
                  outcomes == format_instruction(kind, allocated, Relocate(start, before, file), p)
              IN  \/ /\ outcomes = {} /\ stage' = "raised"
                     /\ UNCHANGED <<file, before, machine, reserved, cases, misresumed, written>>
                  \/ /\ stage' = "idle"
                     /\ \E o \in outcomes : Testcase(o)
    /\ UNCHANGED <<kind, fixed>>

\* The last file is written; destroy() wants every register back.
Destroy ==
    /\ stage = "idle" /\ cases > 0
    /\ stage' = IF return_registers(file, Specials(file)).reg_list = Reg
                THEN "destroyed" ELSE "raised"
    /\ write_test_file
    /\ UNCHANGED <<kind, file, before, fixed, machine, reserved, cases, misresumed>>

Next ==
    \/ \E operands \in Fixed, reg \in Reg : Consume(operands, reg)
    \/ ConsumeNothing \/ Generate \/ Destroy

Spec == Init /\ [][Next]_vars

-----------------------------------------------------------------------------
TypeOK ==
    /\ kind \in AllKinds
    /\ stage \in {"idle", "consumed", "destroyed", "raised"}
    /\ file \in RegisterFile /\ before \in RegisterFile
    /\ fixed \in [operands : SUBSET Operands, reg : Reg]
    /\ machine \in Machine
    /\ reserved \in [slots : Nat, values : Nat]
    /\ cases \in 0 .. FileSize
    /\ misresumed \in BOOLEAN
    /\ file.temp + 1 \in Reg

\* Registers neither get lost nor serve two purposes: whatever is requested,
\* drawn, moved and returned, in any order, the special registers are distinct,
\* none of them is free, and between testcases every other register is.
RegistersAccounted ==
    LET held == IF stage = "consumed" /\ fixed.operands # {} THEN {fixed.reg} ELSE {}
    IN  stage # "raised" =>
            /\ file.sig # file.data
            /\ {file.sig, file.data} \cap {0, file.temp, file.temp + 1} = {}
            /\ Specials(file) \cap (file.reg_list \cup held) = {}
            /\ file.reg_list = Reg \ (Specials(file) \cup held)

\* No sequence of requests leaves a special register without a place to go, and
\* destroy() finds every register returned.
NeverRaises == stage # "raised"

\* Between testcases the pointers are where the allocator believes them to be,
\* across moves, stores through the signature pointer and new files, except in
\* a misresumed file: one whose first instruction moves a pointer from a register
\* that the file has not set.
PointersHold ==
    stage \in {"idle", "destroyed"} /\ ~ misresumed =>
        machine.holds[file.sig] = "sig" /\ machine.holds[file.data] = "data"

\* Every tested instruction finds in its operands what the setup loaded, and
\* every check finds the result and the pointers, except in a misresumed file.
\* A compressed store of sp itself stores the signature pointer, which has
\* replaced the value loaded.
OperandsIntact == ~ misresumed => machine.intact

\* The signature and data sections of every file have the size that its code
\* uses, and its teardown finds the signature pointer in x2, unless the file is
\* misresumed.
FilesComplete ==
    /\ ~ written.misresumed => written.intact
    /\ written.slots = written.reserved.slots /\ written.values = written.reserved.values

=============================================================================
