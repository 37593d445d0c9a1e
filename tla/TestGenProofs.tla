----------------------------- MODULE TestGenProofs ----------------------------
(***************************************************************************)
(* Proofs about the test generator, for every number of registers, choice  *)
(* of temporary registers, file size and order of coverpoints.             *)
(***************************************************************************)
EXTENDS TestGen, FiniteSetTheorems, TLAPS

-----------------------------------------------------------------------------
(* The register file *)

\* Every register is free, special or held, and none is two of these.
Accounts(f, held) ==
    /\ f \in RegisterFile /\ held \subseteq Reg
    /\ f.temp \in TempRegs
    /\ f.sig # f.data
    /\ {f.sig, f.data} \cap {0, f.temp, f.temp + 1} = {}
    /\ Specials(f) \cap (f.reg_list \cup held) = {}
    /\ f.reg_list \cap held = {}
    /\ Reg = f.reg_list \cup held \cup Specials(f)

LEMMA InitAccounts == Accounts(InitRegisters, {})
BY RegistersAssumption
   DEF Accounts, InitRegisters, RegisterFile, Specials, Reg, default_sig_reg, default_data_reg,
       default_temp_reg

LEMMA TakeAccounts ==
    ASSUME NEW f, NEW held, Accounts(f, held), NEW regs \in SUBSET (held \cup f.reg_list)
    PROVE  Accounts(Take(f, regs), held \cup regs)
BY DEF Accounts, Take, RegisterFile, Specials

LEMMA ReturnAccounts ==
    ASSUME NEW f, NEW held, Accounts(f, held), NEW regs \in SUBSET (held \cup f.reg_list)
    PROVE  Accounts(return_registers(f, regs), held \ regs)
BY DEF Accounts, return_registers, RegisterFile, Specials

\* A request is disjoint from what is held, and its registers are held after it.
LEMMA ConsumeAccounts ==
    ASSUME NEW f, NEW held, Accounts(f, held), NEW regs \in SUBSET Reg,
           NEW g \in consume_registers(f, regs)
    PROVE  /\ regs \cap held = {}
           /\ Accounts(g, held \cup regs)
<1> DEFINE freed == Freed(f, regs)
           rest == freed \ regs
<1>1. regs \subseteq freed
  BY DEF consume_registers
<1>2. PICK s \in PointerChoices(f.sig, rest, regs), d \in PointerChoices(f.data, rest, regs),
           t \in TempChoices(f, rest, regs) :
        s # d /\ g = [reg_list |-> rest \ {s, d, t, t + 1}, sig |-> s, data |-> d, temp |-> t]
  BY <1>1 DEF consume_registers
<1>3. freed \cap held = {} /\ freed \subseteq Reg
  BY DEF Freed, Accounts, Specials, RegisterFile
<1>4. f.sig \in Reg /\ f.data \in Reg /\ f.temp \in Reg /\ f.temp + 1 \in Reg
      /\ link_temp_regs \subseteq Reg /\ f.temp \in link_temp_regs /\ f.temp + 1 \in link_temp_regs
  BY RegistersAssumption DEF Accounts, RegisterFile, link_temp_regs
<1>5. s \in Reg /\ s \notin held \cup regs /\ s \notin {0} /\ (s = f.sig \/ s \notin link_temp_regs)
      /\ (s = f.sig \/ s \in rest)
  BY <1>2, <1>3, <1>4 DEF PointerChoices, Accounts, Specials
<1>6. d \in Reg /\ d \notin held \cup regs /\ d \notin {0} /\ (d = f.data \/ d \notin link_temp_regs)
      /\ (d = f.data \/ d \in rest)
  BY <1>2, <1>3, <1>4 DEF PointerChoices, Accounts, Specials
<1>7. t \in TempRegs /\ t \in Reg /\ t + 1 \in Reg /\ {t, t + 1} \cap (held \cup regs) = {}
      /\ ((t \in rest /\ t + 1 \in rest) \/ t = f.temp)
      /\ {t, t + 1} \subseteq link_temp_regs
  <2>1. t \in TempRegs
    BY <1>2 DEF TempChoices, Accounts
  <2>2. t \in Reg /\ t + 1 \in Reg /\ {t, t + 1} \subseteq link_temp_regs
    BY <2>1, RegistersAssumption DEF link_temp_regs
  <2>3. ASSUME regs \cap {f.temp, f.temp + 1} # {} PROVE t \in rest /\ t + 1 \in rest
    BY <1>2, <2>3 DEF TempChoices
  <2>4. ASSUME regs \cap {f.temp, f.temp + 1} = {} PROVE t = f.temp
    BY <1>2, <2>4 DEF TempChoices
  <2>5. {f.temp, f.temp + 1} \cap held = {}
    BY DEF Accounts, Specials
  <2>6. rest \cap (held \cup regs) = {}
    BY <1>3
  <2> QED BY <2>1, <2>2, <2>3, <2>4, <2>5, <2>6
<1>8. s \notin {t, t + 1} /\ d \notin {t, t + 1}
  <2>1. f.sig \notin {f.temp, f.temp + 1} /\ f.data \notin {f.temp, f.temp + 1}
    BY DEF Accounts
  <2>2. (f.sig \notin regs => f.sig \notin rest) /\ (f.data \notin regs => f.data \notin rest)
    BY <2>1 DEF Freed, Accounts, Specials
  <2>3. f.sig \in regs => s # f.sig
    BY <1>5
  <2>4. f.data \in regs => d # f.data
    BY <1>6
  <2> QED BY <1>5, <1>6, <1>7, <2>1, <2>2, <2>3, <2>4
<1>9. Reg = (rest \ {s, d, t, t + 1}) \cup (held \cup regs) \cup {s, d, t, t + 1}
  <2>1. Reg = f.reg_list \cup held \cup {f.sig, f.data, f.temp, f.temp + 1}
    BY DEF Accounts, Specials
  <2>2. f.reg_list \subseteq rest \cup regs
    BY DEF Freed
  <2>3. f.sig \in regs \/ f.sig = s
    BY <1>2 DEF PointerChoices
  <2>4. f.data \in regs \/ f.data = d
    BY <1>2 DEF PointerChoices
  <2>5. {f.temp, f.temp + 1} \subseteq rest \cup regs \/ f.temp = t
    BY <1>2 DEF TempChoices, Freed
  <2> QED BY <2>1, <2>2, <2>3, <2>4, <2>5, <1>3, <1>5, <1>6, <1>7
<1> HIDE DEF freed, rest
<1>10. g.sig = s /\ g.data = d /\ g.temp = t /\ g.reg_list = rest \ {s, d, t, t + 1}
       /\ g \in RegisterFile
  BY <1>2, <1>3, <1>5, <1>6, <1>7 DEF RegisterFile, rest
<1>11. rest \cap (held \cup regs) = {}
  BY <1>3 DEF rest
<1>12. Specials(g) = {s, d, t, t + 1}
  BY <1>10 DEF Specials
<1>13. regs \cap held = {}
  BY <1>1, <1>3
<1>14. {s, d} \cap {0, t, t + 1} = {}
  BY <1>5, <1>6, <1>8
<1>15. held \subseteq Reg
  BY DEF Accounts
<1>16. Accounts(g, held \cup regs)
  <2>1. {g.sig, g.data} \cap {0, g.temp, g.temp + 1} = {} /\ g.sig # g.data /\ g.temp \in TempRegs
    BY <1>2, <1>7, <1>10, <1>14
  <2>2. Specials(g) \cap (g.reg_list \cup (held \cup regs)) = {}
    BY <1>5, <1>6, <1>7, <1>10, <1>12
  <2>3. g.reg_list \cap (held \cup regs) = {}
    BY <1>10, <1>11
  <2>4. Reg = g.reg_list \cup (held \cup regs) \cup Specials(g)
    BY <1>9, <1>10, <1>12
  <2> QED BY <2>1, <2>2, <2>3, <2>4, <1>10, <1>15 DEF Accounts
<1> QED BY <1>13, <1>16

\* The signature pointer takes over a register that is held.
LEMMA MoveAccounts ==
    ASSUME NEW f, NEW held, Accounts(f, held), NEW new \in held, new # 0
    PROVE  Accounts(move_sig_reg(f, new), held \ {new})
<1> DEFINE g == move_sig_reg(f, new)
<1>1. g.sig = new /\ g.data = f.data /\ g.temp = f.temp
      /\ g.reg_list = (f.reg_list \cup {f.sig}) \ {new} /\ g \in RegisterFile
  BY DEF Accounts, move_sig_reg, RegisterFile
<1>2. Specials(g) = {new, f.data, f.temp, f.temp + 1}
  BY <1>1 DEF Specials
<1> HIDE DEF g
<1>3. new \notin Specials(f) /\ Specials(f) = {f.sig, f.data, f.temp, f.temp + 1}
  BY DEF Accounts, Specials
<1>4. {g.sig, g.data} \cap {0, g.temp, g.temp + 1} = {} /\ g.sig # g.data
  BY <1>1, <1>3 DEF Accounts
<1>5. Specials(g) \cap (g.reg_list \cup (held \ {new})) = {}
  BY <1>1, <1>2, <1>3 DEF Accounts
<1>6. Reg = g.reg_list \cup (held \ {new}) \cup Specials(g)
  BY <1>1, <1>2, <1>3 DEF Accounts
<1>7. g.reg_list \cap (held \ {new}) = {}
  BY <1>1, <1>3 DEF Accounts
<1> QED BY <1>1, <1>4, <1>5, <1>6, <1>7 DEF Accounts, g

-----------------------------------------------------------------------------
(* The formatters return what they took.                                     *)

\* Every register is accounted for when the testcase has ended.
Returned(o) ==
    /\ Accounts(return_registers(o.file, o.used), {})
    /\ \E held : Accounts(o.file, held)

LEMMA UsedReturned ==
    ASSUME NEW f, NEW held, Accounts(f, held), NEW regs \in SUBSET (held \cup f.reg_list),
           held \subseteq regs
    PROVE  Accounts(return_registers(f, regs), {})
<1>1. Accounts(return_registers(f, regs), held \ regs)
  BY ReturnAccounts
<1>2. held \ regs = {}
  OBVIOUS
<1> QED BY <1>1, <1>2

\* A register reserved for an instruction goes back, unless it is an operand.
LEMMA ReservedReturns ==
    ASSUME NEW f, NEW held, Accounts(f, held), NEW r \in Reg, NEW regs \in SUBSET held,
           NEW g \in Reserving(f, r, regs)
    PROVE  Accounts(return_registers(g, {r} \ regs), held)
<1>1. CASE r \in regs
  <2>1. g = f /\ {r} \ regs = {}
    BY <1>1 DEF Reserving
  <2>2. Accounts(return_registers(f, {}), held \ {})
    BY ReturnAccounts
  <2>3. held \ {} = held
    OBVIOUS
  <2> QED BY <2>1, <2>2, <2>3
<1>2. CASE r \notin regs
  <2>1. g \in consume_registers(f, {r})
    BY <1>2 DEF Reserving
  <2>2. {r} \cap held = {} /\ Accounts(g, held \cup {r})
    BY <2>1, ConsumeAccounts
  <2>3. Accounts(return_registers(g, {r}), (held \cup {r}) \ {r})
    BY <2>2, ReturnAccounts
  <2>4. (held \cup {r}) \ {r} = held /\ {r} \ regs = {r}
    BY <2>2, <1>2
  <2> QED BY <2>3, <2>4
<1> QED BY <1>1, <1>2

LEMMA BaseAccounts ==
    ASSUME NEW f, NEW held, Accounts(f, held), NEW r \in held, NEW x \in NonZeroBase(f, r)
    PROVE  /\ Accounts(x.file, (held \ {r}) \cup {x.base})
           /\ x.base # 0 /\ x.base \notin held \ {r}
           /\ r # 0 => x.base = r
           /\ r = 0 => r \in x.file.reg_list
<1>1. CASE r # 0
  <2>1. x = [base |-> r, file |-> f]
    BY <1>1 DEF NonZeroBase
  <2>2. (held \ {r}) \cup {r} = held
    OBVIOUS
  <2> QED BY <1>1, <2>1, <2>2
<1>2. CASE r = 0
  <2>1. PICK q \in Available(f, {0}, Drawn) :
            x = [base |-> q, file |-> Take(return_registers(f, {0}), {q})]
    BY <1>2 DEF NonZeroBase
  <2> DEFINE back == return_registers(f, {0})
  <2>2. Accounts(back, held \ {0})
    BY <1>2, ReturnAccounts
  <2>3. q \in f.reg_list /\ q # 0 /\ q \notin held /\ q \in back.reg_list /\ 0 \in back.reg_list
    BY DEF Available, return_registers, Accounts, RegisterFile
  <2> HIDE DEF back
  <2>4. Accounts(Take(back, {q}), (held \ {0}) \cup {q})
    BY <2>2, <2>3, TakeAccounts
  <2>5. 0 \in Take(back, {q}).reg_list
    BY <2>2, <2>3 DEF Take, Accounts, RegisterFile
  <2> QED BY <1>2, <2>1, <2>3, <2>4, <2>5 DEF back
<1> QED BY <1>1, <1>2

\* The registers that instructions imply exist.
LEMMA ImpliedRegisters == {0, 1, 2, 3} \subseteq Reg
BY RegistersAssumption DEF Reg

LEMMA RReturns ==
    ASSUME NEW f, NEW m, NEW p, Accounts(f, {p["rd"], p["rs1"], p["rs2"]}),
           NEW o \in R_type(f, m, p)
    PROVE  Returned(o)
<1>1. o.file = f /\ o.used = {p["rd"], p["rs1"], p["rs2"]}
  BY DEF R_type, Outcome
<1> QED BY <1>1, UsedReturned DEF Returned

LEMMA SReturns ==
    ASSUME NEW f, NEW m, NEW p, Accounts(f, {p["rs1"], p["rs2"], p["temp_reg"]}),
           p["rs1"] \notin {p["rs2"], p["temp_reg"]},
           NEW o \in S_type(f, m, p)
    PROVE  Returned(o)
<1> DEFINE others == {p["rs2"], p["temp_reg"]}
<1>1. PICK x \in NonZeroBase(f, p["rs1"]) :
          o = Stored(x.file, m, x.base, p, IF x.base # x.file.sig THEN {} ELSE {x.base}, 2)
  BY DEF S_type
<1>2. {p["rs1"], p["rs2"], p["temp_reg"]} \ {p["rs1"]} = others
  OBVIOUS
<1>3. Accounts(x.file, others \cup {x.base}) /\ x.base # 0 /\ x.base \notin others
  BY <1>1, <1>2, BaseAccounts
<1>4. x.base # x.file.sig
  BY <1>3 DEF Accounts, Specials
<1>5. o.file = move_sig_reg(x.file, x.base) /\ o.used = others
  BY <1>1, <1>4 DEF Stored, Outcome
<1>6. Accounts(o.file, (others \cup {x.base}) \ {x.base})
  BY <1>3, <1>5, MoveAccounts
<1>7. (others \cup {x.base}) \ {x.base} = others
  BY <1>3
<1> QED BY <1>5, <1>6, <1>7, UsedReturned DEF Returned

LEMMA LReturns ==
    ASSUME NEW f, NEW m, NEW p, Accounts(f, {p["rd"], p["rs1"], p["temp_reg"]}),
           NEW o \in L_type(f, m, p)
    PROVE  Returned(o)
<1> DEFINE all == {p["rd"], p["rs1"], p["temp_reg"]}
<1>1. PICK x \in NonZeroBase(f, p["rs1"]) :
          o.file = x.file /\ o.used = {p["rd"], x.base, p["temp_reg"]}
  BY DEF L_type, Outcome
<1>2. Accounts(x.file, (all \ {p["rs1"]}) \cup {x.base})
  BY <1>1, BaseAccounts
<1>3. p["rs1"] = x.base \/ p["rs1"] \in x.file.reg_list
  <2>1. Accounts(f, all) /\ p["rs1"] \in all
    OBVIOUS
  <2> DEFINE r == p["rs1"]
  <2> HIDE DEF all, r
  <2>2. x \in NonZeroBase(f, r) /\ r \in all
    BY <1>1, <2>1 DEF r
  <2>3. (r # 0 => x.base = r) /\ (r = 0 => r \in x.file.reg_list)
    BY <2>1, <2>2, BaseAccounts
  <2> QED BY <2>3 DEF r
<1>4. o.used \subseteq ((all \ {p["rs1"]}) \cup {x.base}) \cup x.file.reg_list
  BY <1>1, <1>3
<1>5. (all \ {p["rs1"]}) \cup {x.base} \subseteq o.used
  BY <1>1
<1> HIDE DEF all
<1> QED BY <1>1, <1>2, <1>4, <1>5, UsedReturned DEF Returned

LEMMA CSSReturns ==
    ASSUME NEW f, NEW m, NEW p, Accounts(f, {p["rs2"], p["temp_reg"]}),
           NEW o \in CSS_type(f, m, p)
    PROVE  Returned(o)
<1>1. PICK g \in Reserving(f, 2, {p["rs2"]}) :
          /\ o.file = return_registers(g, {2} \ {p["rs2"]})
          /\ o.used = {p["rs2"], p["temp_reg"]}
  BY DEF CSS_type, Outcome
<1>2. Accounts(o.file, {p["rs2"], p["temp_reg"]})
  BY <1>1, ReservedReturns, ImpliedRegisters
<1> QED BY <1>1, <1>2, UsedReturned DEF Returned

LEMMA CILSReturns ==
    ASSUME NEW f, NEW m, NEW p, Accounts(f, {p["rd"], p["temp_reg"]}),
           NEW o \in CILS_type(f, m, p)
    PROVE  Returned(o)
<1>1. PICK g \in Reserving(f, 2, {p["rd"]}) :
          /\ o.file = return_registers(g, {2} \ {p["rd"]})
          /\ o.used = {p["rd"], p["temp_reg"]}
  BY DEF CILS_type, Outcome
<1>2. Accounts(o.file, {p["rd"], p["temp_reg"]})
  BY <1>1, ReservedReturns, ImpliedRegisters
<1> QED BY <1>1, <1>2, UsedReturned DEF Returned

LEMMA CIWReturns ==
    ASSUME NEW f, NEW m, NEW p, Accounts(f, {p["rd"]}), NEW o \in CIW_type(f, m, p)
    PROVE  Returned(o)
<1>1. PICK g \in Reserving(f, 2, {p["rd"]}) :
          o.file = return_registers(g, {2} \ {p["rd"]}) /\ o.used = {p["rd"]}
  BY DEF CIW_type, Outcome
<1>2. Accounts(o.file, {p["rd"]})
  BY <1>1, ReservedReturns, ImpliedRegisters
<1> QED BY <1>1, <1>2, UsedReturned DEF Returned

LEMMA CIReturns ==
    ASSUME NEW k, NEW f, NEW m, NEW p, Accounts(f, {p["rs1"]}), NEW o \in CI_type(k, f, m, p)
    PROVE  Returned(o)
<1> DEFINE back == return_registers(f, {p["rs1"]})
<1>1. CASE k = "CI"
  <2>1. o.file = f /\ o.used = {p["rs1"]}
    BY <1>1 DEF CI_type, CI_case, Outcome
  <2> QED BY <2>1, UsedReturned DEF Returned
<1>2. CASE k # "CI"
  <2>1. o.file \in consume_registers(back, {2}) /\ o.used = {2}
    BY <1>2 DEF CI_type, CI_case, Outcome
  <2>2. Accounts(back, {})
    BY UsedReturned
  <2> HIDE DEF back
  <2>3. Accounts(o.file, {} \cup {2})
    BY <2>1, <2>2, ConsumeAccounts, ImpliedRegisters
  <2>4. Accounts(o.file, {2})
    BY <2>3
  <2> QED BY <2>1, <2>4, UsedReturned DEF Returned
<1> QED BY <1>1, <1>2

LEMMA CJALRReturns ==
    ASSUME NEW f, NEW m, NEW p, Accounts(f, {p["rs1"], p["temp_reg"]}),
           NEW o \in CJALR_type(f, m, p)
    PROVE  Returned(o)
<1>1. PICK g \in Reserving(f, 1, {p["temp_reg"], p["rs1"]}) :
          /\ o.file = return_registers(g, {1} \ {p["temp_reg"], p["rs1"]})
          /\ o.used = {p["rs1"], p["temp_reg"]}
  BY DEF CJALR_type, Outcome
<1>2. Accounts(o.file, {p["rs1"], p["temp_reg"]})
  BY <1>1, ReservedReturns, ImpliedRegisters
<1> QED BY <1>1, <1>2, UsedReturned DEF Returned

\* The operands' registers, as a set.
Taken(k, p) == {p[x] : x \in required_params[k]}

LEMMA FormatReturns ==
    ASSUME NEW k \in AllKinds, NEW f, NEW m, NEW p, Accounts(f, Taken(k, p)),
           k = "S" => p["rs1"] \notin {p["rs2"], p["temp_reg"]},
           NEW o \in format_instruction(k, f, m, p)
    PROVE  Returned(o)
<1>1. CASE k = "R"
  <2>1. Taken(k, p) = {p["rd"], p["rs1"], p["rs2"]}
    BY <1>1 DEF Taken, required_params
  <2>2. o \in R_type(f, m, p)
    BY <1>1, Zenon DEF format_instruction
  <2> QED BY <2>1, <2>2, RReturns
<1>2. CASE k = "S"
  <2>1. Taken(k, p) = {p["rs1"], p["rs2"], p["temp_reg"]}
    BY <1>2 DEF Taken, required_params
  <2>2. o \in S_type(f, m, p)
    BY <1>2, Zenon DEF format_instruction
  <2> QED BY <1>2, <2>1, <2>2, SReturns
<1>3. CASE k = "L"
  <2>1. Taken(k, p) = {p["rd"], p["rs1"], p["temp_reg"]}
    BY <1>3 DEF Taken, required_params
  <2>2. o \in L_type(f, m, p)
    BY <1>3, Zenon DEF format_instruction
  <2> QED BY <2>1, <2>2, LReturns
<1>4. CASE k = "CSS"
  <2>1. Taken(k, p) = {p["rs2"], p["temp_reg"]}
    BY <1>4 DEF Taken, required_params
  <2>2. o \in CSS_type(f, m, p)
    BY <1>4, Zenon DEF format_instruction
  <2> QED BY <2>1, <2>2, CSSReturns
<1>5. CASE k = "CILS"
  <2>1. Taken(k, p) = {p["rd"], p["temp_reg"]}
    BY <1>5 DEF Taken, required_params
  <2>2. o \in CILS_type(f, m, p)
    BY <1>5, Zenon DEF format_instruction
  <2> QED BY <2>1, <2>2, CILSReturns
<1>6. CASE k = "CIW"
  <2>1. Taken(k, p) = {p["rd"]}
    BY <1>6 DEF Taken, required_params
  <2>2. o \in CIW_type(f, m, p)
    BY <1>6, Zenon DEF format_instruction
  <2> QED BY <2>1, <2>2, CIWReturns
<1>7. CASE k \in {"CI", "ADDI16SP"}
  <2>1. Taken(k, p) = {p["rs1"]}
    BY <1>7 DEF Taken, required_params
  <2>2. o \in CI_type(k, f, m, p)
    BY <1>7, Zenon DEF format_instruction
  <2> QED BY <2>1, <2>2, CIReturns
<1>8. CASE k = "CJALR"
  <2>1. Taken(k, p) = {p["rs1"], p["temp_reg"]}
    BY <1>8 DEF Taken, required_params
  <2>2. o \in CJALR_type(f, m, p)
    BY <1>8, Zenon DEF format_instruction
  <2> QED BY <2>1, <2>2, CJALRReturns
<1> QED BY <1>1, <1>2, <1>3, <1>4, <1>5, <1>6, <1>7, <1>8 DEF AllKinds

-----------------------------------------------------------------------------
(* The inductive invariant of the register file.                             *)

Held == IF stage = "consumed" /\ fixed.operands # {} THEN {fixed.reg} ELSE {}

\* A request only fixes operands that the instruction has, and not both
\* registers of a store.
FixedInv ==
    /\ kind \in AllKinds
    /\ fixed.operands \subseteq required_params[kind]
    /\ kind = "S" => ~ ({"rs1", "rs2"} \subseteq fixed.operands)
    /\ "temp_reg" \notin fixed.operands

FileInv == stage # "raised" => Accounts(file, Held)

RegistersInv == FixedInv /\ FileInv

LEMMA RequiredType == required_params \in [AllKinds -> SUBSET Operands]
BY DEF required_params, AllKinds, Operands

\* What the coverpoint fixed and what is drawn are exactly the registers that
\* leave the pool.
LEMMA ParamsAccount ==
    ASSUME RegistersInv, stage = "consumed", NEW p \in random_params(file, kind)
    PROVE  /\ Accounts(Take(file, Taken(kind, p)), Taken(kind, p))
           /\ kind = "S" => p["rs1"] \notin {p["rs2"], p["temp_reg"]}
           /\ kind = "CJALR" => p["rs1"] # p["temp_reg"]
<1> DEFINE req == required_params[kind]
           missing == req \ fixed.operands
<1>1. PICK drawn \in [missing -> Available(file, {}, reg_range(kind) \cap Drawn)] :
          /\ p = [x \in req |-> IF x \in missing THEN drawn[x] ELSE fixed.reg]
          /\ \A x, y \in missing : drawn[x] = drawn[y] => x = y
  BY DEF random_params
<1>2. \A x \in missing : p[x] = drawn[x] /\ p[x] \in file.reg_list
  BY <1>1 DEF Available
<1>3. \A x \in req \ missing : p[x] = fixed.reg /\ x \in fixed.operands
  BY <1>1
<1>4. fixed.operands \subseteq req
  BY DEF RegistersInv, FixedInv
<1>5. Accounts(file, Held)
  BY DEF RegistersInv, FileInv
<1>6. Taken(kind, p) \subseteq Held \cup file.reg_list
  <2> SUFFICES ASSUME NEW x \in req PROVE p[x] \in Held \cup file.reg_list
    BY DEF Taken
  <2> QED BY <1>2, <1>3 DEF Held
<1>7. Held \subseteq Taken(kind, p)
  <2> SUFFICES ASSUME fixed.operands # {} PROVE fixed.reg \in Taken(kind, p)
    BY DEF Held
  <2>1. PICK x \in fixed.operands : TRUE
    OBVIOUS
  <2>2. x \in req \ missing
    BY <2>1, <1>4
  <2> QED BY <2>2, <1>3 DEF Taken
<1>8. Accounts(Take(file, Taken(kind, p)), Taken(kind, p))
  <2>1. Accounts(Take(file, Taken(kind, p)), Held \cup Taken(kind, p))
    BY <1>5, <1>6, TakeAccounts
  <2>2. Held \cup Taken(kind, p) = Taken(kind, p)
    BY <1>7
  <2> QED BY <2>1, <2>2
<1>9. /\ \A x \in req \ missing, y \in missing : p[x] # p[y]
      /\ \A x, y \in missing : x # y => p[x] # p[y]
  <2>1. Held \cap file.reg_list = {}
    BY <1>5 DEF Accounts
  <2> QED BY <2>1, <1>1, <1>2, <1>3 DEF Held
<1>10. ASSUME kind = "S" PROVE p["rs1"] \notin {p["rs2"], p["temp_reg"]}
  <2>1. req = {"rs1", "rs2", "temp_reg"}
    BY <1>10 DEF required_params
  <2>2. "temp_reg" \in missing /\ ("rs1" \in missing \/ "rs2" \in missing)
    BY <1>10, <2>1 DEF RegistersInv, FixedInv
  <2> HIDE DEF missing, req
  <2> QED BY <2>1, <2>2, <1>9
<1>11. ASSUME kind = "CJALR" PROVE p["rs1"] # p["temp_reg"]
  <2>1. req = {"rs1", "temp_reg"}
    BY <1>11 DEF required_params
  <2>2. "temp_reg" \in missing
    BY <2>1 DEF RegistersInv, FixedInv
  <2> HIDE DEF missing, req
  <2> QED BY <2>1, <2>2, <1>9
<1> QED BY <1>8, <1>10, <1>11

LEMMA RegistersInvInit == Init => RegistersInv
<1> SUFFICES ASSUME Init PROVE RegistersInv
  OBVIOUS
<1>1. kind \in AllKinds /\ fixed.operands = {} /\ file = InitRegisters /\ Held = {}
  BY TestGenAssumption DEF Init, Held
<1>2. FixedInv
  BY <1>1, RequiredType DEF FixedInv
<1> QED BY <1>1, <1>2, InitAccounts DEF RegistersInv, FileInv

LEMMA RegistersInvNext == RegistersInv /\ [Next]_vars => RegistersInv'
<1> SUFFICES ASSUME RegistersInv, [Next]_vars PROVE RegistersInv'
  OBVIOUS
<1>1. ASSUME NEW operands \in Fixed, NEW reg \in Reg, Consume(operands, reg)
      PROVE  RegistersInv'
  <2>1. FixedInv'
    BY <1>1, TestGenAssumption DEF Consume, RegistersInv, FixedInv
  <2>2. ASSUME stage' # "raised" PROVE Accounts(file', Held')
    <3>1. file' \in consume_registers(file, {reg}) /\ stage' = "consumed"
      BY <1>1, <2>2 DEF Consume
    <3>2. Accounts(file, {})
      BY <1>1 DEF Consume, RegistersInv, FileInv, Held
    <3>3. Accounts(file', {} \cup {reg})
      BY <3>1, <3>2, ConsumeAccounts
    <3>4. Held' = {reg} /\ {} \cup {reg} = {reg}
      BY <1>1, <3>1, TestGenAssumption DEF Consume, Held
    <3> QED BY <3>3, <3>4
  <2> QED BY <2>1, <2>2 DEF RegistersInv, FileInv
<1>2. CASE ConsumeNothing
  <2>1. FixedInv'
    BY <1>2 DEF ConsumeNothing, RegistersInv, FixedInv
  <2>2. Held = {} /\ Held' = {}
    BY <1>2 DEF ConsumeNothing, Held
  <2>3. Accounts(file', Held')
    BY <1>2, <2>2 DEF ConsumeNothing, RegistersInv, FileInv
  <2> QED BY <2>1, <2>3 DEF RegistersInv, FileInv
<1>3. CASE Generate
  <2>1. FixedInv'
    BY <1>3 DEF Generate, RegistersInv, FixedInv
  <2>2. ASSUME stage' # "raised" PROVE Accounts(file', Held')
    <3>1. PICK p \in random_params(file, kind), m \in {
                 Relocate(IF StartsFile THEN reinit_pointer_registers(file) ELSE machine,
                          before, file)} :
            /\ stage' = "idle"
            /\ \E o \in format_instruction(kind, Take(file, Taken(kind, p)), m, p) : Testcase(o)
      BY <1>3, <2>2 DEF Generate, Taken
    <3>2. PICK o \in format_instruction(kind, Take(file, Taken(kind, p)), m, p) : Testcase(o)
      BY <3>1
    <3>3. stage = "consumed" /\ kind \in AllKinds
      BY <1>3 DEF Generate, RegistersInv, FixedInv
    <3>4. Returned(o)
      BY <3>2, <3>3, ParamsAccount, FormatReturns
    <3>5. Held' = {}
      BY <3>1 DEF Held
    <3> QED BY <3>2, <3>4, <3>5 DEF Testcase, Returned
  <2> QED BY <2>1, <2>2 DEF RegistersInv, FileInv
<1>4. CASE Destroy
  <2>1. FixedInv' /\ Held = {} /\ Held' = {}
    BY <1>4 DEF Destroy, RegistersInv, FixedInv, Held
  <2> QED BY <1>4, <2>1 DEF Destroy, RegistersInv, FileInv
<1>5. CASE UNCHANGED vars
  BY <1>5 DEF vars, RegistersInv, FixedInv, FileInv, Held
<1> QED BY <1>1, <1>2, <1>3, <1>4, <1>5 DEF Next

\* Registers neither get lost nor serve two purposes.
THEOREM RegistersAreAccounted == Spec => []RegistersAccounted
<1>1. RegistersInv => RegistersAccounted
  BY DEF RegistersInv, FileInv, Held, RegistersAccounted, Accounts, RegisterFile
<1> QED BY <1>1, RegistersInvInit, RegistersInvNext, PTL DEF Spec

-----------------------------------------------------------------------------
(* What single instructions do to the machine.                               *)

\* The special registers are four registers, none of them x0.
Sound(f) ==
    /\ {f.sig, f.data, f.temp, f.temp + 1} \subseteq Reg
    /\ f.sig # f.data
    /\ {f.sig, f.data} \cap {0, f.temp, f.temp + 1} = {}

Has(m, r, c) == r = 0 \/ m.holds[r] = c

\* The machine has used s slots and v values; if b, nothing went wrong so far
\* and the pointers are where f has them.
Ready(m, f, b, s, v) ==
    /\ m \in Machine /\ m.slots = s /\ m.values = v
    /\ Sound(f)
    /\ b => m.intact /\ m.holds[f.sig] = "sig" /\ m.holds[f.data] = "data"

LEMMA AccountsSound ==
    ASSUME NEW f, NEW held, Accounts(f, held)
    PROVE  Sound(f) /\ Specials(f) \cap held = {} /\ held \subseteq Reg
<1>1. f.temp + 1 \in Reg
  BY RegistersAssumption DEF Accounts
<1> QED BY <1>1 DEF Accounts, Sound, RegisterFile

LEMMA PutReady ==
    ASSUME NEW m, NEW f, NEW b, NEW s, NEW v, Ready(m, f, b, s, v),
           NEW r \in Reg, r \notin {f.sig, f.data}, NEW c \in Contents
    PROVE  /\ Ready(Put(m, r, c), f, b, s, v)
           /\ Has(Put(m, r, c), r, c)
           /\ \A q \in Reg, d \in Contents : q # r /\ Has(m, q, d) => Has(Put(m, r, c), q, d)
<1>1. CASE r = 0
  BY <1>1 DEF Put, Has
<1>2. CASE r # 0
  <2>1. Put(m, r, c) = [m EXCEPT !.holds[r] = c]
    BY <1>2 DEF Put
  <2>2. m.holds \in [Reg -> Contents]
    BY DEF Ready, Machine
  <2>3. /\ Put(m, r, c).holds = [m.holds EXCEPT ![r] = c]
        /\ Put(m, r, c).intact = m.intact
        /\ Put(m, r, c).slots = m.slots /\ Put(m, r, c).values = m.values
        /\ Put(m, r, c) \in Machine
    BY <2>1, <2>2 DEF Ready, Machine
  <2> QED BY <2>2, <2>3 DEF Ready, Sound, Has
<1> QED BY <1>1, <1>2

LEMMA NeedsReady ==
    ASSUME NEW m, NEW f, NEW b, NEW s, NEW v, Ready(m, f, b, s, v),
           NEW r \in Reg, NEW c \in Contents, b => Has(m, r, c)
    PROVE  /\ Ready(Needs(m, r, c), f, b, s, v)
           /\ Needs(m, r, c).holds = m.holds
           /\ \A q, d : Has(m, q, d) => Has(Needs(m, r, c), q, d)
BY DEF Ready, Needs, Machine, Has

Advanced(n, h, x, y) == [n EXCEPT !.holds = h, !.slots = x, !.values = y]

LEMMA AdvancedMachine ==
    ASSUME NEW n \in Machine, NEW h \in [Reg -> Contents], NEW x \in Nat, NEW y \in Nat
    PROVE  /\ Advanced(n, h, x, y) \in Machine
           /\ Advanced(n, h, x, y).holds = h /\ Advanced(n, h, x, y).intact = n.intact
           /\ Advanced(n, h, x, y).slots = x /\ Advanced(n, h, x, y).values = y
BY DEF Machine, Advanced

LEMMA SigReady ==
    ASSUME NEW m, NEW f, NEW b, NEW s \in Nat, NEW v, Ready(m, f, b, s, v)
    PROVE  /\ Ready(Advance(m, f.sig, "sig"), f, b, s + 1, v)
           /\ \A q \in Reg, d \in Contents \ {"sig"} :
                  Has(m, q, d) => Has(Advance(m, f.sig, "sig"), q, d)
<1> DEFINE n == Needs(m, f.sig, "sig")
           a == Advance(m, f.sig, "sig")
<1>1. f.sig \in Reg /\ "sig" \in Contents /\ "junk" \in Contents
      /\ m.holds \in [Reg -> Contents] /\ m \in Machine
  BY DEF Ready, Sound, Contents, Machine
<1>2. Ready(n, f, b, s, v) /\ n.holds = m.holds
  <2>1. b => Has(m, f.sig, "sig")
    BY DEF Has, Ready
  <2> QED BY <1>1, <2>1, NeedsReady
<1> HIDE DEF n
<1>3. a = [n EXCEPT !.holds = [q \in Reg |-> IF q # f.sig /\ m.holds[q] = "sig" THEN "junk"
                                              ELSE m.holds[q]],
                    !.slots = @ + 1, !.values = @]
  BY DEF Advance, n
<1>4. /\ a.holds = [q \in Reg |-> IF q # f.sig /\ m.holds[q] = "sig" THEN "junk" ELSE m.holds[q]]
      /\ a.slots = s + 1 /\ a.values = v /\ a.intact = n.intact /\ a \in Machine
  <2>1. n \in Machine /\ n.slots = s /\ n.values = v
    BY <1>2 DEF Ready
  <2> DEFINE h == [q \in Reg |-> IF q # f.sig /\ m.holds[q] = "sig" THEN "junk" ELSE m.holds[q]]
  <2>2. h \in [Reg -> Contents]
    BY <1>1
  <2>3. a = Advanced(n, h, s + 1, v)
    BY <1>3, <2>1 DEF Advanced
  <2> DEFINE x == s + 1
  <2>4. a = Advanced(n, h, x, v) /\ x \in Nat /\ v \in Nat /\ n \in Machine
    BY <2>1, <2>3 DEF Machine
  <2> HIDE DEF h, a, x
  <2>5. a.holds = h /\ a.slots = x /\ a.values = v /\ a.intact = n.intact /\ a \in Machine
    BY <2>2, <2>4, AdvancedMachine, SMTT(20)
  <2> QED BY <2>5 DEF h, x
<1> HIDE DEF a
<1>5. Ready(a, f, b, s + 1, v)
  BY <1>1, <1>2, <1>4 DEF Ready, Sound
<1>6. \A q \in Reg, d \in Contents \ {"sig"} : Has(m, q, d) => Has(a, q, d)
  BY <1>4 DEF Has
<1> QED BY <1>5, <1>6 DEF a

LEMMA DataReady ==
    ASSUME NEW m, NEW f, NEW b, NEW s, NEW v \in Nat, Ready(m, f, b, s, v)
    PROVE  /\ Ready(Advance(m, f.data, "data"), f, b, s, v + 1)
           /\ \A q \in Reg, d \in Contents \ {"data"} :
                  Has(m, q, d) => Has(Advance(m, f.data, "data"), q, d)
<1> DEFINE n == Needs(m, f.data, "data")
           a == Advance(m, f.data, "data")
<1>1. f.data \in Reg /\ "data" \in Contents /\ "junk" \in Contents
      /\ m.holds \in [Reg -> Contents] /\ m \in Machine
  BY DEF Ready, Sound, Contents, Machine
<1>2. Ready(n, f, b, s, v) /\ n.holds = m.holds
  <2>1. b => Has(m, f.data, "data")
    BY DEF Has, Ready
  <2> QED BY <1>1, <2>1, NeedsReady
<1> HIDE DEF n
<1>3. a = [n EXCEPT !.holds = [q \in Reg |-> IF q # f.data /\ m.holds[q] = "data" THEN "junk"
                                              ELSE m.holds[q]],
                    !.slots = @, !.values = @ + 1]
  BY DEF Advance, n
<1>4. /\ a.holds = [q \in Reg |-> IF q # f.data /\ m.holds[q] = "data" THEN "junk" ELSE m.holds[q]]
      /\ a.slots = s /\ a.values = v + 1 /\ a.intact = n.intact /\ a \in Machine
  <2>1. n \in Machine /\ n.slots = s /\ n.values = v
    BY <1>2 DEF Ready
  <2> DEFINE h == [q \in Reg |-> IF q # f.data /\ m.holds[q] = "data" THEN "junk" ELSE m.holds[q]]
  <2>2. h \in [Reg -> Contents]
    BY <1>1
  <2>3. a = Advanced(n, h, s, v + 1)
    BY <1>3, <2>1 DEF Advanced
  <2> DEFINE x == v + 1
  <2>4. a = Advanced(n, h, s, x) /\ s \in Nat /\ x \in Nat /\ n \in Machine
    BY <2>1, <2>3 DEF Machine
  <2> HIDE DEF h, a, x
  <2>5. a.holds = h /\ a.slots = s /\ a.values = x /\ a.intact = n.intact /\ a \in Machine
    BY <2>2, <2>4, AdvancedMachine, SMTT(20)
  <2> QED BY <2>5 DEF h, x
<1> HIDE DEF a
<1>5. Ready(a, f, b, s, v + 1)
  BY <1>1, <1>2, <1>4 DEF Ready, Sound
<1>6. \A q \in Reg, d \in Contents \ {"data"} : Has(m, q, d) => Has(a, q, d)
  BY <1>4 DEF Has
<1> QED BY <1>5, <1>6 DEF a

LEMMA LoadReady ==
    ASSUME NEW m, NEW f, NEW b, NEW s, NEW v \in Nat, Ready(m, f, b, s, v),
           NEW r \in Reg, r \notin {f.sig, f.data}
    PROVE  /\ Ready(load_int_reg(m, f, r), f, b, s, v + 1)
           /\ Has(load_int_reg(m, f, r), r, "value")
           /\ \A q \in Reg, d \in Contents \ {"data"} :
                  q # r /\ Has(m, q, d) => Has(load_int_reg(m, f, r), q, d)
<1> DEFINE a == Advance(m, f.data, "data")
<1>1. /\ Ready(a, f, b, s, v + 1)
      /\ \A q \in Reg, d \in Contents \ {"data"} : Has(m, q, d) => Has(a, q, d)
  BY DataReady
<1>2. "value" \in Contents /\ load_int_reg(m, f, r) = Put(a, r, "value")
  BY DEF Contents, load_int_reg
<1> HIDE DEF a
<1> QED BY <1>1, <1>2, PutReady

LEMMA SigupdReady ==
    ASSUME NEW m, NEW f, NEW b, NEW s \in Nat, NEW v, Ready(m, f, b, s, v),
           NEW r \in Reg, r \notin {f.temp, f.temp + 1}, b => Has(m, r, "result")
    PROVE  /\ Ready(write_sigupd(m, f, r), f, b, s + 1, v)
           /\ \A q \in Reg \ {f.temp, f.temp + 1}, d \in Contents \ {"sig"} :
                  Has(m, q, d) => Has(write_sigupd(m, f, r), q, d)
<1> DEFINE m1 == Put(m, f.temp, "junk")
           m2 == Put(m1, f.temp + 1, "junk")
           m3 == Needs(m2, r, "result")
<1>1. {"junk", "result"} \subseteq Contents /\ f.temp \in Reg /\ f.temp + 1 \in Reg
      /\ f.temp \notin {f.sig, f.data} /\ f.temp + 1 \notin {f.sig, f.data}
  BY DEF Contents, Ready, Sound
<1>2. /\ Ready(m1, f, b, s, v)
      /\ \A q \in Reg, d \in Contents : q # f.temp /\ Has(m, q, d) => Has(m1, q, d)
  BY <1>1, PutReady
<1> HIDE DEF m1
<1>3. /\ Ready(m2, f, b, s, v)
      /\ \A q \in Reg, d \in Contents : q # f.temp + 1 /\ Has(m1, q, d) => Has(m2, q, d)
  BY <1>1, <1>2, PutReady
<1> HIDE DEF m2
<1>4. b => Has(m2, r, "result")
  BY <1>1, <1>2, <1>3
<1>5. Ready(m3, f, b, s, v) /\ \A q, d : Has(m2, q, d) => Has(m3, q, d)
  BY <1>1, <1>3, <1>4, NeedsReady
<1>6. write_sigupd(m, f, r) = Advance(m3, f.sig, "sig")
  BY DEF write_sigupd, m1, m2
<1> HIDE DEF m3
<1>7. /\ Ready(Advance(m3, f.sig, "sig"), f, b, s + 1, v)
      /\ \A q \in Reg, d \in Contents \ {"sig"} :
             Has(m3, q, d) => Has(Advance(m3, f.sig, "sig"), q, d)
  BY <1>5, SigReady
<1> QED BY <1>2, <1>3, <1>5, <1>6, <1>7

\* A register other than the pointers receives a copy.
LEMMA MvReady ==
    ASSUME NEW m, NEW f, NEW b, NEW s, NEW v, Ready(m, f, b, s, v),
           NEW r \in Reg, r \notin {f.sig, f.data}, NEW old \in Reg
    PROVE  /\ Ready(Mv(m, r, old), f, b, s, v)
           /\ Has(Mv(m, r, old), r, m.holds[old])
           /\ \A q \in Reg, d \in Contents : q # r /\ Has(m, q, d) => Has(Mv(m, r, old), q, d)
<1>1. m.holds[old] \in Contents
  BY DEF Ready, Machine
<1> QED BY <1>1, PutReady DEF Mv

\* A pointer's new place is the allocator's as well.
LEMMA SigMoved ==
    ASSUME NEW m, NEW f, NEW b, NEW s, NEW v, Ready(m, f, b, s, v),
           NEW g, Sound(g), g.data = f.data, b => Has(m, g.sig, "sig")
    PROVE  Ready(m, g, b, s, v)
BY DEF Ready, Sound, Has

LEMMA DataMoved ==
    ASSUME NEW m, NEW f, NEW b, NEW s, NEW v, Ready(m, f, b, s, v),
           NEW g, Sound(g), g.sig = f.sig, b => Has(m, g.data, "data")
    PROVE  Ready(m, g, b, s, v)
BY DEF Ready, Sound, Has

-----------------------------------------------------------------------------
(* The moves that a relocation asks for.                                     *)

\* A move, or none if the register is the same.
Moved(m, new, old) == IF new # old THEN Mv(m, new, old) ELSE m

LEMMA MoveOne ==
    ASSUME NEW m \in Machine, NEW new \in Reg \ {0}, NEW old \in Reg,
           NEW n, n = Moved(m, new, old)
    PROVE  /\ n \in Machine
           /\ n.holds = [m.holds EXCEPT ![new] = m.holds[old]]
           /\ n.intact = m.intact /\ n.slots = m.slots /\ n.values = m.values
<1>1. m.holds \in [Reg -> Contents] /\ m.holds[old] \in Contents
  BY DEF Machine
<1>2. CASE new # old
  <2>1. n = [m EXCEPT !.holds[new] = m.holds[old]]
    BY <1>2 DEF Moved, Mv, Put
  <2> QED BY <1>1, <2>1 DEF Machine
<1>3. CASE new = old
  BY <1>1, <1>3 DEF Moved
<1> QED BY <1>2, <1>3

LEMMA RelocateEffect ==
    ASSUME NEW m \in Machine, NEW f, NEW g, Sound(g), g.temp # 0, g.temp + 1 # 0,
           {f.sig, f.data, f.temp, f.temp + 1} \subseteq Reg, g.sig # f.data,
           NEW n, n = Relocate(m, f, g)
    PROVE  /\ n \in Machine /\ n.intact = m.intact /\ n.slots = m.slots /\ n.values = m.values
           /\ n.holds[g.sig] = m.holds[f.sig] /\ n.holds[g.data] = m.holds[f.data]
           /\ \A q \in Reg \ Specials(g) : n.holds[q] = m.holds[q]
<1> DEFINE m1 == Moved(m, g.sig, f.sig)
           m2 == Moved(m1, g.data, f.data)
           m3 == Moved(m2, g.temp, f.temp)
           m4 == Moved(m3, g.temp + 1, f.temp + 1)
<1>1. g.temp # f.temp <=> g.temp + 1 # f.temp + 1
  BY RegistersAssumption DEF Sound, Reg
<1>2. n = m4
  <2> DEFINE u == m2
  <2> HIDE DEF u
  <2>1. n = IF g.temp # f.temp THEN Mv(Mv(u, g.temp, f.temp), g.temp + 1, f.temp + 1) ELSE u
    BY DEF Relocate, u, Moved
  <2>2. m3 = IF g.temp # f.temp THEN Mv(u, g.temp, f.temp) ELSE u
    BY DEF u, Moved
  <2> HIDE DEF m3
  <2>3. CASE g.temp # f.temp
    BY <1>1, <2>1, <2>2, <2>3 DEF Moved
  <2>4. CASE g.temp = f.temp
    BY <1>1, <2>1, <2>2, <2>4 DEF Moved
  <2> QED BY <2>3, <2>4
<1>3. {g.sig, g.data, g.temp, g.temp + 1} \subseteq Reg \ {0}
  BY DEF Sound
<1>4. /\ m1 \in Machine
      /\ m1.holds = [m.holds EXCEPT ![g.sig] = m.holds[f.sig]]
      /\ m1.intact = m.intact /\ m1.slots = m.slots /\ m1.values = m.values
  BY <1>3, MoveOne
<1> HIDE DEF m1
<1>5. /\ m2 \in Machine
      /\ m2.holds = [m1.holds EXCEPT ![g.data] = m1.holds[f.data]]
      /\ m2.intact = m1.intact /\ m2.slots = m1.slots /\ m2.values = m1.values
  <2>1. m1 \in Machine /\ g.data \in Reg \ {0} /\ f.data \in Reg
    BY <1>3, <1>4
  <2> QED BY <2>1, MoveOne
<1> HIDE DEF m2
<1>6. /\ m3 \in Machine
      /\ m3.holds = [m2.holds EXCEPT ![g.temp] = m2.holds[f.temp]]
      /\ m3.intact = m2.intact /\ m3.slots = m2.slots /\ m3.values = m2.values
  <2>1. m2 \in Machine /\ g.temp \in Reg \ {0} /\ f.temp \in Reg
    BY <1>3, <1>5
  <2> QED BY <2>1, MoveOne
<1> HIDE DEF m3
<1>7. /\ m4 \in Machine
      /\ m4.holds = [m3.holds EXCEPT ![g.temp + 1] = m3.holds[f.temp + 1]]
      /\ m4.intact = m3.intact /\ m4.slots = m3.slots /\ m4.values = m3.values
  <2>1. m3 \in Machine /\ g.temp + 1 \in Reg \ {0} /\ f.temp + 1 \in Reg
    BY <1>3, <1>6
  <2> QED BY <2>1, MoveOne
<1> HIDE DEF m4
<1>8. /\ m.holds \in [Reg -> Contents] /\ m1.holds \in [Reg -> Contents]
      /\ m2.holds \in [Reg -> Contents] /\ m3.holds \in [Reg -> Contents]
  BY <1>4, <1>5, <1>6 DEF Machine
<1>9. \A q \in Reg \ Specials(g) : n.holds[q] = m.holds[q]
  BY <1>2, <1>3, <1>4, <1>5, <1>6, <1>7, <1>8 DEF Specials
<1>10. g.sig \notin {g.data, g.temp, g.temp + 1} /\ g.data \notin {g.sig, g.temp, g.temp + 1}
  BY DEF Sound
<1>11. n.holds[g.sig] = m.holds[f.sig]
  BY <1>2, <1>3, <1>4, <1>5, <1>6, <1>7, <1>8, <1>10
<1>12. n.holds[g.data] = m.holds[f.data]
  <2>1. m1.holds[f.data] = m.holds[f.data]
    BY <1>4, <1>8
  <2>2. m2.holds[g.data] = m1.holds[f.data]
    BY <1>3, <1>5, <1>8
  <2>3. m3.holds[g.data] = m2.holds[g.data]
    BY <1>3, <1>6, <1>8, <1>10
  <2>4. m4.holds[g.data] = m3.holds[g.data]
    BY <1>3, <1>7, <1>8, <1>10
  <2> QED BY <1>2, <2>1, <2>2, <2>3, <2>4
<1>13. n \in Machine /\ n.intact = m.intact /\ n.slots = m.slots /\ n.values = m.values
  BY <1>2, <1>4, <1>5, <1>6, <1>7
<1> QED BY <1>9, <1>11, <1>12, <1>13

\* A pointer never takes the register that the other one had.
LEMMA ConsumeUncrossed ==
    ASSUME NEW f, NEW held, Accounts(f, held), NEW regs \in SUBSET Reg,
           NEW g \in consume_registers(f, regs)
    PROVE  g.sig # f.data /\ g.data # f.sig
<1> DEFINE rest == Freed(f, regs) \ regs
<1>1. PICK s \in PointerChoices(f.sig, rest, regs), d \in PointerChoices(f.data, rest, regs),
           t \in TempChoices(f, rest, regs) :
        s # d /\ g = [reg_list |-> rest \ {s, d, t, t + 1}, sig |-> s, data |-> d, temp |-> t]
  BY DEF consume_registers
<1>2. f.sig \notin rest /\ f.data \notin rest
  BY DEF Freed, Accounts, Specials
<1>3. f.sig # f.data
  BY DEF Accounts
<1> QED BY <1>1, <1>2, <1>3 DEF PointerChoices

LEMMA RelocateReady ==
    ASSUME NEW m, NEW f, NEW b, NEW s, NEW v, Ready(m, f, b, s, v),
           NEW held, Accounts(f, held), NEW regs \in SUBSET Reg, NEW g \in consume_registers(f, regs)
    PROVE  /\ Ready(Relocate(m, f, g), g, b, s, v)
           /\ \A q \in Reg \ Specials(g) : \A d : Has(m, q, d) => Has(Relocate(m, f, g), q, d)
<1>1. Accounts(g, held \cup regs)
  BY ConsumeAccounts
<1>2. Sound(g) /\ Sound(f)
  BY <1>1, AccountsSound
<1>3. g.temp # 0 /\ g.temp + 1 # 0
  BY <1>1, RegistersAssumption DEF Accounts, Reg
<1>4. g.sig # f.data
  BY ConsumeUncrossed
<1>5. {f.sig, f.data, f.temp, f.temp + 1} \subseteq Reg /\ m \in Machine
  BY <1>2 DEF Sound, Ready
<1> DEFINE n == Relocate(m, f, g)
<1>6. /\ n \in Machine /\ n.intact = m.intact /\ n.slots = m.slots /\ n.values = m.values
      /\ n.holds[g.sig] = m.holds[f.sig] /\ n.holds[g.data] = m.holds[f.data]
      /\ \A q \in Reg \ Specials(g) : n.holds[q] = m.holds[q]
  BY <1>2, <1>3, <1>4, <1>5, RelocateEffect
<1> HIDE DEF n
<1> QED BY <1>2, <1>6 DEF Ready, Has, n

-----------------------------------------------------------------------------
(* A formatter's code finds what it relies on.                               *)

\* The testcase ends in order, and uses the slots and values it counts.
GoodOutcome(o, b, s, v) ==
    /\ Ready(o.machine, o.file, b, s + o.slots, v + o.values)
    /\ o.slots \in Nat /\ o.values \in Nat

LEMMA ReadySame ==
    ASSUME NEW m, NEW f, NEW b, NEW s, NEW v, Ready(m, f, b, s, v),
           NEW g, g.sig = f.sig, g.data = f.data, g.temp = f.temp
    PROVE  Ready(m, g, b, s, v)
BY DEF Ready, Sound

LEMMA ReturnSame ==
    ASSUME NEW f, NEW held, Accounts(f, held), NEW regs
    PROVE  /\ return_registers(f, regs).sig = f.sig
           /\ return_registers(f, regs).data = f.data
           /\ return_registers(f, regs).temp = f.temp
           /\ Take(f, regs).sig = f.sig /\ Take(f, regs).data = f.data
           /\ Take(f, regs).temp = f.temp
BY DEF Accounts, RegisterFile, return_registers, Take

\* A held register is no special one.
LEMMA HeldPlain ==
    ASSUME NEW f, NEW held, Accounts(f, held), NEW r \in held
    PROVE  r \in Reg /\ r \notin {f.sig, f.data} /\ r \notin {f.temp, f.temp + 1}
           /\ r \in Reg \ {f.temp, f.temp + 1} /\ r \in Reg \ Specials(f)
BY DEF Accounts, Specials

LEMMA RGood ==
    ASSUME NEW f, NEW m, NEW p, NEW b, NEW s \in Nat, NEW v \in Nat, Ready(m, f, b, s, v),
           Accounts(f, {p["rd"], p["rs1"], p["rs2"]}), NEW o \in R_type(f, m, p)
    PROVE  GoodOutcome(o, b, s, v)
<1> DEFINE rd == p["rd"]
           rs1 == p["rs1"]
           rs2 == p["rs2"]
           m1 == load_int_reg(m, f, rs1)
           m2 == load_int_reg(m1, f, rs2)
           m3 == Needs(m2, rs1, "value")
           m4 == Needs(m3, rs2, "value")
           m5 == Put(m4, rd, "result")
           m6 == write_sigupd(m5, f, rd)
<1>1. o.file = f /\ o.machine = m6 /\ o.slots = 1 /\ o.values = 2
  BY DEF R_type, Outcome
<1>2. \A r \in {rd, rs1, rs2} : r \in Reg /\ r \notin {f.sig, f.data}
                                 /\ r \notin {f.temp, f.temp + 1}
  BY HeldPlain
<1>3. {"value", "result"} \subseteq Contents \ {"data", "sig"}
  BY DEF Contents
<1> HIDE DEF rd, rs1, rs2, m6
<1>4. Ready(m1, f, b, s, v + 1) /\ Has(m1, rs1, "value")
  BY <1>2, LoadReady
<1> HIDE DEF m1
<1>5. Ready(m2, f, b, s, v + 1 + 1) /\ Has(m2, rs2, "value") /\ Has(m2, rs1, "value")
  <2>1. /\ Ready(m2, f, b, s, v + 1 + 1) /\ Has(m2, rs2, "value")
        /\ \A q \in Reg, d \in Contents \ {"data"} : q # rs2 /\ Has(m1, q, d) => Has(m2, q, d)
    BY <1>2, <1>4, LoadReady
  <2> QED BY <1>2, <1>3, <1>4, <2>1
<1> HIDE DEF m2
<1>6. Ready(m3, f, b, s, v + 1 + 1) /\ Has(m3, rs2, "value")
  BY <1>2, <1>3, <1>5, NeedsReady
<1> HIDE DEF m3
<1>7. Ready(m4, f, b, s, v + 1 + 1)
  BY <1>2, <1>3, <1>6, NeedsReady
<1> HIDE DEF m4
<1>8. Ready(m5, f, b, s, v + 1 + 1) /\ Has(m5, rd, "result")
  BY <1>2, <1>3, <1>7, PutReady
<1> HIDE DEF m5
<1>9. Ready(m6, f, b, s + 1, v + 1 + 1)
  BY <1>2, <1>8, SigupdReady DEF m6
<1>10. v + 1 + 1 = v + 2
  OBVIOUS
<1> QED BY <1>1, <1>9, <1>10 DEF GoodOutcome

LEMMA BaseSame ==
    ASSUME NEW f, NEW held, Accounts(f, held), NEW r, NEW x \in NonZeroBase(f, r)
    PROVE  x.file.sig = f.sig /\ x.file.data = f.data /\ x.file.temp = f.temp
<1>1. CASE r # 0
  BY <1>1 DEF NonZeroBase
<1>2. CASE r = 0
  <2> DEFINE back == return_registers(f, {0})
  <2>1. PICK q \in Available(f, {0}, Drawn) : x.file = Take(back, {q})
    BY <1>2 DEF NonZeroBase
  <2>2. back \in RegisterFile
    BY ImpliedRegisters DEF return_registers, Accounts, RegisterFile
  <2>3. back.sig = f.sig /\ back.data = f.data /\ back.temp = f.temp
    BY ReturnSame
  <2> HIDE DEF back
  <2> QED BY <2>1, <2>2, <2>3 DEF Take, RegisterFile
<1> QED BY <1>1, <1>2

LEMMA SGood ==
    ASSUME NEW f, NEW m, NEW p, NEW b, NEW s \in Nat, NEW v \in Nat, Ready(m, f, b, s, v),
           Accounts(f, {p["rs1"], p["rs2"], p["temp_reg"]}),
           p["rs1"] \notin {p["rs2"], p["temp_reg"]}, NEW o \in S_type(f, m, p)
    PROVE  GoodOutcome(o, b, s, v)
<1> DEFINE rs2 == p["rs2"]
           temp == p["temp_reg"]
           others == {rs2, temp}
<1>1. PICK x \in NonZeroBase(f, p["rs1"]) :
          o = Stored(x.file, m, x.base, p, IF x.base # x.file.sig THEN {} ELSE {x.base}, 2)
  BY DEF S_type
<1>2. {p["rs1"], p["rs2"], p["temp_reg"]} \ {p["rs1"]} = others
  OBVIOUS
<1>3. Accounts(x.file, others \cup {x.base}) /\ x.base # 0 /\ x.base \notin others
  BY <1>1, <1>2, BaseAccounts
<1> DEFINE h == x.file
           base == x.base
           g == move_sig_reg(h, base)
           m1 == load_int_reg(m, h, rs2)
           m2 == Mv(m1, base, h.sig)
           m3 == Needs(m2, rs2, "value")
           m4 == Advance(m3, base, "sig")
           m5 == Put(m4, temp, "result")
           m6 == write_sigupd(m5, g, temp)
<1>4. Ready(m, h, b, s, v)
  BY <1>1, BaseSame, ReadySame
<1>5. base # h.sig
  BY <1>3 DEF Accounts, Specials
<1>6. o.file = g /\ o.machine = m6 /\ o.slots = 2 /\ o.values = 1
  BY <1>1, <1>5 DEF Stored, Outcome
<1> HIDE DEF m6, h, base
<1>7. Accounts(g, others)
  <2>1. Accounts(g, (others \cup {base}) \ {base})
    BY <1>3, MoveAccounts DEF h, base
  <2>2. (others \cup {base}) \ {base} = others
    BY <1>3 DEF base
  <2> QED BY <2>1, <2>2
<1>8. g.sig = base /\ g.data = h.data /\ Sound(g)
  <2>1. h \in RegisterFile
    BY <1>3 DEF Accounts, h
  <2>2. g.sig = base /\ g.data = h.data
    BY <2>1 DEF move_sig_reg, RegisterFile
  <2> QED BY <2>2, <1>7, AccountsSound
<1> HIDE DEF g
<1>9. /\ rs2 \in Reg /\ rs2 \notin {h.sig, h.data} /\ rs2 # base
      /\ base \in Reg /\ base \notin {h.sig, h.data} /\ h.sig \in Reg
  <2>1. rs2 \in others \cup {base} /\ base \in others \cup {base}
    OBVIOUS
  <2>2. Accounts(h, others \cup {base}) /\ base # rs2
    BY <1>3 DEF h, base
  <2>3. h.sig \in Reg
    BY <1>4 DEF Ready, Sound
  <2> HIDE DEF others
  <2> QED BY <2>1, <2>2, <2>3, HeldPlain
<1>10. rs2 \in Reg /\ temp \in Reg /\ temp \notin {g.sig, g.data} /\ temp \notin {g.temp, g.temp + 1}
  <2>1. rs2 \in others /\ temp \in others
    OBVIOUS
  <2> HIDE DEF others
  <2> QED BY <2>1, <1>7, HeldPlain
<1>11. {"value", "result", "sig"} \subseteq Contents /\ "value" # "data"
  BY DEF Contents
<1> HIDE DEF rs2, temp, others
<1>12. Ready(m1, h, b, s, v + 1) /\ Has(m1, rs2, "value")
  BY <1>4, <1>9, LoadReady
<1> HIDE DEF m1
<1>13. Ready(m2, h, b, s, v + 1) /\ Has(m2, rs2, "value") /\ Has(m2, base, m1.holds[h.sig])
  BY <1>9, <1>11, <1>12, MvReady
<1>14. b => Has(m2, base, "sig")
  BY <1>12, <1>13 DEF Ready
<1> HIDE DEF m2
<1>15. Ready(m2, g, b, s, v + 1)
  BY <1>8, <1>13, <1>14, SigMoved
<1>16. Ready(m3, g, b, s, v + 1)
  BY <1>10, <1>11, <1>13, <1>15, NeedsReady
<1> HIDE DEF m3
<1>17. Ready(m4, g, b, s + 1, v + 1)
  BY <1>8, <1>16, SigReady
<1> HIDE DEF m4
<1>18. Ready(m5, g, b, s + 1, v + 1) /\ Has(m5, temp, "result")
  BY <1>10, <1>11, <1>17, PutReady
<1> HIDE DEF m5
<1>19. Ready(m6, g, b, s + 1 + 1, v + 1)
  <2>1. s + 1 \in Nat
    OBVIOUS
  <2> QED BY <2>1, <1>10, <1>18, SigupdReady DEF m6
<1>20. s + 1 + 1 = s + 2
  OBVIOUS
<1> QED BY <1>6, <1>19, <1>20 DEF GoodOutcome

LEMMA LGood ==
    ASSUME NEW f, NEW m, NEW p, NEW b, NEW s \in Nat, NEW v \in Nat, Ready(m, f, b, s, v),
           Accounts(f, {p["rd"], p["rs1"], p["temp_reg"]}), NEW o \in L_type(f, m, p)
    PROVE  GoodOutcome(o, b, s, v)
<1> DEFINE all == {p["rd"], p["rs1"], p["temp_reg"]}
           rd == p["rd"]
           rs1 == p["rs1"]
<1>1. PICK x \in NonZeroBase(f, rs1) :
          o = LET based == Put(Needs(m, x.file.data, "data"), x.base, "target")
                  loaded == Put(Needs(based, x.base, "target"), rd, "result")
                  checked == Advance(write_sigupd(loaded, x.file, rd), x.file.data, "data")
              IN  Outcome(x.file, checked, {rd, x.base, p["temp_reg"]}, 1, 1)
  BY DEF L_type
<1> DEFINE h == x.file
           base == x.base
           m1 == Needs(m, h.data, "data")
           m2 == Put(m1, base, "target")
           m3 == Needs(m2, base, "target")
           m4 == Put(m3, rd, "result")
           m5 == write_sigupd(m4, h, rd)
           m6 == Advance(m5, h.data, "data")
<1>2. o.file = h /\ o.machine = m6 /\ o.slots = 1 /\ o.values = 1
  BY <1>1 DEF Outcome
<1> HIDE DEF m6, h, base
<1>3. Ready(m, h, b, s, v)
  BY <1>1, BaseSame, ReadySame DEF h
<1>4. Accounts(f, all) /\ rd \in all /\ rs1 \in all
  OBVIOUS
<1>5. h.sig = f.sig /\ h.data = f.data /\ h.temp = f.temp
  BY <1>1, BaseSame DEF h
<1> HIDE DEF rd, rs1, all
<1>6. rd \in Reg /\ rd \notin {h.sig, h.data} /\ rd \notin {h.temp, h.temp + 1}
  BY <1>4, <1>5, HeldPlain
<1>7. base \in Reg /\ base \notin {h.sig, h.data}
  <2>1. Accounts(h, (all \ {rs1}) \cup {base}) /\ base \in (all \ {rs1}) \cup {base}
    BY <1>1, <1>4, BaseAccounts DEF h, base
  <2> QED BY <2>1, HeldPlain
<1>8. "data" \in Contents /\ "target" \in Contents /\ "result" \in Contents
  BY DEF Contents
<1>15. h.data \in Reg /\ (b => Has(m, h.data, "data"))
  BY <1>3 DEF Ready, Sound, Has
<1>9. Ready(m1, h, b, s, v)
  BY <1>3, <1>8, <1>15, NeedsReady
<1> HIDE DEF m1
<1>10. Ready(m2, h, b, s, v) /\ Has(m2, base, "target")
  BY <1>7, <1>8, <1>9, PutReady
<1> HIDE DEF m2
<1>11. Ready(m3, h, b, s, v)
  BY <1>7, <1>8, <1>10, NeedsReady
<1> HIDE DEF m3
<1>12. Ready(m4, h, b, s, v) /\ Has(m4, rd, "result")
  BY <1>6, <1>8, <1>11, PutReady
<1> HIDE DEF m4
<1>13. Ready(m5, h, b, s + 1, v)
  BY <1>6, <1>12, SigupdReady
<1> HIDE DEF m5
<1>14. Ready(m6, h, b, s + 1, v + 1)
  BY <1>13, DataReady DEF m6
<1> QED BY <1>2, <1>14 DEF GoodOutcome

\* After a register was reserved, the operands are as they were.
LEMMA ReservedReady ==
    ASSUME NEW f, NEW m, NEW b, NEW s, NEW v, Ready(m, f, b, s, v),
           NEW held, Accounts(f, held), NEW r \in Reg, NEW regs \in SUBSET held,
           NEW g \in Reserving(f, r, regs)
    PROVE  /\ Accounts(g, held \cup {r})
           /\ Ready(Relocate(m, f, g), g, b, s, v)
           /\ \A q \in held : \A d : Has(m, q, d) => Has(Relocate(m, f, g), q, d)
<1>1. CASE r \in regs
  <2>1. g = f
    BY <1>1 DEF Reserving
  <2>2. Relocate(m, f, g) = m
    BY <2>1 DEF Relocate
  <2>3. held \cup {r} = held
    BY <1>1
  <2> QED BY <2>1, <2>2, <2>3
<1>2. CASE r \notin regs
  <2>1. g \in consume_registers(f, {r})
    BY <1>2 DEF Reserving
  <2>2. Accounts(g, held \cup {r})
    BY <2>1, ConsumeAccounts
  <2>3. held \subseteq Reg \ Specials(g)
    BY <2>2 DEF Accounts
  <2>4. /\ Ready(Relocate(m, f, g), g, b, s, v)
        /\ \A q \in Reg \ Specials(g) : \A d : Has(m, q, d) => Has(Relocate(m, f, g), q, d)
    BY <2>1, RelocateReady
  <2> QED BY <2>2, <2>3, <2>4
<1> QED BY <1>1, <1>2

LEMMA CSSGood ==
    ASSUME NEW f, NEW m, NEW p, NEW b, NEW s \in Nat, NEW v \in Nat, Ready(m, f, b, s, v),
           Accounts(f, {p["rs2"], p["temp_reg"]}), NEW o \in CSS_type(f, m, p)
    PROVE  GoodOutcome(o, b, s, v)
<1> DEFINE rs2 == p["rs2"]
           temp == p["temp_reg"]
           held == {rs2, temp}
<1>1. PICK g \in Reserving(f, 2, {rs2}) :
          o = LET loaded == load_int_reg(Relocate(m, f, g), g, rs2)
                  based == Needs(Mv(loaded, 2, g.sig), 2, "sig")
                  tested == Needs(based, rs2, IF rs2 = 2 THEN "sig" ELSE "value")
                  advanced == Advance(Put(tested, temp, "result"), g.sig, "sig")
              IN  Outcome(return_registers(g, {2} \ {rs2}),
                          write_sigupd(advanced, g, temp), {rs2, temp}, 2, 1)
  BY DEF CSS_type
<1> DEFINE m0 == Relocate(m, f, g)
           m1 == load_int_reg(m0, g, rs2)
           m2 == Mv(m1, 2, g.sig)
           m3 == Needs(m2, 2, "sig")
           c == IF rs2 = 2 THEN "sig" ELSE "value"
           m4 == Needs(m3, rs2, c)
           m5 == Put(m4, temp, "result")
           m6 == Advance(m5, g.sig, "sig")
           m7 == write_sigupd(m6, g, temp)
           h == return_registers(g, {2} \ {rs2})
<1>2. o.file = h /\ o.machine = m7 /\ o.slots = 2 /\ o.values = 1
  BY <1>1 DEF Outcome
<1> HIDE DEF m7, h
<1>3. Accounts(g, held \cup {2}) /\ Ready(m0, g, b, s, v)
  BY ImpliedRegisters, ReservedReady
<1> HIDE DEF m0
<1>4. rs2 \in held \cup {2} /\ temp \in held \cup {2} /\ 2 \in held \cup {2}
  OBVIOUS
<1> HIDE DEF held, temp, rs2
<1>5. /\ rs2 \in Reg /\ rs2 \notin {g.sig, g.data}
      /\ temp \in Reg /\ temp \notin {g.sig, g.data} /\ temp \notin {g.temp, g.temp + 1}
      /\ 2 \in Reg /\ 2 \notin {g.sig, g.data}
  BY <1>3, <1>4, HeldPlain
<1>6. "sig" \in Contents /\ "value" \in Contents /\ "result" \in Contents /\ c \in Contents
      /\ "result" \in Contents \ {"sig"}
  BY DEF Contents
<1>7. g.sig \in Reg
  BY <1>3 DEF Ready, Sound
<1>8. Ready(m1, g, b, s, v + 1) /\ Has(m1, rs2, "value")
  BY <1>3, <1>5, LoadReady
<1> HIDE DEF m1
<1>9. /\ Ready(m2, g, b, s, v + 1)
      /\ Has(m2, 2, m1.holds[g.sig])
      /\ rs2 # 2 => Has(m2, rs2, "value")
  <2>1. /\ Ready(m2, g, b, s, v + 1)
        /\ Has(m2, 2, m1.holds[g.sig])
        /\ \A q \in Reg, d \in Contents : q # 2 /\ Has(m1, q, d) => Has(m2, q, d)
    BY <1>5, <1>7, <1>8, MvReady
  <2> QED BY <2>1, <1>5, <1>6, <1>8
<1>10. (b => Has(m2, 2, "sig")) /\ (b => Has(m2, rs2, c))
  BY <1>8, <1>9 DEF Ready
<1> HIDE DEF m2, c
<1>11. Ready(m3, g, b, s, v + 1) /\ (b => Has(m3, rs2, c))
  <2>1. Ready(m3, g, b, s, v + 1) /\ \A q, d : Has(m2, q, d) => Has(m3, q, d)
    BY <1>5, <1>6, <1>9, <1>10, NeedsReady
  <2> QED BY <1>10, <2>1
<1> HIDE DEF m3
<1>12. Ready(m4, g, b, s, v + 1)
  BY <1>5, <1>6, <1>11, NeedsReady
<1> HIDE DEF m4
<1>13. Ready(m5, g, b, s, v + 1) /\ Has(m5, temp, "result")
  BY <1>5, <1>6, <1>12, PutReady
<1> HIDE DEF m5
<1>14. Ready(m6, g, b, s + 1, v + 1) /\ Has(m6, temp, "result")
  <2>1. /\ Ready(m6, g, b, s + 1, v + 1)
        /\ \A q \in Reg, d \in Contents \ {"sig"} : Has(m5, q, d) => Has(m6, q, d)
    BY <1>13, SigReady
  <2> QED BY <2>1, <1>5, <1>6, <1>13
<1> HIDE DEF m6
<1>15. Ready(m7, g, b, s + 1 + 1, v + 1)
  <2>1. s + 1 \in Nat
    OBVIOUS
  <2> QED BY <2>1, <1>5, <1>14, SigupdReady DEF m7
<1>16. h.sig = g.sig /\ h.data = g.data /\ h.temp = g.temp
  BY <1>3, ReturnSame DEF h
<1>17. Ready(m7, h, b, s + 1 + 1, v + 1)
  BY <1>15, <1>16, ReadySame
<1>18. s + 1 + 1 = s + 2
  OBVIOUS
<1> QED BY <1>2, <1>17, <1>18 DEF GoodOutcome

LEMMA CILSGood ==
    ASSUME NEW f, NEW m, NEW p, NEW b, NEW s \in Nat, NEW v \in Nat, Ready(m, f, b, s, v),
           Accounts(f, {p["rd"], p["temp_reg"]}), NEW o \in CILS_type(f, m, p)
    PROVE  GoodOutcome(o, b, s, v)
<1> DEFINE rd == p["rd"]
           held == {rd, p["temp_reg"]}
<1>1. PICK g \in Reserving(f, 2, {rd}) :
          o = LET based == Mv(Relocate(m, f, g), 2, g.data)
                  tested == Put(Needs(based, 2, "data"), rd, "result")
                  checked == Advance(write_sigupd(tested, g, rd), g.data, "data")
              IN  Outcome(return_registers(g, {2} \ {rd}), checked, held, 1, 1)
  BY DEF CILS_type
<1> DEFINE m0 == Relocate(m, f, g)
           m1 == Mv(m0, 2, g.data)
           m2 == Needs(m1, 2, "data")
           m3 == Put(m2, rd, "result")
           m4 == write_sigupd(m3, g, rd)
           m5 == Advance(m4, g.data, "data")
           h == return_registers(g, {2} \ {rd})
<1>2. o.file = h /\ o.machine = m5 /\ o.slots = 1 /\ o.values = 1
  BY <1>1 DEF Outcome
<1> HIDE DEF m5, h
<1>3. Accounts(g, held \cup {2}) /\ Ready(m0, g, b, s, v)
  BY ImpliedRegisters, ReservedReady
<1> HIDE DEF m0
<1>4. rd \in held \cup {2} /\ 2 \in held \cup {2}
  OBVIOUS
<1> HIDE DEF held, rd
<1>5. /\ rd \in Reg /\ rd \notin {g.sig, g.data} /\ rd \notin {g.temp, g.temp + 1}
      /\ 2 \in Reg /\ 2 \notin {g.sig, g.data}
  BY <1>3, <1>4, HeldPlain
<1>6. "data" \in Contents /\ "result" \in Contents
  BY DEF Contents
<1>7. g.data \in Reg
  BY <1>3 DEF Ready, Sound
<1>8. Ready(m1, g, b, s, v) /\ Has(m1, 2, m0.holds[g.data])
  BY <1>3, <1>5, <1>7, MvReady
<1>9. b => Has(m1, 2, "data")
  BY <1>3, <1>8 DEF Ready
<1> HIDE DEF m1
<1>10. Ready(m2, g, b, s, v)
  BY <1>5, <1>6, <1>8, <1>9, NeedsReady
<1> HIDE DEF m2
<1>11. Ready(m3, g, b, s, v) /\ Has(m3, rd, "result")
  BY <1>5, <1>6, <1>10, PutReady
<1> HIDE DEF m3
<1>12. Ready(m4, g, b, s + 1, v)
  BY <1>5, <1>11, SigupdReady
<1> HIDE DEF m4
<1>13. Ready(m5, g, b, s + 1, v + 1)
  BY <1>12, DataReady DEF m5
<1>14. h.sig = g.sig /\ h.data = g.data /\ h.temp = g.temp
  BY <1>3, ReturnSame DEF h
<1>15. Ready(m5, h, b, s + 1, v + 1)
  BY <1>13, <1>14, ReadySame
<1> QED BY <1>2, <1>15 DEF GoodOutcome

LEMMA CIWGood ==
    ASSUME NEW f, NEW m, NEW p, NEW b, NEW s \in Nat, NEW v \in Nat, Ready(m, f, b, s, v),
           Accounts(f, {p["rd"]}), NEW o \in CIW_type(f, m, p)
    PROVE  GoodOutcome(o, b, s, v)
<1> DEFINE rd == p["rd"]
           held == {rd}
<1>1. PICK g \in Reserving(f, 2, held) :
          o = LET loaded == load_int_reg(Relocate(m, f, g), g, 2)
                  tested == Put(Needs(loaded, 2, "value"), rd, "result")
              IN  Outcome(return_registers(g, {2} \ held), write_sigupd(tested, g, rd), held, 1, 1)
  BY DEF CIW_type
<1> DEFINE m0 == Relocate(m, f, g)
           m1 == load_int_reg(m0, g, 2)
           m2 == Needs(m1, 2, "value")
           m3 == Put(m2, rd, "result")
           m4 == write_sigupd(m3, g, rd)
           h == return_registers(g, {2} \ held)
<1>2. o.file = h /\ o.machine = m4 /\ o.slots = 1 /\ o.values = 1
  BY <1>1 DEF Outcome
<1> HIDE DEF m4, h
<1>3. Accounts(g, held \cup {2}) /\ Ready(m0, g, b, s, v)
  BY ImpliedRegisters, ReservedReady
<1> HIDE DEF m0
<1>4. rd \in held \cup {2} /\ 2 \in held \cup {2}
  OBVIOUS
<1> HIDE DEF held, rd
<1>5. /\ rd \in Reg /\ rd \notin {g.sig, g.data} /\ rd \notin {g.temp, g.temp + 1}
      /\ 2 \in Reg /\ 2 \notin {g.sig, g.data}
  BY <1>3, <1>4, HeldPlain
<1>6. "value" \in Contents /\ "result" \in Contents
  BY DEF Contents
<1>7. Ready(m1, g, b, s, v + 1) /\ Has(m1, 2, "value")
  BY <1>3, <1>5, LoadReady
<1> HIDE DEF m1
<1>8. Ready(m2, g, b, s, v + 1)
  BY <1>5, <1>6, <1>7, NeedsReady
<1> HIDE DEF m2
<1>9. Ready(m3, g, b, s, v + 1) /\ Has(m3, rd, "result")
  BY <1>5, <1>6, <1>8, PutReady
<1> HIDE DEF m3
<1>10. Ready(m4, g, b, s + 1, v + 1)
  BY <1>5, <1>9, SigupdReady DEF m4
<1>11. h.sig = g.sig /\ h.data = g.data /\ h.temp = g.temp
  BY <1>3, ReturnSame DEF h
<1>12. Ready(m4, h, b, s + 1, v + 1)
  BY <1>10, <1>11, ReadySame
<1> QED BY <1>2, <1>12 DEF GoodOutcome

\* A register that is changed in place and checked.
LEMMA CICaseGood ==
    ASSUME NEW f, NEW m, NEW b, NEW s \in Nat, NEW v \in Nat, NEW r, Ready(m, f, b, s, v),
           Accounts(f, {r})
    PROVE  GoodOutcome(CI_case(f, m, r), b, s, v)
<1> DEFINE m1 == load_int_reg(m, f, r)
           m2 == Needs(m1, r, "value")
           m3 == Put(m2, r, "result")
           m4 == write_sigupd(m3, f, r)
<1>1. CI_case(f, m, r) = Outcome(f, m4, {r}, 1, 1)
  BY DEF CI_case
<1> HIDE DEF m4
<1>2. r \in Reg /\ r \notin {f.sig, f.data} /\ r \notin {f.temp, f.temp + 1}
  <2>1. r \in {r}
    OBVIOUS
  <2> QED BY <2>1, HeldPlain
<1>3. "value" \in Contents /\ "result" \in Contents
  BY DEF Contents
<1>4. Ready(m1, f, b, s, v + 1) /\ Has(m1, r, "value")
  BY <1>2, LoadReady
<1> HIDE DEF m1
<1>5. Ready(m2, f, b, s, v + 1)
  BY <1>2, <1>3, <1>4, NeedsReady
<1> HIDE DEF m2
<1>6. Ready(m3, f, b, s, v + 1) /\ Has(m3, r, "result")
  BY <1>2, <1>3, <1>5, PutReady
<1> HIDE DEF m3
<1>7. Ready(m4, f, b, s + 1, v + 1)
  BY <1>2, <1>6, SigupdReady DEF m4
<1> QED BY <1>1, <1>7 DEF GoodOutcome, Outcome

LEMMA CIGood ==
    ASSUME NEW k, NEW f, NEW m, NEW p, NEW b, NEW s \in Nat, NEW v \in Nat,
           Ready(m, f, b, s, v), Accounts(f, {p["rs1"]}), NEW o \in CI_type(k, f, m, p)
    PROVE  GoodOutcome(o, b, s, v)
<1> DEFINE back == return_registers(f, {p["rs1"]})
<1>1. CASE k = "CI"
  <2>1. o = CI_case(f, m, p["rs1"])
    BY <1>1 DEF CI_type
  <2> QED BY <2>1, CICaseGood
<1>2. CASE k # "CI"
  <2>1. PICK g \in consume_registers(back, {2}) : o = CI_case(g, Relocate(m, f, g), 2)
    BY <1>2 DEF CI_type
  <2>2. Accounts(back, {}) /\ back.sig = f.sig /\ back.data = f.data /\ back.temp = f.temp
    BY UsedReturned, ReturnSame
  <2> HIDE DEF back
  <2>3. Ready(m, back, b, s, v)
    BY <2>2, ReadySame
  <2>4. Ready(Relocate(m, back, g), g, b, s, v)
    BY <2>1, <2>2, <2>3, ImpliedRegisters, RelocateReady
  <2>5. Relocate(m, back, g) = Relocate(m, f, g)
    BY <2>2 DEF Relocate
  <2>6. Accounts(g, {} \cup {2}) /\ {} \cup {2} = {2}
    BY <2>1, <2>2, ImpliedRegisters, ConsumeAccounts
  <2>7. Ready(Relocate(m, f, g), g, b, s, v) /\ Accounts(g, {2})
    BY <2>4, <2>5, <2>6
  <2> QED BY <2>1, <2>7, CICaseGood
<1> QED BY <1>1, <1>2

LEMMA CJALRGood ==
    ASSUME NEW f, NEW m, NEW p, NEW b, NEW s \in Nat, NEW v \in Nat, Ready(m, f, b, s, v),
           Accounts(f, {p["rs1"], p["temp_reg"]}), p["rs1"] # p["temp_reg"],
           NEW o \in CJALR_type(f, m, p)
    PROVE  GoodOutcome(o, b, s, v)
<1> DEFINE rs1 == p["rs1"]
           temp == p["temp_reg"]
           held == {rs1, temp}
<1>1. PICK g \in Reserving(f, 1, {temp, rs1}) :
          o = LET loaded == Put(load_int_reg(m, f, temp), rs1, "target")
                  jumped == Put(Needs(Relocate(loaded, f, g), rs1, "target"), 1, "result")
                  kept == IF temp = 1 THEN jumped
                          ELSE Put(Needs(jumped, temp, "value"), temp, "result")
              IN  Outcome(return_registers(g, {1} \ {temp, rs1}),
                          write_sigupd(write_sigupd(kept, g, temp), g, 1), {rs1, temp}, 2, 1)
  BY DEF CJALR_type
<1> DEFINE m1 == load_int_reg(m, f, temp)
           m2 == Put(m1, rs1, "target")
           m3 == Relocate(m2, f, g)
           m4 == Needs(m3, rs1, "target")
           m5 == Put(m4, 1, "result")
           m6 == Needs(m5, temp, "value")
           m7 == Put(m6, temp, "result")
           m8 == IF temp = 1 THEN m5 ELSE m7
           m9 == write_sigupd(m8, g, temp)
           m10 == write_sigupd(m9, g, 1)
           h == return_registers(g, {1} \ {temp, rs1})
<1>2. o.file = h /\ o.machine = m10 /\ o.slots = 2 /\ o.values = 1
  BY <1>1 DEF Outcome
<1> HIDE DEF m10, h
<1>3. Accounts(f, held) /\ {temp, rs1} = held /\ rs1 \in held /\ temp \in held /\ rs1 # temp
  OBVIOUS
<1> HIDE DEF held, temp, rs1
<1>4. /\ rs1 \in Reg /\ rs1 \notin {f.sig, f.data}
      /\ temp \in Reg /\ temp \notin {f.sig, f.data}
  BY <1>3, HeldPlain
<1>5. "value" \in Contents /\ "result" \in Contents /\ "target" \in Contents
      /\ "value" # "data" /\ "result" \in Contents \ {"sig"}
  BY DEF Contents
<1>6. Ready(m1, f, b, s, v + 1) /\ Has(m1, temp, "value")
  BY <1>4, LoadReady
<1> HIDE DEF m1
<1>7. Ready(m2, f, b, s, v + 1) /\ Has(m2, rs1, "target") /\ Has(m2, temp, "value")
  <2>1. /\ Ready(m2, f, b, s, v + 1) /\ Has(m2, rs1, "target")
        /\ \A q \in Reg, d \in Contents : q # rs1 /\ Has(m1, q, d) => Has(m2, q, d)
    BY <1>4, <1>5, <1>6, PutReady
  <2> QED BY <2>1, <1>3, <1>4, <1>5, <1>6
<1> HIDE DEF m2
<1>8. /\ Accounts(g, held \cup {1})
      /\ Ready(m3, g, b, s, v + 1) /\ Has(m3, rs1, "target") /\ Has(m3, temp, "value")
  <2>1. g \in Reserving(f, 1, held) /\ 1 \in Reg /\ held \in SUBSET held
    BY <1>3, ImpliedRegisters
  <2>2. /\ Accounts(g, held \cup {1}) /\ Ready(m3, g, b, s, v + 1)
        /\ \A q \in held : \A d : Has(m2, q, d) => Has(m3, q, d)
    BY <2>1, <1>3, <1>7, ReservedReady
  <2> QED BY <2>2, <1>3, <1>7
<1> HIDE DEF m3
<1>9. /\ temp \notin {g.sig, g.data} /\ temp \notin {g.temp, g.temp + 1}
      /\ 1 \in Reg /\ 1 \notin {g.sig, g.data} /\ 1 \notin {g.temp, g.temp + 1}
  <2>1. temp \in held \cup {1} /\ 1 \in held \cup {1}
    BY <1>3
  <2> QED BY <2>1, <1>8, HeldPlain
<1>10. Ready(m4, g, b, s, v + 1) /\ Has(m4, temp, "value")
  BY <1>4, <1>5, <1>8, NeedsReady
<1> HIDE DEF m4
<1>11. /\ Ready(m5, g, b, s, v + 1) /\ Has(m5, 1, "result")
       /\ temp # 1 => Has(m5, temp, "value")
  <2>1. /\ Ready(m5, g, b, s, v + 1) /\ Has(m5, 1, "result")
        /\ \A q \in Reg, d \in Contents : q # 1 /\ Has(m4, q, d) => Has(m5, q, d)
    BY <1>5, <1>9, <1>10, PutReady
  <2> QED BY <2>1, <1>4, <1>5, <1>10
<1> HIDE DEF m5
<1>12. ASSUME temp # 1
       PROVE  Ready(m7, g, b, s, v + 1) /\ Has(m7, 1, "result") /\ Has(m7, temp, "result")
  <2>1. Ready(m6, g, b, s, v + 1) /\ Has(m6, 1, "result")
    BY <1>4, <1>5, <1>11, <1>12, NeedsReady
  <2> HIDE DEF m6
  <2>2. /\ Ready(m7, g, b, s, v + 1) /\ Has(m7, temp, "result")
        /\ \A q \in Reg, d \in Contents : q # temp /\ Has(m6, q, d) => Has(m7, q, d)
    BY <2>1, <1>4, <1>5, <1>9, PutReady
  <2> QED BY <2>1, <2>2, <1>5, <1>9, <1>12
<1> HIDE DEF m7
<1>13. Ready(m8, g, b, s, v + 1) /\ Has(m8, 1, "result") /\ Has(m8, temp, "result")
  BY <1>11, <1>12
<1> HIDE DEF m8
<1>14. Ready(m9, g, b, s + 1, v + 1) /\ Has(m9, 1, "result")
  <2>1. /\ Ready(m9, g, b, s + 1, v + 1)
        /\ \A q \in Reg \ {g.temp, g.temp + 1}, d \in Contents \ {"sig"} :
               Has(m8, q, d) => Has(m9, q, d)
    BY <1>4, <1>9, <1>13, SigupdReady
  <2> QED BY <2>1, <1>5, <1>9, <1>13
<1> HIDE DEF m9
<1>15. Ready(m10, g, b, s + 1 + 1, v + 1)
  <2>1. s + 1 \in Nat
    OBVIOUS
  <2> QED BY <2>1, <1>9, <1>14, SigupdReady DEF m10
<1>16. h.sig = g.sig /\ h.data = g.data /\ h.temp = g.temp
  BY <1>8, ReturnSame DEF h
<1>17. Ready(m10, h, b, s + 1 + 1, v + 1)
  BY <1>15, <1>16, ReadySame
<1>18. s + 1 + 1 = s + 2
  OBVIOUS
<1> QED BY <1>2, <1>17, <1>18 DEF GoodOutcome

LEMMA FormatGood ==
    ASSUME NEW k \in AllKinds, NEW f, NEW m, NEW p, Accounts(f, Taken(k, p)),
           k = "S" => p["rs1"] \notin {p["rs2"], p["temp_reg"]},
           k = "CJALR" => p["rs1"] # p["temp_reg"],
           NEW b, NEW s \in Nat, NEW v \in Nat, Ready(m, f, b, s, v),
           NEW o \in format_instruction(k, f, m, p)
    PROVE  GoodOutcome(o, b, s, v)
<1>1. CASE k = "R"
  <2>1. Taken(k, p) = {p["rd"], p["rs1"], p["rs2"]}
    BY <1>1 DEF Taken, required_params
  <2>2. o \in R_type(f, m, p)
    BY <1>1, Zenon DEF format_instruction
  <2> QED BY <2>1, <2>2, RGood
<1>2. CASE k = "S"
  <2>1. Taken(k, p) = {p["rs1"], p["rs2"], p["temp_reg"]}
    BY <1>2 DEF Taken, required_params
  <2>2. o \in S_type(f, m, p)
    BY <1>2, Zenon DEF format_instruction
  <2> QED BY <1>2, <2>1, <2>2, SGood
<1>3. CASE k = "L"
  <2>1. Taken(k, p) = {p["rd"], p["rs1"], p["temp_reg"]}
    BY <1>3 DEF Taken, required_params
  <2>2. o \in L_type(f, m, p)
    BY <1>3, Zenon DEF format_instruction
  <2> QED BY <2>1, <2>2, LGood
<1>4. CASE k = "CSS"
  <2>1. Taken(k, p) = {p["rs2"], p["temp_reg"]}
    BY <1>4 DEF Taken, required_params
  <2>2. o \in CSS_type(f, m, p)
    BY <1>4, Zenon DEF format_instruction
  <2> QED BY <2>1, <2>2, CSSGood
<1>5. CASE k = "CILS"
  <2>1. Taken(k, p) = {p["rd"], p["temp_reg"]}
    BY <1>5 DEF Taken, required_params
  <2>2. o \in CILS_type(f, m, p)
    BY <1>5, Zenon DEF format_instruction
  <2> QED BY <2>1, <2>2, CILSGood
<1>6. CASE k = "CIW"
  <2>1. Taken(k, p) = {p["rd"]}
    BY <1>6 DEF Taken, required_params
  <2>2. o \in CIW_type(f, m, p)
    BY <1>6, Zenon DEF format_instruction
  <2> QED BY <2>1, <2>2, CIWGood
<1>7. CASE k \in {"CI", "ADDI16SP"}
  <2>1. Taken(k, p) = {p["rs1"]}
    BY <1>7 DEF Taken, required_params
  <2>2. o \in CI_type(k, f, m, p)
    BY <1>7, Zenon DEF format_instruction
  <2> QED BY <2>1, <2>2, CIGood
<1>8. CASE k = "CJALR"
  <2>1. Taken(k, p) = {p["rs1"], p["temp_reg"]}
    BY <1>8 DEF Taken, required_params
  <2>2. o \in CJALR_type(f, m, p)
    BY <1>8, Zenon DEF format_instruction
  <2> QED BY <1>8, <2>1, <2>2, CJALRGood
<1> QED BY <1>1, <1>2, <1>3, <1>4, <1>5, <1>6, <1>7, <1>8 DEF AllKinds

-----------------------------------------------------------------------------
(* The start of a file, and the end of a testcase.                           *)

LEMMA PutMachine ==
    ASSUME NEW m \in Machine, NEW r \in Reg \ {0}, NEW c \in Contents
    PROVE  /\ Put(m, r, c) \in Machine /\ Put(m, r, c).holds = [m.holds EXCEPT ![r] = c]
           /\ Put(m, r, c).intact = m.intact
           /\ Put(m, r, c).slots = m.slots /\ Put(m, r, c).values = m.values
<1>1. Put(m, r, c) = [m EXCEPT !.holds[r] = c] /\ m.holds \in [Reg -> Contents]
  BY DEF Put, Machine
<1> QED BY <1>1 DEF Machine

LEMMA FreshMachine ==
    /\ Fresh \in Machine /\ Fresh.intact /\ Fresh.slots = 0 /\ Fresh.values = 0
    /\ Fresh.holds[2] = "sig" /\ Fresh.holds[3] = "data"
BY ImpliedRegisters DEF Fresh, Machine, Contents, default_sig_reg, default_data_reg

\* The preamble sets the pointers; the default ones keep theirs if unused.
LEMMA ReinitEffect ==
    ASSUME NEW g, Sound(g), NEW m, m = reinit_pointer_registers(g)
    PROVE  /\ m \in Machine /\ m.intact /\ m.slots = 0 /\ m.values = 0
           /\ m.holds[g.sig] = "sig" /\ m.holds[g.data] = "data"
           /\ g.data # 2 => m.holds[2] = "sig"
           /\ g.sig # 3 => m.holds[3] = "data"
<1> DEFINE m1 == IF g.sig # 2 THEN Put(Fresh, g.sig, "sig") ELSE Fresh
           m2 == IF g.data # 3 THEN Put(m1, g.data, "data") ELSE m1
<1>1. m = m2
  BY DEF reinit_pointer_registers, default_sig_reg, default_data_reg
<1>2. g.sig \in Reg \ {0} /\ g.data \in Reg \ {0} /\ g.sig # g.data
      /\ "sig" \in Contents /\ "data" \in Contents /\ 2 \in Reg /\ 3 \in Reg
  BY ImpliedRegisters DEF Sound, Contents
<1>3. /\ m1 \in Machine /\ m1.intact /\ m1.slots = 0 /\ m1.values = 0
      /\ m1.holds = [Fresh.holds EXCEPT ![g.sig] = "sig"]
  <2>1. CASE g.sig # 2
    BY <2>1, <1>2, FreshMachine, PutMachine
  <2>2. CASE g.sig = 2
    <3>1. Fresh.holds = [Fresh.holds EXCEPT ![g.sig] = "sig"]
      BY <2>2, FreshMachine DEF Machine
    <3> QED BY <2>2, <3>1, FreshMachine
  <2> QED BY <2>1, <2>2
<1>4. Fresh.holds \in [Reg -> Contents] /\ m1.holds \in [Reg -> Contents]
  BY <1>3, FreshMachine DEF Machine
<1>5. m1.holds[g.sig] = "sig" /\ m1.holds[2] = "sig" /\ (g.sig # 3 => m1.holds[3] = "data")
  BY <1>2, <1>3, <1>4, FreshMachine
<1> HIDE DEF m1
<1>6. CASE g.data # 3
  <2>1. /\ m2 \in Machine /\ m2.intact /\ m2.slots = 0 /\ m2.values = 0
        /\ m2.holds = [m1.holds EXCEPT ![g.data] = "data"]
    BY <1>6, <1>2, <1>3, PutMachine
  <2> QED BY <1>1, <1>2, <1>4, <1>5, <1>6, <2>1
<1>7. CASE g.data = 3
  BY <1>1, <1>2, <1>3, <1>5, <1>7
<1> QED BY <1>6, <1>7

LEMMA ForgetReady ==
    ASSUME NEW m, NEW f, NEW b, NEW s, NEW v, Ready(m, f, b, s, v)
    PROVE  Ready(Forget(m), f, b, s, v)
<1> DEFINE h == [r \in Reg |-> IF m.holds[r] \in {"sig", "data"} THEN m.holds[r] ELSE "junk"]
<1>1. m \in Machine /\ m.holds \in [Reg -> Contents] /\ f.sig \in Reg /\ f.data \in Reg
  BY DEF Ready, Machine, Sound
<1>2. h \in [Reg -> Contents]
  BY <1>1 DEF Contents
<1>3. Forget(m) = [m EXCEPT !.holds = h]
  BY <1>1 DEF Forget, Machine
<1> HIDE DEF h
<1>4. /\ Forget(m) \in Machine /\ Forget(m).holds = h /\ Forget(m).intact = m.intact
      /\ Forget(m).slots = m.slots /\ Forget(m).values = m.values
  BY <1>1, <1>2, <1>3 DEF Machine
<1> QED BY <1>1, <1>4 DEF Ready, h

-----------------------------------------------------------------------------
(* The inductive invariant of the machine.                                   *)

\* Since the last testcase the coverpoint made at most one request.
FromBefore ==
    /\ Accounts(before, {})
    /\ file = before \/ \E r \in Reg : file \in consume_registers(before, {r})
    /\ stage \in {"idle", "destroyed"} => file = before

MachineReady ==
    /\ misresumed \in BOOLEAN /\ reserved \in [slots : Nat, values : Nat]
    /\ Ready(machine, before, ~ misresumed, reserved.slots, reserved.values)

TestGenInv == RegistersInv /\ FromBefore /\ MachineReady /\ FilesComplete

LEMMA FileSound ==
    ASSUME FromBefore
    PROVE  /\ \E held \in SUBSET Reg : Accounts(file, held)
           /\ file.sig # before.data /\ file.data # before.sig
<1>1. CASE file = before
  BY <1>1 DEF FromBefore, Accounts
<1>2. CASE \E r \in Reg : file \in consume_registers(before, {r})
  <2>1. PICK r \in Reg : file \in consume_registers(before, {r})
    BY <1>2
  <2>2. Accounts(file, {} \cup {r}) /\ file.sig # before.data /\ file.data # before.sig
    BY <2>1, ConsumeAccounts, ConsumeUncrossed DEF FromBefore
  <2>3. {} \cup {r} \in SUBSET Reg
    BY <2>1
  <2> QED BY <2>2, <2>3
<1> QED BY <1>1, <1>2 DEF FromBefore

\* The coverpoint's moves, in the present file.
LEMMA ContinuedReady ==
    ASSUME FromBefore, NEW m, NEW b, NEW s, NEW v, Ready(m, before, b, s, v)
    PROVE  Ready(Relocate(m, before, file), file, b, s, v)
<1>1. CASE file = before
  <2>1. Relocate(m, before, file) = m
    BY <1>1 DEF Relocate
  <2> QED BY <1>1, <2>1
<1>2. CASE \E r \in Reg : file \in consume_registers(before, {r})
  <2>1. PICK r \in Reg : file \in consume_registers(before, {r})
    BY <1>2
  <2> QED BY <2>1, RelocateReady DEF FromBefore
<1> QED BY <1>1, <1>2 DEF FromBefore

\* The coverpoint's moves, at the start of a file.
LEMMA StartedReady ==
    ASSUME FromBefore
    PROVE  Ready(Relocate(reinit_pointer_registers(file), before, file), file, ~ Misresumes, 0, 0)
<1> DEFINE m == reinit_pointer_registers(file)
           n == Relocate(m, before, file)
<1>1. PICK held \in SUBSET Reg : Accounts(file, held)
  BY FileSound
<1>2. Sound(file) /\ Sound(before)
  BY <1>1, AccountsSound DEF FromBefore
<1>3. file.temp # 0 /\ file.temp + 1 # 0
  BY <1>1, RegistersAssumption DEF Accounts, Reg
<1>4. /\ m \in Machine /\ m.intact /\ m.slots = 0 /\ m.values = 0
      /\ m.holds[file.sig] = "sig" /\ m.holds[file.data] = "data"
      /\ file.data # 2 => m.holds[2] = "sig"
      /\ file.sig # 3 => m.holds[3] = "data"
  BY <1>2, ReinitEffect
<1> HIDE DEF m
<1>5. file.sig # before.data /\ file.data # before.sig
  BY FileSound
<1>6. /\ n \in Machine /\ n.intact = m.intact /\ n.slots = m.slots /\ n.values = m.values
      /\ n.holds[file.sig] = m.holds[before.sig] /\ n.holds[file.data] = m.holds[before.data]
  <2>1. {before.sig, before.data, before.temp, before.temp + 1} \subseteq Reg
    BY <1>2 DEF Sound
  <2>2. m \in Machine
    BY <1>4
  <2> QED BY <2>1, <2>2, <1>2, <1>3, <1>5, RelocateEffect
<1> HIDE DEF n
<1>7. ASSUME ~ Misresumes PROVE n.holds[file.sig] = "sig" /\ n.holds[file.data] = "data"
  <2>1. file.sig = before.sig \/ before.sig = 2
    BY <1>7 DEF Misresumes, default_sig_reg
  <2>2. file.data = before.data \/ before.data = 3
    BY <1>7 DEF Misresumes, default_data_reg
  <2> QED BY <2>1, <2>2, <1>4, <1>5, <1>6
<1> QED BY <1>2, <1>4, <1>6, <1>7 DEF Ready, m, n

\* The teardown of a file that is not misresumed finds its pointer.
LEMMA WrittenComplete ==
    ASSUME FilesComplete, MachineReady, write_test_file
    PROVE  FilesComplete'
<1>1. CASE cases = 0
  BY <1>1 DEF write_test_file, FilesComplete
<1>2. CASE cases # 0 /\ misresumed
  BY <1>2 DEF write_test_file, FilesComplete, MachineReady, Ready
<1>3. CASE cases # 0 /\ ~ misresumed
  <2> DEFINE m == sig_reg_reset
  <2>1. /\ machine \in Machine /\ machine.intact /\ machine.holds[before.sig] = "sig"
        /\ machine.slots = reserved.slots /\ machine.values = reserved.values
        /\ before.sig \in Reg \ {0}
    BY <1>3 DEF MachineReady, Ready, Sound
  <2>2. m.intact /\ m.holds[2] = "sig"
    <3>1. CASE before.sig = 2
      BY <3>1, <2>1 DEF sig_reg_reset, default_sig_reg
    <3>2. CASE before.sig # 2
      <4>1. m = Put(machine, 2, "sig")
        BY <3>2, <2>1 DEF sig_reg_reset, default_sig_reg, Mv
      <4>2. 2 \in Reg \ {0} /\ "sig" \in Contents
        BY ImpliedRegisters DEF Contents
      <4>3. Put(machine, 2, "sig").holds = [machine.holds EXCEPT ![2] = "sig"]
            /\ Put(machine, 2, "sig").intact = machine.intact
        <5>1. machine \in Machine
          BY <2>1
        <5> QED BY <5>1, <4>2, PutMachine
      <4>4. machine.holds \in [Reg -> Contents]
        BY <2>1 DEF Machine
      <4> QED BY <2>1, <4>1, <4>2, <4>3, <4>4
    <3> QED BY <3>1, <3>2
  <2> HIDE DEF m
  <2>3. Needs(m, 2, "sig").intact
    BY <2>2 DEF Needs
  <2>4. written' = [misresumed |-> misresumed, intact |-> Needs(m, 2, "sig").intact,
                    slots |-> machine.slots, values |-> machine.values, reserved |-> reserved]
    BY <1>3 DEF write_test_file, m, default_sig_reg
  <2>5. written'.intact /\ written'.slots = reserved.slots /\ written'.values = reserved.values
        /\ written'.reserved = reserved
    BY <2>1, <2>3, <2>4
  <2> QED BY <2>5 DEF FilesComplete
<1> QED BY <1>1, <1>2, <1>3

LEMMA TestGenInvInit == Init => TestGenInv
<1> SUFFICES ASSUME Init PROVE TestGenInv
  OBVIOUS
<1>1. FromBefore
  BY InitAccounts DEF Init, FromBefore
<1>2. Ready(Fresh, InitRegisters, TRUE, 0, 0)
  <2>1. Sound(InitRegisters)
    BY InitAccounts, AccountsSound
  <2>2. InitRegisters.sig = 2 /\ InitRegisters.data = 3
    BY DEF InitRegisters, default_sig_reg, default_data_reg
  <2> QED BY <2>1, <2>2, FreshMachine DEF Ready
<1>3. MachineReady
  BY <1>2 DEF MachineReady, Init
<1>4. FilesComplete
  BY DEF Init, FilesComplete
<1> QED BY <1>1, <1>3, <1>4, RegistersInvInit DEF TestGenInv

LEMMA TestGenInvNext == TestGenInv /\ [Next]_vars => TestGenInv'
<1> SUFFICES ASSUME TestGenInv, [Next]_vars PROVE TestGenInv'
  OBVIOUS
<1>1. RegistersInv'
  BY RegistersInvNext DEF TestGenInv
<1> SUFFICES FromBefore' /\ MachineReady' /\ FilesComplete'
  BY <1>1 DEF TestGenInv
<1>2. ASSUME NEW operands \in Fixed, NEW reg \in Reg, Consume(operands, reg)
      PROVE  FromBefore' /\ MachineReady' /\ FilesComplete'
  <2>1. MachineReady' /\ FilesComplete'
    BY <1>2 DEF Consume, TestGenInv, MachineReady, FilesComplete
  <2>2. before' = before /\ Accounts(before', {}) /\ file = before
    BY <1>2 DEF Consume, TestGenInv, FromBefore
  <2>3. /\ stage' \notin {"idle", "destroyed"}
        /\ file' = file \/ file' \in consume_registers(file, {reg})
    BY <1>2 DEF Consume
  <2>4. FromBefore'
    BY <2>2, <2>3 DEF FromBefore
  <2> QED BY <2>1, <2>4
<1>3. CASE ConsumeNothing
  BY <1>3 DEF ConsumeNothing, TestGenInv, FromBefore, MachineReady, FilesComplete
<1>4. CASE Generate
  <2> DEFINE start == IF StartsFile THEN reinit_pointer_registers(file) ELSE machine
             m == Relocate(start, before, file)
  <2>1. \/ /\ stage' = "raised"
           /\ UNCHANGED <<file, before, machine, reserved, cases, misresumed, written>>
        \/ /\ stage' = "idle"
           /\ \E p \in random_params(file, kind) :
                 \E o \in format_instruction(kind, Take(file, Taken(kind, p)), m, p) : Testcase(o)
    BY <1>4 DEF Generate, Taken
  <2>2. CASE /\ stage' = "raised"
             /\ UNCHANGED <<file, before, machine, reserved, cases, misresumed, written>>
    BY <2>2 DEF TestGenInv, FromBefore, MachineReady, FilesComplete
  <2>3. CASE /\ stage' = "idle"
             /\ \E p \in random_params(file, kind) :
                   \E o \in format_instruction(kind, Take(file, Taken(kind, p)), m, p) : Testcase(o)
    <3>0. PICK p \in random_params(file, kind) :
              \E o \in format_instruction(kind, Take(file, Taken(kind, p)), m, p) : Testcase(o)
      BY <2>3
    <3>1. PICK o \in format_instruction(kind, Take(file, Taken(kind, p)), m, p) : Testcase(o)
      BY <3>0
    <3> DEFINE b == IF StartsFile THEN ~ Misresumes ELSE ~ misresumed
               s == IF StartsFile THEN 0 ELSE reserved.slots
               v == IF StartsFile THEN 0 ELSE reserved.values
               f == Take(file, Taken(kind, p))
    <3>2. s \in Nat /\ v \in Nat
      BY DEF TestGenInv, MachineReady
    <3>3. Ready(m, file, b, s, v)
      <4>1. CASE StartsFile
        BY <4>1, StartedReady DEF TestGenInv
      <4>2. CASE ~ StartsFile
        BY <4>2, ContinuedReady DEF TestGenInv, MachineReady
      <4> QED BY <4>1, <4>2
    <3> HIDE DEF m, start
    <3>4. stage = "consumed" /\ kind \in AllKinds /\ RegistersInv
      BY <1>4 DEF Generate, TestGenInv, RegistersInv, FixedInv
    <3>5. /\ Accounts(f, Taken(kind, p))
          /\ kind = "S" => p["rs1"] \notin {p["rs2"], p["temp_reg"]}
          /\ kind = "CJALR" => p["rs1"] # p["temp_reg"]
      BY <3>4, ParamsAccount
    <3>6. f.sig = file.sig /\ f.data = file.data /\ f.temp = file.temp
      <4>1. PICK held \in SUBSET Reg : Accounts(file, held)
        BY FileSound DEF TestGenInv
      <4> QED BY <4>1, ReturnSame
    <3> HIDE DEF f
    <3>7. o \in format_instruction(kind, f, m, p)
      BY DEF f
    <3>8. Ready(m, f, b, s, v)
      BY <3>3, <3>6, ReadySame
    <3> DEFINE bb == b
               ss == s
               vv == v
    <3> HIDE DEF bb, ss, vv
    <3>9. ss \in Nat /\ vv \in Nat /\ Ready(m, f, bb, ss, vv)
      BY <3>2, <3>8 DEF bb, ss, vv
    <3>10. GoodOutcome(o, bb, ss, vv) /\ Returned(o)
      BY <3>4, <3>5, <3>7, <3>9, FormatGood, FormatReturns
    <3> DEFINE g == return_registers(o.file, o.used)
    <3>11. Accounts(g, {}) /\ file' = g /\ before' = g
      BY <3>1, <3>10 DEF Testcase, Returned
    <3>12. FromBefore'
      BY <3>11, <2>3 DEF FromBefore
    <3>13. Ready(machine', g, bb, ss + o.slots, vv + o.values)
      <4>1. Ready(o.machine, o.file, bb, ss + o.slots, vv + o.values)
        BY <3>10 DEF GoodOutcome
      <4>2. g.sig = o.file.sig /\ g.data = o.file.data /\ g.temp = o.file.temp
        BY <3>10, ReturnSame DEF Returned
      <4> QED BY <4>1, <4>2, ReadySame, ForgetReady, <3>1 DEF Testcase
    <3>14. /\ misresumed' \in BOOLEAN /\ (~ misresumed' => bb)
           /\ reserved' = [slots |-> ss + o.slots, values |-> vv + o.values]
      <4>1. CASE StartsFile
        <5>1. misresumed' = Misresumes
          BY <4>1, <3>1 DEF Testcase
        <5>2. bb = ~ Misresumes /\ ss = 0 /\ vv = 0
          BY <4>1 DEF bb, ss, vv
        <5>3. o.slots \in Nat /\ o.values \in Nat
          BY <3>10 DEF GoodOutcome
        <5>4. reserved' = [slots |-> ss + o.slots, values |-> vv + o.values]
          BY <4>1, <3>1, <5>2, <5>3 DEF Testcase
        <5>5. Misresumes \in BOOLEAN
          BY DEF Misresumes
        <5> QED BY <5>1, <5>2, <5>4, <5>5, Zenon
      <4>2. CASE ~ StartsFile
        <5>1. misresumed' = misresumed /\ misresumed \in BOOLEAN
          BY <4>2, <3>1 DEF Testcase, TestGenInv, MachineReady
        <5>2. bb = ~ misresumed
          BY <4>2 DEF bb
        <5>3. reserved' = [slots |-> ss + o.slots, values |-> vv + o.values]
          BY <4>2, <3>1 DEF Testcase, ss, vv
        <5> QED BY <5>1, <5>2, <5>3, Zenon
      <4> QED BY <4>1, <4>2
    <3>15. MachineReady'
      <4>1. ss + o.slots \in Nat /\ vv + o.values \in Nat
        BY <3>9, <3>10 DEF GoodOutcome
      <4>2. Ready(machine', g, ~ misresumed', ss + o.slots, vv + o.values)
        BY <3>13, <3>14 DEF Ready
      <4> QED BY <4>1, <4>2, <3>11, <3>14 DEF MachineReady
    <3>16. FilesComplete'
      <4>1. CASE StartsFile
        BY <4>1, <3>1, WrittenComplete DEF Testcase, TestGenInv
      <4>2. CASE ~ StartsFile
        BY <4>2, <3>1 DEF Testcase, TestGenInv, FilesComplete
      <4> QED BY <4>1, <4>2
    <3> QED BY <3>12, <3>15, <3>16
  <2> QED BY <2>1, <2>2, <2>3
<1>5. CASE Destroy
  <2>1. FromBefore' /\ MachineReady'
    BY <1>5 DEF Destroy, TestGenInv, FromBefore, MachineReady
  <2>2. FilesComplete'
    BY <1>5, WrittenComplete DEF Destroy, TestGenInv
  <2> QED BY <2>1, <2>2
<1>6. CASE UNCHANGED vars
  BY <1>6 DEF vars, TestGenInv, FromBefore, MachineReady, FilesComplete
<1> QED BY <1>2, <1>3, <1>4, <1>5, <1>6 DEF Next

\* Every tested instruction finds in its operands what the setup loaded, and
\* every check finds the result and the pointers, except in a misresumed file
\* and but for the value of a compressed store of sp itself.
THEOREM OperandsAreIntact == Spec => []OperandsIntact
<1>1. TestGenInv => OperandsIntact
  BY DEF TestGenInv, MachineReady, Ready, OperandsIntact
<1> QED BY <1>1, TestGenInvInit, TestGenInvNext, PTL DEF Spec

\* Between testcases the pointers are where the allocator has them, except in a
\* misresumed file.
THEOREM PointersAreHeld == Spec => []PointersHold
<1>1. TestGenInv => PointersHold
  BY DEF TestGenInv, FromBefore, MachineReady, Ready, PointersHold
<1> QED BY <1>1, TestGenInvInit, TestGenInvNext, PTL DEF Spec

\* The sections of every file have the size that its code uses, and its teardown
\* finds the signature pointer in x2, unless the file is misresumed.
THEOREM FilesAreComplete == Spec => []FilesComplete
<1>1. TestGenInv => FilesComplete
  BY DEF TestGenInv
<1> QED BY <1>1, TestGenInvInit, TestGenInvNext, PTL DEF Spec

\* What TypeOK says of the variables that the other parts leave open.
ControlType ==
    /\ stage \in {"idle", "consumed", "destroyed", "raised"}
    /\ fixed \in [operands : SUBSET Operands, reg : Reg]
    /\ cases \in 0 .. FileSize

LEMMA ControlTypeNext == ControlType /\ [Next]_vars => ControlType'
<1> SUFFICES ASSUME ControlType, [Next]_vars PROVE ControlType'
  OBVIOUS
<1>1. ASSUME NEW operands \in Fixed, NEW reg \in Reg, Consume(operands, reg)
      PROVE  ControlType'
  <2>1. operands \subseteq Operands
    BY TestGenAssumption DEF Operands
  <2> QED BY <1>1, <2>1 DEF Consume, ControlType
<1>2. CASE ConsumeNothing
  BY <1>2, ImpliedRegisters DEF ConsumeNothing, ControlType
<1>3. CASE Generate
  <2>1. stage' \in {"idle", "raised"} /\ fixed' = fixed
    BY <1>3 DEF Generate
  <2>2. cases' = cases \/ cases' = IF StartsFile THEN 1 ELSE cases + 1
    BY <1>3 DEF Generate, Testcase
  <2>3. cases' \in 0 .. FileSize
    BY <2>2, TestGenAssumption DEF ControlType, StartsFile
  <2> QED BY <2>1, <2>3 DEF ControlType
<1>4. CASE Destroy
  BY <1>4 DEF Destroy, ControlType
<1>5. CASE UNCHANGED vars
  BY <1>5 DEF vars, ControlType
<1> QED BY <1>1, <1>2, <1>3, <1>4, <1>5 DEF Next

\* Every variable keeps its type; in particular the link register is always a
\* register, and a file never has more testcases than it may.
THEOREM TestGenTypeOK == Spec => []TypeOK
<1>1. Init => ControlType
  BY ImpliedRegisters, TestGenAssumption DEF Init, ControlType
<1>2. TestGenInv /\ ControlType => TypeOK
  <2> SUFFICES ASSUME TestGenInv, ControlType PROVE TypeOK
    OBVIOUS
  <2>1. file \in RegisterFile /\ file.temp + 1 \in Reg
    BY FileSound, AccountsSound DEF TestGenInv, Accounts, Sound
  <2>2. before \in RegisterFile /\ machine \in Machine
    BY DEF TestGenInv, FromBefore, Accounts, MachineReady, Ready
  <2> QED BY <2>1, <2>2 DEF TypeOK, ControlType, TestGenInv, MachineReady, RegistersInv, FixedInv
<1> QED BY <1>1, <1>2, TestGenInvInit, TestGenInvNext, ControlTypeNext, PTL DEF Spec

=============================================================================
