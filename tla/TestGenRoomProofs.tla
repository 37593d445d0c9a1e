--------------------------- MODULE TestGenRoomProofs --------------------------
(***************************************************************************)
(* Proof that the test generator never runs out of registers: counting,    *)
(* for every register file that is large enough for one testcase.          *)
(***************************************************************************)
EXTENDS TestGenProofs

-----------------------------------------------------------------------------
(* Counting *)

AtLeast(S, n) == IsFiniteSet(S) /\ Cardinality(S) >= n

LEMMA AtLeastOne ==
    ASSUME NEW S, AtLeast(S, 1)
    PROVE  \E x : x \in S
BY FS_EmptySet DEF AtLeast

LEMMA AtLeastWithout ==
    ASSUME NEW S, NEW n \in Nat, AtLeast(S, n + 1), NEW x
    PROVE  AtLeast(S \ {x}, n)
<1>1. Cardinality(S) \in Nat
  BY FS_CardinalityType DEF AtLeast
<1> QED BY <1>1, FS_RemoveElement DEF AtLeast

LEMMA AtLeastWithoutTwo ==
    ASSUME NEW S, NEW n \in Nat, AtLeast(S, n + 2), NEW x, NEW y
    PROVE  AtLeast(S \ {x, y}, n)
<1>1. n + 1 \in Nat /\ n + 2 = (n + 1) + 1
  OBVIOUS
<1>2. AtLeast(S \ {x}, n + 1)
  BY <1>1, AtLeastWithout
<1>3. AtLeast((S \ {x}) \ {y}, n)
  BY <1>2, AtLeastWithout
<1>4. (S \ {x}) \ {y} = S \ {x, y}
  OBVIOUS
<1> QED BY <1>3, <1>4

LEMMA AtLeastWithoutFour ==
    ASSUME NEW S, NEW n \in Nat, AtLeast(S, n + 4), NEW x, NEW y, NEW z, NEW w
    PROVE  AtLeast(S \ {x, y, z, w}, n)
<1>1. n + 2 \in Nat /\ n + 4 = (n + 2) + 2
  OBVIOUS
<1>2. AtLeast(S \ {x, y}, n + 2)
  BY <1>1, AtLeastWithoutTwo
<1>3. AtLeast((S \ {x, y}) \ {z, w}, n)
  BY <1>2, AtLeastWithoutTwo
<1>4. (S \ {x, y}) \ {z, w} = S \ {x, y, z, w}
  OBVIOUS
<1> QED BY <1>3, <1>4

LEMMA AtLeastSuperset ==
    ASSUME NEW S, NEW T, NEW n \in Nat, AtLeast(S, n), S \subseteq T, IsFiniteSet(T)
    PROVE  AtLeast(T, n)
<1>1. Cardinality(S) <= Cardinality(T)
  BY FS_Subset
<1>2. Cardinality(S) \in Nat /\ Cardinality(T) \in Nat
  BY FS_CardinalityType DEF AtLeast
<1> QED BY <1>1, <1>2 DEF AtLeast

LEMMA AtMostThree ==
    ASSUME NEW a, NEW b, NEW c
    PROVE  /\ IsFiniteSet({a, b, c}) /\ Cardinality({a, b, c}) \in 0 .. 3
           /\ IsFiniteSet({a, b}) /\ Cardinality({a, b}) \in 0 .. 2
           /\ IsFiniteSet({a}) /\ Cardinality({a}) \in 0 .. 1
<1>1. IsFiniteSet({a}) /\ Cardinality({a}) = 1
  BY FS_Singleton
<1>2. IsFiniteSet({a, b}) /\ Cardinality({a, b}) \in 0 .. 2
  <2>1. {a} \cup {b} = {a, b}
    OBVIOUS
  <2> QED BY <1>1, <2>1, FS_AddElement
<1>3. IsFiniteSet({a, b, c}) /\ Cardinality({a, b, c}) \in 0 .. 3
  <2>1. {a, b} \cup {c} = {a, b, c}
    OBVIOUS
  <2> QED BY <1>2, <2>1, FS_AddElement
<1> QED BY <1>1, <1>2, <1>3

LEMMA RegFinite ==
    /\ IsFiniteSet(Reg)
    /\ \A S \in SUBSET Reg : IsFiniteSet(S) /\ Cardinality(S) \in Nat
<1>1. IsFiniteSet(Reg)
  BY RegistersAssumption, FS_Interval DEF Reg
<1> QED BY <1>1, FS_Subset, FS_CardinalityType

-----------------------------------------------------------------------------
(* The allocator *)

\* A register that no special register and none of two others occupies.
LEMMA PoolRegister ==
    ASSUME NEW a, NEW b, NEW c, NEW d
    PROVE  \E q \in Reg \ ({0} \cup link_temp_regs) : q \notin {a, b, c, d}
<1> DEFINE pool == Reg \ ({0} \cup link_temp_regs)
<1>1. AtLeast(pool, 1 + 4)
  BY RoomAssumption, RegFinite DEF AtLeast
<1> HIDE DEF pool
<1>2. AtLeast(pool \ {a, b, c, d}, 1)
  BY <1>1, AtLeastWithoutFour
<1>3. \E q : q \in pool \ {a, b, c, d}
  BY <1>2, AtLeastOne
<1> QED BY <1>3 DEF pool

\* Of the pairs that are not in use, the signature pointer blocks at most one.
LEMMA PairLeft ==
    ASSUME NEW t \in TempRegs, NEW sig
    PROVE  \E u \in TempRegs : /\ {u, u + 1} \cap {t, t + 1} = {}
                               /\ sig \notin {u, u + 1}
<1>1. TempRegs \subseteq Reg /\ \A r \in TempRegs : r \in Nat /\ r + 1 \notin TempRegs
  BY RegistersAssumption DEF Reg
<1>2. AtLeast(TempRegs, 2 + 1)
  BY <1>1, RoomAssumption, RegFinite DEF AtLeast
<1>3. AtLeast(TempRegs \ {t}, 2)
  BY <1>2, AtLeastWithout
<1>4. AtLeast(TempRegs \ {t}, 1)
  <2>1. Cardinality(TempRegs \ {t}) \in Nat
    BY <1>3, FS_CardinalityType DEF AtLeast
  <2> QED BY <1>3, <2>1 DEF AtLeast
<1>5. PICK x : x \in TempRegs \ {t}
  BY <1>4, AtLeastOne
<1>6. AtLeast((TempRegs \ {t}) \ {x}, 1)
  <2>1. AtLeast(TempRegs \ {t}, 1 + 1)
    BY <1>3
  <2> QED BY <2>1, AtLeastWithout
<1>7. PICK y : y \in (TempRegs \ {t}) \ {x}
  BY <1>6, AtLeastOne
<1>8. /\ x \in TempRegs /\ y \in TempRegs /\ x # t /\ y # t /\ x # y
      /\ x \in Nat /\ y \in Nat /\ t \in Nat
  BY <1>1, <1>5, <1>7
<1>9. {x, x + 1} \cap {t, t + 1} = {} /\ {y, y + 1} \cap {t, t + 1} = {}
      /\ {x, x + 1} \cap {y, y + 1} = {}
  BY <1>1, <1>8
<1> QED BY <1>8, <1>9

\* A request succeeds while at most two registers are held; a temporary register
\* is requested only while none is.
LEMMA ConsumeSucceeds ==
    ASSUME NEW f, NEW held, Accounts(f, held), NEW a, NEW b, held \subseteq {a, b},
           NEW r \in Reg \ held,
           r \in {f.temp, f.temp + 1} => held = {} /\ f.data \notin link_temp_regs
    PROVE  consume_registers(f, {r}) # {}
<1> DEFINE freed == Freed(f, {r})
           rest == freed \ {r}
<1>1. /\ f.sig # f.data /\ f.sig \notin {f.temp, f.temp + 1}
      /\ f.data \notin {f.temp, f.temp + 1}
      /\ f.temp \in TempRegs
      /\ Reg = f.reg_list \cup held \cup {f.sig, f.data, f.temp, f.temp + 1}
  BY DEF Accounts, Specials
<1>2. f.reg_list \subseteq freed /\ r \in freed
  BY <1>1 DEF Freed
<1> SUFFICES ASSUME NEW s \in PointerChoices(f.sig, rest, {r}),
                    NEW d \in PointerChoices(f.data, rest, {r}),
                    NEW t \in TempChoices(f, rest, {r}), s # d
             PROVE  consume_registers(f, {r}) # {}
  <2>1. \E s \in PointerChoices(f.sig, rest, {r}), d \in PointerChoices(f.data, rest, {r}),
           t \in TempChoices(f, rest, {r}) : s # d
    <3>1. CASE r \notin {f.sig, f.data, f.temp, f.temp + 1}
      BY <3>1, <1>1 DEF PointerChoices, TempChoices
    <3>2. CASE r \in {f.sig, f.data}
      <4>1. PICK q \in Reg \ ({0} \cup link_temp_regs) : q \notin {a, b, f.sig, f.data}
        BY PoolRegister
      <4>2. q \notin held /\ q \notin {f.temp, f.temp + 1}
        BY <1>1, <4>1 DEF link_temp_regs
      <4>3. q \in rest /\ q \notin {0} \cup link_temp_regs
        BY <1>1, <1>2, <3>2, <4>1, <4>2
      <4>4. f.temp \in TempChoices(f, rest, {r})
        BY <1>1, <3>2 DEF TempChoices
      <4> HIDE DEF rest
      <4>5. CASE r = f.sig
        BY <4>1, <4>3, <4>4, <4>5, <1>1 DEF PointerChoices
      <4>6. CASE r = f.data
        BY <4>1, <4>3, <4>4, <4>6, <1>1 DEF PointerChoices
      <4> QED BY <3>2, <4>5, <4>6
    <3>3. CASE r \in {f.temp, f.temp + 1}
      <4>1. held = {} /\ f.data \notin link_temp_regs
        BY <3>3
      <4>2. PICK u \in TempRegs : /\ {u, u + 1} \cap {f.temp, f.temp + 1} = {}
                                  /\ f.sig \notin {u, u + 1}
        BY <1>1, PairLeft
      <4>3. u \in Reg /\ u + 1 \in Reg /\ f.data \notin {u, u + 1}
        BY <4>1, RegistersAssumption DEF link_temp_regs
      <4>4. u \in rest /\ u + 1 \in rest
        BY <1>1, <1>2, <3>3, <4>1, <4>2, <4>3
      <4>5. u \in TempChoices(f, rest, {r})
        BY <3>3, <4>4 DEF TempChoices
      <4>6. f.sig \in PointerChoices(f.sig, rest, {r}) /\ f.data \in PointerChoices(f.data, rest, {r})
        BY <1>1, <3>3 DEF PointerChoices
      <4> QED BY <1>1, <4>5, <4>6
    <3> QED BY <3>1, <3>2, <3>3
  <2> QED BY <2>1
<1>3. {r} \subseteq freed
  BY <1>2
<1>4. [reg_list |-> rest \ {s, d, t, t + 1}, sig |-> s, data |-> d, temp |-> t]
        \in consume_registers(f, {r})
  <2> DEFINE choices == {c \in PointerChoices(f.sig, rest, {r})
                                 \X PointerChoices(f.data, rest, {r})
                                 \X TempChoices(f, rest, {r}) : c[1] # c[2]}
  <2>1. <<s, d, t>> \in choices
    OBVIOUS
  <2>2. consume_registers(f, {r}) =
            {[reg_list |-> rest \ {c[1], c[2], c[3], c[3] + 1},
              sig |-> c[1], data |-> c[2], temp |-> c[3]] : c \in choices}
    BY <1>3 DEF consume_registers
  <2> HIDE DEF choices, rest
  <2> DEFINE c == <<s, d, t>>
  <2>3. c[1] = s /\ c[2] = d /\ c[3] = t
    OBVIOUS
  <2> HIDE DEF c
  <2>4. [reg_list |-> rest \ {c[1], c[2], c[3], c[3] + 1},
         sig |-> c[1], data |-> c[2], temp |-> c[3]] \in consume_registers(f, {r})
    BY <2>1, <2>2 DEF c
  <2> QED BY <2>3, <2>4
<1> QED BY <1>4

\* The data pointer stays out of the registers that serve as pairs.
LEMMA ConsumePlaces ==
    ASSUME NEW f, NEW regs, f.data \notin link_temp_regs, NEW g \in consume_registers(f, regs)
    PROVE  g.data \notin link_temp_regs
<1> DEFINE rest == Freed(f, regs) \ regs
<1>1. PICK c \in PointerChoices(f.sig, rest, regs) \X PointerChoices(f.data, rest, regs)
                     \X TempChoices(f, rest, regs) :
          g = [reg_list |-> rest \ {c[1], c[2], c[3], c[3] + 1},
               sig |-> c[1], data |-> c[2], temp |-> c[3]]
  BY DEF consume_registers
<1>2. g.data = c[2] /\ c[2] \in PointerChoices(f.data, rest, regs)
  BY <1>1
<1> QED BY <1>2 DEF PointerChoices

-----------------------------------------------------------------------------
(* The formatters *)

LEMMA ReservingSucceeds ==
    ASSUME NEW f, NEW held, Accounts(f, held), NEW a, NEW b, held = {a, b},
           NEW r \in {1, 2}, NEW regs, r \notin regs => r \notin held
    PROVE  Reserving(f, r, regs) # {}
<1>1. CASE r \in regs
  BY <1>1 DEF Reserving
<1>2. CASE r \notin regs
  <2>1. r \in Reg \ held
    BY <1>2, ImpliedRegisters
  <2>2. r \notin {f.temp, f.temp + 1}
    BY RegistersAssumption DEF Accounts, Reg
  <2> QED BY <1>2, <2>1, <2>2, ConsumeSucceeds DEF Reserving
<1> QED BY <1>1, <1>2

LEMMA BaseSucceeds ==
    ASSUME NEW f, NEW a, NEW b, NEW r, Accounts(f, {r, a, b})
    PROVE  NonZeroBase(f, r) # {}
<1>1. CASE r # 0
  BY <1>1 DEF NonZeroBase
<1>2. CASE r = 0
  <2> DEFINE pool == Drawn \ {0, f.temp, f.temp + 1}
  <2>1. pool \subseteq Reg /\ f.temp \in TempRegs
    BY TestGenAssumption DEF Accounts
  <2>2. AtLeast(pool, 1 + 4)
    BY <2>1, RoomAssumption, RegFinite DEF AtLeast
  <2> HIDE DEF pool
  <2>3. AtLeast(pool \ {f.sig, f.data, a, b}, 1)
    BY <2>2, AtLeastWithoutFour
  <2>4. PICK q : q \in pool \ {f.sig, f.data, a, b}
    BY <2>3, AtLeastOne
  <2>5. q \in f.reg_list
    BY <1>2, <2>1, <2>4 DEF pool, Accounts, Specials
  <2>6. q \in Available(f, {0}, Drawn)
    BY <2>4, <2>5 DEF Available, pool
  <2>7. NonZeroBase(f, r) = {[base |-> x, file |-> Take(return_registers(f, {0}), {x})] :
                                x \in Available(f, {0}, Drawn)}
    BY <1>2 DEF NonZeroBase
  <2> QED BY <2>6, <2>7
<1> QED BY <1>1, <1>2

\* A formatter that has its operands finds the registers it needs beside them.
LEMMA FormatSucceeds ==
    ASSUME NEW k \in AllKinds, NEW f, NEW m, NEW p, Accounts(f, Taken(k, p)),
           k \in {"CSS", "CILS"} => p["temp_reg"] # 2
    PROVE  format_instruction(k, f, m, p) # {}
<1>1. CASE k = "R"
  <2>1. format_instruction(k, f, m, p) = R_type(f, m, p)
    BY <1>1 DEF format_instruction
  <2> QED BY <2>1 DEF R_type
<1>2. CASE k = "S"
  <2>1. Taken(k, p) = {p["rs1"], p["rs2"], p["temp_reg"]}
    BY <1>2 DEF Taken, required_params
  <2>2. format_instruction(k, f, m, p) = S_type(f, m, p)
    BY <1>2 DEF format_instruction
  <2>3. NonZeroBase(f, p["rs1"]) # {}
    BY <2>1, BaseSucceeds
  <2> QED BY <2>2, <2>3 DEF S_type
<1>3. CASE k = "L"
  <2>1. Taken(k, p) = {p["rs1"], p["rd"], p["temp_reg"]}
    BY <1>3 DEF Taken, required_params
  <2>2. format_instruction(k, f, m, p) = L_type(f, m, p)
    BY <1>3 DEF format_instruction
  <2>3. NonZeroBase(f, p["rs1"]) # {}
    BY <2>1, BaseSucceeds
  <2> QED BY <2>2, <2>3 DEF L_type
<1>4. CASE k = "CSS"
  <2>1. Taken(k, p) = {p["rs2"], p["temp_reg"]}
    BY <1>4 DEF Taken, required_params
  <2>2. format_instruction(k, f, m, p) = CSS_type(f, m, p)
    BY <1>4 DEF format_instruction
  <2>3. 2 \notin {p["rs2"]} => 2 \notin {p["rs2"], p["temp_reg"]}
    BY <1>4
  <2>4. Reserving(f, 2, {p["rs2"]}) # {}
    BY <2>1, <2>3, ReservingSucceeds
  <2> QED BY <2>2, <2>4 DEF CSS_type
<1>5. CASE k = "CILS"
  <2>1. Taken(k, p) = {p["rd"], p["temp_reg"]}
    BY <1>5 DEF Taken, required_params
  <2>2. format_instruction(k, f, m, p) = CILS_type(f, m, p)
    BY <1>5 DEF format_instruction
  <2>3. 2 \notin {p["rd"]} => 2 \notin {p["rd"], p["temp_reg"]}
    BY <1>5
  <2>4. Reserving(f, 2, {p["rd"]}) # {}
    BY <2>1, <2>3, ReservingSucceeds
  <2> QED BY <2>2, <2>4 DEF CILS_type
<1>6. CASE k = "CIW"
  <2>1. Taken(k, p) = {p["rd"], p["rd"]}
    BY <1>6 DEF Taken, required_params
  <2>2. format_instruction(k, f, m, p) = CIW_type(f, m, p)
    BY <1>6 DEF format_instruction
  <2>3. Reserving(f, 2, {p["rd"]}) # {}
    BY <2>1, ReservingSucceeds
  <2> QED BY <2>2, <2>3 DEF CIW_type
<1>7. CASE k \in {"CI", "ADDI16SP"}
  <2>1. Taken(k, p) = {p["rs1"]}
    BY <1>7 DEF Taken, required_params
  <2>2. format_instruction(k, f, m, p) = CI_type(k, f, m, p)
    BY <1>7 DEF format_instruction
  <2> DEFINE back == return_registers(f, {p["rs1"]})
  <2>3. Accounts(back, {})
    BY <2>1, UsedReturned
  <2> HIDE DEF back
  <2>4. 2 \in Reg \ {} /\ 2 \notin {back.temp, back.temp + 1}
    <3>1. back.temp \in TempRegs
      BY <2>3 DEF Accounts
    <3>2. back.temp \in Nat /\ back.temp > 3
      BY <3>1, RegistersAssumption DEF Reg
    <3> QED BY <3>2, ImpliedRegisters
  <2>5. consume_registers(back, {2}) # {}
    <3>1. {} \subseteq {0, 0}
      OBVIOUS
    <3> QED BY <2>3, <2>4, <3>1, ConsumeSucceeds
  <2>6. CASE k = "CI"
    BY <2>2, <2>6 DEF CI_type
  <2>7. CASE k # "CI"
    BY <2>2, <2>5, <2>7 DEF CI_type, back
  <2> QED BY <2>6, <2>7
<1>8. CASE k = "CJALR"
  <2>1. Taken(k, p) = {p["rs1"], p["temp_reg"]}
    BY <1>8 DEF Taken, required_params
  <2>2. format_instruction(k, f, m, p) = CJALR_type(f, m, p)
    BY <1>8 DEF format_instruction
  <2>3. Reserving(f, 1, {p["temp_reg"], p["rs1"]}) # {}
    BY <2>1, ReservingSucceeds
  <2> QED BY <2>2, <2>3 DEF CJALR_type
<1> QED BY <1>1, <1>2, <1>3, <1>4, <1>5, <1>6, <1>7, <1>8 DEF AllKinds

LEMMA ReturnPlaces ==
    ASSUME NEW f, NEW held, Accounts(f, held), NEW regs
    PROVE  /\ return_registers(f, regs).data = f.data
           /\ Take(f, regs).data = f.data
           /\ move_sig_reg(f, regs).data = f.data
BY DEF Accounts, RegisterFile, return_registers, Take, move_sig_reg

LEMMA ReservingPlaces ==
    ASSUME NEW f, NEW held, Accounts(f, held), f.data \notin link_temp_regs, NEW r \in Reg,
           NEW regs \in SUBSET held, NEW g \in Reserving(f, r, regs), NEW back
    PROVE  return_registers(g, back).data \notin link_temp_regs
<1>1. CASE r \in regs
  BY <1>1, ReturnPlaces DEF Reserving
<1>2. CASE r \notin regs
  <2>1. g \in consume_registers(f, {r})
    BY <1>2 DEF Reserving
  <2>2. g.data \notin link_temp_regs
    BY <2>1, ConsumePlaces
  <2>3. {r} \in SUBSET Reg
    OBVIOUS
  <2>4. Accounts(g, held \cup {r})
    BY <2>1, <2>3, ConsumeAccounts
  <2> QED BY <2>2, <2>4, ReturnPlaces
<1> QED BY <1>1, <1>2

LEMMA BasePlaces ==
    ASSUME NEW f, NEW held, Accounts(f, held), NEW r \in held, NEW x \in NonZeroBase(f, r)
    PROVE  x.file.data = f.data
<1>1. CASE r # 0
  BY <1>1 DEF NonZeroBase
<1>2. CASE r = 0
  <2>1. PICK q \in Available(f, {0}, Drawn) :
            x = [base |-> q, file |-> Take(return_registers(f, {0}), {q})]
    BY <1>2 DEF NonZeroBase
  <2>2. Accounts(return_registers(f, {0}), held \ {0})
    BY <1>2, ReturnAccounts
  <2> QED BY <2>1, <2>2, ReturnPlaces
<1> QED BY <1>1, <1>2

\* No formatter moves the data pointer into a pair.
LEMMA FormatPlaces ==
    ASSUME NEW k \in AllKinds, NEW f, NEW m, NEW p, Accounts(f, Taken(k, p)),
           f.data \notin link_temp_regs, NEW o \in format_instruction(k, f, m, p)
    PROVE  o.file.data \notin link_temp_regs
<1>1. CASE k = "R"
  <2>1. o \in R_type(f, m, p)
    BY <1>1, Zenon DEF format_instruction
  <2> QED BY <2>1 DEF R_type, Outcome
<1>2. CASE k = "S"
  <2>1. p["rs1"] \in Taken(k, p)
    BY <1>2 DEF Taken, required_params
  <2>2. o \in S_type(f, m, p)
    BY <1>2, Zenon DEF format_instruction
  <2>3. PICK x \in NonZeroBase(f, p["rs1"]) :
            o.file = IF x.base # x.file.sig THEN move_sig_reg(x.file, x.base) ELSE x.file
    BY <2>2 DEF S_type, Stored, Outcome
  <2>4. x.file.data = f.data /\ \E h : Accounts(x.file, h)
    <3> DEFINE r == p["rs1"]
    <3>1. r \in Taken(k, p) /\ x \in NonZeroBase(f, r)
      BY <2>1
    <3> HIDE DEF r
    <3>2. x.file.data = f.data
      BY <3>1, BasePlaces
    <3>3. Accounts(x.file, (Taken(k, p) \ {r}) \cup {x.base})
      BY <3>1, BaseAccounts
    <3> QED BY <3>2, <3>3
  <2> QED BY <2>3, <2>4, ReturnPlaces
<1>3. CASE k = "L"
  <2>1. p["rs1"] \in Taken(k, p)
    BY <1>3 DEF Taken, required_params
  <2>2. o \in L_type(f, m, p)
    BY <1>3, Zenon DEF format_instruction
  <2>3. PICK x \in NonZeroBase(f, p["rs1"]) : o.file = x.file
    BY <2>2 DEF L_type, Outcome
  <2> QED BY <2>1, <2>3, BasePlaces
<1>4. CASE k = "CSS"
  <2>1. {p["rs2"]} \in SUBSET Taken(k, p)
    BY <1>4 DEF Taken, required_params
  <2>2. o \in CSS_type(f, m, p)
    BY <1>4, Zenon DEF format_instruction
  <2>3. PICK g \in Reserving(f, 2, {p["rs2"]}) : o.file = return_registers(g, {2} \ {p["rs2"]})
    BY <2>2 DEF CSS_type, Outcome
  <2> QED BY <2>1, <2>3, ReservingPlaces, ImpliedRegisters
<1>5. CASE k = "CILS"
  <2>1. {p["rd"]} \in SUBSET Taken(k, p)
    BY <1>5 DEF Taken, required_params
  <2>2. o \in CILS_type(f, m, p)
    BY <1>5, Zenon DEF format_instruction
  <2>3. PICK g \in Reserving(f, 2, {p["rd"]}) : o.file = return_registers(g, {2} \ {p["rd"]})
    BY <2>2 DEF CILS_type, Outcome
  <2> QED BY <2>1, <2>3, ReservingPlaces, ImpliedRegisters
<1>6. CASE k = "CIW"
  <2>1. {p["rd"]} \in SUBSET Taken(k, p)
    BY <1>6 DEF Taken, required_params
  <2>2. o \in CIW_type(f, m, p)
    BY <1>6, Zenon DEF format_instruction
  <2>3. PICK g \in Reserving(f, 2, {p["rd"]}) : o.file = return_registers(g, {2} \ {p["rd"]})
    BY <2>2 DEF CIW_type, Outcome
  <2> QED BY <2>1, <2>3, ReservingPlaces, ImpliedRegisters
<1>7. CASE k \in {"CI", "ADDI16SP"}
  <2>1. {p["rs1"]} \in SUBSET Taken(k, p)
    BY <1>7 DEF Taken, required_params
  <2>2. o \in CI_type(k, f, m, p)
    BY <1>7, Zenon DEF format_instruction
  <2>3. o.file = f \/ o.file \in consume_registers(return_registers(f, {p["rs1"]}), {2})
    BY <2>2 DEF CI_type, CI_case, Outcome
  <2>4. return_registers(f, {p["rs1"]}).data = f.data
    BY ReturnPlaces
  <2> QED BY <2>3, <2>4, ConsumePlaces
<1>8. CASE k = "CJALR"
  <2>1. {p["temp_reg"], p["rs1"]} \in SUBSET Taken(k, p)
    BY <1>8 DEF Taken, required_params
  <2>2. o \in CJALR_type(f, m, p)
    BY <1>8, Zenon DEF format_instruction
  <2>3. PICK g \in Reserving(f, 1, {p["temp_reg"], p["rs1"]}) :
            o.file = return_registers(g, {1} \ {p["temp_reg"], p["rs1"]})
    BY <2>2 DEF CJALR_type, Outcome
  <2> QED BY <2>1, <2>3, ReservingPlaces, ImpliedRegisters
<1> QED BY <1>1, <1>2, <1>3, <1>4, <1>5, <1>6, <1>7, <1>8 DEF AllKinds

-----------------------------------------------------------------------------
(* The draws *)

\* At most one register is held, so at most five are not free.
LEMMA FreeRegisters ==
    ASSUME RegistersInv, stage = "consumed",
           NEW range \in SUBSET Reg, NEW n \in Nat, AtLeast(range, n + 6), NEW x
    PROVE  AtLeast((file.reg_list \cap range) \ {x}, n)
<1> DEFINE left == (file.reg_list \cap range) \ {x}
           few == (range \ {file.sig, file.data, file.temp, file.temp + 1}) \ {x, fixed.reg}
<1>1. Accounts(file, Held) /\ Held \subseteq {fixed.reg}
  BY DEF RegistersInv, FileInv, Held
<1>2. few \subseteq left
  BY <1>1 DEF Accounts, Specials
<1>3. left \in SUBSET Reg
  OBVIOUS
<1>4. AtLeast(few, n)
  <2>1. n + 2 \in Nat /\ n + 6 = (n + 2) + 4
    OBVIOUS
  <2> DEFINE most == range \ {file.sig, file.data, file.temp, file.temp + 1}
  <2>2. AtLeast(most, n + 2)
    BY <2>1, AtLeastWithoutFour
  <2> HIDE DEF most
  <2>3. AtLeast(most \ {x, fixed.reg}, n)
    BY <2>2, AtLeastWithoutTwo
  <2> QED BY <2>3 DEF most
<1> HIDE DEF left, few
<1> QED BY <1>2, <1>3, <1>4, RegFinite, AtLeastSuperset DEF left

\* Every operand that the coverpoint left open finds a register.
LEMMA DrawsSucceed ==
    ASSUME RegistersInv, stage = "consumed"
    PROVE  ~ DrawsFail(file, kind)
<1> DEFINE missing == required_params[kind] \ fixed.operands
           others == missing \ {"temp_reg"}
           left == Available(file, {}, reg_range(kind))
<1>1. kind \in AllKinds /\ fixed.operands \subseteq required_params[kind]
  BY DEF RegistersInv, FixedInv
<1>2. left = file.reg_list \cap reg_range(kind)
  BY DEF Available
<1>3. left \subseteq Reg /\ left \ {0, 2} \subseteq Reg
  <2>1. file.reg_list \subseteq Reg
    BY DEF RegistersInv, FileInv, Accounts, RegisterFile
  <2> QED BY <1>2, <2>1
<1>4. CASE kind # "CIW"
  <2> DEFINE range == 1 .. 9
  <2>1. range \subseteq reg_range(kind) /\ range \subseteq Reg
    BY <1>1, <1>4, RoomAssumption, RegistersAssumption DEF reg_range, AllKinds, Reg
  <2>2. AtLeast(range, 3 + 6)
    <3> DEFINE low == 1
               high == 9
    <3> HIDE DEF low, high
    <3>1. /\ IsFiniteSet(low .. high)
          /\ Cardinality(low .. high) = IF low > high THEN 0 ELSE high - low + 1
      <4>1. low \in Int /\ high \in Int
        BY DEF low, high
      <4> QED BY <4>1, FS_Interval
    <3>2. IsFiniteSet(1 .. 9) /\ Cardinality(1 .. 9) = 9
      BY <3>1 DEF low, high
    <3> QED BY <3>2 DEF AtLeast
  <2>3. 0 \notin range
    OBVIOUS
  <2> HIDE DEF range
  <2>4. AtLeast((file.reg_list \cap range) \ {2}, 3)
    BY <2>1, <2>2, FreeRegisters
  <2>5. (file.reg_list \cap range) \ {2} \subseteq left \ {0, 2}
    BY <1>2, <2>1, <2>3
  <2>6. AtLeast(left \ {0, 2}, 3) /\ AtLeast(left, 3)
    <3> HIDE DEF left
    <3>1. AtLeast(left \ {0, 2}, 3)
      BY <1>3, <2>4, <2>5, RegFinite, AtLeastSuperset
    <3> QED BY <1>3, <3>1, RegFinite, AtLeastSuperset
  <2>7. /\ IsFiniteSet(others) /\ Cardinality(others) \in 0 .. 3
        /\ "temp_reg" \in missing => Cardinality(others) <= 2
    <3>1. \/ others \subseteq {"rd", "rs1", "rs2"} /\ "temp_reg" \notin missing
          \/ others \subseteq {"rs1", "rs2"}
          \/ others \subseteq {"rd", "rs1"}
      BY <1>1 DEF required_params, AllKinds
    <3> HIDE DEF others, missing
    <3>2. /\ IsFiniteSet({"rd", "rs1", "rs2"}) /\ Cardinality({"rd", "rs1", "rs2"}) \in 0 .. 3
          /\ IsFiniteSet({"rs1", "rs2"}) /\ Cardinality({"rs1", "rs2"}) \in 0 .. 2
          /\ IsFiniteSet({"rd", "rs1"}) /\ Cardinality({"rd", "rs1"}) \in 0 .. 2
      BY AtMostThree
    <3>3. IsFiniteSet(others)
      BY <3>1, <3>2, FS_Subset
    <3>4. Cardinality(others) \in Nat
      BY <3>3, FS_CardinalityType
    <3>5. CASE others \subseteq {"rd", "rs1", "rs2"} /\ "temp_reg" \notin missing
      <4>1. Cardinality(others) <= Cardinality({"rd", "rs1", "rs2"})
        BY <3>2, <3>5, FS_Subset
      <4> QED BY <3>2, <3>3, <3>4, <3>5, <4>1
    <3>6. CASE others \subseteq {"rs1", "rs2"}
      <4>1. Cardinality(others) <= Cardinality({"rs1", "rs2"})
        BY <3>2, <3>6, FS_Subset
      <4> QED BY <3>2, <3>3, <3>4, <4>1
    <3>7. CASE others \subseteq {"rd", "rs1"}
      <4>1. Cardinality(others) <= Cardinality({"rd", "rs1"})
        BY <3>2, <3>7, FS_Subset
      <4> QED BY <3>2, <3>3, <3>4, <4>1
    <3> QED BY <3>1, <3>5, <3>6, <3>7
  <2> HIDE DEF left, others, missing
  <2>8. ~ (Cardinality(left) < Cardinality(others))
        /\ ~ ("temp_reg" \in missing /\ Cardinality(left \ {0, 2}) <= Cardinality(others))
    <3>1. Cardinality(left) \in Nat /\ Cardinality(left \ {0, 2}) \in Nat
      BY <1>3, RegFinite
    <3> QED BY <2>6, <2>7, <3>1 DEF AtLeast
  <2> QED BY <2>8 DEF DrawsFail, left, others, missing
<1>5. CASE kind = "CIW"
  <2>1. "temp_reg" \notin missing /\ missing \subseteq {"rd"} /\ reg_range(kind) = Compressed
    BY <1>5 DEF required_params, reg_range
  <2>2. CASE fixed.operands # {}
    <3>1. others = {}
      BY <1>1, <1>5, <2>2 DEF required_params
    <3>2. Cardinality(left) \in Nat
      BY <1>3, RegFinite
    <3>3. ~ (Cardinality(left) < Cardinality({}))
      BY <3>2, FS_EmptySet
    <3> QED BY <2>1, <3>1, <3>3 DEF DrawsFail
  <2>3. CASE fixed.operands = {}
    <3> DEFINE few == Compressed \ {file.sig, file.data, file.temp, file.temp + 1}
    <3>1. Accounts(file, {})
      BY <2>3 DEF RegistersInv, FileInv, Held
    <3>2. few \subseteq left
      BY <1>2, <2>1, <3>1, TestGenAssumption DEF Accounts, Specials
    <3>3. AtLeast(Compressed, 1 + 4)
      BY TestGenAssumption, RoomAssumption, RegFinite DEF AtLeast
    <3>4. AtLeast(few, 1)
      BY <3>3, AtLeastWithoutFour
    <3> HIDE DEF few, left
    <3>5. AtLeast(left, 1)
      BY <1>3, <3>2, <3>4, RegFinite, AtLeastSuperset
    <3>6. Cardinality(others) <= 1
      <4>1. others \subseteq {"rd"}
        BY <2>1
      <4> HIDE DEF others
      <4>2. IsFiniteSet({"rd"}) /\ Cardinality({"rd"}) = 1
        BY FS_Singleton
      <4> QED BY <4>1, <4>2, FS_Subset
    <3> HIDE DEF others
    <3>7. Cardinality(left) \in Nat /\ Cardinality(others) \in Nat
      <4>1. others \subseteq {"rd"}
        BY <2>1 DEF others
      <4>2. IsFiniteSet(others)
        BY <4>1, AtMostThree, FS_Subset
      <4> QED BY <1>3, <4>2, RegFinite, FS_CardinalityType
    <3>8. ~ (Cardinality(left) < Cardinality(others))
      BY <3>5, <3>6, <3>7 DEF AtLeast
    <3> QED BY <2>1, <3>8 DEF DrawsFail, left, others
  <2> QED BY <2>2, <2>3
<1> QED BY <1>4, <1>5

-----------------------------------------------------------------------------
(* The invariant *)

RoomInv ==
    /\ RegistersInv
    /\ stage # "raised"
    /\ file.data \notin link_temp_regs

LEMMA RoomInvInit == Init => RoomInv
<1> SUFFICES ASSUME Init PROVE RoomInv
  OBVIOUS
<1>1. 3 \notin link_temp_regs
  BY RegistersAssumption DEF link_temp_regs, Reg
<1> QED BY <1>1, RegistersInvInit DEF Init, RoomInv, InitRegisters, default_data_reg

LEMMA RoomInvNext == RoomInv /\ [Next]_vars => RoomInv'
<1> SUFFICES ASSUME RoomInv, [Next]_vars PROVE RoomInv'
  OBVIOUS
<1>1. RegistersInv'
  BY RegistersInvNext DEF RoomInv
<1>2. Accounts(file, Held)
  BY DEF RoomInv, RegistersInv, FileInv
<1> SUFFICES stage' # "raised" /\ file'.data \notin link_temp_regs
  BY <1>1 DEF RoomInv
<1>3. ASSUME NEW operands \in Fixed, NEW reg \in Reg, Consume(operands, reg)
      PROVE  stage' # "raised" /\ file'.data \notin link_temp_regs
  <2>1. Held = {}
    BY <1>3 DEF Consume, Held
  <2>2. consume_registers(file, {reg}) # {}
    <3>1. reg \in Reg \ {} /\ {} \subseteq {0, 0}
      OBVIOUS
    <3> QED BY <1>2, <2>1, <3>1, ConsumeSucceeds DEF RoomInv
  <2>3. stage' = "consumed" /\ file' \in consume_registers(file, {reg})
    BY <1>3, <2>2 DEF Consume
  <2> QED BY <2>3, ConsumePlaces DEF RoomInv
<1>4. CASE ConsumeNothing
  BY <1>4 DEF ConsumeNothing, RoomInv
<1>5. CASE Generate
  <2>1. stage = "consumed" /\ ~ DrawsFail(file, kind) /\ kind \in AllKinds
    BY <1>5, DrawsSucceed DEF Generate, RoomInv, RegistersInv, FixedInv
  <2>2. PICK p \in random_params(file, kind), m \in {
               Relocate(IF StartsFile THEN reinit_pointer_registers(file) ELSE machine,
                        before, file)} :
          LET f == Take(file, Taken(kind, p))
          IN  \/ format_instruction(kind, f, m, p) = {}
              \/ stage' = "idle" /\ \E o \in format_instruction(kind, f, m, p) : Testcase(o)
    BY <1>5, <2>1 DEF Generate, Taken
  <2> DEFINE f == Take(file, Taken(kind, p))
  <2>3. Accounts(f, Taken(kind, p))
    BY <2>1, ParamsAccount DEF RoomInv
  <2>4. f.data \notin link_temp_regs
    BY <1>2, ReturnPlaces DEF RoomInv
  <2> HIDE DEF f
  <2>5. format_instruction(kind, f, m, p) # {}
    <3>1. ASSUME kind \in {"CSS", "CILS"} PROVE p["temp_reg"] # 2
      BY <2>2, <3>1 DEF random_params, RoomInv, RegistersInv, FixedInv, required_params
    <3> QED BY <2>1, <2>3, <3>1, FormatSucceeds
  <2>6. PICK o \in format_instruction(kind, f, m, p) : Testcase(o)
    BY <2>2, <2>5 DEF f
  <2>7. o.file.data \notin link_temp_regs
    BY <2>1, <2>3, <2>4, FormatPlaces
  <2>8. \E h : Accounts(o.file, h)
    BY <2>1, <2>2, <2>3, <2>6, ParamsAccount, FormatReturns DEF RoomInv, Returned
  <2>9. file'.data = o.file.data
    BY <2>6, <2>8, ReturnPlaces DEF Testcase
  <2> QED BY <2>2, <2>5, <2>7, <2>9 DEF f
<1>6. CASE Destroy
  <2>1. Held = {}
    BY <1>6 DEF Destroy, Held
  <2>2. return_registers(file, Specials(file)).reg_list = Reg
    <3>1. file \in RegisterFile /\ file.reg_list \cup Specials(file) = Reg
      BY <1>2, <2>1 DEF Accounts
    <3> QED BY <3>1 DEF return_registers, RegisterFile
  <2> QED BY <1>6, <2>2 DEF Destroy, RoomInv
<1>7. CASE UNCHANGED vars
  BY <1>7 DEF vars, RoomInv
<1> QED BY <1>3, <1>4, <1>5, <1>6, <1>7 DEF Next

\* No sequence of requests, draws and formatters leaves an operand or a special
\* register without a register to go to, and destroy() finds every one returned.
THEOREM NeverRaised == Spec => []NeverRaises
<1>1. RoomInv => NeverRaises
  BY DEF RoomInv, NeverRaises
<1> QED BY <1>1, RoomInvInit, RoomInvNext, PTL DEF Spec

=============================================================================
