---------------------------- MODULE PipelineProofs ---------------------------
(***************************************************************************)
(* Proofs about Pipeline for every word size, number of registers,         *)
(* program, power-up content, ALU and comparator that satisfy the          *)
(* assumptions of Encodings and DataPath.                                  *)
(***************************************************************************)
EXTENDS Pipeline, TLAPS

-----------------------------------------------------------------------------
(* Arithmetic on words.                                                    *)

\* A byte has at least two values, and a word a positive multiple of four.
LEMMA WordSizes ==
    /\ ByteSize \in Nat /\ ByteSize >= 2
    /\ WordSize \in Nat /\ WordSize >= 16
    /\ WordSize % 4 = 0
  <1>1. PICK k \in Nat : ByteSize = 2 * k /\ k >= 1
    <2>1. ByteSize \div 2 \in Nat /\ ByteSize \div 2 >= 1
      BY WidthAssumption, SMT
    <2>2. ByteSize = 2 * (ByteSize \div 2)
      BY WidthAssumption, SMT
    <2> QED BY <2>1, <2>2
  <1>2. WordSize = 16 * (k * k * (k * k))
    BY <1>1, WidthAssumption, SMT
  <1>3. k * k * (k * k) \in Nat /\ k * k * (k * k) >= 1
    BY <1>1, SMT
  <1> DEFINE n == k * k * (k * k)
  <1>4. n \in Nat /\ n >= 1 /\ WordSize = 16 * n
    BY <1>2, <1>3
  <1> HIDE DEF n
  <1> QED BY <1>1, <1>4, WidthAssumption, SMT

\* Adding words, without the modulus.
LEMMA AddCases ==
    ASSUME NEW a \in Word, NEW b \in Word
    PROVE  Add(a, b) = IF a + b < WordSize THEN a + b ELSE a + b - WordSize
  BY WordSizes, SMT DEF Add, Word

LEMMA AddType ==
    ASSUME NEW a \in Word, NEW b \in Word
    PROVE  Add(a, b) \in Word
  BY WordSizes, SMT DEF Add, Word

LEMMA AddNothing ==
    ASSUME NEW a \in Word
    PROVE  Add(a, 0) = a
  <1>1. a \in Nat /\ 0 \in Word /\ a + 0 < WordSize /\ a + 0 = a
    BY WordSizes, SMT DEF Word
  <1> QED BY <1>1, AddCases

\* The address behind pc differs from pc and is aligned when pc is.
LEMMA NextAddress ==
    ASSUME NEW a \in Word
    PROVE  /\ Add(a, 4) \in Word
           /\ Add(a, 4) # a
           /\ a % 4 = 0 => Add(a, 4) % 4 = 0 /\ Align(Add(a, 4)) = Add(a, 4)
  <1>1. 4 \in Word
    BY WordSizes, SMT DEF Word
  <1>2. Add(a, 4) = IF a + 4 < WordSize THEN a + 4 ELSE a + 4 - WordSize
    BY <1>1, AddCases
  <1> QED BY <1>2, WordSizes, SMT DEF Word, Align

LEMMA AlignType ==
    ASSUME NEW a \in Word
    PROVE  Align(a) \in Word /\ Align(a) % 4 = 0
  BY WordSizes, SMT DEF Align, Word

-----------------------------------------------------------------------------
(* What the data memory reads and writes.                                  *)

\* A digit in front of a number of base b and n values.
LEMMA Digit ==
    ASSUME NEW b \in Nat, NEW n \in Nat, NEW x \in 0 .. b - 1, NEW y \in 0 .. n - 1
    PROVE  x + b * y \in 0 .. b * n - 1
  <1>1. b * y \in Nat
    BY SMT
  <1>2. b * (n - 1 - y) >= 0
    BY SMT
  <1>3. b * (n - 1 - y) = b * n - b - b * y
    BY SMT
  <1>4. b * n \in Nat
    BY SMT
  <1> QED BY <1>1, <1>2, <1>3, <1>4, SMT

LEMMA WordOfType ==
    ASSUME NEW b0 \in Byte, NEW b1 \in Byte, NEW b2 \in Byte, NEW b3 \in Byte
    PROVE  WordOf(b0, b1, b2, b3) \in Word
  <1> DEFINE n2 == ByteSize * ByteSize
             n3 == ByteSize * n2
             n4 == ByteSize * n3
  <1>1. n2 \in Nat /\ n3 \in Nat
    BY WordSizes, SMT
  <1>2. WordSize = n4
    BY WidthAssumption, SMT
  <1>3. b2 + ByteSize * b3 \in 0 .. n2 - 1
    BY WordSizes, Digit DEF Byte
  <1>4. b1 + ByteSize * (b2 + ByteSize * b3) \in 0 .. n3 - 1
    <2> HIDE DEF n2
    <2> QED BY <1>1, <1>3, WordSizes, Digit DEF Byte
  <1>5. b0 + ByteSize * (b1 + ByteSize * (b2 + ByteSize * b3)) \in 0 .. n4 - 1
    <2> HIDE DEF n3
    <2> QED BY <1>1, <1>4, WordSizes, Digit DEF Byte
  <1> QED BY <1>2, <1>5 DEF WordOf, Word

LEMMA ByteType ==
    ASSUME NEW w \in Word
    PROVE  /\ Byte0(w) \in Byte
           /\ Byte1(w) \in Byte
           /\ Byte2(w) \in Byte
           /\ Byte3(w) \in Byte
  <1>1. \A x \in Nat : x % ByteSize \in Byte
    BY WordSizes, SMT DEF Byte
  <1>2. \A d \in Nat : d >= 1 => w \div d \in Nat
    BY SMT DEF Word
  <1>3. /\ ByteSize * ByteSize \in Nat /\ ByteSize * ByteSize >= 1
        /\ ByteSize * ByteSize * ByteSize \in Nat
        /\ ByteSize * ByteSize * ByteSize >= 1
    BY WordSizes, SMT
  <1>4. w \in Nat /\ ByteSize >= 1 /\ ByteSize \in Nat
    BY WordSizes, SMT DEF Word
  <1> QED BY <1>1, <1>2, <1>3, <1>4 DEF Byte0, Byte1, Byte2, Byte3

LEMMA MemReadType ==
    ASSUME NEW m, IsMemory(m), NEW a \in Word, NEW f3 \in Funct3
    PROVE  MemRead(m, a, f3) \in Word
  <1>1. \A x : ByteAt(m, x) \in Byte
    BY WordSizes, SMT DEF ByteAt, IsMemory, Byte
  <1>2. \A x \in Byte, e \in BOOLEAN : Filler(x, e) \in Byte
    BY WordSizes, SMT DEF Filler, Byte
  <1>3. SignExt(f3) \in BOOLEAN
    BY DEF SignExt
  <1>4. 0 \in Word
    BY WordSizes, SMT DEF Word
  <1> QED BY <1>1, <1>2, <1>3, <1>4, WordOfType DEF MemRead

LEMMA OverwriteType ==
    ASSUME NEW m, NEW bytes, IsMemory(m), IsMemory(bytes)
    PROVE  IsMemory(Overwrite(m, bytes))
  BY DEF IsMemory, Overwrite

LEMMA StoredBytesType ==
    ASSUME NEW a \in Word, NEW d \in Word, NEW n \in {1, 2, 4}
    PROVE  IsMemory(StoredBytes(a, d, n))
  <1>1. \A i \in 0 .. n - 1 : i \in Word
    BY WordSizes, SMT DEF Word
  <1>2. {Add(a, i) : i \in 0 .. n - 1} \subseteq Word
    BY <1>1, AddType
  <1> QED BY <1>2, ByteType DEF StoredBytes, IsMemory

LEMMA MemWriteType ==
    ASSUME NEW m, IsMemory(m), NEW a \in Word, NEW d \in Word, NEW f3
    PROVE  IsMemory(MemWrite(m, a, d, f3))
  BY OverwriteType, StoredBytesType DEF MemWrite
-----------------------------------------------------------------------------
(* The data memory against a reference: what a load returns after a store. *)

\* x, a number of n values, as a word: a load extends it with zeros or with its sign.
Extended(x, n, sign_ext) == IF sign_ext /\ 2 * x >= n THEN x + WordSize - n ELSE x

\* The low byte, half or whole of a word, extended.
LowPart(w, f3) ==
    CASE Size(f3) = SIZE_BYTE -> Extended(w % ByteSize, ByteSize, SignExt(f3))
      [] Size(f3) = SIZE_HALF ->
             Extended(w % (ByteSize * ByteSize), ByteSize * ByteSize, SignExt(f3))
      [] Size(f3) = SIZE_WORD -> w
      [] OTHER -> 0

\* Division splits a number into a digit and the rest.
LEMMA Division ==
    ASSUME NEW b \in Nat, b >= 1, NEW x \in Nat
    PROVE  /\ x = (x % b) + b * (x \div b)
           /\ x % b \in 0 .. b - 1
           /\ x \div b \in Nat
  BY SMT

\* There is one way only to split it.
LEMMA DivisionUnique ==
    ASSUME NEW b \in Nat, b >= 1, NEW q \in Nat, NEW r \in 0 .. b - 1
    PROVE  (r + b * q) % b = r /\ (r + b * q) \div b = q
  <1> DEFINE x == r + b * q
             p == x \div b
             s == x % b
  <1>1. x \in Nat
    BY SMT
  <1>2. x = s + b * p /\ s \in 0 .. b - 1 /\ p \in Nat
    BY <1>1, Division
  <1> HIDE DEF p, s
  <1>3. r + b * q = s + b * p
    BY <1>2
  <1>4. ~(p >= q + 1)
    <2> SUFFICES ASSUME p >= q + 1 PROVE FALSE
      OBVIOUS
    <2>1. b * p >= b * q + b
      BY <1>2, SMT
    <2> QED BY <1>2, <1>3, <2>1, SMT
  <1>5. ~(q >= p + 1)
    <2> SUFFICES ASSUME q >= p + 1 PROVE FALSE
      OBVIOUS
    <2>1. b * q >= b * p + b
      BY <1>2, SMT
    <2> QED BY <1>2, <1>3, <2>1, SMT
  <1>6. p = q
    BY <1>2, <1>4, <1>5, SMT
  <1>7. s = r
    BY <1>2, <1>3, <1>6, SMT
  <1> QED BY <1>6, <1>7 DEF p, s

\* Dividing twice is dividing by the product.
LEMMA DivisionTwice ==
    ASSUME NEW b \in Nat, b >= 1, NEW c \in Nat, c >= 1, NEW x \in Nat
    PROVE  (x \div b) \div c = x \div (b * c)
  <1> DEFINE q == x \div b
             r == x % b
             u == q \div c
             v == q % c
  <1>1. x = r + b * q /\ r \in 0 .. b - 1 /\ q \in Nat
    BY Division
  <1> HIDE DEF q, r
  <1>2. q = v + c * u /\ v \in 0 .. c - 1 /\ u \in Nat
    BY <1>1, Division
  <1> HIDE DEF u, v
  <1>3. r + b * v \in 0 .. b * c - 1
    BY <1>1, <1>2, Digit
  <1>4. b * c \in Nat /\ b * c >= 1
    BY SMT
  <1>5. x = (r + b * v) + (b * c) * u
    <2>1. b * q = b * v + b * (c * u)
      BY <1>1, <1>2, SMT
    <2>2. b * (c * u) = (b * c) * u
      BY <1>2, SMT
    <2> QED BY <1>1, <1>2, <2>1, <2>2, SMT
  <1>6. x \div (b * c) = u
    BY <1>2, <1>3, <1>4, <1>5, DivisionUnique
  <1> QED BY <1>6 DEF u, q

\* The bytes of a word make up the word, and the low two its low half.
LEMMA BytesOfWord ==
    ASSUME NEW w \in Word
    PROVE  /\ Byte0(w) = w % ByteSize
           /\ Byte0(w) + ByteSize * Byte1(w) = w % (ByteSize * ByteSize)
           /\ WordOf(Byte0(w), Byte1(w), Byte2(w), Byte3(w)) = w
  <1> DEFINE w1 == w \div ByteSize
             w2 == w1 \div ByteSize
             w3 == w2 \div ByteSize
             n2 == ByteSize * ByteSize
             n3 == n2 * ByteSize
  <1>1. /\ ByteSize \in Nat /\ ByteSize >= 1 /\ w \in Nat
        /\ n2 \in Nat /\ n2 >= 1 /\ n3 \in Nat /\ n3 >= 1
    BY WordSizes, SMT DEF Word
  <1>2. w = Byte0(w) + ByteSize * w1 /\ w1 \in Nat /\ Byte0(w) \in 0 .. ByteSize - 1
    BY <1>1, Division DEF Byte0
  <1>3. w1 = Byte1(w) + ByteSize * w2 /\ w2 \in Nat /\ Byte1(w) \in 0 .. ByteSize - 1
    <2> HIDE DEF w1
    <2>1. w1 = (w1 % ByteSize) + ByteSize * w2 /\ w2 \in Nat /\ w1 % ByteSize \in 0 .. ByteSize - 1
      BY <1>1, <1>2, Division
    <2> QED BY <2>1 DEF Byte1, w1
  <1>4. w2 = w \div n2
    BY <1>1, DivisionTwice
  <1>5. w2 = Byte2(w) + ByteSize * w3 /\ w3 \in Nat
    <2> HIDE DEF w2
    <2>1. w2 = (w2 % ByteSize) + ByteSize * w3 /\ w3 \in Nat
      BY <1>1, <1>3, Division
    <2> QED BY <1>4, <2>1 DEF Byte2
  <1>6. w3 = w \div n3
    <2> HIDE DEF w2, n2
    <2>1. (w \div n2) \div ByteSize = w \div (n2 * ByteSize)
      BY <1>1, DivisionTwice
    <2> QED BY <1>4, <2>1
  <1>7. w3 < ByteSize
    <2>1. w = (w % n3) + n3 * w3 /\ w % n3 >= 0
      <3> HIDE DEF w3, n3
      <3> QED BY <1>1, <1>6, Division
    <2>2. w < n3 * ByteSize
      BY WidthAssumption, WordSizes, SMT DEF Word
    <2> HIDE DEF w3, n3
    <2>3. n3 * w3 < n3 * ByteSize
      BY <1>1, <1>5, <2>1, <2>2, SMT
    <2>4. w3 >= ByteSize => n3 * w3 >= n3 * ByteSize
      BY <1>1, <1>5, SMT
    <2> QED BY <1>1, <1>5, <2>3, <2>4, SMT
  <1>8. Byte3(w) = w3
    <2>1. Byte3(w) = w3 % ByteSize
      BY <1>6 DEF Byte3
    <2> HIDE DEF w3
    <2> QED BY <1>1, <1>5, <1>7, <2>1, SMT
  <1> HIDE DEF w1, w2, w3
  <1>9. WordOf(Byte0(w), Byte1(w), Byte2(w), Byte3(w)) = w
    BY <1>2, <1>3, <1>5, <1>8 DEF WordOf
  <1>10. Byte0(w) + ByteSize * Byte1(w) = w % n2
    <2>1. ByteSize * w1 = ByteSize * Byte1(w) + n2 * w2
      BY <1>1, <1>3, SMT
    <2>2. Byte0(w) + ByteSize * Byte1(w) \in 0 .. n2 - 1
      BY <1>1, <1>2, <1>3, Digit
    <2>3. w = (Byte0(w) + ByteSize * Byte1(w)) + n2 * w2
      <3> HIDE DEF n2
      <3> QED BY <1>1, <1>2, <1>3, <2>1, SMT
    <2> DEFINE h == Byte0(w) + ByteSize * Byte1(w)
    <2>4. (h + n2 * w2) % n2 = h
      <3> HIDE DEF n2, h
      <3>1. h \in 0 .. n2 - 1
        BY <2>2 DEF h
      <3> QED BY <1>1, <1>3, <3>1, DivisionUnique
    <2> QED BY <2>3, <2>4
  <1> QED BY <1>9, <1>10 DEF Byte0

\* The fillers of a load are a sign extension.
LEMMA FillExtends ==
    ASSUME NEW b0 \in Byte, NEW b1 \in Byte, NEW e \in BOOLEAN
    PROVE  /\ WordOf(b0, Filler(b0, e), Filler(b0, e), Filler(b0, e)) =
                  Extended(b0, ByteSize, e)
           /\ WordOf(b0, b1, Filler(b1, e), Filler(b1, e)) =
                  Extended(b0 + ByteSize * b1, ByteSize * ByteSize, e)
  <1> DEFINE B == ByteSize
             x == b0 + B * b1
  <1>1. B \in Nat /\ B >= 2 /\ WordSize = B * B * B * B /\ b0 \in 0 .. B - 1 /\ b1 \in 0 .. B - 1
    BY WordSizes, WidthAssumption DEF Byte
  <1>2. b0 + B * (B - 1 + B * (B - 1 + B * (B - 1))) = b0 + B * B * B * B - B
    BY <1>1, SMT
  <1>3. b0 + B * (b1 + B * (B - 1 + B * (B - 1))) = x + B * B * B * B - B * B
    BY <1>1, SMT
  <1>4. 2 * b1 >= B <=> 2 * x >= B * B
    <2>1. PICK k \in Nat : B = 2 * k /\ k >= 1
      <3>1. B \div 2 \in Nat /\ B \div 2 >= 1
        BY WidthAssumption, SMT
      <3>2. B = 2 * (B \div 2)
        BY WidthAssumption, SMT
      <3> QED BY <3>1, <3>2
    <2>2. CASE b1 >= k
      <3>1. B * b1 >= B * k
        BY <1>1, <2>1, <2>2, SMT
      <3>2. 2 * (B * k) = B * B
        BY <1>1, <2>1, SMT
      <3> QED BY <1>1, <2>1, <2>2, <3>1, <3>2, SMT
    <2>3. CASE b1 <= k - 1
      <3>1. B * b1 <= B * (k - 1)
        BY <1>1, <2>1, <2>3, SMT
      <3>2. 2 * (B * (k - 1)) = B * B - 2 * B
        BY <1>1, <2>1, SMT
      <3> QED BY <1>1, <2>1, <2>3, <3>1, <3>2, SMT
    <2> QED BY <1>1, <2>1, <2>2, <2>3, SMT
  <1>5. b0 + B * (0 + B * (0 + B * 0)) = b0 /\ b0 + B * (b1 + B * (0 + B * 0)) = x
    BY <1>1, SMT
  <1>6. WordOf(b0, Filler(b0, e), Filler(b0, e), Filler(b0, e)) = Extended(b0, B, e)
    <2>1. CASE e /\ 2 * b0 >= B
      BY <1>1, <1>2, <2>1 DEF WordOf, Filler, Extended
    <2>2. CASE ~(e /\ 2 * b0 >= B)
      BY <1>5, <2>2 DEF WordOf, Filler, Extended
    <2> QED BY <2>1, <2>2
  <1>7. WordOf(b0, b1, Filler(b1, e), Filler(b1, e)) = Extended(x, B * B, e)
    <2>1. CASE e /\ 2 * b1 >= B
      <3>1. Filler(b1, e) = B - 1 /\ Extended(x, B * B, e) = x + WordSize - B * B
        BY <1>4, <2>1 DEF Filler, Extended
      <3> QED BY <1>1, <1>3, <3>1 DEF WordOf
    <2>2. CASE ~(e /\ 2 * b1 >= B)
      <3>1. Filler(b1, e) = 0 /\ Extended(x, B * B, e) = x
        BY <1>4, <2>2 DEF Filler, Extended
      <3> QED BY <1>5, <3>1 DEF WordOf
    <2> QED BY <2>1, <2>2
  <1> QED BY <1>6, <1>7

\* The four addresses of an access are different.
LEMMA FourAddresses ==
    ASSUME NEW a \in Word, NEW i \in 0 .. 3, NEW j \in 0 .. 3, Add(a, i) = Add(a, j)
    PROVE  i = j
  <1>1. i \in Word /\ j \in Word
    BY WordSizes, SMT DEF Word
  <1>2. /\ Add(a, i) = IF a + i < WordSize THEN a + i ELSE a + i - WordSize
        /\ Add(a, j) = IF a + j < WordSize THEN a + j ELSE a + j - WordSize
    BY <1>1, AddCases
  <1>3. (IF a + i < WordSize THEN a + i ELSE a + i - WordSize) =
        (IF a + j < WordSize THEN a + j ELSE a + j - WordSize)
    BY <1>2, Zenon
  <1>4. /\ a \in Nat /\ a < WordSize /\ WordSize \in Nat /\ WordSize >= 16
        /\ i \in Nat /\ i <= 3 /\ j \in Nat /\ j <= 3
    BY WordSizes, SMT DEF Word
  <1> QED BY <1>3, <1>4, SMT

\* m with the low n bytes of w stored at a.
Stored(m, a, w, n) == Overwrite(m, StoredBytes(a, w, n))

\* No byte but the n at a has changed since m.
Kept(written, m, a, n) ==
    \A x : (\A i \in 0 .. n - 1 : x # Add(a, i)) => ByteAt(written, x) = ByteAt(m, x)

\* A store puts the bytes at their addresses and leaves all others alone.
LEMMA StoredByteAt ==
    ASSUME NEW m, NEW a \in Word, NEW w, NEW n \in {1, 2, 4}
    PROVE  /\ ByteAt(Stored(m, a, w, n), Add(a, 0)) = Byte0(w)
           /\ n >= 2 => ByteAt(Stored(m, a, w, n), Add(a, 1)) = Byte1(w)
           /\ n = 4 => /\ ByteAt(Stored(m, a, w, n), Add(a, 2)) = Byte2(w)
                       /\ ByteAt(Stored(m, a, w, n), Add(a, 3)) = Byte3(w)
           /\ Kept(Stored(m, a, w, n), m, a, n)
  <1> DEFINE b(x) == CASE x = a -> Byte0(w)
                       [] x = Add(a, 1) -> Byte1(w)
                       [] x = Add(a, 2) -> Byte2(w)
                       [] OTHER -> Byte3(w)
             D == {Add(a, i) : i \in 0 .. n - 1}
             written == Stored(m, a, w, n)
  <1>1. Add(a, 0) = a
    BY AddNothing
  <1>2. /\ a # Add(a, 1) /\ a # Add(a, 2) /\ a # Add(a, 3)
        /\ Add(a, 1) # Add(a, 2) /\ Add(a, 1) # Add(a, 3) /\ Add(a, 2) # Add(a, 3)
    <2>1. 0 \in 0 .. 3 /\ 1 \in 0 .. 3 /\ 2 \in 0 .. 3 /\ 3 \in 0 .. 3
      BY SMT
    <2>2. 0 # 1 /\ 0 # 2 /\ 0 # 3 /\ 1 # 2 /\ 1 # 3 /\ 2 # 3
      BY SMT
    <2> QED BY <1>1, <2>1, <2>2, FourAddresses
  <1>3. /\ b(a) = Byte0(w) \/ a = Add(a, 1) \/ a = Add(a, 2)
        /\ b(Add(a, 1)) = Byte1(w) \/ a = Add(a, 1) \/ Add(a, 1) = Add(a, 2)
        /\ b(Add(a, 2)) = Byte2(w) \/ a = Add(a, 2) \/ Add(a, 1) = Add(a, 2)
        /\ b(Add(a, 3)) = Byte3(w) \/ a = Add(a, 3) \/ Add(a, 1) = Add(a, 3) \/ Add(a, 2) = Add(a, 3)
    <2>1. b(a) = Byte0(w) \/ a = Add(a, 1) \/ a = Add(a, 2)
      BY Zenon
    <2>2. b(Add(a, 1)) = Byte1(w) \/ a = Add(a, 1) \/ Add(a, 1) = Add(a, 2)
      BY Zenon
    <2>3. b(Add(a, 2)) = Byte2(w) \/ a = Add(a, 2) \/ Add(a, 1) = Add(a, 2)
      BY Zenon
    <2>4. b(Add(a, 3)) = Byte3(w) \/ a = Add(a, 3) \/ Add(a, 1) = Add(a, 3) \/ Add(a, 2) = Add(a, 3)
      BY Zenon
    <2> QED BY <2>1, <2>2, <2>3, <2>4
  <1>4. StoredBytes(a, w, n) = [x \in D |-> b(x)]
    BY Zenon DEF StoredBytes
  <1> HIDE DEF b
  <1>5. \A x \in D : ByteAt(written, x) = b(x)
    BY <1>4 DEF Stored, Overwrite, ByteAt
  <1>6. \A x : x \notin D => ByteAt(written, x) = ByteAt(m, x)
    BY <1>4 DEF Stored, Overwrite, ByteAt
  <1>7. /\ Add(a, 0) \in D
        /\ n >= 2 => Add(a, 1) \in D
        /\ n = 4 => Add(a, 2) \in D /\ Add(a, 3) \in D
    <2>1. 0 \in 0 .. n - 1 /\ (n >= 2 => 1 \in 0 .. n - 1)
          /\ (n = 4 => 2 \in 0 .. n - 1 /\ 3 \in 0 .. n - 1)
      BY SMT
    <2> QED BY <2>1
  <1> HIDE DEF written
  <1>8. \A x : (\A i \in 0 .. n - 1 : x # Add(a, i)) => x \notin D
    OBVIOUS
  <1> HIDE DEF D
  <1> QED BY <1>1, <1>2, <1>3, <1>5, <1>6, <1>7, <1>8 DEF written, Kept

\* The number of bytes an access touches.
Bytes(f3) == CASE Size(f3) = SIZE_BYTE -> 1 [] Size(f3) = SIZE_HALF -> 2
               [] Size(f3) = SIZE_WORD -> 4 [] OTHER -> 0

\* A load returns what the last store of its width wrote to its address, extended as the
\* instruction says, wherever the access lies and also when it wraps around the end of
\* the address space; and a store changes no byte but its own (data_mem.sv).
THEOREM LoadReturnsStored ==
    ASSUME NEW m, NEW a \in Word, NEW w \in Word, NEW f3 \in Funct3
    PROVE  /\ MemRead(MemWrite(m, a, w, f3), a, f3) = LowPart(w, f3)
           /\ Kept(MemWrite(m, a, w, f3), m, a, Bytes(f3))
  <1> DEFINE written(n) == Stored(m, a, w, n)
             e == SignExt(f3)
  <1>1. e \in BOOLEAN /\ Byte0(w) \in Byte /\ Byte1(w) \in Byte
    BY ByteType DEF SignExt
  <1>2. \A n \in {1, 2, 4} :
            /\ ByteAt(written(n), Add(a, 0)) = Byte0(w)
            /\ n >= 2 => ByteAt(written(n), Add(a, 1)) = Byte1(w)
            /\ n = 4 => /\ ByteAt(written(n), Add(a, 2)) = Byte2(w)
                        /\ ByteAt(written(n), Add(a, 3)) = Byte3(w)
            /\ Kept(written(n), m, a, n)
    BY StoredByteAt
  <1>3. SIZE_BYTE # SIZE_HALF /\ SIZE_BYTE # SIZE_WORD /\ SIZE_HALF # SIZE_WORD
    BY DEF SIZE_BYTE, SIZE_HALF, SIZE_WORD
  <1> HIDE DEF written, e
  <1>4. CASE Size(f3) = SIZE_BYTE
    <2>1. MemWrite(m, a, w, f3) = written(1) /\ Bytes(f3) = 1
      BY <1>3, <1>4, Zenon DEF MemWrite, written, Stored, Bytes
    <2>2. MemRead(written(1), a, f3) =
              LET b == ByteAt(written(1), Add(a, 0))
              IN  WordOf(b, Filler(b, e), Filler(b, e), Filler(b, e))
      BY <1>3, <1>4, Zenon DEF MemRead, e
    <2>3. LowPart(w, f3) = Extended(w % ByteSize, ByteSize, e)
      BY <1>3, <1>4, Zenon DEF LowPart, e
    <2>4. MemRead(written(1), a, f3) = LowPart(w, f3)
      BY <1>1, <1>2, <2>2, <2>3, FillExtends, BytesOfWord
    <2> QED BY <1>2, <2>1, <2>4
  <1>5. CASE Size(f3) = SIZE_HALF
    <2>1. MemWrite(m, a, w, f3) = written(2) /\ Bytes(f3) = 2
      BY <1>3, <1>5, Zenon DEF MemWrite, written, Stored, Bytes
    <2>2. MemRead(written(2), a, f3) =
              LET b == ByteAt(written(2), Add(a, 1))
              IN  WordOf(ByteAt(written(2), Add(a, 0)), b, Filler(b, e), Filler(b, e))
      BY <1>3, <1>5, Zenon DEF MemRead, e
    <2>3. LowPart(w, f3) = Extended(w % (ByteSize * ByteSize), ByteSize * ByteSize, e)
      BY <1>3, <1>5, Zenon DEF LowPart, e
    <2>4. MemRead(written(2), a, f3) = LowPart(w, f3)
      BY <1>1, <1>2, <2>2, <2>3, FillExtends, BytesOfWord
    <2> QED BY <1>2, <2>1, <2>4
  <1>6. CASE Size(f3) = SIZE_WORD
    <2>1. MemWrite(m, a, w, f3) = written(4) /\ Bytes(f3) = 4
      BY <1>3, <1>6, Zenon DEF MemWrite, written, Stored, Bytes
    <2>2. MemRead(written(4), a, f3) =
              WordOf(ByteAt(written(4), Add(a, 0)), ByteAt(written(4), Add(a, 1)),
                     ByteAt(written(4), Add(a, 2)), ByteAt(written(4), Add(a, 3)))
      BY <1>3, <1>6, Zenon DEF MemRead
    <2>3. LowPart(w, f3) = w
      BY <1>3, <1>6, Zenon DEF LowPart
    <2>4. MemRead(written(4), a, f3) = LowPart(w, f3)
      BY <1>2, <2>2, <2>3, BytesOfWord
    <2> QED BY <1>2, <2>1, <2>4
  <1>7. CASE Size(f3) \notin {SIZE_BYTE, SIZE_HALF, SIZE_WORD}
    <2>1. MemWrite(m, a, w, f3) = m /\ MemRead(m, a, f3) = 0 /\ LowPart(w, f3) = 0
      BY <1>7, Zenon DEF MemWrite, MemRead, LowPart
    <2> QED BY <2>1 DEF Kept
  <1> QED BY <1>4, <1>5, <1>6, <1>7
-----------------------------------------------------------------------------
(* The decoder.                                                            *)

LEMMA ZeroTypes ==
    /\ 0 \in Word /\ 4 \in Word /\ 0 \in Reg
    /\ \A f3 \in Funct3 : ZeroControl(f3) \in Control
    /\ ZeroInstr \in Instr
    /\ Decode(ZeroInstr) = ZeroControl(0)
  <1>1. 0 \in Word /\ 4 \in Word /\ 0 \in Reg
    BY WordSizes, WidthAssumption, SMT DEF Word, Reg
  <1>2. \A f3 \in Funct3 : ZeroControl(f3) \in Control
    BY <1>1 DEF ZeroControl, Control, AluOp, AluIn1Sel, AluIn2Sel, MemMode,
                RfInSel, ALU_ADD
  <1>3. ZeroInstr \in Instr
    BY <1>1 DEF ZeroInstr, Instr, OpCode, Funct3
  <1>4. Decode(ZeroInstr) = ZeroControl(0)
    BY DEF Decode, ZeroInstr
  <1> QED BY <1>1, <1>2, <1>3, <1>4

LEMMA DecodeType ==
    ASSUME NEW i \in Instr
    PROVE  Decode(i) \in Control
  <1> DEFINE zero == ZeroControl(i.funct3)
  <1>1. zero \in Control
    BY ZeroTypes DEF Instr
  <1>2. i.rs1 \in Reg /\ i.rs2 \in Reg /\ i.rd \in Reg /\ i.imm \in Word
    BY DEF Instr
  <1>3. 8 * i.mod + i.funct3 \in AluOp /\ 8 * ImmModifier(i) + i.funct3 \in AluOp
    BY SMT DEF Instr, Funct3, AluOp, ImmModifier
  <1> HIDE DEF zero
  <1> QED BY <1>1, <1>2, <1>3, ZenonT(60) DEF Decode, zero, Control, AluIn1Sel, AluIn2Sel, MemMode, RfInSel
\* Only the jumps link, and they are unconditional branches.
LEMMA LinkIsJump ==
    ASSUME NEW i \in Instr, Decode(i).rf_in_sel = "PC_PLUS4"
    PROVE  Decode(i).nextpc_is_branch /\ ~Decode(i).is_cond
  BY DEF Decode, ZeroControl, Instr

-----------------------------------------------------------------------------
(* The type invariant.                                                     *)

LEMMA InstrAtType ==
    ASSUME TypeOK, NEW a \in Word
    PROVE  InstrAt(a) \in Instr
  <1>1. rom \in [DOMAIN rom -> Instr]
    BY DataPathAssumption DEF TypeOK
  <1> QED BY <1>1, ZeroTypes DEF InstrAt

LEMMA EmptyTypes ==
    /\ EmptyIfId \in IfId
    /\ EmptyIdEx \in IdEx
    /\ EmptyExMem \in ExMem
    /\ EmptyMemWb \in MemWb
    /\ IsMemory(EmptyMemory)
  <1>1. EmptyIfId \in IfId
    BY ZeroTypes DEF EmptyIfId, IfId
  <1>2. EmptyIdEx \in IdEx
    BY ZeroTypes DEF EmptyIdEx, IdEx, Funct3
  <1>3. EmptyExMem \in ExMem
    BY ZeroTypes DEF EmptyExMem, ExMem, Funct3, MemMode, RfInSel
  <1>4. EmptyMemWb \in MemWb
    BY ZeroTypes DEF EmptyMemWb, MemWb, RfInSel
  <1>5. IsMemory(EmptyMemory)
    BY DEF IsMemory, EmptyMemory
  <1> QED BY <1>1, <1>2, <1>3, <1>4, <1>5

\* Every combinational signal has its width.
LEMMA SignalTypes ==
    ASSUME TypeOK
    PROVE  /\ Fetched \in IfId
           /\ WriteData \in Word
           /\ Decoded \in IdEx
           /\ Rs1Forwarded \in Word /\ Rs2Forwarded \in Word
           /\ AluResult \in Word
           /\ NextPc \in Word /\ NextPc % 4 = 0
           /\ Executed \in ExMem
           /\ Accessed \in MemWb
           /\ IsMemory(NextMem)
  <1> USE DEF TypeOK
  <1>1. Fetched \in IfId
    BY NextAddress, InstrAtType DEF Fetched, IfId
  <1>2. WriteData \in Word
    BY DEF WriteData, MemWb
  <1>3. Decoded \in IdEx
    <2>1. \A r \in Reg : RegRead(r) \in Word
      BY <1>2, ZeroTypes DEF RegRead
    <2>2. Decode(if_id.instr) \in Control
      BY DecodeType DEF IfId
    <2> QED BY <2>1, <2>2 DEF Decoded, IdEx, IfId, Control
  <1>4. \A r, v : v \in Word => Forwarded(r, v) \in Word
    BY DEF Forwarded, ExMem, MemWb
  <1>5. Rs1Forwarded \in Word /\ Rs2Forwarded \in Word
    BY <1>4 DEF Rs1Forwarded, Rs2Forwarded, IdEx
  <1>6. AluResult \in Word
    BY <1>5, AluAssumption DEF AluResult, IdEx, Control
  <1>7. NextPc \in Word /\ NextPc % 4 = 0
    BY <1>1, <1>6, AlignType DEF NextPc, IfId
  <1>8. Executed \in ExMem
    BY <1>5, <1>6 DEF Executed, ExMem, IdEx, Control
  <1>9. Accessed \in MemWb
    <2>1. MemOut \in Word
      BY MemReadType, DataPathAssumption DEF MemOut, ExMem, MemWb
    <2> QED BY <2>1 DEF Accessed, MemWb, ExMem
  <1>10. IsMemory(NextMem)
    BY MemWriteType DEF NextMem, ExMem
  <1> QED BY <1>1, <1>2, <1>3, <1>5, <1>6, <1>7, <1>8, <1>9, <1>10

LEMMA WriteStateType ==
    ASSUME TypeOK, WriteState
    PROVE  /\ rom' \in Programs
           /\ registers' \in [Reg \ {0} -> Word]
           /\ IsMemory(mem)'
  <1>1. rom' \in Programs
    BY DEF TypeOK, WriteState
  <1>2. registers' \in [Reg \ {0} -> Word]
    BY SignalTypes DEF TypeOK, WriteState
  <1>3. IsMemory(mem')
    BY SignalTypes DEF TypeOK, WriteState
  <1> QED BY <1>1, <1>2, <1>3

LEMMA TypeInit == Init => TypeOK
  BY EmptyTypes, ZeroTypes, DataPathAssumption DEF Init, TypeOK

LEMMA TypeNext == TypeOK /\ [Next]_vars => TypeOK'
  <1> SUFFICES ASSUME TypeOK, [Next]_vars PROVE TypeOK'
    OBVIOUS
  <1>1. CASE Run
    <2>1. pc' \in Word
      BY <1>1, SignalTypes DEF Run, PcAfter, TypeOK
    <2>2. if_id' \in IfId
      BY <1>1, SignalTypes, EmptyTypes DEF Run, TypeOK
    <2>3. id_ex' \in IdEx /\ ex_mem' \in ExMem /\ mem_wb' \in MemWb
      BY <1>1, SignalTypes, EmptyTypes DEF Run
    <2> QED BY <1>1, <2>1, <2>2, <2>3, WriteStateType DEF Run, TypeOK
  <1>2. CASE Reset
    BY <1>2, ZeroTypes, EmptyTypes, WriteStateType DEF Reset, TypeOK
  <1>3. CASE UNCHANGED vars
    BY <1>3 DEF vars, TypeOK, IsMemory
  <1> QED BY <1>1, <1>2, <1>3 DEF Next

\* Every register of the data path keeps its width, whatever program runs and
\* whenever rst is raised (data_path.sv).
THEOREM TypeCorrect == Spec => []TypeOK
  <1> QED BY TypeInit, TypeNext, PTL DEF Spec
-----------------------------------------------------------------------------
(* The inductive invariant.                                                *)

\* A clock edge moves a stage on, empties it or, for if_id, holds it.
LEMMA RunStages ==
    ASSUME TypeOK, Run
    PROVE  /\ BranchTaken => if_id' = EmptyIfId /\ id_ex' = EmptyIdEx
           /\ ~Signals.pc_we => /\ ~BranchTaken
                                /\ pc' = pc /\ if_id' = if_id /\ id_ex' = EmptyIdEx
           /\ Signals.pc_we => pc' = NextPc
           /\ Signals.pc_we /\ ~BranchTaken => if_id' = Fetched /\ id_ex' = Decoded
           /\ id_ex' \in {EmptyIdEx, Decoded}
  BY DEF Run, PcAfter, Signals, HazardSignals

LEMMA EmptyInvalid ==
    /\ ~Valid(EmptyIfId) /\ ~Valid(EmptyIdEx)
    /\ EmptyIdEx.ctl = ZeroControl(0)
    /\ EmptyIdEx.rs1_val = 0 /\ EmptyIdEx.rs2_val = 0
    /\ EmptyIfId.instr = ZeroInstr
  BY DEF Valid, EmptyIfId, EmptyIdEx

LEMMA ZeroControlFields ==
    /\ ZeroControl(0).rs1 = 0 /\ ZeroControl(0).rs2 = 0 /\ ZeroControl(0).rd = 0
    /\ ZeroControl(0).rf_in_sel = "ALU_OUT" /\ ZeroControl(0).mem_mode = "MEM_READ"
  BY DEF ZeroControl

\* What decode passes on is valid when what it got is.
LEMMA DecodedFields ==
    /\ Valid(Decoded) <=> Valid(if_id)
    /\ Decoded.pc = if_id.pc /\ Decoded.pcplus4 = if_id.pcplus4
    /\ Decoded.ctl = Decode(if_id.instr)
    /\ Decoded.rs1_val = RegRead(Decode(if_id.instr).rs1)
    /\ Decoded.rs2_val = RegRead(Decode(if_id.instr).rs2)
  BY DEF Decoded, Valid

LEMMA IInvInit == Init => IInv
  <1> SUFFICES ASSUME Init PROVE IInv
    OBVIOUS
  <1>1. TypeOK
    BY TypeInit
  <1>2. ~Valid(if_id) /\ ~Valid(id_ex) /\ if_id = EmptyIfId /\ id_ex = EmptyIdEx
    BY EmptyInvalid DEF Init
  <1>3. pc % 4 = 0
    BY SMT DEF Init
  <1>4. id_ex.ctl.rs1 = 0 /\ id_ex.ctl.rs2 = 0
    BY <1>2, EmptyInvalid, ZeroControlFields
  <1>5. OperandsAsRead
    BY <1>2, <1>4, EmptyInvalid DEF OperandsAsRead, RegVal
  <1> QED
    BY <1>1, <1>2, <1>3, <1>4, <1>5
    DEF IInv, BubblesAreEmpty, PcAligned, StagesInProgramOrder, LinkLeavesBubbles,
        UnforwardableNeverNeeded, PcPlus4Carried, StoreWritesNoRegister, Init,
        EmptyExMem

\* A register read in decode is what the register file holds after the edge:
\* the word being written back is already seen.
LEMMA ReadIsNextValue ==
    ASSUME TypeOK, WriteState, NEW r \in Reg
    PROVE  RegRead(r) = RegVal(r)'
  BY DEF RegRead, RegVal, WriteState, TypeOK

LEMMA OperandsRun ==
    ASSUME IInv, Run
    PROVE  OperandsAsRead'
  <1>1. CASE id_ex' = EmptyIdEx
    BY <1>1, EmptyInvalid, ZeroControlFields DEF OperandsAsRead, RegVal
  <1>2. CASE id_ex' = Decoded
    <2>1. Decode(if_id.instr) \in Control
      BY DecodeType DEF IInv, TypeOK, IfId
    <2>2. Decode(if_id.instr).rs1 \in Reg /\ Decode(if_id.instr).rs2 \in Reg
      BY <2>1 DEF Control
    <2> QED BY <1>2, <2>2, DecodedFields, ReadIsNextValue DEF OperandsAsRead, Run, IInv
  <1> QED BY <1>1, <1>2, RunStages DEF IInv
LEMMA StagesRun ==
    ASSUME IInv, Run
    PROVE  StagesInProgramOrder' /\ BubblesAreEmpty' /\ PcAligned'
  <1> USE DEF IInv
  <1>1. \A a : InstrAt(a)' = InstrAt(a)
    BY DEF Run, WriteState, InstrAt
  <1>2. CASE BranchTaken
    <2>1. if_id' = EmptyIfId /\ id_ex' = EmptyIdEx /\ pc' = NextPc
      BY <1>2, RunStages
    <2> QED
      BY <2>1, EmptyInvalid, SignalTypes
      DEF StagesInProgramOrder, BubblesAreEmpty, PcAligned, Valid
  <1>3. CASE ~Signals.pc_we
    <2>1. pc' = pc /\ if_id' = if_id /\ id_ex' = EmptyIdEx
      BY <1>3, RunStages
    <2> QED
      BY <1>1, <2>1, EmptyInvalid
      DEF StagesInProgramOrder, BubblesAreEmpty, PcAligned, Valid
  <1>4. CASE Signals.pc_we /\ ~BranchTaken
    <2>1. if_id' = Fetched /\ id_ex' = Decoded /\ pc' = NextPc
      BY <1>4, RunStages
    <2>2. /\ Fetched.pc = pc /\ Fetched.pcplus4 = Add(pc, 4)
          /\ Fetched.instr = InstrAt(pc) /\ Valid(Fetched)
      BY NextAddress DEF Fetched, Valid, TypeOK
    <2>3. NextPc = Add(pc, 4)
      BY <1>4, <2>2, NextAddress DEF NextPc, PcAligned, TypeOK
    <2>4. Valid(if_id)' /\ if_id'.instr = InstrAt(if_id.pc)' /\ pc' = if_id'.pcplus4
      BY <1>1, <2>1, <2>2, <2>3 DEF Valid
    <2>5. Valid(id_ex)' => /\ id_ex'.ctl = Decode(InstrAt(id_ex.pc)')
                           /\ if_id'.pc = id_ex'.pcplus4
      BY <1>1, <2>1, <2>2, DecodedFields DEF Valid, StagesInProgramOrder
    <2>6. ~Valid(id_ex)' => id_ex' = EmptyIdEx
      <3> SUFFICES ASSUME ~Valid(Decoded) PROVE Decoded = EmptyIdEx
        BY <2>1 DEF Valid
      <3>1. if_id = EmptyIfId
        BY DecodedFields DEF BubblesAreEmpty
      <3>2. Decode(if_id.instr) = ZeroControl(0)
        BY <3>1, EmptyInvalid, ZeroTypes
      <3>3. RegRead(0) = 0
        BY DEF RegRead
      <3> QED BY <3>1, <3>2, <3>3, ZeroControlFields
              DEF Decoded, EmptyIfId, EmptyIdEx
    <2>7. pc' % 4 = 0
      BY <2>1, SignalTypes
    <2> QED BY <2>4, <2>5, <2>6, <2>7
            DEF StagesInProgramOrder, BubblesAreEmpty, PcAligned, Valid
  <1> QED BY <1>2, <1>3, <1>4, RunStages

\* When execute holds a linking instruction the branch is taken.
LEMMA LinkTaken ==
    ASSUME IInv, id_ex.ctl.rf_in_sel = "PC_PLUS4"
    PROVE  BranchTaken
  <1>1. Valid(id_ex)
    BY EmptyInvalid, ZeroControlFields DEF IInv, BubblesAreEmpty
  <1>2. InstrAt(id_ex.pc) \in Instr /\ id_ex.ctl = Decode(InstrAt(id_ex.pc))
    BY <1>1, InstrAtType DEF IInv, StagesInProgramOrder, TypeOK, IdEx
  <1> QED BY <1>2, LinkIsJump DEF BranchTaken

LEMMA LinkRun ==
    ASSUME IInv, Run
    PROVE  LinkLeavesBubbles'
  <1> SUFFICES ASSUME ex_mem'.rf_in_sel = "PC_PLUS4"
               PROVE  ~Valid(id_ex)' /\ ~Valid(if_id)'
    BY DEF LinkLeavesBubbles
  <1>1. id_ex.ctl.rf_in_sel = "PC_PLUS4"
    BY DEF Run, Executed
  <1>2. if_id' = EmptyIfId /\ id_ex' = EmptyIdEx
    BY <1>1, LinkTaken, RunStages DEF IInv
  <1> QED BY <1>2, EmptyInvalid DEF Valid

\* An instruction enters execute only when what it reads can be forwarded.
LEMMA UnforwardableRun ==
    ASSUME IInv, Run
    PROVE  UnforwardableNeverNeeded'
  <1>1. CASE id_ex' = EmptyIdEx
    BY <1>1, EmptyInvalid, ZeroControlFields DEF UnforwardableNeverNeeded
  <1>2. CASE Signals.pc_we /\ ~BranchTaken
    <2> DEFINE ctl == Decode(if_id.instr)
    <2>1. id_ex'.ctl = ctl
      BY <1>2, RunStages, DecodedFields DEF IInv
    <2>2. ~LoadUse(ctl.rs1, ctl.rs2, id_ex.ctl.rd, id_ex.ctl.rf_in_sel)
      BY <1>2 DEF Signals, HazardSignals
    <2>3. ex_mem'.rd = id_ex.ctl.rd /\ ex_mem'.rf_in_sel = id_ex.ctl.rf_in_sel
      BY DEF Run, Executed
    <2>4. mem_wb'.rf_in_sel = ex_mem.rf_in_sel
      BY DEF Run, Accessed
    <2>5. id_ex.ctl.rf_in_sel # "PC_PLUS4"
      BY <1>2, LinkTaken
    <2>6. id_ex.ctl.rf_in_sel \in RfInSel
      BY DEF IInv, TypeOK, IdEx, Control
    <2>7. ASSUME NEW rs \in {ctl.rs1, ctl.rs2} \ {0}
          PROVE  ~(rs = ex_mem'.rd /\ ex_mem'.rf_in_sel # "ALU_OUT")
      BY <2>2, <2>3, <2>5, <2>6 DEF LoadUse, RfInSel
    <2>8. ASSUME NEW rs \in {ctl.rs1, ctl.rs2} \ {0}
          PROVE  mem_wb'.rf_in_sel # "PC_PLUS4"
      <3> SUFFICES ASSUME ex_mem.rf_in_sel = "PC_PLUS4" PROVE FALSE
        BY <2>4
      <3>1. if_id = EmptyIfId
        BY DEF IInv, LinkLeavesBubbles, BubblesAreEmpty
      <3> QED BY <3>1, EmptyInvalid, ZeroTypes, ZeroControlFields
    <2> QED BY <2>1, <2>7, <2>8 DEF UnforwardableNeverNeeded, Unforwardable
  <1> QED BY <1>1, <1>2, RunStages DEF IInv

LEMMA PcPlus4Run ==
    ASSUME IInv, Run
    PROVE  PcPlus4Carried'
  <1> USE DEF IInv
  <1>1. CASE BranchTaken
    BY <1>1, RunStages, EmptyInvalid DEF PcPlus4Carried, Valid
  <1>2. CASE ~Signals.pc_we
    BY <1>2, RunStages, EmptyInvalid DEF PcPlus4Carried, Valid
  <1>3. CASE Signals.pc_we /\ ~BranchTaken
    BY <1>3, RunStages, DecodedFields DEF PcPlus4Carried, Valid, Fetched, PcAligned
  <1> QED BY <1>1, <1>2, <1>3, RunStages

\* A store's destination is x0.
LEMMA StoreHasNoRd ==
    ASSUME NEW i \in Instr, Decode(i).mem_mode = "MEM_WRITE"
    PROVE  Decode(i).rd = 0
  BY DEF Decode, ZeroControl, Instr

LEMMA StoreRun ==
    ASSUME IInv, Run
    PROVE  StoreWritesNoRegister'
  <1> SUFFICES ASSUME id_ex.ctl.mem_mode = "MEM_WRITE" PROVE id_ex.ctl.rd = 0
    BY DEF StoreWritesNoRegister, Run, Executed
  <1>1. Valid(id_ex)
    BY EmptyInvalid, ZeroControlFields DEF IInv, BubblesAreEmpty
  <1>2. InstrAt(id_ex.pc) \in Instr /\ id_ex.ctl = Decode(InstrAt(id_ex.pc))
    BY <1>1, InstrAtType DEF IInv, StagesInProgramOrder, TypeOK, IdEx
  <1> QED BY <1>2, StoreHasNoRd

LEMMA IInvNext == IInv /\ [Next]_vars => IInv'
  <1> SUFFICES ASSUME IInv, [Next]_vars PROVE IInv'
    OBVIOUS
  <1>0. TypeOK'
    BY TypeNext DEF IInv
  <1>1. CASE Run
    BY <1>0, <1>1, StagesRun, OperandsRun, LinkRun, UnforwardableRun, PcPlus4Run,
       StoreRun DEF IInv
  <1>2. CASE Reset
    <2>1. pc' = 0 /\ if_id' = EmptyIfId /\ id_ex' = EmptyIdEx
      BY <1>2 DEF Reset
    <2>2. /\ StagesInProgramOrder' /\ BubblesAreEmpty' /\ LinkLeavesBubbles'
          /\ PcPlus4Carried'
      BY <2>1, EmptyInvalid
      DEF StagesInProgramOrder, BubblesAreEmpty, LinkLeavesBubbles, PcPlus4Carried,
          Valid
    <2>3. PcAligned'
      BY <2>1, SMT DEF PcAligned
    <2>4. OperandsAsRead' /\ UnforwardableNeverNeeded'
      BY <2>1, EmptyInvalid, ZeroControlFields
      DEF OperandsAsRead, RegVal, UnforwardableNeverNeeded
    <2>5. StoreWritesNoRegister'
      BY <1>2 DEF Reset, StoreWritesNoRegister, EmptyExMem
    <2> QED BY <1>0, <2>2, <2>3, <2>4, <2>5 DEF IInv
  <1>3. CASE UNCHANGED vars
    BY <1>0, <1>3
    DEF vars, IInv, BubblesAreEmpty, PcAligned, StagesInProgramOrder, Valid, InstrAt,
        OperandsAsRead, RegVal, LinkLeavesBubbles, UnforwardableNeverNeeded,
        Unforwardable, PcPlus4Carried, StoreWritesNoRegister
  <1> QED BY <1>1, <1>2, <1>3 DEF Next
\* The strengthened invariant holds of every reachable state (data_path.sv).
THEOREM InvariantHolds == Spec => []IInv
  <1> QED BY IInvInit, IInvNext, PTL DEF Spec

-----------------------------------------------------------------------------
(* What the invariant gives.                                               *)

\* An operand is what the register holds in program order: the forwarding unit
\* picks the newest value in flight, and where it picks none there is none.
LEMMA ForwardedIsCurrent ==
    ASSUME IInv, NEW rs \in {id_ex.ctl.rs1, id_ex.ctl.rs2}
    PROVE  Forwarded(rs, RegVal(rs)) = ArchVal(rs)
  <1>1. rs \in Reg /\ ex_mem.rf_in_sel \in RfInSel /\ mem_wb.rf_in_sel \in RfInSel
    BY DEF IInv, TypeOK, IdEx, Control, ExMem, MemWb
  <1> DEFINE source == GetForward(rs, ex_mem.rd, ex_mem.rf_in_sel,
                                      mem_wb.rd, mem_wb.rf_in_sel)
  <1>2. CASE rs = 0
    <2>1. source = "NONE"
      BY <1>2 DEF GetForward
    <2> QED BY <1>2, <2>1 DEF Forwarded, RegVal, ArchVal
  <1>3. CASE rs # 0
    <2>1. ~Unforwardable(rs)
      BY <1>3 DEF IInv, UnforwardableNeverNeeded
    <2>2. ArchVal(rs) = ArchRegs[rs] /\ RegVal(rs) = registers[rs]
      BY <1>3 DEF ArchVal, RegVal
    <2>3. CASE rs = ex_mem.rd
      <3>1. ex_mem.rf_in_sel = "ALU_OUT"
        BY <2>1, <2>3 DEF Unforwardable
      <3>2. source = "ALU_OUT_MEM"
        BY <1>3, <2>3, <3>1 DEF GetForward
      <3>3. ArchRegs[rs] = ex_mem.alu_out
        BY <1>1, <1>3, <2>3, <3>1 DEF ArchRegs, ExMemValue
      <3> QED BY <2>2, <3>2, <3>3 DEF Forwarded
    <2>4. CASE rs # ex_mem.rd /\ rs = mem_wb.rd
      <3>1. ArchRegs[rs] = WriteData
        BY <1>1, <1>3, <2>4 DEF ArchRegs
      <3>2. mem_wb.rf_in_sel \in {"ALU_OUT", "MEM_OUT"}
        BY <1>1, <2>1, <2>4 DEF Unforwardable, RfInSel
      <3>3. CASE mem_wb.rf_in_sel = "ALU_OUT"
        <4>1. source = "ALU_OUT_WB"
          BY <1>3, <2>4, <3>3 DEF GetForward
        <4> QED BY <2>2, <3>1, <3>3, <4>1 DEF Forwarded, WriteData
      <3>4. CASE mem_wb.rf_in_sel = "MEM_OUT"
        <4>1. source = "MEM_OUT_WB"
          BY <1>3, <2>4, <3>4 DEF GetForward
        <4> QED BY <2>2, <3>1, <3>4, <4>1 DEF Forwarded, WriteData
      <3> QED BY <3>2, <3>3, <3>4
    <2>5. CASE rs # ex_mem.rd /\ rs # mem_wb.rd
      <3>1. source = "NONE"
        BY <2>5 DEF GetForward
      <3>2. ArchRegs[rs] = registers[rs]
        BY <1>1, <1>3, <2>5 DEF ArchRegs
      <3> QED BY <2>2, <3>1, <3>2 DEF Forwarded
    <2> QED BY <2>3, <2>4, <2>5
  <1> QED BY <1>2, <1>3

LEMMA IInvForwards == IInv => ForwardedOperandsCurrent
  BY ForwardedIsCurrent
  DEF IInv, OperandsAsRead, ForwardedOperandsCurrent, Rs1Forwarded, Rs2Forwarded

\* Every operand the execute stage uses is the register's value in program
\* order (forwarding.sv, hazard.sv, regfile.sv).
THEOREM OperandsCorrect == Spec => []ForwardedOperandsCurrent
  <1> QED BY InvariantHolds, IInvForwards, PTL

\* No instruction in execute reads a register whose newest value cannot be
\* forwarded to it (forwarding.sv, hazard.sv).
THEOREM NeverUnforwardable == Spec => []UnforwardableNeverNeeded
  <1>1. IInv => UnforwardableNeverNeeded
    BY DEF IInv
  <1> QED BY <1>1, InvariantHolds, PTL

\* Fetch, decode and execute follow the program (data_path.sv, pc.sv).
THEOREM ProgramOrder == Spec => []StagesInProgramOrder
  <1>1. IInv => StagesInProgramOrder
    BY DEF IInv
  <1> QED BY <1>1, InvariantHolds, PTL

\* A stall is over after one edge (hazard.sv).
THEOREM OneCycleStall == Spec => StallIsOneCycle
  <1>1. ASSUME IInv, [Next]_vars, ~(UNCHANGED vars), ~Signals.pc_we
        PROVE  Signals.pc_we'
    <2>1. id_ex' = EmptyIdEx
      BY <1>1, RunStages DEF IInv, Next, Reset
    <2>2. id_ex'.ctl.rf_in_sel = "ALU_OUT"
      BY <2>1, EmptyInvalid, ZeroControlFields
    <2> QED BY <2>2 DEF Signals, HazardSignals, LoadUse
  <1>2. IInv /\ [Next]_vars => [~Signals.pc_we => Signals.pc_we']_vars
    BY <1>1
  <1> QED BY <1>2, InvariantHolds, PTL DEF Spec, StallIsOneCycle

\* No program makes the pipeline execute more than two bubbles in a row
\* (hazard.sv, data_path.sv).
THEOREM BubblesBounded == Spec => BubblesDrain
  <1>1. ASSUME IInv, Run, ~Valid(id_ex)
        PROVE  /\ Valid(if_id)' /\ if_id'.pc = pc
               /\ Valid(if_id) => Valid(id_ex)' /\ id_ex'.pc = if_id.pc
    <2>1. id_ex.ctl = ZeroControl(0)
      BY <1>1, EmptyInvalid DEF IInv, BubblesAreEmpty
    <2>2. ~BranchTaken
      BY <2>1 DEF BranchTaken, ZeroControl
    <2>3. Signals.pc_we
      BY <2>1, ZeroControlFields DEF Signals, HazardSignals, LoadUse
    <2>4. if_id' = Fetched /\ id_ex' = Decoded
      BY <1>1, <2>2, <2>3, RunStages DEF IInv
    <2>5. Valid(Fetched) /\ Fetched.pc = pc
      BY <1>1, NextAddress DEF Fetched, Valid, IInv, TypeOK
    <2> QED BY <2>4, <2>5, DecodedFields DEF Valid
  <1>2. IInv /\ [Next]_vars =>
            [Run /\ ~Valid(id_ex) =>
                 /\ Valid(if_id)' /\ if_id'.pc = pc
                 /\ Valid(if_id) => Valid(id_ex)' /\ id_ex'.pc = if_id.pc]_vars
    BY <1>1
  <1> QED BY <1>2, InvariantHolds, PTL DEF Spec, BubblesDrain

=============================================================================
