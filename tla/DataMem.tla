------------------------------- MODULE DataMem -------------------------------
(***************************************************************************)
(* The byte-addressed data memory (src/rtl/v1/data_mem.sv).  A memory is a *)
(* partial function from addresses to bytes: the associative array of the  *)
(* source, whose unmapped entries read as zero.                            *)
(*                                                                         *)
(* size and sign_ext are computed from a funct3.  In the source they are   *)
(* variables with a declaration initialiser, so that funct3 is the one the *)
(* port carries at time zero and not the one of the instruction (see       *)
(* Funct3AtInit in DataPath); the operators take it as a parameter.        *)
(***************************************************************************)
EXTENDS Encodings

IsMemory(m) == DOMAIN m \subseteq Word /\ m \in [DOMAIN m -> Byte]

EmptyMemory == [a \in {} |-> 0]

Size(funct3) == funct3 % 4
SignExt(funct3) == funct3 < 4

ByteAt(mem, a) == IF a \in DOMAIN mem THEN mem[a] ELSE 0

\* Little endian: the word of four bytes, and the bytes of a word.
WordOf(b0, b1, b2, b3) ==
    b0 + ByteSize * (b1 + ByteSize * (b2 + ByteSize * b3))
Byte0(w) == w % ByteSize
Byte1(w) == (w \div ByteSize) % ByteSize
Byte2(w) == (w \div (ByteSize * ByteSize)) % ByteSize
Byte3(w) == (w \div (ByteSize * ByteSize * ByteSize)) % ByteSize

\* {n{top bit of b}}: a byte of ones when b is negative and extension is on.
Filler(b, sign_ext) ==
    IF sign_ext /\ 2 * b >= ByteSize THEN ByteSize - 1 ELSE 0

MemRead(mem, addr, funct3) ==
    LET b(i) == ByteAt(mem, Add(addr, i))
        fill(i) == Filler(b(i), SignExt(funct3))
    IN  CASE Size(funct3) = SIZE_BYTE -> WordOf(b(0), fill(0), fill(0), fill(0))
          [] Size(funct3) = SIZE_HALF -> WordOf(b(0), b(1), fill(1), fill(1))
          [] Size(funct3) = SIZE_WORD -> WordOf(b(0), b(1), b(2), b(3))
          [] OTHER -> 0

\* mem with the entries of the function bytes added or overwritten.
Overwrite(mem, bytes) ==
    [a \in DOMAIN mem \cup DOMAIN bytes |->
        IF a \in DOMAIN bytes THEN bytes[a] ELSE mem[a]]

\* The bytes a store of width n (1, 2 or 4) writes at addr.
StoredBytes(addr, data, n) ==
    [a \in {Add(addr, i) : i \in 0 .. n - 1} |->
        CASE a = addr -> Byte0(data)
          [] a = Add(addr, 1) -> Byte1(data)
          [] a = Add(addr, 2) -> Byte2(data)
          [] OTHER -> Byte3(data)]

MemWrite(mem, addr, data, funct3) ==
    CASE Size(funct3) = SIZE_BYTE -> Overwrite(mem, StoredBytes(addr, data, 1))
      [] Size(funct3) = SIZE_HALF -> Overwrite(mem, StoredBytes(addr, data, 2))
      [] Size(funct3) = SIZE_WORD -> Overwrite(mem, StoredBytes(addr, data, 4))
      [] OTHER -> mem
=============================================================================
