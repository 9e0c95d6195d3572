----------------------------- MODULE PointDecode -----------------------------
(***************************************************************************)
(* How a collector turns an answer of the device into the values of points: *)
(* parseAndUpdate and applyGlobalByteOrder of internal/collector/           *)
(* collector.go.  A byte is a number of ByteBits bits; floating point is    *)
(* not interpreted, a Float32 or Double is its bits.                        *)
(***************************************************************************)
EXTENDS PointConfig, Sequences

ByteOrder == {"ABCD", "DCBA", "CDAB", "BADC"}

\* 2^n, and the number with these digits, the most significant first.
TwoTo[n \in Nat] == IF n = 0 THEN 1 ELSE 2 * TwoTo[n - 1]

Number(base, digits) ==
    LET upTo[n \in 0..Len(digits)] == IF n = 0 THEN 0 ELSE base * upTo[n - 1] + digits[n]
    IN  upTo[Len(digits)]

\* res[i] = data[Source(order, n)[i]], of an answer of n bytes.  A register by
\* itself is always sent high byte first.
\* Mutant: the words of a Double are all reversed.
SourceAcrossWords(order, n) ==
    CASE order = "CDAB" /\ n = 8 -> <<7, 8, 5, 6, 3, 4, 1, 2>>
      [] OTHER -> [i \in 1..n |-> i]
Source(order, n) ==
    CASE n = 2 \/ order = "ABCD" -> [i \in 1..n |-> i]
      [] n # 2 /\ order = "DCBA" -> [i \in 1..n |-> n + 1 - i]
      [] n # 2 /\ order = "CDAB" -> [i \in 1..n |-> IF i % 4 \in {1, 2} THEN i + 2 ELSE i - 2]
      [] n # 2 /\ order = "BADC" -> [i \in 1..n |-> IF i % 2 = 1 THEN i + 1 ELSE i - 1]

ApplyGlobalByteOrder(order, data) ==
    [i \in 1..Len(data) |-> data[Source(order, Len(data))[i]]]

BigEndian(bytes) == Number(TwoTo[ByteBits], bytes)

\* The width taken: a bit, the given length, or all of the value.
FieldLen(pt) == IF EffectiveLen(pt) = 0 THEN TypeBitWidth(pt.type) ELSE EffectiveLen(pt)

Extracted(pt, raw) == (raw \div TwoTo[pt.off]) % TwoTo[FieldLen(pt)]

\* A field is signed when it is as wide as its type.
\* Mutant: every field of a signed type is signed.
AlwaysSigned(pt) == pt.type \in {"Int16", "Int32"}
Signed(pt) == pt.type \in {"Int16", "Int32"} /\ FieldLen(pt) = TypeBitWidth(pt.type)

TwosComplement(n, bits) == IF n >= TwoTo[bits - 1] THEN n - TwoTo[bits] ELSE n

Convert(pt, n) ==
    CASE pt.type = "Bool" -> <<"bool", n = 1>>
      [] pt.type \in {"Float32", "Double"} -> <<"float", n>>
      [] Signed(pt) -> <<"number", TwosComplement(n, FieldLen(pt))>>
      [] OTHER -> <<"number", n>>

Value == ({"bool"} \X BOOLEAN) \cup ({"float", "number"} \X Int)

\* Where a point is in the answer to a read from start: a bit, or bytes.
ByteOffset(pt, start) == (pt.addr - start) * 2

BitByte(pt, start) == (pt.addr - start) \div ByteBits

\* An answer may be shorter than asked for; the points beyond it are passed over.
Fits(pt, start, raw) ==
    IF IsRegTypeBit(pt.reg) THEN BitByte(pt, start) < Len(raw)
    ELSE ByteOffset(pt, start) + 2 * GetRegisterCount(pt) <= Len(raw)

DecodeBit(pt, start, raw) ==
    LET byte == raw[BitByte(pt, start) + 1]
        bit == (pt.addr - start) % ByteBits
    IN  <<"bool", (byte \div TwoTo[bit]) % 2 = 1>>

DecodeRegisters(pt, start, raw, order) ==
    LET from == ByteOffset(pt, start)
        data == SubSeq(raw, from + 1, from + 2 * GetRegisterCount(pt))
    IN  Convert(pt, Extracted(pt, BigEndian(ApplyGlobalByteOrder(order, data))))

Decode(pt, start, raw, order) ==
    IF IsRegTypeBit(pt.reg) THEN DecodeBit(pt, start, raw)
    ELSE DecodeRegisters(pt, start, raw, order)

----------------------------------------------------------------------------
(* The reference: what the registers at a point's own address mean, by the   *)
(* letters of the byte order (docs/AI_DEV.md, section 8).  A is the most     *)
(* significant byte, and the letters name the bytes in the order they are    *)
(* sent; of a Double, each pair of words is a group of its own.              *)

Letters(order, n) ==
    CASE n = 2 \/ order = "ABCD" -> [k \in 1..n |-> k]
      [] n = 4 /\ order = "DCBA" -> <<4, 3, 2, 1>>
      [] n = 4 /\ order = "CDAB" -> <<3, 4, 1, 2>>
      [] n = 4 /\ order = "BADC" -> <<2, 1, 4, 3>>
      [] n = 8 /\ order = "DCBA" -> <<8, 7, 6, 5, 4, 3, 2, 1>>
      [] n = 8 /\ order = "CDAB" -> <<3, 4, 1, 2, 7, 8, 5, 6>>
      [] n = 8 /\ order = "BADC" -> <<2, 1, 4, 3, 6, 5, 8, 7>>

\* The byte at place k, counted from 1, of the registers from addr on.
ByteAt(memory, addr, k) ==
    LET register == memory[addr + (k - 1) \div 2]
    IN  IF k % 2 = 1 THEN register \div TwoTo[ByteBits] ELSE register % TwoTo[ByteBits]

PlaceOf(letter, order, n) == CHOOSE k \in 1..n : Letters(order, n)[k] = letter

\* Bit b of a value, of which the byte of letter 1 is the most significant.
BitOf(memory, addr, n, order, b) ==
    LET byte == ByteAt(memory, addr, PlaceOf(n - b \div ByteBits, order, n))
    IN  (byte \div TwoTo[b % ByteBits]) % 2

Meaning(pt, memory, order) ==
    LET n     == 2 * GetRegisterCount(pt)
        width == FieldLen(pt)
        bit   == [i \in 0 .. width - 1 |-> BitOf(memory, pt.addr, n, order, pt.off + i)]
        sum   == Number(2, [i \in 1..width |-> bit[width - i]])
        whole == width = TypeBitWidth(pt.type)
    IN  IF IsRegTypeBit(pt.reg) THEN <<"bool", memory[pt.addr] % 2 = 1>>
        ELSE CASE pt.type = "Bool" -> <<"bool", bit[0] = 1>>
               [] pt.type \in {"Float32", "Double"} -> <<"float", sum>>
               [] pt.type \in {"Int16", "Int32"} /\ whole /\ bit[width - 1] = 1 ->
                      <<"number", sum - TwoTo[width]>>
               [] OTHER -> <<"number", sum>>

==============================================================================
