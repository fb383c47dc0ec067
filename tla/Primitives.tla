----------------------------- MODULE Primitives -----------------------------
(***************************************************************************)
(* What the binary writers and readers of the SDK are made of: the values  *)
(* of PBinaryWriter and PBinaryReader (types/extensions), and those of     *)
(* CarbonBinaryWriter and CarbonBinaryReader (carbon-serialization.ts)     *)
(* that hold no other values.                                              *)
(*                                                                         *)
(* A value is written as bytes.  A reader takes the bytes that are left    *)
(* and gives the value and the bytes after it, or throws.  No type is on   *)
(* the wire: a value is read by the method its writer has in mind, and an  *)
(* item here is a value with that method, [t |-> type, v |-> value].       *)
(***************************************************************************)
EXTENDS Numbers, SequencesExt

CONSTANT LengthSize   \* bytes of a Carbon length, 4

\* The length of a word fits in a header byte beside the sign.
ASSUME PrimitivesAssumption ==
    LengthSize \in Nat \ {0} /\ Base >= 8 /\ WordSize < Base \div 2

Got(v, rest) == [v |-> v, rest |-> rest]

\* What is read and written: numbers, bytes, and the records and sequences of them.  An item
\* is written by the method it names.
Signature == [kind : Nat, bytes : Seq(Byte)]
Item == [t : {"int"}, size : Nat \ {0}, v : Int] \cup [t : {"compact"}, v : Int]
        \cup [t : {"sz", "array"}, v : Seq(Byte)]
Readable == Int \cup Seq(Byte) \cup Signature \cup Seq(Signature) \cup Item \cup Seq(Item)

\* A throw is nothing that a reader gives, and no number that is ready to be written.
ASSUME ThrownIsNoResult ==
    /\ Thrown \notin [v : Readable, rest : Seq(Byte)]
    /\ Thrown \notin [header : [length : Nat, negative : BOOLEAN], payload : Seq(Byte)]

\* The low bytes of a number, as typed arrays and masks keep them.
Fixed(n, size) ==
    LET bytes == Digits[n % Power[size]] IN bytes \o Repeat(0, size - Len(bytes))

TakeBytes(s, n) == IF n > Len(s) THEN Thrown ELSE Got(Take(s, n), Drop(s, n))

\* trim().
Trimmed(text) ==
    LET kept == {i \in DOMAIN text : text[i] # 32}
    IN IF kept = {} THEN <<>> ELSE SubSeq(text, Min(kept), Max(kept))

\* What a reader gives, carried on by F unless it threw.
Then(r, F(_, _)) == IF r = Thrown THEN Thrown ELSE F(r.v, r.rest)
Mapped(r, F(_)) == IF r = Thrown THEN Thrown ELSE Got(F(r.v), r.rest)

\* Reads n values one after the other: read[i] is how the i-th is read.
ReadAll(read, n, s) ==
    LET After[i \in 0..n] ==
          IF i = 0 THEN Got(<<>>, s)
          ELSE Then(After[i - 1],
                    LAMBDA vs, left : Mapped(read[i][left], LAMBDA v : Append(vs, v)))
    IN After[n]

\* Reads values of the given types with read.
ReadEach(read(_, _), types, s) ==
    ReadAll([i \in DOMAIN types |-> [left \in Seq(Nat) |-> read(types[i], left)]], Len(types), s)

-----------------------------------------------------------------------------
(* PBinaryWriter.                                                          *)

\* Below 0xfd a byte; then a mark and two, three or four bytes.
writeVarInt(n) ==
    IF n < Base - 3 THEN <<n>>
    ELSE IF n < Power[2] THEN <<Base - 3>> \o Fixed(n, 2)
    ELSE IF n < Power[4] THEN <<Base - 2>> \o Fixed(n, 3)
    ELSE <<Base - 1>> \o Fixed(n, 4)

writeByteArray(bytes) == writeVarInt(Len(bytes)) \o bytes

\* A string is the codes of its characters.
writeString(text) == writeByteArray(text)

writeBigInteger(n) == writeByteArray(bigIntToTwosComplementLE_phantasma(n))

\* Four bytes, the lowest first: timestamps, dates and enums.
writeTimestamp(n) == Fixed(n, 4)

NoSignature == [kind |-> 0, bytes |-> <<>>]

\* The kind; then what Ed25519Signature.serializeData() writes.
writeSignature(s) == IF s = NoSignature THEN <<0>> ELSE <<s.kind>> \o writeByteArray(s.bytes)

-----------------------------------------------------------------------------
(* PBinaryReader.                                                          *)

\* Mutant: the bytes after a mark are read with the highest first.
readVarInt_BigEndian(s) ==
    LET Number(n) == Mapped(TakeBytes(Tail(s), n), LAMBDA b : Magnitude(Reverse(b)))
    IN IF s = <<>> THEN Thrown
       ELSE CASE s[1] = Base - 3 -> Number(2)
              [] s[1] = Base - 2 -> Number(4)
              [] s[1] = Base - 1 -> Number(8)
              [] OTHER -> Got(s[1], Tail(s))

\* After a mark two, four or eight bytes.
readVarInt(s) ==
    LET Number(n) == Mapped(TakeBytes(Tail(s), n), Magnitude)
    IN IF s = <<>> THEN Thrown
       ELSE CASE s[1] = Base - 3 -> Number(2)
              [] s[1] = Base - 2 -> Number(4)
              [] s[1] = Base - 1 -> Number(8)
              [] OTHER -> Got(s[1], Tail(s))

readByteArray(s) == Then(readVarInt(s), LAMBDA n, rest : TakeBytes(rest, n))
readString(s) == readByteArray(s)
readBigInteger(s) == Mapped(readByteArray(s), twosComplementLEToBigInt)
readTimestamp(s) == Mapped(TakeBytes(s, 4), Magnitude)

\* readSignatureV2(); a signature of an unknown kind throws.  So does one of kind ECDSA here,
\* whose own form no writer of the SDK makes and no model reads.
readSignatureV2(s) ==
    CASE s = <<>> -> Thrown
      [] s # <<>> /\ s[1] = 0 -> Got(NoSignature, Tail(s))
      [] s # <<>> /\ s[1] = 1 ->
           Mapped(readByteArray(Tail(s)), LAMBDA b : [kind |-> 1, bytes |-> b])
      [] OTHER -> Thrown

-----------------------------------------------------------------------------
(* CarbonBinaryWriter.  A length is a signed number of LengthSize bytes.   *)

writeLength(n) == Fixed(n, LengthSize)

\* write1 to write8, signed or not.
writeFixed(n, size) == Fixed(n, size)

\* The header byte of a number, then its payload.
HeaderByte(header) == header.length + (IF header.negative THEN Base \div 2 ELSE 0)
Headed(w) == Made(w, LAMBDA number : <<HeaderByte(number.header)>> \o number.payload)

writeCompact(n) == Headed(writeBigInt(n))

\* A string must not hold the zero that ends it.
writeSz(text) == IF 0 \in ToSet(text) THEN Thrown ELSE Append(text, 0)

writeArray(bytes) == writeLength(Len(bytes)) \o bytes

-----------------------------------------------------------------------------
(* CarbonBinaryReader.                                                     *)

Signed(n, size) == IF n < Power[size] \div 2 THEN n ELSE n - Power[size]

readFixed(size, s) == Mapped(TakeBytes(s, size), LAMBDA b : Signed(Magnitude(b), size))

\* A length is refused when the elements could not be in the bytes that are left.
readLength(elementSize, s) ==
    Then(readFixed(LengthSize, s),
         LAMBDA n, rest : IF n < 0 \/ n * elementSize > Len(rest) THEN Thrown ELSE Got(n, rest))

readHeaded(read(_, _), s) ==
    IF s = <<>> THEN Thrown
    ELSE LET header == Header(s[1] % (Base \div 2), SignBit(s[1]))
         IN Made(read(header, Tail(s)), LAMBDA n : Got(n, Drop(Tail(s), header.length)))

readCompact(s) == readHeaded(readBigInt, s)

\* Up to the first zero.
readSz(s) ==
    IF 0 \notin ToSet(s) THEN Thrown
    ELSE LET end == CHOOSE i \in DOMAIN s : s[i] = 0 /\ \A j \in 1..(i - 1) : s[j] # 0
         IN Got(Take(s, end - 1), Drop(s, end))

readArray(s) == Then(readLength(1, s), LAMBDA n, rest : TakeBytes(rest, n))

-----------------------------------------------------------------------------
(* Items of Carbon.  A type is an item whose value does not matter.         *)

writeItem(x) ==
    CASE x.t = "int" -> writeFixed(x.v, x.size)
      [] x.t = "compact" -> writeCompact(x.v)
      [] x.t = "sz" -> writeSz(x.v)
      [] x.t = "array" -> writeArray(x.v)

readItem(type, s) ==
    LET Of(v) == [type EXCEPT !.v = v]
    IN CASE type.t = "int" -> Mapped(readFixed(type.size, s), Of)
         [] type.t = "compact" -> Mapped(readCompact(s), Of)
         [] type.t = "sz" -> Mapped(readSz(s), Of)
         [] type.t = "array" -> Mapped(readArray(s), Of)

-----------------------------------------------------------------------------
(* Properties.                                                             *)

\* A number within the size it is given, a text without a zero, bytes whose length is one.
Fits(x) ==
    CASE x.t = "int" -> -(Power[x.size] \div 2) <= x.v /\ x.v < Power[x.size] \div 2
      [] x.t = "compact" -> AsWord(x.v) = x.v
      [] x.t = "sz" -> 0 \notin ToSet(x.v)
      [] x.t = "array" -> Len(x.v) < Power[LengthSize] \div 2

\* Items written one after the other are read back in step, with nothing left over; bytes
\* that end early never pass for all of them.
InStep(write(_), read(_, _), items) ==
    LET s == FlattenSeq([i \in DOMAIN items |-> write(items[i])])
        Read(bytes) == ReadEach(read, [i \in DOMAIN items |-> [items[i] EXCEPT !.v = 0]], bytes)
    IN /\ Read(s) = Got(items, <<>>)
       /\ \A n \in 0..(Len(s) - 1) : Read(Take(s, n)) = Thrown

\* What the old writer writes, below the two bytes of a length, its reader reads back.
LegacySurvives(bytes, n, rest) ==
    /\ readVarInt(writeVarInt(n) \o rest) = Got(n, rest)
    /\ readByteArray(writeByteArray(bytes) \o rest) = Got(bytes, rest)
    /\ readTimestamp(writeTimestamp(n) \o rest) = Got(n, rest)
    /\ \A s \in {NoSignature, [kind |-> 1, bytes |-> bytes]} :
         readSignatureV2(writeSignature(s) \o rest) = Got(s, rest)
=============================================================================
