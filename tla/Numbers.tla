------------------------------ MODULE Numbers ------------------------------
(***************************************************************************)
(* Integers as bytes, in the three forms the SDK writes:                   *)
(*   - phantasma-big-int-serialization.ts: the form of C# with the tail    *)
(*     of guard bytes that the old chain expects;                          *)
(*   - carbon-serialization.ts: a word of WordSize bytes without the fill  *)
(*     bytes at its high end, behind a header with length and sign;        *)
(*   - carbon/int-x.ts: LongSize bytes when the value fits, else the       *)
(*     second form.                                                        *)
(*                                                                         *)
(* A byte is a digit of Base, the least significant one first; its sign    *)
(* bit is set in the upper half of the digits.                             *)
(***************************************************************************)
EXTENDS Integers, Sequences

CONSTANTS
    Base,       \* 256
    WordSize,   \* 32
    LongSize,   \* 8
    Thrown      \* what a writer or a reader gives when it throws

ASSUME NumbersAssumption ==
    /\ Base \in Nat /\ Base % 2 = 0 /\ Base >= 4
    /\ LongSize \in Nat \ {0} /\ WordSize \in Nat /\ LongSize < WordSize

Byte == 0..(Base - 1)

\* A throw is no value.
ASSUME ThrownAssumption == Thrown \notin Int /\ Thrown \notin Seq(Byte)

Full == Base - 1

SignBit(b) == b >= Base \div 2
Negative(s) == SignBit(s[Len(s)])
Fill(negative) == IF negative THEN Full ELSE 0

Repeat(b, n) == [i \in 1..n |-> b]
Take(s, n) == SubSeq(s, 1, n)
Drop(s, n) == SubSeq(s, n + 1, Len(s))
Power[n \in Nat] == IF n = 0 THEN 1 ELSE Base * Power[n - 1]

\* The bytes of a natural number; none for zero.
Digits[n \in Nat] == IF n = 0 THEN <<>> ELSE <<n % Base>> \o Digits[n \div Base]

\* The bytes as a natural number.
Magnitude(s) ==
    LET Of[i \in 0..Len(s)] == IF i = Len(s) THEN 0 ELSE s[i + 1] + Base * Of[i + 1]
    IN Of[0]

\* What is made of x, unless x threw.
Made(x, F(_)) == IF x = Thrown THEN Thrown ELSE F(x)

-----------------------------------------------------------------------------
(* phantasma-big-int-serialization.ts                                      *)

Inverted(s) == [i \in DOMAIN s |-> Full - s[i]]

\* Adds one; the carry stops at the first byte that is not full.
PlusOne(s) ==
    LET Carried(i) == \A j \in 1..(i - 1) : s[j] = Full
    IN [i \in DOMAIN s |-> IF Carried(i) THEN (s[i] + 1) % Base ELSE s[i]]

bigIntToCsharpLE(n) ==
    LET bytes == Digits[IF n < 0 THEN -n ELSE n]
        complement == PlusOne(Inverted(bytes))
    IN IF n = 0 THEN <<0>>
       ELSE IF n > 0 THEN (IF Negative(bytes) THEN Append(bytes, 0) ELSE bytes)
       ELSE IF Negative(complement) THEN complement
       ELSE Append(complement, Full)

\* The tail the old chain expects: two more bytes for a negative number of one byte, one
\* more for one that ends in a full byte, and always a zero after a positive one.
bigIntToTwosComplementLE_phantasma(n) ==
    LET cs == bigIntToCsharpLE(n)
        last == cs[Len(cs)]
    IN IF n < 0
       THEN IF Len(cs) = 1 THEN cs \o <<Full, Full>>
            ELSE IF last = Full THEN Append(cs, Full)
            ELSE cs
       ELSE IF last # 0 THEN Append(cs, 0) ELSE cs

bigIntFromTwosComplementLE_phantasma(data) ==
    IF data = <<>> THEN 0
    ELSE IF Negative(data) THEN -Magnitude(PlusOne(Inverted(data)))
    ELSE Magnitude(data)

-----------------------------------------------------------------------------
(* carbon-serialization.ts                                                 *)

\* The bytes of a negative number down to the endless full ones.
LowDigits[n \in Int] == IF n \in {-1, 0} THEN <<>> ELSE <<n % Base>> \o LowDigits[n \div Base]

\* The shortest bytes that carry the sign as well.
bigIntToTwosComplementLE(n) ==
    LET bytes == IF n < 0 THEN LowDigits[n] ELSE Digits[n]
    IN IF n = 0 THEN <<0>>
       ELSE IF bytes = <<>> \/ Negative(bytes) # (n < 0) THEN Append(bytes, Fill(n < 0))
       ELSE bytes

\* Magnitude(s) - Power[Len(s)], written without the large intermediate numbers.
twosComplementLEToBigInt(s) ==
    IF s = <<>> THEN 0
    ELSE IF Negative(s) THEN -1 - Magnitude(Inverted(s))
    ELSE Magnitude(s)

\* The whole word; what is above it must be sign extension.
normalizeBigIntWord(s) ==
    LET fill == Fill(Negative(s))
    IN IF \E i \in (WordSize + 1)..Len(s) : s[i] # fill THEN Thrown
       ELSE IF Len(s) > WordSize THEN Take(s, WordSize)
       ELSE s \o Repeat(fill, WordSize - Len(s))

\* The length of the word without the fill bytes at its high end.
computeBigIntSerializedLength(word, fill) ==
    CHOOSE n \in 0..WordSize : /\ \A i \in (n + 1)..WordSize : word[i] = fill
                               /\ n = 0 \/ word[n] # fill

\* The header byte: length in its low bits, the sign of the word in its high one.  The bit
\* between them, which throws, counts as a length over the word's.
Header(length, negative) == [length |-> length, negative |-> negative]
ZeroHeader == Header(0, FALSE)
writeBigInt(n) ==
    LET Cut(word, length) ==
          [header |-> Header(length, Negative(word)), payload |-> Take(word, length)]
    IN IF n = 0 THEN [header |-> ZeroHeader, payload |-> <<>>]
       ELSE Made(normalizeBigIntWord(bigIntToTwosComplementLE(n)),
                 LAMBDA word :
                   Cut(word, computeBigIntSerializedLength(word, Fill(Negative(word)))))

\* Mutant: the omitted bytes are taken from the payload's own sign.
readBigInt_PayloadSign(header, payload) ==
    IF header = ZeroHeader THEN 0
    ELSE IF header.length > WordSize \/ Len(payload) < header.length THEN Thrown
    ELSE twosComplementLEToBigInt(Take(payload, header.length))

\* The word is rebuilt with the header's sign before it is decoded.
readBigInt(header, payload) ==
    LET word == Take(payload, header.length)
                \o Repeat(Fill(header.negative), WordSize - header.length)
    IN IF header = ZeroHeader THEN 0
       ELSE IF header.length > WordSize \/ Len(payload) < header.length THEN Thrown
       ELSE IF Negative(word) # header.negative THEN Thrown
       ELSE twosComplementLEToBigInt(word)

-----------------------------------------------------------------------------
(* carbon/int-x.ts                                                         *)

is8ByteSafe(n) == -(Power[LongSize] \div 2) <= n /\ n < Power[LongSize] \div 2

\* DataView.setBigInt64.
write8(n) ==
    LET bits == Digits[n % Power[LongSize]]
    IN bits \o Repeat(0, LongSize - Len(bits))

\* A value made with fromI64() fits; one made with fromBigInt() is looked at.
IntX_write(n) ==
    IF is8ByteSafe(n)
    THEN [header |-> Header(LongSize, n < 0), payload |-> write8(n)]
    ELSE writeBigInt(n)

\* `header & 0x3f`: the bit above the length, which readBigInt() refuses, is not looked at.
LengthBits(header) ==
    IF header.length >= 2 * WordSize THEN header.length - 2 * WordSize ELSE header.length

\* Eight bytes whose sign is not the header's are the low end of a wider value.
IntX_read(header, payload) ==
    IF LengthBits(header) < LongSize THEN Thrown
    ELSE IF LengthBits(header) = LongSize THEN
      IF Len(payload) < LongSize THEN Thrown
      ELSE LET low == Take(payload, LongSize)
               word == low \o Repeat(Fill(header.negative), WordSize - LongSize)
           IN IF Negative(low) = header.negative
              THEN twosComplementLEToBigInt(low)
              ELSE twosComplementLEToBigInt(word)
    ELSE readBigInt(header, payload)

-----------------------------------------------------------------------------
(* Properties.                                                             *)

\* The number the word of n's low bits stands for: n itself exactly when n fits a signed word.
AsWord(n) ==
    LET bits == n % Power[WordSize]
    IN IF bits < Power[WordSize] \div 2 THEN bits ELSE bits - Power[WordSize]

\* Every form gives back a number that a signed word holds, whichever of the two decoders of
\* two's complement reads it.  A number of one bit more, of either sign, is written without an
\* error and comes back from the compact form as another one, the signed word with its low
\* bits: 2^255 as -2^255 and -2^256 as 0, since normalizeBigIntWord() drops the sign byte above
\* the word and does not compare it with the word's own sign (carbon-serialization.ts:459-464).
\* The writers throw for every number that needs still more bits.
NumberSurvives(n) ==
    /\ \A s \in {bigIntToCsharpLE(n), bigIntToTwosComplementLE_phantasma(n),
                 bigIntToTwosComplementLE(n)} :
         /\ bigIntFromTwosComplementLE_phantasma(s) = n
         /\ twosComplementLEToBigInt(s) = n
    /\ LET w == writeBigInt(n)
           x == IntX_write(n)
       IN IF -Power[WordSize] <= n /\ n < Power[WordSize]
          THEN /\ readBigInt(w.header, w.payload) = AsWord(n)
               /\ AsWord(n) = n => IntX_read(x.header, x.payload) = n
          ELSE w = Thrown /\ x = Thrown

\* The compact form is the shortest one that the reader takes for the number.
NumberShortest(n) ==
    LET w == writeBigInt(n) IN
      AsWord(n) = n =>
        \A k \in 0..(w.header.length - 1), negative \in BOOLEAN :
          readBigInt(Header(k, negative), w.payload) # n
=============================================================================
