------------------------------ MODULE Streams ------------------------------
(***************************************************************************)
(* Values that hold other values: Serialization over PBinaryWriter and     *)
(* PBinaryReader (types/serialization.ts), and the lists of                *)
(* CarbonBinaryWriter and CarbonBinaryReader (carbon-serialization.ts).    *)
(***************************************************************************)
EXTENDS Primitives

-----------------------------------------------------------------------------
(* Serialization.  Only booleans, big integers, strings and lists of them  *)
(* are read as they were written: a number is written with a length that   *)
(* is not read, and a timestamp is not read with the four bytes it has.    *)

RECURSIVE serializeObject(_), deserializeObject(_, _)

serializeObject(x) ==
    CASE x.t = "boolean" -> <<IF x.v THEN 1 ELSE 0>>
      [] x.t = "bigint" -> writeBigInteger(x.v)
      [] x.t = "string" -> writeString(x.v)
      [] x.t = "list" -> writeVarInt(Len(x.v))
                         \o FlattenSeq([i \in DOMAIN x.v |-> serializeObject(x.v[i])])

\* The item with nothing but the types in it.
RECURSIVE TypeOf(_)
TypeOf(x) == IF x.t = "list" THEN [t |-> "list", v |-> [i \in DOMAIN x.v |-> TypeOf(x.v[i])]]
             ELSE [x EXCEPT !.v = 0]

\* An entry for which no type is given is null.
NullType == [t |-> "null", v |-> 0]

\* The length of a list is read as one byte.
deserializeObject(type, s) ==
    IF type.t = "null" THEN Got(type, s)
    ELSE IF s = <<>> THEN Thrown
    ELSE CASE type.t = "boolean" -> Got([t |-> "boolean", v |-> s[1] # 0], Tail(s))
           [] type.t = "bigint" ->
                Mapped(readBigInteger(s), LAMBDA n : [t |-> "bigint", v |-> n])
           [] type.t = "string" ->
                Mapped(readString(s), LAMBDA b : [t |-> "string", v |-> b])
           [] type.t = "list" ->
                LET Type(i) == IF i <= Len(type.v) THEN type.v[i] ELSE NullType
                IN Mapped(ReadEach(deserializeObject, [i \in 1..s[1] |-> Type(i)], Tail(s)),
                          LAMBDA vs : [t |-> "list", v |-> vs])

-----------------------------------------------------------------------------
(* The lists of CarbonBinaryWriter.                                        *)

RECURSIVE Carbon_write(_)

\* A list of anything is its length and its elements.
writeList(items) ==
    writeLength(Len(items)) \o FlattenSeq([i \in DOMAIN items |-> Carbon_write(items[i])])

Carbon_write(x) == IF x.t = "list" THEN writeList(x.v) ELSE writeItem(x)

-----------------------------------------------------------------------------
(* The lists of CarbonBinaryReader.                                        *)

\* What the reader of a list takes for the least size of an element.
ElementSize(type) ==
    CASE type.t = "int" -> type.size
      [] type.t = "array" -> LengthSize
      [] OTHER -> 1

RECURSIVE Carbon_read(_, _)

\* The elements of a list have one type.
readList(type, s) ==
    Then(readLength(ElementSize(type.of), s),
         LAMBDA n, rest : ReadEach(Carbon_read, Repeat(type.of, n), rest))

Carbon_read(type, s) ==
    IF type.t = "list" THEN Mapped(readList(type, s), LAMBDA vs : [type EXCEPT !.v = vs])
    ELSE readItem(type, s)

-----------------------------------------------------------------------------
(* Properties.                                                             *)

\* Values of any type, lists among them, written one after the other are read back.
CarbonSurvives(items) == InStep(Carbon_write, Carbon_read, items)

\* An object comes back as what it was.
ObjectSurvives(x, rest) ==
    deserializeObject(TypeOf(x), serializeObject(x) \o rest) = Got(x, rest)
=============================================================================
