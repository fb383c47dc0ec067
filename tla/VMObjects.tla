----------------------------- MODULE VMObjects -----------------------------
(***************************************************************************)
(* The objects of the old virtual machine (vm/vm-object.ts) and the        *)
(* decoder that shows them as plain values (vm/decoder.ts).                *)
(*                                                                         *)
(* An object has a type and data.  The data of a struct is the sequence of *)
(* its entries, each with a key and a value: the code keeps a Map keyed by *)
(* the identity of the key, so the same key may occur twice.  The data of  *)
(* an Object is an address or raw bytes.  Text is the codes of its         *)
(* characters, all of them below the sign bit (ASCII).                     *)
(***************************************************************************)
EXTENDS Streams

CONSTANTS
    AddressSize,   \* Address.lengthInBytes, 34
    HashSize       \* bytes of a raw object that may be taken for a number, 32

ASSUME VMObjectsAssumption == {AddressSize, HashSize} \subseteq Nat \ {0} /\ Base > 120

Object(type, data) == [type |-> type, data |-> data]
Entry(key, value) == [key |-> key, value |-> value]
None == Object("None", <<>>)
Address(bytes) == Object("Object", [address |-> TRUE, bytes |-> bytes])
Raw(bytes) == Object("Object", [address |-> FALSE, bytes |-> bytes])

\* The types by their codes, from zero.
Types == <<"None", "Struct", "Bytes", "Number", "String", "Timestamp", "Bool", "Enum", "Object">>
TypeCode(type) == (CHOOSE i \in DOMAIN Types : Types[i] = type) - 1

-----------------------------------------------------------------------------
(* Text.                                                                   *)

Zero == 48
Minus == 45
Plus == 43
TextOf(digits) == [i \in DOMAIN digits |-> Zero + digits[i]]
RECURSIVE DecimalDigits(_)
DecimalDigits(n) == IF n < 10 THEN <<n>> ELSE Append(DecimalDigits(n \div 10), n % 10)
Decimal(n) == IF n < 0 THEN <<Minus>> \o TextOf(DecimalDigits(-n)) ELSE TextOf(DecimalDigits(n))

IsDigits(text) == text # <<>> /\ \A i \in DOMAIN text : text[i] \in Zero..(Zero + 9)
NaturalOf(text) == FoldLeft(LAMBDA n, c : 10 * n + (c - Zero), 0, text)

\* An optional sign and digits.
NumberOf(text) ==
    LET signed == text # <<>> /\ text[1] \in {Plus, Minus}
        digits == IF signed THEN Tail(text) ELSE text
    IN IF ~IsDigits(digits) THEN Thrown
       ELSE IF signed /\ text[1] = Minus THEN -NaturalOf(digits) ELSE NaturalOf(digits)

\* A byte without a leading zero, as uint8ArrayToStringDefault() writes it.
HexDigit(n) == IF n < 10 THEN Zero + n ELSE 87 + n
HexOf(byte) == IF byte < 16 THEN <<HexDigit(byte)>> ELSE <<HexDigit(byte \div 16), HexDigit(byte % 16)>>
HexText(bytes) == FlattenSeq([i \in DOMAIN bytes |-> HexOf(bytes[i])])

True == <<116, 114, 117, 101>>
False == <<102, 97, 108, 115, 101>>

-----------------------------------------------------------------------------
(* Structs.                                                                *)

\* The first entry whose key is the index.
getArrayValue(o, index) ==
    LET At == {i \in DOMAIN o.data :
                 o.data[i].key.type = "Number" /\ o.data[i].key.data = index}
    IN IF At = {} THEN Thrown ELSE o.data[Min(At)].value

\* The one type of the values at 0 to size - 1, when all of these are there; values without a
\* type do not count in front of the others.
getArrayType(o) ==
    LET values == [i \in 1..Len(o.data) |-> getArrayValue(o, i - 1)]
        leading == {i \in DOMAIN values : \A j \in 1..i : values[j].type = "None"}
        types == {values[i].type : i \in DOMAIN values \ leading}
    IN IF o.type # "Struct" \/ (\E i \in DOMAIN values : values[i] = Thrown)
          \/ Cardinality(types) # 1
       THEN "None" ELSE CHOOSE t \in types : TRUE

ValidStructKey(key) == key.type \notin {"None", "Struct", "Object"}

copy(o) == o

\* setKey(): a new entry, whether or not the key is there.
setKey(o, key, value) ==
    IF ~ValidStructKey(key) \/ o.type \notin {"Struct", "None"} THEN Thrown
    ELSE Object("Struct", (IF o.type = "None" THEN <<>> ELSE o.data)
                          \o <<Entry(copy(key), copy(value))>>)

\* Of no values: an object without a type.
fromArray(values) ==
    FoldLeft(LAMBDA o, i : setKey(o, Object("Number", i - 1), values[i]), None,
             [i \in DOMAIN values |-> i])

-----------------------------------------------------------------------------
(* Serialization.                                                          *)

RECURSIVE serializeData(_), unserializeData(_)

\* What follows the type.  A raw object's bytes have a length inside the length.
serializeObjectCall(o) ==
    CASE o.type = "None" -> <<>>
      [] o.type = "Struct" ->
           writeVarInt(Len(o.data))
           \o FlattenSeq([i \in DOMAIN o.data |->
                            serializeData(o.data[i].key) \o serializeData(o.data[i].value)])
      [] o.type = "Object" -> writeByteArray(writeByteArray(o.data.bytes))
      [] o.type = "Enum" -> writeVarInt(o.data)
      [] o.type = "Bool" -> <<IF o.data THEN 1 ELSE 0>>
      [] o.type = "Bytes" -> writeByteArray(o.data)
      [] o.type = "Number" -> writeBigInteger(o.data)
      [] o.type = "String" -> writeString(o.data)
      [] o.type = "Timestamp" -> writeTimestamp(o.data)

serializeData(o) == <<TypeCode(o.type)>> \o serializeObjectCall(o)

\* Mutant: an object is an address whatever the length in it.
Unwrapped_AnyLength(bytes) ==
    IF bytes # <<>> THEN Address(Tail(bytes)) ELSE Object("Bytes", bytes)

\* An object is restored as an address when it has the bytes of one, as bytes otherwise.
Unwrapped(bytes) ==
    IF Len(bytes) = AddressSize + 1 /\ bytes[1] = AddressSize
    THEN Address(Tail(bytes)) ELSE Object("Bytes", bytes)

RECURSIVE ReadEntries(_, _, _)
ReadEntries(count, entries, s) ==
    IF count = 0 THEN Got(Object("Struct", entries), s)
    ELSE Then(unserializeData(s), LAMBDA key, afterKey :
           IF ~ValidStructKey(key) THEN Thrown
           ELSE Then(unserializeData(afterKey), LAMBDA value, left :
                  ReadEntries(count - 1, Append(entries, Entry(key, value)), left)))

unserializeData(s) ==
    LET As(type, r) == Mapped(r, LAMBDA v : Object(type, v))
        left == Tail(s)
    IN IF s = <<>> \/ s[1] >= Len(Types) THEN Thrown
       ELSE LET type == Types[s[1] + 1] IN
            CASE type = "None" -> Got(None, left)
              [] type = "Bool" -> As(type, Mapped(TakeBytes(left, 1), LAMBDA b : b[1] # 0))
              [] type = "Bytes" -> As(type, readByteArray(left))
              [] type = "Number" -> As(type, readBigInteger(left))
              [] type = "Timestamp" -> As(type, readTimestamp(left))
              [] type = "String" -> As(type, readString(left))
              [] type = "Enum" -> As(type, readVarInt(left))
              [] type = "Object" -> Mapped(readByteArray(left), Unwrapped)
              [] type = "Struct" ->
                   Then(readVarInt(left), LAMBDA n, entries : ReadEntries(n, <<>>, entries))

-----------------------------------------------------------------------------
(* Conversions.                                                            *)

\* The text of an address, and base64, are kept as what they encode.
AddressText(bytes) == [address |-> bytes]
Base64(bytes) == [base64 |-> bytes]
InteropText == [interop |-> "Uint8Array"]

asNumber(o) ==
    CASE o.type = "None" -> 0
      [] o.type = "String" -> NumberOf(o.data)
      [] o.type = "Bytes" -> twosComplementLEToBigInt(o.data)
      [] o.type = "Bool" -> IF o.data THEN 1 ELSE 0
      [] o.type \in {"Number", "Enum", "Timestamp"} -> o.data
      [] o.type = "Object" /\ ~o.data.address /\ Len(o.data.bytes) = HashSize ->
           twosComplementLEToBigInt(o.data.bytes)
      [] OTHER -> Thrown

\* A struct of numbers is the text with these codes.
asString(o) ==
    CASE o.type = "String" -> o.data
      [] o.type \in {"Number", "Enum", "Timestamp"} -> Decimal(o.data)
      [] o.type = "Bytes" -> HexText(o.data)
      [] o.type = "Bool" -> IF o.data THEN True ELSE False
      [] o.type = "Object" -> IF o.data.address THEN AddressText(o.data.bytes) ELSE InteropText
      [] o.type = "Struct" ->
           IF getArrayType(o) = "Number"
           THEN [i \in DOMAIN o.data |-> asNumber(getArrayValue(o, i - 1))]
           ELSE Base64(serializeData(o))
      [] OTHER -> Thrown

asByteArray(o) ==
    CASE o.type \in {"Bytes", "String"} -> o.data
      [] o.type = "Bool" -> <<asNumber(o)>>
      [] o.type = "Number" -> bigIntToTwosComplementLE_phantasma(o.data)
      [] o.type \in {"Enum", "Timestamp"} -> Fixed(o.data, 4)
      [] o.type = "Struct" -> serializeData(o)
      [] o.type = "Object" -> o.data.bytes
      [] OTHER -> Thrown

asBool(o) ==
    CASE o.type = "Bool" -> o.data
      [] o.type = "Number" -> o.data # 0
      [] o.type = "Bytes" /\ Len(o.data) = 1 -> o.data[1] # 0
      [] OTHER -> Thrown

\* A value that is not of the asked type; what throws gives no object.
Valued(type, v) == IF v = Thrown THEN Thrown ELSE Object(type, v)

\* An Enum becomes a Number and an Object stays one when a struct is asked for.
castTo(o, type) ==
    CASE o.type = type -> copy(o)
      [] o.type # type /\ type = "None" -> None
      [] o.type # type /\ type = "String" -> Valued(type, asString(o))
      [] o.type # type /\ type = "Bool" -> Valued(type, asBool(o))
      [] o.type # type /\ type = "Bytes" -> Valued(type, asByteArray(o))
      [] o.type # type /\ type = "Number" -> Valued(type, asNumber(o))
      [] o.type = "String" /\ type = "Struct" ->
           fromArray([i \in DOMAIN o.data |-> Object("Number", o.data[i])])
      [] o.type = "Enum" /\ type = "Struct" -> Object("Number", o.data)
      [] o.type = "Object" /\ type = "Struct" -> copy(o)
      [] OTHER -> Thrown

-----------------------------------------------------------------------------
(* Values of the host language: [js, content].  The fields of a "record"   *)
(* are entries of a name and a value; a Timestamp is one with a value.     *)

Host(js, content) == [js |-> js, content |-> content]
Failed(values) == \E i \in DOMAIN values : values[i] = Thrown
RECURSIVE fromObject(_), castViaReflection(_), toObject(_)

\* An array within a record becomes a struct even when it is empty; an empty record makes
\* the two functions call each other without an end.
castViaReflection(h) ==
    LET values == [i \in DOMAIN h.content |->
                     castViaReflection(IF h.js = "record" THEN h.content[i].value ELSE h.content[i])]
        Key(i) == IF h.js = "record" THEN Object("String", h.content[i].key) ELSE Object("Number", i - 1)
    IN IF h.js \notin {"array", "record"} THEN fromObject(h)
       ELSE IF (h.js = "record" /\ h.content = <<>>) \/ Failed(values) THEN Thrown
       ELSE Object("Struct", [i \in DOMAIN h.content |-> Entry(Key(i), values[i])])

fromObject(h) ==
    CASE h.js = "boolean" -> Object("Bool", h.content)
      [] h.js = "bytes" -> Object("Bytes", h.content)
      [] h.js = "string" -> Object("String", h.content)
      [] h.js \in {"number", "bigint"} -> Object("Number", h.content)
      [] h.js = "array" ->
           LET values == [i \in DOMAIN h.content |-> fromObject(h.content[i])]
           IN IF Failed(values) THEN Thrown ELSE fromArray(values)
      [] h.js = "record" -> castViaReflection(h)
      [] h.js = "null" -> Thrown

\* A struct is the array of its values, in the order of its entries.
toObject(o) ==
    CASE o.type = "None" -> Thrown
      [] o.type = "Bool" -> Host("boolean", o.data)
      [] o.type = "Bytes" -> Host("bytes", o.data)
      [] o.type = "String" -> Host("string", o.data)
      [] o.type \in {"Number", "Enum"} -> Host("bigint", o.data)
      [] o.type = "Struct" ->
           LET values == [i \in DOMAIN o.data |-> toObject(o.data[i].value)]
           IN IF Failed(values) THEN Thrown ELSE Host("array", values)
      [] OTHER -> Host(o.type, o.data)

-----------------------------------------------------------------------------
(* Decoder.readVmObject(): numbers are shown as decimal text, objects as   *)
(* their bytes, structs as the values under the text of their keys, of     *)
(* which the last with the same text stays.  Where the bytes end too early *)
(* it goes on with what there is (a number is NaN); that is not modelled,  *)
(* and is a throw here.                                                    *)

Shown(kind, v) == [kind |-> kind, v |-> v]
RECURSIVE readVmObject(_), ReadFields(_, _, _)

\* String() of a decoded key.
KeyText(shown) ==
    IF shown.kind = "boolean" THEN (IF shown.v THEN True ELSE False)
    ELSE IF shown.kind = "number" THEN Decimal(shown.v)
    ELSE shown.v

WithField(fields, name, v) ==
    [n \in DOMAIN fields \cup {name} |-> IF n = name THEN v ELSE fields[n]]

ReadFields(count, fields, s) ==
    IF count = 0 THEN Got(Shown("record", fields), s)
    ELSE Then(readVmObject(s), LAMBDA key, afterKey :
           Then(readVmObject(afterKey), LAMBDA v, left :
             ReadFields(count - 1, WithField(fields, KeyText(key), v), left)))

readVmObject(s) ==
    LET type == IF s = <<>> \/ s[1] >= Len(Types) THEN "None" ELSE Types[s[1] + 1]
        As(kind, r) == Mapped(r, LAMBDA v : Shown(kind, v))
        left == Tail(s)
    IN CASE type = "String" -> As("string", readString(left))
         [] type = "Number" -> As("string", Mapped(readBigInteger(left), Decimal))
         [] type = "Bool" -> As("boolean", Mapped(TakeBytes(left, 1), LAMBDA b : b[1] # 0))
         [] type = "Enum" -> As("number", readVarInt(left))
         [] type = "Object" -> As("bytes", readByteArray(left))
         [] type = "Struct" ->
              Then(readVarInt(left), LAMBDA n, fields : ReadFields(n, <<>>, fields))
         [] OTHER -> Thrown

-----------------------------------------------------------------------------
(* Properties.                                                             *)

\* A raw object comes back as the bytes it was written as, with their length, unless it is
\* as long as an address.
RECURSIVE AsRead(_)
AsRead(o) ==
    CASE o.type = "Struct" ->
           Object("Struct", [i \in DOMAIN o.data |->
                               Entry(AsRead(o.data[i].key), AsRead(o.data[i].value))])
      [] o.type = "Object" /\ ~o.data.address ->
           IF Len(o.data.bytes) = AddressSize THEN Address(o.data.bytes)
           ELSE Object("Bytes", writeByteArray(o.data.bytes))
      [] OTHER -> o

\* The decoder does not know bytes, timestamps and the object without a type.
RECURSIVE Decodable(_)
Decodable(o) ==
    IF o.type = "Struct"
    THEN \A i \in DOMAIN o.data : Decodable(o.data[i].key) /\ Decodable(o.data[i].value)
    ELSE o.type \notin {"None", "Bytes", "Timestamp"}

\* A written object is read back in step with its writer, and the decoder of the tools
\* refuses it or ends at the same byte.
WireSurvives(o, rest) ==
    LET s == serializeData(o) \o rest
        shown == readVmObject(s)
    IN /\ unserializeData(s) = Got(AsRead(o), rest)
       /\ IF Decodable(o) THEN shown # Thrown /\ shown.rest = rest ELSE shown = Thrown

\* The casts that lose nothing.
Lossless(o) ==
    CASE o.type = "Bool" -> {"Number", "Bytes"}
      [] o.type = "Number" -> {"Bytes", "String"}
      [] o.type = "String" /\ o.data # <<>> -> {"Struct"}
      [] OTHER -> {}

\* A cast throws or gives the type that was asked for; one that loses nothing can be undone;
\* the truth of a value does not depend on the way it is taken; a struct as bytes is still
\* the struct.
CastsSound(o) ==
    /\ \A t \in ToSet(Types) \ {"Struct"} : castTo(o, t) = Thrown \/ castTo(o, t).type = t
    /\ \A t \in Lossless(o) : castTo(castTo(o, t), o.type) = o
    /\ asBool(o) # Thrown => asBool(o) = (asNumber(o) # 0)
    /\ o.type = "Struct" => unserializeData(castTo(o, "Bytes").data) = Got(AsRead(o), <<>>)

\* The value without the names of its fields.
RECURSIVE Plain(_)
Plain(h) ==
    CASE h.js = "number" -> Host("bigint", h.content)
      [] h.js = "array" -> Host("array", [i \in DOMAIN h.content |-> Plain(h.content[i])])
      [] h.js = "record" -> Host("array", [i \in DOMAIN h.content |-> Plain(h.content[i].value)])
      [] OTHER -> h

\* null, an empty record and, unless a record is around it, an empty array.
RECURSIVE Refused(_, _)
Refused(h, inRecord) ==
    \/ h.js = "null" \/ (h.js = "record" /\ h.content = <<>>)
    \/ h.js = "array" /\ ~inRecord /\ h.content = <<>>
    \/ h.js = "array" /\ \E i \in DOMAIN h.content : Refused(h.content[i], inRecord)
    \/ h.js = "record" /\ \E i \in DOMAIN h.content : Refused(h.content[i].value, TRUE)

\* A value becomes an object and comes back, or one of the two throws.
HostSurvives(h) ==
    LET o == fromObject(h)
        back == IF o = Thrown THEN Thrown ELSE toObject(o)
    IN back = IF Refused(h, FALSE) THEN Thrown ELSE Plain(h)
=============================================================================
