--------------------------- MODULE DynamicValues ---------------------------
(***************************************************************************)
(* The values of token metadata (types/carbon/blockchain/vm): variables    *)
(* that carry their type with them, structs of named variables, and the    *)
(* schemas with which a struct is written without its types and names.     *)
(*                                                                         *)
(* A struct is the sequence of its fields.  A schema or a structure that   *)
(* may be missing is the empty sequence or holds the one there is, and so  *)
(* is what a Dynamic variable holds.  Whether a writer found every field   *)
(* of a schema is looked at in one place, the array of structs: HasAll.    *)
(***************************************************************************)
EXTENDS Messages

\* The code of a type counts from zero in steps of two; an array of it is one more.
VmKinds ==
    <<"Dynamic", "Bytes", "Struct", "Int8", "Int16", "Int32", "Int64", "Int256", "Bytes16",
      "Bytes32", "Bytes64", "String">>
One(kind) == [kind |-> kind, array |-> FALSE]
Many(kind) == [kind |-> kind, array |-> TRUE]
VmCode(type) ==
    2 * ((CHOOSE i \in DOMAIN VmKinds : VmKinds[i] = type.kind) - 1) + (IF type.array THEN 1 ELSE 0)
VmTypeOf(code) == [kind |-> VmKinds[code \div 2 + 1], array |-> code % 2 = 1]

\* Bytes of the kinds of fixed size.
SizeOf ==
    [Int8 |-> 1, Int16 |-> 2, Int32 |-> LengthSize, Int64 |-> LongSize,
     Bytes16 |-> KeySize \div 2, Bytes32 |-> KeySize, Bytes64 |-> SignatureSize]
IntKinds == {"Int8", "Int16", "Int32", "Int64"}
FixedBytes == {"Bytes16", "Bytes32", "Bytes64"}

VmVariable(type, data) == [type |-> type, data |-> data]
VmNamed(name, variable) == [name |-> name, value |-> variable]
VmSchema(fields, flags) == [fields |-> fields, flags |-> flags]
NoFields == VmSchema(<<>>, 0)
DynamicExtras(schema) == schema.flags % 2 = 1
KeepsOrder(schema) == (schema.flags \div 2) % 2 = 1

\* A type that is Dynamic, the number zero, is taken for one that is not given.
NamedSchema(name, type) ==
    [name |-> name, type |-> IF type = One("Dynamic") THEN NotGiven ELSE type, structure |-> <<>>]

\* SmallString.compareTo.
Before(a, b) ==
    \/ IsStrictPrefix(a, b)
    \/ \E i \in DOMAIN a \cap DOMAIN b : a[i] < b[i] /\ Take(a, i - 1) = Take(b, i - 1)
SortedByName(fields) == SortSeq(fields, LAMBDA f, g : Before(f.name, g.name))
\* The first field of a name, or zero.
AtName(fields, name) == SelectInSeq(fields, LAMBDA f : f.name = name)

fromType(type) ==
    VmVariable(type,
        CASE type = Many("Struct") -> [schema |-> NoFields, structs |-> <<>>]
          [] ~type.array /\ type.kind \in IntKinds \cup {"Int256"} -> 0
          [] ~type.array /\ type.kind \in FixedBytes -> Repeat(0, SizeOf[type.kind])
          [] OTHER -> <<>>)

\* What is made of parts, unless a part threw.
Whole(parts, F(_)) == IF Thrown \in ToSet(parts) THEN Thrown ELSE F(parts)
AllOf(parts) == Whole(parts, FlattenSeq)

-----------------------------------------------------------------------------
(* Schemas on the wire.                                                    *)

RECURSIVE VmSchema_write(_), VmSchema_read(_, _)

NamedSchema_write(f) ==
    IF f.type = NotGiven \/ (f.type.kind = "Struct" /\ f.structure = <<>>) THEN Thrown
    ELSE AllOf(<<SmallString_write(f.name), <<VmCode(f.type)>>>>
               \o (IF f.type.kind = "Struct" THEN <<VmSchema_write(f.structure[1])>> ELSE <<>>))
VmSchema_write(schema) ==
    AllOf(<<writeLength(Len(schema.fields))>>
          \o [i \in DOMAIN schema.fields |-> NamedSchema_write(schema.fields[i])]
          \o <<<<schema.flags>>>>)

NamedSchema_read(any, s) ==
    Then(SmallString_read(s),
         LAMBDA name, rest :
           IF rest = <<>> THEN Thrown
           ELSE LET type == VmTypeOf(rest[1])
                    OfType(structure) == [name |-> name, type |-> type, structure |-> structure]
                IN IF type.kind = "Struct"
                   THEN Mapped(VmSchema_read(any, Tail(rest)), LAMBDA schema : OfType(<<schema>>))
                   ELSE Got(OfType(<<>>), Tail(rest)))
VmSchema_read(any, s) ==
    Then(readLength(1, s),
         LAMBDA n, rest :
           Then(ReadEach(NamedSchema_read, Repeat(any, n), rest),
                LAMBDA fields, after :
                  Mapped(TakeBytes(after, 1), LAMBDA b : VmSchema(fields, b[1]))))

-----------------------------------------------------------------------------
(* Writing.                                                                *)

RECURSIVE writeVariable(_), writeStatic(_, _, _), writeWithSchema(_, _)

writeNamed(f) == AllOf(<<SmallString_write(f.name), writeVariable(f.value)>>)
writeNamedList(fields) ==
    AllOf(<<writeLength(Len(fields))>> \o [i \in DOMAIN fields |-> writeNamed(fields[i])])

\* A struct that describes itself is sorted first.
writeStruct(fields) == writeNamedList(SortedByName(fields))

\* A value of a kind, alone or in an array.
writeOne(kind, x) ==
    CASE kind \in IntKinds -> writeFixed(x, SizeOf[kind])
      [] kind = "Int256" -> writeCompact(x)
      [] kind = "Bytes" -> writeArray(x)
      [] kind = "String" -> writeSz(x)
      [] kind = "Dynamic" -> writeVariable(x)
      [] kind \in FixedBytes -> x

writeVariable(v) == AllOf(<<<<VmCode(v.type)>>, writeStatic(v.type, v, <<>>)>>)

\* What the writer of a struct answers: it has every field of the schema.
HasAll(schema, fields) == \A i \in DOMAIN schema.fields : AtName(fields, schema.fields[i].name) # 0

\* The structs of an array are written up to the first that lacks a field, and no more; the
\* number that is written before them counts them all.
Attempted(schema, structs) ==
    LET lacking == {i \in DOMAIN structs : ~HasAll(schema, structs[i])}
    IN IF lacking = {} THEN structs ELSE Take(structs, Min(lacking))

\* A variable of another type is replaced by the default of the type.  An array of blobs of
\* fixed size cannot be written: it is taken for one of the blobs.
writeStatic(type, v, schema) ==
    LET parts ==
          CASE type = Many("Struct") ->
                 LET used == IF schema # <<>> THEN schema
                             ELSE IF v.data.schema.fields = <<>> THEN <<>> ELSE <<v.data.schema>>
                     structs == IF used = <<>> THEN v.data.structs
                                ELSE Attempted(used[1], v.data.structs)
                 IN (IF schema = <<>> THEN <<VmSchema_write(v.data.schema)>> ELSE <<>>)
                    \o [i \in DOMAIN structs |->
                          IF used = <<>> THEN writeStruct(structs[i])
                          ELSE writeWithSchema(used[1], structs[i])]
            [] OTHER -> [i \in DOMAIN v.data |-> writeOne(type.kind, v.data[i])]
    IN CASE v.type # type -> writeStatic(type, fromType(type), schema)
         [] type = One("Dynamic") ->
              IF v.data = <<>> THEN <<VmCode(Many("Dynamic"))>> \o writeLength(0)
              ELSE writeVariable(v.data[1])
         [] type = One("Struct") ->
              IF schema = <<>> THEN writeStruct(v.data) ELSE writeWithSchema(schema[1], v.data)
         [] ~type.array /\ type.kind \notin {"Dynamic", "Struct"} -> writeOne(type.kind, v.data)
         [] type = Many("Struct") -> AllOf(<<writeLength(Len(v.data.structs))>> \o parts)
         [] type.array /\ type.kind \in FixedBytes -> Thrown
         [] OTHER -> AllOf(<<writeLength(Len(v.data))>> \o parts)

\* Mutant: the fields are written in the order in which the struct has them.
writeWithSchema_OwnOrder(schema, fields) ==
    LET known == SelectSeq(fields, LAMBDA f : AtName(schema.fields, f.name) # 0)
    IN AllOf([i \in DOMAIN known |->
                LET f == schema.fields[AtName(schema.fields, known[i].name)]
                IN writeStatic(f.type, known[i].value, f.structure)])

\* The fields of the schema, then, if it takes them, those that are not in it.
writeWithSchema(schema, fields) ==
    LET ofSchema ==
          [i \in DOMAIN schema.fields |->
             LET f == schema.fields[i]
                 at == AtName(fields, f.name)
             IN writeStatic(f.type, IF at = 0 THEN fromType(f.type) ELSE fields[at].value,
                            f.structure)]
        extras == SelectSeq(fields, LAMBDA f : AtName(schema.fields, f.name) = 0)
        complete == Len(fields) = Len(schema.fields) /\ HasAll(schema, fields)
    IN AllOf(ofSchema \o IF ~DynamicExtras(schema) THEN <<>>
                         ELSE IF complete THEN <<writeLength(0)>>
                         ELSE <<writeNamedList(extras)>>)

-----------------------------------------------------------------------------
(* Reading.                                                                *)

RECURSIVE readVariable(_, _), readStatic(_, _, _), readWithSchema(_, _)

readNamed(any, s) ==
    Then(SmallString_read(s),
         LAMBDA name, rest : Mapped(readVariable(any, rest), LAMBDA v : VmNamed(name, v)))
readNamedList(s) ==
    Then(readLength(1, s), LAMBDA n, rest : ReadEach(readNamed, Repeat(0, n), rest))
readStruct(any, s) == Mapped(readNamedList(s), SortedByName)

\* A byte alone has no sign, and eight bytes have one only in an array.
readOne(type, s) ==
    LET kind == type.kind IN
    CASE kind = "Int8" -> Mapped(TakeBytes(s, 1), Magnitude)
      [] kind \in {"Int16", "Int32"} \/ type = Many("Int64") -> readFixed(SizeOf[kind], s)
      [] type = One("Int64") -> readU64(s)
      [] kind = "Int256" -> readCompact(s)
      [] kind = "Bytes" -> readArray(s)
      [] kind = "String" -> readSz(s)
      [] kind = "Dynamic" -> readVariable(type, s)
      [] kind \in FixedBytes -> TakeBytes(s, SizeOf[kind])

readVariable(any, s) ==
    IF s = <<>> THEN Thrown
    ELSE IF s[1] > 2 * Len(VmKinds) - 1 THEN Thrown
    ELSE readStatic(VmTypeOf(s[1]), <<>>, Tail(s))

LeastSize(kind) ==
    CASE kind \in IntKinds -> SizeOf[kind] [] kind = "Bytes" -> LengthSize [] OTHER -> 1

\* The structs of an array have the schema that is given, or the one written before them
\* unless that one is empty.  Their number is not looked at.
readStructs(schema, s) ==
    Then(readFixed(LengthSize, s),
         LAMBDA n, rest :
           IF n < 0 THEN Thrown
           ELSE Then(IF schema = <<>> THEN VmSchema_read(0, rest) ELSE Got(schema[1], rest),
                     LAMBDA used, after :
                       Mapped(IF schema = <<>> /\ used.fields = <<>>
                              THEN ReadEach(readStruct, Repeat(0, n), after)
                              ELSE ReadEach(readWithSchema, Repeat(used, n), after),
                              LAMBDA structs : [schema |-> used, structs |-> structs])))

readStatic(type, schema, s) ==
    Mapped(CASE type = Many("Struct") -> readStructs(schema, s)
             [] type = One("Struct") ->
                  IF schema = <<>> THEN readStruct(0, s) ELSE readWithSchema(schema[1], s)
             [] type = One("Dynamic") -> Mapped(readVariable(0, s), LAMBDA v : <<v>>)
             [] type.array /\ type.kind # "Struct" ->
                  Then(readLength(LeastSize(type.kind), s),
                       LAMBDA n, rest : ReadEach(readOne, Repeat(type, n), rest))
             [] OTHER -> readOne(type, s),
           LAMBDA data : VmVariable(type, data))

\* The structure of a field is not handed on: a struct in a field is read as one that
\* describes itself.
readWithSchema(schema, s) ==
    LET FieldRead(f, left) ==
          Mapped(readStatic(f.type, <<>>, left), LAMBDA v : VmNamed(f.name, v))
    IN Then(ReadEach(FieldRead, schema.fields, s),
            LAMBDA fields, rest :
              IF DynamicExtras(schema)
              THEN Mapped(readNamedList(rest), LAMBDA extras : SortedByName(fields \o extras))
              ELSE Got(IF KeepsOrder(schema) THEN fields ELSE SortedByName(fields), rest))
-----------------------------------------------------------------------------
(* Properties.                                                             *)

\* A value as its bytes give it back: the same bits, a struct sorted by name, and nothing as
\* no values.
RECURSIVE AsStored(_)
StoredFields(fields) ==
    SortedByName([i \in DOMAIN fields |-> VmNamed(fields[i].name, AsStored(fields[i].value))])
\* What a schema says about a struct: each of its fields, with the default where the struct
\* has none of that name and type, and the other fields if the schema takes more.
UnderSchema(schema, fields) ==
    LET Kept(f) ==
          LET at == AtName(fields, f.name)
          IN IF at # 0 /\ fields[at].value.type = f.type THEN fields[at].value ELSE fromType(f.type)
        extras == IF ~DynamicExtras(schema) THEN <<>>
                  ELSE SelectSeq(fields, LAMBDA f : AtName(schema.fields, f.name) = 0)
    IN StoredFields([i \in DOMAIN schema.fields |->
                       VmNamed(schema.fields[i].name, Kept(schema.fields[i]))] \o extras)
StoredOne(type, x) ==
    LET kind == type.kind
        bits == x % Power[SizeOf[kind]]
    IN CASE kind = "Int8" \/ type = One("Int64") -> bits
         [] kind \in IntKinds /\ type # One("Int64") -> Signed(bits, SizeOf[kind])
         [] kind = "Int256" -> AsWord(x)
         [] kind = "Dynamic" -> AsStored(x)
         [] OTHER -> x
AsStored(v) ==
    VmVariable(v.type,
        CASE v.type = One("Dynamic") ->
               <<IF v.data = <<>> THEN fromType(Many("Dynamic")) ELSE AsStored(v.data[1])>>
          [] v.type = One("Struct") -> StoredFields(v.data)
          [] v.type = Many("Struct") ->
               [v.data EXCEPT !.structs =
                  [i \in DOMAIN @ |-> IF v.data.schema.fields = <<>> THEN StoredFields(@[i])
                                      ELSE UnderSchema(v.data.schema, @[i])]]
          [] ~v.type.array /\ v.type.kind \notin {"Dynamic", "Struct"} -> StoredOne(v.type, v.data)
          [] OTHER -> [i \in DOMAIN v.data |-> StoredOne(v.type, v.data[i])])

\* An array that was cut short at a struct that lacks a field of its schema.
CutShort(v) ==
    v.type = Many("Struct") /\ Len(Attempted(v.data.schema, v.data.structs)) < Len(v.data.structs)

\* A variable that describes itself is read back, to the last byte and from no fewer.  Only
\* an array of blobs of fixed size cannot be written, and only an array of structs that was
\* cut short cannot be read: its reader misses the structs that were counted, and throws.
VariableSurvives(v) ==
    LET s == writeVariable(v) IN
      IF v.type.array /\ v.type.kind \in FixedBytes THEN s = Thrown
      ELSE IF CutShort(v) THEN s # Thrown /\ readVariable(0, s) = Thrown
      ELSE \A n \in 0..Len(s) :
             readVariable(0, Take(s, n)) = IF n = Len(s) THEN Got(AsStored(v), <<>>) ELSE Thrown

\* A struct is read back with the schema it was written with, which itself survives; nothing
\* it holds goes under another name.  Structs in its fields excepted: see readWithSchema.
SchemaSurvives(schema, fields) ==
    /\ VmSchema_read(0, VmSchema_write(schema)) = Got(schema, <<>>)
    /\ LET r == readWithSchema(schema, writeWithSchema(schema, fields))
       IN /\ r # Thrown /\ r.rest = <<>>
          /\ SortedByName(r.v) = UnderSchema(schema, fields)
=============================================================================
