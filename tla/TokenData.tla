----------------------------- MODULE TokenData -----------------------------
(***************************************************************************)
(* Tokens, series and instances: the schemas and metadata they are created *)
(* with (modules/builders), what is written of them (modules), and the     *)
(* calls that carry them (tx-helpers).                                     *)
(*                                                                         *)
(* A value a caller gives has the kind it has in the host language; a list *)
(* of named fields and an object with those properties are both a record.  *)
(* The names of the standard fields are cut to what tells them apart.      *)
(***************************************************************************)
EXTENDS DynamicValues

CONSTANTS
    MaxSafe,          \* Number.MAX_SAFE_INTEGER
    IsIcon(_)         \* whether a text is a data URI of an image in base64

ASSUME TokenDataAssumption == MaxSafe \in Nat

Given(js, v) == [js |-> js, v |-> v]
Meta(name, value) == [name |-> name, value |-> value]

Lower(text) == [i \in DOMAIN text |-> IF text[i] \in 65..90 THEN text[i] + 32 ELSE text[i]]
Upper == 65..90
Blank(text) == \A i \in DOMAIN text : text[i] = 32
Trim(text) ==
    IF Blank(text) THEN <<>>
    ELSE LET inked == {i \in DOMAIN text : text[i] # 32}
         IN SubSeq(text, CHOOSE i \in inked : \A j \in inked : i <= j,
                         CHOOSE i \in inked : \A j \in inked : i >= j)

HexValue(c) ==
    CASE c \in 48..57 -> c - 48 [] c \in 97..102 -> c - 87 [] c \in 65..70 -> c - 55 [] OTHER -> -1
hexToBytes(text) ==
    LET trimmed == Trim(text)
        hex == IF Len(trimmed) > 1 /\ trimmed[1] = 48 /\ trimmed[2] \in {88, 120}
               THEN Drop(trimmed, 2) ELSE trimmed
    IN IF Len(hex) % 2 # 0 \/ \E i \in DOMAIN hex : HexValue(hex[i]) < 0 THEN Thrown
       ELSE [i \in 1..(Len(hex) \div 2) |-> 16 * HexValue(hex[2 * i - 1]) + HexValue(hex[2 * i])]

-----------------------------------------------------------------------------
(* Values of metadata.                                                     *)

ensureNonEmptyString(x) == IF x.js = "string" /\ ~Blank(x.v) THEN x.v ELSE Thrown

\* As a signed number of that size or as an unsigned one.
InRange(n, size) == -(Power[size] \div 2) <= n /\ n < Power[size]
ensureIntegerInRange(x, size) == IF x.js = "number" /\ InRange(x.v, size) THEN x.v ELSE Thrown
ensureBigInt(x, size) ==
    IF /\ x.js \in {"number", "bigint"}
       /\ x.js = "number" => -MaxSafe <= x.v /\ x.v <= MaxSafe
       /\ InRange(x.v, size)
    THEN x.v ELSE Thrown

ensureBytes(x) ==
    CASE x.js = "bytes" -> x.v
      [] x.js = "string" /\ ~Blank(x.v) -> hexToBytes(x.v)
      [] OTHER -> Thrown
ensureFixedBytes(x, size) ==
    LET bytes == ensureBytes(x)
    IN IF bytes = Thrown THEN Thrown ELSE IF Len(bytes) = size THEN bytes ELSE Thrown

RECURSIVE normalizeScalarValue(_, _, _), normalizeStructValue(_, _)

normalizeArrayValue(type, x, structure) ==
    LET kind == type.kind
    IN IF kind = "Dynamic" \/ (kind = "Struct" /\ structure = <<>>) THEN Thrown
       ELSE Whole([i \in DOMAIN x.v |-> normalizeScalarValue(kind, x.v[i], structure)],
                  LAMBDA each :
                    CASE kind = "Int8" -> [i \in DOMAIN each |-> each[i] % Base]
                      [] kind = "Struct" -> [schema |-> structure[1], structs |-> each]
                      [] OTHER -> each)

\* A field whose type went missing throws as soon as its type is looked at.
normalizeMetadataValue(f, x) ==
    CASE f.type = NotGiven \/ x.js = "null" -> Thrown
      [] f.type # NotGiven /\ f.type.array ->
           IF x.js = "array" THEN normalizeArrayValue(f.type, x, f.structure) ELSE Thrown
      [] OTHER -> normalizeScalarValue(f.type.kind, x, f.structure)

normalizeScalarValue(kind, x, structure) ==
    CASE kind = "String" -> ensureNonEmptyString(x)
      [] kind \in {"Int8", "Int16", "Int32"} -> ensureIntegerInRange(x, SizeOf[kind])
      [] kind = "Int64" -> ensureBigInt(x, LongSize)
      [] kind = "Int256" -> ensureBigInt(x, WordSize)
      [] kind = "Bytes" -> ensureBytes(x)
      [] kind \in FixedBytes -> ensureFixedBytes(x, SizeOf[kind])
      [] kind = "Struct" -> normalizeStructValue(structure, x)
      [] kind = "Dynamic" -> Thrown

\* The variable that the metadata gives for a field: it must be there under that very name.
FieldGiven(f, metadata) ==
    LET at == AtName(metadata, f.name) IN
    IF at = 0 THEN Thrown
    ELSE Made(normalizeMetadataValue(f, metadata[at].value),
              LAMBDA data : VmNamed(f.name, VmVariable(f.type, data)))

\* All the fields of a struct must be given, and nothing that is none of them in any case.
normalizeStructValue(structure, x) ==
    LET fields == structure[1].fields
        known == {Lower(fields[i].name) : i \in DOMAIN fields}
    IN IF \/ structure = <<>> \/ x.js # "record"
          \/ \E i \in DOMAIN x.v : Lower(x.v[i].name) \notin known
       THEN Thrown
       ELSE Whole([i \in DOMAIN fields |-> FieldGiven(fields[i], x.v)], LAMBDA given : given)

\* The name may be in any case.
findMetadataField(metadata, name) == SelectInSeq(metadata, LAMBDA m : Lower(m.name) = Lower(name))

pushMetadataField(f, metadata) == FieldGiven(f, metadata)

-----------------------------------------------------------------------------
(* Schemas of a token.                                                     *)

Id == <<95, 105>>
Mode == <<109, 111>>
Rom == <<114, 111, 109>>

Typed(name, type) == [name |-> name, type |-> type]
seriesDefaultMetadataFields ==
    <<Typed(Id, One("Int256")), Typed(Mode, One("Int8")), Typed(Rom, One("Bytes"))>>
nftDefaultMetadataFields == <<Typed(Id, One("Int256")), Typed(Rom, One("Bytes"))>>
\* name, description, imageURL, infoURL, royalties
standardMetadataFields ==
    <<Typed(<<110, 97>>, One("String")), Typed(<<100>>, One("String")),
      Typed(<<105, 109, 85>>, One("String")), Typed(<<105, 110, 85>>, One("String")),
      Typed(<<114, 111, 121>>, One("Int32"))>>

\* Each field is in one of the schemas, and has its type in the first that has it.
assertMetadataField(schemas, types) ==
    \A i \in DOMAIN types :
      LET having == SelectSeq(schemas, LAMBDA s : AtName(s.fields, types[i].name) # 0)
      IN /\ having # <<>>
         /\ having[1].fields[AtName(having[1].fields, types[i].name)].type = types[i].type

SchemaOf(types) ==
    VmSchema([i \in DOMAIN types |-> NamedSchema(types[i].name, types[i].type)], 0)
AnyFields == VmSchema(<<>>, 1)
defaultSeriesSchema(shared) ==
    SchemaOf(seriesDefaultMetadataFields \o IF shared THEN standardMetadataFields ELSE <<>>)
defaultNftRomSchema(shared) ==
    SchemaOf(nftDefaultMetadataFields \o IF shared THEN <<>> ELSE standardMetadataFields)
seriesSchemaFromFieldTypes(types) == SchemaOf(seriesDefaultMetadataFields \o types)
nftRomSchemaFromFieldTypes(types) == SchemaOf(nftDefaultMetadataFields \o types)
nftRamSchemaFromFieldTypes(types) == IF types = <<>> THEN AnyFields ELSE SchemaOf(types)

prepareStandard(shared) ==
    [seriesMetadata |-> defaultSeriesSchema(shared), rom |-> defaultNftRomSchema(shared),
     ram |-> AnyFields]

verify(schemas) ==
    /\ assertMetadataField(<<schemas.seriesMetadata, schemas.rom>>, standardMetadataFields)
    /\ assertMetadataField(<<schemas.seriesMetadata>>, seriesDefaultMetadataFields)
    /\ assertMetadataField(<<schemas.rom>>, nftDefaultMetadataFields)

fromJson(json) ==
    LET schemas == [seriesMetadata |-> seriesSchemaFromFieldTypes(json.seriesMetadata),
                    rom |-> nftRomSchemaFromFieldTypes(json.rom),
                    ram |-> nftRamSchemaFromFieldTypes(json.ram)]
    IN IF verify(schemas) THEN schemas ELSE Thrown

TokenSchemas_write(t) ==
    AllOf(<<VmSchema_write(t.seriesMetadata), VmSchema_write(t.rom), VmSchema_write(t.ram)>>)
TokenSchemas_read(s) ==
    Mapped(ReadEach(VmSchema_read, <<0, 0, 0>>, s),
           LAMBDA three : [seriesMetadata |-> three[1], rom |-> three[2], ram |-> three[3]])

-----------------------------------------------------------------------------
(* Metadata of a series, of an instance and of a token.                    *)

Names(types) == {types[i].name : i \in DOMAIN types}

\* The fields of the builder and those that are given for the rest of the schema.
BuiltWith(schema, own, metadata) ==
    LET asked == SelectSeq(schema.fields, LAMBDA f : f.name \notin Names(own))
    IN Whole([i \in DOMAIN asked |-> pushMetadataField(asked[i], metadata)],
             LAMBDA given : writeWithSchema(schema, own \o given))

\* The shared ROM: nothing when it is not given.
RomGiven(metadata) ==
    LET at == findMetadataField(metadata, Rom)
    IN IF at = 0 THEN Given("bytes", <<>>) ELSE metadata[at].value
RomBytes(x) ==
    CASE x.js = "bytes" -> x.v [] x.js = "string" -> hexToBytes(x.v) [] OTHER -> Thrown

OwnId(n) == VmNamed(Id, VmVariable(One("Int256"), n))
OwnRom(x) == VmNamed(Rom, VmVariable(One("Bytes"), RomBytes(x)))
\* A ROM given as a text is looked at before it is decoded.
OwnMode(x) == VmNamed(Mode, VmVariable(One("Int8"), IF x.v = <<>> THEN 0 ELSE 1))

TokenSeriesMetadata(schema, id, metadata) ==
    LET rom == RomGiven(metadata)
    IN IF RomBytes(rom) = Thrown THEN Thrown
       ELSE BuiltWith(schema, <<OwnId(id), OwnMode(rom), OwnRom(rom)>>, metadata)
NftRom(schema, id, metadata) ==
    LET rom == RomGiven(metadata)
    IN IF RomBytes(rom) = Thrown THEN Thrown
       ELSE BuiltWith(schema, <<OwnId(id), OwnRom(rom)>>, metadata)

\* What the chain fills in itself must not be given, in any case.
ChainOwned == {Id, Rom}
buildPublicMintSchema(schema) ==
    VmSchema(SelectSeq(schema.fields, LAMBDA f : f.name \notin ChainOwned), schema.flags)
PhantasmaNftRom(schema, metadata) ==
    IF \E i \in DOMAIN metadata : Lower(metadata[i].name) \in ChainOwned THEN Thrown
    ELSE BuiltWith(buildPublicMintSchema(schema), <<>>, metadata)

\* name, icon, url, description
Icon == <<105, 99>>
RequiredFields == {<<110, 97>>, Icon, <<117>>, <<100>>}
TokenMetadata(fields) ==
    IF \/ \E i \in DOMAIN fields : fields[i].value.js # "string"
       \/ \E name \in RequiredFields :
            AtName(fields, name) = 0 \/ Blank(fields[AtName(fields, name)].value.v)
       \/ ~IsIcon(fields[AtName(fields, Icon)].value.v)
    THEN Thrown
    ELSE writeStruct([i \in DOMAIN fields |->
           VmNamed(fields[i].name, VmVariable(One("String"), fields[i].value.v))])
-----------------------------------------------------------------------------
(* What is written of tokens, series and instances.                        *)

BigFungible == 1
NonFungible == 2

TokenInfoHead ==
    <<Big("maxSupply"), Plain8("flags"), Plain8("decimals"), Key("owner"), Short("symbol"),
      Data("metadata")>>
OfNft(info) == (info.flags \div NonFungible) % 2 = 1
TokenInfo_write(info) ==
    WriteBlob(TokenInfoHead, info)
    \o IF OfNft(info) THEN writeArray(IF info.tokenSchemas = NotGiven THEN <<>> ELSE info.tokenSchemas)
       ELSE <<>>
TokenInfo_read(s) ==
    Then(ReadBlob(TokenInfoHead, s),
         LAMBDA info, rest :
           IF OfNft(info)
           THEN Mapped(readArray(rest), LAMBDA b : info @@ [tokenSchemas |-> b])
           ELSE Got(info @@ [tokenSchemas |-> NotGiven], rest))

SeriesInfoHead == <<U32("maxMint"), U32("maxSupply"), Key("owner"), Data("metadata")>>
SeriesInfo_write(info) ==
    AllOf(<<WriteBlob(SeriesInfoHead, info), VmSchema_write(info.rom), VmSchema_write(info.ram)>>)
SeriesInfo_read(s) ==
    Then(ReadBlob(SeriesInfoHead, s),
         LAMBDA info, rest :
           Mapped(ReadEach(VmSchema_read, <<0, 0>>, rest),
                  LAMBDA two : info @@ [rom |-> two[1], ram |-> two[2]]))

PhantasmaNftMintInfo == <<Big("phantasmaSeriesId"), Data("rom"), Data("ram")>>
MintPhantasmaNonFungibleArgs ==
    <<U64("tokenId"), Key("address"), Blobs("tokens", PhantasmaNftMintInfo)>>
PhantasmaNftMintResult == <<Key("phantasmaNftId"), U64("carbonInstanceId")>>
TokenListing ==
    <<Plain8("type"), Key("seller"), U64("quoteTokenId"), Big("price"), I64("startDate"),
      I64("endDate")>>

checkIsValidSymbol(symbol) ==
    symbol # <<>> /\ Len(symbol) <= Full /\ ToSet(symbol) \subseteq Upper

TokenInfo_build(p) ==
    LET flags == CASE p.isNFT -> NonFungible
                   [] ~p.isNFT /\ (p.maxSupply = 0 \/ ~is8ByteSafe(p.maxSupply)) -> BigFungible
                   [] OTHER -> 0
        schemas == IF p.isNFT THEN TokenSchemas_write(p.tokenSchemas) ELSE NotGiven
    IN CASE ~checkIsValidSymbol(p.symbol) \/ p.metadata = NotGiven -> Thrown
         [] p.isNFT /\ (~is8ByteSafe(p.maxSupply) \/ p.tokenSchemas = NotGiven) -> Thrown
         [] schemas = Thrown -> Thrown
         [] OTHER -> [maxSupply |-> p.maxSupply, flags |-> flags, decimals |-> p.decimals,
                      owner |-> p.owner, symbol |-> p.symbol, metadata |-> p.metadata,
                      tokenSchemas |-> schemas]

SeriesInfo_build(p) ==
    Made(TokenSeriesMetadata(p.schema, p.id, p.metadata),
         LAMBDA metadata :
           [maxMint |-> p.maxMint, maxSupply |-> p.maxSupply, owner |-> p.owner,
            metadata |-> metadata, rom |-> NoFields, ram |-> NoFields])

-----------------------------------------------------------------------------
(* The calls.                                                              *)

ModuleToken == 1
CreateToken == 2
CreateTokenSeries == 6
MintPhantasmaNonFungible == 27

CallOf(method, args, gasFrom, limits) ==
    base("Call", gasFrom, limits,
         [moduleId |-> ModuleToken, methodId |-> method, args |-> Arguments(args)])

CreateToken_buildTx(info, creator, limits) ==
    CallOf(CreateToken, TokenInfo_write(info), creator, limits)
CreateTokenSeries_buildTx(tokenId, info, creator, limits) ==
    CallOf(CreateTokenSeries, writeFixed(tokenId, LongSize) \o SeriesInfo_write(info), creator, limits)
MintPhantasmaNonFungible_buildTx(p, limits) ==
    IF p.tokens = <<>> THEN Thrown
    ELSE CallOf(MintPhantasmaNonFungible,
                WriteBlob(MintPhantasmaNonFungibleArgs,
                          [tokenId |-> p.tokenId, address |-> p.to, tokens |-> p.tokens]),
                p.sender, limits)
CreateToken_parseResult(s) == readU64(s)
CreateTokenSeries_parseResult(s) == Mapped(TakeBytes(s, LengthSize), Magnitude)
MintPhantasmaNonFungible_parseResult(s) ==
    readArrayBlob(PhantasmaNftMintResult, s)

\* TokenCallArgs: the leading fields of the calls that move a token.
MovedFungible == <<Key("to"), Key("from"), U64("tokenId")>>
MovedNonFungible == MovedFungible \o <<U64s("instanceIds")>>
Burned == <<U64("tokenId"), Key("from")>>
transferFungibleArgs(s) ==
    Mapped(ReadBlob(MovedFungible, s), LAMBDA b : [to |-> b.to, tokenId |-> b.tokenId])
transferNonFungibleArgs(s) ==
    Mapped(ReadBlob(MovedNonFungible, s),
           LAMBDA b : [to |-> b.to, tokenId |-> b.tokenId, instanceCount |-> Len(b.instanceIds)])
mintFungibleArgs(s) == ReadBlob(<<U64("tokenId"), Key("to")>>, s)
burnFungibleArgs(s) == ReadBlob(<<U64("tokenId")>>, s)
burnNonFungibleArgs(s) ==
    Mapped(ReadBlob(Burned \o <<U64s("instanceIds")>>, s),
           LAMBDA b : [tokenId |-> b.tokenId, instanceIds |-> b.instanceIds])

\* The address of an instance: zeros, a one, the token and the instance.
NftPrefix == Repeat(0, KeySize - 2 * LongSize - 1) \o <<1>>
getNftAddress(tokenId, instanceId) ==
    NftPrefix \o writeFixed(tokenId, LongSize) \o writeFixed(instanceId, LongSize)
unpackNftAddress(address) ==
    LET At(n) == Magnitude(SubSeq(address, n + 1, n + LongSize))
        instance == At(KeySize - LongSize)
        half == Power[LongSize \div 2]
    IN [carbonTokenId |-> At(KeySize - 2 * LongSize), instanceId |-> instance,
        seriesId |-> instance % half, mintNumber |-> instance \div half]
isNftAddress(bytes) ==
    /\ Len(bytes) = KeySize
    /\ Take(bytes, KeySize - 2 * LongSize) = NftPrefix
    /\ unpackNftAddress(bytes).carbonTokenId # 0
    /\ unpackNftAddress(bytes).instanceId # 0

-----------------------------------------------------------------------------
(* Properties.                                                             *)

\* Bytes of metadata give with their schema the struct whose fields are
\* those of the builder and, under its very name, each one that was given.
Carries(bytes, schema, own, metadata) ==
    LET asked == SelectSeq(schema.fields, LAMBDA f : f.name \notin Names(own))
        given == [i \in DOMAIN asked |->
                    VmNamed(asked[i].name,
                      VmVariable(asked[i].type,
                        normalizeMetadataValue(asked[i],
                          metadata[AtName(metadata, asked[i].name)].value)))]
        r == readWithSchema(schema, bytes)
    IN /\ Names(asked) \subseteq Names(metadata)
       /\ r # Thrown /\ r.rest = <<>>
       /\ \A i \in DOMAIN r.v :
            LET f == StoredFields(own \o given) IN r.v[i] = f[AtName(f, r.v[i].name)]
       /\ Len(r.v) = Len(schema.fields)

\* No field of a schema is lost, renamed or left to a default without an error: in a series,
\* in an instance, and in a public mint, which never holds a field of the chain's.
MetadataKept(schema, id, metadata) ==
    LET rom == RomGiven(metadata)
        public == buildPublicMintSchema(schema)
        Own(made) ==
          CASE made = "series" -> <<OwnId(id), OwnMode(rom), OwnRom(rom)>>
            [] made = "instance" -> <<OwnId(id), OwnRom(rom)>>
            [] made = "public mint" -> <<>>
        Built(made) ==
          CASE made = "series" -> TokenSeriesMetadata(schema, id, metadata)
            [] made = "instance" -> NftRom(schema, id, metadata)
            [] made = "public mint" -> PhantasmaNftRom(schema, metadata)
    IN /\ Names(public.fields) \cap ChainOwned = {}
       /\ \A made \in {"series", "instance", "public mint"} :
            \A bytes \in {Built(made)} \ {Thrown} :
              Carries(bytes, IF made = "public mint" THEN public ELSE schema, Own(made), metadata)

\* The standard schemas and those taken from JSON can be written, survive, and ask between
\* them for every standard field, each with its type.
SchemasStand(schemas) ==
    schemas # Thrown =>
      /\ TokenSchemas_read(TokenSchemas_write(schemas)) = Got(schemas, <<>>)
      /\ \A i \in DOMAIN standardMetadataFields :
           \E f \in ToSet(schemas.seriesMetadata.fields \o schemas.rom.fields) :
             Typed(f.name, f.type) = standardMetadataFields[i]

\* A token that could be built goes in a call that gives it back; a supply that does not fit
\* a signed word, or has no limit, is only ever that of a big fungible token.
TokenSound(p, limits) ==
    \A info \in {TokenInfo_build(p)} \ {Thrown} :
      \A call \in {TxMsg_read(TxMsg_write(CreateToken_buildTx(info, p.owner, limits)))} :
        LET bits == Power[LongSize] \div 2
        IN /\ call.rest = <<>>
           /\ TokenInfo_read(call.v.msg.args.bytes) = Got(info, <<>>)
           /\ p.isNFT => TokenSchemas_read(info.tokenSchemas) = Got(p.tokenSchemas, <<>>)
           /\ ~p.isNFT /\ p.maxSupply \notin 1..(bits - 1) => info.flags = BigFungible

\* The same for a series and for a mint.
SeriesSound(tokenId, p, limits) ==
    \A info \in {SeriesInfo_build(p)} \ {Thrown} :
      \A call \in {TxMsg_read(TxMsg_write(CreateTokenSeries_buildTx(tokenId, info, p.owner, limits)))} :
        LET args == call.v.msg.args.bytes
        IN /\ readU64(args).v = tokenId
           /\ SeriesInfo_read(readU64(args).rest) = Got(info, <<>>)

MintSound(p, limits) ==
    LET msg == MintPhantasmaNonFungible_buildTx(p, limits) IN
      msg # Thrown =>
        ReadBlob(MintPhantasmaNonFungibleArgs, TxMsg_read(TxMsg_write(msg)).v.msg.args.bytes)
          = Got([tokenId |-> p.tokenId, address |-> p.to, tokens |-> p.tokens], <<>>)

\* What the planner reads of a call is what the call moves, whatever follows; an address is
\* an instance's when it is the one made for a token and an instance that exist.
MovesRead(to, from, tokenId, ids, after) ==
    LET moved == [to |-> to, from |-> from, tokenId |-> tokenId, instanceIds |-> ids]
        Then_(layout) == WriteBlob(layout, moved) \o after
        one == getNftAddress(tokenId, ids[1])
    IN /\ transferFungibleArgs(Then_(MovedFungible)).v = [to |-> to, tokenId |-> tokenId]
       /\ transferNonFungibleArgs(Then_(MovedNonFungible)).v
            = [to |-> to, tokenId |-> tokenId, instanceCount |-> Len(ids)]
       /\ burnNonFungibleArgs(Then_(Burned \o <<U64s("instanceIds")>>)).v
            = [tokenId |-> tokenId, instanceIds |-> ids]
       /\ isNftAddress(one) <=> tokenId # 0 /\ ids[1] # 0
       /\ unpackNftAddress(one).carbonTokenId = tokenId
       /\ unpackNftAddress(one).instanceId = ids[1]
=============================================================================
