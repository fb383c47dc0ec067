------------------------------ MODULE MCCodecs ------------------------------
EXTENDS CodecSamples, Scripts, TokenData

NullText == <<83, 49>>

Sample(of, v) == [of |-> of, v |-> v]
Samples(of, set) == sample.v = of /\ \E v \in set : sample' = Sample(of, v)

(***************************************************************************)
(* Numbers and streams: all small numbers, and those about a power of the  *)
(* base or half of one, where a byte more is needed or the sign turns.     *)
(***************************************************************************)
Near(n) == (n - 3)..(n + 3)
Turns == {m * Power[k] : m \in {1, 2, 64}, k \in 0..2}
Edges ==
    (-300..300) \cup UNION {Near(n) \cup Near(-n) : n \in Turns}
    \cup Near(Power[WordSize]) \cup {-Power[WordSize] - 1, -Power[WordSize] - 3}
Counts == (0..130) \cup {16380, 16381, 16383}
Fixnum(n, size) == [t |-> "int", size |-> size, v |-> n]
Compact(n) == [t |-> "compact", v |-> n]
Sz(text) == [t |-> "sz", v |-> text]
Array(bytes) == [t |-> "array", v |-> bytes]
ListOf(of, items) == [t |-> "list", of |-> [of EXCEPT !.v = 0], v |-> items]
Compacts(ns) == ListOf(Compact(0), [i \in DOMAIN ns |-> Compact(ns[i])])
Items ==
    <<Fixnum(-3, 1), Fixnum(-8192, 2), Fixnum(31, 2), Sz(<<>>), Sz(<<127, 3>>), Array(<<>>), Array(<<0, 127>>),
      Compact(-1048576), Compact(-40), Compact(-1), Compact(0), Compact(200), Compact(16384),
      ListOf(Fixnum(0, 2), <<Fixnum(5, 2), Fixnum(-5, 2)>>), Compacts(<<-1, 9>>),
      ListOf(Array(<<>>), <<Array(<<1>>), Array(<<>>)>>), ListOf(Sz(<<>>), <<Sz(<<>>), Sz(<<4>>)>>),
      ListOf(Compacts(<<>>), <<Compacts(<<-1>>), Compacts(<<>>)>>)>>
Bytes == {<<>>, <<1>>, <<7, 7, 3, 1, 2>>, <<4, 5, 6, 7, 1, 2, 3>>}
Obj(t, v) == [t |-> t, v |-> v]
Objs ==
    <<Obj("boolean", TRUE), Obj("boolean", FALSE), Obj("bigint", -1), Obj("bigint", 300), Obj("string", <<>>),
      Obj("string", <<1, 2, 3>>), Obj("list", <<>>),
      Obj("list", <<Obj("boolean", TRUE), Obj("bigint", -9), Obj("string", <<1, 4, 4, 4, 4, 4>>)>>),
      Obj("list", <<Obj("list", <<Obj("bigint", 3)>>), Obj("boolean", FALSE)>>)>>
SampleStream ==
    \/ Samples("number", Edges)
    \/ Samples("carbon", (DOMAIN Items) \X (DOMAIN Items))
    \/ Samples("legacy", Bytes \X Counts \X Bytes)
    \/ Samples("legacyObject", (DOMAIN Objs) \X Bytes)
\* Readers stay in step with writers (CarbonSurvives, LegacySurvives, ObjectSurvives).
StreamsSound ==
    /\ sample.of = "carbon" => CarbonSurvives(<<Items[sample.v[1]], Items[sample.v[2]]>>)
    /\ sample.of = "legacy" => LegacySurvives(sample.v[1], sample.v[2], sample.v[3])
    /\ sample.of = "legacyObject" => ObjectSurvives(Objs[sample.v[1]], sample.v[2])

(***************************************************************************)
(* Objects of the machine.                                                 *)
(***************************************************************************)
Text == {<<>>, <<97>>, <<49, 50>>, <<45, 55>>}
Num(n) == Object("Number", n)
Str(t) == Object("String", t)
Flat ==
    {None, Object("Bool", TRUE), Object("Bool", FALSE), Num(0), Num(-1), Num(127), Num(-128), Num(300),
     Num(-16384), Object("Enum", 2), Object("Enum", 200), Object("Timestamp", 70000),
     Object("Bytes", <<>>), Object("Bytes", <<0>>), Object("Bytes", <<1, 127>>),
     Address(<<1, 7, 9>>), Raw(<<5, 6>>), Raw(<<1, 7, 9>>), Raw(<<>>)} \cup {Str(t) : t \in Text}
Keys == {Num(0), Num(1), Str(<<97>>), Object("Bool", TRUE)}
Struct(entries) == Object("Struct", entries)
Structs ==
    {Struct(<<>>)} \cup {Struct(<<Entry(k, o)>>) : k \in Keys, o \in Flat}
    \cup {Struct(<<Entry(k, o), Entry(l, Num(65))>>) : k, l \in Keys, o \in Flat}
Nested ==
    {Struct(<<Entry(Str(<<97>>), Struct(<<Entry(Num(0), o)>>)), Entry(Num(1), Struct(<<>>))>>) : o \in Flat}

H(js, v) == Host(js, v)
HostFlat == {H("boolean", TRUE), H("number", 3), H("bigint", -4), H("string", <<97>>), H("bytes", <<1>>), H("null", 0),
             H("array", <<>>), H("record", <<>>)}
HostArrays(set) == {H("array", <<x, y>>) : x, y \in set}
HostRecords(set) == {H("record", <<[key |-> <<97>>, value |-> x], [key |-> <<49>>, value |-> y]>>) : x, y \in set}
HostNested == HostFlat \cup HostArrays(HostFlat) \cup HostRecords(HostFlat)
Hosts == HostNested \cup {H("array", <<x>>) : x \in HostNested}
         \cup {H("record", <<[key |-> <<97>>, value |-> x]>>) : x \in HostNested}

SampleVMObject ==
    \/ Samples("object", (Flat \cup Structs \cup Nested) \X {<<>>, <<3, 1>>})
    \/ Samples("host", Hosts)
\* Objects survive the wire, casts and the host language.
VMObjectsSound ==
    /\ sample.of = "object" => WireSurvives(sample.v[1], sample.v[2]) /\ CastsSound(sample.v[1])
    /\ sample.of = "host" => HostSurvives(sample.v)

(***************************************************************************)
(* Scripts.                                                                *)
(***************************************************************************)
Long == [i \in 1..(MaxLoad + 1) |-> 1]
Args ==
    {H("string", <<97>>), H("boolean", FALSE), H("bigint", -129), H("bigint", 0), H("number", 12), H("bytes", <<>>),
     H("timestamp", 70000), H("address", <<1, 7, 9>>), H("null", 0), H("bytes", Long), H("array", <<>>),
     H("array", <<H("bigint", 1), H("array", <<H("string", <<98>>), H("bigint", 2)>>), H("bytes", <<4>>)>>),
     H("array", <<H("array", <<>>), H("array", <<H("bytes", Long)>>)>>)}
Addr == H("address", <<1, 7, 9>>)
Soul == H("string", <<83>>)
Named(x, y) ==
    {allowGas(x, y, H("bigint", 5), H("number", 9)), spendGas(x), mintTokens(Soul, x, y, H("bigint", 1)),
     transferTokens(Soul, x, y, H("bigint", 200)), transferBalance(Soul, x, y),
     crossTransferToken(y, Soul, x, x, H("bigint", 2)), stake(x, H("bigint", 7)),
     callNft(Soul, H("bigint", 12), <<109>>, <<x, y>>)}
ArgLists == {<<>>} \cup {<<x>> : x \in Args} \cup {<<x, y>> : x, y \in Args}
CallLists ==
    {<<x, Call(<<99>>, <<109>>, as)>> : x \in {Call(Interop, <<101>>, <<>>), spendGas(Addr)}, as \in ArgLists}
    \cup {<<x, y>> : x, y \in Named(Addr, Soul)}
    \cup {buildScript(t, <<99>>, <<109>>, as) : t \in {"interact", "invoke", "interop"}, as \in ArgLists}
Lifecycles ==
    [from : {Addr, H("string", <<80, 32>>), H("string", <<32>>)}, contractName : {<<32, 97>>, <<32>>, <<>>},
     script : {<<>>, <<1, 2>>, Long}, abi : {<<>>, <<3>>}, gasPrice : {H("number", 100000), H("bigint", 3), H("number", 0)},
     gasLimit : {H("number", 9), H("number", -1), H("number", MaxInteger), H("bigint", MaxInteger + 1)}]
SampleScript ==
    \/ Samples("calls", CallLists)
    \/ Samples("lifecycle", Lifecycles)
\* Scripts make the calls they were built for (CallsArrive, LifecycleSound).
ScriptsSound ==
    /\ sample.of = "calls" => CallsArrive(sample.v)
    /\ sample.of = "lifecycle" => \A method \in {<<68>>, <<85>>} : LifecycleSound(method, sample.v)

(***************************************************************************)
(* Transactions.                                                           *)
(***************************************************************************)
\* Stands for SHA256: five bits that depend on every byte.
ToySha(bytes) == FoldLeft(LAMBDA h, b : (7 * h + b + 3) % 32, 0, bytes)
TsPayload == <<116, 115>>
Txs == {Transaction(<<109>>, <<>>, script, ms, payload) :
          script \in {<<>>, <<1, 127, 0>>}, ms \in {129999}, payload \in {<<>>, <<9>>}}
StepOf(do, ns) == {[do |-> do, n |-> n] : n \in ns}
TxSteps == StepOf("mine", {-1, 0, 2, 4}) \cup StepOf("sign", {1, 2})
Helped ==
    [nexus : {<<109>>, <<32>>}, chain : {<<32, 97>>, <<>>}, expiration : {5500}, payload : {<<>>, <<1>>},
     proofOfWork : {0, 1, 3, 5, 9}]
SampleTransaction ==
    \/ Samples("steps", Txs \X UNION {[1..n -> TxSteps] : n \in 0..3})
    \/ Samples("helped", Helped \X {<<>>, <<1, 2>>} \X {1, 2})

(***************************************************************************)
(* Messages and their envelopes.                                           *)
(***************************************************************************)
ToyEd25519(key, bytes) == <<key[KeySize], ToySha(bytes)>>
\* A burn is not priced when nobody says what the token held.
ToyQuote(msg, length) ==
    IF msg.type = "BurnNonFungible" THEN Thrown ELSE [maxGas |-> 3 * length + 1, maxData |-> length + msg.maxData]
Account(a, b) == Repeat(0, KeySize - 2) \o <<a, b>>
Alice == Account(1, 2)
Bob == Account(5, 0)
Carol == Account(9, 9)
ToTransfer == [to |-> Carol, from |-> Bob, tokenId |-> 1, amount |-> 9000]
ToTransferNft == [to |-> Carol, from |-> Bob, tokenId |-> 1, instanceId |-> 16383]
ToMint == [tokenId |-> 1, to |-> Carol, amount |-> 70000]
ToBurn == [tokenId |-> 1, from |-> Bob, amount |-> -8193]
ToMintNft == [tokenId |-> 1, to |-> Carol, seriesId |-> 9000, rom |-> <<>>, ram |-> <<1>>]
ToBurnNft == [tokenId |-> 1, from |-> Bob, instanceId |-> 2]
ToCall(args) == [moduleId |-> 1, methodId |-> 16383, args |-> args]
Section(n, bytes) == [registerOffset |-> n, args |-> bytes]
Calls ==
    {ToCall(Arguments(<<>>)), ToCall(Arguments(<<1, 0>>)),
     ToCall(Sections(<<Section(-3, <<>>), Section(0, <<4>>), Section(0, <<>>)>>))}
PayloadsOf(type) ==
    CASE type = "Call" -> Calls
      [] type = "Call_Multi" -> {[calls |-> <<>>]} \cup {[calls |-> <<c, d>>] : c, d \in Calls}
      [] type = "Trade" ->
           {[transferF |-> <<>>, transferN |-> <<>>, mintF |-> <<>>, burnF |-> <<>>, mintN |-> <<>>, burnN |-> <<>>],
            [transferF |-> <<ToTransfer>>, transferN |-> <<ToTransferNft, ToTransferNft>>, mintF |-> <<ToMint>>,
             burnF |-> <<ToBurn>>, mintN |-> <<ToMintNft>>, burnN |-> <<ToBurnNft>>]}
      [] type = "TransferFungible" -> {[to |-> Carol, tokenId |-> 16383, amount |-> 0]}
      [] type = "TransferFungible_GasPayer" -> {ToTransfer, [ToTransfer EXCEPT !.from = Alice]}
      [] type = "TransferNonFungible_Single" -> {[to |-> Carol, tokenId |-> 16383, instanceId |-> 0]}
      [] type = "TransferNonFungible_Single_GasPayer" -> {ToTransferNft}
      [] type = "TransferNonFungible_Multi" -> {[to |-> Carol, tokenId |-> 1, instanceIds |-> <<>>]}
      [] type = "TransferNonFungible_Multi_GasPayer" ->
           {[to |-> Carol, from |-> f, tokenId |-> 1, instanceIds |-> <<16383, 0>>] : f \in {Alice, Bob}}
      [] type = "MintFungible" -> {ToMint}
      [] type = "BurnFungible" -> {[tokenId |-> 1, amount |-> 1048575]}
      [] type = "BurnFungible_GasPayer" -> {ToBurn, [ToBurn EXCEPT !.from = Alice]}
      [] type = "MintNonFungible" -> {ToMintNft}
      [] type = "BurnNonFungible" -> {[tokenId |-> 0, instanceId |-> 0]}
      [] type = "BurnNonFungible_GasPayer" -> {ToBurnNft, [ToBurnNft EXCEPT !.from = Alice]}
      [] type = "Phantasma" -> {[nexus |-> <<3>>, chain |-> <<>>, script |-> <<1, 2>>]}
      [] type = "Phantasma_Raw" -> {[transaction |-> <<7>>]}
SampledMessages ==
    UNION {{TxMsg(type, [expiry |-> -1, maxGas |-> gas, maxData |-> 7, gasFrom |-> Alice, payload |-> <<4>>], payload)
             : gas \in {0, 16000}, payload \in PayloadsOf(type)} : type \in ToSet(TxTypes)}
Signer(key, id) == [key |-> key, id |-> id]
Signers == {Signer(Alice, 1), Signer(Alice, 2), Signer(Bob, 3), Signer(Carol, 4)}
SignerLists == {<<>>} \cup {<<x>> : x \in Signers} \cup {<<x, y>> : x, y \in Signers}
               \cup {<<x, Signer(Bob, 3), x>> : x \in Signers}
Params ==
    [to : {Carol}, from : {Bob}, gasPayer : {Nobody, Alice, Bob}, tokenId : {3}, amount : {0, 9000},
     instanceIds : {<<8>>, <<8, 9>>}, maxGas : {0, 5}, maxData : {6}, expiry : {70}]
SampleMessage ==
    \/ Samples("message", SampledMessages \X SignerLists)
    \/ Samples("built", Params)

(***************************************************************************)
(* Values of metadata, schemas and tokens.                                 *)
(***************************************************************************)
ToyIcon(text) == Len(text) = 2
\* A few values of each kind, and pairs of them in an array.
ValuesOf(kind) ==
    CASE kind = "Int8" -> <<-64, -1, 0, 127>>
      [] kind = "Int16" -> <<-8192, -3, 16383>>
      [] kind = "Int32" -> <<-8192, 70, 16383>>
      [] kind = "Int64" -> <<-1, 5, 16383>>
      [] kind = "Int256" -> <<-1048576, -1, 0, 200, 2097151>>
      [] kind = "Bytes" -> <<<<>>, <<7, 0>>>>
      [] kind = "Bytes16" -> <<<<1, 0, 127>>>>
      [] kind = "Bytes32" -> <<Alice>>
      [] kind = "Bytes64" -> <<<<3, 4>>>>
      [] kind = "String" -> <<<<>>, <<97, 1>>>>
Leaves ==
    FlattenSeq([k \in 1..(Len(VmKinds) - 2) |->
      LET kind == (<<"Bytes">> \o SubSeq(VmKinds, 4, Len(VmKinds)))[k]
          values == ValuesOf(kind)
          arrays == IF kind = "Int8" THEN <<<<>>, <<0, 127>>>> ELSE <<<<>>, <<values[1], values[Len(values)]>>>>
      IN [i \in DOMAIN values |-> VmVariable(One(kind), values[i])]
         \o [i \in DOMAIN arrays |-> VmVariable(Many(kind), arrays[i])]])
Writable == SelectSeq(Leaves, LAMBDA v : ~(v.type.array /\ v.type.kind \in FixedBytes))
X == <<120>>
XU == <<88>>
Y == <<121>>
Loose(v) == <<VmNamed(Y, v), VmNamed(XU, fromType(One("String"))), VmNamed(X, v)>>
XSchema(v, flags) == VmSchema(<<NamedSchema(X, v.type)>>, flags)
Around(v) ==
    <<v, VmVariable(One("Struct"), <<>>), VmVariable(One("Struct"), Loose(v)), fromType(One("Dynamic")),
      VmVariable(One("Dynamic"), <<v>>), VmVariable(Many("Dynamic"), <<v, VmVariable(One("Struct"), Loose(v))>>),
      VmVariable(Many("Struct"), [schema |-> NoFields, structs |-> <<Loose(v), <<>>>>]),
      VmVariable(Many("Struct"), [schema |-> XSchema(v, 0), structs |-> <<<<VmNamed(X, v)>>>>]),
      VmVariable(Many("Struct"), [schema |-> XSchema(v, 1), structs |-> <<Loose(v), <<VmNamed(X, v)>>>>]),
      VmVariable(Many("Struct"), [schema |-> XSchema(v, 0), structs |-> <<Loose(v), <<VmNamed(Y, v)>>>>]),
      VmVariable(Many("Struct"), [schema |-> XSchema(v, 1), structs |-> <<<<VmNamed(Y, v)>>, Loose(v)>>])>>
\* Schemas whose fields are in and out of order; structs that miss one, have more or another type.
SchemaOver(v, w, flags) ==
    <<VmSchema(<<NamedSchema(Y, w.type), NamedSchema(X, v.type)>>, flags), XSchema(v, flags), VmSchema(<<>>, flags)>>
FieldsOver(v, w) ==
    <<<<VmNamed(X, v), VmNamed(Y, w)>>, <<VmNamed(Y, v), VmNamed(X, w)>>, <<VmNamed(X, v)>>, <<>>, Loose(v)>>

JsValues ==
    <<Given("string", <<97, 98>>), Given("string", <<32>>), Given("string", <<48, 120>>), Given("string", <<49, 65, 32>>),
      Given("number", 5), Given("number", -64), Given("number", 255), Given("number", 16383), Given("number", -8193),
      Given("number", 100000), Given("bigint", 2097151), Given("bigint", -7),
      Given("bytes", <<1, 2, 3>>), Given("bytes", <<>>), Given("bytes", Alice), Given("null", 0),
      Given("array", <<>>), Given("array", <<Given("number", 5), Given("number", 6)>>),
      Given("array", <<Given("bytes", <<1>>), Given("string", <<48, 49>>)>>),
      Given("record", <<>>), Given("record", <<Meta(X, Given("number", 5))>>)>>
MetaTypes ==
    {One("String"), One("Int8"), One("Int16"), One("Int32"), One("Int64"), One("Int256"), One("Bytes"), One("Bytes16"),
     One("Bytes32"), One("Dynamic"), Many("Int8"), Many("Int64"), Many("Bytes"), Many("String"), Many("Dynamic")}
RomText == <<48, 49>>
MetaLists(i) ==
    <<<<>>, <<Meta(X, JsValues[i])>>, <<Meta(XU, JsValues[i]), Meta(X, JsValues[i])>>, <<Meta(XU, JsValues[i])>>,
     <<Meta(Y, JsValues[5]), Meta(X, JsValues[i]), Meta(<<82, 79, 77>>, Given("string", RomText))>>,
     <<Meta(X, JsValues[i]), Meta(Rom, JsValues[i])>>, <<Meta(Id, Given("number", 9)), Meta(X, JsValues[i])>>>>
SchemasAround(type) ==
    LET own == SchemaOf(nftDefaultMetadataFields).fields
        x == NamedSchema(X, type)
    IN {VmSchema(<<x>>, 0), VmSchema(<<x>> \o own, 0), VmSchema(<<own[2], x, own[1]>>, 2),
        VmSchema(<<x, NamedSchema(Mode, One("Int8"))>> \o own, 0)}
\* All of the standard fields, in the series, in the instances, in both, in another case or of another type.
JsonTypes ==
    LET std == standardMetadataFields
    IN {<<>>, std, SubSeq(std, 1, 2), SubSeq(std, 3, 5), <<Typed(<<78, 65>>, One("String"))>> \o Tail(std),
        <<Typed(<<110, 97>>, One("Bytes"))>> \o Tail(std), <<Typed(X, Many("Int16"))>>}
Jsons == [seriesMetadata : JsonTypes, rom : JsonTypes, ram : {<<>>, <<Typed(X, One("Bytes64"))>>}]
NewTokens ==
    [symbol : {<<65, 90>>, <<>>, <<65, 97>>}, maxSupply : {0, 1, 8191, 8192, 70000}, isNFT : BOOLEAN, decimals : {8},
     owner : {Bob}, metadata : {NotGiven, <<4, 5>>},
     tokenSchemas : {NotGiven, prepareStandard(TRUE), prepareStandard(FALSE)}]
NewSeries ==
    [schema : {defaultSeriesSchema(FALSE)}, id : {-1, 300}, maxMint : {0, 16383}, maxSupply : {9}, owner : {Carol},
     metadata : 1..3]
SeriesMetadata == <<<<>>, <<Meta(Rom, Given("bytes", <<1>>))>>, <<Meta(Rom, Given("number", 1))>>>>
Mints ==
    [tokenId : {16383}, sender : {Bob}, to : {Carol},
     tokens : {<<>>, <<[phantasmaSeriesId |-> -5, rom |-> <<1>>, ram |-> <<>>],
                       [phantasmaSeriesId |-> 70000, rom |-> <<>>, ram |-> <<2, 3>>]>>}]
Offer == [maxGas |-> 5, maxData |-> 6, expiry |-> 70]
SampleTokenData ==
    \/ Samples("variable", (DOMAIN Leaves) \X (1..11))
    \/ Samples("schema", (DOMAIN Writable) \X {1, 4, 12, 20} \X (0..3) \X (1..3) \X (1..5))
    \/ \E type \in MetaTypes : Samples("metadata", SchemasAround(type) \X {-1, 200} \X (DOMAIN JsValues) \X (1..7))
    \/ Samples("schemas", Jsons)
    \/ Samples("token", NewTokens)
    \/ Samples("series", {0, 16383} \X NewSeries)
    \/ Samples("mint", Mints)
    \/ Samples("moves", {0, 3, 16383} \X {<<8>>, <<0, 16383>>} \X Bytes)
\* Metadata is read back as it was given (VariableSurvives, SchemaSurvives, MetadataKept), and tokens as they were
\* built (SchemasStand, TokenSound, SeriesSound, MintSound, MovesRead).
TokenDataSound ==
    /\ sample.of = "variable" =>
         LET v == Around(Leaves[sample.v[1]])[sample.v[2]]
             blobs == Leaves[sample.v[1]].type.array /\ Leaves[sample.v[1]].type.kind \in FixedBytes
         IN sample.v[2] = 1 \/ ~blobs => VariableSurvives(v)
    /\ sample.of = "schema" =>
         LET v == Writable[sample.v[1]]
             w == Writable[sample.v[2]]
         IN SchemaSurvives(SchemaOver(v, w, sample.v[3])[sample.v[4]], FieldsOver(v, w)[sample.v[5]])
    /\ sample.of = "metadata" => MetadataKept(sample.v[1], sample.v[2], MetaLists(sample.v[3])[sample.v[4]])
    /\ sample.of = "schemas" => \A schemas \in {fromJson(sample.v), prepareStandard(TRUE), prepareStandard(FALSE)} : SchemasStand(schemas)
    /\ sample.of = "token" => TokenSound(sample.v, Offer)
    /\ sample.of = "series" => SeriesSound(sample.v[1], [sample.v[2] EXCEPT !.metadata = SeriesMetadata[@]], Offer)
    /\ sample.of = "mint" => MintSound(sample.v, Offer)
    /\ sample.of = "moves" => MovesRead(Alice, Bob, sample.v[1], sample.v[2], sample.v[3])

Topics ==
    {"number", "carbon", "legacy", "legacyObject", "object", "host", "calls", "lifecycle", "steps", "helped", "message",
     "built", "variable", "schema", "metadata", "schemas", "token", "series", "mint", "moves"}
Init == \E of \in Topics : sample = Sample("none", of)
Next == sample.of = "none" /\ (SampleStream \/ SampleVMObject \/ SampleScript \/ SampleTransaction \/ SampleMessage \/ SampleTokenData)
=============================================================================
