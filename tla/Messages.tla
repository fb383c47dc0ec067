------------------------------ MODULE Messages ------------------------------
(***************************************************************************)
(* Carbon messages: the blobs a message is made of                         *)
(* (tx-msg.ts and tx-msg-*.ts) and the builders of the native transactions *)
(* (tx-helpers/native-tx-helper.ts).                                       *)
(*                                                                         *)
(* A blob is a record of its fields.  Its layout, the fields in the order  *)
(* in which write() and read() both go through them, says how each one is  *)
(* written.                                                                *)
(***************************************************************************)
EXTENDS Primitives

CONSTANTS
    KeySize,          \* bytes of an address, 32
    SignatureSize,    \* 64
    NotGiven          \* an option that is undefined

\* What is not given is no number and no list of addresses.
ASSUME MessagesAssumption ==
    /\ {KeySize, SignatureSize} \subseteq Nat \ {0}
    /\ NotGiven \notin Nat /\ NotGiven \notin Seq(Seq(Byte))

-----------------------------------------------------------------------------
(* Blobs.                                                                  *)

Field(name, kind, of) == [name |-> name, kind |-> kind, of |-> of]
Plain8(name) == Field(name, "byte", <<>>)
U32(name) == Field(name, "u32", <<>>)
I64(name) == Field(name, "i64", <<>>)
U64(name) == Field(name, "u64", <<>>)
U64s(name) == Field(name, "u64s", <<>>)
Big(name) == Field(name, "intx", <<>>)
Key(name) == Field(name, "key", <<>>)
Sig(name) == Field(name, "signature", <<>>)
Short(name) == Field(name, "small", <<>>)
Blobs(name, layout) == Field(name, "blobs", layout)
Data(name) == Field(name, "array", <<>>)
CallArgs(name) == Field(name, "args", <<>>)

writeIntX(n) == Headed(IntX_write(n))
readIntX(s) == readHeaded(IntX_read, s)

readU64(s) == Mapped(TakeBytes(s, LongSize), Magnitude)

SmallString_write(text) == <<Len(text)>> \o text
SmallString_read(s) == IF s = <<>> THEN Thrown ELSE TakeBytes(Tail(s), s[1])

\* Plain arguments, or sections: each is a register's offset below zero, or bytes.
Sections(sections) == [sections |-> sections, bytes |-> <<>>]
Arguments(bytes) == [sections |-> <<>>, bytes |-> bytes]

MsgCallArgSections_write(sections) ==
    writeLength(-Len(sections))
    \o FlattenSeq([i \in DOMAIN sections |->
         IF sections[i].registerOffset < 0 THEN writeLength(sections[i].registerOffset)
         ELSE writeArray(sections[i].args)])

\* A section that holds bytes forgets its offset.
readSection(type, s) ==
    Then(readFixed(LengthSize, s),
         LAMBDA n, rest :
           IF n < 0 THEN Got([registerOffset |-> n, args |-> <<>>], rest)
           ELSE Mapped(TakeBytes(rest, n), LAMBDA b : [registerOffset |-> 0, args |-> b]))
readWithCount(count, s) == ReadEach(readSection, Repeat(0, -count), s)

TxMsgCall_writeArgs(a) ==
    IF a.sections # <<>> THEN MsgCallArgSections_write(a.sections) ELSE writeArray(a.bytes)
TxMsgCall_readArgs(s) ==
    Then(readFixed(LengthSize, s),
         LAMBDA n, rest : IF n >= 0 THEN Mapped(TakeBytes(rest, n), Arguments)
                          ELSE Mapped(readWithCount(n, rest), Sections))

\* A field that holds no blobs.
WriteField(f, v) ==
    CASE f.kind = "byte" -> Fixed(v, 1)
      [] f.kind = "u32" -> writeFixed(v, LengthSize)
      [] f.kind \in {"u64", "i64"} -> writeFixed(v, LongSize)
      [] f.kind = "u64s" -> writeLength(Len(v))
                            \o FlattenSeq([i \in DOMAIN v |-> writeFixed(v[i], LongSize)])
      [] f.kind = "intx" -> writeIntX(v)
      [] f.kind \in {"key", "signature"} -> v
      [] f.kind = "small" -> SmallString_write(v)
      [] f.kind = "array" -> writeArray(v)
      [] f.kind = "args" -> TxMsgCall_writeArgs(v)

\* Blobs hold fields and lists of blobs, and those in the lists hold fields only.
WriteFlat(layout, blob) ==
    FlattenSeq([i \in DOMAIN layout |-> WriteField(layout[i], blob[layout[i].name])])
writeArrayBlob(layout, blobs) ==
    writeLength(Len(blobs)) \o FlattenSeq([i \in DOMAIN blobs |-> WriteFlat(layout, blobs[i])])
WriteMember(f, v) == IF f.kind = "blobs" THEN writeArrayBlob(f.of, v) ELSE WriteField(f, v)
WriteBlob(layout, blob) ==
    FlattenSeq([i \in DOMAIN layout |-> WriteMember(layout[i], blob[layout[i].name])])

readUnsigned(type, s) == readU64(s)
ReadField(f, s) ==
    CASE f.kind = "byte" -> Mapped(TakeBytes(s, 1), Magnitude)
      [] f.kind = "u32" -> Mapped(TakeBytes(s, LengthSize), Magnitude)
      [] f.kind = "i64" -> readFixed(LongSize, s)
      [] f.kind = "u64" -> readU64(s)
      [] f.kind = "u64s" -> Then(readLength(LongSize, s),
                                 LAMBDA n, rest : ReadEach(readUnsigned, Repeat(0, n), rest))
      [] f.kind = "intx" -> readIntX(s)
      [] f.kind = "key" -> TakeBytes(s, KeySize)
      [] f.kind = "signature" -> TakeBytes(s, SignatureSize)
      [] f.kind = "small" -> SmallString_read(s)
      [] f.kind = "array" -> readArray(s)
      [] f.kind = "args" -> TxMsgCall_readArgs(s)

\* The blob of these values, which are in the order of its layout.
BlobOf(layout, values) ==
    [name \in {layout[i].name : i \in DOMAIN layout} |->
       values[CHOOSE i \in DOMAIN layout : layout[i].name = name]]
ReadFlat(layout, s) ==
    Mapped(ReadEach(ReadField, layout, s), LAMBDA values : BlobOf(layout, values))
readArrayBlob(layout, s) ==
    Then(readLength(1, s), LAMBDA n, rest : ReadEach(ReadFlat, Repeat(layout, n), rest))
ReadMember(f, s) == IF f.kind = "blobs" THEN readArrayBlob(f.of, s) ELSE ReadField(f, s)
ReadBlob(layout, s) ==
    Mapped(ReadEach(ReadMember, layout, s), LAMBDA values : BlobOf(layout, values))

-----------------------------------------------------------------------------
(* The payloads of the messages.                                           *)

TxMsgCall == <<U32("moduleId"), U32("methodId"), CallArgs("args")>>
TxMsgCallMulti == <<Blobs("calls", TxMsgCall)>>
TxMsgTransferFungible == <<Key("to"), U64("tokenId"), U64("amount")>>
TxMsgTransferFungibleGasPayer == <<Key("to"), Key("from"), U64("tokenId"), U64("amount")>>
TxMsgTransferNonFungibleSingle == <<Key("to"), U64("tokenId"), U64("instanceId")>>
TxMsgTransferNonFungibleSingleGasPayer ==
    <<Key("to"), Key("from"), U64("tokenId"), U64("instanceId")>>
TxMsgTransferNonFungibleMulti == <<Key("to"), U64("tokenId"), U64s("instanceIds")>>
TxMsgTransferNonFungibleMultiGasPayer ==
    <<Key("to"), Key("from"), U64("tokenId"), U64s("instanceIds")>>
TxMsgMintFungible == <<U64("tokenId"), Key("to"), Big("amount")>>
TxMsgBurnFungible == <<U64("tokenId"), Big("amount")>>
TxMsgBurnFungibleGasPayer == <<U64("tokenId"), Key("from"), Big("amount")>>
TxMsgMintNonFungible == <<U64("tokenId"), Key("to"), U32("seriesId"), Data("rom"), Data("ram")>>
TxMsgBurnNonFungible == <<U64("tokenId"), U64("instanceId")>>
TxMsgBurnNonFungibleGasPayer == <<U64("tokenId"), Key("from"), U64("instanceId")>>
TxMsgPhantasma == <<Short("nexus"), Short("chain"), Data("script")>>
TxMsgPhantasmaRaw == <<Data("transaction")>>
TxMsgTrade ==
    <<Blobs("transferF", TxMsgTransferFungibleGasPayer),
      Blobs("transferN", TxMsgTransferNonFungibleSingleGasPayer),
      Blobs("mintF", TxMsgMintFungible), Blobs("burnF", TxMsgBurnFungibleGasPayer),
      Blobs("mintN", TxMsgMintNonFungible), Blobs("burnN", TxMsgBurnNonFungibleGasPayer)>>

\* The codes of the types count from zero.
TxTypes ==
    <<"Call", "Call_Multi", "Trade", "TransferFungible", "TransferFungible_GasPayer",
      "TransferNonFungible_Single", "TransferNonFungible_Single_GasPayer",
      "TransferNonFungible_Multi", "TransferNonFungible_Multi_GasPayer", "MintFungible",
      "BurnFungible", "BurnFungible_GasPayer", "MintNonFungible", "BurnNonFungible",
      "BurnNonFungible_GasPayer", "Phantasma", "Phantasma_Raw">>
Payloads ==
    <<TxMsgCall, TxMsgCallMulti, TxMsgTrade, TxMsgTransferFungible, TxMsgTransferFungibleGasPayer,
      TxMsgTransferNonFungibleSingle, TxMsgTransferNonFungibleSingleGasPayer,
      TxMsgTransferNonFungibleMulti, TxMsgTransferNonFungibleMultiGasPayer, TxMsgMintFungible,
      TxMsgBurnFungible, TxMsgBurnFungibleGasPayer, TxMsgMintNonFungible, TxMsgBurnNonFungible,
      TxMsgBurnNonFungibleGasPayer, TxMsgPhantasma, TxMsgPhantasmaRaw>>
CodeOf(type) == CHOOSE i \in DOMAIN TxTypes : TxTypes[i] = type

\* A code is a byte.
ASSUME CodesAssumption == Len(TxTypes) <= Base

\* What every message begins with.
TxMsgHead == <<I64("expiry"), U64("maxGas"), U64("maxData"), Key("gasFrom"), Short("payload")>>

TxMsg_write(msg) ==
    <<CodeOf(msg.type) - 1>> \o WriteBlob(TxMsgHead, msg)
    \o WriteBlob(Payloads[CodeOf(msg.type)], msg.msg)

TxMsg(type, head, payload) ==
    [type |-> type, expiry |-> head.expiry, maxGas |-> head.maxGas, maxData |-> head.maxData,
     gasFrom |-> head.gasFrom, payload |-> head.payload, msg |-> payload]

TxMsg_read(s) ==
    IF s = <<>> THEN Thrown
    ELSE Then(ReadBlob(TxMsgHead, Tail(s)),
              LAMBDA head, rest :
                IF s[1] + 1 \notin DOMAIN Payloads THEN Thrown
                ELSE Mapped(ReadBlob(Payloads[s[1] + 1], rest),
                            LAMBDA payload : TxMsg(TxTypes[s[1] + 1], head, payload)))

-----------------------------------------------------------------------------
(* NativeTxHelper.  A gas payer that is not given is Nobody.  A builder    *)
(* writes the limits it is given, and an offer of zero when it is not.     *)

Nobody == <<>>
applyTxLimits(p, gasFrom) ==
    [expiry |-> p.expiry, maxGas |-> p.maxGas, maxData |-> p.maxData, gasFrom |-> gasFrom,
     payload |-> <<>>]

base(type, gasFrom, p, payload) == TxMsg(type, applyTxLimits(p, gasFrom), payload)

\* One account moves the tokens and pays, or a second one pays for it.
Paired(types, p, payload) ==
    LET Paid == [name \in DOMAIN payload \cup {"from"} |->
                   IF name = "from" THEN p.from ELSE payload[name]]
    IN IF p.gasPayer = Nobody THEN base(types[1], p.from, p, payload)
       ELSE base(types[2], p.gasPayer, p, Paid)

transferFungible(p) ==
    Paired(<<"TransferFungible", "TransferFungible_GasPayer">>, p,
           [to |-> p.to, tokenId |-> p.tokenId, amount |-> p.amount])

transferNonFungible(p) ==
    CASE p.instanceIds = <<>> -> Thrown
      [] Len(p.instanceIds) = 1 ->
           Paired(<<"TransferNonFungible_Single", "TransferNonFungible_Single_GasPayer">>, p,
                  [to |-> p.to, tokenId |-> p.tokenId, instanceId |-> p.instanceIds[1]])
      [] Len(p.instanceIds) > 1 ->
           Paired(<<"TransferNonFungible_Multi", "TransferNonFungible_Multi_GasPayer">>, p,
                  [to |-> p.to, tokenId |-> p.tokenId, instanceIds |-> p.instanceIds])

mintFungible(p) ==
    base("MintFungible", p.from, p, [tokenId |-> p.tokenId, to |-> p.to, amount |-> p.amount])

burnFungible(p) ==
    Paired(<<"BurnFungible", "BurnFungible_GasPayer">>, p, [tokenId |-> p.tokenId, amount |-> p.amount])

burnNonFungible(p) ==
    Paired(<<"BurnNonFungible", "BurnNonFungible_GasPayer">>, p,
           [tokenId |-> p.tokenId, instanceId |-> p.instanceIds[1]])
=============================================================================
