----------------------------- MODULE Envelopes -----------------------------
(***************************************************************************)
(* Signed Carbon messages: the envelope with the witnesses                 *)
(* (signed-tx-msg.ts), the signing with keys or with remote signers        *)
(* (extensions/tx-msg-signer.ts), and planning and signing in one call     *)
(* (tx-helpers/plan-and-sign.ts).                                          *)
(*                                                                         *)
(* A signer is [key, id]: two signers may hold one key.  A witness is      *)
(* [address, signature].                                                   *)
(***************************************************************************)
EXTENDS Messages

CONSTANTS
    Ed25519(_, _),    \* the signature of a key for the bytes of a message
    Quote(_, _)       \* the estimate of a message in an envelope of that length, as
                      \* [maxGas, maxData]; Thrown for a message that cannot be described

-----------------------------------------------------------------------------
(* The witnesses of a message.                                             *)

OpenTypes == {"Call", "Call_Multi", "Trade", "Phantasma"}
GasPayerTypes ==
    {"TransferFungible_GasPayer", "TransferNonFungible_Single_GasPayer",
     "TransferNonFungible_Multi_GasPayer", "BurnFungible_GasPayer", "BurnNonFungible_GasPayer"}

gasPayerOwner(msg) == msg.msg.from

\* Mutant: the owner signs first.
requiredWitnesses_OwnerFirst(msg) ==
    CASE msg.type \in OpenTypes -> NotGiven
      [] msg.type \in GasPayerTypes -> <<gasPayerOwner(msg), msg.gasFrom>>
      [] msg.type = "Phantasma_Raw" -> <<>>
      [] OTHER -> <<msg.gasFrom>>

\* In the order of the envelope; not given when the caller chooses the witnesses.
requiredWitnesses(msg) ==
    CASE msg.type \in OpenTypes -> NotGiven
      [] msg.type \in GasPayerTypes -> <<msg.gasFrom, gasPayerOwner(msg)>>
      [] msg.type = "Phantasma_Raw" -> <<>>
      [] OTHER -> <<msg.gasFrom>>

Witness == <<Key("address"), Sig("signature")>>
Addresses(witnesses) == [i \in DOMAIN witnesses |-> witnesses[i].address]
Bare(witnesses) == FlattenSeq([i \in DOMAIN witnesses |-> witnesses[i].signature])

\* A message that fixes its witnesses carries bare signatures, in the order it fixes; one
\* that does not carries a list of whole witnesses, the gas payer among them.
SignedTxMsg_write(signed) ==
    LET msg == signed.msg
        witnesses == signed.witnesses
        right == CASE msg.type \in OpenTypes -> msg.gasFrom \in ToSet(Addresses(witnesses))
                   [] msg.type \in GasPayerTypes ->
                        Addresses(witnesses) = <<msg.gasFrom, gasPayerOwner(msg)>>
                   [] msg.type = "Phantasma_Raw" -> witnesses = <<>>
                   [] OTHER -> Addresses(witnesses) = <<msg.gasFrom>>
    IN IF ~right THEN Thrown
       ELSE TxMsg_write(msg)
            \o IF msg.type \in OpenTypes THEN writeArrayBlob(Witness, witnesses)
               ELSE Bare(witnesses)

\* The reader takes the addresses of bare signatures from the message.
SignedTxMsg_read(s) ==
    LET WithWitnesses(msg, witnesses) == [msg |-> msg, witnesses |-> witnesses]
        Slots(addresses, rest) ==
          Mapped(ReadEach(ReadField, [i \in DOMAIN addresses |-> Sig("signature")], rest),
                 LAMBDA sigs : [i \in DOMAIN addresses |->
                                  [address |-> addresses[i], signature |-> sigs[i]]])
    IN Then(TxMsg_read(s),
            LAMBDA msg, rest :
              Mapped(CASE msg.type \in OpenTypes -> readArrayBlob(Witness, rest)
                       [] msg.type \in GasPayerTypes ->
                            Slots(<<msg.gasFrom, gasPayerOwner(msg)>>, rest)
                       [] msg.type = "Phantasma_Raw" -> Got(<<>>, rest)
                       [] OTHER -> Slots(<<msg.gasFrom>>, rest),
                     LAMBDA witnesses : WithWitnesses(msg, witnesses)))

EmptyKey == Repeat(0, KeySize)
openWitnessPlaceholders(msg, count) == <<msg.gasFrom>> \o Repeat(EmptyKey, count - 1)

\* The length of the envelope before anybody signs, from placeholders of fixed width.
envelopeBytes(msg, count) ==
    LET required == requiredWitnesses(msg)
        open == required = NotGiven
        n == IF count = NotGiven THEN 1 ELSE count
        Empty(addresses) ==
          [i \in DOMAIN addresses |-> [address |-> addresses[i],
                                       signature |-> Repeat(0, SignatureSize)]]
    IN IF \/ open /\ n < 1
          \/ ~open /\ count # NotGiven /\ count # Len(required)
       THEN Thrown
       ELSE Made(SignedTxMsg_write(
                   [msg |-> msg,
                    witnesses |-> Empty(IF open THEN openWitnessPlaceholders(msg, n) ELSE required)]),
                 Len)

-----------------------------------------------------------------------------
(* TxMsgSigner.                                                            *)

assertPlanned(msg) == msg.maxGas # 0

KeysOf(signers) == {signers[i].key : i \in DOMAIN signers}

\* The map of the signers by their keys keeps the last one of a key.
ByAddress(signers, key) ==
    signers[Max({i \in DOMAIN signers : signers[i].key = key})]

\* Who signs in which place.  A message that fixes its witnesses has them in its order,
\* however the signers come, and takes no signer more and none less.
witnessSlots(msg, signers) ==
    LET required == requiredWitnesses(msg)
    IN IF required = NotGiven
       THEN [i \in DOMAIN signers |-> [address |-> signers[i].key, signer |-> signers[i]]]
       ELSE IF msg.type = "Phantasma_Raw" THEN (IF signers = <<>> THEN <<>> ELSE Thrown)
       ELSE IF KeysOf(signers) # ToSet(required) THEN Thrown
       ELSE [i \in DOMAIN required |->
               [address |-> required[i], signer |-> ByAddress(signers, required[i])]]

\* With in-memory keys every place is signed.
signWithKeys(msg, signers) ==
    LET slots == witnessSlots(msg, signers)
    IN IF ~assertPlanned(msg) \/ slots = Thrown THEN Thrown
       ELSE [msg |-> msg,
             witnesses |-> [i \in DOMAIN slots |->
               [address |-> slots[i].address,
                signature |-> Ed25519(slots[i].signer.key, TxMsg_write(msg))]]]

\* The first place of the same address.
FirstOf(slots, i) == Min({j \in 1..i : slots[j].address = slots[i].address})

\* A remote signer is asked for the first place of an address and never again; its answer
\* is used for the others.  asked is what the signers see, in order.
signWith(msg, signers) ==
    LET slots == witnessSlots(msg, signers)
    IN IF ~assertPlanned(msg) \/ slots = Thrown THEN Thrown
       ELSE [signed |->
               [msg |-> msg,
                witnesses |-> [i \in DOMAIN slots |->
                  [address |-> slots[i].address,
                   signature |-> Ed25519(slots[FirstOf(slots, i)].signer.key, TxMsg_write(msg))]]],
             asked |-> FlattenSeq([i \in DOMAIN slots |->
                         IF FirstOf(slots, i) = i THEN <<slots[i].signer>> ELSE <<>>])]

\* The single-witness form does not look at the message.
signAlone(msg, signer) ==
    IF ~assertPlanned(msg) THEN Thrown
    ELSE [msg |-> msg,
          witnesses |-> <<[address |-> signer.key, signature |-> Ed25519(signer.key, TxMsg_write(msg))]>>]

Serialized(signed) == Made(signed, SignedTxMsg_write)

\* What a plan offers for the envelope that will be sent.  A raw transaction has no plan.
planFees(msg, count) ==
    IF msg.type = "Phantasma_Raw" THEN Thrown
    ELSE Made(envelopeBytes(msg, count), LAMBDA length : Quote(msg, length))

\* FeePlan.apply: both limits of the message are those of the plan.
apply(msg, plan) == [msg EXCEPT !.maxGas = plan.maxGas, !.maxData = plan.maxData]

\* A message with an offer is signed as it is, its storage limit too.  Else it is planned for
\* the keys that will sign it, unless the options say how many will.
planAndSignWithKeys(msg, signers, witnessCount) ==
    LET open == requiredWitnesses(msg) = NotGiven
        count == IF witnessCount # NotGiven THEN witnessCount
                 ELSE IF open THEN Len(signers) ELSE NotGiven
        Sent(m) == Serialized(signWithKeys(m, signers))
    IN IF msg.maxGas # 0 THEN Sent(msg)
       ELSE Made(planFees(msg, count), LAMBDA plan : Sent(apply(msg, plan)))

-----------------------------------------------------------------------------
(* Properties.                                                             *)

\* Everybody the message names signs what was sent, and nobody else does: the gas payer,
\* the owner of what moves, and for a message that leaves it open those who were given.
SignedBy(signed) ==
    /\ \A i \in DOMAIN signed.witnesses :
         signed.witnesses[i].signature
           = Ed25519(signed.witnesses[i].address, TxMsg_write(signed.msg))
    /\ signed.msg.type # "Phantasma_Raw" =>
         signed.msg.gasFrom \in ToSet(Addresses(signed.witnesses))
    /\ signed.msg.type \in GasPayerTypes =>
         Addresses(signed.witnesses) = <<signed.msg.gasFrom, gasPayerOwner(signed.msg)>>

\* What is signed and written is read back, no byte less passes for it, and its length is
\* the one that was counted before.
Delivered(signed, s) ==
    /\ SignedTxMsg_read(s) = Got(signed, <<>>)
    /\ SignedTxMsg_read(Append(s, 7)) = Got(signed, <<7>>)
    /\ \A n \in 0..(Len(s) - 1) : SignedTxMsg_read(Take(s, n)) = Thrown
    /\ Len(s) = envelopeBytes(signed.msg, IF signed.msg.type \in OpenTypes
                                          THEN Len(signed.witnesses) ELSE NotGiven)

\* Signers in any order, with one account in two places or one key held twice: an envelope
\* goes out exactly when those who must sign are those who were given, it is signed by
\* them, and no remote signer is asked for a key twice or for nothing.
EnvelopeSound(msg, signers) ==
    \A local \in {signWithKeys(msg, signers)}, remote \in {signWith(msg, signers)} :
    \A s \in {Serialized(local)} :
    LET named == {msg.gasFrom} \cup (IF msg.type \in GasPayerTypes THEN {gasPayerOwner(msg)} ELSE {})
    IN /\ s # Thrown <=>
            /\ msg.maxGas > 0
            /\ CASE msg.type \in OpenTypes -> msg.gasFrom \in KeysOf(signers)
                 [] msg.type = "Phantasma_Raw" -> signers = <<>>
                 [] OTHER -> KeysOf(signers) = named
       /\ s # Thrown => SignedBy(local) /\ Delivered(local, s)
       /\ local = Thrown <=> remote = Thrown
       /\ remote # Thrown =>
            /\ remote.signed = local
            /\ KeysOf(remote.asked) = KeysOf(signers)
            /\ Len(remote.asked) = Cardinality(KeysOf(signers))
            /\ ToSet(remote.asked) \subseteq ToSet(signers)
       /\ Len(signers) = 1 => Serialized(signAlone(msg, signers[1])) \in {s, Thrown}

\* A plan made before anybody signs is for the envelope that goes out: the signed message
\* offers the gas and the storage that its own length costs, unless the caller set the gas,
\* and what cannot be planned is not sent.
PlanFits(msg, signers) ==
    \A s \in {planAndSignWithKeys(msg, signers, NotGiven)} \ {Thrown} :
      \A read \in {SignedTxMsg_read(s)}, quote \in {Quote(msg, Len(s))} :
         /\ read.rest = <<>> /\ SignedBy(read.v)
         /\ msg.maxGas # 0 => read.v.msg = msg
         /\ msg.maxGas = 0 =>
              /\ msg.type # "Phantasma_Raw" /\ quote # Thrown
              /\ read.v.msg = [msg EXCEPT !.maxGas = quote.maxGas, !.maxData = quote.maxData]

\* A built message needs the signature of whoever pays, and of the account whose tokens
\* move, once when they are one.
BuiltSound(p) ==
    \A msg \in {transferFungible(p), transferNonFungible(p), mintFungible(p), burnFungible(p),
                 burnNonFungible(p)} \ {Thrown} :
      LET payer == IF p.gasPayer = Nobody \/ msg.type = "MintFungible" THEN p.from ELSE p.gasPayer
      IN /\ ToSet(requiredWitnesses(msg)) = {payer, p.from}
         /\ requiredWitnesses(msg)[1] = payer
         /\ TxMsg_read(TxMsg_write(msg)) = Got(msg, <<>>)
=============================================================================
