---------------------------- MODULE Transactions ----------------------------
(***************************************************************************)
(* Transactions of the old chain (tx/transaction.ts) and the helper that   *)
(* builds, mines and signs them (tx/contract-tx-helper.ts).                *)
(*                                                                         *)
(* Script and payload, which the code keeps as hex text, are bytes; the    *)
(* expiration counts milliseconds.  A signature is ideal: it is the key    *)
(* with the message it was made for.                                       *)
(***************************************************************************)
EXTENDS Primitives

CONSTANTS
    HashBits,         \* 256
    Sha(_),           \* SHA256 of bytes, read as a number of HashBits bits
    MaxNonce,         \* the nonces a model tries, 2^32 - 1
    DefaultPayload    \* 'phantasma-ts'

ASSUME TransactionsAssumption ==
    /\ {HashBits, MaxNonce} \subseteq Nat
    /\ DefaultPayload \in Seq(Byte) /\ DefaultPayload # <<>>

\* The constructor replaces an empty payload.
Transaction(nexusName, chainName, script, expiration, payload) ==
    [nexusName |-> nexusName, chainName |-> chainName, script |-> script,
     expiration |-> expiration, payload |-> IF payload = <<>> THEN DefaultPayload ELSE payload,
     signatures |-> <<>>]

-----------------------------------------------------------------------------
(* Bytes.                                                                  *)

writeDateTime(ms) == Fixed(ms \div 1000, 4)
appendHexEncoded(bytes) == writeVarInt(Len(bytes)) \o bytes

toByteArray(tx, withSignature) ==
    writeString(tx.nexusName) \o writeString(tx.chainName) \o appendHexEncoded(tx.script)
    \o writeDateTime(tx.expiration) \o appendHexEncoded(tx.payload)
    \o IF ~withSignature THEN <<>>
       ELSE writeVarInt(Len(tx.signatures))
            \o FlattenSeq([i \in DOMAIN tx.signatures |-> writeSignature(tx.signatures[i])])

serializeTransaction(tx) ==
    writeString(tx.nexusName) \o writeString(tx.chainName) \o writeByteArray(tx.script)
    \o writeDateTime(tx.expiration) \o writeByteArray(tx.payload)
    \o writeVarInt(Len(tx.signatures))
    \o FlattenSeq([i \in DOMAIN tx.signatures |-> writeSignature(tx.signatures[i])])

\* ScriptBuilder has a writer of its own.
emitVarInt(n) == writeVarInt(n)
emitVarString(text) == emitVarInt(Len(text)) \o text
emitTimestamp(ms) == Fixed(ms \div 1000, 4)

\* Mutant: the payload is left out of what is hashed.
toString_NoPayload(tx) ==
    emitVarString(tx.nexusName) \o emitVarString(tx.chainName)
    \o emitVarInt(Len(tx.script)) \o tx.script \o emitTimestamp(tx.expiration)

\* toString(false), the bytes that are hashed.
toString(tx) ==
    emitVarString(tx.nexusName) \o emitVarString(tx.chainName)
    \o emitVarInt(Len(tx.script)) \o tx.script \o emitTimestamp(tx.expiration)
    \o emitVarInt(Len(tx.payload)) \o tx.payload

\* A signature of no kind is dropped.  Bytes that end after the payload are unsigned.
ReadSignatures(count, s) ==
    LET After[i \in 0..count] ==
          IF i = 0 THEN Got(<<>>, s)
          ELSE Then(After[i - 1], LAMBDA sigs, left :
                 Mapped(readSignatureV2(left), LAMBDA sig :
                   IF sig = NoSignature THEN sigs ELSE Append(sigs, sig)))
    IN After[count]

unserializeTransaction(s) ==
    Then(readString(s), LAMBDA nexus, s1 :
    Then(readString(s1), LAMBDA chain, s2 :
    Then(readByteArray(s2), LAMBDA script, s3 :
    Then(readTimestamp(s3), LAMBDA seconds, s4 :
    Then(readByteArray(s4), LAMBDA payload, s5 :
      LET tx == [Transaction(nexus, chain, script, 1000 * seconds, <<>>) EXCEPT !.payload = payload]
      IN IF s5 = <<>> THEN Got(tx, s5)
         ELSE Then(readVarInt(s5), LAMBDA count, s6 :
                Mapped(ReadSignatures(count, s6),
                       LAMBDA sigs : [tx EXCEPT !.signatures = sigs])))))))

-----------------------------------------------------------------------------
(* Hash, work and signatures.                                              *)

getHash(tx) == Sha(toString(tx))

\* The zero bits above the highest bit of the hash.
BitLength[n \in Nat] == IF n = 0 THEN 0 ELSE 1 + BitLength[n \div 2]
getDifficulty(hash) == HashBits - BitLength[hash]

\* The work is done on a copy: first with its payload, then with a nonce of four bytes in
\* place of it.  A difficulty out of range changes nothing; one that no nonce reaches is
\* sought for ever.
mineTransaction(tx, difficulty) ==
    LET Copy(nonce) ==
          LET copied == Transaction(tx.nexusName, tx.chainName, tx.script, tx.expiration, tx.payload)
          IN IF nonce = 0 THEN copied ELSE [copied EXCEPT !.payload = Fixed(nonce, 4)]
        Enough == {nonce \in 0..MaxNonce : getDifficulty(getHash(Copy(nonce))) >= difficulty}
    IN IF difficulty < 0 \/ difficulty > HashBits THEN tx
       ELSE IF Enough = {} THEN Thrown
       ELSE [tx EXCEPT !.payload = Copy(Min(Enough)).payload]

SignatureOf(key, msg) == [kind |-> 1, bytes |-> <<key>> \o msg]

sign(tx, key) == [tx EXCEPT !.signatures = Append(@, SignatureOf(key, toByteArray(tx, FALSE)))]

\* Any of the signatures counts.
verifySignature(tx, key) ==
    \E i \in DOMAIN tx.signatures : tx.signatures[i] = SignatureOf(key, toByteArray(tx, FALSE))

\* Which of the keys signed; one is enough for it to be ok.
verifySignatures(tx, keys) ==
    LET matched == {key \in keys : verifySignature(tx, key)}
    IN [ok |-> matched # {}, matched |-> matched]

-----------------------------------------------------------------------------
(* ContractTxHelper.                                                       *)

buildContractLifecycleTransaction(p, script) ==
    LET nexus == Trimmed(p.nexus)
        chain == Trimmed(p.chain)
    IN IF nexus = <<>> \/ chain = <<>> THEN Thrown
       ELSE Transaction(nexus, chain, script, p.expiration, p.payload)

signTransaction(tx, key, proofOfWork) ==
    LET mined == IF proofOfWork > 0 THEN mineTransaction(tx, proofOfWork) ELSE tx
    IN IF mined = Thrown THEN Thrown ELSE sign(mined, key)

-----------------------------------------------------------------------------
(* Properties.                                                             *)

\* A transaction comes back from its bytes, signed or not, but for the parts of a second;
\* the two writers write the same, and what is hashed is what is signed.
TxSurvives(tx) ==
    LET read == [tx EXCEPT !.expiration = 1000 * (@ \div 1000)]
    IN /\ unserializeTransaction(toByteArray(tx, TRUE)) = Got(read, <<>>)
       /\ unserializeTransaction(toByteArray(tx, FALSE)) = Got([read EXCEPT !.signatures = <<>>], <<>>)
       /\ serializeTransaction(tx) = toByteArray(tx, TRUE)
       /\ toString(tx) = toByteArray(tx, FALSE)

\* The transaction before the first call, at 0, and after each one: [do, n].
Applied(tx, step) ==
    IF tx = Thrown THEN Thrown
    ELSE IF step.do = "mine" THEN mineTransaction(tx, step.n) ELSE sign(tx, step.n)
History(tx, steps) ==
    LET After[i \in 0..Len(steps)] == IF i = 0 THEN tx ELSE Applied(After[i - 1], steps[i])
    IN After

\* After any calls a key verifies exactly when it signed and no later work changed the
\* payload; the receiver of the bytes comes to the same.
StepsSound(tx, steps, keys) ==
    LET history == History(tx, steps)
        end == history[Len(steps)]
        received == unserializeTransaction(toByteArray(end, TRUE)).v
        Signers == {key \in keys :
                      \E i \in DOMAIN steps : /\ steps[i] = [do |-> "sign", n |-> key]
                                             /\ history[i - 1].payload = end.payload}
    IN end # Thrown =>
         /\ TxSurvives(end)
         /\ verifySignatures(end, keys) = [ok |-> Signers # {}, matched |-> Signers]
         /\ {key \in keys : verifySignature(received, key)} = Signers

\* What the helper hands over verifies for its signer at the receiver and does the work
\* that was asked for, if that is possible at all.
HelperSound(p, script, key) ==
    LET tx == buildContractLifecycleTransaction(p, script)
        signed == IF tx = Thrown THEN Thrown ELSE signTransaction(tx, key, p.proofOfWork)
        received == unserializeTransaction(toByteArray(signed, TRUE)).v
    IN IF Trimmed(p.nexus) = <<>> \/ Trimmed(p.chain) = <<>> THEN tx = Thrown
       ELSE signed # Thrown =>
              /\ verifySignature(received, key)
              /\ p.proofOfWork \in 1..HashBits => getDifficulty(getHash(received)) >= p.proofOfWork
              /\ received.script = script /\ received.payload # <<>>
=============================================================================
