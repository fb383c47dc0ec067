------------------------------- MODULE Ledger -------------------------------
(***************************************************************************)
(* The commands for a Ledger device: src/src/ledger/ledger-commands.ts     *)
(* over ledger-utils.ts.                                                   *)
(*                                                                         *)
(* A command opens the first device that the transport lists, exchanges    *)
(* APDUs with it and closes it, and does so anew for every question it has *)
(* for the device.  Nothing in the SDK serialises commands, so two of them *)
(* may alternate on one device, and the device that is listed first may be *)
(* another one by the time of the second question.                         *)
(*                                                                         *)
(* The bytes of call c's transaction are the pairs <<c, 1>>, <<c, 2>>, ... *)
(* A public key is the device that holds it; a signature names the device  *)
(* that made it and the bytes it is over.                                  *)
(***************************************************************************)
EXTENDS Integers, Sequences, FiniteSets, SequencesExt

CONSTANTS
    Calls,        \* calls of the commands
    Devices,
    None,
    Gone,         \* the handle of a device that was unplugged
    ChunkSize,    \* 250 bytes
    MaxSignedTxLen,
    Lengths,      \* sizes of transactions, in bytes
    Moves         \* bound on how often devices are plugged in and out

ASSUME LedgerAssumption ==
    /\ {None, Gone} \cap (Calls \cup Devices) = {} /\ None # Gone
    /\ ChunkSize \in Nat \ {0} /\ MaxSignedTxLen \in Nat
    /\ Lengths \subseteq Nat \ {0}
    /\ Moves \in Nat

Kinds == {"info", "signer", "balance", "address", "send", "software"}

VARIABLES
    kind, length, verify, shared,   \* fixed: the command; the size of its transaction;
                                    \* verifyResponse; whether a device can be opened twice
    at,         \* at[c]: what c awaits
    stage,      \* stage[c]: the question c has for the device
    path,       \* path[c]: what c is about to open
    handle,     \* handle[c]: what c has open
    key,        \* key[c]: publicKey
    message,    \* message[c]: the next APDU of signLedger
    signature,  \* signature[c]
    answer,     \* answer[c]: what the device command will return
    result,     \* result[c]: how c ended
    paths,      \* what transport.list() answers
    loaded,     \* loaded[d]: what the app on the device holds of a transaction
    node,       \* node[c]: what became of c's transaction at the node
    moves       \* how often devices were plugged in or out

config == <<kind, length, verify, shared>>
device == <<paths, loaded, moves>>
vars == <<config, at, stage, path, handle, key, message, signature, answer, result, device, node>>

-----------------------------------------------------------------------------
(* The APDUs of a transaction.                                             *)

Least(a, b) == IF a < b THEN a ELSE b

Bytes(c, from, to) == [i \in 1..(to - from + 1) |-> <<c, from + i - 1>>]

\* The transaction as the user is meant to see it.
Transaction(c) == Bytes(c, 1, length[c])

ChunksOf(n) == (n + ChunkSize - 1) \div ChunkSize

\* The path of the key, in front of the transaction.
GetBip44PathMessage == [first |-> TRUE, more |-> TRUE, data |-> <<>>]

\* Mutant: the size of a chunk is a count of hex digits.
SplitMessageIntoChunks_HexDigits(c) ==
    <<GetBip44PathMessage>>
    \o [i \in 1..ChunksOf(length[c]) |->
          [first |-> FALSE, more |-> i # ChunksOf(length[c]),
           data |-> Bytes(c, (i - 1) * ChunkSize + 1,
                          Least((i - 1) * ChunkSize + ChunkSize \div 2, length[c]))]]

\* The path first, with P1 = 0; then the chunks, and P2 tells the last one.
SplitMessageIntoChunks(c) ==
    <<GetBip44PathMessage>>
    \o [i \in 1..ChunksOf(length[c]) |->
          [first |-> FALSE, more |-> i # ChunksOf(length[c]),
           data |-> Bytes(c, (i - 1) * ChunkSize + 1, Least(i * ChunkSize, length[c]))]]

\* verify(): the signature is the key's, over this transaction.
Verifies(c) == signature[c] = [by |-> key[c], over |-> Transaction(c)]

-----------------------------------------------------------------------------
FirstStage(k) == IF k = "info" THEN "version" ELSE "key"

Init ==
    /\ kind \in [Calls -> Kinds]
    /\ length \in [Calls -> Lengths]
    /\ verify \in BOOLEAN
    /\ shared \in BOOLEAN
    /\ at = [c \in Calls |-> "idle"]
    /\ stage = [c \in Calls |-> FirstStage(kind[c])]
    /\ path = [c \in Calls |-> None]
    /\ handle = [c \in Calls |-> None]
    /\ key = [c \in Calls |-> None]
    /\ message = [c \in Calls |-> 1]
    /\ signature = [c \in Calls |-> None]
    /\ answer = [c \in Calls |-> "none"]
    /\ result = [c \in Calls |-> "none"]
    /\ paths \in {<<>>} \cup {<<d>> : d \in Devices}
    /\ loaded = [d \in Devices |-> <<>>]
    /\ node = [c \in Calls |-> "none"]
    /\ moves = 0

Go(c, where) == at' = [at EXCEPT ![c] = where]

End(c, r) ==
    /\ result' = [result EXCEPT ![c] = r]
    /\ Go(c, "done")

\* A command of ledger-utils.ts throws.  Only signEncodedTx() is called inside a try.
Thrown(c) == IF stage[c] = "sign" THEN "fail" ELSE "rejected"

Rest == <<path, key, message, signature, answer, node>>

\* The application calls a command; getBalanceFromPrivateKey() and getBalanceFromMnemonic()
\* have the key without a device.
Start(c) ==
    /\ at[c] = "idle"
    /\ Go(c, CASE kind[c] = "signer" -> "paths"
               [] kind[c] = "software" -> "account"
               [] OTHER -> "listing")
    /\ UNCHANGED <<config, stage, handle, result, device, Rest>>

\* getLedgerAccountSigner() lists the devices itself before it asks for the key.
ListPaths(c) ==
    /\ at[c] = "paths"
    /\ IF paths = <<>>
       THEN End(c, "rejected")
       ELSE Go(c, "listing") /\ UNCHANGED result
    /\ UNCHANGED <<config, stage, handle, device, Rest>>

-----------------------------------------------------------------------------
(* What comes after an answer of the device.                               *)

AskNext(c, question) ==
    /\ stage' = [stage EXCEPT ![c] = question]
    /\ Go(c, "listing")
    /\ UNCHANGED result

Returns(c, r) == End(c, r) /\ UNCHANGED stage

Outcome(ok) == IF ok THEN "ok" ELSE "fail"

\* getLedgerDeviceInfo() returns both answers, whatever they are.
GetLedgerDeviceInfo(c) ==
    IF stage[c] = "version" THEN AskNext(c, "appName") ELSE Returns(c, "ok")

\* getLedgerAccountSigner() returns a signer, whose getters look at the answer when called.
GetLedgerAccountSigner(c) == Returns(c, "ok")

GetBalanceFromLedger(c, ok) ==
    IF ok THEN Go(c, "account") /\ UNCHANGED <<stage, result>> ELSE Returns(c, "fail")

GetAddressFromLedger(c, ok) == Returns(c, Outcome(ok))

\* signLedger() refuses what is too long before it looks for the device.
SignEncodedTx(c) ==
    IF length[c] > MaxSignedTxLen
    THEN /\ End(c, "fail")
         /\ stage' = [stage EXCEPT ![c] = "sign"]
    ELSE AskNext(c, "sign")

SendTransactionLedger(c, ok) ==
    \/ ~ok /\ Returns(c, "fail")
    \/ ok /\ stage[c] = "key" /\ SignEncodedTx(c)
    \/ ok /\ stage[c] = "sign" /\ verify /\ ~Verifies(c) /\ Returns(c, "fail")
    \/ /\ ok /\ stage[c] = "sign" /\ (verify => Verifies(c))
       /\ Go(c, "sending") /\ UNCHANGED <<stage, result>>

\* A device command returned to call c.
Continue(c, ok) ==
    CASE kind[c] = "info" -> GetLedgerDeviceInfo(c)
      [] kind[c] = "signer" -> GetLedgerAccountSigner(c)
      [] kind[c] = "balance" -> GetBalanceFromLedger(c, ok)
      [] kind[c] = "address" -> GetAddressFromLedger(c, ok)
      [] kind[c] = "send" -> SendTransactionLedger(c, ok)

Enabled == paths # <<>>

\* getDevice(): the first of the paths, or "not enabled".
List(c) ==
    /\ at[c] = "listing"
    /\ IF Enabled
       THEN /\ path' = [path EXCEPT ![c] = Head(paths)]
            /\ Go(c, "opening")
            /\ UNCHANGED <<stage, result>>
       ELSE /\ Continue(c, FALSE)
            /\ UNCHANGED path
    /\ UNCHANGED <<config, handle, key, message, signature, answer, device, node>>

Plugged(d) == \E i \in DOMAIN paths : paths[i] = d

\* An operating system may let two handles share a device, or not.
MayOpen(d) == Plugged(d) /\ (shared \/ \A c \in Calls : handle[c] # d)

Open(c) ==
    /\ at[c] = "opening"
    /\ IF MayOpen(path[c])
       THEN /\ handle' = [handle EXCEPT ![c] = path[c]]
            /\ message' = [message EXCEPT ![c] = 1]
            /\ Go(c, "exchange")
            /\ UNCHANGED result
       ELSE /\ End(c, Thrown(c))
            /\ UNCHANGED <<handle, message>>
    /\ UNCHANGED <<config, stage, path, key, signature, answer, device, node>>

\* The device answered, with an error or not, or exchange() threw: the answer is made, and
\* `finally` closes the device.
Answered(c, ans) ==
    /\ answer' = [answer EXCEPT ![c] = ans]
    /\ Go(c, "closing")

\* Version, application name and public key take one APDU.
Asked(c, question) ==
    /\ at[c] = "exchange" /\ stage[c] = question /\ handle[c] \in Devices
    /\ Answered(c, "ok")
    /\ UNCHANGED <<config, stage, path, handle, message, signature, result, device, node>>

GetVersion(c) == Asked(c, "version") /\ UNCHANGED key

GetApplicationName(c) == Asked(c, "appName") /\ UNCHANGED key

GetPublicKey(c) == Asked(c, "key") /\ key' = [key EXCEPT ![c] = handle[c]]

\* The next APDU of a transaction; with the last one the user is asked, and approves.
SignLedger(c) ==
    LET apdu == SplitMessageIntoChunks(c)[message[c]]
        held == IF apdu.first THEN <<>> ELSE loaded[handle[c]] \o apdu.data
    IN  /\ at[c] = "exchange" /\ stage[c] = "sign" /\ handle[c] \in Devices
        /\ loaded' = [loaded EXCEPT ![handle[c]] = held]
        /\ IF apdu.more
           THEN /\ message' = [message EXCEPT ![c] = @ + 1]
                /\ UNCHANGED <<signature, answer, at>>
           ELSE /\ signature' = [signature EXCEPT ![c] = [by |-> handle[c], over |-> held]]
                /\ Answered(c, "ok")
                /\ UNCHANGED message
        /\ UNCHANGED <<config, stage, path, handle, key, result, paths, moves, node>>

\* The device refuses an APDU, the user refuses, or the device is gone.
Fails(c) ==
    /\ at[c] = "exchange"
    /\ Answered(c, "fail")
    /\ UNCHANGED <<config, stage, path, handle, key, message, signature, result, device, node>>

\* Mutant: the device is closed when the answer was good.
Returned_OnSuccess(c) ==
    handle' = IF answer[c] = "ok" THEN [handle EXCEPT ![c] = None] ELSE handle

\* finally { await ledgerDevice.close() }.
Returned(c) == handle' = [handle EXCEPT ![c] = None]

\* What `finally` throws replaces what the function was about to return.
Close(c) ==
    /\ at[c] = "closing"
    /\ Returned(c)
    /\ \/ Continue(c, answer[c] = "ok")
       \/ handle[c] = Gone /\ End(c, Thrown(c)) /\ UNCHANGED stage
    /\ UNCHANGED <<config, path, key, message, signature, answer, device, node>>

-----------------------------------------------------------------------------
(* The node.                                                               *)

\* isRpcErrorResult() knows an error by its message.  What JSONRPC() passes on of a refusal
\* whose error object has no message ("speechless") is an object it does not know.
IsRpcErrorResult(n) == n = "refused"

\* Mutant: an error object is taken for a hash.
Told_AnyAnswer(n) == IF n \in {"unheard", "lost"} THEN "fail" ELSE "ok"

\* sendTransactionLedger() fails for an exception and for an error it knows, and takes
\* whatever else came for the hash.
Told(n) == IF n \in {"unheard", "lost"} \/ IsRpcErrorResult(n) THEN "fail" ELSE "ok"

Answers == {"accepted", "unheard", "refused", "speechless", "lost"}

\* rpc.sendRawTransaction().  "unheard": the node took the transaction and its answer was
\* lost; "lost": the request was.
SendRaw(c, n) ==
    /\ at[c] = "sending"
    /\ node' = [node EXCEPT ![c] = n]
    /\ End(c, Told(n))
    /\ UNCHANGED <<config, stage, path, handle, key, message, signature, answer, device>>

\* rpc.getAccount() answers, answers with an error, or throws.
GetAccount(c, r) ==
    /\ at[c] = "account"
    /\ End(c, r)
    /\ UNCHANGED <<config, stage, handle, device, Rest>>

-----------------------------------------------------------------------------
(* The user's devices.                                                     *)

\* Where the transport lists a new device is up to it.
PlugIn(d) ==
    /\ moves < Moves /\ ~Plugged(d)
    /\ paths' \in {<<d>> \o paths, paths \o <<d>>}
    /\ moves' = moves + 1
    /\ UNCHANGED <<config, at, stage, handle, loaded, result, Rest>>

Unplug(d) ==
    /\ moves < Moves /\ Plugged(d)
    /\ \E i \in DOMAIN paths : paths[i] = d /\ paths' = RemoveAt(paths, i)
    /\ handle' = [c \in Calls |-> IF handle[c] = d THEN Gone ELSE handle[c]]
    /\ loaded' = [loaded EXCEPT ![d] = <<>>]
    /\ moves' = moves + 1
    /\ UNCHANGED <<config, at, stage, result, Rest>>

Next ==
    \/ \E c \in Calls :
          \/ Start(c) \/ ListPaths(c) \/ List(c) \/ Open(c)
          \/ GetVersion(c) \/ GetApplicationName(c) \/ GetPublicKey(c) \/ SignLedger(c) \/ Fails(c) \/ Close(c)
          \/ \E n \in Answers : SendRaw(c, n)
          \/ \E r \in {"ok", "fail", "rejected"} : GetAccount(c, r)
    \/ \E d \in Devices : PlugIn(d) \/ Unplug(d)

Spec == Init /\ [][Next]_vars

-----------------------------------------------------------------------------
(* Properties.                                                             *)

\* The variables keep their types.
TypeOK ==
    /\ at \in [Calls -> {"idle", "paths", "listing", "opening", "exchange", "closing",
                         "account", "sending", "done"}]
    /\ stage \in [Calls -> {"version", "appName", "key", "sign"}]
    /\ path \in [Calls -> Devices \cup {None}]
    /\ handle \in [Calls -> Devices \cup {None, Gone}]
    /\ key \in [Calls -> Devices \cup {None}]
    /\ answer \in [Calls -> {"none", "ok", "fail"}]
    /\ result \in [Calls -> {"none", "ok", "fail", "rejected"}]

Handed(c) == node[c] # "none"

\* What sendTransactionLedger() hands to the node is signed over exactly the transaction it
\* built, by the key it asked for, although the device was closed in between, another call may
\* have been loading its own transaction into it and the first device of the list may have
\* become another one: the bytes are right if the device cannot be shared, or if verifyResponse
\* is set, and the key is right if verifyResponse is set.
SignedAsAsked ==
    \A c \in Calls : Handed(c) =>
        /\ verify => signature[c].by = key[c]
        /\ verify \/ ~shared => signature[c].over = Transaction(c)

\* A send reports success only for a transaction that the node accepted, or refused in an
\* error object without a message, which passes for a hash (phantasma.ts:442,
\* rpc-result.ts:40); and it reports failure only for one that the node did not accept, or
\* whose answer was lost (ledger-commands.ts:436, :458).
Truthful ==
    \A c \in Calls : kind[c] = "send" =>
        /\ result[c] = "ok" => node[c] \in {"accepted", "speechless"}
        /\ result[c] \in {"fail", "rejected"} => node[c] \notin {"accepted", "speechless"}

\* A command that ended, in whatever way, holds no device: the next one can open it
\* (ledger-utils.ts:209, :279, :385, :611).
HandlesReturned == \A c \in Calls : at[c] \in {"idle", "done"} => handle[c] = None

-----------------------------------------------------------------------------
(* What makes them inductive.                                              *)

Statuses == Answers \cup {"none"}

\* What TypeOK leaves out.
LedgerTypeOK ==
    /\ TypeOK
    /\ kind \in [Calls -> Kinds] /\ length \in [Calls -> Nat \ {0}]
    /\ verify \in BOOLEAN /\ shared \in BOOLEAN
    /\ message \in [Calls -> Nat \ {0}]
    /\ DOMAIN signature = Calls /\ DOMAIN loaded = Devices
    /\ paths \in Seq(Devices)
    /\ node \in [Calls -> Statuses]

\* A device is open exactly while it is asked, and one that cannot be shared is open once.
HandlesSound ==
    /\ \A c \in Calls : at[c] \notin {"exchange", "closing"} => handle[c] = None
    /\ ~shared => \A c, e \in Calls : handle[c] \in Devices /\ handle[c] = handle[e] => c = e

\* Nothing has come of a call under way; a send ends well through the node alone, and what
\* has its key in software asks no device.
OutcomeSound ==
    \A c \in Calls :
        /\ kind[c] = "software" => at[c] \in {"idle", "account", "done"}
        /\ at[c] # "done" => result[c] = "none" /\ node[c] = "none"
        /\ node[c] # "none" => result[c] = Told(node[c])
        /\ kind[c] = "send" => at[c] # "account"
        /\ kind[c] = "send" /\ node[c] = "none" => result[c] # "ok"

\* Between two APDUs a device that is not shared holds what was sent to it so far.
SentSoFar(c) ==
    at[c] = "exchange" /\ stage[c] = "sign" =>
        /\ message[c] <= ChunksOf(length[c]) + 1
        /\ ~shared /\ handle[c] \in Devices /\ message[c] # 1 =>
             loaded[handle[c]] = Bytes(c, 1, Least((message[c] - 2) * ChunkSize, length[c]))

\* What such a device signed, and what a command verified, is what goes to the node.
SealedFor(c) ==
    /\ at[c] = "closing" /\ stage[c] = "sign" /\ answer[c] = "ok" /\ ~shared =>
         signature[c].over = Transaction(c)
    /\ at[c] = "sending" \/ Handed(c) =>
         /\ verify => Verifies(c)
         /\ ~shared => signature[c].over = Transaction(c)

LoadingSound == \A c \in Calls : SentSoFar(c) /\ SealedFor(c)

LedgerInv == LedgerTypeOK /\ HandlesSound /\ OutcomeSound /\ LoadingSound
=============================================================================
