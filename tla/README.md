# Verification of the Phantasma TypeScript SDK

TLA+ specifications of the parts of this SDK that keep state across turns of the event loop, and of
the formats and builders that decide what is signed; the TLC configurations that check them, and
theorems about them checked by TLAPS. Paths are relative
to the directory that holds `src/`; the package itself is `src/src/`.

The SDK is a library in one JavaScript thread. Nothing in it runs in parallel, and almost every
hard behaviour comes from the same place: a function reads state, awaits, and goes on with what it
read while timers, frames, other calls, a page reload or the other side moved on.

## Inventory

| Component | State | Operations | What makes it correct | Modelled in |
|---|---|---|---|---|
| v5 session layer: `LinkSessionClient` (`link/v5/transport.ts`), `PhantasmaLink5` (`link/v5/client.ts`) | `pending` requests with timers, session key, session id, `lastConnect`, `lastUnmatched`, `closed`, a stored record | `request`, `handleFrame`, `close`, `connect`, `disconnect`, `forgetSession`, `takeUnmatchedResponse`, reload | every request settles once; nothing in plaintext on a sealed channel; memory, disk and wallet agree on the session; a dead session stays dead | `LinkSession` |
| Relay transport, outgoing (`link/v5/relay-transport.ts`) | socket, `pending` publishes with ack timers, reconnect timer and attempt | `send`, `publish`, `connect`, `scheduleReconnect`, `close`, acks and errors | resolved means relayed; nothing stranded by a reconnect; order on the wire; close is final | `RelayTransport` |
| Relay transport, incoming (same file) | `walletKeySeen`, `partials` | key hop, `acceptChunk` | messages whole or not at all; bounded memory | `RelayInbox` |
| Fee planner (`rpc/fee-planner.ts`) and the host of `PhantasmaAPI` (`rpc/phantasma.ts`) | cached gas config, host | `read`, `config`, `plan`, `invalidate`, `setRpcHost` | bounded staleness however reads overlap; invalidation is final | `FeePlanner`, `SendTransaction` |
| Loopback, injected, deeplink transports | socket or provider, handlers, `closed` | `send`, delivery, `close` | the contract `LinkSession` assumes of them | by contract in `LinkSession`; modules planned |
| Web deeplink (`link/v5/web-deeplink.ts`, `client.ts`) | record in storage, URL fragment | restore, save, consume URL | a reload resumes exactly the live session; two tabs do not destroy each other's | one page in `LinkSession`; tabs planned |
| Legacy link (`link/phantasma-link.ts`) and `EasyConnect` | one callback slot, socket, token | `login`, `sendLinkRequest`, `signTx`, `disconnect` | an answer reaches the request it answers; every request is answered | `LegacyLink` |
| RPC client (`rpc/phantasma.ts`), preflight | host | `sendTransaction`, `readAllPages`, `preflightTransaction`, `setRpcHost` | what is broadcast was planned and checked; a settled message is executed once; a page walk ends and is complete | `SendTransaction` |
| Fee estimation (`tx-helpers/native-fee-estimator.ts`, `fee-plan.ts`) | the list of returned assets, counters of the settlement | price each operation, `settle`, `planFees`, `assumptionsMattered` | the offer covers what the chain charges, however little is stated; an exact plan names it | `NativeFees`, `FeePlan` |
| Carbon signing (`tx-msg-signer.ts`, `signed-tx-msg.ts`, `plan-and-sign.ts`) | none | witness slots, envelopes, planning before signing | each slot signed by its owner; the counted length is the length sent | `Envelopes` |
| Carbon messages and builders (`tx-msg*.ts`, `native-tx-helper.ts`, `vm/`, `modules/`) | none | message and token records, metadata under a schema | what is written is read back; no field is lost or renamed in silence | `Messages`, `DynamicValues`, `TokenData` |
| Codecs (`int-x.ts`, `phantasma-big-int-serialization.ts`, `carbon-serialization.ts`, readers, writers, `serialization.ts`) | cursor | encode, decode | round trips, shortest forms, readers in step with writers | `Numbers`, `Primitives`, `Streams` |
| Ledger (`ledger/`) | device handle, the device's buffer | public key, sign, verify, send | signed over what was built; truthful answers; devices closed | `Ledger` |
| VM (`vm/`) | builder buffer | objects, casts, scripts | values survive; a call arrives with its arguments in order | `VMObjects`, `Scripts` |
| Legacy transactions (`tx/`) | payload, signatures | serialize, sign, mine, verify | a key verifies exactly when it signed what is sent | `Transactions` |
| RPC interfaces, keys and addresses, utilities, public exports | none | records and conversions | nothing a state machine says | not modelled |

### How the parts interact

`PhantasmaLink5` owns a `LinkSessionClient`, which owns a transport and gets frames and its close
by callbacks. The transport knows nothing of sessions. The client's tails of `connect()` and
`disconnect()` run after a promise of the session layer resolved, so they are continuations that
other frames may overtake. `PhantasmaAPI` owns one `FeePlanner`, which calls back into
`getGasConfig` through whatever host the API has at that moment, and prices messages with `planFees`.
`sendTransaction` is the one function that walks through all of it: preflight, planner, reads of
what a burned NFT holds, signers, envelope, broadcast. The Ledger commands go their own way from a
transfer script over the device to `sendRawTransaction`.

### What is hard

- a request settled by four different actors: answer, timer, rejected send, close;
- continuations after an await, applied to state that has moved on;
- an ecdh channel whose key arrives while frames and requests are already on their way;
- at-least-once publishing over a socket that drops, with two independent kinds of timers;
- chunks out of order, repeated, late, and inconsistent;
- reloads between any two of these;
- a cache filled by reads that overlap, and emptied or made wrong while one of them is suspended;
- a price that hangs on chain state nobody stated, with operations of one batch settled together;
- attempts to send one message that overlap, with answers that are lost;
- devices opened anew for every question, and shared by commands that nothing serialises;
- three hand-written formats of integers, and readers that must consume what writers wrote.

`PROJECT.json` lists each hazard at its line with the properties that cover it.

## Modules

- **`RequestLifecycle`** is the abstract specification of a component that answers with promises:
  what is accepted stays open until it settles, once; a close ends everything open and nothing is
  accepted after it; a page that unloads takes its open requests with it. `LinkSession` and
  `RelayTransport` both implement it, the second through `SendOutcome`, the promise that
  `Promise.all` makes of the publishes of one frame.
- **`LinkSession`**: one action per turn of the event loop.

  | Code | Model |
  |---|---|
  | `request()` up to its guards | `Refused`, `RefuseRequest` |
  | the rest of `request()` | `SendRequest`, `ThrowFromRequest` (a synchronous exception) |
  | `transport.send` settling | `SendRejects` (`settleError`), `SendResolves` |
  | the request timer | `RequestTimeout` |
  | `handleFrame`, `decodeIncoming` | `Deliver`, `DeliverStray`, `HandleFrame`, `Opens`, `HandleAnswer`, `HandleEvent` |
  | the wallet's key, with the grant sealed in the same payload | `KeyHop` |
  | the code after `await` in `connect()`, `disconnect()` | `Continue`, from the queue `conts` |
  | `close()`, `rejectAll()` | `Close`, `RejectAll` |
  | `forgetSession()`, `takeUnmatchedResponse()` | `ForgetLocally`, `TakeUnmatchedResponse` |
  | page reload, `webDeeplink()` | `Reload` |
  | wallet and channel (external) | `WalletAnswer`, `WalletPush`, `WalletDelete`, `Lose` |

  A transport appears through six flags (`Ordered`, `Lossy`, `MaxDups`, `QuietAfterClose`,
  `Batched`, `SendMayThrow`), which is all the session layer can tell of it. `Batched` says that
  the host may hand over several frames before microtasks run: the `ws` package does for frames of
  one TCP segment, a browser's WebSocket does not.
- **`RelayTransport`**: publishes are numbers, number 0 is the subscribe frame. `Send` registers all
  publishes of a frame; `OnOpen` re-sends; `OnClose` starts the next rung; `AckTimeout`, `Connect`
  and `Tick` carry the timers; `HandleRaw` settles what the relay acknowledged or refused. A socket
  is `broken` between leaving readyState 1 and its close event; what is in flight may still arrive
  then and is lost afterwards. `close()` moves a connecting socket to `broken` at once, which stands
  for the `closed` guard in `onopen`.
- **`RelayInbox`**: `DeliverChunk` is all of `acceptChunk`, the staleness sweep first; `DeliverKeyHop`
  is the `wpk` branch of `handleRaw` with `relayEcdh`'s `onWalletKey`.
- **`FeePlanner`**: `read()` is split at its await into `ServeCached`, `AskNode`, `LandAnswer` and
  `ReadFails`; the node answers in between. A price is the number of the resolution that set it,
  and `endedAt` remembers when each went out of force.
- **`SendTransaction`** extends `FeePlanner` with `PhantasmaAPI.sendTransaction`, one action per await
  (`LookUp`, `Control`, `Probe`, `Plan`, `ReadPage`, `Sign`, `Broadcast`). Several attempts send one
  message; `Planner` are the planner's own turns on their behalf. `chain` is what a chain executed.
- **`NativeFees`** has no state: one operator per kind of operation (`operationModel`), which counts the
  charges it makes instead of adding up their prices, and the settlement (`Accumulate`, `Bill`,
  `Offer`, `Escrow`), with saturation at `MaxWord` and powers of two from the table `Pow2`.
- **`FeePlan`** is `planFees`: one step per operation of the message (`PriceTransfer` to
  `PriceScript`), one per asset that a burn returns (`PriceReturn`), then `PlanFees`. The same step
  prices the operation three times: as quoted, with what is unstated at its cheaper reading
  (`assumptionsMattered`; the code describes and adds up the message once more), and as the chain
  will find it, which agrees with what was stated and is otherwise free, operation by operation.
  `Refuse` is every exception of the planner that depends on the message.
- **`LegacyLink`**: everything a socket handler calls runs in the same turn, and the calls nest
  (`onmessage`, the callback in the slot, `sendLinkRequest`, `handleSocketFailure`, `disconnect`), so
  a handler is a function on the record `page` and is put together from functions named as in the
  code. `Call` is any request method, `EasyAction` and `SignScript` are the two turns of
  `EasyConnect.action`. `care` is what the application is careful about: asking for one thing at a
  time once it has an account, and connecting only when the last connection is finished. After
  `close()` a socket delivers nothing but its close event, as the WebSocket standard has it.
- **`Ledger`**: `List`, `Open`, the APDUs (`GetPublicKey`, `SignLedger` and so on) and `Close` are the awaits of
  every device command; `Continue` is what its caller does with the answer, in the same turn as
  `finally`. A device keeps one transaction (`loaded`), whichever call loads it; `shared` says whether
  the operating system lets two handles share it.
- **`Numbers`**, **`Primitives`**, **`Streams`**, **`VMObjects`**, **`Scripts`**, **`Transactions`**, **`Messages`**, **`Envelopes`**,
  **`DynamicValues`**, **`TokenData`** have no state: functions of the code are operators of the same
  name, on sequences of bytes. A byte is a digit of `Base`, and words, addresses, hashes and
  signatures have the sizes the constants give, so that a boundary of 2^256 is met with numbers TLC
  can hold. A reader gives `Got(value, rest)`, an exception is the value `Thrown`. `Scripts` also has a
  machine (external) that runs what was built. `Primitives` has the writers and readers of values that
  hold no others, `Streams` those of lists and objects, which are recursive.
- **`CodecSamples`** has one input of one codec in its variable and says what must be true of it, for the codecs that
  theorems speak of; **`MCCodecs`** adds the others and says which inputs there are, one per state.
- **`Codecs_proofs`**, **`LinkSession_proofs`**, **`RelayTransport_proofs`**, **`RelayInbox_proofs`**,
  **`FeePlan_proofs`**, **`SendTransaction_proofs`**, **`Ledger_proofs`**, **`LegacyLink_proofs`**: theorems.
- **`MC*`**: model values, symmetry and the values of structured constants.

Each `X_Y` definition under a comment that begins with *Mutant* is a plausible wrong version of `X`.
No specification uses it; it documents, and lets one check, that the properties notice the bug.

## Runs

| Run | What it asks | Bounds |
|---|---|---|
| `link_channel` | safety of the session layer over the worst channel | 2 requests, 1 session, ecdh, 1 repeated frame |
| `link_session` | agreement of memory, record and wallet on the session | 2 requests, 2 sessions, ordered channel, one frame per task, reloads |
| `link_late_connect` (violated) | the comment that a session the wallet ended cannot come back | as `link_session`, without a record, two frames may share a task |
| `link_live` | the session layer implements `RequestLifecycle`; requests settle; sessions the wallet ended are dropped | 2 requests, 1 session, reloads, failing writes |
| `relay` | safety of publishing across reconnects; sends settle, connections are replaced, refinement; reassembly of what comes in, with key hops in between | 2 frames of up to 2 chunks, 3 publishes, ladder 1, 2, ack timer 3; 2 messages of 3 and 4 chunks, 1 assembly at a time, ceiling 3 |
| `send_transaction` | fresh prices, one execution, honest preflight, whole pages | 2 attempts, 2 hosts, Ttl 1, clock 0..1, 2 prices per chain, lists of 2 pages |
| `send_other_chain` (violated) | the comment that the planner is that of the chain the client talks to | 2 attempts, 2 hosts, 1 price |
| `fee_plan` | the offer covers the bill, when an exact plan names it, rounding goes one way | messages of 1 operation and batches of 2 with up to 3 returned assets in 3 lists, 5 gas configs, 6 statements |
| `fee_nothing_stated` (violated) | the comment that a plan which states nothing is an upper bound | the same, 1 gas config |
| `legacy_link` | one slot for all requests: callbacks run once, answers reach their request, failures are heard | 2 requests of 3 methods, 1 login, 2 connections |
| `ledger` | what is handed to the node was signed as asked, a send reports what the node told it, devices are closed | 2 commands of every kind, 2 devices, 2 moves of them, transactions of 2 and 3 chunks (one of them too long) |
| `codecs` | what is written is read back, and what is not is stated; arguments, witnesses and fields are in their places | about 37 000 samples, see below |

### Why these bounds are enough to be interesting

The two halves of `RelayTransport` share no state but `closed` and the socket, which only the outgoing
half uses, so `MCRelay` lets one of them move at a time: with both moving the run would check the
same steps in the product of their states.

Two requests are needed for an answer to be confused with another's, and two sessions for an old
one to come back; one repeated frame is a repetition of any frame. Three publishes give a chunked
frame beside a plain one, re-sent in any mixture of acknowledged and not. A ladder of two rungs has a first, a last
and a repeating rung, and every ack timeout falls before, on and after a rung. In the inbox one
message just fits the ceiling and the other just exceeds it, and the second message always meets
the limit on assemblies. One message sent twice is the least that can be executed twice. Two commands
on one device are the least whose APDUs can alternate, and two moves of devices put another one in
front between two questions. Two plans are enough for an older read to land over a newer one, because
`PricesHold` also speaks of the entry that a third plan would be served; two chains of two prices
tell a price that is old from one that is another chain's. Two operations are
the least in which one's deletions meet another's rows. The ROM sizes 962 and 963 lie on the two
sides of a storage quantum, the five configs are one of each kind (plain, one that rounds and whose
floors lie among the bills, saturating, shifted out, gas model v1), and 60000 stands for 2^64 - 1
because TLC's integers have 32 bits. The two sessions are interchangeable in
`link_session` only because both may be pushed by the wallet, so the symmetry there is sound. The
theorems below remove the bounds for the properties they
name. Counters that the code lets grow (publish numbers, the clock, prices) are cut in the guards
by the constants `MaxPubs`, `MaxTime` and `MaxPrice`.

`codecs` has bytes of 128 values, words of 3 of them, long integers and lengths of 2, addresses of 3. The
integers are all from -300 to 300 and those within 3 of a power of the base, of half of one, or of
twice one, on both sides of zero, up to one past the word; they meet every place where a
length or a sign changes. Streams are all pairs of items (every writer beside every other), objects
are nested twice, argument lists hold two of thirteen values, transactions see every order of up to three
calls of sign and mine, envelopes up to three signers in any order with repetitions, and
schemas and metadata leave out, repeat and misspell fields. The bytes are smaller than the code's and
the code branches on none of their values but the sign bit, 0xfd to 0xff of `writeVarInt` (which are
the last three values of a byte here too), and widths.

`CHECK_DEADLOCK FALSE` is set where the system may stop: every request used, everything settled.

### Fairness

`LinkSession` assumes weak fairness of timers, of microtasks, of the delivery of what has arrived
and, for `DeadSessionDropped`, of the wallet's answers. The event loop guarantees the first three.
Nothing is assumed of the application, the user or a lossy channel. `RelayTransport` assumes weak
fairness of timers and close events and strong fairness of `OnOpen`: a server that is tried for ever
accepts some day. `SendsSettle` does not depend on it. `LegacyLink` assumes weak fairness of the
handlers, of the continuation of `action()`, and of the wallet, whose user answers some time.

## Findings

Each is a run whose one property is what a comment, or the protocol spec, says of the code.

1. `connect()` adopts its result in the continuation of its await. If the host hands over the answer
   and the wallet's notice that the session ended in one task, `forgetSession()` runs first and the
   continuation makes the dead session current again and reports it to `onSessionChange`
   (`client.ts:359`, against the comment at `:109`). `NoResurrection` holds where every frame has a
   task of its own (`link_session`, and `TheDeadStayDead` for any bounds).
2. In a batch, the meta-id row that a burn is assumed to delete is taken off the rows that the other
   calls create. A plan that does not state `romHasMetaId` is then below the bill when the ROM has no
   such id, although a plan that states nothing is called an upper bound (`fee-plan.ts:43`,
   `native-fee-estimator.ts:166`, `:430`). `OfferCovers` holds with this one exception.
3. Switching the API's host keeps the prices of the previous chain until they expire
   (`phantasma.ts:460`, against the comment at `:682`).

More were met while modelling and follow from the models at once; no run is spent on them.

In the links: the close event of a replaced legacy socket fails the request that is open on the new one, after which the wallet's answer goes to the
next request (`phantasma-link.ts:754`; the applications of `AnswersMatch` wait for the old connection
to finish). An
answer that arrives after this same page gave up on its request is reported as unmatched, though the
comments say that this never happens without a reload (`transport.ts:52`, `:255`; `UnmatchedExplained`
says when it does). The default ack timeout of 15 s is shorter than the default ladder of 23.5 s that
it "must comfortably exceed" (`relay-transport.ts:122`, `:235`). A
synchronous exception from the encoder or the transport leaves `request()` with the pending entry and
its timer in place, against the comment at `transport.ts:180` (`ThrowFromRequest`). A
refused subscribe is logged but fails no operation, which section 16 of the protocol spec asks for
(`relay-transport.ts:326`).

In the RPC client: `invalidate()` does not reach a read that is under way (`fee-planner.ts:102`, `:106`;
`IdleInvalidateHolds` says what it does reach). An error object without a message is not recognised
as one, and `sendTransaction` resolves with it (`Unwrap`). A message planned on the way is another
transaction when the price changed, so a retry after a lost answer may execute it twice (`SentOnce` is
about settled messages). A verdict is "free" although nothing was established when only the first
lookup failed (`phantasma.ts:42`). The preflight looks at single calls only, so a token created inside
a batch is not checked (`transaction-preflight.ts:81`). `readAllPages` ends in silence at a cursor that
comes twice. A plan whose `exact` is true is called a prediction of the settlement
(`fee-plan.ts:108`), and whether the burner holds a returned asset is said to move "the escrow ceiling and
never the bill" (`native-fee-estimator.ts:248`). In a batch that burns NFTs beside other operations neither
holds: `assumptionsMattered` flips neither that fact nor the sizes of the burned ROM and RAM, which the
calculator presumes to be the smallest, and what such a burn frees beyond that is taken off what the
others create. `ExactPredicts` says there what must be known for the bill to be the one named, and that with the
meta id alone it is not above it; without a burn in a batch it asks for nothing.

In the formats: `writeVarInt` writes lengths above 0xffff in three or four bytes of which the readers
read four or eight (`p-binary-writer.ts:124`). `CarbonBinaryWriter.writeBigInt` takes a number of one
bit more than a signed word, of either sign, without an error, and the reader gives back the word of its low bits:
2^255 as -2^255, -2^256 as 0. The comment at `carbon-serialization.ts:461` wants pure sign extension there, and the
code compares the byte above the word with its own sign only (`AsWord`, `NumberSurvives`).
`readWithSchema` does not pass on the schema of a struct inside a struct, which `writeWithSchema` does (`vm-dynamic-variable.ts:131`). A field that
is missing or of another type is written as a default, and only the return value says so. One caller looks at
it: the writer of an array of structs stops after the first that lacks a field, though it wrote the count
of them all (`vm-dynamic-variable.ts:355`), so the array's own reader throws (`Attempted`, `CutShort`; `TokenDataSound`
states it), or takes the bytes of what follows for the missing structs. A schema
field of type `Dynamic` passes `verify` and cannot be written. Timestamps that `serializeObject` writes are
read with `readVarInt`. ECDSA signatures are written without the curve byte they are read with.
Setting a key that a `VMObject` has adds a second entry, and decoding bytes that hold `None` throws. Mining
after signing makes the signatures worthless, and a difficulty that cannot be met does not end.

In the Ledger: a broadcast whose answer was lost is reported as a failure, and `verifyResponse` is off unless
asked for, so a device that was exchanged between key and signature goes unnoticed. A refusal whose error object
has no message is passed on as an object (`phantasma.ts:442`) that `isRpcErrorResult` does not take for an
error (`rpc-result.ts:40`), so `sendTransactionLedger` answers `success: true` (`speechless` in `Told`; `Truthful` names
the case).

A write to storage that fails leaves the old session in the record, and a reload resumes it though
the wallet told the page that it is gone; `DeadSessionDropped` says so in `LeftOnDisk`.

## Proofs

Checked by TLAPS for every value of the constants that the modules' assumptions allow: any number of
requests, sessions, calls and hosts, any mix of the transport flags, any times.

- **`LinkSession_proofs!TypeCorrect`**: types, `PendingSound` and `MethodKnown` always hold.
  `PendingSound` (the map holds exactly the open promises, and none after a close) is inductive
  together with the types: whatever changes `outcome` changes `pending` with it, and nothing is
  accepted once `closed`. The first lemmas say what removing a frame from the middle of a channel leaves.
- **`NothingInPlaintext`**: `SealedOnly` needs `KeySound`, that the key is there exactly as the mode of
  the channel says, because what makes a request sealed is the key and what keeps it from being sent
  without one is the guard in `request()`.
- **`LifecycleImplemented`**: every step of `LinkSession` is a step of `RequestLifecycle` or leaves
  `closed` and `outcome` alone. It uses `PendingSound`: `rejectAll` settles the entries of the map,
  the abstract `Shut` the open promises.
- **`WalletSpeaks`**: `OnlyTheWalletSpeaks`, from the invariant `IndInv` of `LinkSession`: the types,
  `PendingSound`, `KeySound`, `SealedOnly` and two parts more. `OneAnswer`: a request is on its way to
  the wallet or answered, never both, so the ghost of who answered cannot be outrun by a copy of the
  request. `GrantedOnly`: every session named anywhere, by the page, its storage, a frame or a
  continuation, was granted. A frame the wallet did not write never opens (`StrayIsDropped`), which is
  what `KeySound` is for; `Adopted` says what a step may make the page's session.
- **`SessionsAgree`**: `SessionCoherent`, provided that writes to storage do not fail. A step leaves the
  session alone, adopts one, forgets it or loads what the record says; no other fact is needed.
- **`UnmatchedHasReason`**: `UnmatchedExplained`, from `IndInv` and `AnsweredOnce`: while no frame came
  twice, an answer in flight is the only one to its request, and to one the page waits for or gave
  up. Delivering it takes the request off the map and leaves nothing behind that could come
  unmatched. Lossy and unordered channels are no trouble, because no part of it speaks of what is
  not in flight or of the order.
- **`TheDeadStayDead`**: `NoResurrection`, under three assumptions: the channel keeps the order,
  microtasks run before the next frame (`~Batched`, without which `link_late_connect` violates it), and writes to
  storage do not fail. `EndIsFinal` says that behind the end of a session nothing in flight grants it,
  and nothing at all once the end was handled; a wallet grants only what it holds or what is new, so
  what it says last grants nothing that ended (`EndAdds`). `EndDeliver` is where the order and the
  empty queue of continuations are used. The channel may lose frames and repeat them.
- **`QuietPagesAreRight`**: `QuietSessionLive`, under those three assumptions and that the channel loses
  nothing (a lost notice of an end is never made up for). It may repeat frames, go on after a close,
  and the wallet may keep one session only. `LastNewsIsTrue` says where the truth is while it
  travels: the last of what `Tells` of a session, in flight, queued behind an answer or handled,
  names one the wallet holds, or none. Each step of the wallet puts its news last (`NewsAdded`), a frame
  handled hands its news on (`NewsHandled`, `NewsDelivered`), and all others leave it (`NewsKept`).
  What stops counting as news is an answer to a request that was given up, which is why the
  property has that exception; `NoneForgotten` says that every request in flight is in the map or was given up,
  and that what the wallet wrote opens.
- **`RelayTransport_proofs!ResolvedIsRelayed`**, **`NoneStranded`**, **`KeptInOrder`**, **`CloseIsFinal`**: for any
  number of frames and publishes, any ladder and any timers. The invariant `RelayInv` has the types,
  the four properties and five parts. `PendingOpen`: the map holds exactly the publishes that wait
  for their acks. `PartsSound`: publishes are numbered as they are made, each for one frame that was not
  refused. `AckSound`: an ack, on its way or taken, is of a publish the relay relayed. `SocketSound`: a
  reconnect waits only while no socket is there, and a new socket starts afresh. `WireBounded`: an open
  socket has its subscribe, and nothing on it is newer than the last publish. New publishes and re-sent
  ones are newer than all on the wire (`WireGrows`), and what the relay takes leaves the order as it
  was (`FirstMoves`). `InOrder`, the order in which `onopen` re-sends the pending map, is a choice
  from the enumerations of a set; that there is one (`Enumerable`) is an induction over the
  publish numbers, done with sets (`LeastOf`, `SetInduction`) from the library's well-founded orders.
- **`SendImplemented`**: the relay transport implements `RequestLifecycle`: an ack, a timeout or an error
  settles at most one frame (`OneSettles`), and a close settles all that are open (`CloseShuts`).
- **`RelayInbox_proofs!ForwardedWhole`**, **`InboxBounded`**: for any messages, totals and limits. `InboxInv`
  adds to the types and `MemoryBounded` that an assembly holds chunks below its total (`AssembliesSound`),
  and that of a message nothing of which was dropped, what has arrived is in its assembly, or all of it
  was forwarded (`ArrivedSound`). As many chunks as the total, each
  of them below it, are all the chunks (`CountChunks`).
- **`SendTransaction_proofs!PlansAreFresh`**: `PriceFresh` and `IdleInvalidateHolds`. The invariant
  `PlannerInv` adds `ReadsSound` (a stored, suspended or returned price was in force when its read
  began or later, and no read begins in the future) and `EpochsSound` (a read under way is no older
  than the last invalidation that found none under way). The argument is that a price only goes out
  of force at the present moment (`StillInForce`), so an entry stamped with the beginning of its read
  cannot become older than its stamp; the mutant that stamps it on arrival breaks exactly this.

- **`SendTransaction_proofs!SettledIsSentOnce`**, **`PreflightIsHonest`**, **`WalksAreWhole`**,
  **`PlansStayFresh`**: for any number of attempts, nodes and pages. `StepKinds` shows that a step of
  `sendTransaction` is a step of the planner or takes an answer from it, so the planner's invariant is
  reused as it stands. `SendInv` adds three parts to the types. `SettledSound`: with a settled message
  nothing is planned or walked, so every attempt has the envelope `<<Own, {}>>` and a chain holds no
  other; the chain's own check for repetitions does the rest. `LookUpSound`: from the lookup on the
  symbol is not known to be taken. `WalkSound`: while the node has been honest, the pages read are
  those before the cursor and the cursors seen are those after the first; `HonestPage` shows that an
  honest next cursor is a new one until the last page, where it is none, so a stop means the end. The
  mutant that stops at an empty page breaks exactly this. `StepFields` and `PageFields` say once what
  each action does to its attempt.
- **`Ledger_proofs!SentAsSigned`**, **`SendsAreTruthful`**, **`DevicesAreReturned`**: for any number of
  commands and devices, any `ChunkSize` and transactions of any length. `LedgerInv` has the types and
  three parts. `HandlesSound`: a device is open exactly while it is asked, and one that cannot be
  shared is open once. `OutcomeSound`: nothing has come of a command under way. `LoadingSound`:
  between two APDUs a device that is not shared holds what it was sent so far (`SentSoFar`), and what
  was signed or verified stays until it is sent (`SealedFor`). That the chunks join to the whole
  transaction is arithmetic, done in `ChunkFacts`, `BytesJoin` and `NextChunk`; that no other command
  comes between is `HandlesSound`. `ContinueGoes` says once where a command goes when a device
  answered.
- **`FeePlan_proofs!OfferIsEnough`**, **`ExactIsExact`**, **`RoundingIsCovered`**, **`TypeCorrect`**: for
  every gas config, price, statement, size and number of operations. The argument is a sandwich.
  `Between` says that after every operation the chain's counters lie between those of the cheaper
  and the costlier readings; it is inductive because each kind of operation is monotone in the facts
  (`Below`), and so is saturating addition. Bill and offer are monotone in the counters
  (`SettleMonotone`), products, quotients, floors and all, so the offer is above the bill; and if both
  ends of the sandwich give one quote, what lies between is that quote. Rows are netted, which is not
  monotone in what is deleted: `DeletedSound` and `BurnsShrink` say where it is, and `Mixed` names
  where it is not, which is finding 2. `ExactIsExact` takes more in such a
  batch: a stated meta id, stated holdings (`HoldsStated`) and as many rows deleted as presumed (`BurnsAsPresumed`); from
  the meta id alone follows that the bill is at most the one named. For `RoundingIsCovered`, `ApartSound` bounds the sum of
  the charges that the chain scaled one by one.
- **`LegacyLink_proofs!CallbacksRunOnce`**, **`SessionsAreOfToday`**, **`CarefulAnswersMatch`**, **`LegacyTypes`**: for
  any number of requests, methods, logins and connections. A handler is a function on the record `page`, so
  the lemmas say first what each function may do (`Effect`, `Handled`), and then that every handler
  is made of them. `SlotSound`: what is in the slot was called and has not run, and nothing runs that
  was not called. `OneSocket`: only the newest socket can be connecting or open, and an answer comes over the
  socket it was given on. `SessionSound` adds that a token is there before the account is asked for.
  `SessionsAreOfToday` has one assumption, `AccountsAskedFor`: the answer to `fetchWallet` names an
  account too, whether or not there is a token, so an application that uses it does so only once it
  has an account. `CarefulSound`, for applications careful in both ways, says of each socket that nothing is
  under way on it, or just one thing, and that it is what the slot waits for (`WireSound`); that a
  script is awaited for one request while nothing else is asked (`BuildingSound`); and that answers match so
  far. A login asks twice through the same slot (`authorize`, `getAccount`), whoever else is in it, so
  `UnderWay` speaks of login steps too, and an account is there only once they are through.

- **`Codecs_proofs!NumbersAreSound`** (`NumbersSurvive`), **`LegacyValuesSurvive`**, **`ItemsSurvive`**: for every
  integer (the compact form gives back those of a signed word; what becomes of one bit more, and where it throws,
  is part of the statement), bytes of any even base from 8 up, and words of any size that a header byte can count.
  The decoders and encoders of the code carry, invert, fill and cut bytes in loops of three styles. Each is reduced
  to what it does to a `Magnitude` and to the `Value` in two's complement: adding one carries through the full bytes
  (`PlusOneFacts`), inverting turns the magnitude over (`InvertedFacts`), sign extension keeps the value, filling up a short payload
  with the header's sign gives the word it was cut from. That the compact form is the shortest follows because
  fewer bytes stand for other numbers. For streams, a reader is *in step* with a writer when it gives the value
  back and leaves what follows, and throws on every proper beginning of the bytes; that is shown of each
  Carbon item and carried to any number of them by induction.
- **`Codecs_proofs!TransactionsAreSound`** (`TransactionsSurvive`, `StepsAreSound`, `HelperIsSound`): for every
  transaction whose lengths fit two bytes and whose time fits four bytes of seconds, any set of keys, any hash, and any
  history of calls. `HistoryInv` says after each call that only payload and signatures have changed, that a
  payload is there, and that the signatures are exactly those of the calls so far, each over what was there when
  it was made (`SignedBy`). A key then verifies exactly when one of its signatures is over the present bytes; that equal
  bytes mean equal payloads is the other half, and follows from reading them back. Mining looks at a copy only, so
  the work found is that of the transaction which is sent.

- **`Codecs_proofs!EnvelopesAreSound`** (`MessagesSurvive`): for every message of the seventeen types whose fields fit the
  wire (`MsgFits`: numbers of their width, keys and signatures of theirs, lists that a length can count) and any
  signers with keys of accounts (`GivenSigners`), in any order and with repetitions.
  First the bytes. Every kind of field is shown to be in step (`FieldLeads` and what it rests on: sections of call
  arguments, 256-bit numbers, lists), then a blob of such fields by induction on their number (`LayoutLeads`), then
  lists of blobs and the blobs that hold those, and so each layout of `Payloads`. The envelope adds bare signatures
  in the order the message fixes, or a list of witnesses; a
  length depends on the sizes of the fields alone (`SameLengths`), so the placeholders of `envelopeBytes` give the
  length of what is sent (`PlannedLength`).
  Then who signs. The keys of the signers are the addresses of the slots, and complete, exactly when the envelope
  can be written. `signWith` asks the signer of each first place: those are as many as there
  are keys (`OncePerKey`, by induction over the places), and the signature used again is of the same key.
  A plan replaces the offer and the storage limit (`apply`), both of fixed width, so it is a plan for the envelope that
  goes out (`PlansFit`); here both, for that length, must fit a message (`OfferFits`). A raw message is never planned:
  it goes out only when its gas was set. The builders are one case for
  each of the eleven layouts they fill (`BuiltIsSound`, for parameters that fit their fields, `ParamsFit`).
  Every message, signer list and set of parameters that the `codecs` run has meets these hypotheses.

Three assumptions are of the models and not of the code: an exception is no value that a reader gives
(`ThrownAssumption`, `ThrownIsNoResult`, and for envelopes `ThrownIsNoRecord`: neither a list nor one of the records
signing gives), a signature of the old chain is the key with its message, and one of Carbon is `SignatureSize` bytes
that only the key and the message decide (`SignsKeys`). Of the hash nothing is assumed
but that it is a function.

The theorems about the codecs are inductions over data. The library's induction theorems cannot be used, because they
take the claim as an operator, and no prover instantiates that. A claim about every number is stated of
the *set* of numbers for which it holds instead (`SetInduction`, from `LeastOf`); a function defined by recursion is
shown to exist as the union of its beginnings (`Recursion`) and to be unique (`RecursionUnique`), and both
lemmas take sets and functions only.

Only model-checked: liveness and `ENABLED` (out of the prover's reach); and of the `codecs` run what it says of
lists and objects of the old streams, objects and scripts of the virtual machine, and token data
(`StreamsSound` apart from Carbon items and the old values, `VMObjectsSound`, `ScriptsSound`,
`TokenDataSound`). Those values hold others of their kind to any depth, and their modules use `RECURSIVE` operators, with
which the provers do not work. Blobs hold lists of blobs once at most; `ReadFlat` and `ReadBlob` say so, and need no recursion.

## Abstractions

- Cryptography: a frame opens when it is sealed exactly as the channel requires.
- Payloads of plain methods do not exist; a result is the session it grants, or nothing.
- The request timer of `LinkSession` may fire at any time. Only `RelayTransport` and `FeePlanner`
  count time, because only there do two durations compete.
- The wall clock does not run backwards. The planner reads `Date.now()`, so a clock set back lengthens
  its Ttl by as much.
- Ids are unique, as `randomToken()` makes them.
- The instances of one mint or burn have ROMs of one size and RAMs of one size, NFTs are of ordinary
  tokens, and what a batch's burns return is one of the lists in `Listings`. The settlement of the
  chain itself (`apart`, `actual`, `held`) is external, taken from the comments of the calculator.
  `planFees` refuses a message whose witnesses it cannot count; the signed size is given here, and
  `Envelopes` has the other half: the prices are the constant `Quote` there and the size is computed.
- `readSignatureV2` throws for an ECDSA signature, and `Decoder.readVmObject` for bytes that end too early, where the
  code goes on with what the library or the missing digits give; neither is reached by what the writers write.

## Not modelled, and what comes next

What lies between a page and its URL or provider (`web-deeplink.ts`, `injected-transport.ts`,
`deeplink.ts`, `loopback-transport.ts`) are known by the contract that `LinkSession` takes; modules
`TransportContracts` (each transport shown to give its flags) and `WebDeeplink` (two tabs, one storage,
URL fragments) come next. The other methods of `PhantasmaAPI` are one JSON-RPC call each. Keys,
addresses, curves, hashes and NaCl boxes are functions of libraries; texts, units and colours of the
console keep no state; pairing URIs and base64 are conversions that a test reaches. Labels and jumps
of the script builder are used by nothing in the repository. Reading an ABI or a manifest from a file is left out.

Every safety invariant that the runs of the state machines check is a theorem now, and so is what the `codecs` run
says of numbers, transactions and envelopes. Worth having next: the values of token data. A
schema nests without bound, so their writer and reader would have to be functions over the depth first.
