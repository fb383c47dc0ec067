---------------------------- MODULE LinkSession ----------------------------
(***************************************************************************)
(* The session layer of Phantasma Link v5: class LinkSessionClient         *)
(* (src/src/link/v5/transport.ts) and the session state that class         *)
(* PhantasmaLink5 (src/src/link/v5/client.ts) keeps on top of it, as one   *)
(* page of a dApp runs them, with the wallet and the channel around them.  *)
(*                                                                         *)
(* What the code does in one turn of the event loop is one action.  What   *)
(* it does after an await (the tail of connect() and of disconnect()) is   *)
(* an action of its own, queued in `conts` when the answer settles the     *)
(* promise.  A transport is known here by its contract only: whether it    *)
(* keeps the order of frames, may deliver one twice, may lose one, may     *)
(* throw from send, still delivers after close.                            *)
(***************************************************************************)
EXTENDS Naturals, Sequences, FiniteSets, SequencesExt

CONSTANTS
    Reqs,           \* ids of requests; randomToken() never repeats one
    Sessions,       \* ids of sessions the wallet may grant
    None,           \* `undefined`
    KeyMode,        \* "plain" | "preset" | "ecdh": how the channel gets its key
    TimeoutOn,      \* requestTimeoutMs > 0
    Persistent,     \* a record on disk follows the session (webDeeplink)
    StoreMayFail,   \* storage.setItem may throw (quota, private mode)
    SendMayThrow,   \* transport.send or the encoder may throw synchronously
    Ordered,        \* the transport delivers frames in the order they were sent
    Lossy,          \* a frame or a request may be lost
    MaxDups,        \* how many frames the transport may deliver a second time
    QuietAfterClose,\* the transport delivers nothing once it is closed
    Batched,        \* several frames may be handled before the microtasks run
    OneSession,     \* a fresh grant ends the wallet's other sessions here
    ExtraSessions,  \* ids an application may pass itself to connect()
    AnswerKinds     \* kinds of answers the wallet gives

ASSUME LinkAssumption ==
    /\ None \notin Reqs /\ None \notin Sessions
    /\ KeyMode \in {"plain", "preset", "ecdh"}
    /\ {TimeoutOn, Persistent, StoreMayFail, SendMayThrow, Ordered, Lossy,
        QuietAfterClose, Batched, OneSession} \subseteq BOOLEAN
    /\ Persistent => KeyMode = "preset" \* only webDeeplink keeps a record
    /\ MaxDups \in Nat
    /\ ExtraSessions \subseteq Sessions
    /\ AnswerKinds \subseteq {"ok", "error", "malformed"}

VARIABLES
    closed,      \* LinkSessionClient.closed
    sessionKey,  \* whether LinkSessionClient.sessionKey is set
    sessionId,   \* LinkSessionClient.sessionId
    pending,     \* keys of LinkSessionClient.pending
    outcome,     \* outcome[r]: the promise request() made for r
    method,      \* method[r]: the method r was issued for
    conts,       \* awaits of PhantasmaLink5 whose promise has resolved
    lastConnect, \* session id of PhantasmaLink5.lastConnect
    unmatched,   \* id in PhantasmaLink5.lastUnmatched
    stored,      \* session id of the persisted record
    toWallet,    \* requests on their way to the wallet
    toClient,    \* frames on their way to the page
    dups,        \* frames delivered twice so far
    live,        \* sessions the wallet holds for this channel
    granted,     \* sessions the wallet has ever granted
    sending,     \* requests whose transport.send has not settled yet
    thrown,      \* requests whose request() call threw
    gaveUp,      \* requests this side settled without the wallet's answer
    issuedHere,  \* requests issued by the page now loaded
    dropped      \* sessions the page was told are gone

clientVars == <<closed, sessionKey, sessionId, lastConnect, unmatched, stored>>
requestVars == <<pending, outcome, method, sending, thrown, gaveUp, issuedHere>>
walletVars == <<live, granted>>
channelVars == <<toWallet, toClient, dups>>
vars == <<closed, sessionKey, sessionId, pending, outcome, method, conts,
          lastConnect, unmatched, stored, toWallet, toClient, dups, live,
          granted, sending, thrown, gaveUp, issuedHere, dropped>>

Methods == {"connect", "disconnect", "other"}
Outcomes == {"idle", "waiting", "resolved", "rejected", "lost"}
SessionOrNone == Sessions \cup {None}

RequireKey == KeyMode = "ecdh"
Sealed == KeyMode # "plain"

Request == [id: Reqs, method: Methods, session: SessionOrNone,
            resume: SessionOrNone, sealed: BOOLEAN]
AnswerKind == {"ok", "error", "malformed"}
EventKind == {"established", "deleted"}
\* An answer carries the id of its request, and a session when it grants or ends one.
AnswerFrame == [kind: AnswerKind, id: Reqs, session: SessionOrNone, sealed: BOOLEAN]
EventFrame == [kind: EventKind, id: {None}, session: Sessions, sealed: BOOLEAN]
Frame == AnswerFrame \cup EventFrame
Continuation == [method: {"connect", "disconnect"}, session: SessionOrNone]

TypeOK ==
    /\ closed \in BOOLEAN
    /\ sessionKey \in BOOLEAN
    /\ sessionId \in SessionOrNone
    /\ pending \subseteq Reqs
    /\ outcome \in [Reqs -> Outcomes]
    /\ method \in [Reqs -> Methods \cup {None}]
    /\ conts \in Seq(Continuation)
    /\ lastConnect \in SessionOrNone
    /\ unmatched \in Reqs \cup {None}
    /\ stored \in SessionOrNone
    /\ toWallet \subseteq Request
    /\ toClient \in Seq(Frame)
    /\ dups \in 0..MaxDups
    /\ live \subseteq granted
    /\ granted \subseteq Sessions
    /\ sending \subseteq Reqs
    /\ thrown \subseteq Reqs
    /\ gaveUp \subseteq Reqs
    /\ issuedHere \subseteq Reqs
    /\ dropped \subseteq Sessions

Init ==
    /\ closed = FALSE
    /\ sessionKey = (KeyMode = "preset")
    /\ sessionId = None
    /\ pending = {}
    /\ outcome = [r \in Reqs |-> "idle"]
    /\ method = [r \in Reqs |-> None]
    /\ conts = <<>>
    /\ lastConnect = None
    /\ unmatched = None
    /\ stored = None
    /\ toWallet = {}
    /\ toClient = <<>>
    /\ dups = 0
    /\ live = {}
    /\ granted = {}
    /\ sending = {}
    /\ thrown = {}
    /\ gaveUp = {}
    /\ issuedHere = {}
    /\ dropped = {}

-----------------------------------------------------------------------------
(* Session state of PhantasmaLink5.                                        *)

\* onSessionChange writes the record; the write may throw, leaving the disk as it was.
Persist(s) ==
    \/ stored' = IF Persistent THEN s ELSE stored
    \/ StoreMayFail /\ Persistent /\ UNCHANGED stored

\* lastConnect and the session id are assigned before the record is written.
AdoptConnectResult(s) ==
    /\ lastConnect' = s
    /\ sessionId' = s
    /\ Persist(s)

\* Mutant: the record on disk is left alone.
ForgetSession_KeepsRecord ==
    /\ lastConnect' = None
    /\ sessionId' = None
    /\ UNCHANGED stored

\* Mutant: only the cached account is dropped, the session id stays.
ForgetSession_KeepsId ==
    /\ lastConnect' = None
    /\ UNCHANGED sessionId
    /\ Persist(None)

\* forgetSession(), also the tail of disconnect().
ForgetSession ==
    /\ lastConnect' = None
    /\ sessionId' = None
    /\ Persist(None)

-----------------------------------------------------------------------------
(* LinkSessionClient.request and what settles it.                          *)

\* A timer or an unload is a task of its own: the awaits that resolved have run on.
Drained == conts = <<>>

\* A call of the application, or a frame: it may come before them where the host hands
\* over several frames in one task (the ws package, the provider's own microtasks).
Turn == Drained \/ Batched

Settled(S, o) == [r \in Reqs |-> IF r \in S THEN o ELSE outcome[r]]

\* Mutant: the key is not waited for.
Refused_IgnoresKey == closed

\* Mutant: a closed client still sends.
Refused_IgnoresClose == RequireKey /\ ~sessionKey

\* request() refuses: the client is closed, or the channel has no key yet.
Refused == closed \/ (RequireKey /\ ~sessionKey)

\* connect() resumes the current session unless the application names another.
Resume(m, extra) ==
    IF m # "connect" THEN None ELSE IF extra # None THEN extra ELSE sessionId

Envelope(r, m, extra) ==
    [id |-> r, method |-> m, session |-> sessionId, resume |-> Resume(m, extra),
     sealed |-> sessionKey]

RefuseRequest(r, m) ==
    /\ Turn
    /\ outcome[r] = "idle"
    /\ Refused
    /\ outcome' = [outcome EXCEPT ![r] = "rejected"]
    /\ method' = [method EXCEPT ![r] = m]
    /\ issuedHere' = issuedHere \cup {r}
    /\ UNCHANGED <<clientVars, walletVars, channelVars, pending, sending, thrown,
                   gaveUp, conts, dropped>>

\* The pending entry and its timer are registered first, then the frame is sent.
SendRequest(r, m, extra) ==
    /\ Turn
    /\ outcome[r] = "idle"
    /\ ~Refused
    /\ outcome' = [outcome EXCEPT ![r] = "waiting"]
    /\ method' = [method EXCEPT ![r] = m]
    /\ pending' = pending \cup {r}
    /\ issuedHere' = issuedHere \cup {r}
    /\ toWallet' = toWallet \cup {Envelope(r, m, extra)}
    /\ sending' = sending \cup {r}
    /\ UNCHANGED <<clientVars, walletVars, toClient, dups, thrown, gaveUp, conts, dropped>>

\* The encoder or transport.send throws: the call is inside Promise.resolve(...), so
\* the exception leaves request() and the entry stays registered.
ThrowFromRequest(r, m) ==
    /\ Turn
    /\ SendMayThrow
    /\ outcome[r] = "idle"
    /\ ~Refused
    /\ outcome' = [outcome EXCEPT ![r] = "waiting"]
    /\ method' = [method EXCEPT ![r] = m]
    /\ pending' = pending \cup {r}
    /\ issuedHere' = issuedHere \cup {r}
    /\ thrown' = thrown \cup {r}
    /\ UNCHANGED <<clientVars, walletVars, channelVars, sending, gaveUp, conts, dropped>>

\* transport.send rejects: settleError.  The request may have reached the wallet all
\* the same (a relay publish that was delivered but whose ack was lost).
SendRejects(r) ==
    /\ Turn
    /\ r \in sending
    /\ sending' = sending \ {r}
    /\ IF r \in pending
       THEN /\ pending' = pending \ {r}
            /\ outcome' = [outcome EXCEPT ![r] = "rejected"]
            /\ gaveUp' = gaveUp \cup {r}
       ELSE UNCHANGED <<pending, outcome, gaveUp>>
    /\ UNCHANGED <<clientVars, walletVars, channelVars, method, thrown, issuedHere,
                   conts, dropped>>

\* Mutant: the entry is removed once the frame is sent.
SendResolves_Forgets(r) ==
    /\ Turn
    /\ r \in sending
    /\ sending' = sending \ {r}
    /\ pending' = pending \ {r}
    /\ UNCHANGED <<clientVars, walletVars, channelVars, outcome, method, thrown, gaveUp,
                   issuedHere, conts, dropped>>

SendResolves(r) ==
    /\ Turn
    /\ r \in sending
    /\ sending' = sending \ {r}
    /\ UNCHANGED <<clientVars, walletVars, channelVars, pending, outcome, method, thrown,
                   gaveUp, issuedHere, conts, dropped>>

\* Mutant: the timer is cleared when the send resolves.
RequestTimeout_OnlySending(r) ==
    /\ Drained
    /\ TimeoutOn
    /\ r \in pending \cap sending
    /\ pending' = pending \ {r}
    /\ outcome' = [outcome EXCEPT ![r] = "rejected"]
    /\ gaveUp' = gaveUp \cup {r}
    /\ UNCHANGED <<clientVars, walletVars, channelVars, method, sending, thrown,
                   issuedHere, conts, dropped>>

\* The request's own timer.
RequestTimeout(r) ==
    /\ Drained
    /\ TimeoutOn
    /\ r \in pending
    /\ pending' = pending \ {r}
    /\ outcome' = [outcome EXCEPT ![r] = "rejected"]
    /\ gaveUp' = gaveUp \cup {r}
    /\ UNCHANGED <<clientVars, walletVars, channelVars, method, sending, thrown,
                   issuedHere, conts, dropped>>

-----------------------------------------------------------------------------
(* LinkSessionClient.handleFrame.                                          *)

\* Mutant: without a key every plaintext frame is accepted.
Opens_BeforeKey(f) == IF sessionKey THEN f.sealed ELSE ~f.sealed

\* decodeIncoming: which frames open.  A frame that does not is dropped.
Opens(f) == IF sessionKey THEN f.sealed ELSE ~RequireKey /\ ~f.sealed

\* Mutant: the client does not listen to the end of a session.
HandleEvent_IgnoresDeleted(f) ==
    /\ f.kind \in EventKind
    /\ IF f.kind = "established"
       THEN AdoptConnectResult(f.session) /\ UNCHANGED dropped
       ELSE /\ UNCHANGED <<lastConnect, sessionId, stored>>
            /\ dropped' = dropped \cup {f.session}
    /\ UNCHANGED <<closed, sessionKey, unmatched, requestVars, conts>>

HandleEvent(f) ==
    /\ f.kind \in EventKind
    /\ IF f.kind = "established"
       THEN /\ AdoptConnectResult(f.session)
            /\ UNCHANGED dropped
       ELSE /\ ForgetSession
            /\ dropped' = dropped \cup {f.session}
    /\ UNCHANGED <<closed, sessionKey, unmatched, requestVars, conts>>

\* What the await behind request r does next: connect() and disconnect() go on,
\* a plain method returns the result to the application.
Resumed(f) ==
    IF f.kind = "ok" /\ method[f.id] # "other"
    THEN Append(conts, [method |-> method[f.id], session |-> f.session])
    ELSE conts

HandleAnswer(f) ==
    /\ f.kind \in AnswerKind
    /\ IF f.id \in pending
       THEN /\ pending' = pending \ {f.id}
            /\ outcome' = [outcome EXCEPT
                             ![f.id] = IF f.kind = "ok" THEN "resolved" ELSE "rejected"]
            /\ conts' = Resumed(f)
            /\ UNCHANGED unmatched
       ELSE /\ unmatched' = IF f.kind = "malformed" THEN unmatched ELSE f.id
            /\ UNCHANGED <<pending, outcome, conts>>
    /\ UNCHANGED <<closed, sessionKey, sessionId, lastConnect, stored, method, sending,
                   thrown, gaveUp, issuedHere, dropped>>

HandleFrame(f) ==
    \/ Opens(f) /\ (HandleEvent(f) \/ HandleAnswer(f))
    \/ ~Opens(f) /\ UNCHANGED <<clientVars, requestVars, conts, dropped>>

MayDeliver ==
    /\ closed => ~QuietAfterClose
    /\ Turn

\* The frame the transport hands over next, or, unordered, any frame in flight.
Deliver(i) ==
    /\ i \in DOMAIN toClient
    /\ Ordered => i = 1
    /\ MayDeliver
    /\ HandleFrame(toClient[i])
    /\ \/ /\ toClient' = RemoveAt(toClient, i)
          /\ UNCHANGED dups
       \/ /\ dups < MaxDups
          /\ dups' = dups + 1
          /\ UNCHANGED toClient
    /\ UNCHANGED <<walletVars, toWallet>>

\* A frame that is not in the form this channel requires: plaintext on a sealed
\* channel, anything before the key hop, a sealed frame on a plaintext channel.
StrayFrame ==
    [kind: {"ok"}, id: Reqs, session: {None}, sealed: {~Sealed}]
    \cup [kind: EventKind, id: {None}, session: Sessions, sealed: {~Sealed}]

DeliverStray(f) ==
    /\ MayDeliver
    /\ HandleFrame(f)
    /\ UNCHANGED <<walletVars, channelVars>>

\* The wallet grants a session it never granted before (external).
Grant(s) ==
    /\ s \in Sessions \ granted
    /\ granted' = granted \cup {s}
    /\ live' = IF OneSession THEN {s} ELSE live \cup {s}

\* The ecdh key hop: setSessionKey, then the sealed grant embedded in the same payload.
KeyHop(s) ==
    /\ RequireKey /\ ~sessionKey
    /\ MayDeliver
    /\ sessionKey' = TRUE
    /\ \/ s = None /\ UNCHANGED <<walletVars, sessionId, lastConnect, stored>>
       \/ Grant(s) /\ AdoptConnectResult(s)
    /\ UNCHANGED <<closed, unmatched, requestVars, conts, channelVars, dropped>>

\* Mutant: disconnect() returns without clearing the local session.
Continue_KeepsSession ==
    /\ conts # <<>>
    /\ LET c == Head(conts) IN
         IF c.method = "connect"
         THEN AdoptConnectResult(c.session)
         ELSE UNCHANGED <<lastConnect, sessionId, stored>>
    /\ conts' = Tail(conts)
    /\ UNCHANGED <<closed, sessionKey, unmatched, requestVars, walletVars, channelVars, dropped>>

\* The oldest resolved await runs on: the tail of connect() or of disconnect().
Continue ==
    /\ conts # <<>>
    /\ LET c == Head(conts) IN
         IF c.method = "connect"
         THEN /\ AdoptConnectResult(c.session)
              /\ UNCHANGED dropped
         ELSE /\ ForgetSession
              /\ dropped' = dropped \cup ({c.session} \ {None})
    /\ conts' = Tail(conts)
    /\ UNCHANGED <<closed, sessionKey, unmatched, requestVars, walletVars, channelVars>>

-----------------------------------------------------------------------------
(* The rest of the client's interface.                                     *)

\* Mutant: the promises are rejected but the entries stay in the map.
RejectAll_KeepsEntries ==
    /\ outcome' = Settled(pending, "rejected")
    /\ gaveUp' = gaveUp \cup pending
    /\ UNCHANGED <<pending, method, sending, thrown, issuedHere>>

\* rejectAll, from close() or from the transport's own close.
RejectAll ==
    /\ pending' = {}
    /\ outcome' = Settled(pending, "rejected")
    /\ gaveUp' = gaveUp \cup pending
    /\ UNCHANGED <<method, sending, thrown, issuedHere>>

Close ==
    /\ Turn
    /\ ~closed
    /\ closed' = TRUE
    /\ RejectAll
    /\ UNCHANGED <<sessionKey, sessionId, lastConnect, unmatched, stored, walletVars,
                   channelVars, conts, dropped>>

ForgetLocally ==
    /\ Turn
    /\ ForgetSession
    /\ UNCHANGED <<closed, sessionKey, unmatched, requestVars, walletVars, channelVars,
                   conts, dropped>>

TakeUnmatchedResponse ==
    /\ Turn
    /\ unmatched # None
    /\ unmatched' = None
    /\ UNCHANGED <<closed, sessionKey, sessionId, lastConnect, stored, requestVars,
                   walletVars, channelVars, conts, dropped>>

\* The page unloads with everything in memory and loads again from the record.
Reload ==
    /\ Drained
    /\ Persistent
    /\ closed' = FALSE
    /\ sessionKey' = (KeyMode = "preset")
    /\ sessionId' = stored
    /\ lastConnect' = stored
    /\ unmatched' = None
    /\ pending' = {}
    /\ outcome' = Settled(pending, "lost")
    /\ sending' = {}
    /\ thrown' = {}
    /\ issuedHere' = {}
    /\ UNCHANGED <<stored, method, gaveUp, conts, walletVars, channelVars, dropped>>

-----------------------------------------------------------------------------
(* The wallet and the channel: external, as the client's code uses them.   *)

Answer(m, k, s) == [kind |-> k, id |-> m.id, session |-> s, sealed |-> Sealed]
Event(k, s) == [kind |-> k, id |-> None, session |-> s, sealed |-> Sealed]

\* A connect either resumes a session the wallet still holds or gets a fresh one.
AnswerConnect(m) ==
    /\ m.method = "connect"
    /\ \/ /\ m.resume \in live
          /\ toClient' = Append(toClient, Answer(m, "ok", m.resume))
          /\ UNCHANGED walletVars
       \/ \E s \in Sessions :
            /\ m.resume \notin live
            /\ Grant(s)
            /\ toClient' = Append(toClient, Answer(m, "ok", s))

AnswerDisconnect(m) ==
    /\ m.method = "disconnect"
    /\ live' = live \ {m.session}
    /\ toClient' = Append(toClient, Answer(m, "ok", m.session))
    /\ UNCHANGED granted

WalletAnswer(m) ==
    /\ m \in toWallet
    /\ toWallet' = toWallet \ {m}
    /\ \/ "ok" \in AnswerKinds /\ (AnswerConnect(m) \/ AnswerDisconnect(m))
       \/ \E k \in AnswerKinds :
            /\ k = "ok" => m.method = "other"
            /\ toClient' = Append(toClient, Answer(m, k, None))
            /\ UNCHANGED walletVars
    /\ UNCHANGED <<clientVars, requestVars, conts, dups, dropped>>

\* One-tap pairing: the wallet pushes a grant nobody asked for.
WalletPush(s) ==
    /\ RequireKey => sessionKey
    /\ Grant(s)
    /\ toClient' = Append(toClient, Event("established", s))
    /\ UNCHANGED <<clientVars, requestVars, conts, toWallet, dups, dropped>>

\* Revocation, eviction or expiry, with its notification.
WalletDelete(s) ==
    /\ s \in live
    /\ live' = live \ {s}
    /\ toClient' = Append(toClient, Event("deleted", s))
    /\ UNCHANGED <<clientVars, requestVars, conts, granted, toWallet, dups, dropped>>

Lose ==
    /\ Lossy
    /\ \/ /\ \E m \in toWallet : toWallet' = toWallet \ {m}
          /\ UNCHANGED toClient
       \/ /\ \E i \in DOMAIN toClient : toClient' = RemoveAt(toClient, i)
          /\ UNCHANGED toWallet
    /\ UNCHANGED <<clientVars, requestVars, conts, dups, walletVars, dropped>>

-----------------------------------------------------------------------------
Application ==
    \/ \E r \in Reqs, m \in Methods :
         \/ RefuseRequest(r, m)
         \/ ThrowFromRequest(r, m)
         \/ \E extra \in (IF m = "connect" THEN ExtraSessions ELSE {}) \cup {None} :
              SendRequest(r, m, extra)
    \/ Close
    \/ ForgetLocally
    \/ TakeUnmatchedResponse
    \/ Reload

Client ==
    \/ \E r \in Reqs : SendRejects(r) \/ SendResolves(r) \/ RequestTimeout(r)
    \/ \E i \in DOMAIN toClient : Deliver(i)
    \/ \E f \in StrayFrame : DeliverStray(f)
    \/ \E s \in SessionOrNone : KeyHop(s)
    \/ Continue

Wallet ==
    \/ \E m \in toWallet : WalletAnswer(m)
    \/ \E s \in Sessions : WalletPush(s) \/ WalletDelete(s)
    \/ Lose

Next == Application \/ Client \/ Wallet

Spec == Init /\ [][Next]_vars

\* A timer fires, the event loop drains its microtasks and hands over what arrived, and
\* the wallet gets to every request; the application and the user owe nothing.
Fairness ==
    /\ \A r \in Reqs : WF_vars(RequestTimeout(r)) /\ WF_vars(SendRejects(r) \/ SendResolves(r))
    /\ WF_vars(Continue)
    /\ WF_vars(\E i \in DOMAIN toClient : Deliver(i))
    /\ WF_vars(\E m \in toWallet : WalletAnswer(m))

FairSpec == Spec /\ Fairness

-----------------------------------------------------------------------------
(* Properties.                                                             *)

\* The map of in-flight requests holds exactly the requests whose promise is still open,
\* and is empty once the client is closed: no promise hangs without an entry that can
\* settle it, and none is registered behind a close (request, settleError, rejectAll).
PendingSound ==
    /\ pending = {r \in Reqs : outcome[r] = "waiting"}
    /\ closed => pending = {}

\* On a channel that has a key or waits for one, no request leaves in plaintext, in
\* whatever order the application, the key hop and a close come.
SealedOnly == Sealed => \A m \in toWallet : m.sealed

\* A promise resolves only after the wallet answered its request, and the page holds only
\* sessions the wallet granted, whatever else is delivered on the channel.
OnlyTheWalletSpeaks ==
    /\ \A m \in toWallet : outcome[m.id] # "resolved"
    /\ sessionId \in granted \cup {None}

\* Every answer offered to takeUnmatchedResponse() has one of three explanations: an
\* earlier page issued the request, this page gave up on it, or the frame came twice.
UnmatchedExplained ==
    unmatched # None =>
        /\ unmatched \notin pending
        /\ \/ unmatched \notin issuedHere
           \/ unmatched \in gaveUp
           \/ dups > 0

\* The account shown, the session id sent and the record on disk name the same session,
\* so a reload resumes exactly the session that was live.
SessionCoherent ==
    /\ sessionId = lastConnect
    /\ Persistent => stored = sessionId

\* "Drop our session so a reload cannot resume a dead one" (client.ts:110): a session that
\* the wallet ended, and told the page so, is never current again, by a repeated or later
\* frame, a continuation or a reload.  It takes a host that runs the continuation of each
\* frame before it hands over the next: without that (Batched) the tail of connect()
\* adopts a session whose end was handled in front of it, as its own run shows.
NoResurrection == sessionId \notin dropped

Quiet == toWallet = {} /\ toClient = <<>> /\ conts = <<>>
GaveUpOnSession ==
    \E r \in {q \in Reqs : method[q] \in {"connect", "disconnect"}} :
        r \in gaveUp \/ outcome[r] = "lost"

\* Once everything in flight has been handled, a page that still holds a session the
\* wallet no longer has must have given up on a connect or a disconnect.
QuietSessionLive ==
    Quiet /\ sessionId # None /\ sessionId \notin live => GaveUpOnSession

\* With the request timer on, every request() settles, whatever the wallet and the
\* channel do.
RequestsSettle ==
    \A r \in Reqs : (outcome[r] = "waiting") ~> (outcome[r] # "waiting")

\* The page was told that s is gone, but the write that should have removed it failed.
LeftOnDisk(s) == s \in dropped /\ stored = s

\* A session that ended at the wallet does not stay current on the page for ever, unless
\* the page gave up asking or its record could not be written.
DeadSessionDropped ==
    \A s \in Sessions :
        (s \in granted \ live) ~>
            ((sessionId # s) \/ closed \/ GaveUpOnSession \/ LeftOnDisk(s))

Lifecycle == INSTANCE RequestLifecycle

\* request() keeps what it promises: the session layer implements RequestLifecycle.
ImplementsLifecycle == Lifecycle!LSpec

-----------------------------------------------------------------------------
(* What the proofs add to make OnlyTheWalletSpeaks inductive.              *)

\* An issued request has a method.
MethodKnown == \A r \in Reqs : outcome[r] # "idle" => method[r] \in Methods

\* The key is there exactly as the channel's mode says.
KeySound ==
    /\ KeyMode = "preset" => sessionKey
    /\ KeyMode = "plain" => ~sessionKey

\* A request is in one place: on its way to the wallet, or answered, never both.
OneAnswer ==
    /\ \A m \in toWallet :
         /\ outcome[m.id] \notin {"idle", "resolved"}
         /\ \A n \in toWallet : n.id = m.id => n = m
         /\ \A i \in DOMAIN toClient : toClient[i].id # m.id
    /\ \A i \in DOMAIN toClient :
         toClient[i].id \in Reqs => outcome[toClient[i].id] # "idle"

\* Every session named anywhere was granted by the wallet.
GrantedOnly ==
    /\ sessionId \in granted \cup {None}
    /\ stored \in granted \cup {None}
    /\ \A m \in toWallet : m.session \in granted \cup {None}
    /\ \A i \in DOMAIN toClient : toClient[i].session \in granted \cup {None}
    /\ \A i \in DOMAIN conts : conts[i].session \in granted \cup {None}

IndInv ==
    /\ TypeOK /\ PendingSound /\ MethodKnown
    /\ KeySound /\ SealedOnly
    /\ OneAnswer
    /\ GrantedOnly

\* A request of this page that is not answered is in the map, or the page gave it up.
StillAwaited(q) == q \in issuedHere => q \in pending \cup gaveUp

\* While no frame came twice, each answer in flight is the only one to its request, and
\* to one the page still waits for or gave up.
AnsweredOnce ==
    /\ unmatched # None => outcome[unmatched] # "idle"
    /\ dups = 0 =>
         /\ \A i, j \in DOMAIN toClient :
              toClient[i].id \in Reqs /\ i < j => toClient[i].id # toClient[j].id
         /\ \A i \in DOMAIN toClient : StillAwaited(toClient[i].id)
         /\ \A m \in toWallet : StillAwaited(m.id)

\* What makes s the page's session when it is handled, and what ends s.
Grants(f, s) ==
    /\ f.session = s
    /\ f.kind = "established" \/ (f.kind = "ok" /\ method[f.id] = "connect")
Ends(f, s) ==
    /\ f.session = s
    /\ f.kind = "deleted" \/ (f.kind = "ok" /\ method[f.id] = "disconnect")
Continues(m, s) == \E i \in DOMAIN conts : conts[i].method = m /\ conts[i].session = s
Granting(s) == \E j \in DOMAIN toClient : Grants(toClient[j], s)

\* Behind the end of a session, in flight or handled, nothing grants it any more, and the
\* wallet holds it no longer.
EndIsFinal ==
    /\ \A m \in toWallet : m.method = method[m.id]
    /\ conts # <<>> => Len(conts) = 1
    /\ \A s \in Sessions :
         /\ \A i \in DOMAIN toClient : Ends(toClient[i], s) =>
              /\ s \in granted \ live
              /\ \A j \in DOMAIN toClient : i < j => ~Grants(toClient[j], s)
         /\ Continues("disconnect", s) => s \in granted \ live /\ ~Granting(s)
         /\ s \in dropped => /\ s \in granted \ live /\ s # sessionId
                             /\ ~Granting(s) /\ ~Continues("connect", s)

\* A frame that changes the page's session when it is handled, and what it leaves there.
Tells(f) ==
    \/ f.kind \in EventKind
    \/ f.kind = "ok" /\ f.id \in pending /\ method[f.id] # "other"
Left(f) ==
    IF f.kind = "deleted" \/ (f.kind = "ok" /\ method[f.id] = "disconnect")
    THEN None ELSE f.session
News == \E i \in DOMAIN toClient : Tells(toClient[i])
Held == live \cup {None}

\* What the wallet has not answered yet, some page waits for or gave up; what it answered,
\* it answered once, in a frame that opens; and it says nothing before there is a key.
NoneForgotten ==
    /\ \A m \in toWallet : m.id \in pending \cup gaveUp \/ outcome[m.id] = "lost"
    /\ \A r \in gaveUp : outcome[r] # "idle"
    /\ \A i, j \in DOMAIN toClient :
         toClient[i].id \in Reqs /\ i < j => toClient[i].id # toClient[j].id
    /\ \A i \in DOMAIN toClient : toClient[i].sealed = Sealed
    /\ RequireKey /\ ~sessionKey => Quiet /\ live = {}

\* What is handled last leaves the page without a session, or with one the wallet holds.
LastNewsIsTrue ==
    GaveUpOnSession \/
        /\ \A i \in DOMAIN toClient : Tells(toClient[i]) =>
             \/ Left(toClient[i]) \in Held
             \/ \E j \in DOMAIN toClient : i < j /\ Tells(toClient[j])
        /\ \A i \in DOMAIN conts : conts[i].method = "connect" =>
             conts[i].session \in Held \/ News
        /\ sessionId \in Held \/ conts # <<>> \/ News
=============================================================================
