----------------------------- MODULE LegacyLink -----------------------------
(***************************************************************************)
(* Class PhantasmaLink (src/src/link/phantasma-link.ts), the link before   *)
(* v5, with the EasyConnect wrapper (src/src/link/easy-connect.ts).        *)
(*                                                                         *)
(* There is one callback slot for all requests, and an answer names no     *)
(* request: it goes to whoever is in the slot.  The handlers of a socket   *)
(* read and write the fields of the link, whichever socket is current by   *)
(* then.  Everything a handler calls runs in the same turn, so a handler   *)
(* is a function on the page, put together from the functions it calls.    *)
(***************************************************************************)
EXTENDS Naturals, Sequences

CONSTANTS
    Reqs,          \* calls of the request methods
    Logins,        \* calls of login()
    Methods,       \* the methods the application uses
    None,          \* null
    MaxSockets,    \* bound on the sockets created
    HasReadyState, \* the sockets expose readyState
    SendMayThrow,  \* socket.send may throw
    Cares          \* what applications may be careful about: sets of "asks", "connects"

AllMethods == {"signTx", "signCarbonTxAndBroadcast", "signTxSignature",
               "signPrebuiltTransaction", "signData", "multiSig", "invokeScript",
               "getPeer", "getNexus", "getWalletVersion", "fetchWallet"}

ASSUME LegacyAssumption ==
    /\ Methods \subseteq AllMethods
    /\ MaxSockets \in Nat \ {0}
    /\ {HasReadyState, SendMayThrow} \subseteq BOOLEAN
    /\ Cares \subseteq SUBSET {"asks", "connects"}
    \* Callbacks, callers and null are different things.
    /\ None \notin Reqs \cup Logins \cup {"authorize", "getAccount"}
    /\ Reqs \cap (Logins \cup {"authorize", "getAccount"}) = {}

Sockets == 1..MaxSockets
LoginSteps == {"authorize", "getAccount"}   \* the two requests login() makes
Asks == LoginSteps \cup Reqs
Callers == Reqs \cup Logins

VARIABLES
    page,     \* the link, its sockets, and what its callers heard
    toClient, \* toClient[s]: answers on their way
    status,   \* status[x]: idle, building (EasyConnect.action), or called
    method,   \* method[r]: the method of a request, fixed
    care      \* what the application is careful about, fixed

vars == <<page, toClient, status, method, care>>

Answer == [kind: {"ok", "flawed", "rejected", "walletClosed", "fail"}, of: Asks \cup {None},
           on: 0..MaxSockets]

\* An open socket may be left by its peer (gone) or closed by us (closing); one that never
\* opened is aborted by either.
SocketState == {"new", "connecting", "open", "gone", "closing", "aborted", "closed"}

Page == [requestCallback: Asks \cup {None}, onError: Callers \cup {None},
         onLogin: Logins \cup {None}, socket: 0..MaxSockets, socketOpen: BOOLEAN,
         token: 0..MaxSockets, account: 0..MaxSockets, connected: BOOLEAN,
         sock: [Sockets -> SocketState], toWallet: [Sockets -> Seq(Asks)],
         heard: [Callers -> SUBSET {"ok", "fail", "error"}],
         runs: [Reqs -> 0..2], answer: [Reqs -> Asks \cup {None}]]

TypeOK ==
    /\ page \in Page
    /\ toClient \in [Sockets -> Seq(Answer)]
    /\ status \in [Callers -> {"idle", "building", "called"}]
    /\ method \in [Reqs -> Methods]
    /\ care \subseteq {"asks", "connects"}

Init ==
    /\ page = [requestCallback |-> None, onError |-> None, onLogin |-> None,
               socket |-> 0, socketOpen |-> FALSE, token |-> 0, account |-> 0,
               connected |-> FALSE,
               sock |-> [s \in Sockets |-> "new"], toWallet |-> [s \in Sockets |-> <<>>],
               heard |-> [x \in Callers |-> {}],
               runs |-> [r \in Reqs |-> 0], answer |-> [r \in Reqs |-> None]]
    /\ toClient = [s \in Sockets |-> <<>>]
    /\ status = [x \in Callers |-> "idle"]
    /\ method \in [Reqs -> Methods]
    /\ care \in Cares

-----------------------------------------------------------------------------
(* What the callers hear.                                                  *)

Say(p, x, what) == [p EXCEPT !.heard[x] = @ \cup {what}]

FireError(p) == IF p.onError = None THEN p ELSE Say(p, p.onError, "error")

Live(p, s) == s # 0 /\ p.sock[s] \in {"connecting", "open", "gone"}

CloseSocket(p, s) ==
    IF ~Live(p, s) THEN p
    ELSE [p EXCEPT !.sock[s] = IF @ = "connecting" THEN "aborted" ELSE "closing"]

Disconnect(p) == [CloseSocket(p, p.socket) EXCEPT !.socketOpen = FALSE]

\* A flawed answer is a success that is none: a hash that is an error, or a signature that
\* does not verify.  signTx only logs the first; signPrebuiltTransaction checks the second.
Reports(m, kind) ==
    /\ m = "invokeScript" => kind # "fail"
    /\ m = "signTx" => kind # "flawed"

Refuses(m, kind) == kind = "fail" \/ (m = "signPrebuiltTransaction" /\ kind = "flawed")

\* The callback a request method left in the slot.
RunRequest(p, r, a) ==
    LET q == [p EXCEPT !.runs[r] = IF @ = 2 THEN 2 ELSE @ + 1, !.answer[r] = a.of,
                       !.account = IF method[r] = "fetchWallet" /\ a.kind # "fail"
                                   THEN a.on ELSE @]
    IN IF Reports(method[r], a.kind)
       THEN Say(q, r, IF Refuses(method[r], a.kind) THEN "fail" ELSE "ok")
       ELSE q

\* The callback of login()'s getAccount; EasyConnect notes a login that succeeded.
RunGetAccount(p, a) ==
    LET ok == a.kind # "fail"
        q  == IF ok THEN [p EXCEPT !.account = a.on] ELSE Disconnect(FireError(p))
        h  == IF q.onLogin = None THEN q
              ELSE [Say(q, q.onLogin, IF ok THEN "ok" ELSE "fail") EXCEPT
                       !.connected = @ \/ ok]
    IN [h EXCEPT !.onLogin = None]

-----------------------------------------------------------------------------
(* sendLinkRequest and handleSocketFailure.                                *)

Failed == [kind |-> "fail", of |-> None, on |-> 0]

\* A socket whose peer is gone looks open until its close event.
IsSocketOpen(p) ==
    IF HasReadyState THEN p.socket # 0 /\ p.sock[p.socket] \in {"open", "gone"}
    ELSE p.socket # 0 /\ p.socketOpen

\* What is written to a socket that is not open is lost.
Queue(p, x) ==
    LET q == [p EXCEPT !.requestCallback = x]
    IN IF p.sock[p.socket] = "open" THEN [q EXCEPT !.toWallet[p.socket] = Append(@, x)]
       ELSE q

SendGetAccount(p, throws) ==
    IF IsSocketOpen(p) /\ ~throws THEN Queue(p, "getAccount") ELSE RunGetAccount(p, Failed)

\* Mutant: the account is taken from the answer to authorize.
RunAuthorize_AccountEarly(p, a, throws) ==
    IF a.kind = "fail" THEN Disconnect(FireError(p))
    ELSE SendGetAccount([p EXCEPT !.token = a.on, !.account = a.on], throws)

\* The callback of login()'s authorize.
RunAuthorize(p, a, throws) ==
    IF a.kind = "fail" THEN Disconnect(FireError(p))
    ELSE SendGetAccount([p EXCEPT !.token = a.on], throws)

\* Mutant: the slot keeps its callback.
TakeCallback_Keeps(p) == p

TakeCallback(p) == [p EXCEPT !.requestCallback = None]

RunCallback(p, a, throws) ==
    LET x == p.requestCallback
        q == TakeCallback(p)
    IN IF x = "authorize" THEN RunAuthorize(q, a, throws)
       ELSE IF x = "getAccount" THEN RunGetAccount(q, a)
       ELSE RunRequest(q, x, a)

HandleSocketFailure(p) ==
    IF p.requestCallback = None THEN FireError(p) ELSE RunCallback(p, Failed, FALSE)

\* The slot is taken over, whoever is in it.
SendLinkRequest(p, x, throws) ==
    IF IsSocketOpen(p) /\ ~throws THEN Queue(p, x)
    ELSE HandleSocketFailure([p EXCEPT !.requestCallback = x])

-----------------------------------------------------------------------------
(* The request methods.  An input is good, tooBig or missing.              *)

Fail(p, r) == Say(p, r, "fail")
OwnError(p, r) == [p EXCEPT !.onError = r]

SignTx(p, r, input, throws) ==
    IF input # "good" THEN Fail(p, r) ELSE SendLinkRequest(OwnError(p, r), r, throws)

SignCarbonTxAndBroadcast(p, r, input, throws) ==
    IF input # "good" THEN Fail(p, r) ELSE SendLinkRequest(OwnError(p, r), r, throws)

SignTxSignature(p, r, input, throws) ==
    IF p.socket = 0 \/ input # "good" THEN Fail(p, r)
    ELSE SendLinkRequest(OwnError(p, r), r, throws)

\* signPrebuiltTransaction wraps both callbacks of signTxSignature and drops neither.
SignPrebuiltTransaction(p, r, input, throws) ==
    IF input # "good" THEN Fail(p, r) ELSE SignTxSignature(p, r, input, throws)

\* These two only log that there is no socket or no input, and leave onError alone.
MultiSig(p, r, input, throws) ==
    IF p.socket = 0 \/ input = "missing" THEN p
    ELSE IF input = "tooBig" THEN Fail(p, r) ELSE SendLinkRequest(p, r, throws)

SignData(p, r, input, throws) ==
    IF p.socket = 0 \/ input = "missing" THEN p
    ELSE IF input = "tooBig" THEN Fail(p, r) ELSE SendLinkRequest(p, r, throws)

\* invokeScript has one callback; it gets the refusal and the success, never a failure.
InvokeScript(p, r, input, throws) ==
    IF p.socket = 0 \/ input # "good" THEN Fail(p, r) ELSE SendLinkRequest(p, r, throws)

GetPeer(p, r, throws) == SendLinkRequest(OwnError(p, r), r, throws)
GetNexus(p, r, throws) == SendLinkRequest(OwnError(p, r), r, throws)
GetWalletVersion(p, r, throws) == SendLinkRequest(OwnError(p, r), r, throws)
FetchWallet(p, r, throws) == SendLinkRequest(p, r, throws)

Request(p, r, input, throws) ==
    CASE method[r] = "signTx" -> SignTx(p, r, input, throws)
      [] method[r] = "signCarbonTxAndBroadcast" ->
             SignCarbonTxAndBroadcast(p, r, input, throws)
      [] method[r] = "signTxSignature" -> SignTxSignature(p, r, input, throws)
      [] method[r] = "signPrebuiltTransaction" ->
             SignPrebuiltTransaction(p, r, input, throws)
      [] method[r] = "multiSig" -> MultiSig(p, r, input, throws)
      [] method[r] = "signData" -> SignData(p, r, input, throws)
      [] method[r] = "invokeScript" -> InvokeScript(p, r, input, throws)
      [] method[r] = "getPeer" -> GetPeer(p, r, throws)
      [] method[r] = "getNexus" -> GetNexus(p, r, throws)
      [] method[r] = "getWalletVersion" -> GetWalletVersion(p, r, throws)
      [] method[r] = "fetchWallet" -> FetchWallet(p, r, throws)

-----------------------------------------------------------------------------
(* login(), retry() and the handlers of a socket.                          *)

\* Mutant: the account of the previous connection is kept.
CreateSocket_KeepsAccount(p) ==
    [CloseSocket(p, p.socket) EXCEPT
        !.socket = @ + 1, !.sock[p.socket + 1] = "connecting", !.socketOpen = FALSE,
        !.requestCallback = None, !.token = 0]

\* createSocket(); resume() comes to the same, as the token it sets is reset here.
CreateSocket(p) ==
    [CloseSocket(p, p.socket) EXCEPT
        !.socket = @ + 1, !.sock[p.socket + 1] = "connecting", !.socketOpen = FALSE,
        !.requestCallback = None, !.token = 0, !.account = 0]

OpenHandler(p, throws) ==
    SendLinkRequest([p EXCEPT !.socketOpen = TRUE], "authorize", throws)

\* Mutant: a rejection by the user reaches nobody.
MessageHandler_DropsRejected(p, a, throws) ==
    IF a.kind = "rejected" THEN p
    ELSE IF a.kind = "walletClosed" THEN Disconnect(FireError(p))
    ELSE IF p.requestCallback = None THEN FireError(p)
    ELSE RunCallback(p, a, throws)

\* The user's rejection and a wallet that is busy go to onError and leave the slot as it is.
MessageHandler(p, a, throws) ==
    IF a.kind = "rejected" THEN FireError(p)
    ELSE IF a.kind = "walletClosed" THEN Disconnect(FireError(p))
    ELSE IF p.requestCallback = None THEN FireError(p)
    ELSE RunCallback(p, a, throws)

\* Mutant: only an unclean close is reported.
CloseHandler_UncleanOnly(p, clean) ==
    LET q == [p EXCEPT !.socketOpen = FALSE]
    IN IF clean THEN q ELSE HandleSocketFailure(q)

CloseHandler(p, clean) ==
    LET q == [p EXCEPT !.socketOpen = FALSE]
    IN IF q.requestCallback # None \/ ~clean THEN HandleSocketFailure(q) ELSE q

-----------------------------------------------------------------------------
(* Turns of the event loop.                                                *)

Throws == IF SendMayThrow THEN BOOLEAN ELSE {FALSE}
config == <<method, care>>

careful == care = {"asks", "connects"}

AllHeard == \A x \in Callers : status[x] # "idle" => page.heard[x] # {}

\* An application may be careful to connect only when the last connection is finished, and
\* to ask for one thing at a time, once it has an account.
MayConnect ==
    /\ page.socket < MaxSockets
    /\ "connects" \in care =>
         AllHeard /\ (page.socket # 0 => page.sock[page.socket] = "closed")
MayAsk == "asks" \in care => AllHeard /\ page.account # 0

Login(l) ==
    /\ status[l] = "idle" /\ MayConnect
    /\ page' = CreateSocket([page EXCEPT !.onLogin = l, !.onError = l])
    /\ status' = [status EXCEPT ![l] = "called"]
    /\ UNCHANGED <<toClient, config>>

Retry ==
    /\ page.socket # 0 /\ MayConnect
    /\ page' = CreateSocket(page)
    /\ UNCHANGED <<toClient, status, config>>

Call(r) ==
    /\ status[r] = "idle" /\ MayAsk
    /\ \E input \in {"good", "tooBig", "missing"}, throws \in Throws :
         page' = Request(page, r, input, throws)
    /\ status' = [status EXCEPT ![r] = "called"]
    /\ UNCHANGED <<toClient, config>>

\* EasyConnect.action looks at `connected`, awaits the script, then signs.
EasyAction(r) ==
    /\ status[r] = "idle" /\ method[r] = "signTx" /\ MayAsk
    /\ page.connected
    /\ status' = [status EXCEPT ![r] = "building"]
    /\ UNCHANGED <<page, toClient, config>>

SignScript(r) ==
    /\ status[r] = "building"
    /\ \E throws \in Throws : page' = SignTx(page, r, "good", throws)
    /\ status' = [status EXCEPT ![r] = "called"]
    /\ UNCHANGED <<toClient, config>>

\* EasyConnect.disconnect.
AppDisconnect ==
    /\ Live(page, page.socket)
    /\ page' = [Disconnect(page) EXCEPT !.connected = FALSE]
    /\ UNCHANGED <<toClient, status, config>>

OnOpen(s) ==
    /\ page.sock[s] = "connecting"
    /\ \E throws \in Throws :
         page' = OpenHandler([page EXCEPT !.sock[s] = "open"], throws)
    /\ UNCHANGED <<toClient, status, config>>

OnMessage(s) ==
    /\ page.sock[s] \in {"open", "gone"}
    /\ toClient[s] # <<>>
    /\ \E throws \in Throws : page' = MessageHandler(page, Head(toClient[s]), throws)
    /\ toClient' = [toClient EXCEPT ![s] = Tail(@)]
    /\ UNCHANGED <<status, config>>

\* A socket that never opened does not close cleanly.
OnClose(s, clean) ==
    /\ \/ page.sock[s] = "closing"
       \/ page.sock[s] = "aborted" /\ ~clean
       \/ page.sock[s] = "gone" /\ toClient[s] = <<>>
    /\ page' = CloseHandler([page EXCEPT !.sock[s] = "closed"], clean)
    /\ toClient' = [toClient EXCEPT ![s] = <<>>]
    /\ UNCHANGED <<status, config>>

-----------------------------------------------------------------------------
(* The wallet and the connection: external.                                *)

\* The wallet answers the oldest request.
WalletAnswers(s) ==
    /\ page.sock[s] = "open" /\ page.toWallet[s] # <<>>
    /\ page' = [page EXCEPT !.toWallet[s] = Tail(@)]
    /\ \E kind \in {"ok", "flawed", "rejected", "walletClosed", "fail"} :
         toClient' = [toClient EXCEPT ![s] =
                         Append(@, [kind |-> kind, of |-> Head(page.toWallet[s]), on |-> s])]
    /\ UNCHANGED <<status, config>>

\* It turns a request away while an older one is open.
WalletIsBusy(s) ==
    /\ page.sock[s] = "open" /\ Len(page.toWallet[s]) > 1
    /\ LET q == page.toWallet[s]
       IN /\ page' = [page EXCEPT !.toWallet[s] = <<q[1]>> \o SubSeq(q, 3, Len(q))]
          /\ toClient' = [toClient EXCEPT ![s] =
                             Append(@, [kind |-> "rejected", of |-> q[2], on |-> s])]
    /\ UNCHANGED <<status, config>>

\* The connection breaks; some of the answers on their way may still come through.
PeerLeaves(s) ==
    /\ page.sock[s] \in {"connecting", "open"}
    /\ page' = [page EXCEPT !.sock[s] = IF @ = "open" THEN "gone" ELSE "aborted",
                            !.toWallet[s] = <<>>]
    /\ \E n \in 0..Len(toClient[s]) :
         toClient' = [toClient EXCEPT ![s] = SubSeq(@, 1, n)]
    /\ UNCHANGED <<status, config>>

Next ==
    \/ \E l \in Logins : Login(l)
    \/ Retry
    \/ \E r \in Reqs : Call(r) \/ EasyAction(r) \/ SignScript(r)
    \/ AppDisconnect
    \/ \E s \in Sockets :
         \/ OnOpen(s)
         \/ OnMessage(s)
         \/ \E clean \in BOOLEAN : OnClose(s, clean)
         \/ WalletAnswers(s)
         \/ WalletIsBusy(s)
         \/ PeerLeaves(s)

Spec == Init /\ [][Next]_vars

\* The event loop runs its turns, and the user of the wallet answers some time.
Fairness ==
    /\ \A r \in Reqs : WF_vars(SignScript(r))
    /\ \A s \in Sockets :
         /\ WF_vars(OnOpen(s))
         /\ WF_vars(OnMessage(s))
         /\ WF_vars(\E clean \in BOOLEAN : OnClose(s, clean))
         /\ WF_vars(WalletAnswers(s))

FairSpec == Spec /\ Fairness

-----------------------------------------------------------------------------
(* Properties.                                                             *)

\* However calls, answers, failures and sockets interleave, the callback that a request
\* leaves in the slot runs at most once.
CallbackOnce == \A r \in Reqs : page.runs[r] <= 1

\* Answers name no request, yet an application that is careful never gets the answer to
\* one request as the answer to another.
AnswersMatch == careful => \A r \in Reqs : page.answer[r] \in {None, r}

\* The token and the account a link holds were given on the connection it has now.
SessionOfThisSocket ==
    /\ page.token \in {0, page.socket}
    /\ page.account \in {0, page.token}

\* The methods that say so when a request fails, however it fails.
Reporting == AllMethods \ {"signTx", "signData", "multiSig", "invokeScript", "fetchWallet"}

\* A careful application hears of every request made by such a method, through the callback
\* of the request or through onError.
RequestsHeard ==
    \A r \in Reqs :
        (careful /\ method[r] \in Reporting /\ status[r] = "called")
            ~> (page.heard[r] # {})

\* A careful application hears how each login() ended.
LoginsHeard ==
    \A l \in Logins : (careful /\ status[l] = "called") ~> (page.heard[l] # {})

\* No careful application waits for ever: what it asked by such a method, and every login(),
\* is answered or fails aloud, whichever handler or socket it was lost in.
CallsHeard == RequestsHeard /\ LoginsHeard
=============================================================================
