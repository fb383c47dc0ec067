-------------------------- MODULE LegacyLink_proofs --------------------------
(***************************************************************************)
(* What the link before v5 guarantees, for every number of requests,       *)
(* logins and sockets: a callback runs at most once, a session belongs to  *)
(* the socket of today, and careful applications get their own answers.    *)
(* Every handler is a function on the page, so each of them gets a lemma   *)
(* that says what it does to the fields the invariants speak of.           *)
(***************************************************************************)
EXTENDS LegacyLink, Integers, SequenceTheorems, TLAPS

-----------------------------------------------------------------------------
(* Sequences used as queues.                                               *)

\* What Append returns: a sequence whose elements are the original's and the new one.
LEMMA AppendElements ==
  ASSUME NEW S, NEW s \in Seq(S), NEW e \in S
  PROVE  /\ Append(s, e) \in Seq(S)
         /\ \A j \in DOMAIN Append(s, e) :
               Append(s, e)[j] = e \/ \E k \in DOMAIN s : Append(s, e)[j] = s[k]
<1>1. /\ Append(s, e) \in Seq(S)
      /\ Len(Append(s, e)) = Len(s)+1
      /\ \A i \in 1..Len(s) : Append(s, e)[i] = s[i]
      /\ Append(s, e)[Len(s)+1] = e
  BY AppendProperties
<1>2. DOMAIN Append(s, e) = 1..(Len(s)+1) /\ DOMAIN s = 1..Len(s) /\ Len(s) \in Nat
  BY <1>1, LenProperties
<1>3. \A j \in 1..(Len(s)+1) : j = Len(s)+1 \/ j \in 1..Len(s)
  BY <1>2
<1>. QED BY <1>1, <1>2, <1>3

\* What Tail returns: a sequence each of whose elements is an element of the original.
LEMMA TailElements ==
  ASSUME NEW S, NEW s \in Seq(S), s # <<>>
  PROVE  /\ Head(s) \in S /\ 1 \in DOMAIN s /\ Head(s) = s[1]
         /\ Tail(s) \in Seq(S)
         /\ \A j \in DOMAIN Tail(s) : \E k \in DOMAIN s : Tail(s)[j] = s[k]
<1>1. /\ Tail(s) \in Seq(S) /\ Head(s) \in S
      /\ Len(Tail(s)) = Len(s)-1
      /\ \A i \in 1..Len(Tail(s)) : Tail(s)[i] = s[i+1]
  BY HeadTailProperties
<1>2. DOMAIN Tail(s) = 1..(Len(s)-1) /\ DOMAIN s = 1..Len(s) /\ Len(s) \in Nat \ {0}
  BY <1>1, LenProperties, EmptySeq
<1>3. \A j \in 1..(Len(s)-1) : j+1 \in 1..Len(s)
  BY <1>2
<1>4. 1 \in DOMAIN s /\ Head(s) = s[1]
  BY <1>2
<1>. QED BY <1>1, <1>2, <1>3, <1>4

-----------------------------------------------------------------------------
Usable == {"connecting", "open", "gone"}
Words == {"ok", "fail", "error"}

\* The sockets are as they were, but for the current one, which may be ended.
SocketEnds(p, q) ==
    \A s \in Sockets :
        \/ q.sock[s] = p.sock[s]
        \/ s = p.socket /\ p.sock[s] \in Usable /\ q.sock[s] \in {"closing", "aborted"}

\* What a turn does that hands answer a to callback x; x is None when it only reports.
Effect(p, q, x, a) ==
    /\ q \in Page
    /\ q.socket = p.socket /\ q.onError = p.onError
    /\ SocketEnds(p, q)
    /\ \A r \in Reqs :
         /\ q.runs[r] = IF r = x THEN (IF p.runs[r] = 2 THEN 2 ELSE p.runs[r] + 1)
                        ELSE p.runs[r]
         /\ q.answer[r] = IF r = x THEN a.of ELSE p.answer[r]
         /\ r # x /\ r # p.onError => q.heard[r] = p.heard[r]
    /\ \/ /\ q.requestCallback = IF x = None THEN p.requestCallback ELSE None
          /\ q.token = p.token \/ (q.token = a.on /\ a.kind # "fail" /\ x = "authorize")
          /\ q.toWallet = p.toWallet
       \/ /\ x = "authorize" /\ a.kind # "fail"
          /\ q.requestCallback = "getAccount" /\ q.token = a.on
          /\ q.account = p.account /\ p.socket # 0
          /\ \/ q.toWallet = p.toWallet
             \/ /\ p.sock[p.socket] = "open"
                /\ q.toWallet = [p.toWallet EXCEPT ![p.socket] = Append(@, "getAccount")]
    /\ \/ q.account = p.account
       \/ /\ q.account = a.on /\ a.kind # "fail"
          /\ x = "getAccount" \/ (x \in Reqs /\ method[x] = "fetchWallet")

\* A turn that puts x in the slot, and may write it to the wallet.
Sent(p, q, x) ==
    /\ q \in Page
    /\ q.requestCallback = x /\ p.socket # 0
    /\ q.socket = p.socket /\ q.onError = p.onError /\ q.sock = p.sock
    /\ q.runs = p.runs /\ q.answer = p.answer /\ q.heard = p.heard
    /\ q.token = p.token /\ q.account = p.account
    /\ \/ q.toWallet = p.toWallet
       \/ /\ p.sock[p.socket] = "open"
          /\ q.toWallet = [p.toWallet EXCEPT ![p.socket] = Append(@, x)]

\* A turn that asks x: it is sent, or fails at once.
Asked(p, q, x) == Sent(p, q, x) \/ Effect(p, q, x, Failed)

\* A request that is turned down by its own method touches nothing but its own ears.
Refused(p, q, r) ==
    /\ q \in Page /\ q = [p EXCEPT !.heard = q.heard]
    /\ \A y \in Callers : y # r => q.heard[y] = p.heard[y]

-----------------------------------------------------------------------------
(* The helpers.                                                            *)

LEMMA Apart ==
  /\ None \notin Asks /\ None \notin Callers
  /\ Reqs \cap Logins = {} /\ Reqs \cap LoginSteps = {}
BY LegacyAssumption DEF Asks, Callers, LoginSteps

LEMMA SayPage ==
  ASSUME NEW p \in Page, NEW x \in Callers, NEW what \in Words
  PROVE  /\ Say(p, x, what) \in Page
         /\ Say(p, x, what) = [p EXCEPT !.heard = Say(p, x, what).heard]
         /\ \A y \in Callers : y # x => Say(p, x, what).heard[y] = p.heard[y]
         /\ what \in Say(p, x, what).heard[x]
BY DEF Say, Page, Words

LEMMA FireErrorPage ==
  ASSUME NEW p \in Page
  PROVE  /\ FireError(p) \in Page
         /\ FireError(p) = [p EXCEPT !.heard = FireError(p).heard]
         /\ \A y \in Callers : y # p.onError => FireError(p).heard[y] = p.heard[y]
<1>1. CASE p.onError = None
  BY <1>1 DEF FireError, Page
<1>2. CASE p.onError # None
  <2>1. p.onError \in Callers
    BY <1>2 DEF Page
  <2> QED
    BY <1>2, <2>1, SayPage, ZenonT(30) DEF FireError, Words
<1> QED
  BY <1>1, <1>2

LEMMA CloseSocketPage ==
  ASSUME NEW p \in Page
  PROVE  /\ CloseSocket(p, p.socket) \in Page
         /\ CloseSocket(p, p.socket) = [p EXCEPT !.sock = CloseSocket(p, p.socket).sock]
         /\ SocketEnds(p, CloseSocket(p, p.socket))
         /\ p.socket # 0 => CloseSocket(p, p.socket).sock[p.socket] \notin Usable
<1>1. CASE Live(p, p.socket)
  <2>1. p.socket \in Sockets
    BY <1>1 DEF Live, Page, Sockets
  <2> QED
    BY <1>1, <2>1 DEF CloseSocket, Live, Page, SocketState, SocketEnds, Usable
<1>2. CASE ~Live(p, p.socket)
  <2>1. CloseSocket(p, p.socket) = p
    BY <1>2 DEF CloseSocket
  <2>2. p = [p EXCEPT !.sock = p.sock]
    BY DEF Page
  <2> QED
    BY <1>2, <2>1, <2>2 DEF Live, SocketEnds, Usable
<1> QED
  BY <1>1, <1>2

LEMMA DisconnectPage ==
  ASSUME NEW p \in Page
  PROVE  /\ Disconnect(p) \in Page
         /\ Disconnect(p) = [p EXCEPT !.sock = Disconnect(p).sock, !.socketOpen = FALSE]
         /\ SocketEnds(p, Disconnect(p))
<1> DEFINE c == CloseSocket(p, p.socket)
<1>1. c \in Page /\ c = [p EXCEPT !.sock = c.sock] /\ SocketEnds(p, c)
  BY CloseSocketPage
<1>2. Disconnect(p) = [c EXCEPT !.socketOpen = FALSE]
  BY DEF Disconnect
<1> HIDE DEF c
<1>3. Disconnect(p) \in Page /\ Disconnect(p).sock = c.sock
  BY <1>1, <1>2 DEF Page
<1>4. [c EXCEPT !.socketOpen = FALSE] = [p EXCEPT !.sock = c.sock, !.socketOpen = FALSE]
  BY <1>1 DEF Page
<1> QED
  BY <1>1, <1>2, <1>3, <1>4 DEF SocketEnds

\* A turn that reports to onError, and may drop the connection, hands nothing to a callback.
LEMMA FireErrorEffect ==
  ASSUME NEW p \in Page, NEW a
  PROVE  Effect(p, FireError(p), None, a)
<1> DEFINE f == FireError(p)
<1>1. /\ f \in Page /\ f = [p EXCEPT !.heard = f.heard]
      /\ \A y \in Callers : y # p.onError => f.heard[y] = p.heard[y]
  BY FireErrorPage
<1> HIDE DEF f
<1>2. /\ f.requestCallback = p.requestCallback
      /\ f.socket = p.socket /\ f.onError = p.onError /\ f.runs = p.runs
      /\ f.answer = p.answer /\ f.token = p.token /\ f.account = p.account
      /\ f.toWallet = p.toWallet /\ f.sock = p.sock
  BY <1>1 DEF Page
<1>3. Effect(p, f, None, a)
  BY <1>1, <1>2, Apart DEF Effect, SocketEnds, Callers, Asks
<1> QED
  BY <1>3 DEF f

LEMMA DropEffect ==
  ASSUME NEW p \in Page, NEW a
  PROVE  Effect(p, Disconnect(FireError(p)), None, a)
<1> DEFINE f == FireError(p)
           q == Disconnect(f)
<1>1. /\ f \in Page /\ f = [p EXCEPT !.heard = f.heard]
      /\ \A y \in Callers : y # p.onError => f.heard[y] = p.heard[y]
  BY FireErrorPage
<1>2. /\ q \in Page
      /\ q = [f EXCEPT !.sock = q.sock, !.socketOpen = FALSE]
      /\ SocketEnds(f, q)
  BY <1>1, DisconnectPage
<1> HIDE DEF f, q
<1>3. /\ q.heard = f.heard /\ q.requestCallback = p.requestCallback
      /\ q.socket = p.socket /\ q.onError = p.onError /\ q.runs = p.runs
      /\ q.answer = p.answer /\ q.token = p.token /\ q.account = p.account
      /\ q.toWallet = p.toWallet /\ f.sock = p.sock /\ f.socket = p.socket
  BY <1>1, <1>2, ZenonT(30) DEF Page
<1>4. Effect(p, q, None, a)
  BY <1>1, <1>2, <1>3, Apart DEF Effect, SocketEnds, Callers, Asks
<1> QED
  BY <1>4 DEF f, q

-----------------------------------------------------------------------------
(* The callbacks.                                                          *)

LEMMA FailedAnswer == Failed \in Answer /\ Failed.kind = "fail" /\ Failed.of = None
BY LegacyAssumption DEF Failed, Answer

LEMMA TakePage ==
  ASSUME NEW p \in Page
  PROVE  /\ TakeCallback(p) \in Page
         /\ TakeCallback(p) = [p EXCEPT !.requestCallback = None]
BY DEF TakeCallback, Page

\* The callback of a request runs once, notes the answer and leaves the slot empty.
LEMMA RunRequestEffect ==
  ASSUME NEW p \in Page, p.requestCallback \in Reqs, NEW a \in Answer
  PROVE  Effect(p, RunRequest(TakeCallback(p), p.requestCallback, a), p.requestCallback, a)
<1> DEFINE r == p.requestCallback
           t == TakeCallback(p)
           account == IF method[r] = "fetchWallet" /\ a.kind # "fail" THEN a.on
                      ELSE t.account
           runs == [t.runs EXCEPT ![r] = IF @ = 2 THEN 2 ELSE @ + 1]
           answer == [t.answer EXCEPT ![r] = a.of]
           u == [t EXCEPT !.runs = runs, !.answer = answer, !.account = account]
           q == RunRequest(t, r, a)
<1>1. t \in Page /\ t = [p EXCEPT !.requestCallback = None]
  BY TakePage
<1>2. r \in Callers /\ r \in Reqs /\ r # None /\ r # "authorize"
  BY Apart DEF Callers, LoginSteps, Asks
<1>3. account \in 0..MaxSockets /\ a.of \in Asks \cup {None}
  BY <1>1 DEF Page, Answer
<1>4. t.runs = p.runs /\ t.answer = p.answer /\ t.account = p.account
  BY <1>1 DEF Page
<1>5. runs \in [Reqs -> 0..2] /\ answer \in [Reqs -> Asks \cup {None}]
  <2>1. t.runs \in [Reqs -> 0..2] /\ t.answer \in [Reqs -> Asks \cup {None}]
    BY <1>1 DEF Page
  <2>2. (IF t.runs[r] = 2 THEN 2 ELSE t.runs[r] + 1) \in 0..2
    <3>1. t.runs[r] \in 0..2
      BY <1>2, <2>1
    <3> QED
      BY <3>1
  <2> QED
    BY <1>2, <1>3, <2>1, <2>2
<1>6. u \in Page
  <2> HIDE DEF account, runs, answer
  <2> QED
    BY <1>1, <1>3, <1>5 DEF Page
<1>7. q = u \/ \E what \in Words : q = Say(u, r, what)
  BY <1>1 DEF RunRequest, Page, Words
<1>8. /\ \A y \in Reqs : runs[y] = IF y = r THEN (IF p.runs[y] = 2 THEN 2 ELSE p.runs[y] + 1)
                                   ELSE p.runs[y]
      /\ \A y \in Reqs : answer[y] = IF y = r THEN a.of ELSE p.answer[y]
  BY <1>1, <1>2, <1>4 DEF Page
<1>9. /\ u.requestCallback = None /\ u.socket = p.socket /\ u.onError = p.onError
      /\ u.runs = runs /\ u.answer = answer /\ u.account = account /\ u.token = p.token
      /\ u.toWallet = p.toWallet /\ u.sock = p.sock /\ u.heard = p.heard
  BY <1>1 DEF Page
<1>10. account = p.account
       \/ (account = a.on /\ a.kind # "fail" /\ method[r] = "fetchWallet")
  BY <1>4
<1> HIDE DEF r, t, account, runs, answer, u, q
<1>11. q \in Page /\ q = [u EXCEPT !.heard = q.heard]
       /\ \A y \in Callers : y # r => q.heard[y] = u.heard[y]
  <2>1. CASE q = u
    BY <2>1, <1>6 DEF Page
  <2>2. CASE \E what \in Words : q = Say(u, r, what)
    BY <2>2, <1>2, <1>6, SayPage
  <2> QED
    BY <1>7, <2>1, <2>2
<1>12. /\ q.requestCallback = None /\ q.socket = p.socket /\ q.onError = p.onError
       /\ q.runs = runs /\ q.answer = answer /\ q.account = account /\ q.token = p.token
       /\ q.toWallet = p.toWallet /\ q.sock = p.sock
  BY <1>6, <1>9, <1>11 DEF Page
<1>13. Effect(p, q, r, a)
  BY <1>2, <1>8, <1>9, <1>10, <1>11, <1>12 DEF Effect, SocketEnds, Callers
<1> QED
  BY <1>13 DEF q, t, r

\* login()'s second callback tells login() what came of it.
LEMMA RunGetAccountPage ==
  ASSUME NEW p \in Page, NEW a \in Answer
  PROVE  LET q == RunGetAccount(p, a)
         IN  /\ q \in Page
             /\ q.requestCallback = p.requestCallback /\ q.socket = p.socket
             /\ q.onError = p.onError /\ q.runs = p.runs /\ q.answer = p.answer
             /\ q.token = p.token /\ q.toWallet = p.toWallet
             /\ q.account = IF a.kind # "fail" THEN a.on ELSE p.account
             /\ SocketEnds(p, q)
             /\ \A r \in Reqs : r # p.onError => q.heard[r] = p.heard[r]
<1> DEFINE e == Disconnect(FireError(p))
           u == IF a.kind # "fail" THEN [p EXCEPT !.account = a.on] ELSE e
           word == IF a.kind # "fail" THEN "ok" ELSE "fail"
           v == Say(u, u.onLogin, word)
           h == IF u.onLogin = None THEN u
                ELSE [v EXCEPT !.connected = @ \/ (a.kind # "fail")]
           q == [h EXCEPT !.onLogin = None]
<1>1. RunGetAccount(p, a) = q
  BY Zenon DEF RunGetAccount
<1>2. a.on \in 0..MaxSockets
  BY DEF Answer
<1>3. Effect(p, e, None, a)
  BY DropEffect
<1>4. /\ u \in Page
      /\ u.requestCallback = p.requestCallback /\ u.socket = p.socket
      /\ u.onError = p.onError /\ u.token = p.token /\ u.toWallet = p.toWallet
      /\ u.account = IF a.kind # "fail" THEN a.on ELSE p.account
      /\ SocketEnds(p, u)
      /\ \A r \in Reqs : u.runs[r] = p.runs[r] /\ u.answer[r] = p.answer[r]
      /\ \A r \in Reqs : r # p.onError => u.heard[r] = p.heard[r]
  <2>1. CASE a.kind # "fail"
    BY <2>1, <1>2 DEF Page, SocketEnds
  <2>2. CASE a.kind = "fail"
    BY <2>2, <1>3, Apart DEF Effect, Asks
  <2> QED
    BY <2>1, <2>2
<1>5. u.runs = p.runs /\ u.answer = p.answer
  BY <1>4 DEF Page
<1> HIDE DEF u
<1>6. /\ h \in Page /\ h.requestCallback = u.requestCallback /\ h.socket = u.socket
      /\ h.onError = u.onError /\ h.token = u.token /\ h.toWallet = u.toWallet
      /\ h.account = u.account /\ h.sock = u.sock /\ h.runs = u.runs
      /\ h.answer = u.answer
      /\ \A r \in Reqs : h.heard[r] = u.heard[r]
  <2>1. CASE u.onLogin = None
    BY <2>1, <1>4
  <2>2. CASE u.onLogin # None
    <3>1. u.onLogin \in Logins /\ u.onLogin \in Callers /\ word \in Words
      BY <2>2, <1>4 DEF Page, Callers, Words
    <3>2. /\ v \in Page /\ v = [u EXCEPT !.heard = v.heard]
          /\ \A y \in Callers : y # u.onLogin => v.heard[y] = u.heard[y]
      BY <1>4, <3>1, SayPage
    <3>3. \A r \in Reqs : r \in Callers /\ r # u.onLogin
      BY <3>1, Apart DEF Callers
    <3> DEFINE c == v.connected \/ (a.kind # "fail")
    <3>4. c \in BOOLEAN
      OBVIOUS
    <3>5. h = [v EXCEPT !.connected = c]
      BY <2>2
    <3> HIDE DEF v, c
    <3>6. v.sock = u.sock /\ v.requestCallback = u.requestCallback /\ v.socket = u.socket
          /\ v.onError = u.onError /\ v.token = u.token /\ v.toWallet = u.toWallet
          /\ v.account = u.account /\ v.runs = u.runs /\ v.answer = u.answer
      BY <1>4, <3>2 DEF Page
    <3> HIDE DEF h
    <3>7. h \in Page /\ h.heard = v.heard /\ h.sock = v.sock /\ h.socket = v.socket
          /\ h.requestCallback = v.requestCallback /\ h.onError = v.onError
          /\ h.token = v.token /\ h.toWallet = v.toWallet
          /\ h.account = v.account /\ h.runs = v.runs /\ h.answer = v.answer
      BY <3>2, <3>4, <3>5 DEF Page
    <3> QED
      BY <3>2, <3>3, <3>6, <3>7
  <2> QED
    BY <2>1, <2>2
<1> HIDE DEF h
<1>7. /\ q \in Page /\ q.requestCallback = h.requestCallback /\ q.socket = h.socket
      /\ q.onError = h.onError /\ q.token = h.token /\ q.toWallet = h.toWallet
      /\ q.account = h.account /\ q.sock = h.sock /\ q.runs = h.runs
      /\ q.answer = h.answer /\ q.heard = h.heard
  BY <1>6 DEF Page
<1> HIDE DEF q
<1> QED
  BY <1>1, <1>4, <1>5, <1>6, <1>7 DEF SocketEnds

LEMMA QueueSends ==
  ASSUME NEW p \in Page, p.socket # 0, NEW x \in Asks
  PROVE  Sent(p, Queue(p, x), x)
<1> DEFINE u == [p EXCEPT !.requestCallback = x]
           wire == [p.toWallet EXCEPT ![p.socket] = Append(@, x)]
<1>1. p.socket \in Sockets
  BY DEF Page, Sockets
<1>2. wire \in [Sockets -> Seq(Asks)]
  <2>1. p.toWallet \in [Sockets -> Seq(Asks)] /\ p.toWallet[p.socket] \in Seq(Asks)
    BY <1>1 DEF Page
  <2>2. Append(p.toWallet[p.socket], x) \in Seq(Asks)
    BY <2>1, AppendElements
  <2> QED
    BY <2>1, <2>2
<1>3. Queue(p, x) = IF p.sock[p.socket] = "open" THEN [u EXCEPT !.toWallet = wire] ELSE u
  BY DEF Queue, Page
<1> HIDE DEF wire
<1>4. CASE p.sock[p.socket] = "open"
  <2>1. Queue(p, x) = [u EXCEPT !.toWallet = wire]
    BY <1>3, <1>4
  <2> QED
    BY <1>2, <1>4, <2>1 DEF Sent, Page, wire
<1>5. CASE p.sock[p.socket] # "open"
  <2>1. Queue(p, x) = u
    BY <1>3, <1>5
  <2> QED
    BY <2>1 DEF Sent, Page
<1> QED
  BY <1>4, <1>5

LEMMA SocketOpen ==
  ASSUME NEW p \in Page, IsSocketOpen(p)
  PROVE  p.socket # 0
BY DEF IsSocketOpen

\* login()'s first callback drops the connection, or takes the token and asks on.
LEMMA RunAuthorizeEffect ==
  ASSUME NEW p \in Page, NEW a \in Answer, NEW throws
  PROVE  Effect(p, RunAuthorize(TakeCallback(p), a, throws), "authorize", a)
<1> DEFINE t == TakeCallback(p)
           u == [t EXCEPT !.token = a.on]
           q == RunAuthorize(t, a, throws)
<1>1. t \in Page /\ t = [p EXCEPT !.requestCallback = None]
  BY TakePage
<1>2. /\ t.requestCallback = None
      /\ t.socket = p.socket /\ t.onError = p.onError /\ t.runs = p.runs
      /\ t.answer = p.answer /\ t.token = p.token /\ t.account = p.account
      /\ t.toWallet = p.toWallet /\ t.sock = p.sock /\ t.heard = p.heard
  BY <1>1 DEF Page
<1>3. "authorize" # None /\ "authorize" \notin Reqs /\ "getAccount" \in Asks
  BY Apart DEF LoginSteps, Asks
<1>4. CASE a.kind = "fail"
  <2>1. q = Disconnect(FireError(t))
    BY <1>4 DEF RunAuthorize
  <2>2. Effect(t, q, None, a)
    BY <1>1, <2>1, DropEffect
  <2> HIDE DEF q
  <2> QED
    <3>1. \A r \in Reqs : r # None
      BY Apart DEF Asks
    <3>2. Effect(p, q, "authorize", a)
      BY <1>2, <1>3, <1>4, <2>2, <3>1 DEF Effect, SocketEnds
    <3> QED
      BY <3>2 DEF q
<1>5. CASE a.kind # "fail"
  <2>1. a.on \in 0..MaxSockets
    BY DEF Answer
  <2>2. /\ u \in Page
        /\ u.requestCallback = None /\ u.token = a.on
        /\ u.socket = p.socket /\ u.onError = p.onError /\ u.runs = p.runs
        /\ u.answer = p.answer /\ u.account = p.account
        /\ u.toWallet = p.toWallet /\ u.sock = p.sock /\ u.heard = p.heard
    BY <1>1, <1>2, <2>1 DEF Page
  <2>3. q = SendGetAccount(u, throws)
    BY <1>5 DEF RunAuthorize
  <2> HIDE DEF u
  <2>4. CASE IsSocketOpen(u) /\ ~throws
    <3>1. q = Queue(u, "getAccount") /\ u.socket # 0
      BY <2>2, <2>3, <2>4, SocketOpen DEF SendGetAccount
    <3> HIDE DEF q
    <3>2. Sent(u, q, "getAccount")
      BY <1>3, <2>2, <3>1, QueueSends
    <3>3. Effect(p, q, "authorize", a)
      BY <1>3, <1>5, <2>2, <3>1, <3>2 DEF Effect, Sent, SocketEnds
    <3> QED
      BY <3>3 DEF q
  <2>5. CASE ~(IsSocketOpen(u) /\ ~throws)
    <3>1. q = RunGetAccount(u, Failed)
      BY <2>3, <2>5 DEF SendGetAccount
    <3> HIDE DEF q
    <3>2. /\ q \in Page
          /\ q.requestCallback = u.requestCallback /\ q.socket = u.socket
          /\ q.onError = u.onError /\ q.runs = u.runs /\ q.answer = u.answer
          /\ q.token = u.token /\ q.toWallet = u.toWallet
          /\ q.account = IF Failed.kind # "fail" THEN Failed.on ELSE u.account
          /\ SocketEnds(u, q)
          /\ \A r \in Reqs : r # u.onError => q.heard[r] = u.heard[r]
      BY <2>2, <3>1, RunGetAccountPage, FailedAnswer, ZenonT(30)
    <3>3. q.account = u.account
      BY <3>2, FailedAnswer
    <3>4. Effect(p, q, "authorize", a)
      BY <1>3, <1>5, <2>2, <3>2, <3>3 DEF Effect, SocketEnds
    <3> QED
      BY <3>4 DEF q
  <2> QED
    BY <2>4, <2>5
<1> QED
  BY <1>4, <1>5

LEMMA RunCallbackEffect ==
  ASSUME NEW p \in Page, p.requestCallback # None, NEW a \in Answer, NEW throws
  PROVE  Effect(p, RunCallback(p, a, throws), p.requestCallback, a)
<1> DEFINE x == p.requestCallback
           t == TakeCallback(p)
           q == RunCallback(p, a, throws)
<1>1. x \in Reqs \/ x = "authorize" \/ x = "getAccount"
  BY DEF Page, Asks, LoginSteps
<1>2. "authorize" \notin Reqs /\ "getAccount" \notin Reqs
  BY Apart DEF LoginSteps
<1>3. CASE x \in Reqs
  <2>1. q = RunRequest(t, x, a)
    BY <1>2, <1>3 DEF RunCallback
  <2> QED
    BY <1>3, <2>1, RunRequestEffect
<1>4. CASE x = "authorize"
  <2>1. q = RunAuthorize(t, a, throws)
    BY <1>4 DEF RunCallback
  <2> QED
    BY <1>4, <2>1, RunAuthorizeEffect
<1>5. CASE x = "getAccount"
  <2>1. q = RunGetAccount(t, a)
    BY <1>5 DEF RunCallback
  <2> HIDE DEF q
  <2>2. t \in Page /\ t = [p EXCEPT !.requestCallback = None]
    BY TakePage
  <2>3. /\ t.requestCallback = None
        /\ t.socket = p.socket /\ t.onError = p.onError /\ t.runs = p.runs
        /\ t.answer = p.answer /\ t.token = p.token /\ t.account = p.account
        /\ t.toWallet = p.toWallet /\ t.sock = p.sock /\ t.heard = p.heard
    BY <2>2 DEF Page
  <2> HIDE DEF t
  <2>4. /\ q \in Page
        /\ q.requestCallback = t.requestCallback /\ q.socket = t.socket
        /\ q.onError = t.onError /\ q.runs = t.runs /\ q.answer = t.answer
        /\ q.token = t.token /\ q.toWallet = t.toWallet
        /\ q.account = IF a.kind # "fail" THEN a.on ELSE t.account
        /\ SocketEnds(t, q)
        /\ \A r \in Reqs : r # t.onError => q.heard[r] = t.heard[r]
    BY <2>1, <2>2, RunGetAccountPage, ZenonT(30)
  <2>5. Effect(p, q, x, a)
    BY <1>2, <1>5, <2>3, <2>4 DEF Effect, SocketEnds
  <2> QED
    BY <2>5 DEF q
<1> QED
  BY <1>1, <1>3, <1>4, <1>5

-----------------------------------------------------------------------------
(* The handlers and the request methods.                                   *)

\* What a message or a close may do: report, or hand the answer to the slot.
Handled(p, q, a) ==
    \/ Effect(p, q, None, a)
    \/ p.requestCallback # None /\ Effect(p, q, p.requestCallback, a)

LEMMA FailureHandled ==
  ASSUME NEW p \in Page
  PROVE  Handled(p, HandleSocketFailure(p), Failed)
<1>1. CASE p.requestCallback = None
  BY <1>1, FireErrorEffect DEF HandleSocketFailure, Handled
<1>2. CASE p.requestCallback # None
  BY <1>2, RunCallbackEffect, FailedAnswer DEF HandleSocketFailure, Handled
<1> QED
  BY <1>1, <1>2

LEMMA MessageHandled ==
  ASSUME NEW p \in Page, NEW a \in Answer, NEW throws
  PROVE  Handled(p, MessageHandler(p, a, throws), a)
BY FireErrorEffect, DropEffect, RunCallbackEffect DEF MessageHandler, Handled

LEMMA CloseHandled ==
  ASSUME NEW p \in Page, NEW clean \in BOOLEAN
  PROVE  Handled(p, CloseHandler(p, clean), Failed)
<1> DEFINE u == [p EXCEPT !.socketOpen = FALSE]
           q == CloseHandler(p, clean)
<1>1. /\ u \in Page /\ u.requestCallback = p.requestCallback
      /\ u.socket = p.socket /\ u.onError = p.onError /\ u.runs = p.runs
      /\ u.answer = p.answer /\ u.token = p.token /\ u.account = p.account
      /\ u.toWallet = p.toWallet /\ u.sock = p.sock /\ u.heard = p.heard
  BY DEF Page
<1>2. q = HandleSocketFailure(u) \/ (q = u /\ u.requestCallback = None)
  BY DEF CloseHandler
<1> HIDE DEF u, q
<1>3. CASE q = HandleSocketFailure(u)
  <2>1. Handled(u, q, Failed)
    BY <1>1, <1>3, FailureHandled
  <2> QED
    BY <1>1, <2>1 DEF Handled, Effect, SocketEnds, q
<1>4. CASE q = u /\ u.requestCallback = None
  <2>1. \A r \in Reqs : r # None
    BY Apart DEF Asks
  <2> QED
    BY <1>1, <1>4, <2>1 DEF Handled, Effect, SocketEnds, q
<1> QED
  BY <1>2, <1>3, <1>4

LEMMA SendAsks ==
  ASSUME NEW p \in Page, NEW x \in Asks, NEW throws
  PROVE  Asked(p, SendLinkRequest(p, x, throws), x)
<1> DEFINE u == [p EXCEPT !.requestCallback = x]
           q == SendLinkRequest(p, x, throws)
<1>1. CASE IsSocketOpen(p) /\ ~throws
  BY <1>1, SocketOpen, QueueSends DEF SendLinkRequest, Asked
<1>2. CASE ~(IsSocketOpen(p) /\ ~throws)
  <2>1. q = HandleSocketFailure(u)
    BY <1>2 DEF SendLinkRequest
  <2>2. /\ u \in Page /\ u.requestCallback = x
        /\ u.socket = p.socket /\ u.onError = p.onError /\ u.runs = p.runs
        /\ u.answer = p.answer /\ u.token = p.token /\ u.account = p.account
        /\ u.toWallet = p.toWallet /\ u.sock = p.sock /\ u.heard = p.heard
    BY DEF Page
  <2>3. x # None
    BY Apart
  <2>4. q = RunCallback(u, Failed, FALSE)
    BY <2>1, <2>2, <2>3 DEF HandleSocketFailure
  <2> HIDE DEF u, q
  <2>5. Effect(u, q, x, Failed)
    BY <2>2, <2>3, <2>4, RunCallbackEffect, FailedAnswer
  <2>6. Effect(p, q, x, Failed)
    BY <2>2, <2>3, <2>5 DEF Effect, SocketEnds
  <2> QED
    BY <2>6 DEF Asked, q
<1> QED
  BY <1>1, <1>2

LEMMA OpenAsks ==
  ASSUME NEW p \in Page, NEW throws
  PROVE  Asked(p, OpenHandler(p, throws), "authorize")
<1> DEFINE u == [p EXCEPT !.socketOpen = TRUE]
           q == OpenHandler(p, throws)
<1>1. /\ u \in Page /\ u.requestCallback = p.requestCallback
      /\ u.socket = p.socket /\ u.onError = p.onError /\ u.runs = p.runs
      /\ u.answer = p.answer /\ u.token = p.token /\ u.account = p.account
      /\ u.toWallet = p.toWallet /\ u.sock = p.sock /\ u.heard = p.heard
  BY DEF Page
<1>2. q = SendLinkRequest(u, "authorize", throws)
  BY DEF OpenHandler
<1>3. "authorize" \in Asks /\ "authorize" # None
  BY Apart DEF Asks, LoginSteps
<1> HIDE DEF u, q
<1>4. Asked(u, q, "authorize")
  BY <1>1, <1>2, <1>3, SendAsks
<1>5. Asked(p, q, "authorize")
  BY <1>1, <1>3, <1>4 DEF Asked, Sent, Effect, SocketEnds
<1> QED
  BY <1>5 DEF q

\* A request method refuses its input, or asks for what it was given, after it may have
\* put its own error callback in place.
LEMMA RequestAsks ==
  ASSUME NEW p \in Page, NEW r \in Reqs, NEW input, NEW throws, method[r] \in AllMethods
  PROVE  LET q == Request(p, r, input, throws)
         IN  \/ Refused(p, q, r)
             \/ Asked(p, q, r)
             \/ Asked(OwnError(p, r), q, r)
<1> DEFINE e == OwnError(p, r)
<1>1. r \in Asks /\ r \in Callers
  BY DEF Asks, Callers
<1>2. e \in Page
  BY <1>1 DEF OwnError, Page
<1>3. Asked(p, SendLinkRequest(p, r, throws), r)
  BY <1>1, SendAsks
<1>4. Asked(e, SendLinkRequest(e, r, throws), r)
  BY <1>1, <1>2, SendAsks
<1>5. Refused(p, p, r)
  BY DEF Refused, Page
<1>6. Refused(p, Fail(p, r), r)
  <2>1. Fail(p, r) = Say(p, r, "fail") /\ "fail" \in Words
    BY DEF Fail, Words
  <2> QED
    BY <1>1, <2>1, SayPage DEF Refused
<1> HIDE DEF e
<1>7. \/ Request(p, r, input, throws) \in {p, Fail(p, r), SendLinkRequest(p, r, throws)}
      \/ Request(p, r, input, throws) = SendLinkRequest(e, r, throws)
  BY DEF Request, AllMethods, SignTx, SignCarbonTxAndBroadcast, SignTxSignature,
         SignPrebuiltTransaction, MultiSig, SignData, InvokeScript, GetPeer, GetNexus,
         GetWalletVersion, FetchWallet, e
<1> QED
  BY <1>3, <1>4, <1>5, <1>6, <1>7 DEF e

\* A new socket replaces the one before, empties the slot and ends the session.
LEMMA CreateSocketPage ==
  ASSUME NEW p \in Page, p.socket < MaxSockets
  PROVE  LET q == CreateSocket(p)
         IN  /\ q \in Page
             /\ q.requestCallback = None /\ q.socket = p.socket + 1
             /\ q.token = 0 /\ q.account = 0
             /\ q.onError = p.onError /\ q.runs = p.runs /\ q.answer = p.answer
             /\ q.heard = p.heard /\ q.toWallet = p.toWallet
             /\ q.sock[p.socket + 1] = "connecting"
             /\ \A s \in Sockets : s # p.socket + 1 =>
                  /\ \/ q.sock[s] = p.sock[s]
                     \/ s = p.socket /\ p.sock[s] \in Usable
                        /\ q.sock[s] \in {"closing", "aborted"}
                  /\ s = p.socket => q.sock[s] \notin Usable
<1> DEFINE c == CloseSocket(p, p.socket)
           n == p.socket + 1
           k == [c.sock EXCEPT ![n] = "connecting"]
           q == [c EXCEPT !.socket = n, !.sock = k, !.socketOpen = FALSE,
                          !.requestCallback = None, !.token = 0, !.account = 0]
<1>1. /\ c \in Page /\ c = [p EXCEPT !.sock = c.sock] /\ SocketEnds(p, c)
      /\ p.socket # 0 => c.sock[p.socket] \notin Usable
  BY CloseSocketPage
<1>2. /\ c.socket = p.socket /\ c.onError = p.onError /\ c.runs = p.runs
      /\ c.answer = p.answer /\ c.toWallet = p.toWallet /\ c.heard = p.heard
  BY <1>1 DEF Page
<1>3. p.socket \in 0..MaxSockets /\ MaxSockets \in Nat
  BY LegacyAssumption DEF Page
<1>4. n \in Sockets /\ n \in 0..MaxSockets /\ n # p.socket /\ 0 \in 0..MaxSockets
  BY <1>3 DEF Sockets
<1>5. CreateSocket(p) = q
  BY <1>2 DEF CreateSocket
<1>6. c.sock \in [Sockets -> SocketState]
  BY <1>1 DEF Page
<1> HIDE DEF c, n
<1>7. /\ k \in [Sockets -> SocketState] /\ k[n] = "connecting"
      /\ \A s \in Sockets : s # n => k[s] = c.sock[s]
  BY <1>4, <1>6 DEF SocketState
<1> HIDE DEF k
<1>8. /\ q \in Page /\ q.requestCallback = None /\ q.socket = n /\ q.token = 0
      /\ q.account = 0 /\ q.sock = k /\ q.onError = c.onError /\ q.runs = c.runs
      /\ q.answer = c.answer /\ q.heard = c.heard /\ q.toWallet = c.toWallet
  BY <1>1, <1>4, <1>7 DEF Page
<1> HIDE DEF q
<1>9. \A s \in Sockets : s = p.socket => p.socket # 0
  BY <1>3 DEF Sockets
<1> QED
  BY <1>1, <1>2, <1>5, <1>7, <1>8, <1>9 DEF SocketEnds, n

-----------------------------------------------------------------------------
(* What each step does to the page.                                        *)

\* A connection is made: by login(), which also takes over onError, or by retry().
Connected(p, q) ==
    /\ q \in Page
    /\ q.requestCallback = None /\ q.socket = p.socket + 1
    /\ q.token = 0 /\ q.account = 0
    /\ q.onError = p.onError \/ q.onError \in Logins
    /\ q.runs = p.runs /\ q.answer = p.answer
    /\ q.heard = p.heard /\ q.toWallet = p.toWallet
    /\ q.sock[p.socket + 1] = "connecting"
    /\ \A s \in Sockets : s # p.socket + 1 =>
         /\ \/ q.sock[s] = p.sock[s]
            \/ s = p.socket /\ p.sock[s] \in Usable /\ q.sock[s] \in {"closing", "aborted"}
         /\ s = p.socket => q.sock[s] \notin Usable

LEMMA ConnectStep ==
  ASSUME TypeOK, Retry \/ \E l \in Logins : Login(l)
  PROVE  /\ MayConnect /\ page.socket + 1 \in Sockets
         /\ Connected(page, page')
         /\ UNCHANGED <<toClient, method, care>>
         /\ \A r \in Reqs : status'[r] = status[r]
         /\ status' \in [Callers -> {"idle", "building", "called"}]
<1>0. page \in Page /\ status \in [Callers -> {"idle", "building", "called"}]
  BY DEF TypeOK
<1>1. CASE Retry
  <2>1. page' = CreateSocket(page) /\ MayConnect
    BY <1>1 DEF Retry
  <2>2. page.socket < MaxSockets
    BY <2>1 DEF MayConnect
  <2>3. page.socket + 1 \in Sockets
    BY <1>0, <2>2, LegacyAssumption DEF Page, Sockets
  <2>4. Connected(page, page')
    BY <1>0, <2>1, <2>2, CreateSocketPage DEF Connected
  <2> QED
    BY <1>0, <1>1, <2>1, <2>3, <2>4 DEF Retry, config
<1>2. ASSUME NEW l \in Logins, Login(l)
      PROVE  /\ MayConnect /\ page.socket + 1 \in Sockets
             /\ Connected(page, page')
             /\ UNCHANGED <<toClient, method, care>>
             /\ \A r \in Reqs : status'[r] = status[r]
             /\ status' \in [Callers -> {"idle", "building", "called"}]
  <2> DEFINE p == [page EXCEPT !.onLogin = l, !.onError = l]
  <2>1. page' = CreateSocket(p) /\ MayConnect
    BY <1>2 DEF Login
  <2>2. page.socket < MaxSockets
    BY <2>1 DEF MayConnect
  <2>3. /\ p \in Page /\ p.socket = page.socket /\ p.runs = page.runs /\ p.onError = l
        /\ p.answer = page.answer /\ p.heard = page.heard /\ p.toWallet = page.toWallet
        /\ p.sock = page.sock
    BY <1>0 DEF Page, Callers
  <2> HIDE DEF p
  <2>4. Connected(page, page')
    BY <2>1, <2>2, <2>3, CreateSocketPage DEF Connected
  <2>5. page.socket + 1 \in Sockets
    BY <1>0, <2>2, LegacyAssumption DEF Page, Sockets
  <2>6. \A r \in Reqs : r # l
    BY Apart
  <2> QED
    BY <1>0, <1>2, <2>1, <2>4, <2>5, <2>6 DEF Login, config, Callers
<1> QED
  BY <1>1, <1>2

\* A request is made, directly or through EasyConnect.
Requested(p, q, r) ==
    \E e \in {p.onError, r} :
        LET u == [p EXCEPT !.onError = e] IN Refused(u, q, r) \/ Asked(u, q, r)

LEMMA RequestStep ==
  ASSUME TypeOK, NEW r \in Reqs, Call(r) \/ SignScript(r)
  PROVE  /\ Requested(page, page', r)
         /\ status' = [status EXCEPT ![r] = "called"]
         /\ UNCHANGED <<toClient, method, care>>
<1>0. page \in Page /\ page = [page EXCEPT !.onError = page.onError]
  BY DEF TypeOK, Page
<1>1. CASE Call(r)
  <2>1. PICK input \in {"good", "tooBig", "missing"}, throws \in Throws :
           page' = Request(page, r, input, throws)
    BY <1>1 DEF Call
  <2>2. method[r] \in AllMethods
    BY LegacyAssumption DEF TypeOK
  <2>3. \/ Refused(page, page', r)
        \/ Asked(page, page', r)
        \/ Asked(OwnError(page, r), page', r)
    BY <1>0, <2>1, <2>2, RequestAsks
  <2>4. Requested(page, page', r)
    BY <1>0, <2>3 DEF Requested, OwnError
  <2> QED
    BY <1>1, <2>4 DEF Call, config
<1>2. CASE SignScript(r)
  <2>1. PICK throws \in Throws : page' = SignTx(page, r, "good", throws)
    BY <1>2 DEF SignScript
  <2>2. page' = SendLinkRequest(OwnError(page, r), r, throws)
    BY <2>1 DEF SignTx
  <2>3. OwnError(page, r) \in Page /\ r \in Asks
    BY <1>0 DEF OwnError, Page, Callers, Asks
  <2>4. Asked(OwnError(page, r), page', r)
    BY <2>2, <2>3, SendAsks
  <2>5. Requested(page, page', r)
    BY <2>4 DEF Requested, OwnError
  <2> QED
    BY <1>2, <2>5 DEF SignScript, config
<1> QED
  BY <1>1, <1>2

LEMMA OpenStep ==
  ASSUME TypeOK, NEW s \in Sockets, OnOpen(s)
  PROVE  LET p == [page EXCEPT !.sock[s] = "open"]
         IN  /\ page.sock[s] = "connecting"
             /\ p \in Page
             /\ Asked(p, page', "authorize")
             /\ UNCHANGED <<toClient, status, method, care>>
<1>1. [page EXCEPT !.sock[s] = "open"] \in Page
  BY DEF TypeOK, Page, SocketState
<1> QED
  BY <1>1, OpenAsks DEF OnOpen, config

LEMMA MessageStep ==
  ASSUME TypeOK, NEW s \in Sockets, OnMessage(s)
  PROVE  /\ page.sock[s] \in {"open", "gone"} /\ toClient[s] # <<>>
         /\ Head(toClient[s]) \in Answer /\ Tail(toClient[s]) \in Seq(Answer)
         /\ Handled(page, page', Head(toClient[s]))
         /\ toClient' = [toClient EXCEPT ![s] = Tail(@)]
         /\ UNCHANGED <<status, method, care>>
<1>1. /\ page.sock[s] \in {"open", "gone"} /\ toClient[s] # <<>>
      /\ toClient' = [toClient EXCEPT ![s] = Tail(@)]
      /\ UNCHANGED <<status, method, care>>
  BY DEF OnMessage, config
<1>2. page \in Page /\ toClient[s] \in Seq(Answer)
  BY DEF TypeOK
<1>3. Head(toClient[s]) \in Answer /\ Tail(toClient[s]) \in Seq(Answer)
  BY <1>1, <1>2, TailElements
<1>4. Handled(page, page', Head(toClient[s]))
  BY <1>2, <1>3, MessageHandled DEF OnMessage
<1> QED
  BY <1>1, <1>3, <1>4

LEMMA CloseStep ==
  ASSUME TypeOK, NEW s \in Sockets, NEW clean \in BOOLEAN, OnClose(s, clean)
  PROVE  LET p == [page EXCEPT !.sock[s] = "closed"]
         IN  /\ page.sock[s] \in {"closing", "aborted", "gone"}
             /\ p \in Page
             /\ Handled(p, page', Failed)
             /\ toClient' = [toClient EXCEPT ![s] = <<>>]
             /\ UNCHANGED <<status, method, care>>
<1>1. [page EXCEPT !.sock[s] = "closed"] \in Page
  BY DEF TypeOK, Page, SocketState
<1> QED
  BY <1>1, CloseHandled DEF OnClose, config

\* The wallet, the connection and a disconnect move no callback and say nothing.
Silent(p, q) ==
    /\ q \in Page
    /\ q.requestCallback = p.requestCallback /\ q.socket = p.socket
    /\ q.onError = p.onError /\ q.runs = p.runs /\ q.answer = p.answer
    /\ q.heard = p.heard /\ q.token = p.token /\ q.account = p.account

LEMMA DisconnectStep ==
  ASSUME TypeOK, AppDisconnect
  PROVE  /\ Silent(page, page') /\ SocketEnds(page, page')
         /\ page'.toWallet = page.toWallet
         /\ UNCHANGED <<toClient, status, method, care>>
<1> DEFINE d == Disconnect(page)
<1>1. page \in Page /\ page' = [d EXCEPT !.connected = FALSE]
  BY DEF TypeOK, AppDisconnect
<1>2. /\ d \in Page /\ d = [page EXCEPT !.sock = d.sock, !.socketOpen = FALSE]
      /\ SocketEnds(page, d)
  BY <1>1, DisconnectPage
<1> HIDE DEF d
<1>3. Silent(page, d) /\ d.toWallet = page.toWallet
  BY <1>1, <1>2 DEF Silent, Page
<1>4. Silent(page, page') /\ page'.sock = d.sock /\ page'.toWallet = page.toWallet
  BY <1>1, <1>2, <1>3 DEF Silent, Page
<1> QED
  BY <1>2, <1>4 DEF SocketEnds, AppDisconnect, config

LEMMA AnswerStep ==
  ASSUME TypeOK, NEW s \in Sockets, WalletAnswers(s)
  PROVE  /\ Silent(page, page') /\ page'.sock = page.sock /\ page.sock[s] = "open"
         /\ page.toWallet[s] \in Seq(Asks) /\ page.toWallet[s] # <<>>
         /\ page'.toWallet = [page.toWallet EXCEPT ![s] = Tail(@)]
         /\ \E a \in Answer :
              /\ a.on = s /\ a.of = Head(page.toWallet[s])
              /\ toClient' = [toClient EXCEPT ![s] = Append(@, a)]
         /\ UNCHANGED <<status, method, care>>
<1> DEFINE w == page.toWallet[s]
           wire == [page.toWallet EXCEPT ![s] = Tail(@)]
<1>0. /\ page \in Page /\ page.toWallet \in [Sockets -> Seq(Asks)] /\ w \in Seq(Asks)
      /\ s \in 0..MaxSockets
  <2>1. page \in Page
    BY DEF TypeOK
  <2>2. page.toWallet \in [Sockets -> Seq(Asks)]
    BY <2>1 DEF Page
  <2>3. s \in 0..MaxSockets
    BY DEF Sockets
  <2> QED
    BY <2>1, <2>2, <2>3
<1>1. /\ w # <<>> /\ page.sock[s] = "open"
      /\ page' = [page EXCEPT !.toWallet = wire]
  BY DEF WalletAnswers
<1>2. PICK kind \in {"ok", "flawed", "rejected", "walletClosed", "fail"} :
         toClient' = [toClient EXCEPT ![s] =
                         Append(@, [kind |-> kind, of |-> Head(w), on |-> s])]
  BY DEF WalletAnswers
<1>3. Head(w) \in Asks /\ Tail(w) \in Seq(Asks)
  BY <1>0, <1>1, TailElements
<1>4. [kind |-> kind, of |-> Head(w), on |-> s] \in Answer
  BY <1>0, <1>3 DEF Answer
<1>5. wire \in [Sockets -> Seq(Asks)]
  BY <1>0, <1>3
<1> HIDE DEF wire
<1>6. Silent(page, page') /\ page'.sock = page.sock /\ page'.toWallet = wire
  BY <1>0, <1>1, <1>5 DEF Silent, Page
<1> QED
  BY <1>0, <1>1, <1>2, <1>4, <1>6 DEF WalletAnswers, config, wire

LEMMA BusyStep ==
  ASSUME TypeOK, NEW s \in Sockets, WalletIsBusy(s)
  PROVE  /\ Silent(page, page') /\ page'.sock = page.sock
         /\ page.sock[s] = "open" /\ Len(page.toWallet[s]) > 1
         /\ \E a \in Answer :
              /\ a.on = s
              /\ toClient' = [toClient EXCEPT ![s] = Append(@, a)]
         /\ UNCHANGED <<status, method, care>>
<1> DEFINE w == page.toWallet[s]
           u == <<w[1]>> \o SubSeq(w, 3, Len(w))
           wire == [page.toWallet EXCEPT ![s] = u]
           a == [kind |-> "rejected", of |-> w[2], on |-> s]
<1>0. /\ page \in Page /\ page.toWallet \in [Sockets -> Seq(Asks)] /\ w \in Seq(Asks)
      /\ s \in 0..MaxSockets
  <2>1. page \in Page
    BY DEF TypeOK
  <2>2. page.toWallet \in [Sockets -> Seq(Asks)]
    BY <2>1 DEF Page
  <2>3. s \in 0..MaxSockets
    BY DEF Sockets
  <2> QED
    BY <2>1, <2>2, <2>3
<1>1. /\ Len(w) > 1 /\ page.sock[s] = "open"
      /\ page' = [page EXCEPT !.toWallet = wire]
      /\ toClient' = [toClient EXCEPT ![s] = Append(@, a)]
  BY DEF WalletIsBusy
<1>2. Len(w) \in Nat /\ \A i \in 1..Len(w) : w[i] \in Asks
  BY <1>0, LenProperties, ElementOfSeq
<1>3. u \in Seq(Asks)
  <2>1. <<w[1]>> \in Seq(Asks)
    BY <1>1, <1>2
  <2>2. 3 \in Int /\ Len(w) \in Int /\ \A i \in 3..Len(w) : w[i] \in Asks
    BY <1>2
  <2>3. SubSeq(w, 3, Len(w)) \in Seq(Asks)
    BY <2>2, SubSeqProperties
  <2> QED
    BY <2>1, <2>3, ConcatProperties
<1>4. a \in Answer /\ a.on = s
  BY <1>0, <1>1, <1>2 DEF Answer
<1> HIDE DEF u
<1>5. wire \in [Sockets -> Seq(Asks)]
  BY <1>0, <1>3
<1> HIDE DEF wire, a
<1>6. Silent(page, page') /\ page'.sock = page.sock
  BY <1>0, <1>1, <1>5 DEF Silent, Page
<1> QED
  BY <1>1, <1>4, <1>6 DEF WalletIsBusy, config

LEMMA LeaveStep ==
  ASSUME TypeOK, NEW s \in Sockets, PeerLeaves(s)
  PROVE  /\ Silent(page, page')
         /\ page.sock[s] \in {"connecting", "open"}
         /\ page'.sock = [page.sock EXCEPT ![s] = IF @ = "open" THEN "gone" ELSE "aborted"]
         /\ page'.toWallet = [page.toWallet EXCEPT ![s] = <<>>]
         /\ toClient[s] \in Seq(Answer)
         /\ \E n \in 0..Len(toClient[s]) :
              toClient' = [toClient EXCEPT ![s] = SubSeq(@, 1, n)]
         /\ UNCHANGED <<status, method, care>>
<1> DEFINE state == [page.sock EXCEPT ![s] = IF @ = "open" THEN "gone" ELSE "aborted"]
           wire == [page.toWallet EXCEPT ![s] = <<>>]
<1>0. page \in Page /\ toClient[s] \in Seq(Answer)
  BY DEF TypeOK
<1>1. page' = [page EXCEPT !.sock = state, !.toWallet = wire]
  BY DEF PeerLeaves
<1>2. state \in [Sockets -> SocketState] /\ wire \in [Sockets -> Seq(Asks)]
  BY <1>0 DEF Page, SocketState
<1> HIDE DEF state, wire
<1>3. Silent(page, page') /\ page'.sock = state /\ page'.toWallet = wire
  BY <1>0, <1>1, <1>2 DEF Silent, Page
<1> QED
  BY <1>0, <1>3 DEF PeerLeaves, config, state, wire

LEMMA PrefixElements ==
  ASSUME NEW S, NEW q \in Seq(S), NEW n \in 0..Len(q)
  PROVE  /\ SubSeq(q, 1, n) \in Seq(S) /\ Len(SubSeq(q, 1, n)) = n
         /\ \A j \in DOMAIN SubSeq(q, 1, n) : j \in DOMAIN q /\ SubSeq(q, 1, n)[j] = q[j]
<1>1. Len(q) \in Nat /\ DOMAIN q = 1..Len(q) /\ \A i \in 1..Len(q) : q[i] \in S
  BY LenProperties, ElementOfSeq
<1>2. 1 \in Int /\ n \in Int /\ \A i \in 1..n : q[i] \in S
  BY <1>1
<1>3. /\ SubSeq(q, 1, n) \in Seq(S)
      /\ Len(SubSeq(q, 1, n)) = IF 1 <= n THEN n - 1 + 1 ELSE 0
      /\ \A i \in 1..n-1+1 : SubSeq(q, 1, n)[i] = q[1+i-1]
  BY <1>2, SubSeqProperties
<1>4. DOMAIN SubSeq(q, 1, n) = 1..Len(SubSeq(q, 1, n))
  BY <1>3, LenProperties
<1> QED
  BY <1>1, <1>3, <1>4

-----------------------------------------------------------------------------
(* Type correctness.                                                       *)

LEMMA InitTypes == Init => TypeOK
<1> SUFFICES ASSUME Init PROVE TypeOK
  OBVIOUS
<1>1. MaxSockets \in Nat
  BY LegacyAssumption
<1>2. page \in Page
  BY <1>1 DEF Init, Page, SocketState
<1>3. /\ toClient \in [Sockets -> Seq(Answer)]
      /\ status \in [Callers -> {"idle", "building", "called"}]
      /\ method \in [Reqs -> Methods]
      /\ care \subseteq {"asks", "connects"}
  BY LegacyAssumption DEF Init
<1> QED
  BY <1>2, <1>3 DEF TypeOK

LEMMA RefusedPage ==
  ASSUME NEW p \in Page, NEW q, NEW r \in Reqs, Requested(p, q, r)
  PROVE  q \in Page
BY DEF Requested, Refused, Asked, Sent, Effect

LEMMA NextTypes == TypeOK /\ [Next]_vars => TypeOK'
<1> SUFFICES ASSUME TypeOK, [Next]_vars PROVE TypeOK'
  OBVIOUS
<1>0. /\ page \in Page /\ toClient \in [Sockets -> Seq(Answer)]
      /\ status \in [Callers -> {"idle", "building", "called"}]
  BY DEF TypeOK
<1>1. CASE Retry \/ \E l \in Logins : Login(l)
  BY <1>1, ConnectStep, ZenonT(30) DEF TypeOK, Connected
<1>2. ASSUME NEW r \in Reqs, Call(r) \/ SignScript(r) PROVE TypeOK'
  <2>1. Requested(page, page', r) /\ status' = [status EXCEPT ![r] = "called"]
        /\ UNCHANGED <<toClient, method, care>>
    BY <1>2, RequestStep
  <2> QED
    BY <1>0, <2>1, RefusedPage DEF TypeOK
<1>3. ASSUME NEW r \in Reqs, EasyAction(r) PROVE TypeOK'
  BY <1>0, <1>3 DEF EasyAction, config, TypeOK
<1>4. CASE AppDisconnect
  BY <1>4, DisconnectStep DEF TypeOK, Silent
<1>5. ASSUME NEW s \in Sockets, OnOpen(s) PROVE TypeOK'
  <2>1. /\ Asked([page EXCEPT !.sock[s] = "open"], page', "authorize")
        /\ UNCHANGED <<toClient, status, method, care>>
    BY <1>5, OpenStep
  <2>2. page' \in Page
    BY <2>1 DEF Asked, Sent, Effect
  <2> QED
    BY <2>1, <2>2 DEF TypeOK
<1>6. ASSUME NEW s \in Sockets, OnMessage(s) PROVE TypeOK'
  <2>1. page' \in Page /\ UNCHANGED <<status, method, care>>
    BY <1>6, MessageStep DEF Handled, Effect
  <2>2. toClient' \in [Sockets -> Seq(Answer)]
    BY <1>0, <1>6, MessageStep
  <2> QED
    BY <2>1, <2>2 DEF TypeOK
<1>7. ASSUME NEW s \in Sockets, NEW clean \in BOOLEAN, OnClose(s, clean) PROVE TypeOK'
  <2>1. /\ page' \in Page /\ UNCHANGED <<status, method, care>>
        /\ toClient' = [toClient EXCEPT ![s] = <<>>]
    <3>1. Handled([page EXCEPT !.sock[s] = "closed"], page', Failed)
      BY <1>7, CloseStep
    <3> QED
      BY <1>7, <3>1, CloseStep, SMTT(30) DEF Handled, Effect
  <2>2. toClient' \in [Sockets -> Seq(Answer)]
    BY <1>0, <2>1
  <2> QED
    BY <2>1, <2>2 DEF TypeOK
<1>8. ASSUME NEW s \in Sockets, WalletAnswers(s) \/ WalletIsBusy(s) PROVE TypeOK'
  <2>1. page' \in Page /\ UNCHANGED <<status, method, care>>
    BY <1>8, AnswerStep, BusyStep DEF Silent
  <2>2. PICK a \in Answer : toClient' = [toClient EXCEPT ![s] = Append(@, a)]
    <3>1. CASE WalletAnswers(s)
      BY <3>1, AnswerStep, ZenonT(30)
    <3>2. CASE WalletIsBusy(s)
      BY <3>2, BusyStep
    <3> QED
      BY <1>8, <3>1, <3>2
  <2>3. Append(toClient[s], a) \in Seq(Answer)
    BY <1>0, AppendElements
  <2>4. toClient' \in [Sockets -> Seq(Answer)]
    BY <1>0, <2>2, <2>3
  <2> QED
    BY <2>1, <2>4 DEF TypeOK
<1>9. ASSUME NEW s \in Sockets, PeerLeaves(s) PROVE TypeOK'
  <2>1. page' \in Page /\ UNCHANGED <<status, method, care>>
    BY <1>9, LeaveStep DEF Silent
  <2>2. PICK n \in 0..Len(toClient[s]) : toClient' = [toClient EXCEPT ![s] = SubSeq(@, 1, n)]
    BY <1>9, LeaveStep
  <2>3. SubSeq(toClient[s], 1, n) \in Seq(Answer)
    BY <1>0, PrefixElements
  <2>4. toClient' \in [Sockets -> Seq(Answer)]
    BY <1>0, <2>2, <2>3
  <2> QED
    BY <2>1, <2>4 DEF TypeOK
<1>10. CASE UNCHANGED vars
  BY <1>10 DEF vars, TypeOK
<1> QED
  BY <1>1, <1>2, <1>3, <1>4, <1>5, <1>6, <1>7, <1>8, <1>9, <1>10 DEF Next

\* Everything the link keeps has its type, whatever is called and whatever arrives.
THEOREM LegacyTypes == Spec => []TypeOK
BY InitTypes, NextTypes, PTL DEF Spec

-----------------------------------------------------------------------------
(* A callback runs at most once.                                           *)

\* A request in the slot has been made and has not run, and none runs before it is made.
SlotSound ==
    \A r \in Reqs :
        /\ page.runs[r] <= 1
        /\ page.requestCallback = r => page.runs[r] = 0 /\ status[r] = "called"
        /\ status[r] # "called" => page.runs[r] = 0

\* Only the page and the statuses matter to it.
LEMMA HandledSlot ==
  ASSUME TypeOK, SlotSound, NEW p, NEW a, p.requestCallback = page.requestCallback,
         p.runs = page.runs, Handled(p, page', a), UNCHANGED status
  PROVE  SlotSound'
<1>1. "getAccount" \notin Reqs /\ \A r \in Reqs : r # None
  BY Apart DEF LoginSteps, Asks
<1>2. \A r \in Reqs : page.runs[r] \in 0..2
  BY DEF TypeOK, Page
<1>3. CASE Effect(p, page', None, a)
  BY <1>1, <1>2, <1>3 DEF Effect, SlotSound
<1>4. CASE p.requestCallback # None /\ Effect(p, page', p.requestCallback, a)
  BY <1>1, <1>2, <1>4 DEF Effect, SlotSound
<1> QED
  BY <1>3, <1>4 DEF Handled

\* A request that is made has not run: it waits in the slot, or has failed once.
LEMMA RequestedSlot ==
  ASSUME TypeOK, SlotSound, NEW r \in Reqs, status[r] # "called",
         Requested(page, page', r), status' = [status EXCEPT ![r] = "called"]
  PROVE  SlotSound'
<1>1. "getAccount" \notin Reqs /\ \A q \in Reqs : q # None /\ q # "authorize"
  BY Apart DEF LoginSteps, Asks
<1>2. /\ \A q \in Reqs : page.runs[q] \in 0..2
      /\ page \in Page
      /\ \A q \in Reqs : status'[q] = IF q = r THEN "called" ELSE status[q]
  BY DEF TypeOK, Page, Callers
<1>3. page.runs[r] = 0
  BY DEF SlotSound
<1>4. PICK e \in {page.onError, r} :
         LET u == [page EXCEPT !.onError = e] IN Refused(u, page', r) \/ Asked(u, page', r)
  BY DEF Requested
<1> DEFINE u == [page EXCEPT !.onError = e]
<1>5. u.runs = page.runs /\ u.requestCallback = page.requestCallback
  BY <1>2 DEF Page
<1>6. CASE Refused(u, page', r)
  <2>1. page'.runs = page.runs /\ page'.requestCallback = page.requestCallback
    BY <1>2, <1>6 DEF Refused, Page
  <2> QED
    BY <1>2, <1>3, <2>1 DEF SlotSound
<1>7. CASE Sent(u, page', r)
  <2>1. page'.runs = page.runs /\ page'.requestCallback = r
    BY <1>5, <1>7 DEF Sent
  <2> QED
    BY <1>2, <1>3, <2>1 DEF SlotSound
<1>8. CASE Effect(u, page', r, Failed)
  <2>1. /\ page'.requestCallback = None
        /\ \A q \in Reqs : page'.runs[q] = IF q = r THEN (IF page.runs[q] = 2 THEN 2
                                                        ELSE page.runs[q] + 1)
                                          ELSE page.runs[q]
    BY <1>1, <1>5, <1>8 DEF Effect
  <2> QED
    BY <1>1, <1>2, <1>3, <2>1 DEF SlotSound
<1> QED
  BY <1>4, <1>6, <1>7, <1>8 DEF Asked

LEMMA InitSlot == Init => SlotSound
<1> SUFFICES ASSUME Init PROVE SlotSound
  OBVIOUS
<1>1. page.requestCallback = None /\ \A r \in Reqs : page.runs[r] = 0
  BY DEF Init
<1>2. \A r \in Reqs : r # None
  BY Apart DEF Asks
<1>3. 0 <= 1
  OBVIOUS
<1> QED
  BY <1>1, <1>2, <1>3, Zenon DEF SlotSound

LEMMA NextSlot == TypeOK /\ SlotSound /\ [Next]_vars => SlotSound'
<1> SUFFICES ASSUME TypeOK, SlotSound, [Next]_vars PROVE SlotSound'
  OBVIOUS
<1>0. page \in Page /\ \A r \in Reqs : r # None /\ r # "authorize"
  BY Apart DEF TypeOK, Asks, LoginSteps
<1>1. CASE Retry \/ \E l \in Logins : Login(l)
  BY <1>0, <1>1, ConnectStep DEF Connected, SlotSound
<1>2. ASSUME NEW r \in Reqs, Call(r) \/ SignScript(r) PROVE SlotSound'
  <2>1. status[r] # "called"
    BY <1>2 DEF Call, SignScript
  <2> QED
    BY <1>2, <2>1, RequestStep, RequestedSlot
<1>3. ASSUME NEW r \in Reqs, EasyAction(r) PROVE SlotSound'
  <2>1. /\ status[r] = "idle" /\ page' = page
        /\ \A q \in Reqs : status'[q] = IF q = r THEN "building" ELSE status[q]
    BY <1>3 DEF EasyAction, TypeOK, Callers
  <2> QED
    BY <2>1 DEF SlotSound
<1>4. CASE AppDisconnect
  BY <1>4, DisconnectStep DEF Silent, SlotSound
<1>5. ASSUME NEW s \in Sockets, OnOpen(s) PROVE SlotSound'
  <2> DEFINE p == [page EXCEPT !.sock[s] = "open"]
  <2>1. Asked(p, page', "authorize") /\ UNCHANGED status
    BY <1>5, OpenStep
  <2>2. p.runs = page.runs
    BY <1>0 DEF Page
  <2> HIDE DEF p
  <2>3. \A r \in Reqs : r # "getAccount" /\ r # "authorize" /\ r # None
    BY <1>0, Apart DEF LoginSteps
  <2>4. "authorize" # None
    BY Apart DEF Asks, LoginSteps
  <2>5. CASE Sent(p, page', "authorize")
    BY <2>1, <2>2, <2>3, <2>5 DEF Sent, SlotSound
  <2>6. CASE Effect(p, page', "authorize", Failed)
    <3>1. page'.requestCallback \in {None, "getAccount"}
      BY <2>4, <2>6 DEF Effect
    <3>2. \A r \in Reqs : page'.runs[r] = page.runs[r]
      BY <2>2, <2>3, <2>6 DEF Effect
    <3> QED
      BY <2>1, <2>3, <3>1, <3>2 DEF SlotSound
  <2> QED
    BY <2>1, <2>5, <2>6 DEF Asked
<1>6. ASSUME NEW s \in Sockets, OnMessage(s) PROVE SlotSound'
  BY <1>6, MessageStep, HandledSlot
<1>7. ASSUME NEW s \in Sockets, NEW clean \in BOOLEAN, OnClose(s, clean) PROVE SlotSound'
  <2> DEFINE p == [page EXCEPT !.sock[s] = "closed"]
  <2>1. Handled(p, page', Failed) /\ UNCHANGED status
    BY <1>7, CloseStep
  <2>2. p.runs = page.runs /\ p.requestCallback = page.requestCallback
    BY <1>0 DEF Page
  <2> QED
    BY <2>1, <2>2, HandledSlot
<1>8. ASSUME NEW s \in Sockets, WalletAnswers(s) \/ WalletIsBusy(s) \/ PeerLeaves(s)
      PROVE  SlotSound'
  <2>1. Silent(page, page') /\ UNCHANGED status
    BY <1>8, AnswerStep, BusyStep, LeaveStep
  <2> QED
    BY <2>1 DEF Silent, SlotSound
<1>9. CASE UNCHANGED vars
  BY <1>9 DEF vars, SlotSound
<1> QED
  BY <1>1, <1>2, <1>3, <1>4, <1>5, <1>6, <1>7, <1>8, <1>9 DEF Next

\* However calls, answers, failures and sockets interleave, the callback a request leaves in
\* the one slot of the link runs at most once.
THEOREM CallbacksRunOnce == Spec => []CallbackOnce
<1>1. SlotSound => CallbackOnce
  BY DEF SlotSound, CallbackOnce
<1> QED
  BY <1>1, InitSlot, NextSlot, LegacyTypes, PTL DEF Spec

-----------------------------------------------------------------------------
(* The session belongs to the socket of today.                             *)

\* Only the current socket may be connecting or open, the ones to come are new, and an
\* answer comes over the socket it was given on.
OneSocket ==
    \A s \in Sockets :
        /\ s # page.socket => page.sock[s] \notin Usable
        /\ s > page.socket => page.sock[s] = "new"
        /\ \A i \in DOMAIN toClient[s] : toClient[s][i].on = s

\* What a turn of a handler leaves of the sockets.
LEMMA EndedSockets ==
  ASSUME TypeOK, OneSocket, NEW p, p.socket = page.socket, page'.socket = p.socket,
         SocketEnds(p, page'),
         \A s \in Sockets : \/ p.sock[s] = page.sock[s]
                            \/ s <= p.socket /\ p.sock[s] = "closed"
                            \/ s = p.socket /\ p.sock[s] = "open"
  PROVE  \A s \in Sockets :
            /\ s # page'.socket => page'.sock[s] \notin Usable
            /\ s > page'.socket => page'.sock[s] = "new"
<1>1. page.socket \in Nat /\ \A s \in Sockets : s \in Nat
  BY DEF TypeOK, Page, Sockets
<1> QED
  BY <1>1 DEF OneSocket, SocketEnds, Usable

LEMMA InitSocket == Init => OneSocket
<1> SUFFICES ASSUME Init PROVE OneSocket
  OBVIOUS
<1>1. \A s \in Sockets : page.sock[s] = "new" /\ toClient[s] = <<>>
  BY DEF Init
<1>2. DOMAIN <<>> = {}
  OBVIOUS
<1> QED
  BY <1>1, <1>2 DEF OneSocket, Usable

LEMMA NextSocket == TypeOK /\ OneSocket /\ [Next]_vars => OneSocket'
<1> SUFFICES ASSUME TypeOK, OneSocket, [Next]_vars PROVE OneSocket'
  OBVIOUS
<1>0. /\ page \in Page /\ page.socket \in Nat /\ \A s \in Sockets : s \in Nat
      /\ toClient \in [Sockets -> Seq(Answer)]
  BY DEF TypeOK, Page, Sockets
<1> DEFINE Names == \A s \in Sockets : \A i \in DOMAIN toClient'[s] : toClient'[s][i].on = s
           Ends == \A s \in Sockets :
                      /\ s # page'.socket => page'.sock[s] \notin Usable
                      /\ s > page'.socket => page'.sock[s] = "new"
<1>a. ASSUME Names, Ends PROVE OneSocket'
  BY <1>a DEF OneSocket
<1>b. ASSUME UNCHANGED toClient PROVE Names
  BY <1>b DEF OneSocket
<1>c. ASSUME page'.socket = page.socket, page'.sock = page.sock PROVE Ends
  BY <1>c DEF OneSocket
<1> HIDE DEF Names, Ends
<1>1. CASE Retry \/ \E l \in Logins : Login(l)
  <2>1. Connected(page, page') /\ UNCHANGED toClient
    BY <1>1, ConnectStep
  <2>2. Ends
    BY <1>0, <2>1 DEF Connected, OneSocket, Ends, Usable
  <2> QED
    BY <2>1, <2>2, <1>a, <1>b
<1>2. ASSUME NEW r \in Reqs, Call(r) \/ SignScript(r) PROVE OneSocket'
  <2>1. Requested(page, page', r) /\ UNCHANGED toClient
    BY <1>2, RequestStep
  <2>2. PICK e \in {page.onError, r} :
           LET u == [page EXCEPT !.onError = e]
           IN  Refused(u, page', r) \/ Asked(u, page', r)
    BY <2>1 DEF Requested
  <2> DEFINE u == [page EXCEPT !.onError = e]
  <2>3. u.socket = page.socket /\ u.sock = page.sock
    BY <1>0 DEF Page
  <2>4. page'.socket = u.socket /\ SocketEnds(u, page')
    <3>1. CASE Refused(u, page', r)
      BY <1>0, <3>1 DEF Refused, Page, SocketEnds
    <3>2. CASE Asked(u, page', r)
      BY <3>2 DEF Asked, Sent, Effect, SocketEnds
    <3> QED
      BY <2>2, <3>1, <3>2
  <2> HIDE DEF u
  <2>5. Ends
    BY <2>3, <2>4, EndedSockets DEF Ends
  <2> QED
    BY <2>1, <2>5, <1>a, <1>b
<1>3. ASSUME NEW r \in Reqs, EasyAction(r) PROVE OneSocket'
  BY <1>3 DEF EasyAction, OneSocket
<1>4. CASE AppDisconnect
  <2>1. /\ page'.socket = page.socket /\ SocketEnds(page, page') /\ UNCHANGED toClient
    BY <1>4, DisconnectStep DEF Silent
  <2>2. Ends
    BY <2>1, EndedSockets DEF Ends
  <2> QED
    BY <2>1, <2>2, <1>a, <1>b
<1>5. ASSUME NEW s \in Sockets, OnOpen(s) PROVE OneSocket'
  <2> DEFINE p == [page EXCEPT !.sock[s] = "open"]
  <2>1. Asked(p, page', "authorize") /\ UNCHANGED toClient /\ page.sock[s] = "connecting"
    BY <1>5, OpenStep
  <2>2. /\ p.socket = page.socket /\ s = page.socket
        /\ \A z \in Sockets : p.sock[z] = IF z = s THEN "open" ELSE page.sock[z]
    BY <1>0, <2>1 DEF Page, OneSocket, Usable
  <2> HIDE DEF p
  <2>3. page'.socket = p.socket /\ SocketEnds(p, page')
    BY <2>1 DEF Asked, Sent, Effect, SocketEnds
  <2>4. Ends
    BY <2>2, <2>3, EndedSockets DEF Ends
  <2> QED
    BY <2>1, <2>4, <1>a, <1>b
<1>6. ASSUME NEW s \in Sockets, OnMessage(s) PROVE OneSocket'
  <2>1. /\ Handled(page, page', Head(toClient[s])) /\ toClient[s] # <<>>
        /\ toClient' = [toClient EXCEPT ![s] = Tail(@)]
    BY <1>6, MessageStep
  <2>2. page'.socket = page.socket /\ SocketEnds(page, page')
    BY <2>1 DEF Handled, Effect
  <2>3. Ends
    BY <2>2, EndedSockets DEF Ends
  <2>4. Names
    <3>1. /\ Tail(toClient[s]) \in Seq(Answer)
          /\ \A j \in DOMAIN Tail(toClient[s]) :
               \E k \in DOMAIN toClient[s] : Tail(toClient[s])[j] = toClient[s][k]
      BY <1>0, <2>1, TailElements
    <3> QED
      BY <1>0, <2>1, <3>1 DEF OneSocket, Names
  <2> QED
    BY <2>3, <2>4, <1>a
<1>7. ASSUME NEW s \in Sockets, NEW clean \in BOOLEAN, OnClose(s, clean) PROVE OneSocket'
  <2> DEFINE p == [page EXCEPT !.sock[s] = "closed"]
  <2>1. /\ Handled(p, page', Failed) /\ toClient' = [toClient EXCEPT ![s] = <<>>]
        /\ page.sock[s] \in {"closing", "aborted", "gone"}
    BY <1>7, CloseStep
  <2>2. /\ p.socket = page.socket /\ s <= page.socket
        /\ \A z \in Sockets : p.sock[z] = IF z = s THEN "closed" ELSE page.sock[z]
    <3>1. ~(s > page.socket)
      BY <2>1 DEF OneSocket
    <3>2. s <= page.socket
      BY <1>0, <3>1
    <3> QED
      BY <1>0, <3>2 DEF Page
  <2> HIDE DEF p
  <2>3. page'.socket = p.socket /\ SocketEnds(p, page')
    BY <2>1 DEF Handled, Effect
  <2>4. Ends
    BY <2>2, <2>3, EndedSockets DEF Ends
  <2>5. DOMAIN <<>> = {}
    OBVIOUS
  <2>6. Names
    BY <1>0, <2>1, <2>5 DEF OneSocket, Names
  <2> QED
    BY <2>4, <2>6, <1>a
<1>8. ASSUME NEW s \in Sockets, WalletAnswers(s) \/ WalletIsBusy(s) PROVE OneSocket'
  <2>1. page'.socket = page.socket /\ page'.sock = page.sock
    BY <1>8, AnswerStep, BusyStep DEF Silent
  <2>2. PICK a \in Answer : a.on = s /\ toClient' = [toClient EXCEPT ![s] = Append(@, a)]
    <3>1. CASE WalletAnswers(s)
      BY <3>1, AnswerStep, ZenonT(30)
    <3>2. CASE WalletIsBusy(s)
      BY <3>2, BusyStep
    <3> QED
      BY <1>8, <3>1, <3>2
  <2>3. \A j \in DOMAIN Append(toClient[s], a) : Append(toClient[s], a)[j].on = s
    <3>1. \A j \in DOMAIN Append(toClient[s], a) :
             \/ Append(toClient[s], a)[j] = a
             \/ \E k \in DOMAIN toClient[s] : Append(toClient[s], a)[j] = toClient[s][k]
      BY <1>0, AppendElements
    <3> QED
      BY <2>2, <3>1 DEF OneSocket
  <2>4. Names
    BY <1>0, <2>2, <2>3 DEF OneSocket, Names
  <2> QED
    BY <2>1, <2>4, <1>a, <1>c
<1>9. ASSUME NEW s \in Sockets, PeerLeaves(s) PROVE OneSocket'
  <2>1. /\ page'.socket = page.socket /\ page.sock[s] \in {"connecting", "open"}
        /\ page'.sock = [page.sock EXCEPT ![s] = IF @ = "open" THEN "gone" ELSE "aborted"]
    BY <1>9, LeaveStep DEF Silent
  <2>2. PICK n \in 0..Len(toClient[s]) :
           toClient' = [toClient EXCEPT ![s] = SubSeq(@, 1, n)]
    BY <1>9, LeaveStep
  <2>3. Ends
    BY <1>0, <2>1 DEF OneSocket, Ends, Page, Usable
  <2>4. \A j \in DOMAIN SubSeq(toClient[s], 1, n) :
           j \in DOMAIN toClient[s] /\ SubSeq(toClient[s], 1, n)[j] = toClient[s][j]
    BY <1>0, PrefixElements
  <2>5. Names
    BY <1>0, <2>2, <2>4 DEF OneSocket, Names
  <2> QED
    BY <2>3, <2>5, <1>a
<1>10. CASE UNCHANGED vars
  BY <1>10 DEF vars, OneSocket
<1> QED
  BY <1>1, <1>2, <1>3, <1>4, <1>5, <1>6, <1>7, <1>8, <1>9, <1>10 DEF Next

\* An application that uses fetchWallet asks only once it has an account.  The answer of
\* fetchWallet names an account, whether or not there is a token for it.
AccountsAskedFor == "fetchWallet" \in Methods => \A c \in Cares : "asks" \in c

\* What makes an answer that names an account one of this connection.
SessionSound ==
    /\ SessionOfThisSocket
    /\ page.requestCallback = "getAccount" => page.token = page.socket
    /\ \A r \in Reqs :
         /\ page.requestCallback = r /\ method[r] = "fetchWallet" => page.account # 0
         /\ status[r] = "building" => method[r] = "signTx"
    /\ care \in Cares

LEMMA HandledSession ==
  ASSUME TypeOK, SessionSound, NEW p, NEW a,
         p.requestCallback = page.requestCallback, p.socket = page.socket,
         p.token = page.token, p.account = page.account,
         a.kind # "fail" => a.on = page.socket,
         Handled(p, page', a), UNCHANGED <<status, method, care>>
  PROVE  SessionSound'
<1>1. \A r \in Reqs : r # None /\ r # "getAccount" /\ r # "authorize"
  BY Apart DEF LoginSteps, Asks
<1>2. None # "getAccount" /\ None # "authorize"
  BY Apart DEF LoginSteps, Asks
<1>3. PICK x \in {None, page.requestCallback} :
         Effect(p, page', x, a)
  BY DEF Handled
<1>4. /\ page'.socket = page.socket
      /\ page'.requestCallback \in {page.requestCallback, None, "getAccount"}
      /\ \/ page'.requestCallback = IF x = None THEN page.requestCallback ELSE None
         \/ page'.requestCallback = "getAccount" /\ page'.token = page.socket
      /\ page'.token = page.token \/ page'.token = page.socket
      /\ \/ page'.account = page.account
         \/ /\ page'.account = page.socket
            /\ x = "getAccount" \/ (x \in Reqs /\ method[x] = "fetchWallet")
  BY <1>3 DEF Effect
<1>5. x = "authorize" \/ page'.token = page.token
  BY <1>3 DEF Effect
<1>6. CASE x = None
  BY <1>1, <1>2, <1>3, <1>4, <1>5, <1>6 DEF SessionSound, SessionOfThisSocket
<1>7. CASE x = page.requestCallback /\ x # None
  <2>1. page'.requestCallback \in {None, "getAccount"}
    BY <1>4, <1>7
  <2>2. page'.requestCallback = "getAccount" => page'.token = page'.socket
    BY <1>2, <1>4, <1>7
  <2>3. page'.token \in {0, page'.socket}
    BY <1>4 DEF SessionSound, SessionOfThisSocket
  <2>4. page'.account \in {0, page'.token}
    BY <1>1, <1>4, <1>5, <1>7 DEF SessionSound, SessionOfThisSocket
  <2> QED
    BY <1>1, <1>2, <2>1, <2>2, <2>3, <2>4 DEF SessionSound, SessionOfThisSocket
<1> QED
  BY <1>3, <1>6, <1>7

LEMMA RequestedSession ==
  ASSUME AccountsAskedFor, TypeOK, SessionSound, NEW r \in Reqs, Call(r) \/ SignScript(r)
  PROVE  SessionSound'
<1>1. \A q \in Reqs : q # None /\ q # "getAccount" /\ q # "authorize"
  BY Apart DEF LoginSteps, Asks
<1>2. /\ Requested(page, page', r) /\ UNCHANGED <<method, care>>
      /\ status' = [status EXCEPT ![r] = "called"]
  BY RequestStep
<1>3. method[r] = "fetchWallet" => page.account # 0
  <2>1. CASE Call(r)
    BY <2>1 DEF Call, MayAsk, SessionSound, AccountsAskedFor, TypeOK
  <2>2. CASE SignScript(r)
    BY <2>2 DEF SignScript, SessionSound
  <2> QED
    BY <2>1, <2>2
<1>4. \A q \in Reqs : status'[q] = "building" => status[q] = "building"
  BY <1>2 DEF TypeOK, Callers
<1>5. PICK e \in {page.onError, r} :
         LET u == [page EXCEPT !.onError = e] IN Refused(u, page', r) \/ Asked(u, page', r)
  BY <1>2 DEF Requested
<1> DEFINE u == [page EXCEPT !.onError = e]
<1>6. /\ u.requestCallback = page.requestCallback /\ u.socket = page.socket
      /\ u.token = page.token /\ u.account = page.account
  BY DEF TypeOK, Page
<1>7. /\ page'.requestCallback \in {page.requestCallback, r, None}
      /\ page'.socket = page.socket /\ page'.token = page.token
      /\ page'.account = page.account
  <2>1. CASE Refused(u, page', r)
    BY <2>1 DEF Refused, TypeOK, Page
  <2>2. CASE Sent(u, page', r)
    BY <1>6, <2>2 DEF Sent
  <2>3. CASE Effect(u, page', r, Failed)
    BY <1>1, <1>6, <2>3, FailedAnswer DEF Effect
  <2> QED
    BY <1>5, <2>1, <2>2, <2>3 DEF Asked
<1> QED
  BY <1>1, <1>2, <1>3, <1>4, <1>7, Apart DEF SessionSound, SessionOfThisSocket, Asks, LoginSteps

LEMMA InitSession == Init => SessionSound
<1> SUFFICES ASSUME Init PROVE SessionSound
  OBVIOUS
<1>1. /\ page.requestCallback = None /\ page.token = 0 /\ page.account = 0
      /\ care \in Cares
      /\ \A r \in Reqs : status[r] = "idle"
  BY DEF Init, Callers
<1>2. None # "getAccount" /\ \A r \in Reqs : r # None
  BY Apart DEF LoginSteps, Asks
<1> QED
  BY <1>1, <1>2 DEF SessionSound, SessionOfThisSocket

LEMMA NextSession ==
  AccountsAskedFor /\ TypeOK /\ OneSocket /\ SessionSound /\ [Next]_vars => SessionSound'
<1> SUFFICES ASSUME AccountsAskedFor, TypeOK, OneSocket, SessionSound, [Next]_vars
             PROVE  SessionSound'
  OBVIOUS
<1>0. /\ page \in Page /\ None # "getAccount" /\ None # "authorize"
      /\ \A r \in Reqs : r # None /\ r # "getAccount" /\ r # "authorize"
  BY Apart DEF TypeOK, Asks, LoginSteps
<1>1. CASE Retry \/ \E l \in Logins : Login(l)
  <2>1. /\ Connected(page, page') /\ UNCHANGED <<method, care>>
        /\ \A r \in Reqs : status'[r] = status[r]
    BY <1>1, ConnectStep
  <2> QED
    BY <1>0, <2>1 DEF Connected, SessionSound, SessionOfThisSocket
<1>2. ASSUME NEW r \in Reqs, Call(r) \/ SignScript(r) PROVE SessionSound'
  BY <1>2, RequestedSession
<1>3. ASSUME NEW r \in Reqs, EasyAction(r) PROVE SessionSound'
  <2>1. /\ method[r] = "signTx" /\ UNCHANGED <<page, method, care>>
        /\ \A q \in Reqs : status'[q] = IF q = r THEN "building" ELSE status[q]
    BY <1>3 DEF EasyAction, config, TypeOK, Callers
  <2> QED
    BY <2>1 DEF SessionSound, SessionOfThisSocket
<1>4. ASSUME Silent(page, page'), UNCHANGED <<status, method, care>> PROVE SessionSound'
  BY <1>4 DEF Silent, SessionSound, SessionOfThisSocket
<1>5. ASSUME NEW s \in Sockets, OnOpen(s) PROVE SessionSound'
  <2> DEFINE p == [page EXCEPT !.sock[s] = "open"]
  <2>1. Asked(p, page', "authorize") /\ UNCHANGED <<status, method, care>>
    BY <1>5, OpenStep
  <2>2. /\ p.socket = page.socket /\ p.token = page.token /\ p.account = page.account
    BY <1>0 DEF Page
  <2> HIDE DEF p
  <2>3. /\ page'.requestCallback \in {"authorize", None} /\ page'.socket = page.socket
        /\ page'.token = page.token /\ page'.account = page.account
    <3>1. CASE Sent(p, page', "authorize")
      BY <2>2, <3>1 DEF Sent
    <3>2. CASE Effect(p, page', "authorize", Failed)
      BY <1>0, <2>2, <3>2, FailedAnswer DEF Effect
    <3> QED
      BY <2>1, <3>1, <3>2 DEF Asked
  <2> QED
    BY <1>0, <2>1, <2>3 DEF SessionSound, SessionOfThisSocket
<1>6. ASSUME NEW s \in Sockets, OnMessage(s) PROVE SessionSound'
  <2> DEFINE a == Head(toClient[s])
  <2>1. /\ page.sock[s] \in Usable /\ toClient[s] # <<>>
        /\ Handled(page, page', a) /\ UNCHANGED <<status, method, care>>
    BY <1>6, MessageStep DEF Usable
  <2>2. toClient[s] \in Seq(Answer)
    BY DEF TypeOK
  <2>3. 1 \in DOMAIN toClient[s] /\ a = toClient[s][1]
    BY <2>1, <2>2, TailElements
  <2>4. s = page.socket /\ a.on = page.socket
    BY <2>1, <2>3 DEF OneSocket
  <2> HIDE DEF a
  <2> QED
    BY <2>1, <2>4, HandledSession
<1>7. ASSUME NEW s \in Sockets, NEW clean \in BOOLEAN, OnClose(s, clean) PROVE SessionSound'
  <2> DEFINE p == [page EXCEPT !.sock[s] = "closed"]
  <2>1. Handled(p, page', Failed) /\ UNCHANGED <<status, method, care>>
    BY <1>7, CloseStep
  <2>2. /\ p.requestCallback = page.requestCallback /\ p.socket = page.socket
        /\ p.token = page.token /\ p.account = page.account
    BY <1>0 DEF Page
  <2> HIDE DEF p
  <2> QED
    BY <2>1, <2>2, FailedAnswer, HandledSession
<1>8. CASE AppDisconnect \/ \E s \in Sockets : WalletAnswers(s) \/ WalletIsBusy(s) \/ PeerLeaves(s)
  BY <1>4, <1>8, DisconnectStep, AnswerStep, BusyStep, LeaveStep
<1>9. CASE UNCHANGED vars
  BY <1>9 DEF vars, SessionSound, SessionOfThisSocket
<1> QED
  BY <1>1, <1>2, <1>3, <1>5, <1>6, <1>7, <1>8, <1>9 DEF Next

\* The token and the account a link holds were given on the connection it has now, however
\* late the handlers of older sockets run.
THEOREM SessionsAreOfToday ==
  ASSUME AccountsAskedFor
  PROVE  Spec => []SessionOfThisSocket
<1>1. SessionSound => SessionOfThisSocket
  BY DEF SessionSound
<1>2. Init => SessionSound /\ OneSocket
  BY InitSession, InitSocket
<1>3. TypeOK /\ OneSocket /\ SessionSound /\ [Next]_vars => OneSocket' /\ SessionSound'
  BY NextSocket, NextSession
<1> QED
  BY <1>1, <1>2, <1>3, LegacyTypes, PTL DEF Spec

-----------------------------------------------------------------------------
(* Careful applications get the answers to their own requests.             *)

\* A request that is not made yet has heard nothing and is no one's error callback.
Unasked ==
    \A r \in Reqs : status[r] # "called" => page.heard[r] = {} /\ page.onError # r

LEMMA HandledUnasked ==
  ASSUME TypeOK, SlotSound, Unasked, NEW p, NEW a,
         p.requestCallback = page.requestCallback, p.onError = page.onError,
         p.heard = page.heard, Handled(p, page', a), UNCHANGED status
  PROVE  Unasked'
<1>1. \A r \in Reqs : r # None
  BY Apart DEF Asks
<1>2. /\ page'.onError = page.onError
      /\ \A r \in Reqs : /\ r # page.requestCallback
                         /\ r # page.onError
                         => page'.heard[r] = page.heard[r]
  BY <1>1 DEF Handled, Effect
<1> QED
  BY <1>2 DEF Unasked, SlotSound

LEMMA InitUnasked == Init => Unasked
<1> SUFFICES ASSUME Init PROVE Unasked
  OBVIOUS
<1>1. \A r \in Reqs : page.heard[r] = {} /\ page.onError = None /\ r # None
  BY Apart DEF Init, Asks, Callers
<1> QED
  BY <1>1 DEF Unasked

LEMMA NextUnasked == TypeOK /\ SlotSound /\ Unasked /\ [Next]_vars => Unasked'
<1> SUFFICES ASSUME TypeOK, SlotSound, Unasked, [Next]_vars PROVE Unasked'
  OBVIOUS
<1>0. /\ page \in Page
      /\ \A r \in Reqs : r \in Callers /\ r # None /\ r # "authorize" /\ r \notin Logins
  BY Apart DEF TypeOK, Asks, LoginSteps, Callers
<1>1. CASE Retry \/ \E l \in Logins : Login(l)
  <2>1. Connected(page, page') /\ \A r \in Reqs : status'[r] = status[r]
    BY <1>1, ConnectStep
  <2> QED
    BY <1>0, <2>1 DEF Connected, Unasked
<1>2. ASSUME NEW r \in Reqs, Call(r) \/ SignScript(r) PROVE Unasked'
  <2>1. Requested(page, page', r) /\ status' = [status EXCEPT ![r] = "called"]
    BY <1>2, RequestStep
  <2>2. \A q \in Reqs : status'[q] = IF q = r THEN "called" ELSE status[q]
    BY <1>0, <2>1 DEF TypeOK
  <2>3. PICK e \in {page.onError, r} :
           LET u == [page EXCEPT !.onError = e]
           IN  Refused(u, page', r) \/ Asked(u, page', r)
    BY <2>1 DEF Requested
  <2> DEFINE u == [page EXCEPT !.onError = e]
  <2>4. u.heard = page.heard /\ u.onError = e
    BY <1>0 DEF Page
  <2>5. /\ page'.onError = e
        /\ \A q \in Reqs : q # r /\ q # e => page'.heard[q] = page.heard[q]
    <3>1. CASE Refused(u, page', r)
      <4>1. page'.onError = u.onError
        BY <1>0, <3>1 DEF Refused, Page
      <4> QED
        BY <1>0, <2>4, <3>1, <4>1 DEF Refused
    <3>2. CASE Asked(u, page', r)
      BY <2>4, <3>2 DEF Asked, Sent, Effect
    <3> QED
      BY <2>3, <3>1, <3>2
  <2> QED
    BY <2>2, <2>5 DEF Unasked
<1>3. ASSUME NEW r \in Reqs, EasyAction(r) PROVE Unasked'
  <2>1. /\ status[r] = "idle" /\ UNCHANGED page
        /\ \A q \in Reqs : status'[q] = IF q = r THEN "building" ELSE status[q]
    BY <1>0, <1>3 DEF EasyAction, TypeOK
  <2> QED
    BY <2>1 DEF Unasked
<1>4. ASSUME Silent(page, page'), UNCHANGED status PROVE Unasked'
  BY <1>4 DEF Silent, Unasked
<1>5. ASSUME NEW s \in Sockets, OnOpen(s) PROVE Unasked'
  <2> DEFINE p == [page EXCEPT !.sock[s] = "open"]
  <2>1. Asked(p, page', "authorize") /\ UNCHANGED status
    BY <1>5, OpenStep
  <2>2. p.heard = page.heard /\ p.onError = page.onError
    BY <1>0 DEF Page
  <2> HIDE DEF p
  <2>3. /\ page'.onError = page.onError
        /\ \A r \in Reqs : r # page.onError => page'.heard[r] = page.heard[r]
    BY <1>0, <2>1, <2>2 DEF Asked, Sent, Effect
  <2> QED
    BY <2>1, <2>3 DEF Unasked
<1>6. ASSUME NEW s \in Sockets, OnMessage(s) PROVE Unasked'
  BY <1>6, MessageStep, HandledUnasked
<1>7. ASSUME NEW s \in Sockets, NEW clean \in BOOLEAN, OnClose(s, clean) PROVE Unasked'
  <2> DEFINE p == [page EXCEPT !.sock[s] = "closed"]
  <2>1. Handled(p, page', Failed) /\ UNCHANGED status
    BY <1>7, CloseStep
  <2>2. /\ p.heard = page.heard /\ p.onError = page.onError
        /\ p.requestCallback = page.requestCallback
    BY <1>0 DEF Page
  <2> HIDE DEF p
  <2> QED
    BY <2>1, <2>2, HandledUnasked
<1>8. CASE AppDisconnect \/ \E s \in Sockets : WalletAnswers(s) \/ WalletIsBusy(s) \/ PeerLeaves(s)
  BY <1>4, <1>8, DisconnectStep, AnswerStep, BusyStep, LeaveStep
<1>9. CASE UNCHANGED vars
  BY <1>9 DEF vars, Unasked
<1> QED
  BY <1>1, <1>2, <1>3, <1>5, <1>6, <1>7, <1>8, <1>9 DEF Next

\* Nothing is under way on a socket.
Quiet(s) == page.toWallet[s] = <<>> /\ toClient[s] = <<>>

\* The callback in the slot has heard nothing, or is one of a login that has no account yet.
Awaited ==
    /\ page.requestCallback # None
    /\ page.requestCallback \in Reqs => page.heard[page.requestCallback] = {}
    /\ page.requestCallback \in LoginSteps => page.account = 0

\* One thing is under way, and it is what the slot waits for or its answer.
UnderWay(s) ==
    \/ /\ Len(page.toWallet[s]) = 1 /\ page.toWallet[s][1] = page.requestCallback
       /\ toClient[s] = <<>>
    \/ /\ page.toWallet[s] = <<>>
       /\ Len(toClient[s]) = 1 /\ toClient[s][1].of = page.requestCallback

Wire(s) ==
    /\ page.sock[s] \in {"new", "connecting"} => Quiet(s)
    /\ page.sock[s] \in {"open", "gone"} => Quiet(s) \/ (Awaited /\ UnderWay(s))
    /\ s # page.socket => page.sock[s] \in {"new", "closed"}
    /\ page.sock[s] = "connecting" => page.account = 0

WireSound == \A s \in Sockets : Wire(s)

\* A script is awaited for one request at a time, and meanwhile nothing is asked.
BuildingSound ==
    \A r \in Reqs : status[r] = "building" =>
        /\ page.account # 0
        /\ \A q \in Reqs : status[q] = "building" => q = r
        /\ \A s \in Sockets : page.sock[s] \in {"open", "gone"} => Quiet(s)

Matching == \A r \in Reqs : page.answer[r] \in {None, r}

CarefulSound == WireSound /\ BuildingSound /\ Matching

\* Careful applications ask when nothing is under way and no script is awaited.
LEMMA ClearToAsk ==
  ASSUME TypeOK, SlotSound, Unasked, WireSound, AllHeard, page.account # 0
  PROVE  /\ \A s \in Sockets : page.sock[s] \in {"open", "gone"} => Quiet(s)
         /\ \A r \in Reqs : status[r] # "building"
<1>1. \A r \in Reqs : status[r] # "building"
  BY DEF AllHeard, Unasked, Callers
<1>2. ~Awaited
  <2>1. page.requestCallback \in Asks \cup {None}
    BY DEF TypeOK, Page
  <2>2. ASSUME page.requestCallback \in Reqs PROVE page.heard[page.requestCallback] # {}
    BY <2>2 DEF SlotSound, AllHeard, Callers
  <2> QED
    BY <2>1, <2>2 DEF Awaited, Asks
<1> QED
  BY <1>1, <1>2 DEF WireSound, Wire

LEMMA SingletonSequences ==
  ASSUME NEW S, NEW e \in S
  PROVE  /\ Append(<<>>, e) \in Seq(S) /\ Len(Append(<<>>, e)) = 1
         /\ Append(<<>>, e)[1] = e /\ Append(<<>>, e) # <<>>
         /\ \A q \in Seq(S) : Len(q) = 1 => q # <<>> /\ Tail(q) = <<>> /\ Head(q) = q[1]
<1>1. <<>> \in Seq(S) /\ Len(<<>>) = 0
  BY EmptySeq
<1>2. /\ Append(<<>>, e) \in Seq(S) /\ Len(Append(<<>>, e)) = 1 /\ Append(<<>>, e)[1] = e
  BY <1>1, AppendProperties
<1>3. ASSUME NEW q \in Seq(S), Len(q) = 1
      PROVE  q # <<>> /\ Tail(q) = <<>> /\ Head(q) = q[1]
  <2>1. q # <<>>
    BY <1>1, <1>3
  <2>2. Tail(q) \in Seq(S) /\ Len(Tail(q)) = 0
    BY <1>3, <2>1, HeadTailProperties
  <2>3. Tail(q) = <<>>
    BY <2>2, EmptySeq
  <2> QED
    BY <2>1, <2>3, TailElements
<1> QED
  BY <1>1, <1>2, <1>3

\* A request made when nothing is under way is the one thing under way.
LEMMA RequestedMatch ==
  ASSUME TypeOK, SlotSound, Unasked, CarefulSound, NEW r \in Reqs, status[r] # "called",
         page.account # 0,
         \A s \in Sockets : page.sock[s] \in {"open", "gone"} => Quiet(s),
         \A q \in Reqs : status[q] = "building" => q = r,
         Call(r) \/ SignScript(r)
  PROVE  CarefulSound'
<1>0. /\ page \in Page /\ toClient \in [Sockets -> Seq(Answer)]
      /\ r # None /\ r # "authorize" /\ r \notin LoginSteps /\ r \in Asks
      /\ page.heard[r] = {}
  BY Apart DEF TypeOK, Asks, LoginSteps, Unasked
<1>1. /\ Requested(page, page', r) /\ UNCHANGED toClient
      /\ \A q \in Reqs : status'[q] = IF q = r THEN "called" ELSE status[q]
  BY RequestStep DEF TypeOK, Callers
<1>2. PICK e \in {page.onError, r} :
         LET u == [page EXCEPT !.onError = e] IN Refused(u, page', r) \/ Asked(u, page', r)
  BY <1>1 DEF Requested
<1> DEFINE u == [page EXCEPT !.onError = e]
<1>3. /\ u.requestCallback = page.requestCallback /\ u.socket = page.socket
      /\ u.account = page.account /\ u.sock = page.sock /\ u.toWallet = page.toWallet
      /\ u.heard = page.heard /\ u.answer = page.answer
  BY <1>0 DEF Page
<1>4. /\ page'.socket = page.socket /\ page'.account = page.account
      /\ SocketEnds(page, page') /\ Matching'
  <2>1. CASE Refused(u, page', r)
    BY <1>0, <1>3, <2>1 DEF Refused, Page, SocketEnds, CarefulSound, Matching
  <2>2. CASE Sent(u, page', r)
    BY <1>3, <2>2 DEF Sent, SocketEnds, CarefulSound, Matching
  <2>3. CASE Effect(u, page', r, Failed)
    BY <1>3, <2>3, FailedAnswer DEF Effect, SocketEnds, CarefulSound, Matching
  <2> QED
    BY <1>2, <2>1, <2>2, <2>3 DEF Asked
<1>5. BuildingSound'
  BY <1>1 DEF BuildingSound
<1>6. CASE page'.toWallet = page.toWallet
  <2>1. \A s \in Sockets : Quiet(s) => Quiet(s)'
    BY <1>1, <1>6 DEF Quiet
  <2>2. WireSound'
    <3> SUFFICES ASSUME NEW s \in Sockets PROVE Wire(s)'
      BY DEF WireSound
    <3> USE DEF Wire
    <3>1. \/ page'.sock[s] = page.sock[s]
          \/ s = page.socket /\ page'.sock[s] \in {"closing", "aborted"}
      BY <1>4 DEF SocketEnds
    <3> QED
      BY <1>4, <2>1, <3>1 DEF CarefulSound, WireSound, Wire
  <2> QED
    BY <1>4, <1>5, <2>2 DEF CarefulSound
<1>7. CASE page'.toWallet # page.toWallet
  <2>1. Sent(u, page', r)
    <3>1. ~Refused(u, page', r)
      BY <1>0, <1>3, <1>7 DEF Refused, Page
    <3>2. ~Effect(u, page', r, Failed)
      BY <1>0, <1>3, <1>7, FailedAnswer DEF Effect
    <3> QED
      BY <1>2, <3>1, <3>2 DEF Asked
  <2>a. page.socket \in Sockets
    BY <1>0, <1>3, <2>1 DEF Sent, Page, Sockets
  <2>b. PICK n \in Sockets : n = page.socket
    BY <2>a
  <2>2. /\ page.sock[n] = "open" /\ page'.sock = page.sock
        /\ page'.requestCallback = r /\ page'.heard = page.heard
        /\ page'.toWallet = [page.toWallet EXCEPT ![n] = Append(@, r)]
    BY <1>3, <1>7, <2>1, <2>b DEF Sent
  <2>3. page.toWallet[n] = <<>> /\ toClient[n] = <<>>
    BY <2>2 DEF Quiet
  <2>4. page.toWallet \in [Sockets -> Seq(Asks)]
    BY <1>0 DEF Page
  <2>5. page'.toWallet[n] = Append(<<>>, r)
    BY <2>2, <2>3, <2>4
  <2>6. Awaited' /\ UnderWay(n)'
    <3>1. Len(page'.toWallet[n]) = 1 /\ page'.toWallet[n][1] = r
      BY <1>0, <2>5, SingletonSequences
    <3>2. toClient'[n] = <<>>
      BY <1>1, <2>3
    <3>3. page'.heard[r] = {}
      BY <1>0, <2>2
    <3> QED
      BY <1>0, <2>2, <3>1, <3>2, <3>3 DEF Awaited, UnderWay
  <2>7. \A s \in Sockets : s # n => (Quiet(s) => Quiet(s)')
    BY <1>1, <2>2, <2>4 DEF Quiet
  <2>8. WireSound'
    <3> SUFFICES ASSUME NEW s \in Sockets PROVE Wire(s)'
      BY DEF WireSound
    <3> USE DEF Wire
    <3>1. CASE s = n
      BY <1>4, <2>2, <2>6, <2>b, <3>1
    <3>2. CASE s # n
      BY <1>4, <2>2, <2>7, <2>b, <3>2 DEF CarefulSound, WireSound, Wire
    <3> QED
      BY <3>1, <3>2
  <2> QED
    BY <1>4, <1>5, <2>8 DEF CarefulSound
<1> QED
  BY <1>6, <1>7

\* An answer goes to the callback that waits for it.
LEMMA MessageMatch ==
  ASSUME TypeOK, CarefulSound, NEW s \in Sockets, OnMessage(s)
  PROVE  CarefulSound'
<1> DEFINE a == Head(toClient[s])
           slot == page.requestCallback
<1>0. /\ page \in Page /\ toClient \in [Sockets -> Seq(Answer)]
      /\ page.toWallet \in [Sockets -> Seq(Asks)]
      /\ \A r \in Reqs : r # None /\ r # "authorize" /\ r # "getAccount"
      /\ "authorize" \in LoginSteps /\ "getAccount" \in LoginSteps
      /\ "getAccount" \in Asks /\ "getAccount" # None /\ "getAccount" \notin Reqs
      /\ "authorize" # None
  BY Apart DEF TypeOK, Page, Asks, LoginSteps
<1>1. /\ page.sock[s] \in {"open", "gone"} /\ toClient[s] # <<>>
      /\ Handled(page, page', a) /\ a \in Answer
      /\ toClient' = [toClient EXCEPT ![s] = Tail(@)]
      /\ UNCHANGED <<status, method, care>>
  BY MessageStep
<1>2. /\ s = page.socket /\ Awaited /\ page.toWallet[s] = <<>>
      /\ Len(toClient[s]) = 1 /\ toClient[s][1].of = slot
  BY <1>1 DEF CarefulSound, WireSound, Wire, Quiet, UnderWay
<1>3. Tail(toClient[s]) = <<>> /\ a = toClient[s][1]
  BY <1>0, <1>1, <1>2, SingletonSequences
<1>4. a.of = slot
  BY <1>2, <1>3
<1>5. toClient'[s] = <<>> /\ \A z \in Sockets : z # s => toClient'[z] = toClient[z]
  BY <1>0, <1>1, <1>3
<1> HIDE DEF a
<1>6. PICK x \in {None, slot} : Effect(page, page', x, a)
  BY <1>1 DEF Handled
<1>7. page'.socket = page.socket /\ SocketEnds(page, page')
  BY <1>6 DEF Effect
<1>8. \A r \in Reqs : status[r] # "building"
  BY <1>1 DEF CarefulSound, BuildingSound, Quiet
<1>9. BuildingSound' /\ Matching'
  <2>1. BuildingSound'
    BY <1>1, <1>8 DEF BuildingSound
  <2>2. Matching'
    BY <1>0, <1>4, <1>6 DEF Effect, CarefulSound, Matching
  <2> QED
    BY <2>1, <2>2
<1>10. \A z \in Sockets : z # s =>
         /\ page.sock[z] \in {"new", "closed"} /\ page'.sock[z] = page.sock[z]
         /\ page'.toWallet[z] = page.toWallet[z]
  BY <1>0, <1>2, <1>6, <1>7 DEF CarefulSound, WireSound, Wire, SocketEnds, Effect
<1>11. Quiet(s)' \/ (Awaited' /\ UnderWay(s)')
  <2>1. CASE page'.toWallet = page.toWallet
    BY <1>2, <1>5, <2>1 DEF Quiet
  <2>2. CASE page'.toWallet # page.toWallet
    <3>1. /\ x = "authorize" /\ page'.requestCallback = "getAccount"
          /\ page'.account = page.account
          /\ page'.toWallet = [page.toWallet EXCEPT ![s] = Append(@, "getAccount")]
      BY <1>2, <1>6, <2>2 DEF Effect
    <3>2. page'.toWallet[s] = Append(<<>>, "getAccount")
      BY <1>0, <1>2, <3>1
    <3>3. slot = "authorize" /\ page.account = 0
      BY <1>0, <1>2, <1>6, <3>1 DEF Awaited
    <3> QED
      BY <1>0, <1>5, <3>1, <3>2, <3>3, SingletonSequences, ZenonT(30) DEF Awaited, UnderWay
  <2> QED
    BY <2>1, <2>2
<1>12. WireSound'
  <2> SUFFICES ASSUME NEW z \in Sockets PROVE Wire(z)'
    BY DEF WireSound
  <2> USE DEF Wire
  <2>1. CASE z = s
    <3>1. page'.sock[s] \in {"open", "gone", "closing", "aborted"}
      BY <1>1, <1>7 DEF SocketEnds
    <3> QED
      BY <1>2, <1>7, <1>11, <2>1, <3>1
  <2>2. CASE z # s
    <3>1. Quiet(z) => Quiet(z)'
      BY <1>5, <1>10, <2>2 DEF Quiet
    <3> QED
      BY <1>10, <2>2, <3>1 DEF CarefulSound, WireSound, Wire
  <2> QED
    BY <2>1, <2>2
<1> QED
  BY <1>9, <1>12 DEF CarefulSound

\* A connection that ends takes with it whatever was under way.
LEMMA CloseMatch ==
  ASSUME TypeOK, CarefulSound, NEW s \in Sockets, NEW clean \in BOOLEAN, OnClose(s, clean)
  PROVE  CarefulSound'
<1> DEFINE p == [page EXCEPT !.sock[s] = "closed"]
<1>0. /\ page \in Page /\ toClient \in [Sockets -> Seq(Answer)]
      /\ \A r \in Reqs : r # None
  BY Apart DEF TypeOK, Asks
<1>1. /\ page.sock[s] \in {"closing", "aborted", "gone"}
      /\ Handled(p, page', Failed) /\ toClient' = [toClient EXCEPT ![s] = <<>>]
      /\ UNCHANGED <<status, method, care>>
  BY CloseStep
<1>2. /\ p.requestCallback = page.requestCallback /\ p.socket = page.socket
      /\ p.account = page.account /\ p.toWallet = page.toWallet /\ p.answer = page.answer
      /\ \A z \in Sockets : p.sock[z] = IF z = s THEN "closed" ELSE page.sock[z]
  BY <1>0 DEF Page
<1>3. s = page.socket
  BY <1>1 DEF CarefulSound, WireSound, Wire
<1> HIDE DEF p
<1>4. PICK x \in {None, p.requestCallback} : Effect(p, page', x, Failed)
  BY <1>1 DEF Handled
<1>5. /\ page'.socket = page.socket /\ page'.account = page.account
      /\ page'.toWallet = page.toWallet /\ SocketEnds(p, page') /\ Matching'
  BY <1>0, <1>2, <1>4, FailedAnswer DEF Effect, CarefulSound, Matching
<1>6. \A z \in Sockets :
        /\ z = s => page'.sock[z] = "closed"
        /\ z # s => page'.sock[z] = page.sock[z] /\ page.sock[z] \in {"new", "closed"}
                    /\ toClient'[z] = toClient[z]
  BY <1>0, <1>1, <1>2, <1>3, <1>5 DEF SocketEnds, CarefulSound, WireSound, Wire, Usable
<1>7. WireSound'
  BY <1>3, <1>5, <1>6 DEF CarefulSound, WireSound, Wire, Quiet
<1>8. BuildingSound'
  BY <1>1, <1>5, <1>6 DEF CarefulSound, BuildingSound
<1> QED
  BY <1>5, <1>7, <1>8 DEF CarefulSound

\* login() asks for authorization over a connection that is just open.
LEMMA OpenMatch ==
  ASSUME TypeOK, CarefulSound, NEW s \in Sockets, OnOpen(s)
  PROVE  CarefulSound'
<1> DEFINE p == [page EXCEPT !.sock[s] = "open"]
<1>0. /\ page \in Page /\ toClient \in [Sockets -> Seq(Answer)]
      /\ page.toWallet \in [Sockets -> Seq(Asks)]
      /\ \A r \in Reqs : r # None /\ r # "authorize"
      /\ "authorize" \in LoginSteps /\ "authorize" \in Asks /\ "authorize" # None
      /\ "authorize" \notin Reqs
  BY Apart DEF TypeOK, Page, Asks, LoginSteps
<1>1. /\ page.sock[s] = "connecting" /\ Asked(p, page', "authorize")
      /\ UNCHANGED <<toClient, status, method, care>>
  BY OpenStep
<1>2. /\ p.socket = page.socket /\ p.account = page.account /\ p.toWallet = page.toWallet
      /\ p.answer = page.answer
      /\ \A z \in Sockets : p.sock[z] = IF z = s THEN "open" ELSE page.sock[z]
  BY <1>0 DEF Page
<1>3. s = page.socket /\ page.account = 0 /\ Quiet(s)
  BY <1>1 DEF CarefulSound, WireSound, Wire
<1> HIDE DEF p
<1>4. /\ page'.socket = page.socket /\ page'.account = 0
      /\ SocketEnds(p, page') /\ Matching'
  <2>1. CASE Sent(p, page', "authorize")
    BY <1>2, <1>3, <2>1 DEF Sent, SocketEnds, CarefulSound, Matching
  <2>2. CASE Effect(p, page', "authorize", Failed)
    BY <1>0, <1>2, <1>3, <2>2, FailedAnswer DEF Effect, CarefulSound, Matching
  <2> QED
    BY <1>1, <2>1, <2>2 DEF Asked
<1>5. BuildingSound'
  BY <1>1, <1>3 DEF CarefulSound, BuildingSound
<1>6. /\ Quiet(s)' \/ (Awaited' /\ UnderWay(s)')
      /\ \A z \in Sockets : z # s => page'.toWallet[z] = page.toWallet[z]
  <2>1. CASE page'.toWallet = page.toWallet
    BY <1>1, <1>3, <2>1 DEF Quiet
  <2>2. CASE page'.toWallet # page.toWallet
    <3>1. /\ page'.requestCallback = "authorize"
          /\ page'.toWallet = [page.toWallet EXCEPT ![s] = Append(@, "authorize")]
      BY <1>1, <1>2, <1>3, <2>2, FailedAnswer DEF Asked, Sent, Effect
    <3>2. page'.toWallet[s] = Append(<<>>, "authorize")
      BY <1>0, <1>3, <3>1 DEF Quiet
    <3>3. Awaited' /\ UnderWay(s)'
      BY <1>0, <1>1, <1>3, <1>4, <3>1, <3>2, SingletonSequences DEF Awaited, UnderWay, Quiet
    <3> QED
      BY <1>0, <3>1, <3>3
  <2> QED
    BY <2>1, <2>2
<1>7. WireSound'
  <2> SUFFICES ASSUME NEW z \in Sockets PROVE Wire(z)'
    BY DEF WireSound
  <2> USE DEF Wire
  <2>1. CASE z = s
    BY <1>2, <1>3, <1>4, <1>6, <2>1 DEF SocketEnds
  <2>2. CASE z # s
    <3>1. Quiet(z) => Quiet(z)'
      BY <1>1, <1>6, <2>2 DEF Quiet
    <3>2. page'.sock[z] = page.sock[z] /\ page.sock[z] \in {"new", "closed"}
      BY <1>2, <1>3, <1>4, <2>2 DEF SocketEnds, CarefulSound, WireSound, Wire
    <3> QED
      BY <2>2, <3>1, <3>2 DEF CarefulSound, WireSound, Wire
  <2> QED
    BY <2>1, <2>2
<1> QED
  BY <1>4, <1>5, <1>7 DEF CarefulSound

\* A careful application connects when all is heard and the last connection is closed.
LEMMA ConnectMatch ==
  ASSUME TypeOK, OneSocket, SlotSound, Unasked, careful, CarefulSound,
         Retry \/ \E l \in Logins : Login(l)
  PROVE  CarefulSound'
<1>0. page \in Page /\ page.socket \in Nat /\ \A s \in Sockets : s \in Nat
  BY DEF TypeOK, Page, Sockets
<1>1. /\ MayConnect /\ Connected(page, page') /\ UNCHANGED toClient
      /\ page.socket + 1 \in Sockets
      /\ \A r \in Reqs : status'[r] = status[r]
  BY ConnectStep
<1>2. AllHeard /\ (page.socket # 0 => page.sock[page.socket] = "closed")
  BY <1>1 DEF MayConnect, careful
<1>3. \A r \in Reqs : status[r] # "building"
  BY <1>2 DEF AllHeard, Unasked, Callers
<1>4. BuildingSound' /\ Matching'
  BY <1>1, <1>3 DEF BuildingSound, Connected, CarefulSound, Matching
<1>5. page.sock[page.socket + 1] = "new" /\ page.socket + 1 # page.socket
  BY <1>0, <1>1 DEF OneSocket
<1>6. \A s \in Sockets : s # page.socket + 1 =>
        page'.sock[s] = page.sock[s] /\ page.sock[s] \in {"new", "closed"}
  <2> SUFFICES ASSUME NEW s \in Sockets, s # page.socket + 1
               PROVE  page'.sock[s] = page.sock[s] /\ page.sock[s] \in {"new", "closed"}
    OBVIOUS
  <2>1. page.sock[s] \in {"new", "closed"}
    <3>1. CASE s = page.socket
      <4>1. page.socket # 0
        BY <3>1 DEF Sockets
      <4> QED
        BY <1>2, <3>1, <4>1
    <3>2. CASE s # page.socket
      BY <3>2 DEF CarefulSound, WireSound, Wire
    <3> QED
      BY <3>1, <3>2
  <2> QED
    BY <1>1, <2>1 DEF Connected, Usable
<1>7. \A s \in Sockets : Quiet(s) => Quiet(s)'
  BY <1>1 DEF Connected, Quiet
<1>8. WireSound'
  <2> SUFFICES ASSUME NEW s \in Sockets PROVE Wire(s)'
    BY DEF WireSound
  <2> USE DEF Wire
  <2>1. CASE s = page.socket + 1
    BY <1>1, <1>5, <1>7, <2>1 DEF Connected, CarefulSound, WireSound, Wire
  <2>2. CASE s # page.socket + 1
    BY <1>6, <1>7, <2>2 DEF CarefulSound, WireSound, Wire
  <2> QED
    BY <2>1, <2>2
<1> QED
  BY <1>4, <1>8 DEF CarefulSound

LEMMA DisconnectMatch ==
  ASSUME TypeOK, CarefulSound, AppDisconnect
  PROVE  CarefulSound'
<1>1. /\ Silent(page, page') /\ SocketEnds(page, page')
      /\ page'.toWallet = page.toWallet /\ UNCHANGED <<toClient, status>>
  BY DisconnectStep
<1>2. \A s \in Sockets : Quiet(s) => Quiet(s)'
  BY <1>1 DEF Quiet
<1>3. \A s \in Sockets : Awaited /\ UnderWay(s) => Awaited' /\ UnderWay(s)'
  BY <1>1 DEF Silent, Awaited, UnderWay
<1>4. \A s \in Sockets : \/ page'.sock[s] = page.sock[s]
                         \/ s = page.socket /\ page'.sock[s] \in {"closing", "aborted"}
  BY <1>1 DEF SocketEnds
<1>5. page'.socket = page.socket /\ page'.account = page.account /\ page'.answer = page.answer
  BY <1>1 DEF Silent
<1>6. WireSound'
  <2> SUFFICES ASSUME NEW s \in Sockets PROVE Wire(s)'
    BY DEF WireSound
  <2> USE DEF Wire
  <2>1. CASE page'.sock[s] = page.sock[s]
    BY <1>2, <1>3, <1>5, <2>1 DEF CarefulSound, WireSound, Wire
  <2>2. CASE s = page.socket /\ page'.sock[s] \in {"closing", "aborted"}
    BY <1>5, <2>2
  <2> QED
    BY <1>4, <2>1, <2>2
<1>7. BuildingSound'
  <2> SUFFICES ASSUME NEW r \in Reqs, status'[r] = "building"
               PROVE  /\ page'.account # 0
                      /\ \A q \in Reqs : status'[q] = "building" => q = r
                      /\ \A s \in Sockets : page'.sock[s] \in {"open", "gone"} => Quiet(s)'
    BY DEF BuildingSound
  <2>1. /\ page.account # 0 /\ \A q \in Reqs : status[q] = "building" => q = r
        /\ \A s \in Sockets : page.sock[s] \in {"open", "gone"} => Quiet(s)
    BY <1>1 DEF CarefulSound, BuildingSound
  <2> QED
    BY <1>1, <1>2, <1>4, <1>5, <2>1
<1> QED
  BY <1>5, <1>6, <1>7 DEF CarefulSound, Matching

\* The wallet turns the request under way into the answer under way.
LEMMA AnswerMatch ==
  ASSUME TypeOK, CarefulSound, NEW s \in Sockets, WalletAnswers(s)
  PROVE  CarefulSound'
<1>0. toClient \in [Sockets -> Seq(Answer)] /\ page.toWallet \in [Sockets -> Seq(Asks)]
  BY DEF TypeOK, Page
<1>1. /\ Silent(page, page') /\ page'.sock = page.sock /\ page.sock[s] = "open"
      /\ page.toWallet[s] # <<>>
      /\ page'.toWallet = [page.toWallet EXCEPT ![s] = Tail(@)] /\ UNCHANGED status
  BY AnswerStep
<1>2. PICK a \in Answer : /\ a.of = Head(page.toWallet[s])
                          /\ toClient' = [toClient EXCEPT ![s] = Append(@, a)]
  BY AnswerStep, ZenonT(30)
<1>3. /\ Awaited /\ toClient[s] = <<>>
      /\ Len(page.toWallet[s]) = 1 /\ page.toWallet[s][1] = page.requestCallback
  BY <1>1 DEF CarefulSound, WireSound, Wire, Quiet, UnderWay
<1>4. Tail(page.toWallet[s]) = <<>> /\ a.of = page.requestCallback
  <2>1. page.toWallet[s] \in Seq(Asks)
    BY <1>0
  <2>2. ASSUME NEW e \in Asks
        PROVE  Tail(page.toWallet[s]) = <<>> /\ Head(page.toWallet[s]) = page.toWallet[s][1]
    BY <1>3, <2>1, <2>2, SingletonSequences
  <2>3. page.toWallet[s][1] \in Asks
    BY <1>3, <2>1, ElementOfSeq
  <2> QED
    BY <1>2, <1>3, <2>2, <2>3
<1>5. page'.toWallet[s] = <<>> /\ toClient'[s] = Append(<<>>, a)
  BY <1>0, <1>1, <1>2, <1>3, <1>4
<1>6. Len(toClient'[s]) = 1 /\ toClient'[s][1] = a
  BY <1>5, SingletonSequences
<1>7. Awaited' /\ UnderWay(s)'
  BY <1>1, <1>3, <1>4, <1>5, <1>6 DEF Silent, Awaited, UnderWay
<1>8. \A z \in Sockets : z # s =>
        (Quiet(z) => Quiet(z)') /\ (UnderWay(z) => UnderWay(z)')
  BY <1>0, <1>1, <1>2 DEF Silent, Quiet, UnderWay
<1>9. page'.socket = page.socket /\ page'.account = page.account /\ page'.answer = page.answer
  BY <1>1 DEF Silent
<1>10. WireSound'
  <2> SUFFICES ASSUME NEW z \in Sockets PROVE Wire(z)'
    BY DEF WireSound
  <2> USE DEF Wire
  <2>1. CASE z = s
    BY <1>1, <1>7, <1>9, <2>1 DEF CarefulSound, WireSound, Wire
  <2>2. CASE z # s
    BY <1>1, <1>7, <1>8, <1>9, <2>2 DEF CarefulSound, WireSound, Wire
  <2> QED
    BY <2>1, <2>2
<1>11. BuildingSound'
  <2>1. \A r \in Reqs : status[r] # "building"
    BY <1>1 DEF CarefulSound, BuildingSound, Quiet
  <2> QED
    BY <1>1, <2>1 DEF BuildingSound
<1> QED
  BY <1>9, <1>10, <1>11 DEF CarefulSound, Matching

\* What was under way on a connection that breaks is lost, or still arrives.
LEMMA LeaveMatch ==
  ASSUME TypeOK, CarefulSound, NEW s \in Sockets, PeerLeaves(s)
  PROVE  CarefulSound'
<1>0. /\ page \in Page /\ toClient \in [Sockets -> Seq(Answer)]
      /\ page.toWallet \in [Sockets -> Seq(Asks)] /\ <<>> \in Seq(Answer) /\ Len(<<>>) = 0
  BY EmptySeq DEF TypeOK, Page
<1>1. /\ Silent(page, page') /\ page.sock[s] \in {"connecting", "open"}
      /\ page'.sock = [page.sock EXCEPT ![s] = IF @ = "open" THEN "gone" ELSE "aborted"]
      /\ page'.toWallet = [page.toWallet EXCEPT ![s] = <<>>] /\ UNCHANGED status
  BY LeaveStep
<1>2. PICK n \in 0..Len(toClient[s]) : toClient' = [toClient EXCEPT ![s] = SubSeq(@, 1, n)]
  BY LeaveStep
<1> DEFINE q == SubSeq(toClient[s], 1, n)
<1>3. /\ q \in Seq(Answer) /\ Len(q) = n
      /\ \A j \in DOMAIN q : j \in DOMAIN toClient[s] /\ q[j] = toClient[s][j]
  BY <1>0, <1>2, PrefixElements
<1>4. /\ page'.toWallet[s] = <<>> /\ toClient'[s] = q
      /\ \A z \in Sockets : z # s =>
           page'.toWallet[z] = page.toWallet[z] /\ toClient'[z] = toClient[z]
           /\ page'.sock[z] = page.sock[z]
      /\ page'.sock[s] \in {"gone", "aborted"}
      /\ page'.sock[s] = "gone" => page.sock[s] = "open"
  BY <1>0, <1>1, <1>2 DEF Page
<1>5. page'.socket = page.socket /\ page'.account = page.account /\ page'.answer = page.answer
      /\ page'.requestCallback = page.requestCallback /\ page'.heard = page.heard
  BY <1>1 DEF Silent
<1>6. Awaited => Awaited'
  BY <1>5 DEF Awaited
<1>7. toClient[s] = <<>> => q = <<>>
  <2>1. toClient[s] = <<>> => Len(q) = 0
    BY <1>0, <1>2, <1>3
  <2> QED
    BY <1>3, <2>1, EmptySeq
<1>8. Len(toClient[s]) = 1 => q = <<>> \/ (Len(q) = 1 /\ q[1] = toClient[s][1])
  <2>1. ASSUME Len(toClient[s]) = 1, Len(q) = 0 PROVE q = <<>>
    BY <1>3, <2>1, EmptySeq
  <2>2. ASSUME Len(q) = 1 PROVE q[1] = toClient[s][1]
    <3>1. 1 \in DOMAIN q
      BY <1>3, <2>2, LenProperties
    <3> QED
      BY <1>3, <3>1
  <2>3. Len(toClient[s]) = 1 => Len(q) \in {0, 1}
    BY <1>2, <1>3
  <2> QED
    BY <2>1, <2>2, <2>3
<1> HIDE DEF q
<1>9. \A z \in Sockets : z # s =>
        (Quiet(z) => Quiet(z)') /\ (UnderWay(z) => UnderWay(z)')
  BY <1>4, <1>5 DEF Quiet, UnderWay
<1>10. /\ Quiet(s) => Quiet(s)'
       /\ UnderWay(s) => Quiet(s)' \/ UnderWay(s)'
  BY <1>4, <1>5, <1>7, <1>8 DEF Quiet, UnderWay
<1>11. WireSound'
  <2> SUFFICES ASSUME NEW z \in Sockets PROVE Wire(z)'
    BY DEF WireSound
  <2> USE DEF Wire
  <2>1. CASE z = s
    <3>1. s = page.socket
      BY <1>1 DEF CarefulSound, WireSound, Wire
    <3>2. page.sock[s] = "open" => Quiet(s)' \/ (Awaited' /\ UnderWay(s)')
      BY <1>6, <1>10 DEF CarefulSound, WireSound, Wire
    <3> QED
      BY <1>4, <1>5, <2>1, <3>1, <3>2
  <2>2. CASE z # s
    BY <1>4, <1>5, <1>6, <1>9, <2>2 DEF CarefulSound, WireSound, Wire
  <2> QED
    BY <2>1, <2>2
<1>12. BuildingSound'
  <2> SUFFICES ASSUME NEW r \in Reqs, status'[r] = "building"
               PROVE  /\ page'.account # 0
                      /\ \A z \in Reqs : status'[z] = "building" => z = r
                      /\ \A z \in Sockets : page'.sock[z] \in {"open", "gone"} => Quiet(z)'
    BY DEF BuildingSound
  <2>1. /\ page.account # 0 /\ \A z \in Reqs : status[z] = "building" => z = r
        /\ \A z \in Sockets : page.sock[z] \in {"open", "gone"} => Quiet(z)
    BY <1>1 DEF CarefulSound, BuildingSound
  <2>2. \A z \in Sockets : page'.sock[z] \in {"open", "gone"} => Quiet(z)'
    BY <1>4, <1>9, <1>10, <2>1
  <2> QED
    BY <1>1, <1>5, <2>1, <2>2
<1> QED
  BY <1>5, <1>11, <1>12 DEF CarefulSound, Matching

LEMMA InitMatch == Init => CarefulSound
<1> SUFFICES ASSUME Init PROVE CarefulSound
  OBVIOUS
<1>1. /\ \A s \in Sockets : /\ page.sock[s] = "new" /\ page.toWallet[s] = <<>>
                            /\ toClient[s] = <<>>
      /\ \A r \in Reqs : page.answer[r] = None /\ status[r] = "idle"
  BY DEF Init, Callers
<1> QED
  BY <1>1 DEF CarefulSound, WireSound, Wire, Quiet, BuildingSound, Matching

LEMMA NextMatch ==
  /\ TypeOK /\ OneSocket /\ SlotSound /\ Unasked /\ (careful => CarefulSound)
  /\ [Next]_vars
  => (careful => CarefulSound)'
<1> SUFFICES ASSUME TypeOK, OneSocket, SlotSound, Unasked, careful => CarefulSound,
                    [Next]_vars, careful'
             PROVE  CarefulSound'
  OBVIOUS
<1>0. care' = care
  BY ConnectStep, RequestStep, DisconnectStep, OpenStep, MessageStep, CloseStep, AnswerStep,
     BusyStep, LeaveStep DEF Next, vars, EasyAction, config
<1>1. careful /\ CarefulSound
  BY <1>0 DEF careful
<1>2. CASE Retry \/ \E l \in Logins : Login(l)
  BY <1>1, <1>2, ConnectMatch
<1>3. ASSUME NEW r \in Reqs, Call(r) PROVE CarefulSound'
  <2>1. status[r] # "called" /\ AllHeard /\ page.account # 0
    BY <1>1, <1>3 DEF Call, MayAsk, careful
  <2> QED
    BY <1>1, <1>3, <2>1, ClearToAsk, RequestedMatch DEF CarefulSound
<1>4. ASSUME NEW r \in Reqs, SignScript(r) PROVE CarefulSound'
  <2>1. /\ status[r] = "building" /\ page.account # 0
        /\ \A q \in Reqs : status[q] = "building" => q = r
        /\ \A s \in Sockets : page.sock[s] \in {"open", "gone"} => Quiet(s)
    BY <1>1, <1>4 DEF SignScript, CarefulSound, BuildingSound
  <2> QED
    BY <1>1, <1>4, <2>1, RequestedMatch
<1>5. ASSUME NEW r \in Reqs, EasyAction(r) PROVE CarefulSound'
  <2>1. AllHeard /\ page.account # 0 /\ UNCHANGED <<page, toClient>>
    BY <1>1, <1>5 DEF EasyAction, MayAsk, careful
  <2>2. \A q \in Reqs : status'[q] = IF q = r THEN "building" ELSE status[q]
    BY <1>5 DEF EasyAction, TypeOK, Callers
  <2>3. /\ \A s \in Sockets : page.sock[s] \in {"open", "gone"} => Quiet(s)
        /\ \A q \in Reqs : status[q] # "building"
    BY <1>1, <2>1, ClearToAsk DEF CarefulSound
  <2> QED
    BY <1>1, <2>1, <2>2, <2>3
       DEF CarefulSound, WireSound, Wire, BuildingSound, Matching, Quiet, Awaited, UnderWay
<1>6. CASE AppDisconnect
  BY <1>1, <1>6, DisconnectMatch
<1>7. ASSUME NEW s \in Sockets,
             OnOpen(s) \/ OnMessage(s) \/ \E clean \in BOOLEAN : OnClose(s, clean)
      PROVE  CarefulSound'
  BY <1>1, <1>7, OpenMatch, MessageMatch, CloseMatch
<1>8. ASSUME NEW s \in Sockets, WalletAnswers(s) \/ PeerLeaves(s) PROVE CarefulSound'
  BY <1>1, <1>8, AnswerMatch, LeaveMatch
<1>9. ASSUME NEW s \in Sockets, WalletIsBusy(s) PROVE CarefulSound'
  <2>1. page.sock[s] = "open" /\ Len(page.toWallet[s]) > 1
    BY <1>9, BusyStep
  <2>2. page.toWallet[s] = <<>> \/ Len(page.toWallet[s]) = 1
    BY <1>1, <2>1 DEF CarefulSound, WireSound, Wire, Quiet, UnderWay
  <2>3. Len(<<>>) = 0 /\ ~(0 > 1) /\ ~(1 > 1)
    BY EmptySeq
  <2> QED
    BY <2>1, <2>2, <2>3
<1>10. CASE UNCHANGED vars
  BY <1>1, <1>10
     DEF vars, CarefulSound, WireSound, Wire, BuildingSound, Matching, Quiet, Awaited, UnderWay
<1> QED
  BY <1>2, <1>3, <1>4, <1>5, <1>6, <1>7, <1>8, <1>9, <1>10 DEF Next

\* Answers name no request, yet an application that connects only when the last connection
\* is finished, and asks for one thing at a time, never gets the answer to one request as
\* the answer to another, whichever side fails and however late the handlers run.
THEOREM CarefulAnswersMatch == Spec => []AnswersMatch
<1>1. (careful => CarefulSound) => AnswersMatch
  BY DEF CarefulSound, Matching, AnswersMatch
<1>2. Init => OneSocket /\ SlotSound /\ Unasked /\ CarefulSound
  BY InitSocket, InitSlot, InitUnasked, InitMatch
<1>3. /\ TypeOK /\ OneSocket /\ SlotSound /\ Unasked /\ (careful => CarefulSound)
      /\ [Next]_vars
      => OneSocket' /\ SlotSound' /\ Unasked' /\ (careful => CarefulSound)'
  BY NextSocket, NextSlot, NextUnasked, NextMatch
<1> QED
  BY <1>1, <1>2, <1>3, LegacyTypes, PTL DEF Spec
=============================================================================
