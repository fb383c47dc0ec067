--------------------------- MODULE RelayTransport ---------------------------
(***************************************************************************)
(* The outgoing half of class RelayTransport                               *)
(* (src/src/link/v5/relay-transport.ts): publishes that wait for the       *)
(* relay's ack across reconnects, the backoff ladder, the ack timers, and  *)
(* close.  The wire and the relay are modelled around it: everything in    *)
(* flight is lost when a socket goes away, so a publish may reach the      *)
(* relay several times, or reach it and still be rejected here.            *)
(*                                                                         *)
(* A publish is known by its number ("p1", "p2", ...).  Number 0 stands    *)
(* for the subscribe frame, and for an error frame that names no publish.  *)
(***************************************************************************)
EXTENDS Integers, Sequences, FiniteSets, SequencesExt

CONSTANTS
    Msgs,           \* frames the session layer sends
    None,           \* `undefined`
    MaxParts,       \* MAX_CHUNKS_PER_MESSAGE
    MaxPubs,        \* bound on publishes
    AckAfter,       \* publishAckTimeoutMs
    Ladder          \* reconnectDelaysMs

ASSUME RelayAssumption ==
    /\ MaxParts \in Nat \ {0} /\ MaxPubs \in Nat /\ AckAfter \in Nat \ {0}
    /\ Ladder \in Seq(Nat \ {0}) /\ Ladder # <<>>
    /\ None \notin Nat

VARIABLES
    closed,     \* RelayTransport.closed
    socket,     \* state of RelayTransport.socket
    pending,    \* keys of RelayTransport.pending
    publishSeq, \* RelayTransport.publishSeq
    attempt,    \* RelayTransport.reconnectAttempt, up to the end of the ladder
    delay,      \* time left on RelayTransport.reconnectTimer
    ackIn,      \* ackIn[p]: time left on the ack timer of publish p
    fate,       \* fate[p]: what became of the promise of publish p
    parts,      \* parts[m]: the publishes send(m) made
    turnedDown, \* frames send() refused
    written,    \* publishes ever written to a socket
    toRelay,    \* frames on the wire to the relay
    toClient,   \* frames on the wire to the client
    got,        \* frames the relay received on the current connection
    relayed     \* publishes the relay ever received

timerVars == <<attempt, delay, ackIn>>
sendVars == <<publishSeq, parts, turnedDown>>
wireVars == <<toRelay, toClient, got, relayed>>
vars == <<closed, socket, pending, fate, written, timerVars, sendVars, wireVars>>

Pubs == 1..MaxPubs
Rejections == {"refused", "timeout", "closed"}
Fates == {"none", "waiting", "acked"} \cup Rejections

\* broken: readyState is no longer 1 and the close event is still to come.
SocketStates == {"connecting", "open", "broken", "gone"}
Frames == [op: {"ack", "error"}, id: Pubs \cup {0}]

TypeOK ==
    /\ closed \in BOOLEAN
    /\ socket \in SocketStates
    /\ pending \subseteq Pubs
    /\ publishSeq \in 0..MaxPubs
    /\ attempt \in 0..Len(Ladder)
    /\ delay \in Nat \cup {None}
    /\ ackIn \in [Pubs -> 0..AckAfter]
    /\ fate \in [Pubs -> Fates]
    /\ parts \in [Msgs -> SUBSET Pubs]
    /\ turnedDown \subseteq Msgs
    /\ written \subseteq Pubs
    /\ toRelay \in Seq(Pubs \cup {0})
    /\ toClient \in Seq(Frames)
    /\ got \in Seq(Pubs \cup {0})
    /\ relayed \subseteq Pubs

\* The constructor connects at once.
Init ==
    /\ closed = FALSE
    /\ socket = "connecting"
    /\ pending = {}
    /\ publishSeq = 0
    /\ attempt = 0
    /\ delay = None
    /\ ackIn = [p \in Pubs |-> 0]
    /\ fate = [p \in Pubs |-> "none"]
    /\ parts = [m \in Msgs |-> {}]
    /\ turnedDown = {}
    /\ written = {}
    /\ toRelay = <<>>
    /\ toClient = <<>>
    /\ got = <<>>
    /\ relayed = {}

-----------------------------------------------------------------------------
(* send() and publish().                                                   *)

NewPubs(n) == (publishSeq + 1)..(publishSeq + n)

\* Publish numbers in the order the publishes were made, which is that of the pending map.
InOrder(S) ==
    CHOOSE s \in [1..Cardinality(S) -> S] : \A i, j \in DOMAIN s : i < j => s[i] < s[j]
Unsent(m) == parts[m] = {} /\ m \notin turnedDown

\* A publish goes out now when the socket is open, else in the pass of onopen.
WriteIfOpen(S) ==
    IF socket = "open"
    THEN /\ toRelay' = toRelay \o InOrder(S)
         /\ written' = written \cup S
    ELSE UNCHANGED <<toRelay, written>>

\* send() of a frame of n chunks (one publish when it fits): the publishes are all
\* registered, each with its ack timer, in one turn.
Send(m, n) ==
    /\ Unsent(m)
    /\ ~closed
    /\ n \in 1..MaxParts
    /\ publishSeq + n <= MaxPubs
    /\ publishSeq' = publishSeq + n
    /\ parts' = [parts EXCEPT ![m] = NewPubs(n)]
    /\ pending' = pending \cup NewPubs(n)
    /\ fate' = [p \in Pubs |-> IF p \in NewPubs(n) THEN "waiting" ELSE fate[p]]
    /\ ackIn' = [p \in Pubs |-> IF p \in NewPubs(n) THEN AckAfter ELSE ackIn[p]]
    /\ WriteIfOpen(NewPubs(n))
    /\ UNCHANGED <<closed, socket, attempt, delay, turnedDown, toClient, got, relayed>>

\* send() refuses: the transport is closed, or the frame has too many chunks.
RefuseSend(m, n) ==
    /\ Unsent(m)
    /\ closed \/ n > MaxParts
    /\ turnedDown' = turnedDown \cup {m}
    /\ UNCHANGED <<closed, socket, pending, fate, written, timerVars, publishSeq, parts,
                   wireVars>>

\* The entry is removed, its timer cleared and its promise settled.
SettleAs(S, o) ==
    /\ pending' = pending \ S
    /\ ackIn' = [p \in Pubs |-> IF p \in S THEN 0 ELSE ackIn[p]]
    /\ fate' = [p \in Pubs |-> IF p \in S THEN o ELSE fate[p]]

\* Mutant: the entry is removed but its promise is left alone.
AckTimeout_ForgetsPromise(p) ==
    /\ p \in pending
    /\ ackIn[p] = 0
    /\ pending' = pending \ {p}
    /\ UNCHANGED <<closed, socket, fate, timerVars, written, sendVars, wireVars>>

\* The ack timer of a publish fires.
AckTimeout(p) ==
    /\ p \in pending
    /\ ackIn[p] = 0
    /\ SettleAs({p}, "timeout")
    /\ UNCHANGED <<closed, socket, attempt, delay, written, sendVars, wireVars>>

-----------------------------------------------------------------------------
(* handleRaw: what the relay says of publishes.                            *)

\* Mutant: an answer settles the oldest publish, whatever its id.
Addressed_Oldest(f) == {p \in pending : \A q \in pending : p <= q}

\* The publish an ack or an error names, if it is still in flight.
Addressed(f) == pending \cap {f.id}

\* An answer that names no publish in flight is ignored, or only logged.
HandleRaw ==
    /\ socket \in {"open", "broken"}
    /\ toClient # <<>>
    /\ LET f == Head(toClient) IN
         SettleAs(Addressed(f), IF f.op = "ack" THEN "acked" ELSE "refused")
    /\ toClient' = Tail(toClient)
    /\ UNCHANGED <<closed, socket, attempt, delay, written, sendVars, toRelay, got, relayed>>

-----------------------------------------------------------------------------
(* The connection's lifecycle.                                             *)

\* Mutant: only what was never written is sent on a new connection.
Resend_OnlyUnwritten == pending \ written

\* What a new connection re-sends: every publish still without an answer.
Resend == pending

\* Mutant: the topic is subscribed after the re-sent publishes.
Greeting_SubscribeLast == Append(InOrder(Resend), 0)

Greeting == <<0>> \o InOrder(Resend)

OnOpen ==
    /\ socket = "connecting"
    /\ ~closed
    /\ socket' = "open"
    /\ attempt' = 0
    /\ toRelay' = Greeting
    /\ written' = written \cup Resend
    /\ UNCHANGED <<closed, pending, fate, delay, ackIn, sendVars, toClient, got, relayed>>

\* The connection fails or drops, or the relay ends it.
Drop ==
    /\ socket \in {"connecting", "open"}
    /\ socket' = "broken"
    /\ UNCHANGED <<closed, pending, fate, written, timerVars, sendVars, wireVars>>

\* The rung of the ladder the next attempt waits for; the last one repeats.
NextRung == IF attempt < Len(Ladder) THEN attempt + 1 ELSE attempt

\* Mutant: a connection that never opened is not tried again.
ScheduleReconnect_OnceOpened ==
    IF closed \/ attempt > 0
    THEN UNCHANGED <<attempt, delay>>
    ELSE /\ delay' = Ladder[1]
         /\ attempt' = 1

ScheduleReconnect ==
    IF closed
    THEN UNCHANGED <<attempt, delay>>
    ELSE /\ delay' = Ladder[NextRung]
         /\ attempt' = NextRung

\* The close event of the socket: whatever was on the wire is lost.
OnClose ==
    /\ socket = "broken"
    /\ socket' = "gone"
    /\ ScheduleReconnect
    /\ toRelay' = <<>>
    /\ toClient' = <<>>
    /\ got' = <<>>
    /\ UNCHANGED <<closed, pending, fate, written, ackIn, sendVars, relayed>>

\* The reconnect timer fires.
Connect ==
    /\ delay = 0
    /\ delay' = None
    /\ socket' = "connecting"
    /\ UNCHANGED <<closed, pending, fate, written, attempt, ackIn, sendVars, wireVars>>

\* Mutant: close leaves the reconnect timer running.
StopReconnect_KeepsTimer == UNCHANGED delay

StopReconnect == delay' = None

\* Mutant: only publishes that were written are rejected.
RejectAllPending_Written == SettleAs(pending \cap written, "closed")

RejectAllPending == SettleAs(pending, "closed")

\* close(): everything pending is rejected; a socket still there begins to close.
Close ==
    /\ ~closed
    /\ closed' = TRUE
    /\ StopReconnect
    /\ RejectAllPending
    /\ socket' = IF socket = "gone" THEN "gone" ELSE "broken"
    /\ UNCHANGED <<attempt, written, sendVars, wireVars>>

-----------------------------------------------------------------------------
(* The relay and time: external.                                           *)

\* The relay takes the next frame: it relays and acknowledges a publish, or refuses it.
RelayReceives ==
    /\ toRelay # <<>>
    /\ LET h == Head(toRelay) IN
         /\ got' = Append(got, h)
         /\ \/ /\ h # 0
               /\ relayed' = relayed \cup {h}
               /\ toClient' = Append(toClient, [op |-> "ack", id |-> h])
            \/ /\ UNCHANGED relayed
               /\ toClient' = Append(toClient, [op |-> "error", id |-> h])
            \/ /\ h = 0
               /\ UNCHANGED <<relayed, toClient>>
    /\ toRelay' = Tail(toRelay)
    /\ UNCHANGED <<closed, socket, pending, fate, written, timerVars, sendVars>>

\* Time passes; a timer that is due fires before it does.
Tick ==
    /\ \A p \in pending : ackIn[p] > 0
    /\ delay # 0
    /\ pending # {} \/ delay # None
    /\ ackIn' = [p \in Pubs |-> IF p \in pending THEN ackIn[p] - 1 ELSE 0]
    /\ delay' = IF delay = None THEN None ELSE delay - 1
    /\ UNCHANGED <<closed, socket, pending, fate, written, attempt, sendVars, wireVars>>

Next ==
    \/ \E m \in Msgs, n \in 1..(MaxParts + 1) : Send(m, n) \/ RefuseSend(m, n)
    \/ \E p \in Pubs : AckTimeout(p)
    \/ HandleRaw
    \/ OnOpen \/ Drop \/ OnClose \/ Connect \/ Close
    \/ RelayReceives
    \/ Tick

Spec == Init /\ [][Next]_vars

\* Timers fire, events are handled, and a connection that is tried again and again is
\* accepted some day; nothing is owed by the relay.
Fairness ==
    /\ WF_vars(Tick) /\ WF_vars(Connect) /\ WF_vars(OnClose)
    /\ SF_vars(OnOpen)
    /\ \A p \in Pubs : WF_vars(AckTimeout(p))

FairSpec == Spec /\ Fairness

-----------------------------------------------------------------------------
(* Properties.                                                             *)

\* The promise of send(m), as Promise.all makes it of the publishes' promises.
SendOutcome(m) ==
    IF m \in turnedDown \/ \E p \in parts[m] : fate[p] \in Rejections THEN "rejected"
    ELSE IF parts[m] = {} THEN "idle"
    ELSE IF \E p \in parts[m] : fate[p] = "waiting" THEN "waiting"
    ELSE "resolved"

\* send() resolves only when the relay took every chunk of its frame, however often the
\* connection dropped and whatever was sent twice.
SentMeansRelayed == \A m \in Msgs : SendOutcome(m) = "resolved" => parts[m] \subseteq relayed

\* An open connection carries, or has carried, every publish still without an answer:
\* none is stranded by a drop or by a publish made while connecting.
NothingStranded ==
    socket = "open" => pending \subseteq ToSet(got \o toRelay)

\* On each connection the topic is subscribed first, and publishes go out once each and
\* in the order they were made, so chunks keep their order through a re-send.
WireInOrder ==
    LET wire == got \o toRelay IN
      /\ wire # <<>> => wire[1] = 0
      /\ \A i, j \in DOMAIN wire : i < j => wire[i] < wire[j]

\* After close() nothing is pending and no timer is left to connect again.
ClosedIsFinal == closed => pending = {} /\ delay = None /\ socket \in {"broken", "gone"}

\* A lost connection is always replaced, until the transport is closed.
Reconnects == (socket # "open") ~> (socket = "open" \/ closed)

\* Every send() settles, whatever the relay and the network do.
SendsSettle == \A m \in Msgs : (SendOutcome(m) = "waiting") ~> (SendOutcome(m) # "waiting")

Lifecycle == INSTANCE RequestLifecycle
             WITH Reqs <- Msgs, outcome <- [m \in Msgs |-> SendOutcome(m)]

\* send() keeps what it promises: accepted frames settle once, a closed transport accepts
\* none and leaves none open, and a drop settles nothing.
ImplementsLifecycle == Lifecycle!LSpec

-----------------------------------------------------------------------------
(* What holds between the parts, from which the invariants above follow.   *)

Wire == got \o toRelay

\* The map holds exactly the publishes whose promise is open.
PendingOpen == pending = {p \in Pubs : fate[p] = "waiting"}

\* Publishes are numbered as they are made, each for one send() that was not refused.
PartsSound ==
    /\ \A p \in Pubs : p > publishSeq => fate[p] = "none"
    /\ \A m \in Msgs : \A p \in parts[m] : p <= publishSeq /\ fate[p] # "none"
    /\ \A m, n \in Msgs : m # n => parts[m] \cap parts[n] = {}
    /\ \A m \in turnedDown : parts[m] = {}

\* An ack, on its way or taken, is of a publish the relay relayed.
AckSound ==
    /\ \A i \in DOMAIN toClient : toClient[i].op = "ack" => toClient[i].id \in relayed
    /\ \A p \in Pubs : fate[p] = "acked" => p \in relayed

\* A reconnect waits only while no socket is there, and a new socket starts afresh.
SocketSound ==
    /\ delay # None => socket = "gone"
    /\ socket \in {"connecting", "gone"} => got = <<>> /\ toRelay = <<>>

\* Nothing on the wire is newer than the last publish made.
WireBounded ==
    /\ socket = "open" => Wire # <<>>
    /\ \A i \in DOMAIN Wire : Wire[i] <= publishSeq

RelayInv ==
    /\ TypeOK
    /\ PendingOpen /\ PartsSound
    /\ AckSound
    /\ SocketSound /\ ClosedIsFinal
    /\ WireBounded /\ WireInOrder /\ NothingStranded
=============================================================================
