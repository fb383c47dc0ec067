------------------------ MODULE LinkSession_proofs ------------------------
(* Theorems about the session layer, for every value of its constants.     *)
EXTENDS LinkSession, Integers, SequenceTheorems, TLAPS

-----------------------------------------------------------------------------
(* Sequences used as channels: append at one end, remove anywhere.         *)

\* Where the j-th element left by a removal at i was before.
Place(i, j) == IF j < i THEN j ELSE j+1

\* What RemoveAt returns: a sequence over the same set, whose elements are those of the
\* original at every place but one.
LEMMA RemoveAtPlaces ==
  ASSUME NEW S, NEW s \in Seq(S), NEW i \in 1..Len(s)
  PROVE  /\ RemoveAt(s, i) \in Seq(S)
         /\ DOMAIN RemoveAt(s, i) = 1..(Len(s)-1)
         /\ \A j \in DOMAIN RemoveAt(s, i) :
               /\ Place(i, j) \in DOMAIN s \ {i}
               /\ RemoveAt(s, i)[j] = s[Place(i, j)]
<1> DEFINE a == SubSeq(s, 1, i-1)
           b == SubSeq(s, i+1, Len(s))
<1>0. Len(s) \in Nat /\ DOMAIN s = 1..Len(s) /\ i \in Nat
  BY LenProperties
<1>1. a \in Seq(S) /\ Len(a) = i-1 /\ \A j \in 1..(i-1) : a[j] = s[j]
  <2>1. \A j \in 1..(i-1) : s[j] \in S
    BY <1>0
  <2>2. /\ a \in Seq(S)
        /\ Len(a) = IF 1 <= i-1 THEN (i-1)-1+1 ELSE 0
        /\ \A j \in 1..((i-1)-1+1) : a[j] = s[1+j-1]
    BY <2>1, <1>0, SubSeqProperties
  <2>3. \A j \in 1..(i-1) : 1+j-1 = j
    OBVIOUS
  <2>. QED BY <2>2, <2>3, <1>0
<1>2. b \in Seq(S) /\ Len(b) = Len(s) - i /\ \A j \in 1..(Len(s)-i) : b[j] = s[i+j]
  <2>1. \A j \in (i+1)..Len(s) : s[j] \in S
    BY <1>0
  <2>2. /\ b \in Seq(S)
        /\ Len(b) = IF i+1 <= Len(s) THEN Len(s)-(i+1)+1 ELSE 0
        /\ \A j \in 1..(Len(s)-(i+1)+1) : b[j] = s[(i+1)+j-1]
    BY <2>1, <1>0, SubSeqProperties
  <2>3. \A j \in 1..(Len(s)-i) : (i+1)+j-1 = i+j
    BY <1>0
  <2>4. Len(s)-(i+1)+1 = Len(s)-i
    BY <1>0
  <2>5. Len(b) = Len(s)-i
    <3>1. i <= Len(s)
      BY <1>0
    <3>2. CASE i = Len(s)
      <4>1. ~(i+1 <= Len(s)) /\ Len(s)-i = 0
        BY <3>2, <1>0
      <4>. QED BY <2>2, <4>1
    <3>3. CASE i # Len(s)
      <4>0. \A x, y \in Nat : x <= y /\ x # y => x+1 <= y
        OBVIOUS
      <4>1. i+1 <= Len(s)
        BY <3>1, <3>3, <1>0, <4>0
      <4>. QED BY <2>2, <2>4, <4>1
    <3>. QED BY <3>2, <3>3
  <2>6. \A j \in 1..(Len(s)-i) : b[j] = s[i+j]
    <3> HIDE DEF b
    <3>. QED BY <2>2, <2>3, <2>4
  <2>. QED BY <2>2, <2>5, <2>6
<1> HIDE DEF a, b
<1>3. a \o b \in Seq(S) /\ Len(a \o b) = Len(a) + Len(b)
  BY <1>1, <1>2, ConcatProperties
<1>4. \A j \in 1..(Len(a)+Len(b)) : (a \o b)[j] = IF j <= Len(a) THEN a[j] ELSE b[j-Len(a)]
  BY <1>1, <1>2, ConcatProperties
<1>5. DOMAIN (a \o b) = 1..(Len(s)-1)
  <2>1. Len(a) + Len(b) = Len(s)-1
    BY <1>0, <1>1, <1>2
  <2>2. DOMAIN (a \o b) = 1..Len(a \o b)
    BY <1>3, LenProperties
  <2>. QED BY <2>1, <2>2, <1>3
<1>6. ASSUME NEW j \in 1..(Len(s)-1)
      PROVE  /\ Place(i, j) \in DOMAIN s \ {i}
             /\ (a \o b)[j] = s[Place(i, j)]
  <2>0. j \in 1..(Len(a)+Len(b))
    BY <1>0, <1>1, <1>2
  <2>1. CASE j < i
    <3>1. j <= i-1 /\ j \in 1..(i-1)
      BY <2>1, <1>0
    <3>2. (a \o b)[j] = s[j]
      BY <2>0, <3>1, <1>0, <1>1, <1>4
    <3>3. j \in 1..Len(s) /\ j # i
      BY <2>1, <1>0
    <3>. QED BY <2>1, <3>2, <3>3, <1>0 DEF Place
  <2>2. CASE ~(j < i)
    <3>1. /\ j-(i-1) \in 1..(Len(s)-i) /\ i+(j-(i-1)) = j+1 /\ j+1 \in 1..Len(s)
          /\ j+1 # i /\ ~(j <= i-1)
      BY <2>2, <1>0
    <3>2. (a \o b)[j] = b[j-(i-1)]
      BY <2>0, <3>1, <1>1, <1>4
    <3>3. (a \o b)[j] = s[j+1]
      BY <3>1, <3>2, <1>2
    <3>. QED BY <2>2, <3>1, <3>3, <1>0 DEF Place
  <2>. QED BY <2>1, <2>2
<1>. QED BY <1>3, <1>5, <1>6 DEF RemoveAt, a, b

\* Each element left was there before.
LEMMA RemoveAtProperties ==
  ASSUME NEW S, NEW s \in Seq(S), NEW i \in 1..Len(s)
  PROVE  /\ RemoveAt(s, i) \in Seq(S)
         /\ \A j \in DOMAIN RemoveAt(s, i) :
               \E k \in DOMAIN s : RemoveAt(s, i)[j] = s[k]
BY RemoveAtPlaces

\* What is left keeps its order, and nothing of it is what was removed.
LEMMA RemoveAtOrder ==
  ASSUME NEW S, NEW s \in Seq(S), NEW i \in 1..Len(s)
  PROVE  /\ \A j \in DOMAIN RemoveAt(s, i) :
               \E k \in DOMAIN s \ {i} : RemoveAt(s, i)[j] = s[k]
         /\ \A j, k \in DOMAIN RemoveAt(s, i) : j < k =>
               \E l, m \in DOMAIN s \ {i} :
                  l < m /\ RemoveAt(s, i)[j] = s[l] /\ RemoveAt(s, i)[k] = s[m]
<1>1. Len(s) \in Nat /\ i \in Nat
  BY LenProperties
<1>2. \A j, k \in 1..(Len(s)-1) : j < k => Place(i, j) < Place(i, k)
  BY <1>1 DEF Place
<1> DEFINE t == RemoveAt(s, i)
<1>3. /\ DOMAIN t = 1..(Len(s)-1)
      /\ \A j \in DOMAIN t : Place(i, j) \in DOMAIN s \ {i} /\ t[j] = s[Place(i, j)]
  BY RemoveAtPlaces
<1> HIDE DEF t
<1>4. \A j \in DOMAIN t : \E k \in DOMAIN s \ {i} : t[j] = s[k]
  BY <1>3
<1>5. \A j, k \in DOMAIN t : j < k =>
        \E l, m \in DOMAIN s \ {i} : l < m /\ t[j] = s[l] /\ t[k] = s[m]
  BY <1>2, <1>3
<1>. QED BY <1>4, <1>5 DEF t

\* What Append returns: a sequence whose elements are the original's and the new one.
LEMMA AppendElements ==
  ASSUME NEW S, NEW s \in Seq(S), NEW e \in S
  PROVE  /\ Append(s, e) \in Seq(S)
         /\ \A j \in DOMAIN Append(s, e) :
               Append(s, e)[j] = e \/ \E k \in DOMAIN s : Append(s, e)[j] = s[k]
<1>1. /\ Append(s, e) \in Seq(S)
      /\ Len(Append(s, e)) = Len(s)+1
      /\ \A i \in 1..Len(s) : Append(s, e)[i] = s[i]
      /\ Append(s, e)[Len(s)+1] = e
  BY AppendProperties
<1>2. DOMAIN Append(s, e) = 1..(Len(s)+1) /\ DOMAIN s = 1..Len(s) /\ Len(s) \in Nat
  BY <1>1, LenProperties
<1>3. \A j \in 1..(Len(s)+1) : j = Len(s)+1 \/ j \in 1..Len(s)
  BY <1>2
<1>. QED BY <1>1, <1>2, <1>3

\* What is appended comes last.
LEMMA AppendOrder ==
  ASSUME NEW S, NEW s \in Seq(S), NEW e \in S
  PROVE  \A j, k \in DOMAIN Append(s, e) : j < k =>
            /\ j \in DOMAIN s /\ Append(s, e)[j] = s[j]
            /\ Append(s, e)[k] = e \/ (k \in DOMAIN s /\ Append(s, e)[k] = s[k])
<1>1. /\ Append(s, e) \in Seq(S)
      /\ Len(Append(s, e)) = Len(s)+1
      /\ \A i \in 1..Len(s) : Append(s, e)[i] = s[i]
      /\ Append(s, e)[Len(s)+1] = e
  BY AppendProperties
<1>2. DOMAIN Append(s, e) = 1..(Len(s)+1) /\ DOMAIN s = 1..Len(s) /\ Len(s) \in Nat
  BY <1>1, LenProperties
<1>3. \A k \in 1..(Len(s)+1) : k = Len(s)+1 \/ k \in 1..Len(s)
  BY <1>2
<1>4. \A j, k \in 1..(Len(s)+1) : j < k => j \in 1..Len(s)
  BY <1>2
<1>. QED BY <1>1, <1>2, <1>3, <1>4

\* What Tail returns: a sequence each of whose elements is an element of the original.
LEMMA TailElements ==
  ASSUME NEW S, NEW s \in Seq(S), s # <<>>
  PROVE  /\ Head(s) \in S /\ 1 \in DOMAIN s /\ Head(s) = s[1]
         /\ Tail(s) \in Seq(S)
         /\ \A j \in DOMAIN Tail(s) : \E k \in DOMAIN s : Tail(s)[j] = s[k]
<1>1. /\ Tail(s) \in Seq(S) /\ Head(s) \in S
      /\ Len(Tail(s)) = Len(s)-1
      /\ \A i \in 1..Len(Tail(s)) : Tail(s)[i] = s[i+1]
  BY HeadTailProperties
<1>2. DOMAIN Tail(s) = 1..(Len(s)-1) /\ DOMAIN s = 1..Len(s) /\ Len(s) \in Nat \ {0}
  BY <1>1, LenProperties, EmptySeq
<1>3. \A j \in 1..(Len(s)-1) : j+1 \in 1..Len(s)
  BY <1>2
<1>4. 1 \in DOMAIN s /\ Head(s) = s[1]
  BY <1>2
<1>. QED BY <1>1, <1>2, <1>3, <1>4

-----------------------------------------------------------------------------
\* Type correctness together with the map of in-flight requests.
TypeInv == TypeOK /\ PendingSound /\ MethodKnown

\* A record that changes keeps its type whether or not the write goes through.
LEMMA PersistType ==
  ASSUME NEW s \in SessionOrNone, stored \in SessionOrNone, Persist(s)
  PROVE  stored' \in SessionOrNone
BY DEF Persist

\* Frames the wallet puts on the channel are frames.
LEMMA FrameTypes ==
  /\ \A m \in Request, k \in AnswerKind, s \in SessionOrNone : Answer(m, k, s) \in AnswerFrame
  /\ \A k \in EventKind, s \in Sessions : Event(k, s) \in EventFrame
BY DEF Answer, Event, AnswerFrame, EventFrame, Request, Sealed

LEMMA InitTypeInv == Init => TypeInv
<1> SUFFICES ASSUME Init PROVE TypeInv
  OBVIOUS
<1>1. TypeOK
  <2>1. conts \in Seq(Continuation) /\ toClient \in Seq(Frame)
    BY EmptySeq DEF Init
  <2>2. outcome \in [Reqs -> Outcomes] /\ method \in [Reqs -> Methods \cup {None}]
    BY DEF Init, Outcomes, Methods
  <2>3. dups \in 0..MaxDups
    BY LinkAssumption DEF Init
  <2>. QED BY <2>1, <2>2, <2>3 DEF TypeOK, Init, SessionOrNone
<1>2. PendingSound /\ MethodKnown
  BY DEF Init, PendingSound, MethodKnown
<1>. QED BY <1>1, <1>2 DEF TypeInv

\* What a request becomes when it is issued or settled.
LEMMA OutcomeType ==
  ASSUME TypeOK, NEW o \in Outcomes
  PROVE  /\ \A r \in Reqs : [outcome EXCEPT ![r] = o] \in [Reqs -> Outcomes]
         /\ \A S \in SUBSET Reqs : Settled(S, o) \in [Reqs -> Outcomes]
BY DEF TypeOK, Settled

LEMMA ApplicationTypeInv ==
  ASSUME TypeInv, Application
  PROVE  TypeInv'
<1> USE LinkAssumption DEF TypeInv, clientVars, requestVars, walletVars, channelVars
<1>1. ASSUME NEW r \in Reqs, NEW m \in Methods, RefuseRequest(r, m)
      PROVE  TypeInv'
  BY <1>1 DEF RefuseRequest, TypeOK, PendingSound, MethodKnown, Outcomes
<1>2. ASSUME NEW r \in Reqs, NEW m \in Methods, ThrowFromRequest(r, m)
      PROVE  TypeInv'
  BY <1>2 DEF ThrowFromRequest, TypeOK, PendingSound, MethodKnown, Outcomes, Refused
<1>3. ASSUME NEW r \in Reqs, NEW m \in Methods,
             NEW extra \in (IF m = "connect" THEN ExtraSessions ELSE {}) \cup {None},
             SendRequest(r, m, extra)
      PROVE  TypeInv'
  <2>1. Envelope(r, m, extra) \in Request
    BY <1>3 DEF Envelope, Request, Resume, SessionOrNone, TypeOK
  <2>. QED BY <1>3, <2>1 DEF SendRequest, TypeOK, PendingSound, MethodKnown, Outcomes, Refused
<1>4. CASE Close
  <2>1. outcome' \in [Reqs -> Outcomes]
    BY <1>4, OutcomeType DEF Close, RejectAll, Outcomes, TypeOK
  <2>2. \A r \in Reqs : outcome'[r] = IF r \in pending THEN "rejected" ELSE outcome[r]
    BY <1>4 DEF Close, RejectAll, Settled
  <2>. QED BY <1>4, <2>1, <2>2 DEF Close, RejectAll, TypeOK, PendingSound, MethodKnown
<1>5. CASE ForgetLocally
  BY <1>5, PersistType DEF ForgetLocally, ForgetSession, TypeOK, SessionOrNone, PendingSound, MethodKnown
<1>6. CASE TakeUnmatchedResponse
  BY <1>6 DEF TakeUnmatchedResponse, TypeOK, PendingSound, MethodKnown
<1>7. CASE Reload
  <2>1. outcome' \in [Reqs -> Outcomes]
    BY <1>7, OutcomeType DEF Reload, Outcomes, TypeOK
  <2>2. \A r \in Reqs : outcome'[r] = IF r \in pending THEN "lost" ELSE outcome[r]
    BY <1>7 DEF Reload, Settled
  <2>. QED BY <1>7, <2>1, <2>2 DEF Reload, TypeOK, PendingSound, MethodKnown
<1>. QED BY <1>1, <1>2, <1>3, <1>4, <1>5, <1>6, <1>7 DEF Application

\* Handling a frame changes the client's state within its types and keeps the map exact.
LEMMA HandleFrameTypeInv ==
  ASSUME TypeInv, NEW f \in Frame, HandleFrame(f)
  PROVE  /\ closed' = closed /\ sessionKey' = sessionKey
         /\ sessionId' \in SessionOrNone /\ lastConnect' \in SessionOrNone
         /\ stored' \in SessionOrNone /\ unmatched' \in Reqs \cup {None}
         /\ pending' \subseteq Reqs /\ outcome' \in [Reqs -> Outcomes]
         /\ method' = method /\ conts' \in Seq(Continuation)
         /\ sending' = sending /\ thrown' = thrown /\ gaveUp' = gaveUp
         /\ issuedHere' = issuedHere /\ dropped' \subseteq Sessions
         /\ PendingSound' /\ MethodKnown'
<1> USE LinkAssumption DEF TypeInv, clientVars, requestVars
<1>1. CASE Opens(f) /\ HandleEvent(f)
  <2>1. f \in EventFrame
    BY <1>1 DEF HandleEvent, Frame, AnswerFrame, AnswerKind, EventKind
  <2>2. f.session \in Sessions
    BY <2>1 DEF EventFrame
  <2>3. sessionId' \in SessionOrNone /\ lastConnect' \in SessionOrNone /\ stored' \in SessionOrNone
    BY <1>1, <2>2, PersistType DEF HandleEvent, AdoptConnectResult, ForgetSession, TypeOK, SessionOrNone
  <2>. QED BY <1>1, <2>2, <2>3 DEF HandleEvent, TypeOK, PendingSound, MethodKnown
<1>2. CASE Opens(f) /\ HandleAnswer(f)
  <2>1. f \in AnswerFrame
    BY <1>2 DEF HandleAnswer, Frame, EventFrame, AnswerKind, EventKind
  <2>2. f.id \in Reqs /\ f.session \in SessionOrNone
    BY <2>1 DEF AnswerFrame
  <2>3. CASE f.id \in pending
    <3>1. outcome[f.id] # "idle" /\ method[f.id] \in Methods
      BY <2>2, <2>3 DEF PendingSound, MethodKnown
    <3>2. conts' \in Seq(Continuation)
      <4>1. CASE conts' = conts
        BY <4>1 DEF TypeOK
      <4>2. CASE conts' # conts
        <5>1. /\ conts' = Append(conts, [method |-> method[f.id], session |-> f.session])
              /\ method[f.id] # "other"
          BY <4>2, <2>3, <1>2 DEF HandleAnswer, Resumed
        <5>2. [method |-> method[f.id], session |-> f.session] \in Continuation
          BY <5>1, <3>1, <2>2 DEF Continuation, Methods
        <5>. QED BY <5>1, <5>2, AppendProperties DEF TypeOK
      <4>. QED BY <4>1, <4>2
    <3>3. /\ pending' = pending \ {f.id}
          /\ \E o \in {"resolved", "rejected"} : outcome' = [outcome EXCEPT ![f.id] = o]
      BY <1>2, <2>3 DEF HandleAnswer
    <3>. QED
      BY <1>2, <2>2, <2>3, <3>2, <3>3 DEF HandleAnswer, TypeOK, PendingSound, MethodKnown, Outcomes
  <2>4. CASE f.id \notin pending
    BY <1>2, <2>2, <2>4 DEF HandleAnswer, TypeOK, PendingSound, MethodKnown
  <2>. QED BY <2>3, <2>4
<1>3. CASE ~Opens(f) /\ UNCHANGED <<clientVars, requestVars, conts, dropped>>
  BY <1>3 DEF TypeOK, PendingSound, MethodKnown
<1>. QED BY <1>1, <1>2, <1>3 DEF HandleFrame

LEMMA ClientTypeInv ==
  ASSUME TypeInv, Client
  PROVE  TypeInv'
<1> USE LinkAssumption DEF TypeInv, clientVars, requestVars, walletVars, channelVars
<1>1. ASSUME NEW r \in Reqs, SendRejects(r)
      PROVE  TypeInv'
  BY <1>1 DEF SendRejects, TypeOK, PendingSound, MethodKnown, Outcomes
<1>2. ASSUME NEW r \in Reqs, SendResolves(r)
      PROVE  TypeInv'
  BY <1>2 DEF SendResolves, TypeOK, PendingSound, MethodKnown, Outcomes
<1>3. ASSUME NEW r \in Reqs, RequestTimeout(r)
      PROVE  TypeInv'
  BY <1>3 DEF RequestTimeout, TypeOK, PendingSound, MethodKnown, Outcomes
<1>4. ASSUME NEW i \in DOMAIN toClient, Deliver(i)
      PROVE  TypeInv'
  <2>1. i \in 1..Len(toClient) /\ toClient[i] \in Frame
    BY LenProperties DEF TypeOK
  <2>2. toClient' \in Seq(Frame)
    BY <1>4, <2>1, RemoveAtProperties DEF Deliver, TypeOK
  <2>3. dups' \in 0..MaxDups
    BY <1>4 DEF Deliver, TypeOK
  <2>. QED BY <1>4, <2>1, <2>2, <2>3, HandleFrameTypeInv DEF Deliver, TypeOK
<1>5. ASSUME NEW f \in StrayFrame, DeliverStray(f)
      PROVE  TypeInv'
  <2>1. f \in Frame
    BY DEF StrayFrame, Frame, AnswerFrame, EventFrame, AnswerKind, SessionOrNone, Sealed
  <2>. QED BY <1>5, <2>1, HandleFrameTypeInv DEF DeliverStray, TypeOK
<1>6. ASSUME NEW s \in SessionOrNone, KeyHop(s)
      PROVE  TypeInv'
  <2>1. sessionId' \in SessionOrNone /\ lastConnect' \in SessionOrNone /\ stored' \in SessionOrNone
    BY <1>6, PersistType DEF KeyHop, AdoptConnectResult, TypeOK
  <2>. QED BY <1>6, <2>1 DEF KeyHop, Grant, TypeOK, PendingSound, MethodKnown
<1>7. CASE Continue
  <2>1. conts # <<>>
    BY <1>7 DEF Continue
  <2>2. Head(conts) \in Continuation /\ conts' \in Seq(Continuation)
    BY <1>7, <2>1, HeadTailProperties DEF Continue, TypeOK
  <2>3. Head(conts).session \in SessionOrNone
    BY <2>2 DEF Continuation
  <2>4. sessionId' \in SessionOrNone /\ lastConnect' \in SessionOrNone /\ stored' \in SessionOrNone
    BY <1>7, <2>3, PersistType
    DEF Continue, AdoptConnectResult, ForgetSession, TypeOK, SessionOrNone
  <2>5. dropped' \subseteq Sessions
    BY <1>7, <2>3 DEF Continue, TypeOK, SessionOrNone
  <2>. QED BY <1>7, <2>2, <2>4, <2>5 DEF Continue, TypeOK, PendingSound, MethodKnown
<1>. QED BY <1>1, <1>2, <1>3, <1>4, <1>5, <1>6, <1>7 DEF Client

LEMMA WalletTypeInv ==
  ASSUME TypeInv, Wallet
  PROVE  TypeInv'
<1> USE LinkAssumption DEF TypeInv, clientVars, requestVars, walletVars, channelVars
<1>1. ASSUME NEW m \in toWallet, WalletAnswer(m)
      PROVE  TypeInv'
  <2>0. m \in Request /\ m.session \in SessionOrNone /\ m.resume \in SessionOrNone
    BY DEF TypeOK, Request
  <2>1. \A k \in AnswerKind, s \in SessionOrNone : Append(toClient, Answer(m, k, s)) \in Seq(Frame)
    BY <2>0, FrameTypes, AppendProperties DEF TypeOK, Frame
  <2>2. toClient' \in Seq(Frame)
    <3>1. AnswerKinds \subseteq AnswerKind /\ None \in SessionOrNone /\ "ok" \in AnswerKind
      BY DEF AnswerKind, SessionOrNone
    <3>2. CASE AnswerConnect(m)
      BY <2>0, <2>1, <3>1, <3>2 DEF AnswerConnect, SessionOrNone
    <3>3. CASE AnswerDisconnect(m)
      BY <2>0, <2>1, <3>1, <3>3 DEF AnswerDisconnect
    <3>4. CASE \E k \in AnswerKinds : toClient' = Append(toClient, Answer(m, k, None))
      BY <2>1, <3>1, <3>4
    <3>. QED BY <1>1, <3>2, <3>3, <3>4 DEF WalletAnswer
  <2>3. live' \subseteq granted' /\ granted' \subseteq Sessions
    <3>1. CASE UNCHANGED walletVars
      BY <3>1 DEF TypeOK
    <3>2. ASSUME NEW s \in Sessions, Grant(s)
          PROVE  live' \subseteq granted' /\ granted' \subseteq Sessions
      BY <3>2 DEF Grant, TypeOK
    <3>3. CASE AnswerDisconnect(m)
      BY <3>3 DEF AnswerDisconnect, TypeOK
    <3>. QED BY <1>1, <3>1, <3>2, <3>3 DEF WalletAnswer, AnswerConnect
  <2>. QED BY <1>1, <2>2, <2>3 DEF WalletAnswer, TypeOK, PendingSound, MethodKnown
<1>2. ASSUME NEW s \in Sessions, WalletPush(s)
      PROVE  TypeInv'
  <2>1. Append(toClient, Event("established", s)) \in Seq(Frame)
    BY FrameTypes, AppendProperties DEF TypeOK, Frame, EventKind
  <2>. QED BY <1>2, <2>1 DEF WalletPush, Grant, TypeOK, PendingSound, MethodKnown
<1>3. ASSUME NEW s \in Sessions, WalletDelete(s)
      PROVE  TypeInv'
  <2>1. Append(toClient, Event("deleted", s)) \in Seq(Frame)
    BY FrameTypes, AppendProperties DEF TypeOK, Frame, EventKind
  <2>. QED BY <1>3, <2>1 DEF WalletDelete, TypeOK, PendingSound, MethodKnown
<1>4. CASE Lose
  <2>1. \A i \in DOMAIN toClient : RemoveAt(toClient, i) \in Seq(Frame)
    BY RemoveAtProperties, LenProperties DEF TypeOK
  <2>. QED BY <1>4, <2>1 DEF Lose, TypeOK, PendingSound, MethodKnown
<1>. QED BY <1>1, <1>2, <1>3, <1>4 DEF Wallet

\* The state of the session layer keeps its types, and its map of in-flight requests holds
\* exactly the open promises and is empty once the client is closed.
THEOREM TypeCorrect == Spec => [](TypeOK /\ PendingSound /\ MethodKnown)
<1>1. TypeInv /\ [Next]_vars => TypeInv'
  <2>1. CASE UNCHANGED vars
    BY <2>1 DEF TypeInv, TypeOK, PendingSound, MethodKnown, vars
  <2>. QED BY <2>1, ApplicationTypeInv, ClientTypeInv, WalletTypeInv DEF Next
<1>. QED BY <1>1, InitTypeInv, PTL DEF Spec, TypeInv

-----------------------------------------------------------------------------
(* No plaintext on a sealed channel.                                       *)

SealInv == KeySound /\ SealedOnly

\* The key never leaves once it is there, and a request carries the seal of its moment.
LEMMA SealStep ==
  ASSUME SealInv, Next
  PROVE  SealInv'
<1> USE LinkAssumption
    DEF SealInv, KeySound, SealedOnly, Sealed, RequireKey,
        clientVars, requestVars, walletVars, channelVars
<1>1. CASE Application
  <2>1. ASSUME NEW r \in Reqs, NEW m \in Methods, RefuseRequest(r, m) \/ ThrowFromRequest(r, m)
        PROVE  SealInv'
    BY <2>1 DEF RefuseRequest, ThrowFromRequest
  <2>2. ASSUME NEW r \in Reqs, NEW m \in Methods, NEW extra, SendRequest(r, m, extra)
        PROVE  SealInv'
    <3>1. Sealed => sessionKey
      BY <2>2 DEF SendRequest, Refused
    <3>2. Envelope(r, m, extra).sealed = sessionKey
      BY DEF Envelope
    <3>3. sessionKey' = sessionKey /\ toWallet' = toWallet \cup {Envelope(r, m, extra)}
      BY <2>2 DEF SendRequest
    <3>4. KeySound'
      BY <3>3
    <3>5. ASSUME NEW q \in toWallet', Sealed
          PROVE  q.sealed
      <4>1. CASE q \in toWallet
        BY <4>1, <3>5
      <4>2. CASE q = Envelope(r, m, extra)
        <5>1. Envelope(r, m, extra).sealed
          BY <3>1, <3>2, <3>5, Zenon
        <5>. QED BY <4>2, <5>1
      <4>. QED BY <4>1, <4>2, <3>3
    <3>. QED BY <3>4, <3>5
  <2>3. CASE Close \/ ForgetLocally \/ TakeUnmatchedResponse
    BY <2>3 DEF Close, ForgetLocally, TakeUnmatchedResponse
  <2>4. CASE Reload
    <3>1. KeyMode = "preset" /\ toWallet' = toWallet /\ sessionKey' = (KeyMode = "preset")
      BY <2>4 DEF Reload
    <3>2. sessionKey'
      BY <3>1, Zenon
    <3>. QED BY <3>1, <3>2
  <2>. QED BY <1>1, <2>1, <2>2, <2>3, <2>4 DEF Application
<1>2. CASE Client
  <2>1. ASSUME NEW r \in Reqs, SendRejects(r) \/ SendResolves(r) \/ RequestTimeout(r)
        PROVE  SealInv'
    BY <2>1 DEF SendRejects, SendResolves, RequestTimeout
  <2>2. ASSUME NEW f, HandleFrame(f)
        PROVE  sessionKey' = sessionKey
    BY <2>2 DEF HandleFrame, HandleEvent, HandleAnswer
  <2>3. ASSUME NEW i \in DOMAIN toClient, Deliver(i)
        PROVE  SealInv'
    BY <2>2, <2>3 DEF Deliver
  <2>4. ASSUME NEW f \in StrayFrame, DeliverStray(f)
        PROVE  SealInv'
    BY <2>2, <2>4 DEF DeliverStray
  <2>5. ASSUME NEW s \in SessionOrNone, KeyHop(s)
        PROVE  SealInv'
    BY <2>5 DEF KeyHop
  <2>6. CASE Continue
    BY <2>6 DEF Continue
  <2>. QED BY <1>2, <2>1, <2>3, <2>4, <2>5, <2>6 DEF Client
<1>3. CASE Wallet
  <2>1. sessionKey' = sessionKey
    BY <1>3 DEF Wallet, WalletAnswer, WalletPush, WalletDelete, Lose
  <2>2. toWallet' \subseteq toWallet
    BY <1>3 DEF Wallet, WalletAnswer, WalletPush, WalletDelete, Lose
  <2>. QED BY <2>1, <2>2
<1>. QED BY <1>1, <1>2, <1>3 DEF Next

\* No request leaves in plaintext on a channel that has a key or waits for one.
THEOREM NothingInPlaintext == Spec => []SealedOnly
<1>1. Init => SealInv
  BY LinkAssumption DEF Init, SealInv, KeySound, SealedOnly
<1>2. SealInv /\ [Next]_vars => SealInv'
  <2>1. SealInv /\ UNCHANGED vars => SealInv'
    BY DEF SealInv, KeySound, SealedOnly, vars
  <2>. QED BY <2>1, SealStep
<1>3. SealInv => SealedOnly
  BY DEF SealInv
<1>. QED BY <1>1, <1>2, <1>3, PTL DEF Spec

-----------------------------------------------------------------------------
(* The session layer implements RequestLifecycle.                          *)

\* Handling a frame settles at most one open promise.
LEMMA HandleFrameSettles ==
  ASSUME TypeInv, NEW f \in Frame, HandleFrame(f)
  PROVE  /\ closed' = closed
         /\ outcome' = outcome \/ \E r \in Reqs : Lifecycle!Settle(r)
<1>1. CASE HandleAnswer(f)
  <2>1. f \in AnswerFrame
    BY <1>1 DEF HandleAnswer, Frame, EventFrame, AnswerKind, EventKind
  <2>2. f.id \in Reqs
    BY <2>1 DEF AnswerFrame
  <2>3. CASE f.id \in pending
    <3>1. outcome[f.id] = "waiting"
      BY <2>3 DEF TypeInv, PendingSound
    <3>2. closed' = closed /\ \E o \in {"resolved", "rejected"} : outcome' = [outcome EXCEPT ![f.id] = o]
      BY <1>1, <2>3 DEF HandleAnswer
    <3>. QED BY <2>2, <3>1, <3>2 DEF Lifecycle!Settle
  <2>4. CASE f.id \notin pending
    BY <1>1, <2>4 DEF HandleAnswer
  <2>. QED BY <2>3, <2>4
<1>2. CASE HandleEvent(f) \/ UNCHANGED <<clientVars, requestVars, conts, dropped>>
  BY <1>2 DEF HandleEvent, clientVars, requestVars
<1>. QED BY <1>1, <1>2 DEF HandleFrame

LEMMA LifecycleStep ==
  ASSUME TypeInv, Next
  PROVE  Lifecycle!LNext \/ UNCHANGED Lifecycle!lifecycleVars
<1> USE DEF clientVars, requestVars, walletVars, channelVars, Lifecycle!lifecycleVars
<1>0. pending = Lifecycle!Open
  BY DEF TypeInv, PendingSound, Lifecycle!Open
<1>1. CASE Application
  <2>1. ASSUME NEW r \in Reqs, NEW m \in Methods, RefuseRequest(r, m)
        PROVE  Lifecycle!Refuse(r)
    BY <2>1 DEF RefuseRequest, Lifecycle!Refuse
  <2>2. ASSUME NEW r \in Reqs, NEW m \in Methods, ThrowFromRequest(r, m)
        PROVE  Lifecycle!Accept(r)
    BY <2>2 DEF ThrowFromRequest, Refused, Lifecycle!Accept
  <2>3. ASSUME NEW r \in Reqs, NEW m \in Methods, NEW extra, SendRequest(r, m, extra)
        PROVE  Lifecycle!Accept(r)
    BY <2>3 DEF SendRequest, Refused, Lifecycle!Accept
  <2>4. Close => Lifecycle!Shut
    BY <1>0 DEF Close, RejectAll, Settled, Lifecycle!Shut, Lifecycle!EndOpen
  <2>5. Reload => Lifecycle!Unload
    BY <1>0 DEF Reload, Settled, Lifecycle!Unload, Lifecycle!EndOpen
  <2>6. ForgetLocally \/ TakeUnmatchedResponse => UNCHANGED <<closed, outcome>>
    BY DEF ForgetLocally, TakeUnmatchedResponse
  <2>. QED BY <1>1, <2>1, <2>2, <2>3, <2>4, <2>5, <2>6 DEF Application, Lifecycle!LNext
<1>2. CASE Client
  <2>1. ASSUME NEW r \in Reqs, SendRejects(r) \/ RequestTimeout(r)
        PROVE  Lifecycle!Settle(r) \/ UNCHANGED <<closed, outcome>>
    BY <2>1 DEF SendRejects, RequestTimeout, Lifecycle!Settle, TypeInv, PendingSound
  <2>2. ASSUME NEW r \in Reqs, SendResolves(r)
        PROVE  UNCHANGED <<closed, outcome>>
    BY <2>2 DEF SendResolves
  <2>3. ASSUME NEW i \in DOMAIN toClient, Deliver(i)
        PROVE  Lifecycle!LNext \/ UNCHANGED <<closed, outcome>>
    <3>1. toClient[i] \in Frame
      BY LenProperties DEF TypeInv, TypeOK
    <3>. QED BY <2>3, <3>1, HandleFrameSettles DEF Deliver, Lifecycle!LNext
  <2>4. ASSUME NEW f \in StrayFrame, DeliverStray(f)
        PROVE  Lifecycle!LNext \/ UNCHANGED <<closed, outcome>>
    <3>1. f \in Frame
      BY DEF StrayFrame, Frame, AnswerFrame, EventFrame, AnswerKind, SessionOrNone, Sealed
    <3>. QED BY <2>4, <3>1, HandleFrameSettles DEF DeliverStray, Lifecycle!LNext
  <2>5. ASSUME NEW s \in SessionOrNone, KeyHop(s)
        PROVE  UNCHANGED <<closed, outcome>>
    BY <2>5 DEF KeyHop
  <2>6. Continue => UNCHANGED <<closed, outcome>>
    BY DEF Continue
  <2>. QED BY <1>2, <2>1, <2>2, <2>3, <2>4, <2>5, <2>6 DEF Client, Lifecycle!LNext
<1>3. CASE Wallet
  BY <1>3 DEF Wallet, WalletAnswer, WalletPush, WalletDelete, Lose
<1>. QED BY <1>1, <1>2, <1>3 DEF Next

\* Every behaviour of the session layer is a behaviour of RequestLifecycle: a request is
\* accepted only while the client is open, settles once, and no close leaves it open.
THEOREM LifecycleImplemented == Spec => ImplementsLifecycle
<1>1. Init => Lifecycle!LInit
  BY DEF Init, Lifecycle!LInit
<1>2. TypeInv /\ [Next]_vars => [Lifecycle!LNext]_(Lifecycle!lifecycleVars)
  <2>1. UNCHANGED vars => UNCHANGED Lifecycle!lifecycleVars
    BY DEF vars, Lifecycle!lifecycleVars
  <2>. QED BY <2>1, LifecycleStep
<1>3. Spec => []TypeInv
  BY TypeCorrect DEF TypeInv
<1>. QED BY <1>1, <1>2, <1>3, PTL DEF Spec, ImplementsLifecycle, Lifecycle!LSpec

-----------------------------------------------------------------------------
(* Only the wallet speaks.                                                 *)

\* A frame that is not in the form the channel requires does not open.
LEMMA StrayIsDropped ==
  ASSUME SealInv, NEW f \in StrayFrame
  PROVE  ~Opens(f)
<1>1. f.sealed = ~Sealed
  BY DEF StrayFrame
<1>2. (sessionKey => Sealed) /\ (Sealed /\ ~sessionKey => RequireKey)
  BY LinkAssumption DEF SealInv, KeySound, Sealed, RequireKey
<1>. QED BY <1>1, <1>2, Zenon DEF Opens

\* A step that sends no request and brings no answer to a request that has none yet, and
\* resolves no promise whose request is on its way.
LEMMA OneAnswerFrame ==
  ASSUME OneAnswer, toWallet' \subseteq toWallet,
         \A j \in DOMAIN toClient' : \E k \in DOMAIN toClient : toClient'[j] = toClient[k],
         \A r \in Reqs : outcome[r] # "idle" => outcome'[r] # "idle",
         \A m \in toWallet : m.id \in Reqs /\ outcome'[m.id] # "resolved"
  PROVE  OneAnswer'
BY DEF OneAnswer

\* The same when the frames stay, too, which is most steps.
LEMMA OneAnswerStays ==
  ASSUME TypeInv, OneAnswer, UNCHANGED <<toWallet, toClient>>,
         \A r \in Reqs : /\ outcome[r] # "idle" => outcome'[r] # "idle"
                         /\ outcome'[r] = "resolved" => outcome[r] = "resolved"
  PROVE  OneAnswer'
<1>1. \A m \in toWallet : m.id \in Reqs /\ outcome'[m.id] # "resolved"
  BY DEF TypeInv, TypeOK, Request, OneAnswer
<1>. QED BY <1>1, OneAnswerFrame

\* A frame from the channel settles no promise whose request is on its way.
LEMMA HandledOneAnswer ==
  ASSUME TypeInv, OneAnswer, NEW i \in DOMAIN toClient, HandleFrame(toClient[i])
  PROVE  /\ \A r \in Reqs : outcome[r] # "idle" => outcome'[r] # "idle"
         /\ \A m \in toWallet : m.id \in Reqs /\ outcome'[m.id] # "resolved"
<1> DEFINE f == toClient[i]
<1>1. \A m \in toWallet : m.id \in Reqs /\ outcome[m.id] # "resolved" /\ f.id # m.id
  BY DEF TypeInv, TypeOK, Request, OneAnswer
<1>2. outcome \in [Reqs -> Outcomes]
  BY DEF TypeInv, TypeOK
<1>3. outcome' = outcome \/ \E o \in {"resolved", "rejected"} : outcome' = [outcome EXCEPT ![f.id] = o]
  BY DEF HandleFrame, HandleEvent, HandleAnswer, requestVars
<1>. QED BY <1>1, <1>2, <1>3

LEMMA OneAnswerStep ==
  ASSUME TypeInv, SealInv, OneAnswer, [Next]_vars
  PROVE  OneAnswer'
<1> USE DEF clientVars, requestVars, walletVars, channelVars
<1>1. /\ outcome \in [Reqs -> Outcomes] /\ toClient \in Seq(Frame)
      /\ \A m \in toWallet : m \in Request /\ m.id \in Reqs
  BY DEF TypeInv, TypeOK, Request
<1>2. CASE Application
  <2>1. ASSUME NEW r \in Reqs, NEW m \in Methods, RefuseRequest(r, m) \/ ThrowFromRequest(r, m)
        PROVE  OneAnswer'
    BY <1>1, <2>1, OneAnswerStays DEF RefuseRequest, ThrowFromRequest
  <2>2. ASSUME NEW r \in Reqs, NEW m \in Methods, NEW extra, SendRequest(r, m, extra)
        PROVE  OneAnswer'
    <3> DEFINE e == Envelope(r, m, extra)
    <3>1. /\ outcome[r] = "idle" /\ outcome' = [outcome EXCEPT ![r] = "waiting"]
          /\ toWallet' = toWallet \cup {e} /\ toClient' = toClient /\ e.id = r
      BY <2>2 DEF SendRequest, Envelope
    <3>2. \A n \in toWallet : n.id # r
      BY <3>1 DEF OneAnswer
    <3>3. \A i \in DOMAIN toClient : toClient[i].id # r
      BY <3>1 DEF OneAnswer
    <3> HIDE DEF e
    <3>. QED BY <1>1, <3>1, <3>2, <3>3 DEF OneAnswer
  <2>3. CASE Close \/ Reload
    <3>1. UNCHANGED <<toWallet, toClient>> /\ \E o \in {"rejected", "lost"} : outcome' = Settled(pending, o)
      BY <2>3 DEF Close, RejectAll, Reload
    <3>. QED BY <3>1, OneAnswerStays DEF Settled
  <2>4. CASE ForgetLocally \/ TakeUnmatchedResponse
    BY <2>4, OneAnswerStays DEF ForgetLocally, TakeUnmatchedResponse
  <2>. QED BY <1>2, <2>1, <2>2, <2>3, <2>4 DEF Application
<1>3. CASE Client
  <2>1. ASSUME NEW r \in Reqs, SendRejects(r) \/ SendResolves(r) \/ RequestTimeout(r)
        PROVE  OneAnswer'
    BY <1>1, <2>1, OneAnswerStays DEF SendRejects, SendResolves, RequestTimeout
  <2>2. ASSUME NEW i \in DOMAIN toClient, Deliver(i)
        PROVE  OneAnswer'
    <3>1. HandleFrame(toClient[i]) /\ toWallet' = toWallet
          /\ (toClient' = toClient \/ toClient' = RemoveAt(toClient, i))
      BY <2>2 DEF Deliver
    <3>2. \A j \in DOMAIN toClient' : \E k \in DOMAIN toClient : toClient'[j] = toClient[k]
      <4>1. i \in 1..Len(toClient)
        BY <1>1, LenProperties
      <4>. QED BY <1>1, <3>1, <4>1, RemoveAtProperties
    <3>. QED BY <3>1, <3>2, HandledOneAnswer, OneAnswerFrame
  <2>3. ASSUME NEW f \in StrayFrame, DeliverStray(f)
        PROVE  OneAnswer'
    BY <2>3, StrayIsDropped, OneAnswerStays DEF DeliverStray, HandleFrame
  <2>4. ASSUME NEW s \in SessionOrNone, KeyHop(s)
        PROVE  OneAnswer'
    BY <2>4, OneAnswerStays DEF KeyHop
  <2>5. CASE Continue
    BY <2>5, OneAnswerStays DEF Continue
  <2>. QED BY <1>3, <2>1, <2>2, <2>3, <2>4, <2>5 DEF Client
<1>4. CASE Wallet
  <2>1. outcome' = outcome
    BY <1>4 DEF Wallet, WalletAnswer, WalletPush, WalletDelete, Lose
  <2>2. ASSUME NEW m \in toWallet, WalletAnswer(m)
        PROVE  OneAnswer'
    <3>1. toWallet' = toWallet \ {m}
      BY <2>2 DEF WalletAnswer
    <3>2. PICK f \in Frame : toClient' = Append(toClient, f) /\ f.id = m.id
      <4>1. \A k \in AnswerKind, s \in SessionOrNone : Answer(m, k, s) \in Frame /\ Answer(m, k, s).id = m.id
        BY <1>1, FrameTypes DEF Frame, Answer
      <4>2. m.resume \in SessionOrNone /\ m.session \in SessionOrNone /\ Sessions \subseteq SessionOrNone
            /\ None \in SessionOrNone /\ AnswerKinds \subseteq AnswerKind /\ "ok" \in AnswerKind
        BY <1>1, LinkAssumption DEF Request, SessionOrNone, AnswerKind
      <4>. QED BY <2>2, <4>1, <4>2 DEF WalletAnswer, AnswerConnect, AnswerDisconnect
    <3>3. /\ m.id \in Reqs /\ outcome[m.id] # "idle"
          /\ \A n \in toWallet' : n.id # m.id
      BY <1>1, <3>1 DEF OneAnswer
    <3>4. \A j \in DOMAIN toClient' : toClient'[j] = f \/ \E k \in DOMAIN toClient : toClient'[j] = toClient[k]
      BY <1>1, <3>2, AppendElements
    <3>. QED BY <2>1, <3>1, <3>2, <3>3, <3>4 DEF OneAnswer
  <2>3. ASSUME NEW s \in Sessions, WalletPush(s) \/ WalletDelete(s)
        PROVE  OneAnswer'
    <3>1. PICK f \in Frame : toClient' = Append(toClient, f) /\ f.id = None /\ toWallet' = toWallet
      BY <2>3, FrameTypes DEF WalletPush, WalletDelete, Event, EventKind, Frame
    <3>2. \A j \in DOMAIN toClient' : toClient'[j] = f \/ \E k \in DOMAIN toClient : toClient'[j] = toClient[k]
      BY <1>1, <3>1, AppendElements
    <3>. QED BY <1>1, <2>1, <3>1, <3>2, LinkAssumption DEF OneAnswer
  <2>4. CASE Lose
    <3>1. toWallet' \subseteq toWallet
          /\ \A j \in DOMAIN toClient' : \E k \in DOMAIN toClient : toClient'[j] = toClient[k]
      <4>1. ASSUME NEW i \in DOMAIN toClient, toClient' = RemoveAt(toClient, i)
            PROVE  \A j \in DOMAIN toClient' : \E k \in DOMAIN toClient : toClient'[j] = toClient[k]
        <5>1. i \in 1..Len(toClient)
          BY <1>1, LenProperties
        <5>. QED BY <1>1, <4>1, <5>1, RemoveAtProperties
      <4>. QED BY <2>4, <4>1 DEF Lose
    <3>2. \A m \in toWallet : m.id \in Reqs /\ outcome'[m.id] # "resolved"
      BY <1>1, <2>1 DEF OneAnswer
    <3>. QED BY <2>1, <3>1, <3>2, OneAnswerFrame
  <2>. QED BY <1>4, <2>2, <2>3, <2>4 DEF Wallet
<1>5. CASE UNCHANGED vars
  BY <1>5, OneAnswerStays DEF vars
<1>. QED BY <1>2, <1>3, <1>4, <1>5 DEF Next

\* Sessions that may be named.
Named == granted \cup {None}

\* A step after which each session that is named was granted, or was named before.
LEMMA GrantedFrame ==
  ASSUME GrantedOnly, granted \subseteq granted', sessionId' \in Named', stored' \in Named',
         \A m \in toWallet' : m \in toWallet \/ m.session \in Named',
         \A j \in DOMAIN toClient' : \/ toClient'[j].session \in Named'
                                    \/ \E k \in DOMAIN toClient : toClient'[j] = toClient[k],
         \A j \in DOMAIN conts' : \/ conts'[j].session \in Named'
                                 \/ \E k \in DOMAIN conts : conts'[j] = conts[k]
  PROVE  GrantedOnly'
BY DEF GrantedOnly, Named

\* A step that names no session anew.
LEMMA GrantedStays ==
  ASSUME GrantedOnly, UNCHANGED <<granted, stored, conts>>, sessionId' \in Named,
         toWallet' \subseteq toWallet,
         \A j \in DOMAIN toClient' : \E k \in DOMAIN toClient : toClient'[j] = toClient[k]
  PROVE  GrantedOnly'
BY DEF GrantedOnly, Named

\* What is adopted is what is named afterwards; what is forgotten is not.
LEMMA Adopted ==
  ASSUME NEW G, NEW s \in G, None \in G, stored \in G
  PROVE  /\ AdoptConnectResult(s) => sessionId' \in G /\ stored' \in G
         /\ ForgetSession => sessionId' \in G /\ stored' \in G
BY DEF AdoptConnectResult, ForgetSession, Persist

LEMMA GrantedStep ==
  ASSUME TypeInv, SealInv, GrantedOnly, [Next]_vars
  PROVE  GrantedOnly'
<1> USE DEF clientVars, requestVars, walletVars, channelVars
<1>1. /\ toClient \in Seq(Frame) /\ conts \in Seq(Continuation) /\ live \subseteq granted
      /\ sessionId \in Named /\ stored \in Named /\ None \in Named
      /\ \A i \in DOMAIN toClient : toClient[i].session \in Named
      /\ \A i \in DOMAIN conts : conts[i].session \in Named
      /\ \A m \in toWallet : m \in Request /\ m.session \in Named
  BY DEF TypeInv, TypeOK, GrantedOnly, Named
<1>2. CASE Application
  <2>1. ASSUME NEW r \in Reqs, NEW m \in Methods, RefuseRequest(r, m) \/ ThrowFromRequest(r, m)
        PROVE  GrantedOnly'
    BY <1>1, <2>1, GrantedStays DEF RefuseRequest, ThrowFromRequest
  <2>2. ASSUME NEW r \in Reqs, NEW m \in Methods, NEW extra, SendRequest(r, m, extra)
        PROVE  GrantedOnly'
    <3>1. /\ UNCHANGED <<granted, sessionId, stored, toClient, conts>>
          /\ toWallet' = toWallet \cup {Envelope(r, m, extra)}
          /\ Envelope(r, m, extra).session = sessionId
      BY <2>2 DEF SendRequest, Envelope
    <3>2. Named' = Named
      BY <3>1 DEF Named
    <3>. QED BY <1>1, <3>1, <3>2, GrantedFrame
  <2>3. CASE Close \/ TakeUnmatchedResponse \/ Reload
    BY <1>1, <2>3, GrantedStays DEF Close, TakeUnmatchedResponse, Reload
  <2>4. CASE ForgetLocally
    <3>1. UNCHANGED <<granted, toWallet, toClient, conts>> /\ sessionId' \in Named /\ stored' \in Named
      BY <1>1, <2>4, Adopted DEF ForgetLocally
    <3>2. Named' = Named
      BY <3>1 DEF Named
    <3>. QED BY <1>1, <3>1, <3>2, GrantedFrame
  <2>. QED BY <1>2, <2>1, <2>2, <2>3, <2>4 DEF Application
<1>3. CASE Client
  <2>1. ASSUME NEW r \in Reqs, SendRejects(r) \/ SendResolves(r) \/ RequestTimeout(r)
        PROVE  GrantedOnly'
    BY <1>1, <2>1, GrantedStays DEF SendRejects, SendResolves, RequestTimeout
  <2>2. ASSUME NEW i \in DOMAIN toClient, Deliver(i)
        PROVE  GrantedOnly'
    <3> DEFINE f == toClient[i]
    <3>1. /\ HandleFrame(f) /\ UNCHANGED <<granted, toWallet>>
          /\ toClient' = toClient \/ toClient' = RemoveAt(toClient, i)
      BY <2>2 DEF Deliver
    <3>2. Named' = Named
      BY <3>1 DEF Named
    <3>3. \A j \in DOMAIN toClient' : \E k \in DOMAIN toClient : toClient'[j] = toClient[k]
      <4>1. i \in 1..Len(toClient)
        BY <1>1, LenProperties
      <4>. QED BY <1>1, <3>1, <4>1, RemoveAtProperties
    <3>4. f.session \in Named /\ f \in Frame
      BY <1>1, LenProperties
    <3> HIDE DEF f
    <3>5. CASE HandleEvent(f)
      <4>1. conts' = conts /\ sessionId' \in Named /\ stored' \in Named
        BY <1>1, <3>4, <3>5, Adopted DEF HandleEvent
      <4>. QED BY <1>1, <3>1, <3>2, <3>3, <4>1, GrantedFrame
    <3>6. CASE HandleAnswer(f)
      <4>1. UNCHANGED <<sessionId, stored>> /\ (conts' = conts \/ conts' = Resumed(f))
        BY <3>6 DEF HandleAnswer
      <4>2. \/ conts' = conts
            \/ \E c \in Continuation : c.session = f.session /\ conts' = Append(conts, c)
        <5>1. CASE f.id \in pending /\ f.kind = "ok" /\ method[f.id] # "other"
          <6>1. f.id \in Reqs /\ outcome[f.id] # "idle" /\ method[f.id] \in {"connect", "disconnect"}
            BY <5>1 DEF TypeInv, TypeOK, PendingSound, MethodKnown, Methods
          <6>2. f.session \in SessionOrNone
            BY <3>4 DEF Frame, AnswerFrame, EventFrame, SessionOrNone
          <6> DEFINE c == [method |-> method[f.id], session |-> f.session]
          <6>3. c \in Continuation /\ c.session = f.session
            BY <6>1, <6>2 DEF Continuation
          <6>4. conts' = Append(conts, c)
            BY <3>6, <5>1 DEF HandleAnswer, Resumed
          <6>. QED BY <6>3, <6>4
        <5>2. CASE ~(f.id \in pending /\ f.kind = "ok" /\ method[f.id] # "other")
          BY <3>6, <5>2 DEF HandleAnswer, Resumed
        <5>. QED BY <5>1, <5>2
      <4>3. \A j \in DOMAIN conts' : \/ conts'[j].session \in Named
                                    \/ \E k \in DOMAIN conts : conts'[j] = conts[k]
        <5>1. CASE conts' = conts
          BY <5>1
        <5>2. ASSUME NEW c \in Continuation, c.session = f.session, conts' = Append(conts, c)
              PROVE  \A j \in DOMAIN conts' : \/ conts'[j].session \in Named
                                              \/ \E k \in DOMAIN conts : conts'[j] = conts[k]
          <6>1. \A j \in DOMAIN conts' : conts'[j] = c \/ \E k \in DOMAIN conts : conts'[j] = conts[k]
            BY <1>1, <5>2, AppendElements
          <6>. QED BY <3>4, <5>2, <6>1
        <5>. QED BY <4>2, <5>1, <5>2
      <4>. QED BY <1>1, <3>1, <3>2, <3>3, <4>1, <4>3, GrantedFrame
    <3>7. CASE UNCHANGED <<clientVars, requestVars, conts, dropped>>
      BY <1>1, <3>1, <3>3, <3>7, GrantedStays
    <3>. QED BY <3>1, <3>5, <3>6, <3>7 DEF HandleFrame
  <2>3. ASSUME NEW f \in StrayFrame, DeliverStray(f)
        PROVE  GrantedOnly'
    BY <1>1, <2>3, StrayIsDropped, GrantedStays DEF DeliverStray, HandleFrame
  <2>4. ASSUME NEW s \in SessionOrNone, KeyHop(s)
        PROVE  GrantedOnly'
    <3>1. UNCHANGED <<toWallet, toClient, conts>> /\ granted \subseteq granted'
      BY <2>4 DEF KeyHop, Grant
    <3>2. Named \subseteq Named' /\ None \in Named'
      BY <3>1 DEF Named
    <3>3. sessionId' \in Named' /\ stored' \in Named'
      <4>1. CASE UNCHANGED <<sessionId, stored>>
        BY <1>1, <3>2, <4>1
      <4>2. CASE Grant(s) /\ AdoptConnectResult(s)
        <5>1. s \in Named' /\ stored \in Named'
          BY <1>1, <3>2, <4>2 DEF Grant, Named
        <5>. QED BY <3>2, <4>2, <5>1, Adopted
      <4>. QED BY <2>4, <4>1, <4>2 DEF KeyHop
    <3>. QED BY <3>1, <3>3, GrantedFrame
  <2>5. CASE Continue
    <3>1. conts # <<>> /\ conts' = Tail(conts) /\ UNCHANGED <<granted, toWallet, toClient>>
      BY <2>5 DEF Continue
    <3>2. /\ 1 \in DOMAIN conts /\ Head(conts) = conts[1]
          /\ \A j \in DOMAIN conts' : \E k \in DOMAIN conts : conts'[j] = conts[k]
      BY <1>1, <3>1, TailElements
    <3>3. Head(conts).session \in Named
      BY <1>1, <3>2
    <3>4. sessionId' \in Named /\ stored' \in Named
      BY <1>1, <2>5, <3>3, Adopted DEF Continue
    <3>5. Named' = Named
      BY <3>1 DEF Named
    <3>. QED BY <3>1, <3>2, <3>4, <3>5, GrantedFrame
  <2>. QED BY <1>3, <2>1, <2>2, <2>3, <2>4, <2>5 DEF Client
<1>4. CASE Wallet
  <2>1. UNCHANGED <<sessionId, stored, conts>> /\ toWallet' \subseteq toWallet
    BY <1>4 DEF Wallet, WalletAnswer, WalletPush, WalletDelete, Lose
  <2>2. granted \subseteq granted'
    BY <1>4 DEF Wallet, WalletAnswer, AnswerConnect, AnswerDisconnect, WalletPush, WalletDelete, Lose, Grant
  <2>3. Named \subseteq Named' /\ None \in Named' /\ live \subseteq Named
    BY <1>1, <2>2 DEF Named
  <2>4. ASSUME NEW f \in Frame, toClient' = Append(toClient, f), f.session \in Named'
        PROVE  GrantedOnly'
    <3>1. \A j \in DOMAIN toClient' : toClient'[j] = f \/ \E k \in DOMAIN toClient : toClient'[j] = toClient[k]
      BY <1>1, <2>4, AppendElements
    <3>2. \A j \in DOMAIN toClient' : \/ toClient'[j].session \in Named'
                                     \/ \E k \in DOMAIN toClient : toClient'[j] = toClient[k]
      BY <2>4, <3>1
    <3>. QED BY <1>1, <2>1, <2>2, <2>3, <3>2, GrantedFrame
  <2>5. ASSUME NEW m \in toWallet, WalletAnswer(m)
        PROVE  GrantedOnly'
    <3>1. \A k \in AnswerKind, s \in SessionOrNone : Answer(m, k, s) \in Frame /\ Answer(m, k, s).session = s
      BY <1>1, FrameTypes DEF Frame, Answer
    <3>2. m.resume \in SessionOrNone /\ m.session \in SessionOrNone /\ Sessions \subseteq SessionOrNone
          /\ None \in SessionOrNone /\ AnswerKinds \subseteq AnswerKind /\ "ok" \in AnswerKind
      BY <1>1, LinkAssumption DEF Request, SessionOrNone, AnswerKind
    <3>3. ASSUME NEW k \in AnswerKind, NEW s \in SessionOrNone, toClient' = Append(toClient, Answer(m, k, s)),
                 s \in Named'
          PROVE  GrantedOnly'
      BY <2>4, <3>1, <3>3
    <3>4. CASE AnswerConnect(m)
      <4>1. CASE m.resume \in live /\ toClient' = Append(toClient, Answer(m, "ok", m.resume))
        BY <2>3, <3>2, <3>3, <4>1
      <4>2. ASSUME NEW s \in Sessions, Grant(s), toClient' = Append(toClient, Answer(m, "ok", s))
            PROVE  GrantedOnly'
        <5>1. s \in Named'
          BY <4>2 DEF Grant, Named
        <5>. QED BY <3>2, <3>3, <4>2, <5>1
      <4>. QED BY <3>4, <4>1, <4>2 DEF AnswerConnect
    <3>5. CASE AnswerDisconnect(m)
      BY <1>1, <2>3, <3>2, <3>3, <3>5 DEF AnswerDisconnect
    <3>6. CASE \E k \in AnswerKinds : toClient' = Append(toClient, Answer(m, k, None))
      BY <2>3, <3>2, <3>3, <3>6
    <3>. QED BY <2>5, <3>4, <3>5, <3>6 DEF WalletAnswer
  <2>6. ASSUME NEW s \in Sessions, WalletPush(s) \/ WalletDelete(s)
        PROVE  GrantedOnly'
    <3>1. PICK f \in Frame : toClient' = Append(toClient, f) /\ f.session = s
      BY <2>6, FrameTypes DEF WalletPush, WalletDelete, Event, EventKind, Frame
    <3>2. s \in Named'
      BY <2>3, <2>6 DEF WalletPush, WalletDelete, Grant, Named
    <3>. QED BY <2>4, <3>1, <3>2
  <2>7. CASE Lose
    <3>1. ASSUME NEW i \in DOMAIN toClient, toClient' = RemoveAt(toClient, i)
          PROVE  \A j \in DOMAIN toClient' : \E k \in DOMAIN toClient : toClient'[j] = toClient[k]
      <4>1. i \in 1..Len(toClient)
        BY <1>1, LenProperties
      <4>. QED BY <1>1, <3>1, <4>1, RemoveAtProperties
    <3>2. \A j \in DOMAIN toClient' : \E k \in DOMAIN toClient : toClient'[j] = toClient[k]
      BY <2>7, <3>1 DEF Lose
    <3>3. granted' = granted
      BY <2>7 DEF Lose
    <3>. QED BY <1>1, <2>1, <3>2, <3>3, GrantedStays
  <2>. QED BY <1>4, <2>5, <2>6, <2>7 DEF Wallet
<1>5. CASE UNCHANGED vars
  BY <1>1, <1>5, GrantedStays DEF vars
<1>. QED BY <1>2, <1>3, <1>4, <1>5 DEF Next

\* The invariant: types, the map, the key, and what the wallet said.
LEMMA IndInvHolds == Spec => []IndInv
<1>1. Init => IndInv
  <2>1. Init => SealInv
    BY LinkAssumption DEF Init, SealInv, KeySound, SealedOnly
  <2>2. Init => OneAnswer /\ GrantedOnly
    BY DEF Init, OneAnswer, GrantedOnly
  <2>. QED BY <2>1, <2>2, InitTypeInv DEF IndInv, TypeInv, SealInv
<1>2. IndInv /\ [Next]_vars => IndInv'
  <2>1. TypeInv /\ [Next]_vars => TypeInv'
    <3>1. CASE UNCHANGED vars
      BY <3>1 DEF TypeInv, TypeOK, PendingSound, MethodKnown, vars
    <3>. QED BY <3>1, ApplicationTypeInv, ClientTypeInv, WalletTypeInv DEF Next
  <2>2. SealInv /\ [Next]_vars => SealInv'
    <3>1. SealInv /\ UNCHANGED vars => SealInv'
      BY DEF SealInv, KeySound, SealedOnly, vars
    <3>. QED BY <3>1, SealStep
  <2>3. IndInv <=> TypeInv /\ SealInv /\ OneAnswer /\ GrantedOnly
    BY DEF IndInv, TypeInv, SealInv
  <2>4. IndInv' <=> TypeInv' /\ SealInv' /\ OneAnswer' /\ GrantedOnly'
    BY DEF IndInv, TypeInv, SealInv
  <2>. QED BY <2>1, <2>2, <2>3, <2>4, OneAnswerStep, GrantedStep
<1>. QED BY <1>1, <1>2, PTL DEF Spec

\* Whatever is delivered on the channel, and in whatever order, a promise resolves only after
\* the wallet answered its request, and the session of the page is one the wallet granted.
THEOREM WalletSpeaks == Spec => []OnlyTheWalletSpeaks
<1>1. IndInv => OnlyTheWalletSpeaks
  BY DEF IndInv, OneAnswer, GrantedOnly, OnlyTheWalletSpeaks
<1>. QED BY <1>1, IndInvHolds, PTL

-----------------------------------------------------------------------------
(* The session in memory, on disk and in flight.                           *)

\* When no write fails, memory and record say the same after every step: a step leaves the
\* session alone, adopts one, forgets it, or loads what the record says.
THEOREM SessionsAgree ==
  ASSUME ~StoreMayFail
  PROVE  Spec => []SessionCoherent
<1> USE DEF clientVars, requestVars, walletVars, channelVars
<1>1. Init => SessionCoherent
  BY DEF Init, SessionCoherent
<1>2. ASSUME SessionCoherent, [Next]_vars
      PROVE  SessionCoherent'
  <2>1. CASE UNCHANGED <<sessionId, lastConnect, stored>>
    BY <1>2, <2>1 DEF SessionCoherent
  <2>2. ASSUME NEW s, AdoptConnectResult(s)
        PROVE  SessionCoherent'
    BY <2>2 DEF AdoptConnectResult, Persist, SessionCoherent
  <2>3. CASE ForgetSession
    BY <2>3 DEF ForgetSession, Persist, SessionCoherent
  <2>4. ASSUME NEW f, HandleFrame(f)
        PROVE  SessionCoherent'
    BY <2>1, <2>2, <2>3, <2>4 DEF HandleFrame, HandleEvent, HandleAnswer
  <2>5. CASE Application
    <3>1. CASE Reload
      BY <3>1 DEF Reload, SessionCoherent
    <3>2. CASE ForgetLocally
      BY <2>3, <3>2 DEF ForgetLocally
    <3>. QED BY <2>1, <2>5, <3>1, <3>2
         DEF Application, RefuseRequest, ThrowFromRequest, SendRequest, Close, TakeUnmatchedResponse
  <2>6. CASE Client
    <3>1. ASSUME NEW s \in SessionOrNone, KeyHop(s)
          PROVE  SessionCoherent'
      BY <2>1, <2>2, <3>1 DEF KeyHop
    <3>2. CASE Continue
      BY <2>2, <2>3, <3>2 DEF Continue
    <3>. QED BY <2>1, <2>4, <2>6, <3>1, <3>2
         DEF Client, SendRejects, SendResolves, RequestTimeout, Deliver, DeliverStray
  <2>7. CASE Wallet
    BY <2>1, <2>7 DEF Wallet, WalletAnswer, WalletPush, WalletDelete, Lose
  <2>. QED BY <1>2, <2>1, <2>5, <2>6, <2>7 DEF Next, vars
<1>. QED BY <1>1, <1>2, PTL DEF Spec

-----------------------------------------------------------------------------
(* Answers nobody waits for.                                               *)

\* What is in flight after a step: some of the frames that were, in the order they had, and
\* perhaps one more behind them.
FramesKept ==
  /\ \A j \in DOMAIN toClient' : \E k \in DOMAIN toClient : toClient'[j] = toClient[k]
  /\ \A j, k \in DOMAIN toClient' : j < k =>
        \E l, m \in DOMAIN toClient :
           l < m /\ toClient'[j] = toClient[l] /\ toClient'[k] = toClient[m]
FrameAdded(f) ==
  /\ \A j \in DOMAIN toClient' :
        toClient'[j] = f \/ \E k \in DOMAIN toClient : toClient'[j] = toClient[k]
  /\ \A j, k \in DOMAIN toClient' : j < k =>
        /\ j \in DOMAIN toClient /\ toClient'[j] = toClient[j]
        /\ toClient'[k] = f \/ (k \in DOMAIN toClient /\ toClient'[k] = toClient[k])

LEMMA FramesStay == toClient' = toClient => FramesKept
BY DEF FramesKept

LEMMA FramesRemoved ==
  ASSUME TypeOK, NEW i \in DOMAIN toClient, toClient' = RemoveAt(toClient, i)
  PROVE  /\ FramesKept
         /\ \A j \in DOMAIN toClient' : \E k \in DOMAIN toClient \ {i} : toClient'[j] = toClient[k]
<1>1. toClient \in Seq(Frame) /\ i \in 1..Len(toClient)
  BY LenProperties DEF TypeOK
<1>. QED BY <1>1, RemoveAtOrder DEF FramesKept

LEMMA FrameAppended ==
  ASSUME TypeOK, NEW f \in Frame, toClient' = Append(toClient, f)
  PROVE  FrameAdded(f)
<1>1. toClient \in Seq(Frame)
  BY DEF TypeOK
<1>. QED BY <1>1, AppendElements, AppendOrder DEF FrameAdded

\* What the wallet puts on the channel is a frame behind the others: an answer to the
\* request it took, or an event.
LEMMA WalletFrame ==
  ASSUME TypeOK
  PROVE  /\ \A m \in toWallet : WalletAnswer(m) =>
               \E f \in AnswerFrame : f.id = m.id /\ f.sealed = Sealed /\ FrameAdded(f)
         /\ \A s \in Sessions : WalletPush(s) =>
               FrameAdded(Event("established", s)) /\ Event("established", s) \in EventFrame
         /\ \A s \in Sessions : WalletDelete(s) =>
               FrameAdded(Event("deleted", s)) /\ Event("deleted", s) \in EventFrame
<1>1. ASSUME NEW m \in toWallet, WalletAnswer(m)
      PROVE  \E f \in AnswerFrame : f.id = m.id /\ f.sealed = Sealed /\ FrameAdded(f)
  <2>1. m \in Request
    BY DEF TypeOK
  <2>2. \A k \in AnswerKind, s \in SessionOrNone :
           Answer(m, k, s) \in AnswerFrame /\ Answer(m, k, s).id = m.id /\ Answer(m, k, s).sealed = Sealed
    BY <2>1, FrameTypes DEF Answer
  <2>3. m.resume \in SessionOrNone /\ m.session \in SessionOrNone /\ Sessions \subseteq SessionOrNone
        /\ None \in SessionOrNone /\ AnswerKinds \subseteq AnswerKind /\ "ok" \in AnswerKind
    BY <2>1, LinkAssumption DEF Request, SessionOrNone, AnswerKind
  <2>4. \E k \in AnswerKind, s \in SessionOrNone : toClient' = Append(toClient, Answer(m, k, s))
    BY <1>1, <2>3 DEF WalletAnswer, AnswerConnect, AnswerDisconnect
  <2>5. AnswerFrame \subseteq Frame
    BY DEF Frame
  <2>. QED BY <2>2, <2>4, <2>5, FrameAppended
<1>2. \A k \in EventKind, s \in Sessions : Event(k, s) \in EventFrame /\ Event(k, s) \in Frame
  BY FrameTypes DEF Frame
<1>3. "established" \in EventKind /\ "deleted" \in EventKind
  BY DEF EventKind
<1>4. ASSUME NEW s \in Sessions, WalletPush(s)
      PROVE  FrameAdded(Event("established", s)) /\ Event("established", s) \in EventFrame
  BY <1>2, <1>3, <1>4, FrameAppended DEF WalletPush
<1>5. ASSUME NEW s \in Sessions, WalletDelete(s)
      PROVE  FrameAdded(Event("deleted", s)) /\ Event("deleted", s) \in EventFrame
  BY <1>2, <1>3, <1>5, FrameAppended DEF WalletDelete
<1>. QED BY <1>1, <1>4, <1>5

Explained == AnsweredOnce /\ UnmatchedExplained

\* A step that gives a request up before it takes it off the map, and offers no answer.
LEMMA ExplainedStays ==
  ASSUME TypeInv, Explained, FramesKept, toWallet' \subseteq toWallet, dups' = dups,
         UNCHANGED issuedHere, pending' \subseteq pending, gaveUp \subseteq gaveUp',
         pending \subseteq pending' \cup gaveUp', unmatched' \in {unmatched, None},
         \A r \in Reqs : outcome[r] # "idle" => outcome'[r] # "idle"
  PROVE  Explained'
<1>1. \A q : StillAwaited(q) => StillAwaited(q)'
  BY DEF StillAwaited
<1>2. unmatched \in Reqs \cup {None}
  BY DEF TypeInv, TypeOK
<1>. QED BY <1>1, <1>2 DEF Explained, AnsweredOnce, UnmatchedExplained, FramesKept

\* A step that issues a request, or refuses it.
LEMMA ExplainedIssue ==
  ASSUME TypeInv, OneAnswer, Explained, NEW r \in Reqs, outcome[r] = "idle",
         NEW o \in {"waiting", "rejected"}, outcome' = [outcome EXCEPT ![r] = o],
         issuedHere' = issuedHere \cup {r}, pending' \in {pending, pending \cup {r}},
         \A m \in toWallet' : m \in toWallet \/ (m.id = r /\ r \in pending'),
         UNCHANGED <<toClient, dups, gaveUp, unmatched>>
  PROVE  Explained'
<1>1. /\ \A i \in DOMAIN toClient : toClient[i].id # r
      /\ \A m \in toWallet : m.id # r
  BY DEF OneAnswer
<1>2. unmatched # None => unmatched # r
  BY DEF Explained, AnsweredOnce
<1>3. \A q : q # r /\ StillAwaited(q) => StillAwaited(q)'
  BY DEF StillAwaited
<1>4. r \in pending' => StillAwaited(r)'
  BY DEF StillAwaited
<1>5. \A q : outcome[q] # "idle" /\ q # r => outcome'[q] # "idle"
  <2>1. outcome \in [Reqs -> Outcomes]
    BY DEF TypeInv, TypeOK
  <2>. QED BY <2>1
<1>6. AnsweredOnce'
  BY <1>1, <1>2, <1>3, <1>4, <1>5 DEF Explained, AnsweredOnce
<1>7. UnmatchedExplained'
  BY <1>2 DEF Explained, UnmatchedExplained
<1>. QED BY <1>6, <1>7 DEF Explained

\* A delivered frame: an answer leaves no other to the same request behind, unless the
\* channel repeats it; and one nobody waits for was waited for by an earlier page, given up
\* by this one, or answered before.
LEMMA ExplainedDeliver ==
  ASSUME TypeInv, OneAnswer, Explained, NEW i \in DOMAIN toClient, Deliver(i)
  PROVE  Explained'
<1> USE DEF clientVars, requestVars, walletVars, channelVars
<1> DEFINE f == toClient[i]
<1>1. /\ f \in Frame /\ outcome \in [Reqs -> Outcomes] /\ pending \subseteq Reqs
      /\ \A m \in toWallet : m.id \in Reqs /\ m.id # f.id
      /\ f.id \in Reqs => outcome[f.id] # "idle"
      /\ dups \in Nat /\ unmatched \in Reqs \cup {None}
  <2>1. \A m \in toWallet : m.id \in Reqs /\ m.id # f.id
    BY DEF TypeInv, TypeOK, Request, OneAnswer
  <2>2. f \in Frame
    BY LenProperties DEF TypeInv, TypeOK
  <2>3. f.id \in Reqs => outcome[f.id] # "idle"
    BY DEF OneAnswer
  <2>4. dups \in Nat
    BY LinkAssumption DEF TypeInv, TypeOK
  <2>. QED BY <2>1, <2>2, <2>3, <2>4 DEF TypeInv, TypeOK
<1>2. /\ HandleFrame(f) /\ toWallet' = toWallet
      /\ \/ toClient' = RemoveAt(toClient, i) /\ dups' = dups
         \/ toClient' = toClient /\ dups' = dups + 1
  BY DEF Deliver
<1>3. /\ FramesKept
      /\ dups' = dups => \A j \in DOMAIN toClient' : \E k \in DOMAIN toClient \ {i} : toClient'[j] = toClient[k]
      /\ dups' = 0 => dups = 0 /\ dups' = dups
  BY <1>1, <1>2, FramesRemoved, FramesStay DEF TypeInv
<1> HIDE DEF f
<1>4. \A j \in DOMAIN toClient' : \E k \in DOMAIN toClient : toClient'[j] = toClient[k]
  BY <1>3 DEF FramesKept
<1>5. UNCHANGED <<issuedHere, gaveUp>>
  BY <1>2 DEF HandleFrame, HandleEvent, HandleAnswer
<1>6. ASSUME dups' = 0
      PROVE  \A j, k \in DOMAIN toClient' : toClient'[j].id \in Reqs /\ j < k => toClient'[j].id # toClient'[k].id
  BY <1>3, <1>6 DEF Explained, AnsweredOnce, FramesKept
<1>7. CASE UNCHANGED <<pending, outcome, unmatched>>
  <2>1. \A q : StillAwaited(q) => StillAwaited(q)'
    BY <1>5, <1>7 DEF StillAwaited
  <2>2. AnsweredOnce'
    BY <1>2, <1>3, <1>4, <1>6, <1>7, <2>1 DEF Explained, AnsweredOnce
  <2>3. UnmatchedExplained'
    BY <1>1, <1>2, <1>5, <1>7 DEF Explained, UnmatchedExplained
  <2>. QED BY <2>2, <2>3 DEF Explained
<1>8. CASE HandleAnswer(f) /\ f.id \in pending
  <2>1. /\ pending' = pending \ {f.id} /\ unmatched' = unmatched
        /\ \A r \in Reqs : outcome[r] # "idle" => outcome'[r] # "idle"
    BY <1>1, <1>8 DEF HandleAnswer
  <2>2. \A q : q # f.id /\ StillAwaited(q) => StillAwaited(q)'
    BY <1>5, <2>1 DEF StillAwaited
  <2>3. ASSUME dups' = 0
        PROVE  \A j \in DOMAIN toClient' : toClient'[j].id # f.id
    <3>1. f.id \in Reqs /\ dups = 0 /\ i \in Nat
      BY <1>1, <1>3, <1>8, <2>3, LenProperties DEF TypeInv, TypeOK
    <3>2. DOMAIN toClient \subseteq Nat
      BY LenProperties DEF TypeInv, TypeOK
    <3>3. \A k \in DOMAIN toClient \ {i} : toClient[k].id # f.id
      <4>1. \A k \in DOMAIN toClient \ {i} : k < i \/ i < k
        BY <3>1, <3>2
      <4>. QED BY <3>1, <4>1 DEF Explained, AnsweredOnce, f
    <3>. QED BY <1>3, <2>3, <3>3
  <2>4. AnsweredOnce'
    BY <1>1, <1>2, <1>3, <1>4, <1>6, <2>1, <2>2, <2>3 DEF Explained, AnsweredOnce
  <2>5. UnmatchedExplained'
    BY <1>1, <1>2, <1>5, <2>1 DEF Explained, UnmatchedExplained
  <2>. QED BY <2>4, <2>5 DEF Explained
<1>9. CASE HandleAnswer(f) /\ f.id \notin pending /\ unmatched' = f.id
  <2>1. UNCHANGED <<pending, outcome>>
    BY <1>9 DEF HandleAnswer
  <2>2. \A q : StillAwaited(q) => StillAwaited(q)'
    BY <1>5, <2>1 DEF StillAwaited
  <2>3. f.id \in Reqs
    BY <1>1, <1>9 DEF HandleAnswer, Frame, AnswerFrame, EventFrame, AnswerKind, EventKind
  <2>4. AnsweredOnce'
    BY <1>1, <1>2, <1>3, <1>4, <1>6, <1>9, <2>1, <2>2, <2>3 DEF Explained, AnsweredOnce
  <2>5. dups = 0 => StillAwaited(f.id)
    BY DEF Explained, AnsweredOnce, f
  <2>6. UnmatchedExplained'
    BY <1>1, <1>2, <1>5, <1>9, <2>1, <2>5 DEF UnmatchedExplained, StillAwaited
  <2>. QED BY <2>4, <2>6 DEF Explained
<1>. QED BY <1>2, <1>7, <1>8, <1>9 DEF HandleFrame, HandleEvent, HandleAnswer

LEMMA ExplainedStep ==
  ASSUME TypeInv, SealInv, OneAnswer, Explained, [Next]_vars
  PROVE  Explained'
<1> USE DEF clientVars, requestVars, walletVars, channelVars
<1>1. outcome \in [Reqs -> Outcomes] /\ pending \subseteq Reqs
  BY DEF TypeInv, TypeOK
<1>2. CASE Application
  <2>1. ASSUME NEW r \in Reqs, NEW m \in Methods, RefuseRequest(r, m) \/ ThrowFromRequest(r, m)
        PROVE  Explained'
    BY <2>1, ExplainedIssue DEF RefuseRequest, ThrowFromRequest
  <2>2. ASSUME NEW r \in Reqs, NEW m \in Methods, NEW extra, SendRequest(r, m, extra)
        PROVE  Explained'
    <3>1. /\ toWallet' = toWallet \cup {Envelope(r, m, extra)}
          /\ Envelope(r, m, extra).id = r
      BY <2>2 DEF SendRequest, Envelope
    <3>. QED BY <2>2, <3>1, ExplainedIssue DEF SendRequest
  <2>3. CASE Close \/ ForgetLocally \/ TakeUnmatchedResponse
    <3>1. /\ UNCHANGED <<toWallet, toClient, dups, issuedHere>>
          /\ pending' \subseteq pending /\ gaveUp \subseteq gaveUp'
          /\ pending \subseteq pending' \cup gaveUp' /\ unmatched' \in {unmatched, None}
      BY <2>3 DEF Close, RejectAll, ForgetLocally, TakeUnmatchedResponse
    <3>2. \A r \in Reqs : outcome[r] # "idle" => outcome'[r] # "idle"
      BY <1>1, <2>3 DEF Close, RejectAll, Settled, ForgetLocally, TakeUnmatchedResponse
    <3>. QED BY <3>1, <3>2, ExplainedStays, FramesStay
  <2>4. CASE Reload
    <3>1. /\ UNCHANGED <<toWallet, toClient, dups>>
          /\ issuedHere' = {} /\ unmatched' = None
      BY <2>4 DEF Reload
    <3>2. \A q : StillAwaited(q)'
      BY <3>1 DEF StillAwaited
    <3>. QED BY <3>1, <3>2 DEF Explained, AnsweredOnce, UnmatchedExplained
  <2>. QED BY <1>2, <2>1, <2>2, <2>3, <2>4 DEF Application
<1>3. CASE Client
  <2>1. ASSUME NEW r \in Reqs, SendRejects(r) \/ SendResolves(r) \/ RequestTimeout(r)
        PROVE  Explained'
    <3>1. /\ UNCHANGED <<toWallet, toClient, dups, issuedHere, unmatched>>
          /\ pending' \subseteq pending /\ gaveUp \subseteq gaveUp'
          /\ pending \subseteq pending' \cup gaveUp'
      BY <2>1 DEF SendRejects, SendResolves, RequestTimeout
    <3>2. \A q \in Reqs : outcome[q] # "idle" => outcome'[q] # "idle"
      BY <1>1, <2>1 DEF SendRejects, SendResolves, RequestTimeout
    <3>. QED BY <3>1, <3>2, ExplainedStays, FramesStay
  <2>2. ASSUME NEW f \in StrayFrame, DeliverStray(f)
        PROVE  Explained'
    <3>1. UNCHANGED <<clientVars, requestVars, channelVars>>
      BY <2>2, StrayIsDropped DEF DeliverStray, HandleFrame
    <3>. QED BY <3>1, ExplainedStays, FramesStay
  <2>3. CASE Continue \/ \E s \in SessionOrNone : KeyHop(s)
    <3>1. UNCHANGED <<requestVars, channelVars, unmatched>>
      BY <2>3 DEF Continue, KeyHop
    <3>. QED BY <3>1, ExplainedStays, FramesStay
  <2>. QED BY <1>3, <2>1, <2>2, <2>3, ExplainedDeliver DEF Client
<1>4. CASE Wallet
  <2>1. UNCHANGED <<requestVars, unmatched, dups>> /\ toWallet' \subseteq toWallet
    BY <1>4 DEF Wallet, WalletAnswer, WalletPush, WalletDelete, Lose
  <2>2. \A q : StillAwaited(q)' <=> StillAwaited(q)
    BY <2>1 DEF StillAwaited
  <2>3. ASSUME NEW f, FrameAdded(f), dups = 0 => StillAwaited(f.id),
               \A j \in DOMAIN toClient : toClient[j].id \in Reqs => toClient[j].id # f.id
        PROVE  Explained'
    BY <2>1, <2>2, <2>3 DEF Explained, AnsweredOnce, UnmatchedExplained, FrameAdded
  <2>4. ASSUME NEW m \in toWallet, WalletAnswer(m)
        PROVE  Explained'
    <3>1. PICK f \in AnswerFrame : f.id = m.id /\ FrameAdded(f)
      BY <2>4, WalletFrame DEF TypeInv
    <3>2. /\ \A j \in DOMAIN toClient : toClient[j].id # f.id
          /\ dups = 0 => StillAwaited(f.id)
      BY <3>1 DEF OneAnswer, Explained, AnsweredOnce
    <3>. QED BY <2>3, <3>1, <3>2
  <2>5. ASSUME NEW s \in Sessions, WalletPush(s) \/ WalletDelete(s)
        PROVE  Explained'
    <3>1. PICK f \in EventFrame : FrameAdded(f)
      BY <2>5, WalletFrame DEF TypeInv
    <3>2. f.id = None
      BY DEF EventFrame
    <3>3. StillAwaited(f.id) /\ f.id \notin Reqs
      BY <3>2, LinkAssumption DEF StillAwaited, TypeInv, TypeOK
    <3>. QED BY <2>3, <3>1, <3>3
  <2>6. CASE Lose
    <3>1. FramesKept
      BY <2>6, FramesRemoved, FramesStay DEF Lose, TypeInv
    <3>. QED BY <2>1, <3>1, ExplainedStays
  <2>. QED BY <1>4, <2>4, <2>5, <2>6 DEF Wallet
<1>5. CASE UNCHANGED vars
  BY <1>5, ExplainedStays, FramesStay DEF vars
<1>. QED BY <1>2, <1>3, <1>4, <1>5 DEF Next

\* An answer offered as unmatched belongs to an earlier page, was given up by this one, or
\* came twice: whatever the channel loses, reorders or delays, nothing else gets there.
THEOREM UnmatchedHasReason == Spec => []UnmatchedExplained
<1>1. Init => Explained
  BY DEF Init, Explained, AnsweredOnce, UnmatchedExplained
<1>2. IndInv /\ Explained /\ [Next]_vars => Explained'
  BY ExplainedStep DEF IndInv, TypeInv, SealInv
<1>3. Explained => UnmatchedExplained
  BY DEF Explained
<1>. QED BY <1>1, <1>2, <1>3, IndInvHolds, PTL DEF Spec

-----------------------------------------------------------------------------
(* The end of a session is final.                                          *)

\* A request in flight is what it was issued as.
MethodsStay ==
  /\ \A i \in DOMAIN toClient :
        toClient[i].kind = "ok" => method'[toClient[i].id] = method[toClient[i].id]
  /\ \A m \in toWallet' : m.method = method'[m.id]

\* What ended stays ended.
EndsStay == granted \ live \subseteq granted' \ live'

\* The frames that are left say of sessions what they said.
LEMMA EndKept ==
  ASSUME EndIsFinal, FramesKept, MethodsStay, EndsStay
  PROVE  /\ \A s : Granting(s)' => Granting(s)
         /\ \A s \in Sessions : \A i \in DOMAIN toClient' : Ends(toClient[i], s)' =>
              /\ s \in granted' \ live'
              /\ \A j \in DOMAIN toClient' : i < j => ~Grants(toClient[j], s)'
<1>1. ASSUME NEW j \in DOMAIN toClient', NEW k \in DOMAIN toClient, toClient'[j] = toClient[k], NEW s
      PROVE  (Grants(toClient[j], s)' => Grants(toClient[k], s)) /\ (Ends(toClient[j], s)' => Ends(toClient[k], s))
  BY <1>1 DEF MethodsStay, Grants, Ends
<1>2. \A s : Granting(s)' => Granting(s)
  BY <1>1 DEF FramesKept, Granting
<1>3. \A s : s \in granted \ live => s \in granted' \ live'
  BY DEF EndsStay
<1>4. ASSUME NEW s \in Sessions, NEW i \in DOMAIN toClient', Ends(toClient[i], s)'
      PROVE  /\ s \in granted' \ live'
             /\ \A j \in DOMAIN toClient' : i < j => ~Grants(toClient[j], s)'
  <2>1. s \in granted' \ live'
    <3>1. PICK k \in DOMAIN toClient : toClient'[i] = toClient[k]
      BY DEF FramesKept
    <3>. QED BY <1>1, <1>3, <1>4, <3>1 DEF EndIsFinal
  <2>2. ASSUME NEW j \in DOMAIN toClient', i < j, Grants(toClient[j], s)'
        PROVE  FALSE
    <3>1. PICK l \in DOMAIN toClient, m \in DOMAIN toClient :
             l < m /\ toClient'[i] = toClient[l] /\ toClient'[j] = toClient[m]
      BY <2>2 DEF FramesKept
    <3>2. Ends(toClient[l], s) /\ Grants(toClient[m], s)
      BY <1>1, <1>4, <2>2, <3>1
    <3>. QED BY <3>1, <3>2 DEF EndIsFinal
  <2>. QED BY <2>1, <2>2
<1>. QED BY <1>2, <1>4

LEMMA EndStays ==
  ASSUME EndIsFinal, FramesKept, MethodsStay, EndsStay, UNCHANGED <<conts, dropped>>,
         sessionId' = sessionId \/ sessionId' \notin dropped
  PROVE  EndIsFinal'
<1>1. \A m, s : Continues(m, s)' <=> Continues(m, s)
  BY DEF Continues
<1>2. \A s : s \in granted \ live => s \in granted' \ live'
  BY DEF EndsStay
<1>3. ASSUME NEW s \in Sessions
      PROVE  /\ Continues("disconnect", s)' => s \in granted' \ live' /\ ~Granting(s)'
             /\ s \in dropped' => /\ s \in granted' \ live' /\ s # sessionId'
                                  /\ ~Granting(s)' /\ ~Continues("connect", s)'
  BY <1>1, <1>2, EndKept DEF EndIsFinal
<1>4. (\A m \in toWallet' : m.method = method'[m.id]) /\ (conts' # <<>> => Len(conts') = 1)
  BY DEF EndIsFinal, MethodsStay
<1>. QED BY <1>3, <1>4, EndKept DEF EndIsFinal

\* What the wallet says last grants only what has not ended, and ends only what it dropped.
LEMMA EndAdds ==
  ASSUME EndIsFinal, NEW f, FrameAdded(f), EndsStay, toWallet' \subseteq toWallet,
         UNCHANGED <<conts, dropped, sessionId, method>>,
         \A s \in Sessions : /\ Grants(f, s) => s \notin granted \ live
                             /\ Ends(f, s) => s \in granted' \ live'
  PROVE  EndIsFinal'
<1>1. ASSUME NEW j \in DOMAIN toClient', NEW s
      PROVE  /\ Grants(toClient[j], s)' <=> Grants(toClient'[j], s)
             /\ Ends(toClient[j], s)' <=> Ends(toClient'[j], s)
  BY DEF Grants, Ends
<1>2. \A s \in Sessions : Granting(s)' => Granting(s) \/ s \notin granted \ live
  BY <1>1 DEF FrameAdded, Granting
<1>3. \A m, s : Continues(m, s)' <=> Continues(m, s)
  BY DEF Continues
<1>4. \A s : s \in granted \ live => s \in granted' \ live'
  BY DEF EndsStay
<1>5. ASSUME NEW s \in Sessions, NEW i \in DOMAIN toClient', Ends(toClient[i], s)'
      PROVE  /\ s \in granted' \ live'
             /\ \A j \in DOMAIN toClient' : i < j => ~Grants(toClient[j], s)'
  <2>1. s \in granted' \ live'
    BY <1>1, <1>4, <1>5 DEF FrameAdded, EndIsFinal
  <2>2. ASSUME NEW j \in DOMAIN toClient', i < j, Grants(toClient[j], s)'
        PROVE  FALSE
    <3>1. /\ i \in DOMAIN toClient /\ toClient'[i] = toClient[i]
          /\ toClient'[j] = f \/ (j \in DOMAIN toClient /\ toClient'[j] = toClient[j])
      BY <2>2 DEF FrameAdded
    <3>2. Ends(toClient[i], s) /\ s \in granted \ live
      BY <1>1, <1>5, <3>1 DEF EndIsFinal
    <3>3. Grants(toClient'[j], s)
      BY <1>1, <2>2
    <3>4. j \in DOMAIN toClient /\ Grants(toClient[j], s)
      BY <3>1, <3>2, <3>3
    <3>. QED BY <2>2, <3>1, <3>2, <3>4 DEF EndIsFinal
  <2>. QED BY <2>1, <2>2
<1>6. ASSUME NEW s \in Sessions
      PROVE  /\ Continues("disconnect", s)' => s \in granted' \ live' /\ ~Granting(s)'
             /\ s \in dropped' => /\ s \in granted' \ live' /\ s # sessionId'
                                  /\ ~Granting(s)' /\ ~Continues("connect", s)'
  BY <1>2, <1>3, <1>4 DEF EndIsFinal
<1>7. (\A m \in toWallet' : m.method = method'[m.id]) /\ (conts' # <<>> => Len(conts') = 1)
  BY DEF EndIsFinal
<1>. QED BY <1>5, <1>6, <1>7 DEF EndIsFinal

\* The first frame in flight, handled when no continuation waits: if it grants a session,
\* that one has not ended; if it ends one, no frame left grants it.
LEMMA EndDeliver ==
  ASSUME TypeInv, EndIsFinal, Ordered, ~Batched, NEW i \in DOMAIN toClient, Deliver(i)
  PROVE  EndIsFinal'
<1> USE DEF clientVars, requestVars, walletVars, channelVars
<1> DEFINE f == toClient[i]
<1>1. i = 1 /\ conts = <<>> /\ HandleFrame(f) /\ UNCHANGED <<granted, live, toWallet>>
  BY DEF Deliver, MayDeliver, Turn, Drained
<1>2. FramesKept
  BY FramesRemoved, FramesStay DEF Deliver, TypeInv
<1>3. f \in Frame /\ \A k \in DOMAIN toClient : k = i \/ i < k
  BY <1>1, LenProperties DEF TypeInv, TypeOK
<1>4. method' = method
  BY <1>1 DEF HandleFrame, HandleEvent, HandleAnswer
<1>5. MethodsStay /\ EndsStay
  BY <1>1, <1>4 DEF MethodsStay, EndsStay, EndIsFinal
<1>6. \A s \in Sessions : Grants(f, s) => Granting(s) /\ s \notin dropped
  BY DEF Granting, EndIsFinal
<1>7. ASSUME NEW s \in Sessions, Ends(f, s)
      PROVE  s \in granted' \ live' /\ ~Granting(s)'
  <2>1. ~Grants(f, s)
    BY <1>7 DEF Ends, Grants
  <2>2. ~Granting(s)
    BY <1>3, <1>7, <2>1 DEF EndIsFinal, Granting
  <2>3. ~Granting(s)'
    BY <1>2, <1>4, <2>2 DEF FramesKept, Granting, Grants
  <2>4. s \in granted' \ live'
    BY <1>1, <1>7 DEF EndIsFinal
  <2>. QED BY <2>3, <2>4
<1> HIDE DEF f
<1>8. CASE UNCHANGED <<conts, dropped>> /\ (sessionId' = sessionId \/ sessionId' \notin dropped)
  BY <1>2, <1>5, <1>8, EndStays
<1>9. ASSUME (sessionId' = sessionId /\ dropped' = dropped) \/ sessionId' = None,
             dropped' \subseteq dropped \cup {s \in Sessions : Ends(f, s)},
             \A s \in Sessions : Continues("connect", s)' => Grants(f, s) /\ dropped' = dropped,
             \A s \in Sessions : Continues("disconnect", s)' => Ends(f, s),
             conts' # <<>> => Len(conts') = 1
      PROVE  EndIsFinal'
  <2>1. ASSUME NEW s \in Sessions, s \in dropped'
        PROVE  /\ s \in granted' \ live' /\ s # sessionId'
               /\ ~Granting(s)' /\ ~Continues("connect", s)'
    <3>1. CASE s \in dropped
      <4>1. s \in granted' \ live' /\ ~Granting(s)'
        BY <1>2, <1>5, <3>1, EndKept DEF EndIsFinal, EndsStay
      <4>2. s # sessionId'
        BY <1>9, <3>1, LinkAssumption DEF EndIsFinal
      <4>3. ~Continues("connect", s)'
        BY <1>6, <1>9, <3>1
      <4>. QED BY <4>1, <4>2, <4>3
    <3>2. CASE s \notin dropped
      BY <1>7, <1>9, <2>1, <3>2, LinkAssumption
    <3>. QED BY <3>1, <3>2
  <2>2. \A m \in toWallet' : m.method = method'[m.id]
    BY <1>5 DEF MethodsStay
  <2>3. \A s \in Sessions : Continues("disconnect", s)' => s \in granted' \ live' /\ ~Granting(s)'
    BY <1>7, <1>9
  <2>. QED BY <1>2, <1>5, <1>9, <2>1, <2>2, <2>3, EndKept DEF EndIsFinal
<1>10. CASE HandleEvent(f)
  <2>1. f.session \in Sessions /\ conts' = conts
    BY <1>3, <1>10 DEF HandleEvent, EventKind, AnswerKind, Frame, AnswerFrame, EventFrame
  <2>2. CASE f.kind = "established"
    <3>1. sessionId' = f.session /\ dropped' = dropped /\ Grants(f, f.session)
      BY <1>10, <2>2 DEF HandleEvent, AdoptConnectResult, Grants
    <3>. QED BY <1>6, <1>8, <2>1, <3>1
  <2>3. CASE f.kind # "established"
    <3>1. sessionId' = None /\ dropped' = dropped \cup {f.session} /\ Ends(f, f.session)
      BY <1>10, <2>3 DEF HandleEvent, ForgetSession, Ends, EventKind
    <3>2. \A m, s : ~Continues(m, s)'
      BY <1>1, <2>1 DEF Continues
    <3>. QED BY <1>1, <1>9, <2>1, <3>1, <3>2
  <2>. QED BY <2>2, <2>3
<1>11. CASE HandleAnswer(f)
  <2>1. sessionId' = sessionId /\ dropped' = dropped
    BY <1>11 DEF HandleAnswer
  <2>2. CASE conts' = conts
    BY <1>8, <2>1, <2>2
  <2>3. ASSUME NEW m, m = method[f.id], m # "other", f.kind = "ok", f.id \in pending,
               conts' = Append(conts, [method |-> m, session |-> f.session])
        PROVE  EndIsFinal'
    <3>1. conts' = <<[method |-> m, session |-> f.session]>>
      BY <1>1, <2>3
    <3>2. DOMAIN conts' = {1} /\ conts'[1].method = m /\ conts'[1].session = f.session /\ Len(conts') = 1
      BY <3>1
    <3>3. \A n, s : Continues(n, s)' => n = m /\ s = f.session
      BY <3>2 DEF Continues
    <3>. QED BY <1>9, <2>1, <2>3, <3>2, <3>3 DEF Grants, Ends
  <2>. QED BY <1>11, <2>2, <2>3 DEF HandleAnswer, Resumed
<1>12. CASE UNCHANGED <<clientVars, requestVars, conts, dropped>>
  BY <1>8, <1>12
<1>. QED BY <1>1, <1>10, <1>11, <1>12 DEF HandleFrame

\* A request that is issued or refused was not in flight.
LEMMA MethodsIssue ==
  ASSUME TypeInv, OneAnswer, EndIsFinal, NEW r \in Reqs, outcome[r] = "idle", NEW m,
         method' = [method EXCEPT ![r] = m],
         \A n \in toWallet' : n \in toWallet \/ (n.id = r /\ n.method = m)
  PROVE  MethodsStay
<1>1. method \in [Reqs -> Methods \cup {None}]
  BY DEF TypeInv, TypeOK
<1>2. \A n \in toWallet : n.id # r /\ n.method = method[n.id] /\ n.id \in Reqs
  BY DEF OneAnswer, EndIsFinal, TypeInv, TypeOK, Request
<1>3. \A i \in DOMAIN toClient : toClient[i].kind = "ok" => toClient[i].id # r /\ toClient[i].id \in Reqs
  <2>1. \A i \in DOMAIN toClient : toClient[i] \in Frame
    BY LenProperties DEF TypeInv, TypeOK
  <2>2. \A f \in Frame : f.kind = "ok" => f.id \in Reqs
    BY DEF Frame, AnswerFrame, EventFrame, EventKind
  <2>. QED BY <2>1, <2>2 DEF OneAnswer
<1>. QED BY <1>1, <1>2, <1>3 DEF MethodsStay

\* A step that issues nothing.
LEMMA MethodsSame ==
  ASSUME EndIsFinal, method' = method, toWallet' \subseteq toWallet
  PROVE  MethodsStay
BY DEF MethodsStay, EndIsFinal

LEMMA EndStep ==
  ASSUME Ordered, ~Batched, IndInv, SessionCoherent, EndIsFinal, [Next]_vars
  PROVE  EndIsFinal'
<1> USE DEF clientVars, requestVars, walletVars, channelVars
<1>1. /\ TypeInv /\ SealInv /\ OneAnswer /\ GrantedOnly
      /\ None \notin dropped /\ dropped \subseteq granted /\ live \subseteq granted
  <2>1. TypeInv /\ SealInv /\ OneAnswer /\ GrantedOnly
    BY DEF IndInv, TypeInv, SealInv
  <2>2. dropped \subseteq Sessions /\ live \subseteq granted
    BY <2>1 DEF TypeInv, TypeOK
  <2>3. \A s \in Sessions : s \in dropped => s \in granted
    BY DEF EndIsFinal
  <2>. QED BY <2>1, <2>2, <2>3, LinkAssumption
<1>2. UNCHANGED walletVars => EndsStay
  BY DEF EndsStay
<1>3. CASE Application
  <2>1. ASSUME NEW r \in Reqs, NEW m \in Methods, RefuseRequest(r, m) \/ ThrowFromRequest(r, m)
        PROVE  EndIsFinal'
    <3>1. MethodsStay
      BY <1>1, <2>1, MethodsIssue DEF RefuseRequest, ThrowFromRequest
    <3>. QED BY <1>2, <2>1, <3>1, EndStays, FramesStay DEF RefuseRequest, ThrowFromRequest
  <2>2. ASSUME NEW r \in Reqs, NEW m \in Methods, NEW extra, SendRequest(r, m, extra)
        PROVE  EndIsFinal'
    <3>1. /\ toWallet' = toWallet \cup {Envelope(r, m, extra)}
          /\ Envelope(r, m, extra).id = r /\ Envelope(r, m, extra).method = m
      BY <2>2 DEF SendRequest, Envelope
    <3>2. MethodsStay
      BY <1>1, <2>2, <3>1, MethodsIssue DEF SendRequest
    <3>. QED BY <1>2, <2>2, <3>2, EndStays, FramesStay DEF SendRequest
  <2>3. CASE Close \/ ForgetLocally \/ TakeUnmatchedResponse \/ Reload
    <3>1. UNCHANGED <<method, toWallet, toClient, conts, dropped, walletVars>>
      BY <2>3 DEF Close, RejectAll, ForgetLocally, TakeUnmatchedResponse, Reload
    <3>2. sessionId' \in {sessionId, None}
      BY <2>3 DEF Close, ForgetLocally, ForgetSession, TakeUnmatchedResponse, Reload, SessionCoherent
    <3>. QED BY <1>1, <1>2, <3>1, <3>2, EndStays, FramesStay, MethodsSame
  <2>. QED BY <1>3, <2>1, <2>2, <2>3 DEF Application
<1>4. CASE Client
  <2>1. CASE UNCHANGED <<sessionId, method, toWallet, toClient, conts, dropped, walletVars>>
    BY <1>2, <2>1, EndStays, FramesStay, MethodsSame
  <2>2. ASSUME NEW f \in StrayFrame, DeliverStray(f)
        PROVE  EndIsFinal'
    BY <1>1, <2>1, <2>2, StrayIsDropped DEF DeliverStray, HandleFrame
  <2>3. ASSUME NEW s \in SessionOrNone, KeyHop(s)
        PROVE  EndIsFinal'
    <3>1. UNCHANGED <<method, toWallet, toClient, conts, dropped>>
      BY <2>3 DEF KeyHop
    <3>2. CASE UNCHANGED <<walletVars, sessionId>>
      BY <2>1, <3>1, <3>2
    <3>3. CASE Grant(s) /\ AdoptConnectResult(s)
      <4>1. EndsStay /\ sessionId' \notin dropped
        BY <1>1, <3>3 DEF EndsStay, Grant, AdoptConnectResult
      <4>. QED BY <3>1, <4>1, EndStays, FramesStay, MethodsSame
    <3>. QED BY <2>3, <3>2, <3>3 DEF KeyHop
  <2>4. CASE Continue
    <3> DEFINE c == Head(conts)
    <3>1. /\ conts # <<>> /\ c \in Continuation /\ c = conts[1] /\ 1 \in DOMAIN conts
          /\ conts \in Seq(Continuation)
      BY <2>4, TailElements DEF Continue, TypeInv, TypeOK, IndInv
    <3>2. conts' = <<>> /\ \A m, s : ~Continues(m, s)'
      <4>1. Len(conts) = 1 /\ conts' = Tail(conts)
        BY <2>4, <3>1 DEF Continue, EndIsFinal
      <4>2. conts' = <<>>
        BY <3>1, <4>1
      <4>. QED BY <4>2 DEF Continues
    <3>3. Continues(c.method, c.session)
      BY <3>1 DEF Continues
    <3>4. c.method \in {"connect", "disconnect"} /\ c.session \in Sessions \cup {None}
      BY <3>1 DEF Continuation, SessionOrNone
    <3>5. /\ sessionId' \notin dropped'
          /\ dropped' = dropped \/ (c.method = "disconnect" /\ dropped' = dropped \cup ({c.session} \ {None}))
      BY <1>1, <2>4, <3>3, <3>4 DEF Continue, AdoptConnectResult, ForgetSession, EndIsFinal
    <3>6. UNCHANGED <<method, toWallet, toClient, walletVars>>
      BY <2>4 DEF Continue
    <3>7. MethodsStay /\ EndsStay /\ FramesKept
      BY <1>2, <3>6, MethodsSame, FramesStay
    <3>8. ASSUME NEW s \in Sessions, s \in dropped'
          PROVE  s \in granted' \ live' /\ s # sessionId' /\ ~Granting(s)'
      <4>1. s \in dropped \/ (Continues("disconnect", s))
        BY <3>3, <3>5, <3>8
      <4>. QED BY <3>5, <3>6, <3>7, <3>8, <4>1, EndKept DEF EndIsFinal
    <3>9. \A m \in toWallet' : m.method = method'[m.id]
      BY <3>7 DEF MethodsStay
    <3>. QED BY <3>2, <3>7, <3>8, <3>9, EndKept DEF EndIsFinal
  <2>5. ASSUME NEW r \in Reqs, SendRejects(r) \/ SendResolves(r) \/ RequestTimeout(r)
        PROVE  EndIsFinal'
    BY <2>1, <2>5 DEF SendRejects, SendResolves, RequestTimeout
  <2>. QED BY <1>1, <1>4, <2>2, <2>3, <2>4, <2>5, EndDeliver DEF Client
<1>5. CASE Wallet
  <2>1. UNCHANGED <<conts, dropped, sessionId, method>> /\ toWallet' \subseteq toWallet
    BY <1>5 DEF Wallet, WalletAnswer, WalletPush, WalletDelete, Lose
  <2>2. ASSUME NEW m \in toWallet, WalletAnswer(m)
        PROVE  EndIsFinal'
    <3>1. m \in Request /\ m.session \in granted \cup {None} /\ method[m.id] = m.method
      BY <1>1 DEF TypeInv, TypeOK, GrantedOnly, EndIsFinal
    <3>2. m.resume \in SessionOrNone /\ m.session \in SessionOrNone /\ Sessions \subseteq SessionOrNone
          /\ None \in SessionOrNone /\ AnswerKinds \subseteq AnswerKind /\ "ok" \in AnswerKind
      BY <3>1, LinkAssumption DEF Request, SessionOrNone, AnswerKind
    <3>3. ASSUME NEW k \in AnswerKind, NEW s \in SessionOrNone, toClient' = Append(toClient, Answer(m, k, s)),
                 EndsStay, s \in Sessions /\ k = "ok" /\ m.method = "connect" => s \notin granted \ live,
                 s \in Sessions /\ k = "ok" /\ m.method = "disconnect" => s \in granted' \ live'
          PROVE  EndIsFinal'
      <4>1. FrameAdded(Answer(m, k, s))
        <5>1. Answer(m, k, s) \in Frame
          BY <3>1, FrameTypes DEF Frame
        <5>. QED BY <1>1, <3>3, <5>1, FrameAppended DEF TypeInv
      <4>2. \A x : /\ Grants(Answer(m, k, s), x) => x = s /\ k = "ok" /\ m.method = "connect"
                   /\ Ends(Answer(m, k, s), x) => x = s /\ k = "ok" /\ m.method = "disconnect"
        BY <3>1 DEF Grants, Ends, Answer, AnswerKind
      <4>. QED BY <2>1, <3>3, <4>1, <4>2, EndAdds
    <3>4. CASE AnswerConnect(m)
      <4>1. CASE m.resume \in live /\ UNCHANGED walletVars /\ toClient' = Append(toClient, Answer(m, "ok", m.resume))
        BY <1>2, <3>2, <3>3, <3>4, <4>1 DEF AnswerConnect
      <4>2. ASSUME NEW s \in Sessions, Grant(s), toClient' = Append(toClient, Answer(m, "ok", s))
            PROVE  EndIsFinal'
        <5>1. EndsStay /\ s \notin granted
          BY <1>1, <4>2 DEF EndsStay, Grant
        <5>2. m.method = "connect"
          BY <3>4 DEF AnswerConnect
        <5>. QED BY <3>2, <3>3, <4>2, <5>1, <5>2
      <4>. QED BY <3>4, <4>1, <4>2 DEF AnswerConnect
    <3>5. CASE AnswerDisconnect(m)
      <4>1. /\ m.method = "disconnect" /\ EndsStay
            /\ m.session \in Sessions => m.session \in granted' \ live'
        BY <3>1, <3>5, LinkAssumption DEF AnswerDisconnect, EndsStay
      <4>. QED BY <3>2, <3>3, <3>5, <4>1 DEF AnswerDisconnect
    <3>6. CASE UNCHANGED walletVars /\ \E k \in AnswerKinds : toClient' = Append(toClient, Answer(m, k, None))
      BY <1>2, <3>2, <3>3, <3>6, LinkAssumption
    <3>. QED BY <2>2, <3>4, <3>5, <3>6 DEF WalletAnswer
  <2>3. ASSUME NEW s \in Sessions, WalletPush(s)
        PROVE  EndIsFinal'
    <3>1. FrameAdded(Event("established", s))
      BY <1>1, <2>3, WalletFrame DEF TypeInv
    <3>2. EndsStay /\ s \notin granted
      BY <1>1, <2>3 DEF EndsStay, WalletPush, Grant
    <3>3. \A x : /\ Grants(Event("established", s), x) => x = s
                 /\ ~Ends(Event("established", s), x)
      BY DEF Grants, Ends, Event
    <3>. QED BY <2>1, <3>1, <3>2, <3>3, EndAdds
  <2>4. ASSUME NEW s \in Sessions, WalletDelete(s)
        PROVE  EndIsFinal'
    <3>1. FrameAdded(Event("deleted", s))
      BY <1>1, <2>4, WalletFrame DEF TypeInv
    <3>2. EndsStay /\ s \in granted' \ live'
      BY <1>1, <2>4 DEF EndsStay, WalletDelete
    <3>3. \A x : /\ Ends(Event("deleted", s), x) => x = s
                 /\ ~Grants(Event("deleted", s), x)
      BY DEF Grants, Ends, Event
    <3>. QED BY <2>1, <3>1, <3>2, <3>3, EndAdds
  <2>5. CASE Lose
    <3>1. FramesKept
      BY <1>1, <2>5, FramesRemoved, FramesStay DEF Lose, TypeInv
    <3>2. EndsStay
      BY <1>2, <2>5 DEF Lose
    <3>. QED BY <2>1, <3>1, <3>2, EndStays, MethodsSame
  <2>. QED BY <1>5, <2>2, <2>3, <2>4, <2>5 DEF Wallet
<1>6. CASE UNCHANGED vars
  BY <1>2, <1>6, EndStays, FramesStay, MethodsSame DEF vars
<1>. QED BY <1>3, <1>4, <1>5, <1>6 DEF Next

\* On an ordered channel, with microtasks run before the next frame and a storage that takes
\* every write, a session the page was told is gone never comes back: no late continuation,
\* repeated frame, answer under way or reload makes it current again.
THEOREM TheDeadStayDead ==
  ASSUME Ordered, ~Batched, ~StoreMayFail
  PROVE  Spec => []NoResurrection
<1>1. Init => EndIsFinal
  BY DEF Init, EndIsFinal, Continues
<1>2. IndInv /\ SessionCoherent /\ EndIsFinal /\ [Next]_vars => EndIsFinal'
  BY EndStep
<1>3. IndInv /\ EndIsFinal => NoResurrection
  <2> SUFFICES ASSUME IndInv, EndIsFinal, sessionId \in dropped PROVE FALSE
    BY DEF NoResurrection
  <2>1. dropped \subseteq Sessions
    BY DEF IndInv, TypeOK
  <2>. QED BY <2>1 DEF EndIsFinal
<1>4. Spec => []SessionCoherent
  BY SessionsAgree
<1>. QED BY <1>1, <1>2, <1>3, <1>4, IndInvHolds, PTL DEF Spec

-----------------------------------------------------------------------------
(* A quiet page holds a session the wallet holds.                          *)

\* What every step does to requests: one that was issued keeps its method, does not come
\* back to the map, and is given up or lost for good.
RequestsGoOn ==
  /\ gaveUp \subseteq gaveUp'
  /\ \A r \in Reqs : outcome[r] # "idle" =>
        /\ outcome'[r] # "idle" /\ method'[r] = method[r]
        /\ r \in pending' => r \in pending
        /\ outcome[r] = "lost" => outcome'[r] = "lost"

LEMMA RequestsIssue ==
  ASSUME TypeInv, NEW r \in Reqs, outcome[r] = "idle", NEW m, NEW o \in Outcomes,
         outcome' = [outcome EXCEPT ![r] = o], method' = [method EXCEPT ![r] = m],
         pending' \subseteq pending \cup {r}, gaveUp' = gaveUp
  PROVE  RequestsGoOn
BY DEF RequestsGoOn, TypeInv, TypeOK

\* A step that issues nothing, and settles only what was in the map.
LEMMA RequestsSettled ==
  ASSUME TypeInv, method' = method, pending' \subseteq pending, gaveUp \subseteq gaveUp',
         \A r \in Reqs : outcome'[r] = outcome[r] \/ (r \in pending /\ outcome'[r] # "idle")
  PROVE  RequestsGoOn
<1>1. \A r \in Reqs : r \in pending => outcome[r] = "waiting"
  BY DEF TypeInv, PendingSound
<1>. QED BY <1>1 DEF RequestsGoOn

LEMMA SettledTwice ==
  ASSUME NEW o \in {"rejected", "lost"}, outcome' = Settled(pending, o)
  PROVE  \A r \in Reqs : outcome'[r] = outcome[r] \/ (r \in pending /\ outcome'[r] = o)
BY DEF Settled

LEMMA RequestsStep ==
  ASSUME TypeInv, [Next]_vars
  PROVE  RequestsGoOn
<1> USE DEF clientVars, requestVars, walletVars, channelVars
<1>1. outcome \in [Reqs -> Outcomes] /\ pending \subseteq Reqs
  BY DEF TypeInv, TypeOK
<1>2. CASE UNCHANGED <<method, pending, gaveUp, outcome>>
  BY <1>2, RequestsSettled
<1>3. CASE Application
  <2>1. ASSUME NEW r \in Reqs, NEW m \in Methods, RefuseRequest(r, m) \/ ThrowFromRequest(r, m)
        PROVE  RequestsGoOn
    BY <2>1, RequestsIssue DEF RefuseRequest, ThrowFromRequest, Outcomes
  <2>2. ASSUME NEW r \in Reqs, NEW m \in Methods, NEW extra, SendRequest(r, m, extra)
        PROVE  RequestsGoOn
    BY <2>2, RequestsIssue DEF SendRequest, Outcomes
  <2>3. CASE Close
    BY <2>3, RequestsSettled, SettledTwice DEF Close, RejectAll
  <2>4. CASE Reload
    BY <2>4, RequestsSettled, SettledTwice DEF Reload
  <2>5. CASE ForgetLocally \/ TakeUnmatchedResponse
    BY <1>2, <2>5 DEF ForgetLocally, TakeUnmatchedResponse
  <2>. QED BY <1>3, <2>1, <2>2, <2>3, <2>4, <2>5 DEF Application
<1>4. CASE Client
  <2>1. ASSUME NEW r \in Reqs, SendRejects(r) \/ SendResolves(r) \/ RequestTimeout(r)
        PROVE  RequestsGoOn
    BY <1>1, <2>1, RequestsSettled DEF SendRejects, SendResolves, RequestTimeout
  <2>2. ASSUME NEW f, HandleFrame(f)
        PROVE  RequestsGoOn
    <3>1. CASE HandleAnswer(f) /\ f.id \in pending
      BY <1>1, <2>2, <3>1, RequestsSettled DEF HandleAnswer
    <3>. QED BY <1>2, <2>2, <3>1 DEF HandleFrame, HandleEvent, HandleAnswer
  <2>. QED BY <1>2, <1>4, <2>1, <2>2 DEF Client, Deliver, DeliverStray, KeyHop, Continue
<1>5. CASE Wallet
  BY <1>2, <1>5 DEF Wallet, WalletAnswer, WalletPush, WalletDelete, Lose
<1>. QED BY <1>2, <1>3, <1>4, <1>5 DEF Next, vars

\* Who gave up on a session gave up on it for good.
LEMMA GivenUpForGood ==
  ASSUME TypeInv, NoneForgotten, RequestsGoOn, GaveUpOnSession
  PROVE  GaveUpOnSession'
<1>1. PICK r \in Reqs : method[r] \in {"connect", "disconnect"} /\ (r \in gaveUp \/ outcome[r] = "lost")
  BY DEF GaveUpOnSession
<1>2. outcome[r] # "idle"
  BY <1>1 DEF NoneForgotten
<1>. QED BY <1>1, <1>2 DEF GaveUpOnSession, RequestsGoOn

\* A step takes a request off the map because it gave the request up or lost it with the
\* page, unless it handles a frame.
GivenUpOnly == \A r \in pending \ pending' : r \in gaveUp' \/ outcome'[r] = "lost"
Delivers == \E i \in DOMAIN toClient : Deliver(i)

LEMMA GivenUpStep ==
  ASSUME TypeInv, SealInv, [Next]_vars
  PROVE  /\ gaveUp' \subseteq gaveUp \cup pending
         /\ GivenUpOnly \/ Delivers
<1> USE DEF clientVars, requestVars, walletVars, channelVars
<1>1. outcome \in [Reqs -> Outcomes] /\ pending \subseteq Reqs
  BY DEF TypeInv, TypeOK
<1> DEFINE Goal == gaveUp' \subseteq gaveUp \cup pending /\ (GivenUpOnly \/ Delivers)
<1>2. CASE UNCHANGED <<pending, gaveUp>>
  BY <1>2 DEF GivenUpOnly
<1>3. CASE Application
  <2>1. CASE Close
    BY <2>1 DEF Close, RejectAll, GivenUpOnly
  <2>2. CASE Reload
    <3>1. \A r \in pending : outcome'[r] = "lost"
      BY <1>1, <2>2 DEF Reload, Settled
    <3>. QED BY <2>2, <3>1 DEF Reload, GivenUpOnly
  <2>3. CASE ForgetLocally \/ TakeUnmatchedResponse
    BY <1>2, <2>3 DEF ForgetLocally, TakeUnmatchedResponse
  <2>4. ASSUME NEW r \in Reqs, NEW m \in Methods, NEW extra,
               RefuseRequest(r, m) \/ ThrowFromRequest(r, m) \/ SendRequest(r, m, extra)
        PROVE  Goal
    <3>1. pending \subseteq pending' /\ gaveUp' = gaveUp
      BY <2>4 DEF RefuseRequest, ThrowFromRequest, SendRequest
    <3>. QED BY <3>1 DEF GivenUpOnly
  <2>. QED BY <1>3, <2>1, <2>2, <2>3, <2>4, Zenon DEF Application
<1>4. CASE Client
  <2>1. ASSUME NEW r \in Reqs, SendRejects(r) \/ SendResolves(r) \/ RequestTimeout(r)
        PROVE  Goal
    BY <1>1, <2>1 DEF SendRejects, SendResolves, RequestTimeout, GivenUpOnly
  <2>2. ASSUME NEW i \in DOMAIN toClient, Deliver(i)
        PROVE  Goal
    <3>1. gaveUp' = gaveUp
      BY <2>2 DEF Deliver, HandleFrame, HandleEvent, HandleAnswer
    <3>. QED BY <2>2, <3>1 DEF Delivers
  <2>3. ASSUME NEW f \in StrayFrame, DeliverStray(f)
        PROVE  Goal
    BY <1>2, <2>3, StrayIsDropped DEF DeliverStray, HandleFrame
  <2>4. ASSUME NEW s \in SessionOrNone, KeyHop(s)
        PROVE  Goal
    BY <1>2, <2>4 DEF KeyHop
  <2>5. CASE Continue
    BY <1>2, <2>5 DEF Continue
  <2>. QED BY <1>4, <2>1, <2>2, <2>3, <2>4, <2>5 DEF Client
<1>5. CASE Wallet
  BY <1>2, <1>5 DEF Wallet, WalletAnswer, WalletPush, WalletDelete, Lose
<1>. QED BY <1>2, <1>3, <1>4, <1>5 DEF Next, vars

\* A frame handled settles at most the request it answers.
LEMMA HandledOneRequest ==
  ASSUME NEW f, HandleFrame(f)
  PROVE  pending' \in {pending, pending \ {f.id}}
BY DEF HandleFrame, HandleEvent, HandleAnswer, requestVars

\* What is on its way to the wallet after a step was on its way before, or is now in the map.
LEMMA SentStep ==
  ASSUME TypeInv, [Next]_vars
  PROVE  \A m \in toWallet' : m \in toWallet \/ m.id \in pending'
<1> USE DEF clientVars, requestVars, walletVars, channelVars
<1>1. CASE toWallet' \subseteq toWallet
  BY <1>1
<1>2. CASE Application
  <2>1. ASSUME NEW r \in Reqs, NEW m \in Methods, NEW extra, SendRequest(r, m, extra)
        PROVE  \A n \in toWallet' : n \in toWallet \/ n.id \in pending'
    BY <2>1 DEF SendRequest, Envelope
  <2>. QED BY <1>1, <1>2, <2>1
       DEF Application, RefuseRequest, ThrowFromRequest, Close, RejectAll, ForgetLocally,
           TakeUnmatchedResponse, Reload
<1>3. CASE Client
  BY <1>1, <1>3 DEF Client, SendRejects, SendResolves, RequestTimeout, Deliver, DeliverStray, KeyHop, Continue
<1>4. CASE Wallet
  BY <1>1, <1>4 DEF Wallet, WalletAnswer, WalletPush, WalletDelete, Lose
<1>. QED BY <1>1, <1>2, <1>3, <1>4 DEF Next, vars

\* No step puts in flight a second answer to one request, or a frame that would not open.
WellSent(c) ==
  /\ \A i, j \in DOMAIN c : c[i].id \in Reqs /\ i < j => c[i].id # c[j].id
  /\ \A i \in DOMAIN c : c[i].sealed = Sealed

LEMMA WellSentStep ==
  ASSUME TypeInv, OneAnswer, WellSent(toClient), [Next]_vars
  PROVE  WellSent(toClient')
<1> USE DEF clientVars, requestVars, walletVars, channelVars
<1>1. CASE toClient' = toClient
  BY <1>1
<1>2. FramesKept => WellSent(toClient')
  BY DEF FramesKept, WellSent
<1>3. ASSUME NEW f, FrameAdded(f), f.sealed = Sealed, f.id \in Reqs => \A i \in DOMAIN toClient : toClient[i].id # f.id
      PROVE  WellSent(toClient')
  BY <1>3 DEF FrameAdded, WellSent
<1>4. CASE Application
  BY <1>1, <1>4 DEF Application, RefuseRequest, ThrowFromRequest, SendRequest, Close, RejectAll,
                    ForgetLocally, TakeUnmatchedResponse, Reload
<1>5. CASE Client
  <2>1. ASSUME NEW i \in DOMAIN toClient, Deliver(i)
        PROVE  WellSent(toClient')
    BY <1>1, <1>2, <2>1, FramesRemoved DEF Deliver, TypeInv
  <2>. QED BY <1>1, <1>5, <2>1
       DEF Client, SendRejects, SendResolves, RequestTimeout, DeliverStray, KeyHop, Continue
<1>6. CASE Wallet
  <2>1. ASSUME NEW m \in toWallet, WalletAnswer(m)
        PROVE  WellSent(toClient')
    <3>1. \A i \in DOMAIN toClient : toClient[i].id # m.id
      BY DEF OneAnswer
    <3>. QED BY <1>3, <2>1, <3>1, WalletFrame DEF TypeInv
  <2>2. ASSUME NEW s \in Sessions, WalletPush(s) \/ WalletDelete(s)
        PROVE  WellSent(toClient')
    <3>1. \A k : Event(k, s).id \notin Reqs /\ Event(k, s).sealed = Sealed
      BY LinkAssumption DEF Event
    <3>. QED BY <1>3, <2>2, <3>1, WalletFrame DEF TypeInv
  <2>3. CASE Lose
    BY <1>1, <1>2, <2>3, FramesRemoved DEF Lose, TypeInv
  <2>. QED BY <1>6, <2>1, <2>2, <2>3 DEF Wallet
<1>. QED BY <1>1, <1>4, <1>5, <1>6 DEF Next, vars

\* Before there is a key nothing moves.
Unkeyed == RequireKey /\ ~sessionKey
LEMMA UnkeyedStep ==
  ASSUME TypeInv, SealInv, Unkeyed => Quiet /\ live = {}, [Next]_vars, Unkeyed'
  PROVE  (Quiet /\ live = {})'
<1> USE DEF clientVars, requestVars, walletVars, channelVars
<1>1. ~Persistent /\ Unkeyed
  <2>1. ~Persistent
    BY LinkAssumption DEF Unkeyed, RequireKey
  <2>2. ASSUME NEW f, HandleFrame(f)
        PROVE  sessionKey' = sessionKey
    BY <2>2 DEF HandleFrame, HandleEvent, HandleAnswer
  <2>3. sessionKey => sessionKey'
    BY <2>1, <2>2
       DEF Next, Application, RefuseRequest, ThrowFromRequest, SendRequest, Close, ForgetLocally,
           TakeUnmatchedResponse, Reload, Client, SendRejects, SendResolves, RequestTimeout, Deliver,
           DeliverStray, KeyHop, Continue, Wallet, WalletAnswer, WalletPush, WalletDelete, Lose, vars
  <2>. QED BY <2>1, <2>3 DEF Unkeyed, RequireKey
<1>2. toWallet = {} /\ toClient = <<>> /\ conts = <<>> /\ live = {}
  BY <1>1 DEF Quiet
<1>3. UNCHANGED <<toWallet, toClient, conts, live>> => (Quiet /\ live = {})'
  BY <1>2 DEF Quiet
<1>4. CASE Application
  <2>1. Refused
    BY <1>1 DEF Refused, Unkeyed
  <2>. QED BY <1>1, <1>3, <1>4, <2>1
       DEF Application, RefuseRequest, ThrowFromRequest, SendRequest, Close, RejectAll, ForgetLocally,
           TakeUnmatchedResponse, Reload
<1>5. CASE Client
  <2>1. ~\E i \in DOMAIN toClient : TRUE
    BY <1>2, EmptySeq
  <2>2. ASSUME NEW f \in StrayFrame, DeliverStray(f)
        PROVE  (Quiet /\ live = {})'
    BY <1>3, <2>2, StrayIsDropped DEF DeliverStray, HandleFrame
  <2>3. \A s : ~KeyHop(s)
    BY DEF KeyHop, Unkeyed
  <2>4. ~Continue
    BY <1>2 DEF Continue
  <2>5. ASSUME NEW r \in Reqs, SendRejects(r) \/ SendResolves(r) \/ RequestTimeout(r)
        PROVE  (Quiet /\ live = {})'
    BY <1>3, <2>5 DEF SendRejects, SendResolves, RequestTimeout
  <2>. QED BY <1>5, <2>1, <2>2, <2>3, <2>4, <2>5 DEF Client
<1>6. CASE Wallet
  BY <1>1, <1>2, <1>3, <1>6 DEF Wallet, WalletAnswer, WalletPush, WalletDelete, Lose, Unkeyed
<1>. QED BY <1>3, <1>4, <1>5, <1>6 DEF Next, vars

LEMMA NoneForgottenStep ==
  ASSUME IndInv, NoneForgotten, [Next]_vars
  PROVE  NoneForgotten'
<1>1. TypeInv /\ SealInv /\ OneAnswer
  BY DEF IndInv, TypeInv, SealInv
<1>2. WellSent(toClient) /\ (Unkeyed => Quiet /\ live = {})
  BY DEF NoneForgotten, WellSent, Unkeyed
<1>3. WellSent(toClient') /\ (Unkeyed' => (Quiet /\ live = {})')
  BY <1>1, <1>2, WellSentStep, UnkeyedStep
<1>4. RequestsGoOn /\ gaveUp' \subseteq gaveUp \cup pending /\ (GivenUpOnly \/ Delivers)
  BY <1>1, RequestsStep, GivenUpStep
<1>5. \A r \in gaveUp' : outcome'[r] # "idle"
  <2>1. \A r \in gaveUp \cup pending : r \in Reqs /\ outcome[r] # "idle"
    BY <1>1 DEF TypeInv, TypeOK, PendingSound, NoneForgotten
  <2>. QED BY <1>4, <2>1 DEF RequestsGoOn
<1>6. ASSUME NEW m \in toWallet'
      PROVE  m.id \in pending' \cup gaveUp' \/ outcome'[m.id] = "lost"
  <2>1. m \in toWallet \/ m.id \in pending'
    BY <1>1, SentStep
  <2>2. CASE m \in toWallet
    <3>1. m.id \in Reqs /\ outcome[m.id] # "idle" /\ (m.id \in pending \cup gaveUp \/ outcome[m.id] = "lost")
      BY <1>1, <2>2 DEF TypeInv, TypeOK, Request, OneAnswer, NoneForgotten
    <3>2. m.id \in gaveUp \/ outcome[m.id] = "lost" => m.id \in gaveUp' \/ outcome'[m.id] = "lost"
      BY <1>4, <3>1 DEF RequestsGoOn
    <3>3. CASE m.id \in pending /\ GivenUpOnly
      BY <3>3 DEF GivenUpOnly
    <3>4. ASSUME NEW i \in DOMAIN toClient, Deliver(i), m.id \in pending
          PROVE  m.id \in pending'
      BY <1>1, <2>2, <3>4, HandledOneRequest DEF Deliver, OneAnswer
    <3>. QED BY <1>4, <3>1, <3>2, <3>3, <3>4 DEF Delivers
  <2>. QED BY <2>1, <2>2
<1>. QED BY <1>3, <1>5, <1>6 DEF NoneForgotten, WellSent, Unkeyed

\* A request that asks for a session is given up, or its answer still counts.
LEMMA TellsKept ==
  ASSUME TypeInv, RequestsGoOn, GivenUpOnly, ~GaveUpOnSession', NEW f \in Frame,
         f.id \in Reqs => outcome[f.id] # "idle"
  PROVE  /\ Tells(f)' <=> Tells(f)
         /\ Left(f)' = Left(f)
<1>1. CASE f.kind # "ok"
  BY <1>1 DEF Tells, Left
<1>2. CASE f.kind = "ok"
  <2>1. f.id \in Reqs /\ f.kind \notin EventKind
    BY <1>2 DEF Frame, AnswerFrame, EventFrame, EventKind
  <2>2. method'[f.id] = method[f.id] /\ method[f.id] \in Methods /\ (f.id \in pending' => f.id \in pending)
    BY <2>1 DEF RequestsGoOn, TypeInv, MethodKnown
  <2>3. ASSUME method[f.id] \in {"connect", "disconnect"}, f.id \in pending
        PROVE  f.id \in pending'
    BY <2>1, <2>2, <2>3 DEF GivenUpOnly, GaveUpOnSession
  <2>. QED BY <1>2, <2>1, <2>2, <2>3 DEF Tells, Left, Methods
<1>. QED BY <1>1, <1>2

\* Frames in flight are frames, and answer what was asked.
LEMMA InFlight ==
  ASSUME TypeInv, OneAnswer, NEW i \in DOMAIN toClient
  PROVE  toClient[i] \in Frame /\ (toClient[i].id \in Reqs => outcome[toClient[i].id] # "idle")
BY LenProperties DEF TypeInv, TypeOK, OneAnswer

\* A step that handles no frame, sends none, and takes no session from the wallet.
LEMMA NewsKept ==
  ASSUME TypeInv, OneAnswer, NoneForgotten, RequestsGoOn, GivenUpOnly, LastNewsIsTrue,
         UNCHANGED <<toClient, conts>>, live \subseteq live', sessionId' \in {sessionId} \cup Held'
  PROVE  LastNewsIsTrue'
<1> SUFFICES ASSUME ~GaveUpOnSession'
             PROVE  LastNewsIsTrue'
  BY DEF LastNewsIsTrue
<1>1. ~GaveUpOnSession
  BY GivenUpForGood
<1>2. \A i \in DOMAIN toClient : /\ Tells(toClient[i])' <=> Tells(toClient[i])
                                 /\ Left(toClient[i])' = Left(toClient[i])
  <2> TAKE i \in DOMAIN toClient
  <2>1. PICK f : f = toClient[i]
    OBVIOUS
  <2>2. (Tells(f)' <=> Tells(f)) /\ Left(f)' = Left(f)
    BY <2>1, InFlight, TellsKept
  <2>3. f = toClient'[i]
    BY <2>1
  <2>. QED BY <2>1, <2>2, <2>3
<1>3. Held \subseteq Held'
  BY DEF Held
<1>4. News' <=> News
  BY <1>2 DEF News
<1>. QED BY <1>1, <1>2, <1>3, <1>4 DEF LastNewsIsTrue

\* The wallet sends a frame that says what it holds now, or one that says nothing of sessions
\* while it holds what it held.
LEMMA NewsAdded ==
  ASSUME TypeInv, NEW f \in Frame, toClient' = Append(toClient, f), LastNewsIsTrue,
         UNCHANGED <<conts, sessionId, pending, method, gaveUp, outcome>>,
         \/ Tells(f) /\ Left(f) \in Held'
         \/ ~Tells(f) /\ live' = live
  PROVE  LastNewsIsTrue'
<1> SUFFICES ASSUME ~GaveUpOnSession'
             PROVE  LastNewsIsTrue'
  BY DEF LastNewsIsTrue
<1>1. ~GaveUpOnSession
  BY DEF GaveUpOnSession
<1>2. PICK n \in Nat :
      /\ DOMAIN toClient' = 1..n
      /\ \A i \in 1..n : i \in DOMAIN toClient \/ i = n
      /\ \A i \in DOMAIN toClient : i \in DOMAIN toClient' /\ i < n /\ toClient'[i] = toClient[i]
      /\ n \in DOMAIN toClient' /\ toClient'[n] = f
  <2> DEFINE n == Len(toClient) + 1
  <2>1. toClient \in Seq(Frame)
    BY DEF TypeInv, TypeOK
  <2>2. Append(toClient, f) \in Seq(Frame) /\ Len(Append(toClient, f)) = n
        /\ (\A i \in 1..Len(toClient) : Append(toClient, f)[i] = toClient[i]) /\ Append(toClient, f)[n] = f
    BY <2>1, AppendProperties
  <2>3. DOMAIN toClient = 1..Len(toClient) /\ Len(toClient) \in Nat
    BY <2>1, LenProperties
  <2>4. DOMAIN Append(toClient, f) = 1..n
    BY <2>2, LenProperties
  <2>5. n \in Nat /\ \A i \in 1..n : i \in 1..Len(toClient) \/ i = n
    BY <2>3
  <2>. QED BY <2>2, <2>3, <2>4, <2>5
<1>3. \A g : (Tells(g)' <=> Tells(g)) /\ Left(g)' = Left(g)
  BY DEF Tells, Left
<1>4. \A i \in DOMAIN toClient' : i \in DOMAIN toClient \/ i = n
  BY <1>2
<1>5. \A i \in DOMAIN toClient : /\ Tells(toClient[i])' <=> Tells(toClient[i])
                                 /\ Left(toClient[i])' = Left(toClient[i])
  <2> TAKE i \in DOMAIN toClient
  <2>1. PICK g : g = toClient[i]
    OBVIOUS
  <2>2. g = toClient'[i]
    BY <1>2, <2>1
  <2>. QED BY <1>3, <2>1, <2>2
<1>6. (Tells(toClient[n])' <=> Tells(f)) /\ Left(toClient[n])' = Left(f)
  BY <1>2, <1>3
<1>7. CASE Tells(f) /\ Left(f) \in Held'
  <2>1. News'
    BY <1>2, <1>6, <1>7 DEF News
  <2>2. ASSUME NEW i \in DOMAIN toClient'
        PROVE  \/ Left(toClient[i])' \in Held'
               \/ \E j \in DOMAIN toClient' : i < j /\ Tells(toClient[j])'
    BY <1>2, <1>4, <1>6, <1>7, <2>2
  <2>. QED BY <2>1, <2>2 DEF LastNewsIsTrue
<1>8. CASE ~Tells(f) /\ live' = live
  <2>1. Held' = Held /\ (News' <=> News)
    BY <1>2, <1>4, <1>5, <1>6, <1>8 DEF Held, News
  <2>2. ASSUME NEW i \in DOMAIN toClient', Tells(toClient[i])'
        PROVE  \/ Left(toClient[i])' \in Held'
               \/ \E j \in DOMAIN toClient' : i < j /\ Tells(toClient[j])'
    <3>1. i \in DOMAIN toClient /\ Tells(toClient[i]) /\ Left(toClient[i])' = Left(toClient[i])
      BY <1>4, <1>5, <1>6, <1>8, <2>2
    <3>2. \/ Left(toClient[i]) \in Held
          \/ \E j \in DOMAIN toClient : i < j /\ Tells(toClient[j])
      BY <1>1, <3>1 DEF LastNewsIsTrue
    <3>. QED BY <1>2, <1>5, <2>1, <3>1, <3>2
  <2>3. \A i \in DOMAIN conts : conts[i].method = "connect" => conts[i].session \in Held \/ News
    BY <1>1 DEF LastNewsIsTrue
  <2>4. sessionId \in Held \/ conts # <<>> \/ News
    BY <1>1 DEF LastNewsIsTrue
  <2>. QED BY <2>1, <2>2, <2>3, <2>4 DEF LastNewsIsTrue
<1>. QED BY <1>7, <1>8

\* What handling a frame leaves: a frame that tells of a session is the page's next session, at
\* once or when the await goes on; one that does not leaves the session alone.
LEMMA NewsHandled ==
  ASSUME TypeInv, SealInv, OneAnswer, NoneForgotten, NEW i \in DOMAIN toClient, conts = <<>>,
         HandleFrame(toClient[i])
  PROVE  \/ Tells(toClient[i]) /\ conts' = <<>> /\ sessionId' = Left(toClient[i])
         \/ /\ Tells(toClient[i]) /\ conts' # <<>>
            /\ \A j \in DOMAIN conts' : conts'[j].method = "connect" => conts'[j].session = Left(toClient[i])
         \/ ~Tells(toClient[i]) /\ conts' = <<>> /\ sessionId' = sessionId
<1> PICK f : f = toClient[i]
  OBVIOUS
<1>1. /\ f \in Frame
      /\ f.kind = "ok" => f.id \in Reqs /\ method[f.id] \in Methods
  <2>1. f \in Frame /\ (f.id \in Reqs => outcome[f.id] # "idle")
    BY InFlight
  <2>2. f.kind = "ok" => f.id \in Reqs
    BY <2>1 DEF Frame, AnswerFrame, EventFrame, EventKind
  <2>. QED BY <2>1, <2>2 DEF TypeInv, MethodKnown
<1>2. Opens(f)
  <2>1. f.sealed = Sealed /\ ~(RequireKey /\ ~sessionKey)
    BY EmptySeq DEF NoneForgotten, Quiet
  <2>2. sessionKey <=> Sealed
    BY <2>1, LinkAssumption DEF SealInv, KeySound, Sealed, RequireKey
  <2>. QED BY <2>1, <2>2, Zenon DEF Opens
<1>3. CASE HandleEvent(f)
  BY <1>1, <1>3 DEF HandleEvent, AdoptConnectResult, ForgetSession, Tells, Left, EventKind
<1>4. CASE HandleAnswer(f)
  <2>1. f.kind \notin EventKind /\ f.kind # "deleted" /\ sessionId' = sessionId
    BY <1>4 DEF HandleAnswer, AnswerKind, EventKind
  <2>2. CASE f.kind = "ok" /\ f.id \in pending /\ method[f.id] # "other"
    <3>1. Tells(f) /\ (method[f.id] = "connect" => Left(f) = f.session)
      BY <2>1, <2>2 DEF Tells, Left
    <3>2. conts' = <<[method |-> method[f.id], session |-> f.session]>>
      BY <1>4, <2>2 DEF HandleAnswer, Resumed
    <3>3. DOMAIN conts' = {1} /\ conts'[1].method = method[f.id] /\ conts'[1].session = f.session
      BY <3>2
    <3>4. conts' # <<>>
      BY <3>2
    <3>. QED BY <3>1, <3>3, <3>4
  <2>3. CASE ~(f.kind = "ok" /\ f.id \in pending /\ method[f.id] # "other")
    BY <1>4, <2>1, <2>3 DEF HandleAnswer, Resumed, Tells
  <2>. QED BY <2>2, <2>3
<1>. QED BY <1>2, <1>3, <1>4 DEF HandleFrame

\* The oldest frame is handled, and stays on the channel or goes.
LEMMA FirstHandled ==
  ASSUME TypeInv, Ordered, NEW i \in DOMAIN toClient, Deliver(i)
  PROVE  /\ i = 1
         /\ \E d \in {0, 1}, n \in Nat :
              /\ DOMAIN toClient = 1..n /\ DOMAIN toClient' = 1..(n-d)
              /\ \A j \in 1..(n-d) : toClient'[j] = toClient[j+d]
<1>1. toClient \in Seq(Frame) /\ i = 1
  BY DEF Deliver, TypeInv, TypeOK
<1>2. DOMAIN toClient = 1..Len(toClient) /\ Len(toClient) \in Nat
  BY <1>1, LenProperties
<1>3. CASE toClient' = toClient
  <2>1. PICK n \in Nat : DOMAIN toClient = 1..n
    BY <1>2
  <2>2. 1..(n-0) = 1..n /\ \A j \in 1..n : j+0 = j
    BY <2>1
  <2>3. \A j \in 1..(n-0) : toClient'[j] = toClient[j+0]
    BY <1>3, <2>2
  <2>. QED BY <1>1, <1>3, <2>1, <2>2, <2>3
<1>4. CASE toClient' = RemoveAt(toClient, 1)
  <2>1. /\ DOMAIN toClient' = 1..(Len(toClient)-1)
        /\ \A j \in DOMAIN toClient' : toClient'[j] = toClient[Place(1, j)]
    BY <1>1, <1>2, <1>4, RemoveAtPlaces
  <2>2. \A j \in 1..(Len(toClient)-1) : Place(1, j) = j+1
    BY <1>2 DEF Place
  <2>. QED BY <1>1, <1>2, <2>1, <2>2
<1>. QED BY <1>1, <1>3, <1>4 DEF Deliver, channelVars

LEMMA NewsDelivered ==
  ASSUME TypeInv, SealInv, OneAnswer, NoneForgotten, RequestsGoOn, LastNewsIsTrue,
         Ordered, ~Batched, NEW i \in DOMAIN toClient, Deliver(i)
  PROVE  LastNewsIsTrue'
<1> SUFFICES ASSUME ~GaveUpOnSession'
             PROVE  LastNewsIsTrue'
  BY DEF LastNewsIsTrue
<1>1. ~GaveUpOnSession
  BY GivenUpForGood
<1>2. conts = <<>> /\ HandleFrame(toClient[i]) /\ live' = live
  BY DEF Deliver, MayDeliver, Turn, Drained, walletVars
<1>3. i = 1
  BY FirstHandled
<1>4. PICK d \in {0, 1}, n \in Nat :
        /\ DOMAIN toClient = 1..n /\ DOMAIN toClient' = 1..(n-d)
        /\ \A j \in 1..(n-d) : toClient'[j] = toClient[j+d]
  BY FirstHandled
<1>5. PICK f : f = toClient[1]
  OBVIOUS
<1> DEFINE Rest == \E j \in 2..n : Tells(toClient[j])
<1>6. method' = method /\ pending' \in {pending, pending \ {f.id}}
  BY <1>2, <1>3, <1>5, HandledOneRequest DEF HandleFrame, HandleEvent, HandleAnswer, requestVars
<1>7. ASSUME NEW j \in 2..n, NEW g, g = toClient[j]
      PROVE  (Tells(g)' <=> Tells(g)) /\ Left(g)' = Left(g)
  <2>1. 1 < j /\ 1 \in DOMAIN toClient /\ j \in DOMAIN toClient
    BY <1>4
  <2>2. g.kind = "ok" => g.id \in Reqs
    <3>1. g \in Frame
      BY <1>7, <2>1, InFlight
    <3>. QED BY <3>1 DEF Frame, AnswerFrame, EventFrame, EventKind
  <2>3. g.kind = "ok" => g.id # f.id
    BY <1>5, <1>7, <2>1, <2>2 DEF NoneForgotten
  <2>. QED BY <1>6, <2>3 DEF Tells, Left
<1>8. (Tells(f)' => Tells(f)) /\ Left(f)' = Left(f)
  BY <1>6 DEF Tells, Left
<1>9. Held' = Held
  BY <1>2 DEF Held
<1>10. \A j \in 1..(n-d) : /\ j+d \in 1..n
                          /\ \/ j+d \in 2..n
                             \/ d = 0 /\ j = 1
  BY <1>4
<1>11. ASSUME NEW j \in 1..(n-d), j+d \in 2..n
       PROVE  (Tells(toClient[j])' <=> Tells(toClient[j+d])) /\ Left(toClient[j])' = Left(toClient[j+d])
  <2>1. PICK g : g = toClient[j+d]
    OBVIOUS
  <2>2. (Tells(g)' <=> Tells(g)) /\ Left(g)' = Left(g)
    BY <1>7, <1>11, <2>1
  <2>3. g = toClient'[j]
    BY <1>4, <2>1
  <2>. QED BY <2>1, <2>2, <2>3
<1>12. ASSUME NEW j \in 2..n
       PROVE  j-d \in 1..(n-d) /\ (j-d)+d = j
  BY <1>4
<1>13. Rest => News'
  <2> SUFFICES ASSUME NEW j \in 2..n, Tells(toClient[j])
               PROVE  News'
    OBVIOUS
  <2>1. Tells(toClient[j-d])'
    BY <1>11, <1>12
  <2>. QED BY <1>4, <1>12, <2>1 DEF News
<1>14. Tells(f) => Left(f) \in Held \/ Rest
  <2>1. 1 \in DOMAIN toClient /\ \A j \in DOMAIN toClient : 1 < j => j \in 2..n
    BY <1>3, <1>4
  <2>2. Tells(f) => \/ Left(f) \in Held
                    \/ \E j \in DOMAIN toClient : 1 < j /\ Tells(toClient[j])
    BY <1>1, <1>5, <2>1 DEF LastNewsIsTrue
  <2>. QED BY <2>1, <2>2
<1>15. (\E j \in DOMAIN toClient : Tells(toClient[j])) => Tells(f) \/ Rest
  BY <1>4, <1>5
<1>16. ASSUME NEW j \in DOMAIN toClient', Tells(toClient[j])'
       PROVE  \/ Left(toClient[j])' \in Held'
              \/ \E k \in DOMAIN toClient' : j < k /\ Tells(toClient[k])'
  <2>1. j \in 1..(n-d)
    BY <1>4
  <2>2. CASE j+d \in 2..n
    <3>1. Tells(toClient[j+d]) /\ Left(toClient[j])' = Left(toClient[j+d])
      BY <1>11, <1>16, <2>1, <2>2
    <3>2. \/ Left(toClient[j+d]) \in Held
          \/ \E k \in DOMAIN toClient : j+d < k /\ Tells(toClient[k])
      BY <1>1, <1>4, <2>2, <3>1 DEF LastNewsIsTrue
    <3>3. ASSUME NEW k \in DOMAIN toClient, j+d < k, Tells(toClient[k])
          PROVE  \E l \in DOMAIN toClient' : j < l /\ Tells(toClient[l])'
      <4>1. k \in 2..n /\ j < k-d
        BY <1>4, <2>1, <2>2, <3>3
      <4>2. k-d \in DOMAIN toClient' /\ Tells(toClient[k-d])'
        BY <1>4, <1>11, <1>12, <3>3, <4>1
      <4>. QED BY <4>1, <4>2
    <3>. QED BY <1>9, <3>1, <3>2, <3>3
  <2>3. CASE d = 0 /\ j = 1
    <3>1. f = toClient'[j]
      BY <1>4, <1>5, <2>1, <2>3
    <3>2. Tells(f) /\ Left(toClient[j])' = Left(f)
      BY <1>8, <1>16, <3>1
    <3>3. ASSUME NEW k \in 2..n, Tells(toClient[k])
          PROVE  \E l \in DOMAIN toClient' : j < l /\ Tells(toClient[l])'
      <4>1. k-d \in DOMAIN toClient' /\ Tells(toClient[k-d])' /\ j < k-d
        BY <1>4, <1>11, <1>12, <2>3, <3>3
      <4>. QED BY <4>1
    <3>. QED BY <1>9, <1>14, <3>2, <3>3
  <2>. QED BY <1>10, <2>1, <2>2, <2>3
<1>17. /\ \A j \in DOMAIN conts' : conts'[j].method = "connect" => conts'[j].session \in Held \/ Rest
       /\ sessionId' \in Held \/ conts' # <<>> \/ Rest
  <2>1. \/ Tells(f) /\ conts' = <<>> /\ sessionId' = Left(f)
        \/ /\ Tells(f) /\ conts' # <<>>
           /\ \A j \in DOMAIN conts' : conts'[j].method = "connect" => conts'[j].session = Left(f)
        \/ ~Tells(f) /\ conts' = <<>> /\ sessionId' = sessionId
    BY <1>2, <1>3, <1>5, NewsHandled
  <2>2. ~Tells(f) => sessionId \in Held \/ Rest
    BY <1>1, <1>2, <1>15 DEF LastNewsIsTrue, News
  <2>3. conts' = <<>> => \A j \in DOMAIN conts' : FALSE
    BY EmptySeq
  <2>. QED BY <1>14, <2>1, <2>2, <2>3
<1>. QED BY <1>9, <1>13, <1>16, <1>17 DEF LastNewsIsTrue

\* The await behind an answer goes on: the page takes the session the answer told of.
LEMMA NewsContinued ==
  ASSUME TypeInv, EndIsFinal, LastNewsIsTrue, Continue
  PROVE  LastNewsIsTrue'
<1> USE DEF clientVars, requestVars, walletVars, channelVars
<1> PICK c : c = Head(conts)
  OBVIOUS
<1>1. /\ conts # <<>> /\ c \in Continuation /\ c = conts[1] /\ 1 \in DOMAIN conts
      /\ conts \in Seq(Continuation)
  BY TailElements DEF Continue, TypeInv, TypeOK
<1>2. conts' = <<>>
  <2>1. Len(conts) = 1 /\ conts' = Tail(conts)
    BY <1>1 DEF Continue, EndIsFinal
  <2>. QED BY <1>1, <2>1
<1>3. UNCHANGED <<toClient, live, pending, method, gaveUp, outcome>>
  BY DEF Continue
<1>4. (News' <=> News) /\ Held' = Held /\ (GaveUpOnSession' <=> GaveUpOnSession)
  BY <1>3 DEF News, Tells, Held, GaveUpOnSession
<1>5. sessionId' = IF c.method = "connect" THEN c.session ELSE None
  BY DEF Continue, AdoptConnectResult, ForgetSession
<1>6. ~GaveUpOnSession => sessionId' \in Held \/ News
  BY <1>1, <1>5 DEF LastNewsIsTrue, Held
<1>7. ~GaveUpOnSession' => \A i \in DOMAIN toClient' : Tells(toClient[i])' =>
         \/ Left(toClient[i])' \in Held'
         \/ \E j \in DOMAIN toClient' : i < j /\ Tells(toClient[j])'
  BY <1>3, <1>4 DEF LastNewsIsTrue, Tells, Left
<1>. QED BY <1>2, <1>4, <1>6, <1>7, EmptySeq DEF LastNewsIsTrue

\* What the wallet sends tells of a session it holds from then on, or that there is none; the
\* channel loses nothing of it.
LEMMA NewsFromWallet ==
  ASSUME TypeInv, OneAnswer, NoneForgotten, LastNewsIsTrue, ~Lossy, Wallet,
         \A m \in toWallet : m.method = method[m.id]
  PROVE  LastNewsIsTrue'
<1> USE DEF clientVars, requestVars, walletVars, channelVars
<1>1. UNCHANGED <<conts, sessionId, pending, method, gaveUp, outcome>>
  BY DEF Wallet, WalletAnswer, WalletPush, WalletDelete, Lose
<1>2. ASSUME NEW s \in Sessions, WalletPush(s)
      PROVE  LastNewsIsTrue'
  <2>1. Tells(Event("established", s)) /\ Left(Event("established", s)) = s
    BY DEF Tells, Left, Event, EventKind
  <2>2. s \in Held' /\ Event("established", s) \in Frame
    BY <1>2, FrameTypes DEF WalletPush, Grant, Held, Frame, EventKind
  <2>. QED BY <1>1, <1>2, <2>1, <2>2, NewsAdded DEF WalletPush
<1>3. ASSUME NEW s \in Sessions, WalletDelete(s)
      PROVE  LastNewsIsTrue'
  <2>1. Tells(Event("deleted", s)) /\ Left(Event("deleted", s)) = None
    BY DEF Tells, Left, Event, EventKind
  <2>2. None \in Held' /\ Event("deleted", s) \in Frame
    BY FrameTypes DEF Held, Frame, EventKind
  <2>. QED BY <1>1, <1>3, <2>1, <2>2, NewsAdded DEF WalletDelete
<1>4. ASSUME NEW m \in toWallet, WalletAnswer(m)
      PROVE  LastNewsIsTrue'
  <2>1. m \in Request /\ m.id \in Reqs /\ method[m.id] = m.method
        /\ (m.id \in pending \cup gaveUp \/ outcome[m.id] = "lost")
    BY DEF TypeInv, TypeOK, Request, NoneForgotten
  <2>2. m.resume \in SessionOrNone /\ m.session \in SessionOrNone /\ Sessions \subseteq SessionOrNone
        /\ None \in SessionOrNone /\ AnswerKinds \subseteq AnswerKind /\ "ok" \in AnswerKind
    BY <2>1, LinkAssumption DEF Request, SessionOrNone, AnswerKind
  <2>3. \A k \in AnswerKind, s \in SessionOrNone : Answer(m, k, s) \in Frame
    BY <2>1, FrameTypes DEF Frame
  <2>4. CASE GaveUpOnSession
    BY <1>1, <2>4 DEF LastNewsIsTrue, GaveUpOnSession
  <2>5. ASSUME ~GaveUpOnSession, m.method \in {"connect", "disconnect"}, NEW s \in SessionOrNone
        PROVE  /\ Tells(Answer(m, "ok", s))
               /\ Left(Answer(m, "ok", s)) = IF m.method = "connect" THEN s ELSE None
    <3>1. m.id \in pending
      BY <2>1, <2>5 DEF GaveUpOnSession
    <3>. QED BY <2>1, <2>5, <3>1 DEF Tells, Left, Answer
  <2>6. CASE ~GaveUpOnSession /\ AnswerConnect(m)
    <3>1. PICK s \in SessionOrNone : s \in live' /\ toClient' = Append(toClient, Answer(m, "ok", s))
      BY <2>2, <2>6 DEF AnswerConnect, Grant
    <3>2. s \in Held' /\ m.method = "connect"
      BY <2>6, <3>1 DEF Held, AnswerConnect
    <3>. QED BY <1>1, <2>2, <2>3, <2>5, <2>6, <3>1, <3>2, NewsAdded
  <2>7. CASE ~GaveUpOnSession /\ AnswerDisconnect(m)
    <3>1. None \in Held' /\ m.method = "disconnect" /\ toClient' = Append(toClient, Answer(m, "ok", m.session))
      BY <2>7 DEF Held, AnswerDisconnect
    <3>. QED BY <1>1, <2>2, <2>3, <2>5, <2>7, <3>1, NewsAdded
  <2>8. ASSUME NEW k \in AnswerKinds, k = "ok" => m.method = "other",
               toClient' = Append(toClient, Answer(m, k, None)), UNCHANGED walletVars
        PROVE  LastNewsIsTrue'
    <3>1. ~Tells(Answer(m, k, None))
      BY <2>1, <2>2, <2>8 DEF Tells, Answer, AnswerKind, EventKind
    <3>. QED BY <1>1, <2>2, <2>3, <2>8, <3>1, NewsAdded
  <2>. QED BY <1>4, <2>4, <2>6, <2>7, <2>8 DEF WalletAnswer
<1>5. ~Lose
  BY DEF Lose
<1>. QED BY <1>2, <1>3, <1>4, <1>5 DEF Wallet

\* Every step leaves the last news true.
LEMMA NewsStep ==
  ASSUME Ordered, ~Lossy, ~Batched, IndInv, SessionCoherent, EndIsFinal, NoneForgotten,
         LastNewsIsTrue, [Next]_vars
  PROVE  LastNewsIsTrue'
<1> USE DEF clientVars, requestVars, walletVars, channelVars
<1>1. TypeInv /\ SealInv /\ OneAnswer /\ RequestsGoOn
  <2>1. TypeInv /\ SealInv /\ OneAnswer
    BY DEF IndInv, TypeInv, SealInv
  <2>. QED BY <2>1, RequestsStep
<1>2. CASE Delivers
  BY <1>1, <1>2, NewsDelivered DEF Delivers
<1>3. CASE GivenUpOnly
  <2>1. ASSUME UNCHANGED <<toClient, conts, live>>, sessionId' \in {sessionId, None}
        PROVE  LastNewsIsTrue'
    BY <1>1, <1>3, <2>1, NewsKept DEF Held
  <2>2. CASE Application
    <3>1. UNCHANGED <<toClient, conts, live>>
      BY <2>2 DEF Application, RefuseRequest, ThrowFromRequest, SendRequest, Close, ForgetLocally,
                  TakeUnmatchedResponse, Reload
    <3>2. sessionId' \in {sessionId, None}
      BY <2>2 DEF Application, RefuseRequest, ThrowFromRequest, SendRequest, Close, ForgetLocally,
                  ForgetSession, TakeUnmatchedResponse, Reload, SessionCoherent
    <3>. QED BY <2>1, <3>1, <3>2
  <2>3. CASE Client
    <3>1. ASSUME NEW r \in Reqs, SendRejects(r) \/ SendResolves(r) \/ RequestTimeout(r)
          PROVE  LastNewsIsTrue'
      BY <2>1, <3>1 DEF SendRejects, SendResolves, RequestTimeout
    <3>2. ASSUME NEW f \in StrayFrame, DeliverStray(f)
          PROVE  LastNewsIsTrue'
      BY <1>1, <2>1, <3>2, StrayIsDropped DEF DeliverStray, HandleFrame
    <3>3. ASSUME NEW s \in SessionOrNone, KeyHop(s)
          PROVE  LastNewsIsTrue'
      <4>1. toClient' = <<>> /\ conts' = <<>>
        BY <3>3 DEF KeyHop, NoneForgotten, Quiet
      <4>2. CASE UNCHANGED <<walletVars, sessionId>>
        BY <2>1, <3>3, <4>2 DEF KeyHop
      <4>3. CASE Grant(s) /\ AdoptConnectResult(s)
        <5>1. sessionId' \in Held'
          BY <4>3 DEF Grant, AdoptConnectResult, Held
        <5>. QED BY <4>1, <5>1, EmptySeq DEF LastNewsIsTrue
      <4>. QED BY <3>3, <4>2, <4>3 DEF KeyHop
    <3>4. CASE Continue
      BY <1>1, <3>4, NewsContinued
    <3>5. ASSUME NEW i \in DOMAIN toClient, Deliver(i)
          PROVE  LastNewsIsTrue'
      BY <1>2, <3>5 DEF Delivers
    <3>. QED BY <2>3, <3>1, <3>2, <3>3, <3>4, <3>5 DEF Client
  <2>4. CASE Wallet
    BY <1>1, <2>4, NewsFromWallet DEF EndIsFinal
  <2>5. CASE UNCHANGED vars
    BY <2>1, <2>5 DEF vars
  <2>. QED BY <2>2, <2>3, <2>4, <2>5 DEF Next
<1>. QED BY <1>1, <1>2, <1>3, GivenUpStep

\* On an ordered channel that loses nothing, with microtasks run before the next frame and a
\* storage that takes every write, a page with nothing left to handle holds no session that the
\* wallet has ended, unless it gave up on a connect or a disconnect: revocations, resumes, reloads,
\* pushes and repeated frames may come in any order, and one grant may end other sessions.
THEOREM QuietPagesAreRight ==
  ASSUME Ordered, ~Lossy, ~Batched, ~StoreMayFail
  PROVE  Spec => []QuietSessionLive
<1>1. Init => EndIsFinal /\ NoneForgotten /\ LastNewsIsTrue
  BY EmptySeq DEF Init, EndIsFinal, Continues, NoneForgotten, Quiet, LastNewsIsTrue, Held
<1>2. IndInv /\ SessionCoherent /\ EndIsFinal /\ [Next]_vars => EndIsFinal'
  BY EndStep
<1>3. IndInv /\ NoneForgotten /\ [Next]_vars => NoneForgotten'
  BY NoneForgottenStep
<1>4. IndInv /\ SessionCoherent /\ EndIsFinal /\ NoneForgotten /\ LastNewsIsTrue /\ [Next]_vars => LastNewsIsTrue'
  BY NewsStep
<1>5. LastNewsIsTrue => QuietSessionLive
  BY EmptySeq DEF LastNewsIsTrue, QuietSessionLive, Quiet, News, Held
<1>6. Spec => []SessionCoherent
  BY SessionsAgree
<1>. QED BY <1>1, <1>2, <1>3, <1>4, <1>5, <1>6, IndInvHolds, PTL DEF Spec

=============================================================================
