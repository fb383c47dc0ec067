----------------------- MODULE RelayTransport_proofs -----------------------
(* Theorems about the outgoing half of the relay transport, for any number *)
(* of sends and chunks, any ladder and any ack timeout.                    *)
EXTENDS RelayTransport, SequenceTheorems, FiniteSetTheorems, WellFoundedInduction, TLAPS

-----------------------------------------------------------------------------
(* Sequences used as queues.                                               *)

\* What Append returns: a sequence whose elements are the original's and the new one.
LEMMA AppendElements ==
  ASSUME NEW S, NEW s \in Seq(S), NEW e \in S
  PROVE  /\ Append(s, e) \in Seq(S)
         /\ \A j \in DOMAIN Append(s, e) :
               Append(s, e)[j] = e \/ \E k \in DOMAIN s : Append(s, e)[j] = s[k]
<1>1. /\ Append(s, e) \in Seq(S)
      /\ Len(Append(s, e)) = Len(s)+1
      /\ \A i \in 1..Len(s) : Append(s, e)[i] = s[i]
      /\ Append(s, e)[Len(s)+1] = e
  BY AppendProperties
<1>2. DOMAIN Append(s, e) = 1..(Len(s)+1) /\ DOMAIN s = 1..Len(s) /\ Len(s) \in Nat
  BY <1>1, LenProperties
<1>3. \A j \in 1..(Len(s)+1) : j = Len(s)+1 \/ j \in 1..Len(s)
  BY <1>2
<1>. QED BY <1>1, <1>2, <1>3

\* What Tail returns: a sequence each of whose elements is an element of the original.
LEMMA TailElements ==
  ASSUME NEW S, NEW s \in Seq(S), s # <<>>
  PROVE  /\ Head(s) \in S /\ 1 \in DOMAIN s /\ Head(s) = s[1]
         /\ Tail(s) \in Seq(S)
         /\ \A j \in DOMAIN Tail(s) : \E k \in DOMAIN s : Tail(s)[j] = s[k]
<1>1. /\ Tail(s) \in Seq(S) /\ Head(s) \in S
      /\ Len(Tail(s)) = Len(s)-1
      /\ \A i \in 1..Len(Tail(s)) : Tail(s)[i] = s[i+1]
  BY HeadTailProperties
<1>2. DOMAIN Tail(s) = 1..(Len(s)-1) /\ DOMAIN s = 1..Len(s) /\ Len(s) \in Nat \ {0}
  BY <1>1, LenProperties, EmptySeq
<1>3. \A j \in 1..(Len(s)-1) : j+1 \in 1..Len(s)
  BY <1>2
<1>4. 1 \in DOMAIN s /\ Head(s) = s[1]
  BY <1>2
<1>. QED BY <1>1, <1>2, <1>3, <1>4

-----------------------------------------------------------------------------
(* Induction over the naturals through sets, and what it gives: publishes  *)
(* can be put in order.                                                    *)

LEMMA LessIsWellFounded == IsWellFoundedOn({p \in Nat \X Nat : p[1] < p[2]}, Nat)
BY Zenon, NatLessThanWellFounded DEF OpToRel

\* A set of naturals that is not empty has a least element.
LEMMA LeastOf ==
  ASSUME NEW T \in SUBSET Nat, T # {}
  PROVE  \E x \in T : \A y \in T : x <= y
<1> DEFINE R == {p \in Nat \X Nat : p[1] < p[2]}
<1>1. PICK x \in T : \A y \in T : ~(<<y, x>> \in R)
  <2>1. IsWellFoundedOn(R, Nat)
    BY LessIsWellFounded
  <2> HIDE DEF R
  <2>. QED BY <2>1, WFMin
<1>2. \A y \in T : ~(y < x)
  BY <1>1
<1>. QED BY <1>2

\* Induction for a property that is a set.
LEMMA SetInduction ==
  ASSUME NEW T \in SUBSET Nat, 0 \in T, \A n \in T : n + 1 \in T
  PROVE  T = Nat
<1> SUFFICES ASSUME Nat \ T # {} PROVE FALSE
  OBVIOUS
<1>1. PICK x \in Nat \ T : \A y \in Nat \ T : x <= y
  BY LeastOf
<1>2. x # 0 /\ x - 1 \in Nat /\ ~(x <= x - 1)
  BY <1>1
<1>3. x - 1 \in T
  BY <1>1, <1>2
<1>4. (x - 1) + 1 = x
  BY <1>1
<1>. QED BY <1>1, <1>3, <1>4

Increasing(s) == \A i, j \in DOMAIN s : i < j => s[i] < s[j]
Enumerates(s, S) ==
    /\ s \in [1..Cardinality(S) -> S]
    /\ Increasing(s)
    /\ \A x \in S : \E i \in DOMAIN s : s[i] = x

\* The largest element comes last.
LEMMA EnumerateMore ==
  ASSUME NEW S, IsFiniteSet(S), S \subseteq Nat, NEW k \in Nat, \A x \in S : x < k,
         NEW s, Enumerates(s, S)
  PROVE  \E t : Enumerates(t, S \cup {k})
<1> DEFINE n == Cardinality(S)
           t == [i \in 1..(n + 1) |-> IF i = n + 1 THEN k ELSE s[i]]
<1>1. n \in Nat /\ Cardinality(S \cup {k}) = n + 1
  <2>1. k \notin S
    OBVIOUS
  <2>. QED BY <2>1, FS_CardinalityType, FS_AddElement
<1>2. s \in [1..n -> S] /\ Increasing(s) /\ \A x \in S : \E i \in 1..n : s[i] = x
  BY DEF Enumerates
<1> HIDE DEF n
<1>3. t \in [1..(n + 1) -> S \cup {k}]
  BY <1>1, <1>2
<1>4. Increasing(t)
  <2>1. SUFFICES ASSUME NEW i \in 1..(n + 1), NEW j \in 1..(n + 1), i < j
                 PROVE  t[i] < t[j]
    BY <1>3 DEF Increasing
  <2>2. i \in 1..n /\ t[i] = s[i] /\ s[i] \in S
    BY <2>1, <1>1, <1>2
  <2>3. CASE j = n + 1
    BY <2>2, <2>3, <1>1
  <2>4. CASE j # n + 1
    <3>1. j \in 1..n /\ t[j] = s[j]
      BY <2>4, <1>1
    <3>. QED BY <2>1, <2>2, <3>1, <1>2 DEF Increasing
  <2>. QED BY <2>3, <2>4
<1>5. \A x \in S \cup {k} : \E i \in 1..(n + 1) : t[i] = x
  <2>1. t[n + 1] = k /\ n + 1 \in 1..(n + 1)
    BY <1>1
  <2>2. \A i \in 1..n : i \in 1..(n + 1) /\ t[i] = s[i]
    BY <1>1
  <2>. QED BY <2>1, <2>2, <1>2
<1>6. Enumerates(t, S \cup {k})
  BY <1>1, <1>3, <1>4, <1>5 DEF Enumerates
<1>. QED BY <1>6

LEMMA BoundedIsFinite ==
  ASSUME NEW m \in Nat, NEW V \in SUBSET (1..m)
  PROVE  IsFiniteSet(V) /\ V \subseteq Nat /\ \A x \in V : x < m + 1
<1>1. IsFiniteSet(V)
  <2>1. IsFiniteSet(1..m)
    BY FS_Interval
  <2>. QED BY <2>1, FS_Subset
<1>2. V \subseteq Nat /\ \A x \in V : x < m + 1
  OBVIOUS
<1>. QED BY <1>1, <1>2

\* Every set of numbers up to a bound can be put in order.
LEMMA Enumerable ==
  ASSUME NEW n \in Nat, NEW S \in SUBSET (1..n)
  PROVE  \E s : Enumerates(s, S)
<1> DEFINE T == {m \in Nat : \A U \in SUBSET (1..m) : \E s : Enumerates(s, U)}
<1>1. 0 \in T
  <2>1. SUFFICES ASSUME NEW U \in SUBSET (1..0) PROVE \E s : Enumerates(s, U)
    OBVIOUS
  <2>2. U = {} /\ Cardinality(U) = 0 /\ 1..0 = {}
    <3>1. 1..0 = {}
      OBVIOUS
    <3>2. U = {}
      BY <3>1
    <3>. QED BY <3>1, <3>2, FS_EmptySet, Zenon
  <2>3. Enumerates([i \in {} |-> i], U)
    BY <2>2 DEF Enumerates, Increasing
  <2>. QED BY <2>3
<1>2. ASSUME NEW m \in T PROVE m + 1 \in T
  <2>1. SUFFICES ASSUME NEW U \in SUBSET (1..(m + 1)) PROVE \E s : Enumerates(s, U)
    OBVIOUS
  <2> DEFINE V == U \ {m + 1}
  <2>2. V \in SUBSET (1..m) /\ m \in Nat
    OBVIOUS
  <2>3. PICK s : Enumerates(s, V)
    BY <2>2
  <2>4. CASE m + 1 \notin U
    BY <2>3, <2>4
  <2>5. CASE m + 1 \in U
    <3>1. \A W \in SUBSET (1..m) : Enumerates(s, W) => \E t : Enumerates(t, W \cup {m + 1})
      <4> SUFFICES ASSUME NEW W \in SUBSET (1..m), Enumerates(s, W)
                   PROVE  \E t : Enumerates(t, W \cup {m + 1})
        OBVIOUS
      <4>1. /\ IsFiniteSet(W) /\ W \subseteq Nat /\ \A x \in W : x < m + 1
            /\ m + 1 \in Nat
        BY <2>2, BoundedIsFinite
      <4>. QED BY <4>1, EnumerateMore
    <3>2. U = V \cup {m + 1}
      BY <2>5
    <3>3. \E t : Enumerates(t, V \cup {m + 1})
      BY <2>2, <2>3, <3>1, Zenon
    <3>. QED BY <3>2, <3>3, Zenon
  <2>. QED BY <2>4, <2>5
<1>3. T = Nat
  <2> HIDE DEF T
  <2>. QED BY <1>1, <1>2, SetInduction, T \in SUBSET Nat DEF T
<1>. QED BY <1>3

-----------------------------------------------------------------------------
(* Sequences of publish numbers.                                           *)

\* Putting publishes in order loses none of them.
LEMMA InOrderFacts ==
  ASSUME NEW n \in Nat, NEW S \in SUBSET (1..n)
  PROVE  /\ InOrder(S) \in Seq(S)
         /\ Increasing(InOrder(S))
         /\ \A x \in S : \E i \in DOMAIN InOrder(S) : InOrder(S)[i] = x
<1> DEFINE c == Cardinality(S)
           s == InOrder(S)
<1>1. IsFiniteSet(S) /\ S \subseteq Nat /\ c \in Nat
  BY BoundedIsFinite, FS_CardinalityType
<1>2. \E t : Enumerates(t, S)
  BY Enumerable
<1>3. s \in [1..c -> S] /\ \A i, j \in DOMAIN s : i < j => s[i] < s[j]
  <2>1. \E t \in [1..Cardinality(S) -> S] : \A i, j \in DOMAIN t : i < j => t[i] < t[j]
    BY <1>2 DEF Enumerates, Increasing
  <2>. QED BY <2>1, Zenon DEF InOrder
<1> HIDE DEF s
<1>4. s \in Seq(S) /\ DOMAIN s = 1..c
  BY <1>1, <1>3, SeqDef
<1>5. Increasing(s)
  BY <1>3 DEF Increasing
<1>6. \A x \in S : \E i \in DOMAIN s : s[i] = x
  <2>1. \A i, j \in 1..c : i # j => s[i] # s[j]
    <3>1. SUFFICES ASSUME NEW i \in 1..c, NEW j \in 1..c, i # j PROVE s[i] # s[j]
      OBVIOUS
    <3>2. i < j \/ j < i
      BY <1>1, <3>1
    <3>3. s[i] \in Nat /\ s[j] \in Nat
      BY <1>1, <1>3
    <3>4. s[i] < s[j] \/ s[j] < s[i]
      BY <1>3, <3>2
    <3>. QED BY <3>3, <3>4
  <2>2. s \in Injection(1..c, S)
    <3>1. \A i, j \in DOMAIN s : s[i] = s[j] => i = j
      BY <1>4, <2>1
    <3>2. IsInjective(s)
      BY <3>1 DEF IsInjective
    <3>. QED BY <1>3, <3>2, Zenon DEF Injection
  <2>3. IsFiniteSet(1..c) /\ Cardinality(1..c) = c
    BY <1>1, FS_Interval
  <2>4. s \in Surjection(1..c, S)
    BY <1>1, <2>2, <2>3, FS_Injection
  <2>. QED BY <1>4, <2>4 DEF Surjection
<1>. QED BY <1>4, <1>5, <1>6 DEF s

LEMMA SeqWider ==
  ASSUME NEW S, NEW T, S \subseteq T, NEW s \in Seq(S)
  PROVE  s \in Seq(T)
OBVIOUS

\* What a concatenation holds.
LEMMA ConcatElements ==
  ASSUME NEW S, NEW v \in Seq(S), NEW w \in Seq(S)
  PROVE  /\ v \o w \in Seq(S)
         /\ DOMAIN (v \o w) = 1..(Len(v) + Len(w))
         /\ \A i \in DOMAIN v : i \in DOMAIN (v \o w) /\ (v \o w)[i] = v[i]
         /\ \A j \in DOMAIN w : Len(v) + j \in DOMAIN (v \o w) /\ (v \o w)[Len(v) + j] = w[j]
         /\ \A i \in DOMAIN (v \o w) : i \in DOMAIN v \/ i - Len(v) \in DOMAIN w
<1>1. /\ v \o w \in Seq(S) /\ Len(v \o w) = Len(v) + Len(w)
      /\ \A i \in 1..(Len(v) + Len(w)) :
            (v \o w)[i] = IF i <= Len(v) THEN v[i] ELSE w[i - Len(v)]
  BY ConcatProperties
<1>2. /\ DOMAIN v = 1..Len(v) /\ DOMAIN w = 1..Len(w) /\ DOMAIN (v \o w) = 1..Len(v \o w)
      /\ Len(v) \in Nat /\ Len(w) \in Nat
  BY <1>1, LenProperties
<1>3. \A i \in 1..Len(v) : i \in 1..(Len(v) + Len(w)) /\ i <= Len(v)
  BY <1>2
<1>4. \A j \in 1..Len(w) : /\ Len(v) + j \in 1..(Len(v) + Len(w))
                           /\ ~(Len(v) + j <= Len(v)) /\ (Len(v) + j) - Len(v) = j
  BY <1>2
<1>5. \A i \in 1..(Len(v) + Len(w)) : i \in 1..Len(v) \/ i - Len(v) \in 1..Len(w)
  BY <1>2
<1>. QED BY <1>1, <1>2, <1>3, <1>4, <1>5

\* What is larger than everything before it may follow it.
LEMMA IncreasingConcat ==
  ASSUME NEW v \in Seq(Nat), NEW w \in Seq(Nat), Increasing(v), Increasing(w),
         \A i \in DOMAIN v : \A j \in DOMAIN w : v[i] < w[j]
  PROVE  Increasing(v \o w)
<1>0. Len(v) \in Nat /\ DOMAIN v = 1..Len(v) /\ DOMAIN w = 1..Len(w) /\ Len(w) \in Nat
  BY LenProperties
<1> SUFFICES ASSUME NEW i \in DOMAIN (v \o w), NEW j \in DOMAIN (v \o w), i < j
             PROVE  (v \o w)[i] < (v \o w)[j]
  BY DEF Increasing
<1>1. DOMAIN (v \o w) = 1..(Len(v) + Len(w))
  BY ConcatElements
<1>2. \A k \in DOMAIN v : (v \o w)[k] = v[k]
  BY ConcatElements
<1>3. \A k \in DOMAIN w : (v \o w)[Len(v) + k] = w[k]
  BY ConcatElements
<1>a. \A k \in DOMAIN (v \o w) : k \notin DOMAIN v =>
         /\ k - Len(v) \in DOMAIN w
         /\ Len(v) + (k - Len(v)) = k
         /\ k > Len(v)
  <2>1. \A a, b \in Nat : \A k \in 1..(a + b) : k \notin 1..a =>
           k - a \in 1..b /\ a + (k - a) = k /\ k > a
    OBVIOUS
  <2>. QED BY <2>1, <1>0, <1>1, Zenon
<1>b. \A a, x, y \in Int : x < y => x - a < y - a
  OBVIOUS
<1>4. CASE i \in DOMAIN v /\ j \in DOMAIN v
  BY <1>2, <1>4 DEF Increasing
<1>5. CASE i \in DOMAIN v /\ j \notin DOMAIN v
  <2>1. j - Len(v) \in DOMAIN w /\ Len(v) + (j - Len(v)) = j
    BY <1>5, <1>a
  <2>. QED BY <1>2, <1>3, <1>5, <2>1
<1>6. CASE i \notin DOMAIN v
  <2>0. j \notin DOMAIN v
    BY <1>0, <1>1, <1>6
  <2>1. /\ i - Len(v) \in DOMAIN w /\ Len(v) + (i - Len(v)) = i
        /\ j - Len(v) \in DOMAIN w /\ Len(v) + (j - Len(v)) = j
    BY <1>6, <1>a, <2>0
  <2>3. i - Len(v) < j - Len(v)
    BY <1>0, <1>1, <1>b
  <2>2. (v \o w)[i] = w[i - Len(v)] /\ (v \o w)[j] = w[j - Len(v)]
    BY <1>3, <2>1
  <2>. QED BY <2>1, <2>2, <2>3 DEF Increasing
<1>. QED BY <1>4, <1>5, <1>6

-----------------------------------------------------------------------------
(* Types.                                                                  *)

LEMMA InitType == Init => TypeOK
<1> SUFFICES ASSUME Init PROVE TypeOK
  OBVIOUS
<1>1. 0 \in 0..Len(Ladder) /\ 0 \in 0..MaxPubs /\ 0 \in 0..AckAfter
  BY RelayAssumption, LenProperties
<1>2. <<>> \in Seq(Pubs \cup {0}) /\ <<>> \in Seq(Frames)
  BY EmptySeq
<1>. QED BY <1>1, <1>2 DEF Init, TypeOK, SocketStates, Fates

\* The publishes of a new frame are numbers not used yet.
LEMMA NewPubsFacts ==
  ASSUME TypeOK, NEW n \in Nat, publishSeq + n <= MaxPubs
  PROVE  /\ NewPubs(n) \subseteq Pubs /\ NewPubs(n) \in SUBSET (1..(publishSeq + n))
         /\ \A p \in NewPubs(n) : p > publishSeq
         /\ publishSeq \in Nat /\ publishSeq + n \in 0..MaxPubs
BY RelayAssumption DEF TypeOK, NewPubs, Pubs

\* What settling some of the publishes in flight does.
LEMMA SettleType ==
  ASSUME TypeOK, NEW S \in SUBSET Pubs, NEW o \in Fates, SettleAs(S, o)
  PROVE  /\ pending' \subseteq Pubs
         /\ ackIn' \in [Pubs -> 0..AckAfter]
         /\ fate' \in [Pubs -> Fates]
<1>1. 0 \in 0..AckAfter
  BY RelayAssumption
<1>. QED BY <1>1 DEF TypeOK, SettleAs

\* A reconnect waits for a rung of the ladder.
LEMMA RungType ==
  ASSUME TypeOK, ScheduleReconnect
  PROVE  attempt' \in 0..Len(Ladder) /\ delay' \in Nat \cup {None}
<1>1. Len(Ladder) \in Nat \ {0} /\ \A i \in 1..Len(Ladder) : Ladder[i] \in Nat
  BY RelayAssumption, LenProperties, EmptySeq
<1>2. attempt \in 0..Len(Ladder) /\ delay \in Nat \cup {None}
  BY DEF TypeOK
<1>3. NextRung \in 1..Len(Ladder)
  BY <1>1, <1>2 DEF NextRung
<1>. QED BY <1>1, <1>2, <1>3 DEF ScheduleReconnect

LEMMA TypeStep == TypeOK /\ [Next]_vars => TypeOK'
<1> SUFFICES ASSUME TypeOK, [Next]_vars PROVE TypeOK'
  OBVIOUS
<1> USE DEF sendVars, timerVars, wireVars
<1>1. ASSUME NEW m \in Msgs, NEW n \in 1..(MaxParts + 1), Send(m, n)
      PROVE  TypeOK'
  <2>1. n \in Nat /\ publishSeq + n <= MaxPubs
    BY <1>1, RelayAssumption DEF Send
  <2>2. /\ NewPubs(n) \subseteq Pubs /\ NewPubs(n) \in SUBSET (1..(publishSeq + n))
        /\ publishSeq + n \in 0..MaxPubs /\ publishSeq + n \in Nat
    BY <2>1, NewPubsFacts
  <2>3. toRelay' \in Seq(Pubs \cup {0}) /\ written' \subseteq Pubs
    <3>1. InOrder(NewPubs(n)) \in Seq(NewPubs(n))
      BY <2>2, InOrderFacts
    <3>2. InOrder(NewPubs(n)) \in Seq(Pubs \cup {0})
      BY <3>1, <2>2
    <3>3. toRelay \o InOrder(NewPubs(n)) \in Seq(Pubs \cup {0})
      BY <3>2, ConcatProperties DEF TypeOK
    <3>. QED BY <1>1, <2>2, <3>3 DEF Send, WriteIfOpen, TypeOK
  <2>4. AckAfter \in 0..AckAfter
    BY RelayAssumption
  <2>. QED BY <1>1, <2>2, <2>3, <2>4 DEF Send, TypeOK, Fates
<1>2. ASSUME NEW m \in Msgs, NEW n \in 1..(MaxParts + 1), RefuseSend(m, n)
      PROVE  TypeOK'
  BY <1>2 DEF RefuseSend, TypeOK
<1>3. ASSUME NEW p \in Pubs, AckTimeout(p) PROVE TypeOK'
  <2>1. {p} \in SUBSET Pubs /\ "timeout" \in Fates
    BY DEF Fates, Rejections
  <2>. QED BY <1>3, <2>1, SettleType DEF AckTimeout, TypeOK
<1>4. ASSUME HandleRaw PROVE TypeOK'
  <2> DEFINE f == Head(toClient)
  <2>1. Tail(toClient) \in Seq(Frames)
    BY <1>4, TailElements DEF HandleRaw, TypeOK
  <2>2. Addressed(f) \in SUBSET Pubs /\ "acked" \in Fates /\ "refused" \in Fates
    BY DEF Addressed, Fates, Rejections, TypeOK
  <2>3. /\ pending' \subseteq Pubs
        /\ ackIn' \in [Pubs -> 0..AckAfter]
        /\ fate' \in [Pubs -> Fates]
    BY <1>4, <2>2, SettleType DEF HandleRaw
  <2>. QED BY <1>4, <2>1, <2>3 DEF HandleRaw, TypeOK
<1>5. ASSUME OnOpen PROVE TypeOK'
  <2>1. pending \in SUBSET (1..MaxPubs) /\ MaxPubs \in Nat
    BY RelayAssumption DEF TypeOK, Pubs
  <2>2. InOrder(pending) \in Seq(pending)
    BY <2>1, InOrderFacts
  <2>3. InOrder(pending) \in Seq(Pubs \cup {0}) /\ <<0>> \in Seq(Pubs \cup {0})
    BY <2>2 DEF TypeOK
  <2>4. <<0>> \o InOrder(pending) \in Seq(Pubs \cup {0})
    BY <2>3, ConcatProperties
  <2>5. 0 \in 0..Len(Ladder)
    BY RelayAssumption, LenProperties
  <2>. QED BY <1>5, <2>4, <2>5 DEF OnOpen, TypeOK, Greeting, Resend, SocketStates
<1>6. ASSUME Drop PROVE TypeOK'
  BY <1>6 DEF Drop, TypeOK, SocketStates
<1>7. ASSUME OnClose PROVE TypeOK'
  <2>1. attempt' \in 0..Len(Ladder) /\ delay' \in Nat \cup {None}
    BY <1>7, RungType DEF OnClose
  <2>. QED BY <1>7, <2>1, EmptySeq DEF OnClose, TypeOK, SocketStates
<1>8. ASSUME Connect PROVE TypeOK'
  BY <1>8 DEF Connect, TypeOK, SocketStates
<1>9. ASSUME Close PROVE TypeOK'
  <2>1. pending \in SUBSET Pubs /\ "closed" \in Fates
    BY DEF TypeOK, Fates, Rejections
  <2>2. /\ pending' \subseteq Pubs
        /\ ackIn' \in [Pubs -> 0..AckAfter]
        /\ fate' \in [Pubs -> Fates]
    BY <1>9, <2>1, SettleType DEF Close, RejectAllPending
  <2>. QED BY <1>9, <2>2 DEF Close, StopReconnect, TypeOK, SocketStates
<1>10. ASSUME RelayReceives PROVE TypeOK'
  <2> DEFINE h == Head(toRelay)
  <2>1. h \in Pubs \cup {0} /\ Tail(toRelay) \in Seq(Pubs \cup {0})
    BY <1>10, TailElements DEF RelayReceives, TypeOK
  <2>2. [op |-> "ack", id |-> h] \in Frames /\ [op |-> "error", id |-> h] \in Frames
    BY <2>1 DEF Frames
  <2>3. Append(got, h) \in Seq(Pubs \cup {0})
    BY <2>1, AppendProperties DEF TypeOK
  <2>4. \A e \in Frames : Append(toClient, e) \in Seq(Frames)
    BY AppendProperties DEF TypeOK
  <2>5. relayed' \subseteq Pubs /\ toClient' \in Seq(Frames)
    BY <1>10, <2>1, <2>2, <2>4 DEF RelayReceives, TypeOK
  <2>. QED BY <1>10, <2>1, <2>3, <2>5 DEF RelayReceives, TypeOK
<1>11. ASSUME Tick PROVE TypeOK'
  <2>1. ackIn' \in [Pubs -> 0..AckAfter]
    <3>1. \A p \in Pubs : ackIn[p] \in 0..AckAfter
      BY DEF TypeOK
    <3>2. \A p \in pending : ackIn[p] > 0
      BY <1>11 DEF Tick
    <3>3. \A p \in Pubs : (IF p \in pending THEN ackIn[p] - 1 ELSE 0) \in 0..AckAfter
      BY <3>1, <3>2, RelayAssumption
    <3>. QED BY <1>11, <3>3 DEF Tick
  <2>2. delay' \in Nat \cup {None}
    BY <1>11 DEF Tick, TypeOK
  <2>. QED BY <1>11, <2>1, <2>2 DEF Tick, TypeOK
<1>12. ASSUME UNCHANGED vars PROVE TypeOK'
  BY <1>12 DEF vars, TypeOK
<1>. QED BY <1>1, <1>2, <1>3, <1>4, <1>5, <1>6, <1>7, <1>8, <1>9, <1>10, <1>11, <1>12
         DEF Next

-----------------------------------------------------------------------------
(* The pending map, the numbering of publishes, and acks.                  *)

SettleInv == PendingOpen /\ PartsSound /\ AckSound

\* Settling publishes in flight keeps the map and the promises together.
LEMMA SettleSound ==
  ASSUME TypeOK, PendingOpen, PartsSound,
         NEW S \in SUBSET pending, NEW o \in {"acked"} \cup Rejections, SettleAs(S, o),
         UNCHANGED <<publishSeq, parts, turnedDown>>
  PROVE  PendingOpen' /\ PartsSound'
<1>1. o # "waiting" /\ o # "none"
  BY DEF Rejections
<1>2. \A p \in Pubs : fate'[p] = IF p \in S THEN o ELSE fate[p]
  BY DEF SettleAs
<1>3. PendingOpen'
  BY <1>1, <1>2 DEF PendingOpen, SettleAs
<1>4. \A p \in Pubs : p > publishSeq => p \notin S
  BY DEF PendingOpen, PartsSound
<1>5. \A m \in Msgs : parts[m] \subseteq Pubs
  BY DEF TypeOK
<1>6. PartsSound'
  BY <1>1, <1>2, <1>4, <1>5 DEF PartsSound
<1>. QED BY <1>3, <1>6

LEMMA SettleInvSame ==
  ASSUME SettleInv,
         UNCHANGED <<pending, fate, publishSeq, parts, turnedDown>>,
         AckSound'
  PROVE  SettleInv'
BY DEF SettleInv, PendingOpen, PartsSound

\* Acks stay sound while no new one appears.
LEMMA AckStays ==
  ASSUME AckSound, relayed \subseteq relayed',
         \A j \in DOMAIN toClient' : \E k \in DOMAIN toClient : toClient'[j] = toClient[k],
         \A p \in Pubs : fate'[p] = "acked" => fate[p] = "acked"
  PROVE  AckSound'
BY DEF AckSound

LEMMA SettleInvStep == TypeOK /\ SettleInv /\ [Next]_vars => SettleInv'
<1> SUFFICES ASSUME TypeOK, SettleInv, [Next]_vars PROVE SettleInv'
  OBVIOUS
<1> USE DEF sendVars, timerVars, wireVars
<1>0. PendingOpen /\ PartsSound /\ AckSound
  BY DEF SettleInv
<1>1. ASSUME NEW m \in Msgs, NEW n \in 1..(MaxParts + 1), Send(m, n)
      PROVE  SettleInv'
  <2>1. n \in Nat /\ publishSeq + n <= MaxPubs
    BY <1>1, RelayAssumption DEF Send
  <2>2. /\ NewPubs(n) \subseteq Pubs
        /\ \A p \in NewPubs(n) : p > publishSeq /\ p <= publishSeq + n
        /\ \A p \in Pubs : p > publishSeq + n => p > publishSeq /\ p \notin NewPubs(n)
        /\ \A p \in Pubs : p <= publishSeq => p <= publishSeq + n
    <3>1. NewPubs(n) \subseteq Pubs /\ publishSeq \in Nat
      BY <2>1, NewPubsFacts
    <3>2. \A s, k, p \in Nat :
             /\ p \in (s + 1)..(s + k) => p > s /\ p <= s + k
             /\ p > s + k => p > s /\ p \notin (s + 1)..(s + k)
             /\ p <= s => p <= s + k
      OBVIOUS
    <3>3. Pubs \subseteq Nat
      BY RelayAssumption DEF Pubs
    <3>. QED BY <2>1, <3>1, <3>2, <3>3 DEF NewPubs
  <2>3. \A p \in Pubs : fate'[p] = IF p \in NewPubs(n) THEN "waiting" ELSE fate[p]
    BY <1>1 DEF Send
  <2>4. PendingOpen'
    BY <1>0, <1>1, <2>2, <2>3 DEF PendingOpen, Send
  <2>5. parts' = [parts EXCEPT ![m] = NewPubs(n)] /\ publishSeq' = publishSeq + n
        /\ turnedDown' = turnedDown /\ m \notin turnedDown
    BY <1>1 DEF Send, Unsent
  <2>6. PartsSound'
    <3>1. \A x \in Msgs : parts[x] \subseteq Pubs /\ \A p \in parts[x] : p \notin NewPubs(n)
      BY <1>0, <2>2 DEF PartsSound, TypeOK, NewPubs, Pubs
    <3>2. \A x \in Msgs : parts'[x] = IF x = m THEN NewPubs(n) ELSE parts[x]
      BY <2>5 DEF TypeOK
    <3>3. turnedDown \subseteq Msgs
      BY DEF TypeOK
    <3>4. \A p \in Pubs : p > publishSeq' => fate'[p] = "none"
      BY <1>0, <2>2, <2>3, <2>5 DEF PartsSound
    <3>5. \A x \in Msgs : \A p \in parts'[x] : p <= publishSeq' /\ fate'[p] # "none"
      BY <1>0, <2>2, <2>3, <2>5, <3>1, <3>2 DEF PartsSound
    <3>6. \A x, y \in Msgs : x # y => parts'[x] \cap parts'[y] = {}
      BY <1>0, <3>1, <3>2 DEF PartsSound
    <3>7. \A x \in turnedDown' : parts'[x] = {}
      BY <1>0, <2>5, <3>2, <3>3 DEF PartsSound
    <3>. QED BY <3>4, <3>5, <3>6, <3>7 DEF PartsSound
  <2>7. AckSound'
    BY <1>0, <1>1, <2>3 DEF AckSound, Send
  <2>. QED BY <2>4, <2>6, <2>7 DEF SettleInv
<1>2. ASSUME NEW m \in Msgs, NEW n \in 1..(MaxParts + 1), RefuseSend(m, n)
      PROVE  SettleInv'
  <2>1. PendingOpen' /\ AckSound'
    BY <1>0, <1>2 DEF RefuseSend, PendingOpen, AckSound
  <2>2. PartsSound'
    BY <1>0, <1>2 DEF RefuseSend, PartsSound, Unsent
  <2>. QED BY <2>1, <2>2 DEF SettleInv
<1>3. ASSUME NEW p \in Pubs, AckTimeout(p) PROVE SettleInv'
  <2>1. SettleAs({p}, "timeout") /\ {p} \in SUBSET pending
    BY <1>3 DEF AckTimeout
  <2>2. "timeout" \in Rejections
    BY DEF Rejections
  <2>3. PendingOpen' /\ PartsSound'
    BY <1>0, <1>3, <2>1, <2>2, SettleSound DEF AckTimeout
  <2>4. AckSound'
    BY <1>0, <1>3, <2>1 DEF AckSound, AckTimeout, SettleAs
  <2>. QED BY <2>3, <2>4 DEF SettleInv
<1>4. ASSUME HandleRaw PROVE SettleInv'
  <2> DEFINE f == Head(toClient)
             o == IF f.op = "ack" THEN "acked" ELSE "refused"
  <2>1. SettleAs(Addressed(f), o) /\ Addressed(f) \in SUBSET pending
    BY <1>4 DEF HandleRaw, Addressed
  <2>2. o \in {"acked"} \cup Rejections
    BY DEF Rejections
  <2>3. UNCHANGED <<publishSeq, parts, turnedDown, relayed>> /\ toClient' = Tail(toClient)
    BY <1>4 DEF HandleRaw
  <2>4. PendingOpen' /\ PartsSound'
    <3> HIDE DEF o, f
    <3>. QED BY <1>0, <2>1, <2>2, <2>3, SettleSound
  <2>5. /\ \A j \in DOMAIN toClient' : \E k \in DOMAIN toClient : toClient'[j] = toClient[k]
        /\ 1 \in DOMAIN toClient /\ f = toClient[1]
    BY <1>4, <2>3, TailElements DEF HandleRaw, TypeOK
  <2>6. \A p \in Pubs : fate'[p] = "acked" => p \in relayed
    <3>1. \A p \in Pubs : fate'[p] = IF p \in Addressed(f) THEN o ELSE fate[p]
      BY <2>1 DEF SettleAs
    <3>2. \A p \in Addressed(f) : p = f.id
      BY DEF Addressed
    <3>3. o = "acked" => f.id \in relayed
      BY <1>0, <2>5 DEF AckSound
    <3>. QED BY <1>0, <3>1, <3>2, <3>3 DEF AckSound
  <2>7. AckSound'
    BY <1>0, <2>3, <2>5, <2>6 DEF AckSound
  <2>. QED BY <2>4, <2>7 DEF SettleInv
<1>5. ASSUME OnOpen \/ Drop \/ Connect PROVE SettleInv'
  <2>1. UNCHANGED <<pending, fate, publishSeq, parts, turnedDown, relayed, toClient>>
    BY <1>5 DEF OnOpen, Drop, Connect
  <2>. QED BY <1>0, <2>1, SettleInvSame DEF AckSound
<1>6. ASSUME OnClose PROVE SettleInv'
  <2>1. UNCHANGED <<pending, fate, publishSeq, parts, turnedDown, relayed>> /\ toClient' = <<>>
    BY <1>6 DEF OnClose
  <2>2. DOMAIN toClient' = {}
    BY <2>1
  <2>. QED BY <1>0, <2>1, <2>2, SettleInvSame DEF AckSound
<1>7. ASSUME Close PROVE SettleInv'
  <2>1. SettleAs(pending, "closed") /\ "closed" \in Rejections
    BY <1>7 DEF Close, RejectAllPending, Rejections
  <2>2. UNCHANGED <<publishSeq, parts, turnedDown, toClient, relayed>>
    BY <1>7 DEF Close
  <2>3. PendingOpen' /\ PartsSound'
    BY <1>0, <2>1, <2>2, SettleSound
  <2>4. AckSound'
    BY <1>0, <2>1, <2>2 DEF AckSound, SettleAs
  <2>. QED BY <2>3, <2>4 DEF SettleInv
<1>8. ASSUME RelayReceives PROVE SettleInv'
  <2> DEFINE h == Head(toRelay)
             Fresh(e) == e.op = "ack" => e.id \in relayed'
  <2>1. UNCHANGED <<pending, fate, publishSeq, parts, turnedDown>> /\ relayed \subseteq relayed'
    BY <1>8 DEF RelayReceives
  <2>2. h \in Pubs \cup {0}
    BY <1>8, TailElements DEF RelayReceives, TypeOK
  <2>3. toClient' = toClient \/ \E e \in Frames : toClient' = Append(toClient, e) /\ Fresh(e)
    <3>1. [op |-> "ack", id |-> h] \in Frames /\ [op |-> "error", id |-> h] \in Frames
      BY <2>2 DEF Frames
    <3>2. CASE relayed' = relayed \cup {h} /\ toClient' = Append(toClient, [op |-> "ack", id |-> h])
      BY <3>1, <3>2
    <3>3. CASE toClient' = Append(toClient, [op |-> "error", id |-> h])
      BY <3>1, <3>3
    <3>. QED BY <1>8, <3>2, <3>3 DEF RelayReceives
  <2>4. \A j \in DOMAIN toClient' : Fresh(toClient'[j])
    <3>1. \A k \in DOMAIN toClient : Fresh(toClient[k])
      BY <1>0, <2>1 DEF AckSound
    <3> HIDE DEF Fresh
    <3>2. ASSUME NEW e \in Frames, toClient' = Append(toClient, e), Fresh(e)
          PROVE  \A j \in DOMAIN toClient' : Fresh(toClient'[j])
      <4>1. \A j \in DOMAIN Append(toClient, e) :
               Append(toClient, e)[j] = e
               \/ \E k \in DOMAIN toClient : Append(toClient, e)[j] = toClient[k]
        BY AppendElements DEF TypeOK
      <4>. QED BY <3>1, <3>2, <4>1
    <3>. QED BY <2>3, <3>1, <3>2
  <2>5. AckSound'
    BY <1>0, <2>1, <2>4 DEF AckSound
  <2>. QED BY <2>1, <2>5, SettleInvSame
<1>9. ASSUME Tick \/ UNCHANGED vars PROVE SettleInv'
  <2>1. UNCHANGED <<pending, fate, publishSeq, parts, turnedDown, relayed, toClient>>
    BY <1>9 DEF Tick, vars
  <2>. QED BY <1>0, <2>1, SettleInvSame DEF AckSound
<1>. QED BY <1>1, <1>2, <1>3, <1>4, <1>5, <1>6, <1>7, <1>8, <1>9 DEF Next

-----------------------------------------------------------------------------
(* Sockets and the reconnect timer.                                        *)

SocketInv == SocketSound /\ ClosedIsFinal

LEMMA SocketInvStep == TypeOK /\ SocketInv /\ [Next]_vars => SocketInv'
<1> SUFFICES ASSUME TypeOK, SocketInv, [Next]_vars PROVE SocketInv'
  OBVIOUS
<1> USE DEF sendVars, timerVars, wireVars
<1>0. SocketSound /\ ClosedIsFinal
  BY DEF SocketInv
<1>1. ASSUME NEW m \in Msgs, NEW n \in 1..(MaxParts + 1), Send(m, n)
      PROVE  SocketInv'
  BY <1>0, <1>1 DEF Send, WriteIfOpen, SocketSound, ClosedIsFinal, SocketInv
<1>2. ASSUME NEW m \in Msgs, NEW n \in 1..(MaxParts + 1), RefuseSend(m, n)
      PROVE  SocketInv'
  BY <1>0, <1>2 DEF RefuseSend, SocketSound, ClosedIsFinal, SocketInv
<1>3. ASSUME NEW p \in Pubs, AckTimeout(p) PROVE SocketInv'
  BY <1>0, <1>3 DEF AckTimeout, SettleAs, SocketSound, ClosedIsFinal, SocketInv
<1>4. ASSUME HandleRaw PROVE SocketInv'
  <2>1. pending' \subseteq pending
    BY <1>4 DEF HandleRaw, SettleAs
  <2>2. UNCHANGED <<closed, socket, delay, toRelay, got>>
    BY <1>4 DEF HandleRaw
  <2>. QED BY <1>0, <2>1, <2>2 DEF SocketSound, ClosedIsFinal, SocketInv
<1>5. ASSUME OnOpen PROVE SocketInv'
  BY <1>0, <1>5 DEF OnOpen, SocketSound, ClosedIsFinal, SocketInv
<1>6. ASSUME Drop PROVE SocketInv'
  BY <1>0, <1>6 DEF Drop, SocketSound, ClosedIsFinal, SocketInv
<1>7. ASSUME OnClose PROVE SocketInv'
  <2>1. SocketSound'
    BY <1>7 DEF OnClose, SocketSound
  <2>2. ClosedIsFinal'
    <3>1. CASE ~closed
      BY <1>7, <3>1 DEF OnClose, ClosedIsFinal
    <3>2. CASE closed
      BY <1>0, <1>7, <3>2 DEF OnClose, ScheduleReconnect, ClosedIsFinal
    <3>. QED BY <3>1, <3>2
  <2>. QED BY <2>1, <2>2 DEF SocketInv
<1>8. ASSUME Connect PROVE SocketInv'
  <2>1. delay # None
    BY <1>8, RelayAssumption DEF Connect
  <2>. QED BY <1>0, <1>8, <2>1 DEF Connect, SocketSound, ClosedIsFinal, SocketInv
<1>9. ASSUME Close PROVE SocketInv'
  BY <1>0, <1>9 DEF Close, StopReconnect, RejectAllPending, SettleAs, SocketSound,
                    ClosedIsFinal, SocketInv
<1>10. ASSUME RelayReceives PROVE SocketInv'
  <2>1. socket \notin {"connecting", "gone"}
    BY <1>0, <1>10 DEF RelayReceives, SocketSound
  <2>2. UNCHANGED <<closed, socket, delay, pending>>
    BY <1>10 DEF RelayReceives
  <2>. QED BY <1>0, <2>1, <2>2 DEF SocketSound, ClosedIsFinal, SocketInv
<1>11. ASSUME Tick PROVE SocketInv'
  <2>1. UNCHANGED <<closed, socket, pending, toRelay, got>> /\ (delay = None => delay' = None)
    BY <1>11 DEF Tick
  <2>. QED BY <1>0, <2>1 DEF SocketSound, ClosedIsFinal, SocketInv
<1>12. ASSUME UNCHANGED vars PROVE SocketInv'
  BY <1>0, <1>12 DEF vars, SocketSound, ClosedIsFinal, SocketInv
<1>. QED BY <1>1, <1>2, <1>3, <1>4, <1>5, <1>6, <1>7, <1>8, <1>9, <1>10, <1>11, <1>12
         DEF Next

-----------------------------------------------------------------------------
(* The wire.                                                               *)

WireInv == WireBounded /\ WireInOrder /\ NothingStranded

\* The wire by its parts.
LEMMA WireSaid ==
  WireInv <=> /\ socket = "open" => Wire # <<>> /\ pending \subseteq ToSet(Wire)
              /\ \A i \in DOMAIN Wire : Wire[i] <= publishSeq
              /\ Wire # <<>> => Wire[1] = 0
              /\ Increasing(Wire)
BY Zenon DEF WireInv, WireBounded, WireInOrder, NothingStranded, Wire, Increasing

\* What leaves the wire alone and opens no socket keeps it sound.
LEMMA WireStays ==
  ASSUME WireInv, Wire' = Wire, publishSeq' = publishSeq,
         socket' = "open" => socket = "open" /\ pending' \subseteq pending
  PROVE  WireInv'
BY DEF WireInv, WireBounded, WireInOrder, NothingStranded, Wire

\* Moving the first of one sequence to the end of the other leaves the whole alone.
LEMMA FirstMoves ==
  ASSUME NEW S, NEW v \in Seq(S), NEW w \in Seq(S), w # <<>>
  PROVE  Append(v, Head(w)) \o Tail(w) = v \o w
<1> DEFINE h == Head(w)
           t == Tail(w)
<1>1. /\ h \in S /\ t \in Seq(S) /\ Len(t) = Len(w) - 1 /\ h = w[1]
      /\ \A i \in 1..Len(t) : t[i] = w[i + 1]
      /\ Len(w) \in Nat \ {0}
  BY HeadTailProperties, LenProperties, EmptySeq
<1> HIDE DEF h, t
<1>2. <<h>> \in Seq(S) /\ Len(<<h>>) = 1 /\ <<h>>[1] = h
  BY <1>1
<1>3. <<h>> \o t = w
  <2>1. /\ <<h>> \o t \in Seq(S) /\ Len(<<h>> \o t) = 1 + Len(t)
        /\ \A i \in 1..(1 + Len(t)) : (<<h>> \o t)[i] = IF i <= 1 THEN <<h>>[i] ELSE t[i - 1]
    BY <1>1, <1>2, ConcatProperties
  <2>2. 1 + Len(t) = Len(w)
    BY <1>1
  <2>3. ASSUME NEW i \in 1..Len(w) PROVE (<<h>> \o t)[i] = w[i]
    <3>1. CASE i = 1
      BY <1>1, <1>2, <2>1, <2>2, <3>1
    <3>2. CASE i # 1
      <4>1. ~(i <= 1) /\ i - 1 \in 1..Len(t) /\ (i - 1) + 1 = i
        BY <1>1, <3>2
      <4>. QED BY <1>1, <2>1, <2>2, <4>1
    <3>. QED BY <3>1, <3>2
  <2>. QED BY <2>1, <2>2, <2>3, SeqEqual
<1>4. Append(v, h) = v \o <<h>>
  BY <1>1, AppendIsConcat
<1>5. (v \o <<h>>) \o t = v \o (<<h>> \o t)
  BY <1>1, <1>2, ConcatAssociative
<1>. QED BY <1>3, <1>4, <1>5, SMTT(30) DEF h, t

\* What follows the wire, in order and newer than all of it, leaves it sound.
LEMMA WireGrows ==
  ASSUME NEW w \in Seq(Nat), Increasing(w), w # <<>>, w[1] = 0,
         NEW lo \in Nat, NEW hi \in Nat, lo <= hi, \A i \in DOMAIN w : w[i] <= lo,
         NEW S \in SUBSET (1..hi), \A p \in S : p > lo
  PROVE  LET x == w \o InOrder(S) IN
           /\ x \in Seq(Nat) /\ x # <<>> /\ x[1] = 0 /\ Increasing(x)
           /\ \A i \in DOMAIN x : x[i] <= hi
           /\ ToSet(w) \cup S \subseteq ToSet(x)
<1> DEFINE s == InOrder(S)
           x == w \o s
<1>1. s \in Seq(S) /\ Increasing(s) /\ \A p \in S : \E i \in DOMAIN s : s[i] = p
  BY InOrderFacts
<1>2. S \subseteq Nat /\ \A p \in S : p <= hi
  OBVIOUS
<1>3. s \in Seq(Nat) /\ \A i \in DOMAIN s : s[i] \in S
  <2> HIDE DEF s
  <2>1. DOMAIN s = 1..Len(s) /\ \A i \in 1..Len(s) : s[i] \in S
    BY <1>1, LenProperties, ElementOfSeq
  <2>2. s \in Seq(Nat)
    BY <1>1, <1>2, SeqWider
  <2>. QED BY <2>1, <2>2
<1> HIDE DEF s
<1>4. /\ x \in Seq(Nat)
      /\ \A i \in DOMAIN w : i \in DOMAIN x /\ x[i] = w[i]
      /\ \A j \in DOMAIN s : Len(w) + j \in DOMAIN x /\ x[Len(w) + j] = s[j]
  <2>1. s \in Seq(Nat)
    BY <1>3
  <2> DEFINE Joined(v, u) ==
               /\ v \o u \in Seq(Nat)
               /\ \A i \in DOMAIN v : i \in DOMAIN (v \o u) /\ (v \o u)[i] = v[i]
               /\ \A j \in DOMAIN u : Len(v) + j \in DOMAIN (v \o u) /\ (v \o u)[Len(v) + j] = u[j]
  <2>2. \A v, u \in Seq(Nat) : Joined(v, u)
    BY ConcatElements, SMTT(30)
  <2> HIDE DEF Joined
  <2>3. Joined(w, s)
    BY <2>1, <2>2
  <2>. QED BY <2>3 DEF Joined
<1>5. \A i \in DOMAIN x : i \in DOMAIN w \/ (i - Len(w) \in DOMAIN s /\ x[i] = s[i - Len(w)])
  <2>0. s \in Seq(Nat)
    BY <1>3
  <2>1. \A i \in DOMAIN x : i \in DOMAIN w \/ i - Len(w) \in DOMAIN s
    BY <2>0, ConcatElements, Zenon
  <2>2. \A i \in DOMAIN x : Len(w) + (i - Len(w)) = i
    BY <1>4, LenProperties
  <2>. QED BY <1>4, <2>1, <2>2
<1>6. 1 \in DOMAIN w
  BY LenProperties, EmptySeq
<1>7. x # <<>> /\ x[1] = 0
  BY <1>4, <1>6
<1>8. \A i \in DOMAIN w : w[i] \in Nat
  OBVIOUS
<1>9. Increasing(x)
  <2>1. \A i \in DOMAIN w : \A j \in DOMAIN s : w[i] < s[j]
    BY <1>2, <1>3, <1>8
  <2>. QED BY <1>1, <1>3, <2>1, IncreasingConcat
<1>10. \A i \in DOMAIN x : x[i] <= hi
  BY <1>2, <1>3, <1>4, <1>5, <1>8
<1>11. ToSet(w) \cup S \subseteq ToSet(x)
  <2>1. \A y : y \in ToSet(x) <=> \E i \in DOMAIN x : x[i] = y
    BY DEF ToSet
  <2>2. \A y : y \in ToSet(w) <=> \E i \in DOMAIN w : w[i] = y
    BY DEF ToSet
  <2>3. \A p \in S : \E i \in DOMAIN x : x[i] = p
    BY <1>1, <1>4
  <2>4. \A i \in DOMAIN w : \E k \in DOMAIN x : x[k] = w[i]
    BY <1>4
  <2> HIDE DEF x
  <2>. QED BY <2>1, <2>2, <2>3, <2>4
<1>. QED BY <1>4, <1>7, <1>9, <1>10, <1>11 DEF s

\* A wire that is sound after a step.
LEMMA WireBecomes ==
  ASSUME NEW x, Wire' = x,
         socket' = "open" => x # <<>> /\ pending' \subseteq ToSet(x),
         \A i \in DOMAIN x : x[i] <= publishSeq',
         x # <<>> => x[1] = 0,
         Increasing(x)
  PROVE  WireInv'
<1>1. WireBounded'
  BY DEF WireBounded
<1>2. WireInOrder'
  BY Zenon DEF WireInOrder, Wire, Increasing
<1>3. NothingStranded'
  BY DEF NothingStranded, Wire
<1>. QED BY <1>1, <1>2, <1>3 DEF WireInv

LEMMA WireInvStep ==
  ASSUME TypeOK, SettleInv, SocketInv, WireInv, [Next]_vars
  PROVE  WireInv'
<1> USE DEF sendVars, timerVars, wireVars
<1>a. /\ got \in Seq(Pubs \cup {0}) /\ toRelay \in Seq(Pubs \cup {0}) /\ Wire \in Seq(Nat)
      /\ publishSeq \in Nat
  <2>1. Pubs \cup {0} \subseteq Nat
    BY RelayAssumption DEF Pubs
  <2>2. got \o toRelay \in Seq(Pubs \cup {0})
    BY ConcatProperties DEF TypeOK
  <2>3. got \o toRelay \in Seq(Nat)
    BY <2>1, <2>2, SeqWider
  <2>. QED BY <2>3 DEF TypeOK, Wire
<1>b. /\ socket = "open" => Wire # <<>> /\ pending \subseteq ToSet(Wire)
      /\ \A i \in DOMAIN Wire : Wire[i] <= publishSeq
      /\ Wire # <<>> => Wire[1] = 0
      /\ Increasing(Wire)
  BY WireSaid
<1>c. \A i \in DOMAIN Wire : Wire[i] \in Nat
  BY <1>a
<1>1. ASSUME NEW m \in Msgs, NEW n \in 1..(MaxParts + 1), Send(m, n)
      PROVE  WireInv'
  <2>1. n \in Nat /\ publishSeq + n <= MaxPubs
    BY <1>1, RelayAssumption DEF Send
  <2>2. /\ NewPubs(n) \in SUBSET (1..(publishSeq + n))
        /\ \A p \in NewPubs(n) : p > publishSeq
        /\ publishSeq + n \in Nat /\ publishSeq <= publishSeq + n
    BY <2>1, <1>a, NewPubsFacts
  <2>3. socket' = socket /\ got' = got /\ publishSeq' = publishSeq + n
        /\ pending' = pending \cup NewPubs(n)
    BY <1>1 DEF Send
  <2>4. CASE socket # "open"
    <3>1. Wire' = Wire
      BY <1>1, <2>3, <2>4 DEF Wire, Send, WriteIfOpen
    <3>2. \A i \in DOMAIN Wire : Wire[i] <= publishSeq + n
      BY <1>a, <1>b, <1>c, <2>1
    <3>. QED BY <1>b, <2>3, <2>4, <3>1, <3>2, WireBecomes
  <2>5. CASE socket = "open"
    <3> DEFINE x == Wire \o InOrder(NewPubs(n))
    <3>1. /\ x \in Seq(Nat) /\ x # <<>> /\ x[1] = 0 /\ Increasing(x)
          /\ \A i \in DOMAIN x : x[i] <= publishSeq + n
          /\ ToSet(Wire) \cup NewPubs(n) \subseteq ToSet(x)
      BY <1>a, <1>b, <2>2, <2>5, WireGrows
    <3>2. Wire' = x
      <4>1. toRelay' = toRelay \o InOrder(NewPubs(n))
        BY <1>1, <2>5 DEF Send, WriteIfOpen
      <4>2. InOrder(NewPubs(n)) \in Seq(Pubs \cup {0})
        <5>1. InOrder(NewPubs(n)) \in Seq(NewPubs(n)) /\ NewPubs(n) \subseteq Pubs \cup {0}
          BY <2>1, <2>2, NewPubsFacts, InOrderFacts
        <5>. QED BY <5>1, SeqWider
      <4>3. (got \o toRelay) \o InOrder(NewPubs(n)) = got \o (toRelay \o InOrder(NewPubs(n)))
        <5>1. \A S : \A u, v, w \in Seq(S) : (u \o v) \o w = u \o (v \o w)
          BY ConcatAssociative
        <5>2. got \in Seq(Pubs \cup {0}) /\ toRelay \in Seq(Pubs \cup {0})
          BY DEF TypeOK
        <5>. QED BY <4>2, <5>1, <5>2
      <4>. QED BY <2>3, <4>1, <4>3 DEF Wire
    <3> HIDE DEF x
    <3>3. pending' \subseteq ToSet(x)
      BY <1>b, <2>3, <2>5, <3>1
    <3>. QED BY <2>3, <3>1, <3>2, <3>3, WireBecomes
  <2>. QED BY <2>4, <2>5
<1>2. ASSUME NEW m \in Msgs, NEW n \in 1..(MaxParts + 1), RefuseSend(m, n)
      PROVE  WireInv'
  <2>1. UNCHANGED <<socket, pending, publishSeq, got, toRelay>>
    BY <1>2 DEF RefuseSend
  <2>. QED BY <2>1, WireStays DEF Wire
<1>3. ASSUME NEW p \in Pubs, AckTimeout(p) PROVE WireInv'
  <2>1. UNCHANGED <<socket, publishSeq, got, toRelay>> /\ pending' \subseteq pending
    BY <1>3 DEF AckTimeout, SettleAs
  <2>. QED BY <2>1, WireStays DEF Wire
<1>4. ASSUME HandleRaw PROVE WireInv'
  <2>1. UNCHANGED <<socket, publishSeq, got, toRelay>> /\ pending' \subseteq pending
    BY <1>4 DEF HandleRaw, SettleAs
  <2>. QED BY <2>1, WireStays DEF Wire
<1>5. ASSUME OnOpen PROVE WireInv'
  <2> DEFINE x == <<0>> \o InOrder(pending)
  <2>1. got = <<>>
    BY <1>5 DEF OnOpen, SocketInv, SocketSound
  <2>2. pending \in SUBSET (1..publishSeq) /\ \A p \in pending : p > 0
    <3>1. pending \subseteq Pubs /\ Pubs = 1..MaxPubs /\ MaxPubs \in Nat
      BY RelayAssumption DEF TypeOK, Pubs
    <3>2. \A p \in pending : ~(p > publishSeq)
      BY <3>1 DEF SettleInv, PendingOpen, PartsSound
    <3>. QED BY <1>a, <3>1, <3>2
  <2>3. <<0>> \in Seq(Nat) /\ Increasing(<<0>>) /\ <<0>> # <<>> /\ <<0>>[1] = 0
        /\ \A i \in DOMAIN <<0>> : <<0>>[i] <= 0
    BY DEF Increasing
  <2>4. /\ x \in Seq(Nat) /\ x # <<>> /\ x[1] = 0 /\ Increasing(x)
        /\ \A i \in DOMAIN x : x[i] <= publishSeq
        /\ ToSet(<<0>>) \cup pending \subseteq ToSet(x)
    <3>1. 0 \in Nat /\ 0 <= publishSeq
      BY <1>a
    <3>. QED BY <1>a, <2>2, <2>3, <3>1, WireGrows
  <2>5. Wire' = x
    <3>1. got' = <<>> /\ toRelay' = x
      BY <1>5, <2>1 DEF OnOpen, Greeting, Resend
    <3>2. <<>> \o x = x
      BY <2>4, ConcatEmptySeq
    <3>. QED BY <3>1, <3>2 DEF Wire
  <2>6. UNCHANGED <<pending, publishSeq>>
    BY <1>5 DEF OnOpen
  <2> HIDE DEF x
  <2>. QED BY <2>4, <2>5, <2>6, WireBecomes
<1>6. ASSUME Drop PROVE WireInv'
  <2>1. UNCHANGED <<pending, publishSeq, got, toRelay>> /\ socket' # "open"
    BY <1>6 DEF Drop
  <2>. QED BY <2>1, WireStays DEF Wire
<1>7. ASSUME OnClose PROVE WireInv'
  <2>1. Wire' = <<>>
    <3>1. <<>> \o <<>> = <<>>
      OBVIOUS
    <3>. QED BY <1>7, <3>1 DEF OnClose, Wire
  <2>2. socket' # "open"
    BY <1>7 DEF OnClose
  <2>3. DOMAIN <<>> = {}
    OBVIOUS
  <2>. QED BY <2>1, <2>2, <2>3, WireBecomes DEF Increasing
<1>8. ASSUME Connect \/ Close PROVE WireInv'
  <2>1. UNCHANGED <<publishSeq, got, toRelay>> /\ socket' # "open"
    BY <1>8 DEF Connect, Close
  <2>. QED BY <2>1, WireStays DEF Wire
<1>9. ASSUME RelayReceives PROVE WireInv'
  <2>1. UNCHANGED <<socket, pending, publishSeq>>
    BY <1>9 DEF RelayReceives
  <2>2. toRelay # <<>> /\ got' = Append(got, Head(toRelay)) /\ toRelay' = Tail(toRelay)
    BY <1>9 DEF RelayReceives
  <2>3. Wire' = Wire
    BY <1>a, <2>2, FirstMoves DEF Wire
  <2>. QED BY <2>1, <2>3, WireStays
<1>10. ASSUME Tick \/ UNCHANGED vars PROVE WireInv'
  <2>1. UNCHANGED <<socket, pending, publishSeq, got, toRelay>>
    BY <1>10 DEF Tick, vars
  <2>. QED BY <2>1, WireStays DEF Wire
<1>. QED BY <1>1, <1>2, <1>3, <1>4, <1>5, <1>6, <1>7, <1>8, <1>9, <1>10 DEF Next

-----------------------------------------------------------------------------
(* The theorems.                                                           *)

LEMMA RelayInvParts == RelayInv <=> TypeOK /\ SettleInv /\ SocketInv /\ WireInv
BY DEF RelayInv, SettleInv, SocketInv, WireInv

LEMMA InitRelayInv == Init => RelayInv
<1> SUFFICES ASSUME Init PROVE TypeOK /\ SettleInv /\ SocketInv /\ WireInv
  BY RelayInvParts
<1>1. TypeOK
  BY InitType
<1>2. SettleInv
  BY DEF Init, SettleInv, PendingOpen, PartsSound, AckSound
<1>3. SocketInv
  BY DEF Init, SocketInv, SocketSound, ClosedIsFinal
<1>4. WireInv
  <2>1. Wire = <<>> /\ DOMAIN Wire = {} /\ socket # "open"
    BY DEF Init, Wire
  <2>. QED BY <2>1, WireSaid DEF Increasing
<1>. QED BY <1>1, <1>2, <1>3, <1>4

LEMMA RelayInvStep == RelayInv /\ [Next]_vars => RelayInv'
<1> SUFFICES ASSUME RelayInv, [Next]_vars PROVE RelayInv'
  OBVIOUS
<1>1. TypeOK /\ SettleInv /\ SocketInv /\ WireInv
  BY RelayInvParts
<1>2. TypeOK' /\ SettleInv' /\ SocketInv' /\ WireInv'
  BY <1>1, TypeStep, SettleInvStep, SocketInvStep, WireInvStep
<1>. QED BY <1>2 DEF RelayInv, SettleInv, SocketInv, WireInv

\* Whatever drops and however often, the invariant of the relay transport holds.
THEOREM RelaySound == Spec => []RelayInv
BY InitRelayInv, RelayInvStep, PTL DEF Spec

\* send() resolves only when the relay took every chunk of its frame.
THEOREM ResolvedIsRelayed == Spec => []SentMeansRelayed
<1>1. RelayInv => SentMeansRelayed
  <2> SUFFICES ASSUME RelayInv, NEW m \in Msgs, SendOutcome(m) = "resolved"
               PROVE  parts[m] \subseteq relayed
    BY DEF SentMeansRelayed
  <2>1. \A p \in parts[m] : p \in Pubs /\ fate[p] \in Fates /\ fate[p] # "none"
    BY DEF RelayInv, TypeOK, PartsSound
  <2>2. \A p \in parts[m] : fate[p] \notin Rejections /\ fate[p] # "waiting"
    BY DEF SendOutcome
  <2>3. \A p \in parts[m] : fate[p] = "acked"
    BY <2>1, <2>2 DEF Fates
  <2>. QED BY <2>1, <2>3 DEF RelayInv, AckSound
<1>. QED BY <1>1, RelaySound, PTL

\* An open connection carries every publish still without an answer.
THEOREM NoneStranded == Spec => []NothingStranded
<1>1. RelayInv => NothingStranded
  BY DEF RelayInv
<1>. QED BY <1>1, RelaySound, PTL

\* On each connection the topic comes first and publishes keep their order.
THEOREM KeptInOrder == Spec => []WireInOrder
<1>1. RelayInv => WireInOrder
  BY DEF RelayInv
<1>. QED BY <1>1, RelaySound, PTL

\* After close() nothing is pending and nothing will connect again.
THEOREM CloseIsFinal == Spec => []ClosedIsFinal
<1>1. RelayInv => ClosedIsFinal
  BY DEF RelayInv
<1>. QED BY <1>1, RelaySound, PTL

-----------------------------------------------------------------------------
(* The relay transport implements RequestLifecycle.                        *)

\* A frame none of whose publishes a step touches keeps its outcome.
LEMMA OutcomeSame ==
  ASSUME NEW x \in Msgs, parts'[x] = parts[x], x \in turnedDown' <=> x \in turnedDown,
         \A p \in parts[x] : fate'[p] = fate[p]
  PROVE  SendOutcome(x)' = SendOutcome(x)
BY DEF SendOutcome

\* A step that changes one outcome, from waiting to settled, settles one request.
LEMMA SettlesOne ==
  ASSUME NEW m \in Msgs, UNCHANGED closed,
         \A x \in Msgs : x # m => SendOutcome(x)' = SendOutcome(x),
         \/ SendOutcome(m)' = SendOutcome(m)
         \/ SendOutcome(m) = "waiting" /\ SendOutcome(m)' \in {"resolved", "rejected"}
  PROVE  [Lifecycle!LNext]_(Lifecycle!lifecycleVars)
<1> DEFINE out == [x \in Msgs |-> SendOutcome(x)]
           out1 == [x \in Msgs |-> SendOutcome(x)']
<1>1. CASE SendOutcome(m)' = SendOutcome(m)
  <2>1. out1 = out
    BY <1>1
  <2>. QED BY <2>1 DEF Lifecycle!lifecycleVars
<1>2. CASE SendOutcome(m) = "waiting" /\ SendOutcome(m)' \in {"resolved", "rejected"}
  <2>1. out[m] = "waiting" /\ out1 = [out EXCEPT ![m] = SendOutcome(m)']
    BY <1>2
  <2>2. Lifecycle!Settle(m)
    BY <1>2, <2>1 DEF Lifecycle!Settle
  <2>. QED BY <2>2 DEF Lifecycle!LNext
<1>. QED BY <1>1, <1>2

\* An answer or a timeout of one publish concerns the frame it is a part of, and no other.
LEMMA OneSettles ==
  ASSUME RelayInv, NEW S \in SUBSET pending, \A p, q \in S : p = q,
         NEW o \in {"acked"} \cup Rejections, SettleAs(S, o),
         UNCHANGED <<closed, parts, turnedDown>>
  PROVE  [Lifecycle!LNext]_(Lifecycle!lifecycleVars)
<1>1. /\ \A x \in Msgs : parts[x] \subseteq Pubs
      /\ \A p \in Pubs : fate'[p] = IF p \in S THEN o ELSE fate[p]
      /\ \A p \in S : fate[p] = "waiting"
      /\ \A x, y \in Msgs : x # y => parts[x] \cap parts[y] = {}
      /\ \A x \in turnedDown : parts[x] = {}
  BY DEF RelayInv, TypeOK, SettleAs, PendingOpen, PartsSound
<1>2. CASE \E m \in Msgs : parts[m] \cap S # {}
  <2>1. PICK m \in Msgs, p \in S : p \in parts[m]
    BY <1>2
  <2>2. \A x \in Msgs : x # m => SendOutcome(x)' = SendOutcome(x)
    <3> SUFFICES ASSUME NEW x \in Msgs, x # m PROVE SendOutcome(x)' = SendOutcome(x)
      OBVIOUS
    <3>1. \A q \in parts[x] : q \notin S
      BY <1>1, <2>1
    <3>2. \A q \in parts[x] : fate'[q] = fate[q]
      BY <1>1, <3>1
    <3>. QED BY <3>2, OutcomeSame
  <2>3. m \notin turnedDown /\ m \notin turnedDown' /\ parts[m] # {} /\ parts'[m] = parts[m]
    BY <1>1, <2>1
  <2>4. \A q \in parts[m] : q # p => fate'[q] = fate[q]
    BY <1>1, <2>1
  <2>5. fate[p] = "waiting" /\ fate'[p] = o /\ o # "waiting"
    BY <1>1, <2>1 DEF Rejections
  <2>6. SendOutcome(m) = "rejected" => SendOutcome(m)' = "rejected"
    <3> SUFFICES ASSUME SendOutcome(m) = "rejected" PROVE SendOutcome(m)' = "rejected"
      OBVIOUS
    <3>1. PICK q \in parts[m] : fate[q] \in Rejections
      BY <2>3 DEF SendOutcome
    <3>2. q # p
      BY <2>5, <3>1 DEF Rejections
    <3>. QED BY <2>3, <2>4, <3>1, <3>2 DEF SendOutcome
  <2>7. SendOutcome(m) \in {"waiting", "rejected"}
    BY <2>1, <2>3, <2>5 DEF SendOutcome
  <2>8. SendOutcome(m)' \in {"waiting", "rejected", "resolved"}
    BY <2>3 DEF SendOutcome
  <2>. QED BY <2>2, <2>6, <2>7, <2>8, SettlesOne
<1>3. CASE ~\E m \in Msgs : parts[m] \cap S # {}
  <2>1. \A x \in Msgs : SendOutcome(x)' = SendOutcome(x)
    <3> SUFFICES ASSUME NEW x \in Msgs PROVE SendOutcome(x)' = SendOutcome(x)
      OBVIOUS
    <3>1. \A q \in parts[x] : fate'[q] = fate[q]
      BY <1>1, <1>3
    <3>. QED BY <3>1, OutcomeSame
  <2>. QED BY <2>1 DEF Lifecycle!lifecycleVars
<1>. QED BY <1>2, <1>3

\* close() settles what is open, and leaves the rest as it was.
LEMMA CloseShuts ==
  ASSUME RelayInv, Close
  PROVE  Lifecycle!Shut
<1>1. /\ \A x \in Msgs : parts[x] \subseteq Pubs
      /\ \A p \in Pubs : fate'[p] = IF fate[p] = "waiting" THEN "closed" ELSE fate[p]
      /\ \A x \in turnedDown : parts[x] = {}
      /\ closed' = TRUE /\ UNCHANGED <<parts, turnedDown>>
  BY DEF RelayInv, TypeOK, Close, RejectAllPending, SettleAs, PendingOpen, PartsSound, sendVars
<1>2. \A x \in Msgs : SendOutcome(x)' =
         IF SendOutcome(x) = "waiting" THEN "rejected" ELSE SendOutcome(x)
  <2> SUFFICES ASSUME NEW x \in Msgs
               PROVE  SendOutcome(x)' =
                         IF SendOutcome(x) = "waiting" THEN "rejected" ELSE SendOutcome(x)
    OBVIOUS
  <2>1. CASE \E p \in parts[x] : fate[p] = "waiting"
    <3>1. PICK p \in parts[x] : fate[p] = "waiting"
      BY <2>1
    <3>2. fate'[p] = "closed" /\ "closed" \in Rejections
      BY <1>1, <3>1 DEF Rejections
    <3>3. SendOutcome(x)' = "rejected"
      BY <1>1, <3>1, <3>2 DEF SendOutcome
    <3>4. SendOutcome(x) \in {"waiting", "rejected"}
      BY <3>1 DEF SendOutcome
    <3>. QED BY <3>3, <3>4
  <2>2. CASE ~\E p \in parts[x] : fate[p] = "waiting"
    <3>1. \A p \in parts[x] : fate'[p] = fate[p]
      BY <1>1, <2>2
    <3>2. SendOutcome(x)' = SendOutcome(x)
      BY <1>1, <3>1, OutcomeSame
    <3>3. SendOutcome(x) # "waiting"
      BY <2>2 DEF SendOutcome
    <3>. QED BY <3>2, <3>3
  <2>. QED BY <2>1, <2>2
<1>. QED BY <1>1, <1>2 DEF Lifecycle!Shut, Lifecycle!EndOpen, Lifecycle!Open

LEMMA LifecycleStep ==
  RelayInv /\ [Next]_vars => [Lifecycle!LNext]_(Lifecycle!lifecycleVars)
<1> SUFFICES ASSUME RelayInv, [Next]_vars
             PROVE  [Lifecycle!LNext]_(Lifecycle!lifecycleVars)
  OBVIOUS
<1> USE DEF sendVars, timerVars, wireVars
<1> DEFINE out == [x \in Msgs |-> SendOutcome(x)]
           out1 == [x \in Msgs |-> SendOutcome(x)']
<1>1. ASSUME NEW m \in Msgs, NEW n \in 1..(MaxParts + 1), Send(m, n)
      PROVE  Lifecycle!Accept(m)
  <2>1. n \in Nat /\ n > 0 /\ publishSeq + n <= MaxPubs /\ TypeOK
    BY <1>1, RelayAssumption DEF Send, RelayInv
  <2>2. /\ NewPubs(n) \subseteq Pubs /\ NewPubs(n) # {}
        /\ \A p \in NewPubs(n) : p > publishSeq
    <3>1. publishSeq + 1 \in NewPubs(n)
      BY <2>1 DEF NewPubs, TypeOK
    <3>. QED BY <2>1, <3>1, NewPubsFacts
  <2>3. \A p \in Pubs : fate'[p] = IF p \in NewPubs(n) THEN "waiting" ELSE fate[p]
    BY <1>1 DEF Send
  <2>4. \A x \in Msgs : parts'[x] = IF x = m THEN NewPubs(n) ELSE parts[x]
    BY <1>1, <2>1 DEF Send, TypeOK
  <2>5. ~closed /\ UNCHANGED <<closed, turnedDown>> /\ m \notin turnedDown /\ parts[m] = {}
    BY <1>1 DEF Send, Unsent
  <2>6. \A x \in Msgs : x # m => SendOutcome(x)' = SendOutcome(x)
    <3> SUFFICES ASSUME NEW x \in Msgs, x # m PROVE SendOutcome(x)' = SendOutcome(x)
      OBVIOUS
    <3>1. \A p \in parts[x] : p \in Pubs /\ p \notin NewPubs(n)
      BY <2>1, NewPubsFacts DEF RelayInv, PartsSound, TypeOK, NewPubs, Pubs
    <3>. QED BY <2>3, <2>4, <2>5, <3>1, OutcomeSame
  <2>7. SendOutcome(m) = "idle"
    BY <2>5 DEF SendOutcome
  <2>8. SendOutcome(m)' = "waiting"
    <3>1. \A p \in NewPubs(n) : fate'[p] = "waiting" /\ "waiting" \notin Rejections
      BY <2>2, <2>3 DEF Rejections
    <3>. QED BY <2>2, <2>4, <2>5, <3>1 DEF SendOutcome
  <2>9. out[m] = "idle" /\ out1 = [out EXCEPT ![m] = "waiting"]
    BY <2>6, <2>7, <2>8
  <2>. QED BY <2>5, <2>9 DEF Lifecycle!Accept
<1>2. ASSUME NEW m \in Msgs, NEW n \in 1..(MaxParts + 1), RefuseSend(m, n)
      PROVE  Lifecycle!Refuse(m)
  <2>1. /\ parts[m] = {} /\ m \notin turnedDown /\ turnedDown' = turnedDown \cup {m}
        /\ UNCHANGED <<closed, parts, fate>>
    BY <1>2 DEF RefuseSend, Unsent
  <2>2. \A x \in Msgs : x # m => SendOutcome(x)' = SendOutcome(x)
    BY <2>1 DEF SendOutcome
  <2>3. SendOutcome(m) = "idle" /\ SendOutcome(m)' = "rejected"
    BY <2>1 DEF SendOutcome
  <2>4. out[m] = "idle" /\ out1 = [out EXCEPT ![m] = "rejected"]
    BY <2>2, <2>3
  <2>. QED BY <2>1, <2>4 DEF Lifecycle!Refuse
<1>3. ASSUME NEW p \in Pubs, AckTimeout(p) PROVE [Lifecycle!LNext]_(Lifecycle!lifecycleVars)
  <2>1. /\ {p} \in SUBSET pending /\ SettleAs({p}, "timeout")
        /\ "timeout" \in {"acked"} \cup Rejections /\ UNCHANGED <<closed, parts, turnedDown>>
    BY <1>3 DEF AckTimeout, Rejections
  <2>. QED BY <2>1, OneSettles
<1>4. ASSUME HandleRaw PROVE [Lifecycle!LNext]_(Lifecycle!lifecycleVars)
  <2> DEFINE f == Head(toClient)
             o == IF f.op = "ack" THEN "acked" ELSE "refused"
  <2>1. /\ Addressed(f) \in SUBSET pending /\ SettleAs(Addressed(f), o)
        /\ \A p, q \in Addressed(f) : p = q
        /\ UNCHANGED <<closed, parts, turnedDown>>
    BY <1>4 DEF HandleRaw, Addressed
  <2>2. o \in {"acked"} \cup Rejections
    BY DEF Rejections
  <2> HIDE DEF f, o
  <2>. QED BY <2>1, <2>2, OneSettles
<1>5. ASSUME Close PROVE Lifecycle!Shut
  BY <1>5, CloseShuts
<1>6. ASSUME OnOpen \/ Drop \/ OnClose \/ Connect \/ RelayReceives \/ Tick \/ UNCHANGED vars
      PROVE  UNCHANGED Lifecycle!lifecycleVars
  <2>1. UNCHANGED <<closed, fate, parts, turnedDown>>
    BY <1>6 DEF OnOpen, Drop, OnClose, Connect, RelayReceives, Tick, vars
  <2>2. \A x \in Msgs : SendOutcome(x)' = SendOutcome(x)
    BY <2>1 DEF SendOutcome
  <2>. QED BY <2>1, <2>2 DEF Lifecycle!lifecycleVars
<1>. QED BY <1>1, <1>2, <1>3, <1>4, <1>5, <1>6 DEF Next, Lifecycle!LNext

\* send() is accepted once, settles at most once, and a close leaves none open.
THEOREM SendImplemented == Spec => ImplementsLifecycle
<1>1. Init => Lifecycle!LInit
  <2>1. Init => \A m \in Msgs : SendOutcome(m) = "idle"
    BY DEF Init, SendOutcome
  <2>. QED BY <2>1 DEF Init, Lifecycle!LInit
<1>. QED BY <1>1, LifecycleStep, RelaySound, PTL DEF Spec, ImplementsLifecycle, Lifecycle!LSpec
=============================================================================
