---------------------------- MODULE Ledger_proofs ----------------------------
(***************************************************************************)
(* The commands for a Ledger device, for any number of calls and devices,  *)
(* any size of chunks and transactions: a device is returned however a     *)
(* command ends, a send tells what the node told it, and what reaches the  *)
(* node is signed over the bytes that were built.                          *)
(***************************************************************************)
EXTENDS Ledger, SequenceTheorems, TLAPS

-----------------------------------------------------------------------------
(* The list of connected devices, a sequence.                              *)

\* What is left of a sequence is one over the same set.
LEMMA RemoveAtType ==
  ASSUME NEW S, NEW s \in Seq(S), NEW i \in 1..Len(s)
  PROVE  RemoveAt(s, i) \in Seq(S)
<1>1. Len(s) \in Nat /\ \A j \in 1..Len(s) : s[j] \in S
  BY LenProperties, ElementOfSeq
<1>2. SubSeq(s, 1, i - 1) \in Seq(S)
  BY <1>1, SubSeqProperties
<1>3. SubSeq(s, i + 1, Len(s)) \in Seq(S)
  BY <1>1, SubSeqProperties
<1>. QED BY <1>2, <1>3, ConcatProperties DEF RemoveAt

\* What Tail returns: a sequence each of whose elements is an element of the original.
LEMMA TailElements ==
  ASSUME NEW S, NEW s \in Seq(S), s # <<>>
  PROVE  /\ Head(s) \in S /\ 1 \in DOMAIN s /\ Head(s) = s[1]
         /\ Tail(s) \in Seq(S)
         /\ \A j \in DOMAIN Tail(s) : \E k \in DOMAIN s : Tail(s)[j] = s[k]
<1>1. /\ Tail(s) \in Seq(S) /\ Head(s) \in S
      /\ Len(Tail(s)) = Len(s)-1
      /\ \A i \in 1..Len(Tail(s)) : Tail(s)[i] = s[i+1]
  BY HeadTailProperties
<1>2. DOMAIN Tail(s) = 1..(Len(s)-1) /\ DOMAIN s = 1..Len(s) /\ Len(s) \in Nat \ {0}
  BY <1>1, LenProperties, EmptySeq
<1>3. \A j \in 1..(Len(s)-1) : j+1 \in 1..Len(s)
  BY <1>2
<1>4. 1 \in DOMAIN s /\ Head(s) = s[1]
  BY <1>2
<1>. QED BY <1>1, <1>2, <1>3, <1>4

-----------------------------------------------------------------------------
(* Chunks.                                                                 *)

\* Products with the size of a chunk keep the order.
LEMMA ProductOrder ==
    ASSUME NEW a \in Nat, NEW b \in Nat, a <= b, NEW k \in Nat
    PROVE  a * k \in Nat /\ b * k \in Nat /\ a * k <= b * k
  OBVIOUS

\* There is a chunk, each of them begins within the transaction, and the last one ends it.
LEMMA ChunkFacts ==
    ASSUME NEW n \in Nat \ {0}
    PROVE  /\ ChunksOf(n) \in Nat \ {0}
           /\ n <= ChunksOf(n) * ChunkSize
           /\ \A i \in 1..ChunksOf(n) : (i - 1) * ChunkSize \in Nat /\ (i - 1) * ChunkSize < n
  <1> DEFINE q == ChunksOf(n)
             k == ChunkSize
  <1>1. k \in Nat \ {0}
    BY LedgerAssumption
  <1>2. q \in Nat /\ q * k <= n + k - 1 /\ n + k - 1 < (q + 1) * k
    <2> DEFINE x == n + k - 1
    <2>1. x \in Nat
      BY <1>1
    <2> HIDE DEF x, k
    <2>2. x \div k \in Nat /\ (x \div k) * k <= x /\ x < (x \div k + 1) * k
      BY <1>1, <2>1
    <2> QED
      BY <2>2 DEF x, k, ChunksOf
  <1> HIDE DEF q, k
  <1>3. (q + 1) * k = q * k + k
    BY <1>1, <1>2
  <1>4. n <= q * k
    <2>1. q * k \in Nat
      BY <1>1, <1>2
    <2> QED
      BY <1>1, <1>2, <1>3, <2>1
  <1>5. q # 0
    <2>1. q = 0 => q * k = 0
      BY <1>1
    <2> QED
      BY <1>4, <2>1
  <1>6. ASSUME NEW i \in 1..q PROVE (i - 1) * k \in Nat /\ (i - 1) * k < n
    <2>1. (i - 1) * k \in Nat /\ i * k \in Nat /\ i * k <= q * k
      BY <1>1, <1>2, ProductOrder
    <2>2. i * k = (i - 1) * k + k
      BY <1>1
    <2>3. q * k \in Nat
      BY <1>1, <1>2
    <2> QED
      BY <1>1, <1>2, <2>1, <2>2, <2>3
  <1> QED
    BY <1>2, <1>4, <1>5, <1>6 DEF q, k

\* A range tells its end.
LEMMA SameEnd ==
    ASSUME NEW n \in Nat, NEW m \in Nat, 1..n = 1..m
    PROVE  n = m
  <1>1. ~(n < m)
    <2> SUFFICES ASSUME n < m PROVE FALSE
      OBVIOUS
    <2>1. m \in 1..m /\ m \notin 1..n
      OBVIOUS
    <2> QED
      BY <2>1
  <1>2. ~(m < n)
    <2> SUFFICES ASSUME m < n PROVE FALSE
      OBVIOUS
    <2>1. n \in 1..n /\ n \notin 1..m
      OBVIOUS
    <2> QED
      BY <2>1
  <1> QED
    BY <1>1, <1>2

\* Bytes up to a and bytes from there to b are bytes up to b.
LEMMA BytesJoin ==
    ASSUME NEW c, NEW a \in Nat, NEW b \in Nat, a <= b
    PROVE  Bytes(c, 1, a) \o Bytes(c, a + 1, b) = Bytes(c, 1, b)
  <1> DEFINE S == {c} \X Nat
             p == Bytes(c, 1, a)
             q == Bytes(c, a + 1, b)
             r == Bytes(c, 1, b)
  <1>1. /\ p \in Seq(S) /\ Len(p) = a /\ \A i \in 1..a : p[i] = <<c, i>>
        /\ r \in Seq(S) /\ Len(r) = b /\ \A i \in 1..b : r[i] = <<c, i>>
        /\ q \in Seq(S) /\ Len(q) = b - a /\ \A i \in 1..(b - a) : q[i] = <<c, a + i>>
    <2>1. /\ p = [i \in 1..a |-> <<c, i>>]
          /\ r = [i \in 1..b |-> <<c, i>>]
          /\ q = [i \in 1..(b - a) |-> <<c, a + i>>]
      BY DEF Bytes
    <2>2. b - a \in Nat
      OBVIOUS
    <2>3. \A i \in Nat : <<c, i>> \in S
      OBVIOUS
    <2> HIDE DEF p, q, r
    <2>4. ASSUME NEW n \in Nat, NEW m \in Nat, NEW f, f = [i \in 1..n |-> <<c, m + i>>]
          PROVE  f \in Seq(S) /\ Len(f) = n /\ \A i \in 1..n : f[i] = <<c, m + i>>
      <3>1. \A i \in 1..n : <<c, m + i>> \in S
        OBVIOUS
      <3> HIDE DEF S
      <3>2. f \in [1..n -> S]
        BY <2>4, <3>1
      <3>3. f \in Seq(S)
        BY <3>2, SeqDef
      <3>4. Len(f) \in Nat /\ DOMAIN f = 1..Len(f)
        BY <3>3, LenProperties
      <3>5. DOMAIN f = 1..n
        BY <2>4
      <3>6. Len(f) = n
        BY <3>4, <3>5, SameEnd
      <3> QED
        BY <2>4, <3>3, <3>6
    <2> HIDE DEF S
    <2>5. \A i \in Nat : 0 + i = i
      OBVIOUS
    <2>6. p \in Seq(S) /\ Len(p) = a /\ \A i \in 1..a : p[i] = <<c, i>>
      <3>1. p = [i \in 1..a |-> <<c, 0 + i>>]
        BY <2>1, <2>5
      <3>2. 0 \in Nat
        OBVIOUS
      <3>3. p \in Seq(S) /\ Len(p) = a /\ \A i \in 1..a : p[i] = <<c, 0 + i>>
        BY <3>1, <3>2, <2>4
      <3> QED
        BY <3>3, <2>5
    <2>7. r \in Seq(S) /\ Len(r) = b /\ \A i \in 1..b : r[i] = <<c, i>>
      <3>1. r = [i \in 1..b |-> <<c, 0 + i>>]
        BY <2>1, <2>5
      <3>2. 0 \in Nat
        OBVIOUS
      <3>3. r \in Seq(S) /\ Len(r) = b /\ \A i \in 1..b : r[i] = <<c, 0 + i>>
        BY <3>1, <3>2, <2>4, ZenonT(30)
      <3> QED
        BY <3>3, <2>5
    <2>8. q \in Seq(S) /\ Len(q) = b - a /\ \A i \in 1..(b - a) : q[i] = <<c, a + i>>
      BY <2>1, <2>2, <2>4
    <2> QED
      BY <2>6, <2>7, <2>8
  <1> HIDE DEF p, q, r, S
  <1>2. /\ p \o q \in Seq(S) /\ Len(p \o q) = b
        /\ \A i \in 1..b : (p \o q)[i] = IF i <= a THEN p[i] ELSE q[i - a]
    <2>1. /\ p \o q \in Seq(S) /\ Len(p \o q) = Len(p) + Len(q)
          /\ \A i \in 1..(Len(p) + Len(q)) : (p \o q)[i] = IF i <= Len(p) THEN p[i] ELSE q[i - Len(p)]
      BY <1>1, ConcatProperties
    <2>2. Len(p) = a /\ Len(p) + Len(q) = b
      BY <1>1
    <2> QED
      BY <2>1, <2>2
  <1>3. ASSUME NEW i \in 1..b PROVE (p \o q)[i] = r[i]
    <2>1. CASE i <= a
      <3>1. i \in 1..a
        BY <2>1
      <3> QED
        BY <1>1, <1>2, <2>1, <3>1
    <2>2. CASE ~(i <= a)
      <3>1. i - a \in 1..(b - a) /\ a + (i - a) = i
        BY <2>2
      <3> QED
        BY <1>1, <1>2, <2>2, <3>1
    <2> QED
      BY <2>1, <2>2
  <1> QED
    BY <1>1, <1>2, <1>3, SeqEqual DEF p, q, r

-----------------------------------------------------------------------------
(* The APDUs of a transaction.                                             *)

\* The first APDU is the path, the others are the chunks in order.
LEMMA ApduOf ==
    ASSUME NEW c, length[c] \in Nat \ {0},
           NEW m \in Nat \ {0}, m <= ChunksOf(length[c]) + 1
    PROVE  SplitMessageIntoChunks(c)[m] =
             IF m = 1 THEN GetBip44PathMessage
             ELSE [first |-> FALSE, more |-> m - 1 # ChunksOf(length[c]),
                   data |-> Bytes(c, (m - 2) * ChunkSize + 1, Least((m - 1) * ChunkSize, length[c]))]
  <1> DEFINE q == ChunksOf(length[c])
             Chunk(i) == [first |-> FALSE, more |-> i # q,
                          data |-> Bytes(c, (i - 1) * ChunkSize + 1, Least(i * ChunkSize, length[c]))]
             chunks == [i \in 1..q |-> Chunk(i)]
             S == {GetBip44PathMessage} \cup {Chunk(i) : i \in 1..q}
             one == <<GetBip44PathMessage>>
  <1>1. q \in Nat
    BY ChunkFacts
  <1>2. SplitMessageIntoChunks(c) = one \o chunks
    BY DEF SplitMessageIntoChunks
  <1>3. Chunk(m - 1) = [first |-> FALSE, more |-> m - 1 # ChunksOf(length[c]),
                        data |-> Bytes(c, (m - 2) * ChunkSize + 1, Least((m - 1) * ChunkSize, length[c]))]
    <2>1. (m - 1) - 1 = m - 2
      OBVIOUS
    <2> QED
      BY <2>1
  <1>6. m <= q + 1
    OBVIOUS
  <1> HIDE DEF Chunk, q
  <1>5. \A i \in 1..q : chunks[i] = Chunk(i)
    OBVIOUS
  <1>4. /\ chunks \in [1..q -> S] /\ DOMAIN chunks = 1..q
        /\ one \in Seq(S) /\ Len(one) = 1 /\ one[1] = GetBip44PathMessage
    <2>1. \A i \in 1..q : Chunk(i) \in S
      OBVIOUS
    <2>2. GetBip44PathMessage \in S
      OBVIOUS
    <2> HIDE DEF S
    <2>3. one \in Seq(S) /\ Len(one) = 1 /\ one[1] = GetBip44PathMessage
      BY <2>2
    <2> QED
      BY <2>1, <2>3
  <1> HIDE DEF chunks, S, one
  <1>7. chunks \in Seq(S)
    BY <1>1, <1>4, SeqDef
  <1>8. Len(chunks) = q
    <2>1. Len(chunks) \in Nat /\ DOMAIN chunks = 1..Len(chunks)
      BY <1>7, LenProperties
    <2>2. DOMAIN chunks = 1..q
      BY <1>4
    <2> QED
      BY <1>1, <2>1, <2>2, SameEnd
  <1>9. \A i \in 1..(1 + q) : (one \o chunks)[i] = IF i <= 1 THEN one[i] ELSE chunks[i - 1]
    <2>1. \A i \in 1..(Len(one) + Len(chunks)) :
            (one \o chunks)[i] = IF i <= Len(one) THEN one[i] ELSE chunks[i - Len(one)]
      BY <1>4, <1>7, ConcatProperties
    <2> QED
      BY <1>4, <1>8, <2>1
  <1>10. CASE m = 1
    BY <1>1, <1>2, <1>4, <1>9, <1>10
  <1>11. CASE m # 1
    <2>1. m \in 1..(1 + q) /\ ~(m <= 1) /\ m - 1 \in 1..q
      BY <1>1, <1>6, <1>11
    <2>2. (one \o chunks)[m] = Chunk(m - 1)
      BY <1>5, <1>9, <2>1
    <2> QED
      BY <1>2, <1>3, <1>11, <2>2
  <1> QED
    BY <1>10, <1>11

\* What a device was sent so far and the next chunk are what it was sent after it; after the
\* last chunk it is the transaction.
LEMMA NextChunk ==
    ASSUME NEW c, length[c] \in Nat \ {0},
           NEW m \in Nat \ {0}, m # 1, m <= ChunksOf(length[c]) + 1
    PROVE  LET apdu == SplitMessageIntoChunks(c)[m]
               Sent(i) == Bytes(c, 1, Least((i - 2) * ChunkSize, length[c]))
           IN  /\ ~apdu.first
               /\ Sent(m) \o apdu.data = Sent(m + 1)
               /\ apdu.more => m + 1 <= ChunksOf(length[c]) + 1
               /\ ~apdu.more => Sent(m + 1) = Transaction(c)
  <1> DEFINE q == ChunksOf(length[c])
             n == length[c]
             a == (m - 2) * ChunkSize
             z == (m - 1) * ChunkSize
             b == Least(z, n)
             apdu == SplitMessageIntoChunks(c)[m]
  <1>1. /\ ~apdu.first
        /\ apdu.more <=> m - 1 # q
        /\ apdu.data = Bytes(c, a + 1, b)
    <2>1. apdu = [first |-> FALSE, more |-> m - 1 # q, data |-> Bytes(c, a + 1, b)]
      BY ApduOf
    <2> HIDE DEF apdu, a, b, q
    <2> QED
      BY <2>1
  <1>2. /\ q \in Nat \ {0} /\ n <= q * ChunkSize
        /\ m - 1 \in 1..q => ((m - 1) - 1) * ChunkSize \in Nat /\ ((m - 1) - 1) * ChunkSize < n
    BY ChunkFacts
  <1>3. m - 1 \in 1..q
    BY <1>2
  <1>4. (m - 1) - 1 = m - 2 /\ (m + 1) - 2 = m - 1
    OBVIOUS
  <1>5. a \in Nat /\ a < n
    BY <1>2, <1>3, <1>4
  <1>6. z \in Nat /\ a <= z
    BY ProductOrder, LedgerAssumption
  <1>7. b \in Nat /\ a <= b /\ Least(a, n) = a
    BY <1>5, <1>6 DEF Least
  <1>8. Bytes(c, 1, a) \o Bytes(c, a + 1, b) = Bytes(c, 1, b)
    BY <1>7, <1>5, BytesJoin
  <1>9. ~apdu.more => b = n
    <2>1. ASSUME ~apdu.more PROVE z = q * ChunkSize
      BY <1>1, <2>1
    <2> QED
      BY <1>2, <1>6, <2>1 DEF Least
  <1>10. ~apdu.more => Bytes(c, 1, b) = Transaction(c)
    BY <1>9 DEF Transaction
  <1>11. apdu.more => m + 1 <= q + 1
    BY <1>1, <1>2, <1>3
  <1> QED
    BY <1>1, <1>4, <1>7, <1>8, <1>10, <1>11

\* With the path a device was sent nothing of the transaction.
LEMMA NothingSent ==
    ASSUME NEW c, length[c] \in Nat \ {0}
    PROVE  /\ SplitMessageIntoChunks(c)[1] = GetBip44PathMessage
           /\ Bytes(c, 1, Least((2 - 2) * ChunkSize, length[c])) = <<>>
           /\ 2 <= ChunksOf(length[c]) + 1
  <1>1. ChunksOf(length[c]) \in Nat \ {0}
    BY ChunkFacts
  <1>2. SplitMessageIntoChunks(c)[1] = GetBip44PathMessage
    <2>1. 1 \in Nat \ {0} /\ 1 <= ChunksOf(length[c]) + 1
      BY <1>1
    <2> QED
      BY <2>1, ApduOf
  <1>3. Least((2 - 2) * ChunkSize, length[c]) = 0
    BY LedgerAssumption DEF Least
  <1>4. Bytes(c, 1, 0) = <<>>
    BY DEF Bytes
  <1> QED
    BY <1>1, <1>2, <1>3, <1>4

-----------------------------------------------------------------------------
(* Steps.                                                                  *)

Places == {"idle", "paths", "listing", "opening", "exchange", "closing", "account", "sending", "done"}
Stages == {"version", "appName", "key", "sign"}
Results == {"none", "ok", "fail", "rejected"}

\* What a step of a call may do to where it is, to its question and to its result, once a
\* device command returned.
Went(c, ok, where, question, r) ==
    /\ where \in {"listing", "account", "sending", "done"} /\ question \in Stages /\ r \in Results
    /\ at' = [at EXCEPT ![c] = where]
    /\ stage' = [stage EXCEPT ![c] = question]
    /\ result' = [result EXCEPT ![c] = r]
    /\ where = "account" => kind[c] = "balance"
    /\ where = "sending" => kind[c] = "send" /\ ok /\ stage[c] = "sign" /\ (verify => Verifies(c))
    /\ where # "done" => r = result[c]
    /\ where = "done" /\ kind[c] = "send" => r = "fail"

LEMMA ContinueGoes ==
    ASSUME LedgerTypeOK, NEW c \in Calls, NEW ok \in BOOLEAN, Continue(c, ok), kind[c] # "software"
    PROVE  \E where, question, r : Went(c, ok, where, question, r)
  <1>1. /\ at \in [Calls -> Places] /\ stage \in [Calls -> Stages] /\ result \in [Calls -> Results]
        /\ kind[c] \in Kinds
    BY DEF LedgerTypeOK, TypeOK, Places, Stages, Results
  <1>2. /\ stage = [stage EXCEPT ![c] = stage[c]] /\ stage[c] \in Stages
        /\ result = [result EXCEPT ![c] = result[c]] /\ result[c] \in Results
    BY <1>1
  <1>3. ASSUME NEW r \in {"ok", "fail"}, Returns(c, r), kind[c] = "send" => r = "fail"
        PROVE  Went(c, ok, "done", stage[c], r)
    BY <1>1, <1>2, <1>3 DEF Returns, End, Go, Went, Results
  <1>4. ASSUME NEW question \in Stages, AskNext(c, question)
        PROVE  Went(c, ok, "listing", question, result[c])
    BY <1>1, <1>2, <1>4 DEF AskNext, Go, Went
  <1>5. CASE kind[c] = "info"
    <2>1. GetLedgerDeviceInfo(c)
      BY <1>5 DEF Continue
    <2>2. "appName" \in Stages
      BY DEF Stages
    <2> QED
      BY <1>3, <1>4, <1>5, <2>1, <2>2 DEF GetLedgerDeviceInfo
  <1>6. CASE kind[c] = "signer"
    <2>1. Returns(c, "ok")
      BY <1>6 DEF Continue, GetLedgerAccountSigner
    <2> QED
      BY <1>3, <1>6, <2>1
  <1>7. CASE kind[c] = "balance"
    <2>1. GetBalanceFromLedger(c, ok)
      BY <1>7 DEF Continue
    <2>2. CASE ok
      <3>1. Went(c, ok, "account", stage[c], result[c])
        BY <1>1, <1>2, <1>7, <2>1, <2>2 DEF GetBalanceFromLedger, Go, Went
      <3> QED
        BY <3>1
    <2>3. CASE ~ok
      BY <1>3, <1>7, <2>1, <2>3 DEF GetBalanceFromLedger
    <2> QED
      BY <2>2, <2>3
  <1>8. CASE kind[c] = "address"
    <2>1. Returns(c, Outcome(ok)) /\ Outcome(ok) \in {"ok", "fail"}
      BY <1>8 DEF Continue, GetAddressFromLedger, Outcome
    <2> QED
      BY <1>3, <1>8, <2>1
  <1>9. CASE kind[c] = "send"
    <2>1. SendTransactionLedger(c, ok)
      BY <1>9 DEF Continue
    <2>2. CASE Returns(c, "fail")
      BY <1>3, <2>2
    <2>3. CASE SignEncodedTx(c)
      <3>1. "sign" \in Stages
        BY DEF Stages
      <3>2. CASE length[c] > MaxSignedTxLen
        <4>1. Went(c, ok, "done", "sign", "fail")
          BY <1>1, <1>2, <2>3, <3>1, <3>2 DEF SignEncodedTx, End, Go, Went, Results
        <4> QED
          BY <4>1
      <3>3. CASE ~(length[c] > MaxSignedTxLen)
        BY <1>4, <2>3, <3>1, <3>3 DEF SignEncodedTx
      <3> QED
        BY <3>2, <3>3
    <2>4. CASE /\ ok /\ stage[c] = "sign" /\ (verify => Verifies(c))
               /\ Go(c, "sending") /\ UNCHANGED <<stage, result>>
      <3>1. Went(c, ok, "sending", stage[c], result[c])
        BY <1>1, <1>2, <1>9, <2>4 DEF Go, Went
      <3> QED
        BY <3>1
    <2> QED
      BY <2>1, <2>2, <2>3, <2>4 DEF SendTransactionLedger
  <1> QED
    BY <1>1, <1>5, <1>6, <1>7, <1>8, <1>9 DEF Kinds

\* Where a call that finds no device, or closes it, goes.
LEMMA ListGoes ==
    ASSUME LedgerInv, NEW c \in Calls, List(c)
    PROVE  \/ /\ Enabled /\ path' = [path EXCEPT ![c] = Head(paths)]
              /\ at' = [at EXCEPT ![c] = "opening"] /\ UNCHANGED <<stage, result>>
           \/ /\ UNCHANGED path
              /\ \E where, question, r : Went(c, FALSE, where, question, r)
  <1>1. kind[c] # "software"
    BY DEF LedgerInv, OutcomeSound, List
  <1>2. CASE Enabled
    BY <1>2 DEF List, Go
  <1>3. CASE ~Enabled
    <2>1. Continue(c, FALSE) /\ UNCHANGED path /\ LedgerTypeOK
      BY <1>3 DEF List, LedgerInv
    <2> QED
      BY <1>1, <2>1, ContinueGoes
  <1> QED
    BY <1>2, <1>3

LEMMA CloseGoes ==
    ASSUME LedgerInv, NEW c \in Calls, Close(c)
    PROVE  \/ \E where, question, r : Went(c, answer[c] = "ok", where, question, r)
           \/ /\ at' = [at EXCEPT ![c] = "done"]
              /\ result' = [result EXCEPT ![c] = Thrown(c)] /\ UNCHANGED stage
  <1>1. kind[c] # "software"
    BY DEF LedgerInv, OutcomeSound, Close
  <1>2. CASE Continue(c, answer[c] = "ok")
    BY <1>1, <1>2, ContinueGoes DEF LedgerInv
  <1>3. CASE End(c, Thrown(c)) /\ UNCHANGED stage
    BY <1>3 DEF End, Go
  <1> QED
    BY <1>2, <1>3 DEF Close

-----------------------------------------------------------------------------
(* The types.                                                              *)

LEMMA PathsStep ==
    ASSUME paths \in Seq(Devices), NEW d \in Devices
    PROVE  /\ PlugIn(d) => paths' \in Seq(Devices)
           /\ Unplug(d) => paths' \in Seq(Devices)
           /\ Enabled => Head(paths) \in Devices
  <1>1. ASSUME PlugIn(d) PROVE paths' \in Seq(Devices)
    <2>1. <<d>> \in Seq(Devices)
      OBVIOUS
    <2>2. <<d>> \o paths \in Seq(Devices) /\ paths \o <<d>> \in Seq(Devices)
      BY <2>1, ConcatProperties
    <2> QED
      BY <1>1, <2>2 DEF PlugIn
  <1>2. ASSUME Unplug(d) PROVE paths' \in Seq(Devices)
    <2>1. PICK i \in DOMAIN paths : paths' = RemoveAt(paths, i)
      BY <1>2 DEF Unplug
    <2>2. i \in 1..Len(paths)
      BY LenProperties
    <2> QED
      BY <2>1, <2>2, RemoveAtType
  <1>3. Enabled => Head(paths) \in Devices
    BY TailElements DEF Enabled
  <1> QED
    BY <1>1, <1>2, <1>3

LEMMA TypesInit ==
    ASSUME Init PROVE LedgerTypeOK
  <1>1. TypeOK
    BY DEF Init, TypeOK, FirstStage
  <1>2. paths \in Seq(Devices)
    <2>1. <<>> \in Seq(Devices) /\ \A d \in Devices : <<d>> \in Seq(Devices)
      OBVIOUS
    <2> QED
      BY <2>1 DEF Init
  <1>3. length \in [Calls -> Nat \ {0}]
    BY LedgerAssumption DEF Init
  <1> QED
    BY <1>1, <1>2, <1>3 DEF Init, LedgerTypeOK, Statuses

LEMMA TypesStep ==
    ASSUME LedgerInv, [Next]_vars PROVE LedgerTypeOK'
  <1> USE DEF LedgerTypeOK, TypeOK, Places, Stages, Results
  <1>1. LedgerTypeOK
    BY DEF LedgerInv
  <1>2. ASSUME NEW c \in Calls, Start(c) PROVE LedgerTypeOK'
    <2>1. at' \in [Calls -> Places]
      BY <1>1, <1>2 DEF Start, Go
    <2> QED
      BY <1>1, <1>2, <2>1 DEF Start, config, device, Rest
  <1>3. ASSUME NEW c \in Calls, ListPaths(c) PROVE LedgerTypeOK'
    BY <1>1, <1>3 DEF ListPaths, End, Go, config, device, Rest
  <1>4. ASSUME NEW c \in Calls, List(c) PROVE LedgerTypeOK'
    <2>1. UNCHANGED <<config, handle, key, message, signature, answer, device, node>>
      BY <1>4 DEF List
    <2>2. CASE /\ Enabled /\ path' = [path EXCEPT ![c] = Head(paths)]
               /\ at' = [at EXCEPT ![c] = "opening"] /\ UNCHANGED <<stage, result>>
      <3>1. Head(paths) \in Devices
        BY <1>1, <2>2, TailElements DEF Enabled
      <3> QED
        BY <1>1, <2>1, <2>2, <3>1 DEF config, device
    <2>3. ASSUME UNCHANGED path, NEW where, NEW question, NEW r, Went(c, FALSE, where, question, r)
          PROVE  LedgerTypeOK'
      BY <1>1, <2>1, <2>3 DEF Went, config, device
    <2> QED
      BY <1>4, <2>2, <2>3, ListGoes
  <1>5. ASSUME NEW c \in Calls, Open(c) PROVE LedgerTypeOK'
    <2>1. CASE MayOpen(path[c])
      <3>1. path[c] \in Devices
        BY <1>1, <2>1, LenProperties, ElementOfSeq DEF MayOpen, Plugged
      <3>2. /\ handle' = [handle EXCEPT ![c] = path[c]] /\ message' = [message EXCEPT ![c] = 1]
            /\ at' = [at EXCEPT ![c] = "exchange"]
            /\ UNCHANGED <<config, stage, path, key, signature, answer, result, device, node>>
        BY <1>5, <2>1 DEF Open, Go
      <3> QED
        BY <1>1, <3>1, <3>2 DEF config, device
    <2>2. CASE ~MayOpen(path[c])
      BY <1>1, <1>5, <2>2 DEF Open, End, Go, Thrown, config, device
    <2> QED
      BY <2>1, <2>2
  <1>6. ASSUME NEW c \in Calls, GetVersion(c) \/ GetApplicationName(c) \/ GetPublicKey(c)
        PROVE  LedgerTypeOK'
    <2>1. /\ handle[c] \in Devices
          /\ answer' = [answer EXCEPT ![c] = "ok"] /\ at' = [at EXCEPT ![c] = "closing"]
          /\ UNCHANGED <<config, stage, path, handle, message, signature, result, device, node>>
          /\ key' = key \/ key' = [key EXCEPT ![c] = handle[c]]
      BY <1>6 DEF GetVersion, GetApplicationName, GetPublicKey, Asked, Answered, Go
    <2> QED
      BY <1>1, <2>1 DEF config, device
  <1>7. ASSUME NEW c \in Calls, SignLedger(c) PROVE LedgerTypeOK'
    <2>1. /\ DOMAIN loaded' = Devices
          /\ UNCHANGED <<config, stage, path, handle, key, result, paths, moves, node>>
      BY <1>1, <1>7 DEF SignLedger
    <2>2. /\ at' \in [Calls -> Places] /\ message' \in [Calls -> Nat \ {0}]
          /\ answer' \in [Calls -> {"none", "ok", "fail"}] /\ DOMAIN signature' = Calls
      <3>1. \/ message' = [message EXCEPT ![c] = @ + 1] /\ UNCHANGED <<signature, answer, at>>
            \/ /\ \E x : signature' = [signature EXCEPT ![c] = x]
               /\ Answered(c, "ok") /\ UNCHANGED message
        BY <1>7 DEF SignLedger
      <3>2. CASE message' = [message EXCEPT ![c] = @ + 1] /\ UNCHANGED <<signature, answer, at>>
        BY <1>1, <3>2
      <3>3. CASE /\ \E x : signature' = [signature EXCEPT ![c] = x]
                 /\ Answered(c, "ok") /\ UNCHANGED message
        <4>1. DOMAIN signature' = Calls
          BY <1>1, <3>3
        <4> QED
          BY <1>1, <3>3, <4>1 DEF Answered, Go
      <3> QED
        BY <3>1, <3>2, <3>3
    <2> QED
      BY <1>1, <2>1, <2>2 DEF config
  <1>8. ASSUME NEW c \in Calls, Fails(c) PROVE LedgerTypeOK'
    BY <1>1, <1>8 DEF Fails, Answered, Go, config, device
  <1>9. ASSUME NEW c \in Calls, Close(c) PROVE LedgerTypeOK'
    <2>1. /\ UNCHANGED <<config, path, key, message, signature, answer, device, node>>
          /\ handle' = [handle EXCEPT ![c] = None]
      BY <1>9 DEF Close, Returned
    <2>2. ASSUME NEW where, NEW question, NEW r, Went(c, answer[c] = "ok", where, question, r)
          PROVE  LedgerTypeOK'
      BY <1>1, <2>1, <2>2 DEF Went, config, device
    <2>3. CASE /\ at' = [at EXCEPT ![c] = "done"]
               /\ result' = [result EXCEPT ![c] = Thrown(c)] /\ UNCHANGED stage
      BY <1>1, <2>1, <2>3 DEF Thrown, config, device
    <2> QED
      BY <1>9, <2>2, <2>3, CloseGoes
  <1>10. ASSUME NEW c \in Calls, NEW n \in Answers, SendRaw(c, n)
         PROVE  LedgerTypeOK'
    BY <1>1, <1>10 DEF SendRaw, End, Go, Told, Statuses, Answers, config, device
  <1>11. ASSUME NEW c \in Calls, NEW r \in {"ok", "fail", "rejected"}, GetAccount(c, r)
         PROVE  LedgerTypeOK'
    BY <1>1, <1>11 DEF GetAccount, End, Go, config, device, Rest
  <1>12. ASSUME NEW d \in Devices, PlugIn(d) PROVE LedgerTypeOK'
    <2>1. paths' \in Seq(Devices)
      BY <1>1, <1>12, PathsStep
    <2> QED
      BY <1>1, <1>12, <2>1 DEF PlugIn, config, Rest
  <1>13. ASSUME NEW d \in Devices, Unplug(d) PROVE LedgerTypeOK'
    <2>1. paths' \in Seq(Devices)
      BY <1>1, <1>13, PathsStep
    <2>2. handle' \in [Calls -> Devices \cup {None, Gone}] /\ DOMAIN loaded' = Devices
      BY <1>1, <1>13 DEF Unplug
    <2> QED
      BY <1>1, <1>13, <2>1, <2>2 DEF Unplug, config, Rest
  <1>14. CASE UNCHANGED vars
    BY <1>1, <1>14 DEF vars, config, device
  <1> QED
    BY <1>2, <1>3, <1>4, <1>5, <1>6, <1>7, <1>8, <1>9, <1>10, <1>11, <1>12, <1>13, <1>14 DEF Next

-----------------------------------------------------------------------------
(* The devices that are open.                                              *)

LEMMA HandlesFrame ==
    ASSUME LedgerInv, NEW c \in Calls, NEW w, UNCHANGED <<handle, shared>>, at' = [at EXCEPT ![c] = w],
           w \in {"exchange", "closing"} \/ at[c] \notin {"exchange", "closing"}
    PROVE  HandlesSound'
  BY DEF LedgerInv, LedgerTypeOK, TypeOK, HandlesSound

LEMMA HandlesStep ==
    ASSUME LedgerInv, [Next]_vars PROVE HandlesSound'
  <1>1. /\ HandlesSound
        /\ at \in [Calls -> Places] /\ handle \in [Calls -> Devices \cup {None, Gone}]
        /\ path \in [Calls -> Devices \cup {None}] /\ paths \in Seq(Devices)
    BY DEF LedgerInv, LedgerTypeOK, TypeOK, Places
  <1>2. None \notin Devices /\ Gone \notin Devices /\ None # Gone
    BY LedgerAssumption
  <1>3. ASSUME NEW c \in Calls, Start(c) PROVE HandlesSound'
    BY <1>3, HandlesFrame DEF Start, Go, config
  <1>4. ASSUME NEW c \in Calls, ListPaths(c) PROVE HandlesSound'
    BY <1>4, HandlesFrame DEF ListPaths, End, Go, config
  <1>5. ASSUME NEW c \in Calls, List(c) PROVE HandlesSound'
    <2>1. UNCHANGED <<handle, shared>> /\ at[c] = "listing"
      BY <1>5 DEF List, config
    <2>2. \E w : at' = [at EXCEPT ![c] = w]
      BY <1>5, ListGoes DEF Went
    <2> QED
      BY <2>1, <2>2, HandlesFrame
  <1>6. ASSUME NEW c \in Calls, Open(c) PROVE HandlesSound'
    <2>1. CASE MayOpen(path[c])
      <3>1. /\ handle' = [handle EXCEPT ![c] = path[c]] /\ shared' = shared
            /\ at' = [at EXCEPT ![c] = "exchange"]
        BY <1>6, <2>1 DEF Open, Go, config
      <3>2. ~shared => \A e \in Calls : handle[e] # path[c]
        BY <2>1 DEF MayOpen
      <3> QED
        BY <1>1, <3>1, <3>2 DEF HandlesSound
    <2>2. CASE ~MayOpen(path[c])
      BY <1>6, <2>2, HandlesFrame DEF Open, End, Go, config
    <2> QED
      BY <2>1, <2>2
  <1>7. ASSUME NEW c \in Calls, GetVersion(c) \/ GetApplicationName(c) \/ GetPublicKey(c) \/ Fails(c)
        PROVE  HandlesSound'
    BY <1>7, HandlesFrame DEF GetVersion, GetApplicationName, GetPublicKey, Fails, Asked, Answered, Go, config
  <1>8. ASSUME NEW c \in Calls, SignLedger(c) PROVE HandlesSound'
    <2>1. UNCHANGED <<handle, shared>> /\ (at' = at \/ at' = [at EXCEPT ![c] = "closing"])
      BY <1>8 DEF SignLedger, Answered, Go, config
    <2>2. CASE at' = at
      BY <1>1, <2>1, <2>2 DEF HandlesSound
    <2> QED
      BY <2>1, <2>2, HandlesFrame
  <1>9. ASSUME NEW c \in Calls, Close(c) PROVE HandlesSound'
    <2>1. handle' = [handle EXCEPT ![c] = None] /\ shared' = shared
      BY <1>9 DEF Close, Returned, config
    <2>2. \E w : at' = [at EXCEPT ![c] = w]
      BY <1>9, CloseGoes DEF Went
    <2> QED
      BY <1>1, <1>2, <2>1, <2>2 DEF HandlesSound
  <1>10. ASSUME NEW c \in Calls, NEW n \in Answers, SendRaw(c, n)
         PROVE  HandlesSound'
    BY <1>10, HandlesFrame DEF SendRaw, End, Go, config
  <1>11. ASSUME NEW c \in Calls, NEW r \in {"ok", "fail", "rejected"}, GetAccount(c, r)
         PROVE  HandlesSound'
    BY <1>11, HandlesFrame DEF GetAccount, End, Go, config
  <1>12. ASSUME NEW d \in Devices, PlugIn(d) PROVE HandlesSound'
    BY <1>1, <1>12 DEF PlugIn, HandlesSound, config
  <1>13. ASSUME NEW d \in Devices, Unplug(d) PROVE HandlesSound'
    <2>1. /\ handle' = [c \in Calls |-> IF handle[c] = d THEN Gone ELSE handle[c]]
          /\ UNCHANGED <<at, shared>>
      BY <1>13 DEF Unplug, config
    <2> QED
      BY <1>1, <1>2, <2>1 DEF HandlesSound
  <1>14. CASE UNCHANGED vars
    BY <1>1, <1>14 DEF vars, config, HandlesSound
  <1> QED
    BY <1>3, <1>4, <1>5, <1>6, <1>7, <1>8, <1>9, <1>10, <1>11, <1>12, <1>13, <1>14 DEF Next

-----------------------------------------------------------------------------
(* How a call ends.                                                        *)

LEMMA OutcomeFrame ==
    ASSUME LedgerInv, NEW c \in Calls, NEW w, NEW r, UNCHANGED <<kind, node>>, at[c] # "done",
           at' = [at EXCEPT ![c] = w], result' = [result EXCEPT ![c] = r],
           w # "done" => r = result[c],
           kind[c] = "software" => w \in {"account", "done"},
           kind[c] = "send" => w # "account" /\ r # "ok"
    PROVE  OutcomeSound'
  <1>1. /\ OutcomeSound
        /\ at \in [Calls -> Places] /\ result \in [Calls -> Results]
    BY DEF LedgerInv, LedgerTypeOK, TypeOK, Places, Results
  <1>2. result[c] = "none" /\ node[c] = "none"
    BY <1>1 DEF OutcomeSound
  <1> QED
    BY <1>1, <1>2 DEF OutcomeSound, Told

LEMMA OutcomeStays ==
    ASSUME LedgerInv, UNCHANGED <<kind, node, at, result>>
    PROVE  OutcomeSound'
  BY DEF LedgerInv, OutcomeSound, Told

LEMMA OutcomeStep ==
    ASSUME LedgerInv, [Next]_vars PROVE OutcomeSound'
  <1>1. /\ OutcomeSound
        /\ at \in [Calls -> Places] /\ result \in [Calls -> Results]
        /\ kind \in [Calls -> Kinds] /\ node \in [Calls -> Statuses]
    BY DEF LedgerInv, LedgerTypeOK, TypeOK, Places, Results
  <1>2. \A c \in Calls : result = [result EXCEPT ![c] = result[c]]
    BY <1>1
  <1>3. \A c \in Calls : at[c] # "done" => result[c] = "none" /\ node[c] = "none"
    BY <1>1 DEF OutcomeSound
  <1>4. ASSUME NEW c \in Calls, Start(c) PROVE OutcomeSound'
    <2>1. UNCHANGED <<kind, node, result>> /\ at[c] = "idle"
      BY <1>4 DEF Start, config, Rest
    <2> DEFINE w == CASE kind[c] = "signer" -> "paths"
                      [] kind[c] = "software" -> "account"
                      [] OTHER -> "listing"
    <2>2. at' = [at EXCEPT ![c] = w]
      BY <1>4 DEF Start, Go
    <2>3. /\ kind[c] = "software" => w = "account"
          /\ kind[c] = "send" => w = "listing"
      OBVIOUS
    <2> HIDE DEF w
    <2> QED
      BY <1>2, <1>3, <2>1, <2>2, <2>3, OutcomeFrame
  <1>5. ASSUME NEW c \in Calls, ListPaths(c) PROVE OutcomeSound'
    <2>1. UNCHANGED <<kind, node>> /\ at[c] = "paths" /\ kind[c] # "software"
      BY <1>1, <1>5 DEF ListPaths, config, Rest, OutcomeSound
    <2>2. CASE paths = <<>>
      BY <1>3, <1>5, <2>1, <2>2, OutcomeFrame, ZenonT(30) DEF ListPaths, End, Go
    <2>3. CASE paths # <<>>
      <3>1. at' = [at EXCEPT ![c] = "listing"] /\ result' = result
        BY <1>5, <2>3 DEF ListPaths, Go
      <3> QED
        BY <1>2, <1>3, <2>1, <3>1, OutcomeFrame
    <2> QED
      BY <2>2, <2>3
  <1>6. ASSUME NEW c \in Calls, List(c) PROVE OutcomeSound'
    <2>1. UNCHANGED <<kind, node>> /\ at[c] = "listing" /\ kind[c] # "software"
      BY <1>1, <1>6 DEF List, config, OutcomeSound
    <2>2. CASE at' = [at EXCEPT ![c] = "opening"] /\ UNCHANGED result
      BY <1>2, <1>3, <2>1, <2>2, OutcomeFrame
    <2>3. ASSUME NEW where, NEW question, NEW r, Went(c, FALSE, where, question, r)
          PROVE  OutcomeSound'
      BY <1>3, <2>1, <2>3, OutcomeFrame DEF Went
    <2> QED
      BY <1>6, <2>2, <2>3, ListGoes
  <1>7. ASSUME NEW c \in Calls, Open(c) PROVE OutcomeSound'
    <2>1. UNCHANGED <<kind, node>> /\ at[c] = "opening" /\ kind[c] # "software"
      BY <1>1, <1>7 DEF Open, config, OutcomeSound
    <2>2. CASE MayOpen(path[c])
      BY <1>2, <1>3, <1>7, <2>1, <2>2, OutcomeFrame DEF Open, Go
    <2>3. CASE ~MayOpen(path[c])
      BY <1>3, <1>7, <2>1, <2>3, OutcomeFrame DEF Open, End, Go, Thrown
    <2> QED
      BY <2>2, <2>3
  <1>8. ASSUME NEW c \in Calls, \/ GetVersion(c) \/ GetApplicationName(c) \/ GetPublicKey(c)
                                \/ SignLedger(c) \/ Fails(c)
        PROVE  OutcomeSound'
    <2>1. UNCHANGED <<kind, node, result>> /\ at[c] = "exchange" /\ kind[c] # "software"
      BY <1>1, <1>8 DEF GetVersion, GetApplicationName, GetPublicKey, SignLedger, Fails, Asked, config,
                        device, OutcomeSound
    <2>2. at' = at \/ at' = [at EXCEPT ![c] = "closing"]
      BY <1>8 DEF GetVersion, GetApplicationName, GetPublicKey, SignLedger, Fails, Asked, Answered, Go
    <2> QED
      BY <1>2, <1>3, <2>1, <2>2, OutcomeFrame, OutcomeStays
  <1>9. ASSUME NEW c \in Calls, Close(c) PROVE OutcomeSound'
    <2>1. UNCHANGED <<kind, node>> /\ at[c] = "closing" /\ kind[c] # "software"
      BY <1>1, <1>9 DEF Close, config, OutcomeSound
    <2>2. ASSUME NEW where, NEW question, NEW r, Went(c, answer[c] = "ok", where, question, r)
          PROVE  OutcomeSound'
      BY <1>3, <2>1, <2>2, OutcomeFrame DEF Went
    <2>3. CASE at' = [at EXCEPT ![c] = "done"] /\ result' = [result EXCEPT ![c] = Thrown(c)]
      BY <1>3, <2>1, <2>3, OutcomeFrame DEF Thrown
    <2> QED
      BY <1>9, <2>2, <2>3, CloseGoes
  <1>10. ASSUME NEW c \in Calls, NEW n \in Answers, SendRaw(c, n)
         PROVE  OutcomeSound'
    <2>1. /\ kind' = kind /\ at[c] = "sending" /\ node' = [node EXCEPT ![c] = n]
          /\ at' = [at EXCEPT ![c] = "done"] /\ result' = [result EXCEPT ![c] = Told(n)]
      BY <1>10 DEF SendRaw, End, Go, config
    <2> QED
      BY <1>1, <2>1 DEF OutcomeSound, Answers
  <1>11. ASSUME NEW c \in Calls, NEW r \in {"ok", "fail", "rejected"}, GetAccount(c, r)
         PROVE  OutcomeSound'
    <2>1. UNCHANGED <<kind, node>> /\ at[c] = "account" /\ kind[c] # "send"
      BY <1>1, <1>11 DEF GetAccount, config, Rest, OutcomeSound
    <2> QED
      BY <1>3, <1>11, <2>1, OutcomeFrame DEF GetAccount, End, Go
  <1>12. ASSUME NEW d \in Devices, PlugIn(d) \/ Unplug(d) PROVE OutcomeSound'
    BY <1>12, OutcomeStays DEF PlugIn, Unplug, config, Rest
  <1>13. CASE UNCHANGED vars
    BY <1>13, OutcomeStays DEF vars, config
  <1> QED
    BY <1>4, <1>5, <1>6, <1>7, <1>8, <1>9, <1>10, <1>11, <1>12, <1>13 DEF Next

-----------------------------------------------------------------------------
(* What is signed and sent.                                                *)

\* A call of which a step changes nothing, and whose device keeps what it holds.
LEMMA QuietCall ==
    ASSUME NEW c \in Calls, SentSoFar(c), SealedFor(c), UNCHANGED config,
           at'[c] = at[c], stage'[c] = stage[c], message'[c] = message[c], answer'[c] = answer[c],
           signature'[c] = signature[c], key'[c] = key[c], node'[c] = node[c],
           ~shared /\ at[c] = "exchange" /\ handle'[c] \in Devices =>
             handle'[c] = handle[c] /\ loaded'[handle[c]] = loaded[handle[c]]
    PROVE  SentSoFar(c)' /\ SealedFor(c)'
  <1>1. length' = length /\ verify' = verify /\ shared' = shared
    BY DEF config
  <1>2. SentSoFar(c)'
    BY <1>1 DEF SentSoFar, ChunksOf, Least, Bytes
  <1>3. SealedFor(c)'
    BY <1>1 DEF SealedFor, Verifies, Handed, Transaction, Bytes
  <1> QED
    BY <1>2, <1>3

\* A call that neither asks a device nor sends, and of which the node heard nothing.
LEMMA CallAway ==
    ASSUME NEW c \in Calls, at'[c] \notin {"exchange", "closing", "sending"}, node'[c] = "none"
    PROVE  SentSoFar(c)' /\ SealedFor(c)'
  BY DEF SentSoFar, SealedFor, Handed

\* The other calls, when a step of c leaves the devices alone.
LEMMA OthersQuiet ==
    ASSUME LedgerInv, NEW c \in Calls, UNCHANGED <<config, loaded>>,
           \A e \in Calls \ {c} :
             /\ at'[e] = at[e] /\ stage'[e] = stage[e] /\ message'[e] = message[e]
             /\ answer'[e] = answer[e] /\ signature'[e] = signature[e] /\ key'[e] = key[e]
             /\ node'[e] = node[e] /\ handle'[e] = handle[e],
           SentSoFar(c)', SealedFor(c)'
    PROVE  LoadingSound'
  <1>1. ASSUME NEW e \in Calls PROVE SentSoFar(e)' /\ SealedFor(e)'
    <2>1. CASE e = c
      BY <2>1
    <2>2. CASE e # c
      BY <2>2, QuietCall DEF LedgerInv, LoadingSound
    <2> QED
      BY <2>1, <2>2
  <1> QED
    BY <1>1 DEF LoadingSound

LEMMA LoadingStays ==
    ASSUME LedgerInv, UNCHANGED <<config, at, stage, handle, key, message, signature, answer, loaded, node>>
    PROVE  LoadingSound'
  <1>1. ASSUME NEW e \in Calls PROVE SentSoFar(e)' /\ SealedFor(e)'
    BY QuietCall DEF LedgerInv, LoadingSound
  <1> QED
    BY <1>1 DEF LoadingSound

\* An APDU of a transaction.
LEMMA SignStep ==
    ASSUME LedgerInv, NEW c \in Calls, SignLedger(c)
    PROVE  LoadingSound'
  <1> DEFINE apdu == SplitMessageIntoChunks(c)[message[c]]
             d == handle[c]
             held == IF apdu.first THEN <<>> ELSE loaded[d] \o apdu.data
             Sent(i) == Bytes(c, 1, Least((i - 2) * ChunkSize, length[c]))
  <1>1. /\ at \in [Calls -> Places] /\ message \in [Calls -> Nat \ {0}]
        /\ handle \in [Calls -> Devices \cup {None, Gone}] /\ answer \in [Calls -> {"none", "ok", "fail"}]
        /\ DOMAIN signature = Calls /\ DOMAIN loaded = Devices
        /\ length[c] \in Nat \ {0}
    BY DEF LedgerInv, LedgerTypeOK, TypeOK, Places
  <1>2. SentSoFar(c) /\ SealedFor(c) /\ node[c] = "none"
    BY DEF LedgerInv, LoadingSound, OutcomeSound, SignLedger
  <1>3. /\ at[c] = "exchange" /\ stage[c] = "sign" /\ d \in Devices
        /\ loaded' = [loaded EXCEPT ![d] = held]
        /\ UNCHANGED <<config, stage, path, handle, key, result, paths, moves, node>>
    BY DEF SignLedger
  <1>4. \/ /\ apdu.more /\ message' = [message EXCEPT ![c] = @ + 1] /\ UNCHANGED <<signature, answer, at>>
        \/ /\ ~apdu.more /\ signature' = [signature EXCEPT ![c] = [by |-> d, over |-> held]]
           /\ answer' = [answer EXCEPT ![c] = "ok"] /\ at' = [at EXCEPT ![c] = "closing"]
           /\ UNCHANGED message
    BY DEF SignLedger, Answered, Go
  <1>5. length' = length /\ shared' = shared /\ verify' = verify
    BY <1>3 DEF config
  <1>6. \A e \in Calls \ {c} : ~shared /\ handle[e] \in Devices => handle[e] # d
    BY <1>1, <1>3 DEF LedgerInv, HandlesSound
  <1>7. /\ message[c] <= ChunksOf(length[c]) + 1
        /\ ~shared /\ message[c] # 1 => loaded[d] = Sent(message[c])
    BY <1>2, <1>3 DEF SentSoFar
  <1>8. /\ apdu.more => message[c] + 1 <= ChunksOf(length[c]) + 1
        /\ ~shared => held = Sent(message[c] + 1)
        /\ ~shared /\ ~apdu.more => held = Transaction(c)
    <2>1. CASE message[c] = 1
      <3>1. apdu = GetBip44PathMessage /\ Sent(2) = <<>> /\ 2 <= ChunksOf(length[c]) + 1
        BY <1>1, <2>1, NothingSent
      <3> QED
        BY <2>1, <3>1 DEF GetBip44PathMessage
    <2>2. CASE message[c] # 1
      <3>1. message[c] \in Nat \ {0}
        BY <1>1
      <3>2. /\ ~apdu.first
            /\ Sent(message[c]) \o apdu.data = Sent(message[c] + 1)
            /\ apdu.more => message[c] + 1 <= ChunksOf(length[c]) + 1
            /\ ~apdu.more => Sent(message[c] + 1) = Transaction(c)
        BY <1>1, <1>7, <2>2, <3>1, NextChunk
      <3> QED
        BY <1>7, <2>2, <3>2
    <2> QED
      BY <2>1, <2>2
  <1> HIDE DEF apdu, held, Sent
  <1>9. ASSUME NEW e \in Calls \ {c} PROVE SentSoFar(e)' /\ SealedFor(e)'
    <2>1. /\ at'[e] = at[e] /\ message'[e] = message[e] /\ answer'[e] = answer[e]
          /\ signature'[e] = signature[e]
      BY <1>1, <1>4
    <2>2. ~shared /\ handle[e] \in Devices => loaded'[handle[e]] = loaded[handle[e]]
      BY <1>1, <1>3, <1>6
    <2>3. SentSoFar(e) /\ SealedFor(e)
      BY DEF LedgerInv, LoadingSound
    <2> QED
      BY <1>3, <2>1, <2>2, <2>3, QuietCall
  <1>10. SentSoFar(c)' /\ SealedFor(c)'
    <2>1. loaded'[d] = held /\ handle'[c] = d /\ node'[c] = "none" /\ stage'[c] = "sign"
      BY <1>1, <1>2, <1>3
    <2>2. CASE /\ apdu.more /\ message' = [message EXCEPT ![c] = @ + 1] /\ UNCHANGED <<signature, answer, at>>
      <3>1. message'[c] = message[c] + 1 /\ at'[c] = "exchange"
        BY <1>1, <1>3, <2>2
      <3>2. SentSoFar(c)'
        BY <1>5, <1>8, <2>1, <2>2, <3>1 DEF SentSoFar, Sent, ChunksOf, Least, Bytes
      <3> QED
        BY <2>1, <3>1, <3>2 DEF SealedFor, Handed
    <2>3. CASE /\ ~apdu.more /\ signature' = [signature EXCEPT ![c] = [by |-> d, over |-> held]]
               /\ answer' = [answer EXCEPT ![c] = "ok"] /\ at' = [at EXCEPT ![c] = "closing"]
               /\ UNCHANGED message
      <3>1. at'[c] = "closing" /\ signature'[c].over = held
        BY <1>1, <2>3
      <3>2. SealedFor(c)'
        BY <1>5, <1>8, <2>1, <2>3, <3>1 DEF SealedFor, Handed, Transaction, Bytes
      <3> QED
        BY <3>1, <3>2 DEF SentSoFar
    <2> QED
      BY <1>4, <2>2, <2>3
  <1>11. ASSUME NEW e \in Calls PROVE SentSoFar(e)' /\ SealedFor(e)'
    BY <1>9, <1>10
  <1> QED
    BY <1>11 DEF LoadingSound

LEMMA LoadingStep ==
    ASSUME LedgerInv, [Next]_vars PROVE LoadingSound'
  <1>1. /\ at \in [Calls -> Places] /\ stage \in [Calls -> Stages] /\ message \in [Calls -> Nat \ {0}]
        /\ handle \in [Calls -> Devices \cup {None, Gone}] /\ key \in [Calls -> Devices \cup {None}]
        /\ answer \in [Calls -> {"none", "ok", "fail"}] /\ node \in [Calls -> Statuses]
        /\ length \in [Calls -> Nat \ {0}]
    BY DEF LedgerInv, LedgerTypeOK, TypeOK, Places, Stages
  <1>2. \A c \in Calls : /\ SentSoFar(c) /\ SealedFor(c)
                         /\ at[c] # "done" => node[c] = "none"
    BY DEF LedgerInv, LoadingSound, OutcomeSound
  <1>3. ASSUME NEW c \in Calls, Start(c) PROVE LoadingSound'
    <2>1. /\ UNCHANGED <<config, loaded, stage, handle, message, signature, answer, key, node>>
          /\ at[c] = "idle" /\ \E w \in {"paths", "account", "listing"} : at' = [at EXCEPT ![c] = w]
      BY <1>3 DEF Start, Go, device, Rest
    <2>2. SentSoFar(c)' /\ SealedFor(c)'
      BY <1>1, <1>2, <2>1, CallAway
    <2> QED
      BY <1>1, <2>1, <2>2, OthersQuiet
  <1>4. ASSUME NEW c \in Calls, ListPaths(c) PROVE LoadingSound'
    <2>1. /\ UNCHANGED <<config, loaded, stage, handle, message, signature, answer, key, node>>
          /\ at[c] = "paths" /\ \E w \in {"done", "listing"} : at' = [at EXCEPT ![c] = w]
      BY <1>4 DEF ListPaths, End, Go, device, Rest
    <2>2. SentSoFar(c)' /\ SealedFor(c)'
      BY <1>1, <1>2, <2>1, CallAway
    <2> QED
      BY <1>1, <2>1, <2>2, OthersQuiet
  <1>5. ASSUME NEW c \in Calls, List(c) PROVE LoadingSound'
    <2>1. /\ UNCHANGED <<config, loaded, handle, message, signature, answer, key, node>> /\ at[c] = "listing"
      BY <1>5 DEF List, device
    <2>2. \E w \in {"opening", "listing", "account", "done"} : \E q :
            at' = [at EXCEPT ![c] = w] /\ stage' = [stage EXCEPT ![c] = q]
      <3>1. stage = [stage EXCEPT ![c] = stage[c]]
        BY <1>1
      <3> QED
        BY <1>5, <3>1, ListGoes DEF Went
    <2>3. SentSoFar(c)' /\ SealedFor(c)'
      BY <1>1, <1>2, <2>1, <2>2, CallAway
    <2> QED
      BY <1>1, <2>1, <2>2, <2>3, OthersQuiet
  <1>6. ASSUME NEW c \in Calls, Open(c) PROVE LoadingSound'
    <2>1. /\ UNCHANGED <<config, loaded, stage, signature, answer, key, node>> /\ at[c] = "opening"
      BY <1>6 DEF Open, device
    <2>2. CASE MayOpen(path[c])
      <3>1. /\ handle' = [handle EXCEPT ![c] = path[c]] /\ message' = [message EXCEPT ![c] = 1]
            /\ at' = [at EXCEPT ![c] = "exchange"]
        BY <1>6, <2>2 DEF Open, Go
      <3>2. at'[c] = "exchange" /\ message'[c] = 1 /\ node'[c] = "none" /\ length' = length
        BY <1>1, <1>2, <2>1, <3>1 DEF config
      <3>3. ChunksOf(length[c])' = ChunksOf(length[c]) /\ 1 <= ChunksOf(length[c]) + 1
        <4>1. length[c] \in Nat \ {0}
          BY <1>1
        <4>2. ChunksOf(length[c]) \in Nat \ {0}
          BY <4>1, ChunkFacts
        <4> QED
          BY <3>2, <4>2 DEF ChunksOf
      <3>4. SentSoFar(c)' /\ SealedFor(c)'
        BY <3>2, <3>3 DEF SentSoFar, SealedFor, Handed
      <3> QED
        BY <1>1, <2>1, <3>1, <3>4, OthersQuiet
    <2>3. CASE ~MayOpen(path[c])
      <3>1. at' = [at EXCEPT ![c] = "done"] /\ UNCHANGED <<handle, message>>
        BY <1>6, <2>3 DEF Open, End, Go
      <3>2. SentSoFar(c)' /\ SealedFor(c)'
        BY <1>1, <1>2, <2>1, <3>1, CallAway
      <3> QED
        BY <1>1, <2>1, <3>1, <3>2, OthersQuiet
    <2> QED
      BY <2>2, <2>3
  <1>7. ASSUME NEW c \in Calls, GetVersion(c) \/ GetApplicationName(c) \/ GetPublicKey(c)
        PROVE  LoadingSound'
    <2>1. /\ UNCHANGED <<config, loaded, stage, handle, message, signature, node>> /\ at[c] = "exchange"
          /\ stage[c] # "sign" /\ at' = [at EXCEPT ![c] = "closing"] /\ answer' = [answer EXCEPT ![c] = "ok"]
          /\ key' = key \/ key' = [key EXCEPT ![c] = handle[c]]
      BY <1>7 DEF GetVersion, GetApplicationName, GetPublicKey, Asked, Answered, Go, device
    <2>2. at'[c] = "closing" /\ stage'[c] # "sign" /\ node'[c] = "none"
      BY <1>1, <1>2, <2>1
    <2>3. SentSoFar(c)' /\ SealedFor(c)'
      BY <2>2 DEF SentSoFar, SealedFor, Handed
    <2> QED
      BY <1>1, <2>1, <2>3, OthersQuiet
  <1>8. ASSUME NEW c \in Calls, Fails(c) PROVE LoadingSound'
    <2>1. /\ UNCHANGED <<config, loaded, stage, handle, message, signature, key, node>> /\ at[c] = "exchange"
          /\ at' = [at EXCEPT ![c] = "closing"] /\ answer' = [answer EXCEPT ![c] = "fail"]
      BY <1>8 DEF Fails, Answered, Go, device
    <2>2. at'[c] = "closing" /\ answer'[c] = "fail" /\ node'[c] = "none"
      BY <1>1, <1>2, <2>1
    <2>3. SentSoFar(c)' /\ SealedFor(c)'
      BY <2>2 DEF SentSoFar, SealedFor, Handed
    <2> QED
      BY <1>1, <2>1, <2>3, OthersQuiet
  <1>9. ASSUME NEW c \in Calls, Close(c) PROVE LoadingSound'
    <2>1. /\ UNCHANGED <<config, key, message, signature, answer, loaded, node>>
          /\ handle' = [handle EXCEPT ![c] = None] /\ at[c] = "closing"
      BY <1>9 DEF Close, Returned, device
    <2>2. ASSUME NEW where, NEW question, NEW r, Went(c, answer[c] = "ok", where, question, r)
          PROVE  LoadingSound'
      <3>1. at' = [at EXCEPT ![c] = where] /\ stage' = [stage EXCEPT ![c] = question]
        BY <2>2 DEF Went
      <3>2. at'[c] = where /\ node'[c] = "none" /\ length' = length /\ verify' = verify /\ shared' = shared
        BY <1>1, <1>2, <2>1, <3>1 DEF config
      <3>3. CASE where = "sending"
        <4>1. answer[c] = "ok" /\ stage[c] = "sign" /\ (verify => Verifies(c))
          BY <2>2, <3>3 DEF Went
        <4>2. ~shared => signature[c].over = Transaction(c)
          BY <1>2, <2>1, <4>1 DEF SealedFor
        <4>3. SealedFor(c)'
          BY <2>1, <3>2, <3>3, <4>1, <4>2 DEF SealedFor, Handed, Verifies, Transaction, Bytes
        <4>4. SentSoFar(c)'
          BY <3>2, <3>3 DEF SentSoFar
        <4> QED
          BY <1>1, <2>1, <3>1, <4>3, <4>4, OthersQuiet
      <3>4. CASE where # "sending"
        <4>1. SentSoFar(c)' /\ SealedFor(c)'
          BY <2>2, <3>2, <3>4, CallAway DEF Went
        <4> QED
          BY <1>1, <2>1, <3>1, <4>1, OthersQuiet
      <3> QED
        BY <3>3, <3>4
    <2>3. CASE at' = [at EXCEPT ![c] = "done"] /\ UNCHANGED stage
      <3>1. SentSoFar(c)' /\ SealedFor(c)'
        BY <1>1, <1>2, <2>1, <2>3, CallAway
      <3> QED
        BY <1>1, <2>1, <2>3, <3>1, OthersQuiet
    <2> QED
      BY <1>9, <2>2, <2>3, CloseGoes
  <1>10. ASSUME NEW c \in Calls, NEW n \in Answers, SendRaw(c, n)
         PROVE  LoadingSound'
    <2>1. /\ UNCHANGED <<config, stage, handle, key, message, signature, answer, loaded>> /\ at[c] = "sending"
          /\ at' = [at EXCEPT ![c] = "done"] /\ node' = [node EXCEPT ![c] = n]
      BY <1>10 DEF SendRaw, End, Go, device
    <2>2. at'[c] = "done" /\ length' = length /\ verify' = verify /\ shared' = shared
      BY <1>1, <2>1 DEF config
    <2>3. (verify => Verifies(c)) /\ (~shared => signature[c].over = Transaction(c))
      BY <1>2, <2>1 DEF SealedFor
    <2>4. SealedFor(c)'
      BY <2>1, <2>2, <2>3 DEF SealedFor, Verifies, Transaction, Bytes
    <2>5. SentSoFar(c)'
      BY <2>2 DEF SentSoFar
    <2> QED
      BY <1>1, <2>1, <2>4, <2>5, OthersQuiet
  <1>11. ASSUME NEW c \in Calls, NEW r \in {"ok", "fail", "rejected"}, GetAccount(c, r)
         PROVE  LoadingSound'
    <2>1. /\ UNCHANGED <<config, loaded, stage, handle, message, signature, answer, key, node>>
          /\ at[c] = "account" /\ at' = [at EXCEPT ![c] = "done"]
      BY <1>11 DEF GetAccount, End, Go, device, Rest
    <2>2. SentSoFar(c)' /\ SealedFor(c)'
      BY <1>1, <1>2, <2>1, CallAway
    <2> QED
      BY <1>1, <2>1, <2>2, OthersQuiet
  <1>12. ASSUME NEW d \in Devices, PlugIn(d) PROVE LoadingSound'
    BY <1>12, LoadingStays DEF PlugIn, Rest
  <1>13. ASSUME NEW d \in Devices, Unplug(d) PROVE LoadingSound'
    <2>1. /\ UNCHANGED <<config, at, stage, key, message, signature, answer, node>>
          /\ handle' = [c \in Calls |-> IF handle[c] = d THEN Gone ELSE handle[c]]
          /\ loaded' = [loaded EXCEPT ![d] = <<>>]
      BY <1>13 DEF Unplug, Rest
    <2>2. ASSUME NEW c \in Calls PROVE SentSoFar(c)' /\ SealedFor(c)'
      <3>1. handle'[c] \in Devices => handle'[c] = handle[c] /\ handle[c] # d
        BY <2>1, LedgerAssumption
      <3>2. handle'[c] \in Devices => loaded'[handle[c]] = loaded[handle[c]]
        BY <2>1, <3>1
      <3> QED
        BY <1>2, <2>1, <3>1, <3>2, QuietCall
    <2> QED
      BY <2>2 DEF LoadingSound
  <1>14. CASE UNCHANGED vars
    BY <1>14, LoadingStays DEF vars, device
  <1> QED
    BY <1>3, <1>4, <1>5, <1>6, <1>7, <1>8, <1>9, <1>10, <1>11, <1>12, <1>13, <1>14, SignStep DEF Next

-----------------------------------------------------------------------------
(* The specification.                                                      *)

LEMMA InvInit ==
    ASSUME Init PROVE LedgerInv
  <1>1. LedgerTypeOK
    BY TypesInit
  <1>2. HandlesSound
    BY LedgerAssumption DEF Init, HandlesSound
  <1>3. OutcomeSound
    BY DEF Init, OutcomeSound
  <1>4. LoadingSound
    BY DEF Init, LoadingSound, SentSoFar, SealedFor, Handed
  <1> QED
    BY <1>1, <1>2, <1>3, <1>4 DEF LedgerInv

LEMMA InvStep ==
    ASSUME LedgerInv, [Next]_vars PROVE LedgerInv'
  BY TypesStep, HandlesStep, OutcomeStep, LoadingStep DEF LedgerInv

LEMMA InvHolds == Spec => []LedgerInv
  <1>1. Init => LedgerInv
    BY InvInit
  <1>2. LedgerInv /\ [Next]_vars => LedgerInv'
    BY InvStep
  <1> QED
    BY <1>1, <1>2, PTL DEF Spec

\* However a command ends, and wherever a device was unplugged, it leaves none open.
THEOREM DevicesAreReturned == Spec => []HandlesReturned
  <1>1. LedgerInv => HandlesReturned
    BY DEF LedgerInv, HandlesSound, HandlesReturned
  <1> QED
    BY <1>1, InvHolds, PTL

\* A send reports what the node told it, in words the client knows for an error, and nothing
\* else ends one well.
THEOREM SendsAreTruthful == Spec => []Truthful
  <1>1. ASSUME LedgerInv, NEW c \in Calls, kind[c] = "send"
        PROVE  /\ result[c] = "ok" => node[c] \in {"accepted", "speechless"}
               /\ result[c] \in {"fail", "rejected"} => node[c] \notin {"accepted", "speechless"}
    BY <1>1 DEF LedgerInv, LedgerTypeOK, OutcomeSound, Told, IsRpcErrorResult, Statuses, Answers
  <1>2. LedgerInv => Truthful
    BY <1>1 DEF Truthful
  <1> QED
    BY <1>2, InvHolds, PTL

\* Whatever the size of transactions and chunks, and whoever else uses the devices, what the
\* node gets is signed over the transaction that was built, by the key that was asked for.
THEOREM SentAsSigned == Spec => []SignedAsAsked
  <1>1. ASSUME LedgerInv, NEW c \in Calls, Handed(c)
        PROVE  /\ verify => signature[c].by = key[c]
               /\ verify \/ ~shared => signature[c].over = Transaction(c)
    <2>1. /\ verify => Verifies(c)
          /\ ~shared => signature[c].over = Transaction(c)
      BY <1>1 DEF LedgerInv, LoadingSound, SealedFor
    <2>2. Verifies(c) => signature[c].by = key[c] /\ signature[c].over = Transaction(c)
      BY DEF Verifies
    <2> QED
      BY <2>1, <2>2
  <1>2. LedgerInv => SignedAsAsked
    BY <1>1 DEF SignedAsAsked
  <1> QED
    BY <1>2, InvHolds, PTL
=============================================================================
