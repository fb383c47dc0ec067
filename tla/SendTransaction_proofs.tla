----------------------- MODULE SendTransaction_proofs -----------------------
(***************************************************************************)
(* sendTransaction over the planner, for any number of overlapping         *)
(* attempts, nodes, prices and pages: the prices of a plan stay fresh, a   *)
(* settled message is executed once, a pre-flight is honest, and a walk    *)
(* over an honest node's pages is whole.                                   *)
(***************************************************************************)
EXTENDS SendTransaction, FiniteSetTheorems, TLAPS

-----------------------------------------------------------------------------
(* The planner: its cache never serves a config older than one Ttl.        *)

\* The initial states are sound: nothing is cached, and no call has begun.
LEMMA InitSound == Init => PlannerInv
  <1> SUFFICES ASSUME Init PROVE PlannerInv
    OBVIOUS
  <1> USE PlannerAssumption
  <1>1. TypeOK
    BY DEF Init, TypeOK, Times, Prices, Call
  <1>2. ReadsSound /\ EpochsSound /\ CallsFresh
    BY DEF Init, ReadsSound, EpochsSound, IdleInvalidateHolds, CallsFresh
  <1> QED BY <1>1, <1>2 DEF PlannerInv

\* Every step keeps the types of the cache, the calls and the chain's history.
LEMMA TypeStep == TypeOK /\ [Next]_vars => TypeOK'
  <1> SUFFICES ASSUME TypeOK, [Next]_vars PROVE TypeOK'
    OBVIOUS
  <1> USE PlannerAssumption
  <1>1. ASSUME NEW c \in Calls, NEW refresh \in BOOLEAN, ServeCached(c, refresh)
        PROVE  TypeOK'
    BY <1>1 DEF TypeOK, ServeCached, Fresh, Done, Asked, Call, chainVars
  <1>2. ASSUME NEW c \in Calls, NEW refresh \in BOOLEAN, AskNode(c, refresh)
        PROVE  TypeOK'
    BY <1>2 DEF TypeOK, AskNode, Asked, Call, chainVars
  <1>3. ASSUME NEW c \in Calls, NodeAnswers(c) PROVE TypeOK'
    BY <1>3 DEF TypeOK, NodeAnswers, Call, chainVars
  <1>4. ASSUME NEW c \in Calls, LandAnswer(c) PROVE TypeOK'
    BY <1>4 DEF TypeOK, LandAnswer, FetchedAt, Done, Call, Entry, chainVars
  <1>5. ASSUME NEW c \in Calls, ReadFails(c) PROVE TypeOK'
    BY <1>5 DEF TypeOK, ReadFails, Reading, Call, chainVars
  <1>6. ASSUME NEW h \in Hosts, SetRpcHost(h) PROVE TypeOK'
    BY <1>6 DEF TypeOK, SetRpcHost, chainVars
  <1>7. ASSUME NEW h \in Hosts, ChangePrice(h) PROVE TypeOK'
    BY <1>7 DEF TypeOK, ChangePrice, Prices
  <1>8. ASSUME Invalidate PROVE TypeOK'
    BY <1>8 DEF TypeOK, Invalidate, chainVars
  <1>9. ASSUME Tick PROVE TypeOK'
    BY <1>9 DEF TypeOK, Tick, Times, chainVars
  <1>10. ASSUME UNCHANGED vars PROVE TypeOK'
    BY <1>10 DEF TypeOK, vars
  <1> QED
    BY <1>1, <1>2, <1>3, <1>4, <1>5, <1>6, <1>7, <1>8, <1>9, <1>10 DEF Next

\* A price once in force since t stays so: prices only end at the present moment.
LEMMA StillInForce ==
    ASSUME TypeOK, [Next]_vars,
           NEW h \in Hosts, NEW p \in Prices, NEW t \in Times, t <= now,
           InForceSince(h, p, t)
    PROVE  InForceSince(h, p, t)'
  <1> USE PlannerAssumption
  <1>1. ASSUME NEW g \in Hosts, ChangePrice(g) PROVE InForceSince(h, p, t)'
    BY <1>1 DEF TypeOK, ChangePrice, InForceSince, Prices, Times
  <1>2. ASSUME UNCHANGED chainVars PROVE InForceSince(h, p, t)'
    BY <1>2 DEF chainVars, InForceSince
  <1> QED
    BY <1>1, <1>2 DEF Next, ServeCached, AskNode, NodeAnswers, LandAnswer, ReadFails,
       SetRpcHost, Invalidate, Tick, vars, chainVars

\* The clock does not run backwards.
LEMMA TimeForward == TypeOK /\ [Next]_vars => now <= now'
  <1> SUFFICES ASSUME TypeOK, [Next]_vars PROVE now <= now'
    OBVIOUS
  <1>1. now \in Nat
    BY PlannerAssumption DEF TypeOK, Times
  <1>2. ASSUME Tick PROVE now <= now'
    BY <1>1, <1>2 DEF Tick
  <1>3. ASSUME UNCHANGED now PROVE now <= now'
    BY <1>1, <1>3
  <1> QED
    BY <1>2, <1>3 DEF Next, ServeCached, AskNode, NodeAnswers, LandAnswer, ReadFails,
       SetRpcHost, ChangePrice, Invalidate, vars

\* An entry that is sound stays sound: its price only ends at the present moment.
LEMMA EntryStep ==
    ASSUME TypeOK, [Next]_vars, NEW e \in Entry, EntrySound(e)
    PROVE  EntrySound(e)'
  <1>1. e.host \in Hosts /\ e.price \in Prices /\ e.fetchedAt \in Times
    BY DEF Entry
  <1>2. now \in Nat /\ now' \in Nat /\ now <= now' /\ e.fetchedAt \in Nat
    BY <1>1, TypeStep, TimeForward DEF TypeOK, Times
  <1>3. InForceSince(e.host, e.price, e.fetchedAt)'
    BY <1>1, StillInForce DEF EntrySound
  <1> QED BY <1>2, <1>3 DEF EntrySound

\* What is stored, under way or returned stays sound: a hit copies the cache, an answer
\* carries the price in force, and a read is stamped with its beginning.
LEMMA ReadsStep ==
    ASSUME TypeOK, [Next]_vars, ReadsSound
    PROVE  ReadsSound'
  <1> USE PlannerAssumption
  <1>1. TypeOK' /\ now <= now' /\ now \in Nat /\ now' \in Nat
    BY TypeStep, TimeForward DEF TypeOK, Times
  <1> DEFINE CallSound(c) ==
         /\ call[c].at \notin {"idle", "failed"} => call[c].start <= now
         /\ call[c].at = "answered" =>
              InForceSince(call[c].host, call[c].price, call[c].start)
         /\ call[c].at = "done" => EntrySound(call[c].entry)
  <1>2. ASSUME cached # None, UNCHANGED cached PROVE EntrySound(cached)'
    BY <1>2, EntryStep DEF ReadsSound, TypeOK
  <1>3. ASSUME NEW d \in Calls, UNCHANGED call[d] PROVE CallSound(d)'
    <2>1. call[d] \in Call
      BY DEF TypeOK
    <2>2. call[d].at \notin {"idle", "failed"} => call[d].start \in Times /\ call[d].host \in Hosts
      BY <2>1 DEF Call
    <2>3. call[d].at = "answered" => call[d].price \in Prices
      BY <2>1 DEF Call
    <2>4. call[d].at = "done" => call[d].entry \in Entry
      BY <2>1 DEF Call
    <2>5. CallSound(d)
      BY DEF ReadsSound
    <2>6. (call[d].at \notin {"idle", "failed"} => call[d].start <= now)'
      BY <1>1, <1>3, <2>2, <2>5 DEF Times
    <2>7. call[d].at = "answered" => InForceSince(call[d].host, call[d].price, call[d].start)'
      BY <1>1, <1>3, <2>2, <2>3, <2>5, StillInForce DEF InForceSince
    <2>8. call[d].at = "done" => EntrySound(call[d].entry)'
      BY <1>3, <2>4, <2>5, EntryStep DEF EntrySound, InForceSince
    <2>9. call'[d] = call[d]
      BY <1>3
    <2> QED BY <2>6, <2>7, <2>8, <2>9 DEF InForceSince, EntrySound
  <1>4. ASSUME NEW c \in Calls, NEW refresh \in BOOLEAN, ServeCached(c, refresh)
        PROVE  ReadsSound'
    <2>1. cached # None /\ EntrySound(cached)'
      BY <1>2, <1>4 DEF ServeCached, Fresh
    <2>2. call'[c].at = "done" /\ call'[c].start = now /\ call'[c].entry = cached
      BY <1>4 DEF ServeCached, Done, Asked, TypeOK
    <2>3. CallSound(c)'
      BY <1>1, <1>4, <2>1, <2>2 DEF ServeCached, EntrySound, InForceSince
    <2>4. \A d \in Calls \ {c} : CallSound(d)'
      BY <1>3, <1>4 DEF ServeCached, TypeOK
    <2> QED BY <1>4, <2>1, <2>3, <2>4 DEF ReadsSound, ServeCached
  <1>5. ASSUME NEW c \in Calls, NEW refresh \in BOOLEAN, AskNode(c, refresh)
        PROVE  ReadsSound'
    <2>1. CallSound(c)'
      BY <1>1, <1>5 DEF AskNode, Asked, TypeOK
    <2>2. \A d \in Calls \ {c} : CallSound(d)'
      BY <1>3, <1>5 DEF AskNode, TypeOK
    <2> QED BY <1>2, <1>5, <2>1, <2>2 DEF ReadsSound, AskNode
  <1>6. ASSUME NEW c \in Calls, NodeAnswers(c) PROVE ReadsSound'
    <2>1. call'[c].at = "answered" /\ call'[c].start = call[c].start
          /\ call'[c].price = price[call'[c].host]
      BY <1>6 DEF NodeAnswers, TypeOK
    <2>2. call'[c].start <= now'
      BY <1>1, <1>6, <2>1 DEF ReadsSound, NodeAnswers
    <2>3. CallSound(c)'
      BY <1>6, <2>1, <2>2 DEF NodeAnswers, InForceSince, chainVars
    <2>4. \A d \in Calls \ {c} : CallSound(d)'
      BY <1>3, <1>6 DEF NodeAnswers, TypeOK
    <2> QED BY <1>2, <1>6, <2>3, <2>4 DEF ReadsSound, NodeAnswers
  <1>7. ASSUME NEW c \in Calls, LandAnswer(c) PROVE ReadsSound'
    <2>1. /\ cached'.host = call[c].host /\ cached'.price = call[c].price
          /\ cached'.fetchedAt = call[c].start
          /\ call'[c].at = "done" /\ call'[c].start = call[c].start
          /\ call'[c].entry = cached'
      BY <1>7 DEF LandAnswer, FetchedAt, Done, TypeOK
    <2>2. EntrySound(cached)'
      BY <1>7, <2>1 DEF ReadsSound, LandAnswer, EntrySound, InForceSince, chainVars
    <2>3. CallSound(c)'
      BY <1>7, <2>1, <2>2 DEF ReadsSound, LandAnswer, EntrySound, InForceSince
    <2>4. \A d \in Calls \ {c} : CallSound(d)'
      BY <1>3, <1>7 DEF LandAnswer, TypeOK
    <2> QED BY <2>2, <2>3, <2>4 DEF ReadsSound
  <1>8. ASSUME NEW c \in Calls, ReadFails(c) PROVE ReadsSound'
    <2>1. call'[c].at = "failed"
      BY <1>8 DEF ReadFails, TypeOK, Call
    <2>2. CallSound(c)'
      BY <1>1, <1>8, <2>1 DEF ReadsSound, ReadFails
    <2>3. \A d \in Calls \ {c} : CallSound(d)'
      BY <1>3, <1>8 DEF ReadFails, TypeOK
    <2> QED BY <1>2, <1>8, <2>2, <2>3 DEF ReadsSound, ReadFails
  <1>9. ASSUME UNCHANGED call, cached' \in {cached, None} PROVE ReadsSound'
    <2>1. \A d \in Calls : CallSound(d)'
      BY <1>3, <1>9
    <2> QED BY <1>2, <1>9, <2>1 DEF ReadsSound
  <1> HIDE DEF CallSound
  <1> QED
    BY <1>4, <1>5, <1>6, <1>7, <1>8, <1>9
    DEF Next, SetRpcHost, ChangePrice, Invalidate, Tick, vars

\* A read asked after a quiet invalidation is no older than it, and only such reads land.
LEMMA EpochsStep ==
    ASSUME TypeOK, [Next]_vars, EpochsSound
    PROVE  EpochsSound'
  <1>1. ASSUME NEW c \in Calls, NEW refresh \in BOOLEAN, ServeCached(c, refresh)
        PROVE  EpochsSound'
    BY <1>1 DEF EpochsSound, IdleInvalidateHolds, ServeCached, Done, Asked, TypeOK
  <1>2. ASSUME NEW c \in Calls, NEW refresh \in BOOLEAN, AskNode(c, refresh)
        PROVE  EpochsSound'
    BY <1>2 DEF EpochsSound, IdleInvalidateHolds, AskNode, Asked, TypeOK
  <1>3. ASSUME NEW c \in Calls, NodeAnswers(c) PROVE EpochsSound'
    BY <1>3 DEF EpochsSound, IdleInvalidateHolds, NodeAnswers, TypeOK
  <1>4. ASSUME NEW c \in Calls, LandAnswer(c) PROVE EpochsSound'
    BY <1>4 DEF EpochsSound, IdleInvalidateHolds, LandAnswer, Done, TypeOK
  <1>5. ASSUME NEW c \in Calls, ReadFails(c) PROVE EpochsSound'
    BY <1>5 DEF EpochsSound, IdleInvalidateHolds, ReadFails, TypeOK
  <1>6. ASSUME Invalidate PROVE EpochsSound'
    BY <1>6 DEF EpochsSound, IdleInvalidateHolds, Invalidate, Reading, TypeOK
  <1>7. ASSUME UNCHANGED <<call, cached, epoch, quietAt>> PROVE EpochsSound'
    BY <1>7 DEF EpochsSound, IdleInvalidateHolds
  <1> QED
    BY <1>1, <1>2, <1>3, <1>4, <1>5, <1>6, <1>7
    DEF Next, SetRpcHost, ChangePrice, Tick, vars

\* What a call returned stays fresh: it began less than one Ttl after its config's read,
\* or made that read itself, and no later price change makes its config older.
LEMMA FreshStep ==
    ASSUME TypeOK, [Next]_vars, ReadsSound, CallsFresh
    PROVE  CallsFresh'
  <1> USE PlannerAssumption
  <1>1. TypeOK' /\ ReadsSound' /\ now \in Nat
    BY TypeStep, ReadsStep DEF TypeOK, Times
  <1> DEFINE FreshCall(c) ==
        call[c].at = "done" =>
          LET e == call[c].entry IN
            /\ call[c].start < e.fetchedAt + Ttl \/ call[c].start = e.fetchedAt
            /\ InForceSince(e.host, e.price, e.fetchedAt)
            /\ call[c].refresh => InForceSince(e.host, e.price, call[c].start)
  <1>2. ASSUME NEW d \in Calls, UNCHANGED call[d] PROVE FreshCall(d)'
    <2> SUFFICES ASSUME call[d].at = "done" PROVE FreshCall(d)'
      BY <1>2
    <2>1. call[d] \in Call /\ FreshCall(d)
      BY DEF TypeOK, CallsFresh
    <2>2. call[d].entry \in Entry /\ call[d].start \in Times
      BY <2>1 DEF Call
    <2>3. call[d].start <= now /\ EntrySound(call[d].entry)
      BY DEF ReadsSound
    <2>4. /\ call[d].entry.host \in Hosts /\ call[d].entry.price \in Prices
          /\ call[d].entry.fetchedAt \in Times /\ call[d].entry.fetchedAt <= now
      BY <2>2, <2>3 DEF Entry, EntrySound
    <2>5. InForceSince(call[d].entry.host, call[d].entry.price, call[d].entry.fetchedAt)'
      BY <1>2, <2>1, <2>4, StillInForce DEF InForceSince
    <2>6. call[d].refresh =>
            InForceSince(call[d].entry.host, call[d].entry.price, call[d].start)'
      BY <1>2, <2>1, <2>2, <2>3, <2>4, StillInForce DEF InForceSince
    <2> QED BY <1>2, <2>1, <2>5, <2>6 DEF InForceSince
  <1>3. ASSUME NEW c \in Calls, NEW refresh \in BOOLEAN, ServeCached(c, refresh)
        PROVE  FreshCall(c)'
    <2>1. /\ call'[c].at = "done" /\ call'[c].start = now /\ call'[c].entry = cached
          /\ call'[c].refresh = refresh /\ ~refresh /\ cached # None
          /\ now < cached.fetchedAt + Ttl
      BY <1>3 DEF ServeCached, Fresh, Done, Asked, TypeOK
    <2>2. EntrySound(call[c].entry)'
      BY <1>1, <2>1 DEF ReadsSound
    <2> QED BY <2>1, <2>2 DEF EntrySound
  <1>4. ASSUME NEW c \in Calls, LandAnswer(c) PROVE FreshCall(c)'
    <2>1. /\ call'[c].at = "done" /\ call'[c].start = call[c].start
          /\ call'[c].entry.fetchedAt = call'[c].start
      BY <1>4 DEF LandAnswer, FetchedAt, Done, TypeOK
    <2>2. EntrySound(call[c].entry)'
      BY <1>1, <2>1 DEF ReadsSound
    <2> QED BY <2>1, <2>2 DEF EntrySound
  <1>5. ASSUME NEW c \in Calls, UNCHANGED [d \in Calls \ {c} |-> call[d]], FreshCall(c)'
        PROVE  CallsFresh'
    <2>1. \A d \in Calls \ {c} : call'[d] = call[d]
      BY <1>5
    <2>2. \A d \in Calls : FreshCall(d)'
      BY <1>2, <1>5, <2>1
    <2> QED BY <2>2 DEF CallsFresh
  <1>6. ASSUME NEW c \in Calls, call'[c].at # "done",
               UNCHANGED [d \in Calls \ {c} |-> call[d]]
        PROVE  CallsFresh'
    BY <1>5, <1>6
  <1>7. ASSUME UNCHANGED call PROVE CallsFresh'
    <2>1. \A d \in Calls : FreshCall(d)'
      BY <1>2, <1>7
    <2> QED BY <2>1 DEF CallsFresh
  <1> HIDE DEF FreshCall
  <1>8. ASSUME NEW c \in Calls, NEW refresh \in BOOLEAN, AskNode(c, refresh)
        PROVE  CallsFresh'
    BY <1>6, <1>8 DEF AskNode, Asked, TypeOK
  <1>9. ASSUME NEW c \in Calls, NodeAnswers(c) PROVE CallsFresh'
    BY <1>6, <1>9 DEF NodeAnswers, TypeOK
  <1>10. ASSUME NEW c \in Calls, ReadFails(c) PROVE CallsFresh'
    <2>1. call'[c].at = "failed"
      BY <1>10 DEF ReadFails, TypeOK, Call
    <2> QED BY <1>6, <1>10, <2>1 DEF ReadFails, TypeOK
  <1>11. ASSUME NEW c \in Calls, NEW refresh \in BOOLEAN, ServeCached(c, refresh)
         PROVE  CallsFresh'
    BY <1>3, <1>5, <1>11 DEF ServeCached, TypeOK
  <1>12. ASSUME NEW c \in Calls, LandAnswer(c) PROVE CallsFresh'
    BY <1>4, <1>5, <1>12 DEF LandAnswer, TypeOK
  <1> QED
    BY <1>7, <1>8, <1>9, <1>10, <1>11, <1>12
    DEF Next, SetRpcHost, ChangePrice, Invalidate, Tick, vars

\* For every Ttl and any number of overlapping plans, a plan is priced with a config that
\* was in force less than one Ttl before it began, and a quiet invalidate() is final
\* (read and invalidate of FeePlanner).
THEOREM PlansAreFresh == Spec => []PricesHold
  <1>1. Init => PlannerInv
    BY InitSound
  <1>2. PlannerInv /\ [Next]_vars => PlannerInv'
    BY TypeStep, ReadsStep, EpochsStep, FreshStep DEF PlannerInv
  <1>3. PlannerInv => PricesHold
    BY DEF PlannerInv, EpochsSound, ReadsSound, EntrySound, PriceFresh, PricesHold
  <1> QED BY <1>1, <1>2, <1>3, PTL DEF Spec

-----------------------------------------------------------------------------
(* The planner under sendTransaction.                                      *)

\* A plan or a config that an attempt takes leaves the rest of the planner as it is.
LEMMA TakesSound ==
    ASSUME PlannerInv, NEW c \in Calls, Takes(c)
    PROVE  PlannerInv'
  <1> USE DEF PlannerInv, Takes, plannerVars
  <1>1. TypeOK'
    BY DEF TypeOK, Call
  <1>2. \A d \in Calls : call'[d] = call[d] \/ call'[d].at = "idle"
    BY DEF TypeOK
  <1>3. \A h, p, t : InForceSince(h, p, t)' <=> InForceSince(h, p, t)
    BY DEF InForceSince
  <1>4. ReadsSound' /\ EpochsSound' /\ CallsFresh'
    BY <1>2, <1>3 DEF ReadsSound, EpochsSound, CallsFresh, EntrySound, IdleInvalidateHolds
  <1> QED
    BY <1>1, <1>4

\* A step of sendTransaction is one of the planner, or an attempt takes its answer.
LEMMA StepKinds ==
    ASSUME [SendNext]_allVars
    PROVE  [Next]_vars \/ \E c \in Calls : Takes(c)
  <1>1. ASSUME NEW c \in Calls, Planner(c) PROVE Next
    BY <1>1 DEF Planner, Next
  <1>2. ASSUME NEW c \in Calls, Control(c) \/ Plan(c) PROVE Takes(c)
    BY <1>2 DEF Control, Plan
  <1>3. ASSUME NEW c \in Calls,
               \/ Send(c) \/ ReadPageFails(c)
               \/ \E answer \in {"token", "absent", "unanswered"} : LookUp(c, answer)
               \/ \E served \in BOOLEAN : Probe(c, served)
               \/ \E next \in 0..MaxPages, empty \in BOOLEAN : ReadPage(c, next, empty)
               \/ \E ok \in BOOLEAN : Sign(c, ok)
               \/ \E n \in {"accepted", "unheard", "refused", "speechless", "lost"} : Broadcast(c, n)
        PROVE  UNCHANGED vars
    BY <1>3 DEF Send, ReadPageFails, LookUp, Probe, ReadPage, Sign, Broadcast, Quietly
  <1>4. ASSUME Tick \/ Invalidate \/ \E h \in Hosts : SetRpcHost(h) \/ ChangePrice(h) PROVE Next
    BY <1>4 DEF Next
  <1>5. ASSUME UNCHANGED allVars PROVE UNCHANGED vars
    BY <1>5 DEF allVars
  <1> QED
    BY <1>1, <1>2, <1>3, <1>4, <1>5 DEF SendNext

\* However many attempts share the planner, its prices hold for all of them.
LEMMA PlannerKept == PlannerInv /\ [SendNext]_allVars => PlannerInv'
  <1> SUFFICES ASSUME PlannerInv, [SendNext]_allVars PROVE PlannerInv'
    OBVIOUS
  <1>1. CASE [Next]_vars
    BY <1>1, TypeStep, ReadsStep, EpochsStep, FreshStep DEF PlannerInv
  <1>2. CASE \E c \in Calls : Takes(c)
    BY <1>2, TakesSound
  <1> QED
    BY <1>1, <1>2, StepKinds

-----------------------------------------------------------------------------
(* The attempts.                                                           *)

\* An attempt begins with nothing asked, nothing read and the caller's own prices.
LEMMA SendInitSound == SendInit => PlannerInv /\ SendInv
  <1> SUFFICES ASSUME SendInit PROVE PlannerInv /\ SendInv
    OBVIOUS
  <1> USE DEF SendInit
  <1>1. PlannerInv
    BY InitSound
  <1>2. SendTypeOK
    BY DEF SendTypeOK, At, Try, Places, Offers
  <1>3. SettledSound /\ LookUpSound /\ WalkSound
    BY DEF SettledSound, LookUpSound, WalkSound, Walked, At, Envelope
  <1> QED
    BY <1>1, <1>2, <1>3 DEF SendInv

\* A step of one attempt, or none of any.
LEMMA TryKinds ==
    ASSUME [SendNext]_allVars
    PROVE  \/ UNCHANGED sendVars
           \/ \E c \in Calls :
                \/ Send(c) \/ Control(c) \/ Plan(c) \/ ReadPageFails(c)
                \/ \E answer \in {"token", "absent", "unanswered"} : LookUp(c, answer)
                \/ \E served \in BOOLEAN : Probe(c, served)
                \/ \E next \in 0..MaxPages, empty \in BOOLEAN : ReadPage(c, next, empty)
                \/ \E ok \in BOOLEAN : Sign(c, ok)
                \/ \E n \in {"accepted", "unheard", "refused", "speechless", "lost"} : Broadcast(c, n)
  BY DEF SendNext, Planner, allVars

\* Only the attempt that steps changes.
LEMMA Became ==
    ASSUME SendTypeOK, NEW c \in Calls, NEW t \in Try, Becomes(c, t)
    PROVE  try' \in [Calls -> Try] /\ try' = [d \in Calls |-> IF d = c THEN t ELSE try[d]]
  BY DEF SendTypeOK, Becomes

\* The places an attempt goes to or ends at.
LEMMA Moved ==
    ASSUME NEW where \in Places
    PROVE  At(where) \in Try /\ \A t \in Try : [t EXCEPT !.at = where] \in Try
  BY DEF At, Try, Offers

\* What each action makes of its attempt.
LEMMA StepTyped ==
    ASSUME PlannerInv, SendTypeOK, NEW c \in Calls
    PROVE  /\ Send(c) => try' \in [Calls -> Try]
           /\ \A answer \in {"token", "absent", "unanswered"} : LookUp(c, answer) => try' \in [Calls -> Try]
           /\ Control(c) => try' \in [Calls -> Try]
           /\ \A served \in BOOLEAN : Probe(c, served) => try' \in [Calls -> Try]
           /\ Plan(c) => try' \in [Calls -> Try]
           /\ \A next \in 0..MaxPages, empty \in BOOLEAN : ReadPage(c, next, empty) => try' \in [Calls -> Try]
           /\ ReadPageFails(c) => try' \in [Calls -> Try]
           /\ \A ok \in BOOLEAN : Sign(c, ok) => try' \in [Calls -> Try]
           /\ \A n : Broadcast(c, n) => try' \in [Calls -> Try]
  <1>1. try[c] \in Try
    BY DEF SendTypeOK
  <1>2. \A where \in Places : Goes(c, where) \/ Ends(c, where) => try' \in [Calls -> Try]
    BY <1>1, Moved, Became DEF Goes, Ends
  <1>3. {"lookup", "control", "probe", "plan", "pages", "sign", "send", "refused", "threw", "sent",
         AfterPreflight} \subseteq Places
    BY DEF Places, AfterPreflight
  <1>4. ASSUME NEW answer \in {"token", "absent", "unanswered"}, LookUp(c, answer)
        PROVE  try' \in [Calls -> Try]
    <2>1. CASE answer = "token"
      BY <1>2, <1>3, <1>4, <2>1 DEF LookUp
    <2>2. CASE answer # "token"
      <3> DEFINE t == [try[c] EXCEPT !.at = "control", !.symbol = answer]
      <3>1. t \in Try
        BY <1>1, <1>3, <2>2 DEF Try
      <3> QED
        BY <1>4, <2>2, <3>1, Became DEF LookUp
    <2> QED
      BY <2>1, <2>2
  <1>5. ASSUME NEW served \in BOOLEAN, Probe(c, served) PROVE try' \in [Calls -> Try]
    <2> DEFINE t == [try[c] EXCEPT !.at = AfterPreflight,
                                   !.symbol = IF served THEN @ ELSE "unserved"]
    <2>1. t \in Try
      BY <1>1, <1>3 DEF Try
    <2> QED
      BY <1>2, <1>3, <1>5, <2>1, Became DEF Probe
  <1>6. ASSUME Plan(c) PROVE try' \in [Calls -> Try]
    <2>1. CASE call[c].at = "failed"
      BY <1>2, <1>3, <1>6, <2>1 DEF Plan
    <2>2. CASE call[c].at # "failed"
      <3> DEFINE o == [host |-> call[c].entry.host, price |-> call[c].entry.price]
                 t == [try[c] EXCEPT !.at = IF kind = "burn" THEN "pages" ELSE "sign", !.offer = o]
      <3>1. o \in Offers
        <4>1. call[c].at = "done" /\ call[c] \in Call
          BY <1>6, <2>2 DEF Plan, Takes, PlannerInv, TypeOK
        <4>2. call[c].entry \in Entry
          BY <4>1 DEF Call
        <4> QED
          BY <4>2 DEF Entry, Offers
      <3>2. t \in Try
        BY <1>1, <1>3, <3>1 DEF Try
      <3> QED
        BY <1>6, <2>2, <3>2, Became DEF Plan
    <2> QED
      BY <2>1, <2>2
  <1>7. ASSUME NEW next \in 0..MaxPages, NEW empty \in BOOLEAN, ReadPage(c, next, empty)
        PROVE  try' \in [Calls -> Try]
    <2> DEFINE t == [try[c] EXCEPT !.got = @ \cup {try[c].cursor}, !.cursor = next,
                                   !.seen = @ \cup {next},
                                   !.lied = @ \/ next # CursorAfter(try[c].cursor)]
               u == [t EXCEPT !.at = "sign"]
         b == try[c].lied \/ next # CursorAfter(try[c].cursor)
    <2>1. t \in Try
      <3>1. try[c].got \cup {try[c].cursor} \in SUBSET Nat /\ try[c].seen \cup {next} \in SUBSET Nat
        BY <1>1, SendAssumption DEF Try
      <3>2. next \in Nat
        BY SendAssumption
      <3>3. b \in BOOLEAN
        OBVIOUS
      <3>4. t = [try[c] EXCEPT !.got = @ \cup {try[c].cursor}, !.cursor = next,
                               !.seen = @ \cup {next}, !.lied = b]
        BY <1>1 DEF Try
      <3> HIDE DEF t, b
      <3> QED
        BY <1>1, <3>1, <3>2, <3>3, <3>4 DEF Try
    <2>2. u \in Try
      BY <1>3, <2>1, Moved
    <2>3. Becomes(c, u) \/ Ends(c, "threw") \/ Becomes(c, t)
      BY <1>7 DEF ReadPage
    <2> QED
      BY <1>2, <1>3, <2>1, <2>2, <2>3, Became
  <1> QED
    BY <1>2, <1>3, <1>4, <1>5, <1>6, <1>7
    DEF Send, Control, ReadPageFails, Sign, Broadcast, Unwrap

\* Types: an offer has the prices of an entry of the planner, cursors are numbers.
LEMMA SendTypeStep ==
    ASSUME PlannerInv, SendTypeOK, [SendNext]_allVars
    PROVE  SendTypeOK'
  <1>1. CASE UNCHANGED sendVars
    BY <1>1 DEF sendVars, message, SendTypeOK
  <1>2. ASSUME NEW c \in Calls, NEW n \in {"accepted", "unheard", "refused", "speechless", "lost"},
               Broadcast(c, n)
        PROVE  chain' \in [Hosts -> SUBSET (Offers \X SUBSET Nat)]
    <2>1. Envelope(c) \in Offers \X SUBSET Nat
      BY DEF SendTypeOK, Envelope, Try
    <2> QED
      BY <1>2, <2>1 DEF Broadcast, SendTypeOK
  <1>3. ASSUME NEW c \in Calls,
               \/ Send(c) \/ Control(c) \/ Plan(c) \/ ReadPageFails(c)
               \/ \E answer \in {"token", "absent", "unanswered"} : LookUp(c, answer)
               \/ \E served \in BOOLEAN : Probe(c, served)
               \/ \E next \in 0..MaxPages, empty \in BOOLEAN : ReadPage(c, next, empty)
               \/ \E ok \in BOOLEAN : Sign(c, ok)
        PROVE  SendTypeOK'
    <2>1. UNCHANGED <<message, chain>>
      BY <1>3 DEF Send, Control, Plan, Takes, ReadPageFails, LookUp, Probe, ReadPage, Sign, Quietly
    <2>2. try' \in [Calls -> Try]
      BY <1>3, StepTyped
    <2> QED
      BY <2>1, <2>2 DEF SendTypeOK, message
  <1>4. ASSUME NEW c \in Calls, NEW n \in {"accepted", "unheard", "refused", "speechless", "lost"},
               Broadcast(c, n)
        PROVE  SendTypeOK'
    <2>1. UNCHANGED message
      BY <1>4 DEF Broadcast
    <2>2. try' \in [Calls -> Try]
      BY <1>4, StepTyped
    <2> QED
      BY <1>2, <1>4, <2>1, <2>2 DEF SendTypeOK, message
  <1> QED
    BY <1>1, <1>3, <1>4, TryKinds

\* An attempt's walk and offer stay; what it was told of the symbol stays as well.
SameWalk(t, s) ==
    s.offer = t.offer /\ s.got = t.got /\ s.cursor = t.cursor /\ s.seen = t.seen /\ s.lied = t.lied

Same(t, s) == s.symbol = t.symbol /\ SameWalk(t, s)

\* What an attempt that goes on, or that ends, keeps and loses.
LEMMA Went ==
    ASSUME SendTypeOK, NEW c \in Calls, NEW where \in Places
    PROVE  /\ Goes(c, where) => /\ try'[c].at = where
                               /\ try'[c].symbol = try[c].symbol /\ try'[c].offer = try[c].offer
                               /\ try'[c].got = try[c].got /\ try'[c].cursor = try[c].cursor
                               /\ try'[c].seen = try[c].seen /\ try'[c].lied = try[c].lied
           /\ Ends(c, where) => try'[c] = At(where)
           /\ \A d \in Calls : Goes(c, where) \/ Ends(c, where) => d = c \/ try'[d] = try[d]
  <1>1. try[c] \in Try
    BY DEF SendTypeOK
  <1> QED
    BY <1>1, Moved, Became DEF Goes, Ends, Try

\* What the step of an attempt makes of it, action by action.
LEMMA StepFields ==
    ASSUME SendTypeOK, NEW c \in Calls, NEW d \in Calls, NEW t, NEW s, t = try[d], s = try'[d]
    PROVE  /\ Send(c) => s = t \/ /\ d = c /\ t.at = "idle"
                                  /\ s.at = IF preflight THEN "lookup" ELSE AfterPreflight
                                  /\ Same(t, s)
           /\ \A answer \in {"token", "absent", "unanswered"} : LookUp(c, answer) =>
                s = t \/ s = At("refused")
                     \/ /\ d = c /\ t.at = "lookup" /\ s.at = "control" /\ s.symbol = answer
                        /\ answer # "token" /\ SameWalk(t, s)
           /\ Control(c) => s = t \/ s = At("refused")
                              \/ (d = c /\ t.at = "control" /\ s.at = "probe" /\ Same(t, s))
           /\ \A served \in BOOLEAN : Probe(c, served) =>
                s = t \/ s = At("refused")
                     \/ /\ d = c /\ t.at = "probe" /\ s.at = AfterPreflight /\ Same(t, s)
           /\ Plan(c) =>
                s = t \/ s = At("threw")
                     \/ /\ d = c /\ t.at = "plan" /\ s.at = (IF kind = "burn" THEN "pages" ELSE "sign")
                        /\ s.symbol = t.symbol /\ s.got = t.got /\ s.cursor = t.cursor
                        /\ s.seen = t.seen /\ s.lied = t.lied
           /\ ReadPageFails(c) => s = t \/ s = At("threw")
           /\ \A ok \in BOOLEAN : Sign(c, ok) =>
                s = t \/ s = At("threw") \/ (d = c /\ t.at = "sign" /\ s.at = "send" /\ Same(t, s))
           /\ \A n : Broadcast(c, n) => s = t \/ s = At("threw") \/ s = At("sent")
  <1>1. t \in Try /\ try[c] \in Try
    BY DEF SendTypeOK
  <1>2. {"lookup", "control", "probe", "plan", "pages", "sign", "send", "refused", "threw", "sent",
         AfterPreflight} \subseteq Places
    BY DEF Places, AfterPreflight
  <1>3. \A where \in Places :
          /\ Goes(c, where) => s = t \/ (d = c /\ s.at = where /\ Same(t, s))
          /\ Ends(c, where) => s = t \/ s = At(where)
    BY Went DEF Same, SameWalk
  <1>4. Send(c) => s = t \/ /\ d = c /\ t.at = "idle"
                            /\ s.at = IF preflight THEN "lookup" ELSE AfterPreflight
                            /\ Same(t, s)
    BY <1>2, <1>3 DEF Send, Is
  <1>5. ASSUME NEW answer \in {"token", "absent", "unanswered"}, LookUp(c, answer)
        PROVE  s = t \/ s = At("refused")
                    \/ /\ d = c /\ t.at = "lookup" /\ s.at = "control" /\ s.symbol = answer
                       /\ answer # "token" /\ SameWalk(t, s)
    <2>1. CASE answer = "token"
      BY <1>2, <1>3, <1>5, <2>1 DEF LookUp
    <2>2. CASE answer # "token"
      <3> DEFINE u == [try[c] EXCEPT !.at = "control", !.symbol = answer]
      <3>1. u \in Try /\ u.at = "control" /\ u.symbol = answer /\ SameWalk(try[c], u)
        BY <1>1, <1>2, <2>2 DEF Try, SameWalk
      <3>2. Becomes(c, u)
        BY <1>5, <2>2 DEF LookUp
      <3> HIDE DEF u
      <3>3. s = IF d = c THEN u ELSE t
        BY <3>1, <3>2, Became
      <3> QED
        BY <1>5, <2>2, <3>1, <3>3 DEF LookUp, Is
    <2> QED
      BY <2>1, <2>2
  <1>6. ASSUME Control(c)
        PROVE  s = t \/ s = At("refused") \/ (d = c /\ t.at = "control" /\ s.at = "probe" /\ Same(t, s))
    BY <1>2, <1>3, <1>6 DEF Control, Is
  <1>7. ASSUME NEW served \in BOOLEAN, Probe(c, served)
        PROVE  s = t \/ s = At("refused") \/ (d = c /\ t.at = "probe" /\ s.at = AfterPreflight /\ Same(t, s))
    <2>1. CASE ~served
      BY <1>2, <1>3, <1>7, <2>1 DEF Probe, Verdict
    <2>2. CASE served
      <3> DEFINE u == [try[c] EXCEPT !.at = AfterPreflight, !.symbol = IF served THEN @ ELSE "unserved"]
      <3>1. u \in Try /\ u.at = AfterPreflight /\ Same(try[c], u)
        BY <1>1, <1>2, <2>2 DEF Try, Same, SameWalk
      <3>2. Becomes(c, u)
        BY <1>7, <2>2 DEF Probe, Verdict
      <3> HIDE DEF u
      <3>3. s = IF d = c THEN u ELSE t
        BY <3>1, <3>2, Became
      <3> QED
        BY <1>7, <3>1, <3>3 DEF Probe, Is
    <2> QED
      BY <2>1, <2>2
  <1>8. ASSUME Plan(c)
        PROVE  s = t \/ s = At("threw")
                    \/ /\ d = c /\ t.at = "plan" /\ s.at = (IF kind = "burn" THEN "pages" ELSE "sign")
                       /\ s.symbol = t.symbol /\ s.got = t.got /\ s.cursor = t.cursor
                       /\ s.seen = t.seen /\ s.lied = t.lied
    <2>1. CASE call[c].at = "failed"
      BY <1>2, <1>3, <1>8, <2>1 DEF Plan
    <2>2. CASE call[c].at # "failed"
      <3> DEFINE o == [host |-> call[c].entry.host, price |-> call[c].entry.price]
                 u == [try[c] EXCEPT !.at = IF kind = "burn" THEN "pages" ELSE "sign", !.offer = o]
      <3>1. /\ u.at = (IF kind = "burn" THEN "pages" ELSE "sign") /\ u.symbol = try[c].symbol
            /\ u.got = try[c].got /\ u.cursor = try[c].cursor /\ u.seen = try[c].seen
            /\ u.lied = try[c].lied
        BY <1>1 DEF Try
      <3>2. Becomes(c, u)
        BY <1>8, <2>2 DEF Plan
      <3> HIDE DEF u
      <3>3. s = IF d = c THEN u ELSE t
        BY <3>2 DEF Becomes, SendTypeOK
      <3> QED
        BY <1>8, <3>1, <3>3 DEF Plan, Is
    <2> QED
      BY <2>1, <2>2
  <1>9. ReadPageFails(c) => s = t \/ s = At("threw")
    BY <1>2, <1>3 DEF ReadPageFails
  <1>10. ASSUME NEW ok \in BOOLEAN, Sign(c, ok)
         PROVE  s = t \/ s = At("threw") \/ (d = c /\ t.at = "sign" /\ s.at = "send" /\ Same(t, s))
    BY <1>2, <1>3, <1>10 DEF Sign, Is
  <1>11. ASSUME NEW n, Broadcast(c, n) PROVE s = t \/ s = At("threw") \/ s = At("sent")
    BY <1>2, <1>3, <1>11 DEF Broadcast, Unwrap
  <1> QED
    BY <1>4, <1>5, <1>6, <1>7, <1>8, <1>9, <1>10, <1>11

\* A walk that one page was read for, which ends it at "sign" or does not.
PageRead(t, s, next) ==
    /\ s.symbol = t.symbol /\ s.got = t.got \cup {t.cursor}
    /\ s.cursor = next /\ s.seen = t.seen \cup {next}
    /\ s.lied = (t.lied \/ next # CursorAfter(t.cursor))
    /\ \/ s.at = "sign" /\ (next = 0 \/ next \in t.seen)
       \/ /\ s.at = "pages" /\ ~(next = 0 \/ next \in t.seen)
          /\ Cardinality(s.seen) # MaxPages

\* What a page makes of a walk: it is thrown away, over, or one page longer.
LEMMA PageFields ==
    ASSUME SendTypeOK, NEW c \in Calls, NEW d \in Calls, NEW s, NEW t, s = try'[d], t = try[d]
    PROVE  \A next \in 0..MaxPages, empty \in BOOLEAN : ReadPage(c, next, empty) =>
              \/ s = t
              \/ s = At("threw")
              \/ t.at = "pages" /\ PageRead(t, s, next)
  <1> SUFFICES ASSUME NEW next \in 0..MaxPages, NEW empty \in BOOLEAN, ReadPage(c, next, empty)
               PROVE  \/ s = t
                      \/ s = At("threw")
                      \/ t.at = "pages" /\ PageRead(t, s, next)
    OBVIOUS
  <1> DEFINE w == [try[c] EXCEPT !.got = @ \cup {try[c].cursor}, !.cursor = next,
                                 !.seen = @ \cup {next},
                                 !.lied = @ \/ next # CursorAfter(try[c].cursor)]
             u == [w EXCEPT !.at = "sign"]
  <1>1. /\ w.at = try[c].at /\ w.symbol = try[c].symbol /\ w.got = try[c].got \cup {try[c].cursor}
        /\ w.cursor = next /\ w.seen = try[c].seen \cup {next}
        /\ w.lied = (try[c].lied \/ next # CursorAfter(try[c].cursor))
        /\ u.at = "sign" /\ u.symbol = w.symbol /\ u.got = w.got /\ u.cursor = w.cursor
        /\ u.seen = w.seen /\ u.lied = w.lied
    BY DEF SendTypeOK, Try
  <1>2. \/ Becomes(c, u) /\ (next = 0 \/ next \in try[c].seen)
        \/ Ends(c, "threw")
        \/ /\ Becomes(c, w) /\ ~(next = 0 \/ next \in try[c].seen)
           /\ Cardinality(w.seen) # MaxPages
    BY DEF ReadPage, Stops
  <1>3. try[c].at = "pages"
    BY DEF ReadPage, Is
  <1> HIDE DEF w, u
  <1>4. CASE Becomes(c, u) /\ (next = 0 \/ next \in try[c].seen)
    <2>1. try'[d] = IF d = c THEN u ELSE try[d]
      BY <1>4 DEF Becomes, SendTypeOK
    <2> QED
      BY <1>1, <1>3, <1>4, <2>1 DEF PageRead
  <1>5. CASE Ends(c, "threw")
    BY <1>5 DEF Ends, Becomes, SendTypeOK
  <1>6. CASE Becomes(c, w) /\ ~(next = 0 \/ next \in try[c].seen) /\ Cardinality(w.seen) # MaxPages
    <2>1. try'[d] = IF d = c THEN w ELSE try[d]
      BY <1>6 DEF Becomes, SendTypeOK
    <2> QED
      BY <1>1, <1>3, <1>6, <2>1 DEF PageRead
  <1> QED
    BY <1>2, <1>4, <1>5, <1>6

\* A settled message is never planned, so that every envelope is the same one.
LEMMA SettledStep ==
    ASSUME SendTypeOK, SettledSound, [SendNext]_allVars
    PROVE  SettledSound'
  <1>1. CASE UNCHANGED sendVars
    BY <1>1 DEF sendVars, message, SettledSound, Envelope
  <1>2. ASSUME NEW c \in Calls,
               \/ Send(c) \/ Control(c) \/ Plan(c) \/ ReadPageFails(c)
               \/ \E answer \in {"token", "absent", "unanswered"} : LookUp(c, answer)
               \/ \E served \in BOOLEAN : Probe(c, served)
               \/ \E next \in 0..MaxPages, empty \in BOOLEAN : ReadPage(c, next, empty)
               \/ \E ok \in BOOLEAN : Sign(c, ok)
               \/ \E n \in {"accepted", "unheard", "refused", "speechless", "lost"} : Broadcast(c, n)
        PROVE  SettledSound'
    <2>1. UNCHANGED message
      BY <1>2 DEF Send, Control, Plan, Takes, ReadPageFails, LookUp, Probe, ReadPage, Sign, Quietly,
                  Broadcast
    <2>2. CASE ~planned
      BY <2>1, <2>2 DEF message, SettledSound
    <2>3. CASE planned
      <3>1. ASSUME NEW d \in Calls
            PROVE  try'[d].at \notin {"plan", "pages"} /\ <<try'[d].offer, try'[d].got>> = <<Own, {}>>
        <4>1. try[d].at \notin {"plan", "pages"} /\ try[d].offer = Own /\ try[d].got = {}
          BY <2>3 DEF SettledSound, Envelope
        <4>2. ~Plan(c) /\ \A next \in 0..MaxPages, empty \in BOOLEAN : ~ReadPage(c, next, empty)
          BY <2>3 DEF SettledSound, Plan, ReadPage, Is
        <4> QED
          BY <1>2, <2>3, <4>1, <4>2, StepFields DEF At, Same, SameWalk, AfterPreflight, NeedsPlan
      <3>2. ASSUME NEW h \in Hosts PROVE chain'[h] \subseteq {<<Own, {}>>}
        <4>1. chain[h] \subseteq {<<Own, {}>>} /\ Envelope(c) = <<Own, {}>>
          BY <2>3 DEF SettledSound
        <4>2. chain' = chain \/ chain' = [chain EXCEPT ![host] = @ \cup {Envelope(c)}]
          BY <1>2 DEF Send, Control, Plan, Takes, ReadPageFails, LookUp, Probe, ReadPage, Sign, Quietly,
                      Broadcast
        <4> QED
          BY <4>1, <4>2 DEF SendTypeOK
      <3> QED
        BY <3>1, <3>2 DEF SettledSound, Envelope
    <2> QED
      BY <2>2, <2>3
  <1> QED
    BY <1>1, <1>2, TryKinds

\* A taken symbol and an unanswered control end the attempt.
LEMMA LookUpStep ==
    ASSUME SendTypeOK, LookUpSound, [SendNext]_allVars
    PROVE  LookUpSound'
  <1>1. CASE UNCHANGED sendVars
    BY <1>1 DEF sendVars, message, LookUpSound
  <1>2. ASSUME NEW c \in Calls,
               \/ Send(c) \/ Control(c) \/ Plan(c) \/ ReadPageFails(c)
               \/ \E answer \in {"token", "absent", "unanswered"} : LookUp(c, answer)
               \/ \E served \in BOOLEAN : Probe(c, served)
               \/ \E next \in 0..MaxPages, empty \in BOOLEAN : ReadPage(c, next, empty)
               \/ \E ok \in BOOLEAN : Sign(c, ok)
               \/ \E n \in {"accepted", "unheard", "refused", "speechless", "lost"} : Broadcast(c, n)
        PROVE  LookUpSound'
    <2>1. UNCHANGED preflight
      BY <1>2 DEF Send, Control, Plan, Takes, ReadPageFails, LookUp, Probe, ReadPage, Sign, Quietly,
                  Broadcast, message
    <2>2. ASSUME NEW d \in Calls, preflight,
                 try'[d].at \in {"control", "probe", "plan", "pages", "sign", "send"}
          PROVE  try'[d].symbol \in {"absent", "unanswered"}
      <3>1. try[d].at \in {"control", "probe", "plan", "pages", "sign", "send"} =>
              try[d].symbol \in {"absent", "unanswered"}
        BY <2>2 DEF LookUpSound
      <3>2. ASSUME NEW next \in 0..MaxPages, NEW empty \in BOOLEAN, ReadPage(c, next, empty)
            PROVE  try'[d].symbol \in {"absent", "unanswered"}
        <4>1. \/ try'[d] = try[d]
              \/ try'[d] = At("threw")
              \/ try[d].at = "pages" /\ PageRead(try[d], try'[d], next)
          BY <3>2, PageFields
        <4> QED
          BY <2>2, <3>1, <4>1 DEF At, PageRead
      <3> QED
        BY <1>2, <2>2, <3>1, <3>2, StepFields DEF At, Same, AfterPreflight
    <2> QED
      BY <2>1, <2>2 DEF LookUpSound
  <1> QED
    BY <1>1, <1>2, TryKinds

\* An honest page takes a walk one page on, and the last of them ends it.
LEMMA HonestPage ==
    ASSUME NEW i \in 1..Pages, NEW next, next = CursorAfter(i)
    PROVE  /\ 1..(i - 1) \cup {i} = 1..i
           /\ next # 0 => /\ next \in 1..Pages /\ i = next - 1
                         /\ (2..i) \cup {next} = 2..next
           /\ next \in {0} \cup 2..i => i = Pages
  <1>1. Pages \in Nat /\ i \in Nat /\ 1 <= i /\ i <= Pages
    BY SendAssumption
  <1>2. 1..(i - 1) \cup {i} = 1..i
    BY <1>1
  <1>3. ASSUME next # 0 PROVE i < Pages /\ next = i + 1
    BY <1>1, <1>3 DEF CursorAfter
  <1>4. ASSUME next # 0
        PROVE  next \in 1..Pages /\ i = next - 1 /\ (2..i) \cup {next} = 2..next
    BY <1>1, <1>3, <1>4
  <1>5. ASSUME next \in {0} \cup 2..i PROVE i = Pages
    <2>1. next = 0
      BY <1>1, <1>3, <1>5
    <2> QED
      BY <1>1, <2>1 DEF CursorAfter
  <1> QED
    BY <1>2, <1>4, <1>5

\* A page more, and the walk is still sound.
LEMMA PageSound ==
    ASSUME NEW t \in Try, NEW s, NEW next \in 0..MaxPages, t.at = "pages", Walked(t),
           PageRead(t, s, next)
    PROVE  Walked(s)
  <1>1. IsFiniteSet(t.seen) /\ Cardinality(t.seen) < MaxPages
    BY DEF Walked
  <1>2. IsFiniteSet(s.seen) /\ (next \notin t.seen => Cardinality(s.seen) = Cardinality(t.seen) + 1)
    BY <1>1, FS_AddElement DEF PageRead
  <1>3. s.at \in {"pages", "sign"}
    BY DEF PageRead
  <1>4. ASSUME ~s.lied
        PROVE  /\ t.cursor \in 1..Pages /\ t.got = 1..(t.cursor - 1) /\ t.seen = 2..t.cursor
               /\ next = CursorAfter(t.cursor)
    <2>1. ~t.lied /\ next = CursorAfter(t.cursor)
      BY <1>4 DEF PageRead
    <2> QED
      BY <2>1 DEF Walked
  <1>5. CASE s.at = "pages"
    <2>1. next # 0 /\ next \notin t.seen /\ Cardinality(s.seen) # MaxPages
      BY <1>5 DEF PageRead
    <2>2. Cardinality(s.seen) < MaxPages
      <3>1. Cardinality(t.seen) \in Nat
        BY <1>1, FS_CardinalityType
      <3> QED
        BY <1>1, <1>2, <2>1, <3>1, SendAssumption
    <2>3. ASSUME ~s.lied
          PROVE  s.cursor \in 1..Pages /\ s.got = 1..(s.cursor - 1) /\ s.seen = 2..s.cursor
      <3>1. s.cursor = next /\ s.got = t.got \cup {t.cursor} /\ s.seen = t.seen \cup {next}
        BY DEF PageRead
      <3> QED
        BY <1>4, <2>1, <2>3, <3>1, HonestPage
    <2> QED
      BY <1>2, <1>5, <2>2, <2>3 DEF Walked
  <1>6. CASE s.at = "sign"
    <2>1. next = 0 \/ next \in t.seen
      BY <1>6 DEF PageRead
    <2>2. ASSUME ~s.lied PROVE s.got = 1..Pages
      <3>1. s.got = t.got \cup {t.cursor}
        BY DEF PageRead
      <3>2. next \in {0} \cup 2..t.cursor
        BY <1>4, <2>1, <2>2
      <3> QED
        BY <1>4, <2>2, <3>1, <3>2, HonestPage
    <2> QED
      BY <1>6, <2>2 DEF Walked
  <1> QED
    BY <1>3, <1>5, <1>6

\* Walks stay sound: only a page changes what is read, and a walk begins with nothing read.
LEMMA WalkStep ==
    ASSUME SendTypeOK, WalkSound, [SendNext]_allVars
    PROVE  WalkSound'
  <1>1. CASE UNCHANGED sendVars
    BY <1>1 DEF sendVars, message, WalkSound, Walked, NeedsPlan
  <1>2. ASSUME NEW c \in Calls,
               \/ Send(c) \/ Control(c) \/ Plan(c) \/ ReadPageFails(c)
               \/ \E answer \in {"token", "absent", "unanswered"} : LookUp(c, answer)
               \/ \E served \in BOOLEAN : Probe(c, served)
               \/ \E next \in 0..MaxPages, empty \in BOOLEAN : ReadPage(c, next, empty)
               \/ \E ok \in BOOLEAN : Sign(c, ok)
               \/ \E n \in {"accepted", "unheard", "refused", "speechless", "lost"} : Broadcast(c, n)
        PROVE  WalkSound'
    <2>1. UNCHANGED <<kind, planned>>
      BY <1>2 DEF Send, Control, Plan, Takes, ReadPageFails, LookUp, Probe, ReadPage, Sign, Quietly,
                  Broadcast, message
    <2>2. ASSUME NEW d \in Calls PROVE Walked(try'[d])
      <3> DEFINE t == try[d]
                 s == try'[d]
      <3>1. t \in Try /\ Walked(t)
        BY DEF SendTypeOK, WalkSound
      <3>2. \A end \in {"refused", "threw", "sent"} : Walked(At(end))
        BY DEF Walked, At
      <3>3. CASE \E next \in 0..MaxPages, empty \in BOOLEAN : ReadPage(c, next, empty)
        BY <3>1, <3>2, <3>3, PageFields, PageSound
      <3>4. CASE Plan(c)
        <4>1. \/ s = t \/ s = At("threw")
              \/ /\ t.at = "plan" /\ s.at = (IF kind = "burn" THEN "pages" ELSE "sign")
                 /\ s.got = t.got /\ s.cursor = t.cursor /\ s.seen = t.seen /\ s.lied = t.lied
          BY <3>4, StepFields
        <4>2. ASSUME t.at = "plan", s.got = t.got, s.cursor = t.cursor, s.seen = t.seen, s.lied = t.lied,
                     s.at = (IF kind = "burn" THEN "pages" ELSE "sign")
              PROVE  Walked(s)
          <5>1. s.got = {} /\ s.cursor = 1 /\ s.seen = {}
            BY <3>1, <4>2 DEF Walked
          <5>2. IsFiniteSet(s.seen) /\ Cardinality(s.seen) < MaxPages
            BY <5>1, FS_EmptySet, SendAssumption
          <5>3. s.cursor \in 1..Pages /\ s.got = 1..(s.cursor - 1) /\ s.seen = 2..s.cursor
            BY <5>1, SendAssumption
          <5> QED
            BY <4>2, <5>2, <5>3 DEF Walked
        <4> QED
          BY <3>1, <3>2, <4>1, <4>2
      <3>5. ASSUME NEW where \in {"lookup", "control", "probe", "send", AfterPreflight},
                   t.at \in {"idle", "lookup", "control", "probe", "sign"}, SameWalk(t, s), s.at = where,
                   t.at = "sign" => s.at = "send"
            PROVE  Walked(s)
        BY <3>1, <3>5 DEF Walked, SameWalk, AfterPreflight
      <3>6. CASE ~Plan(c) /\ ~\E next \in 0..MaxPages, empty \in BOOLEAN : ReadPage(c, next, empty)
        <4>1. \/ s = t \/ \E end \in {"refused", "threw", "sent"} : s = At(end)
              \/ /\ t.at \in {"idle", "lookup", "control", "probe", "sign"} /\ SameWalk(t, s)
                 /\ s.at \in {"lookup", "control", "probe", "send", AfterPreflight}
                 /\ t.at = "sign" => s.at = "send"
          BY <1>2, <3>6, StepFields DEF Same
        <4> QED
          BY <3>1, <3>2, <3>5, <4>1
      <3> QED
        BY <3>3, <3>4, <3>6
    <2> QED
      BY <2>1, <2>2 DEF WalkSound, Walked, NeedsPlan
  <1> QED
    BY <1>1, <1>2, TryKinds

-----------------------------------------------------------------------------
(* The theorems.                                                           *)

\* The planner's invariant and that of the attempts are kept together.
LEMMA SendInvStep == PlannerInv /\ SendInv /\ [SendNext]_allVars => (PlannerInv /\ SendInv)'
  BY PlannerKept, SendTypeStep, SettledStep, LookUpStep, WalkStep DEF SendInv

LEMMA SendInvHolds == SendSpec => [](PlannerInv /\ SendInv)
  BY SendInitSound, SendInvStep, PTL DEF SendSpec

\* However many attempts share the planner of an RPC client, each is priced with a config that
\* was in force less than one Ttl before it asked, and a quiet invalidate() is final (read and
\* invalidate of FeePlanner).
THEOREM PlansStayFresh == SendSpec => []PricesHold
  <1>1. PlannerInv => PricesHold
    BY DEF PlannerInv, EpochsSound, ReadsSound, EntrySound, PriceFresh, PricesHold
  <1> QED
    BY <1>1, SendInvHolds, PTL

\* A settled message is executed once on a chain however often it is sent, over any number of
\* overlapping attempts and lost answers: no attempt changes its bytes (phantasma.ts:792).
THEOREM SettledIsSentOnce == SendSpec => []SentOnce
  <1>1. SendInv => SentOnce
    <2> SUFFICES ASSUME SendInv, planned, NEW h \in Hosts PROVE Cardinality(chain[h]) <= 1
      BY DEF SentOnce
    <2>1. chain[h] = {} \/ chain[h] = {<<Own, {}>>}
      BY DEF SendInv, SettledSound
    <2>2. CASE chain[h] = {}
      <3>1. Cardinality(chain[h]) = 0
        BY <2>2, FS_EmptySet
      <3> QED
        BY <3>1
    <2>3. CASE chain[h] = {<<Own, {}>>}
      <3> DEFINE e == <<Own, {}>>
      <3> HIDE DEF e
      <3>1. chain[h] = {e}
        BY <2>3 DEF e
      <3>2. Cardinality(chain[h]) = 1
        BY <3>1, FS_Singleton
      <3> QED
        BY <3>2
    <2> QED
      BY <2>1, <2>2, <2>3
  <1> QED
    BY <1>1, SendInvHolds, PTL

\* No attempt goes on from the pre-flight after the symbol was found taken or the control was
\* not answered (transaction-preflight.ts:99-112).
THEOREM PreflightIsHonest == SendSpec => []PreflightHonest
  <1>1. SendInv => PreflightHonest
    BY DEF SendInv, LookUpSound, PreflightHonest
  <1> QED
    BY <1>1, SendInvHolds, PTL

\* A walk over an honest node's pages has all of them, however many there are, and no node's
\* cursors keep one going (phantasma.ts:745).
THEOREM WalksAreWhole == SendSpec => []PagesWhole
  <1>1. SendInv => PagesWhole
    BY DEF SendInv, WalkSound, Walked, PagesWhole, Is
  <1> QED
    BY <1>1, SendInvHolds, PTL

=============================================================================
