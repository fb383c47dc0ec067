------------------------- MODULE RelayInbox_proofs -------------------------
(* Theorems about the incoming half of the relay transport, for any number *)
(* of messages of any sizes and any limits.                                *)
EXTENDS RelayInbox, FiniteSetTheorems, TLAPS

PartialOrNone == Partial \cup {Absent}

LEMMA Bounds ==
  /\ MaxChunks \in Nat /\ MaxPartials \in Nat /\ MaxAssembled \in Nat /\ StaleAfter \in Nat
  /\ MaxTime \in Nat /\ Total \in [Ids -> 1..MaxChunks] /\ IsFiniteSet(Ids)
BY InboxAssumption

\* An assembly is not `undefined`.
LEMMA PartialIsSome == Absent \notin Partial
<1>1. Partial \subseteq [total: Nat, received: SUBSET Nat, touchedAt: Nat]
  <2>1. 1..MaxChunks \subseteq Nat /\ Seqs \subseteq Nat /\ 0..MaxTime \subseteq Nat
    BY Bounds DEF Seqs
  <2>. QED BY <2>1 DEF Partial
<1>. QED BY <1>1, InboxAssumption

\* The sweep removes assemblies and changes none.
LEMMA SweepFacts ==
  ASSUME InboxTypeOK
  PROVE  /\ Kept \in [Ids -> PartialOrNone]
         /\ Stale \subseteq Open /\ Open \subseteq Ids
         /\ KeptOpen = Open \ Stale
         /\ \A m \in KeptOpen : Kept[m] = partials[m] /\ Kept[m] \in Partial
         /\ \A m \in Ids \ KeptOpen : Kept[m] = Absent
BY DEF InboxTypeOK, Kept, KeptOpen, Stale, Open, PartialOrNone

\* What a chunk becomes a part of.
LEMMA AssemblyFacts ==
  ASSUME InboxTypeOK, NEW c \in Chunks, WellFormed(c)
  PROVE  /\ c.id \in Ids /\ c.total \in 1..MaxChunks /\ c.seq \in Seqs /\ c.seq \in 0..(c.total - 1)
         /\ Assembly(c) \in Partial /\ WithChunk(c) \in Partial
         /\ WithChunk(c).total = Assembly(c).total
         /\ WithChunk(c).received = Assembly(c).received \cup {c.seq}
         /\ c.id \notin KeptOpen => Assembly(c).total = c.total /\ Assembly(c).received = {}
         /\ c.id \in KeptOpen => Assembly(c) = partials[c.id]
<1>1. c.id \in Ids /\ c.total \in 1..MaxChunks /\ c.seq \in Nat /\ c.seq < c.total
  BY Bounds DEF Chunks, WellFormed
<1>2. c.seq \in Seqs /\ c.seq \in 0..(c.total - 1)
  BY <1>1, Bounds DEF Seqs
<1>3. Fresh(c) \in Partial /\ Fresh(c).total = c.total /\ Fresh(c).received = {}
  BY <1>1 DEF Fresh, Partial, InboxTypeOK
<1>4. Assembly(c) \in Partial
  BY <1>3, SweepFacts DEF Assembly
<1>5. /\ WithChunk(c) \in Partial
      /\ WithChunk(c).total = Assembly(c).total
      /\ WithChunk(c).received = Assembly(c).received \cup {c.seq}
  <2> DEFINE a == Assembly(c)
  <2>1. a \in Partial /\ now \in 0..MaxTime
    BY <1>4 DEF InboxTypeOK
  <2>2. WithChunk(c) = [a EXCEPT !.received = a.received \cup {c.seq}, !.touchedAt = now]
    BY DEF WithChunk
  <2> HIDE DEF a
  <2>3. /\ WithChunk(c) \in Partial
        /\ WithChunk(c).total = a.total
        /\ WithChunk(c).received = a.received \cup {c.seq}
    BY <1>2, <2>1, <2>2 DEF Partial
  <2>. QED BY <2>3 DEF a
<1>6. /\ c.id \notin KeptOpen => Assembly(c) = Fresh(c)
      /\ c.id \in KeptOpen => Assembly(c) = partials[c.id]
  BY SweepFacts DEF Assembly
<1>. QED BY <1>1, <1>2, <1>3, <1>4, <1>5, <1>6

LEMMA InitInbox == InboxInit => InboxInv
<1> SUFFICES ASSUME InboxInit PROVE InboxInv
  OBVIOUS
<1>1. InboxTypeOK
  <2>1. 0 \in 0..MaxTime
    BY Bounds
  <2>. QED BY <2>1 DEF InboxInit, InboxTypeOK
<1>2. Open = {} /\ Cardinality(Open) = 0
  BY FS_EmptySet DEF InboxInit, Open
<1>. QED BY <1>1, <1>2, Bounds DEF InboxInit, InboxInv, MemoryBounded, AssembliesSound, ArrivedSound

LEMMA TypeStep == InboxTypeOK /\ [InboxNext]_inboxVars => InboxTypeOK'
<1> SUFFICES ASSUME InboxTypeOK, [InboxNext]_inboxVars PROVE InboxTypeOK'
  OBVIOUS
<1> USE DEF chunkVars, keyVars
<1>1. ASSUME NEW k \in WalletKeys, DeliverKeyHop(k) PROVE InboxTypeOK'
  BY <1>1 DEF DeliverKeyHop, InboxTypeOK
<1>2. ASSUME NEW c \in Chunks, DeliverChunk(c) PROVE InboxTypeOK'
  <2>1. WellFormed(c)
    BY <1>2 DEF DeliverChunk
  <2>2. c.id \in Ids /\ c.seq \in Seqs /\ Assembly(c) \in Partial /\ WithChunk(c) \in Partial
    BY <2>1, AssemblyFacts
  <2>3. Outcome(c) \in PartialOrNone
    BY <2>2 DEF Outcome, PartialOrNone
  <2>4. Kept \in [Ids -> PartialOrNone] /\ Stale \subseteq Ids
    BY SweepFacts
  <2>5. partials' \in [Ids -> Partial \cup {Absent}]
    BY <1>2, <2>2, <2>3, <2>4 DEF DeliverChunk, PartialOrNone
  <2>6. Spoils(c) \subseteq Ids
    BY <2>2, <2>4 DEF Spoils
  <2>7. arrived' \in [Ids -> SUBSET Seqs]
    BY <1>2, <2>2 DEF DeliverChunk, InboxTypeOK
  <2>. QED BY <1>2, <2>2, <2>5, <2>6, <2>7 DEF DeliverChunk, InboxTypeOK
<1>3. ASSUME NEW c \in Chunks, DeliverMalformed(c) PROVE InboxTypeOK'
  BY <1>3 DEF DeliverMalformed, inboxVars, InboxTypeOK
<1>4. ASSUME InboxTick PROVE InboxTypeOK'
  BY <1>4, Bounds DEF InboxTick, InboxTypeOK
<1>5. ASSUME UNCHANGED inboxVars PROVE InboxTypeOK'
  BY <1>5 DEF inboxVars, InboxTypeOK
<1>. QED BY <1>1, <1>2, <1>3, <1>4, <1>5 DEF InboxNext

-----------------------------------------------------------------------------
(* A chunk arrives.                                                        *)

\* The chunks of an assembly are finitely many, and as many as its total only when they are
\* all of them.
LEMMA CountChunks ==
  ASSUME NEW t \in Nat \ {0}, NEW S \in SUBSET (0..(t - 1))
  PROVE  /\ IsFiniteSet(S) /\ Cardinality(S) \in Nat /\ Cardinality(S) <= t
         /\ Cardinality(S) = t => S = 0..(t - 1)
<1>1. IsFiniteSet(0..(t - 1)) /\ Cardinality(0..(t - 1)) = t
  <2>1. 0 \in Int /\ t - 1 \in Int /\ ~(0 > t - 1) /\ (t - 1) - 0 + 1 = t
    OBVIOUS
  <2>. QED BY <2>1, FS_Interval
<1>. QED BY <1>1, FS_Subset, FS_CardinalityType

\* With the chunk, an assembly still has only chunks of its message.
LEMMA WithChunkFacts ==
  ASSUME InboxTypeOK, AssembliesSound, NEW c \in Chunks, WellFormed(c), ~Ignored(c)
  PROVE  /\ Assembly(c).total = c.total /\ c.seq \notin Assembly(c).received
         /\ WithChunk(c).received \subseteq 0..(c.total - 1)
         /\ Cardinality(WithChunk(c).received) \in Nat
         /\ Cardinality(WithChunk(c).received) <= c.total
         /\ Complete(c) => WithChunk(c).received = 0..(c.total - 1)
<1>1. Assembly(c).total = c.total /\ c.seq \notin Assembly(c).received
  BY DEF Ignored
<1>2. Assembly(c).received \subseteq 0..(c.total - 1)
  BY <1>1, AssemblyFacts, SweepFacts DEF AssembliesSound
<1>3. WithChunk(c).received \subseteq 0..(c.total - 1)
  BY <1>2, AssemblyFacts
<1>4. c.total \in Nat \ {0}
  <2>1. c.total \in 1..MaxChunks
    BY AssemblyFacts
  <2>. QED BY <2>1, Bounds
<1>. QED BY <1>1, <1>3, <1>4, CountChunks DEF Complete

\* What acceptChunk leaves of the chunk's message: nothing, what there was, or one more chunk.
LEMMA OutcomeKinds ==
  ASSUME InboxTypeOK, AssembliesSound, NEW c \in Chunks, WellFormed(c), Outcome(c) # Absent
  PROVE  /\ ~Refused(c)
         /\ \/ /\ Ignored(c) /\ c.id \in KeptOpen
               /\ Outcome(c) = partials[c.id] /\ Outcome(c) = Assembly(c)
            \/ /\ ~Ignored(c) /\ ~TooBig(c) /\ ~Complete(c)
               /\ Outcome(c) = WithChunk(c)
<1>1. CASE Ignored(c)
  <2>1. c.id \in KeptOpen
    BY <1>1, AssemblyFacts DEF Ignored
  <2>. QED BY <1>1, <2>1, AssemblyFacts DEF Outcome
<1>2. CASE ~Ignored(c)
  BY <1>2 DEF Outcome
<1>. QED BY <1>1, <1>2

LEMMA ChunkStep ==
  ASSUME InboxInv, NEW c \in Chunks, DeliverChunk(c)
  PROVE  MemoryBounded' /\ AssembliesSound' /\ ArrivedSound'
<1>1. InboxTypeOK /\ MemoryBounded /\ AssembliesSound /\ ArrivedSound /\ WellFormed(c)
  BY DEF InboxInv, DeliverChunk
<1>2. /\ Kept \in [Ids -> PartialOrNone] /\ Stale \subseteq Open /\ Open \subseteq Ids
      /\ KeptOpen = Open \ Stale
      /\ \A m \in KeptOpen : Kept[m] = partials[m] /\ Kept[m] \in Partial
      /\ \A m \in Ids \ KeptOpen : Kept[m] = Absent
  BY <1>1, SweepFacts
<1>3. /\ c.id \in Ids /\ c.total \in 1..MaxChunks /\ c.seq \in Seqs /\ c.seq \in 0..(c.total - 1)
      /\ Assembly(c) \in Partial /\ WithChunk(c) \in Partial
      /\ WithChunk(c).total = Assembly(c).total
      /\ WithChunk(c).received = Assembly(c).received \cup {c.seq}
      /\ c.id \notin KeptOpen => Assembly(c).total = c.total /\ Assembly(c).received = {}
      /\ c.id \in KeptOpen => Assembly(c) = partials[c.id]
  BY <1>1, AssemblyFacts
<1>4. \A m \in Ids : partials'[m] = IF m = c.id THEN Outcome(c) ELSE Kept[m]
  BY <1>2, <1>3 DEF DeliverChunk
<1>5. Open' = {m \in Ids : partials'[m] # Absent}
  BY DEF Open
<1>6. \A m \in Ids : m # c.id => /\ m \in Open' <=> m \in KeptOpen
                                 /\ m \in KeptOpen => partials'[m] = partials[m] /\ m \in Open
  BY <1>2, <1>4, <1>5, PartialIsSome
<1>7. c.id \in Open' => /\ ~Refused(c)
                        /\ \/ /\ Ignored(c) /\ c.id \in KeptOpen /\ c.id \in Open
                              /\ partials'[c.id] = partials[c.id] /\ partials'[c.id] = Assembly(c)
                           \/ /\ ~Ignored(c) /\ ~TooBig(c) /\ ~Complete(c)
                              /\ partials'[c.id] = WithChunk(c)
  <2> SUFFICES ASSUME c.id \in Open'
               PROVE  /\ ~Refused(c)
                      /\ \/ /\ Ignored(c) /\ c.id \in KeptOpen /\ c.id \in Open
                            /\ partials'[c.id] = partials[c.id] /\ partials'[c.id] = Assembly(c)
                         \/ /\ ~Ignored(c) /\ ~TooBig(c) /\ ~Complete(c)
                            /\ partials'[c.id] = WithChunk(c)
    OBVIOUS
  <2>1. partials'[c.id] = Outcome(c) /\ Outcome(c) # Absent
    BY <1>3, <1>4, <1>5
  <2>. QED BY <1>1, <1>2, <2>1, OutcomeKinds
<1>8. MemoryBounded'
  <2>1. Cardinality(Open') <= MaxPartials
    <3>1. IsFiniteSet(Open) /\ IsFiniteSet(KeptOpen) /\ IsFiniteSet(KeptOpen \cup {c.id})
      BY <1>2, <1>3, Bounds, FS_Subset, FS_AddElement
    <3>2. Cardinality(KeptOpen) <= Cardinality(Open) /\ Cardinality(Open) <= MaxPartials
      BY <1>1, <1>2, <3>1, FS_Subset DEF MemoryBounded
    <3>3. Cardinality(KeptOpen) \in Nat /\ Cardinality(Open) \in Nat
      BY <3>1, FS_CardinalityType
    <3>4. CASE Open' \subseteq KeptOpen
      <4>1. Cardinality(Open') <= Cardinality(KeptOpen) /\ Cardinality(Open') \in Nat
        BY <3>1, <3>4, FS_Subset, FS_CardinalityType
      <4>. QED BY <3>2, <3>3, <4>1, Bounds
    <3>5. CASE ~(Open' \subseteq KeptOpen)
      <4>1. c.id \in Open' /\ c.id \notin KeptOpen
        BY <1>5, <1>6, <3>5
      <4>2. ~(Cardinality(KeptOpen) >= MaxPartials)
        BY <1>7, <4>1 DEF Refused
      <4>3. Open' \subseteq KeptOpen \cup {c.id}
        BY <1>5, <1>6
      <4>4. Cardinality(KeptOpen \cup {c.id}) = Cardinality(KeptOpen) + 1
        BY <3>1, <4>1, FS_AddElement
      <4>5. Cardinality(Open') <= Cardinality(KeptOpen \cup {c.id}) /\ Cardinality(Open') \in Nat
        BY <3>1, <4>3, FS_Subset, FS_CardinalityType
      <4>. QED BY <3>3, <4>2, <4>4, <4>5, Bounds
    <3>. QED BY <3>4, <3>5
  <2>2. ASSUME NEW m \in Open'
        PROVE  /\ Cardinality(partials'[m].received) <= MaxAssembled
               /\ Cardinality(partials'[m].received) < partials'[m].total
    <3>1. CASE m \in Open /\ partials'[m] = partials[m]
      BY <1>1, <3>1 DEF MemoryBounded
    <3>2. CASE m = c.id /\ ~Ignored(c) /\ ~TooBig(c) /\ ~Complete(c) /\ partials'[m] = WithChunk(c)
      <4>1. /\ Assembly(c).total = c.total
            /\ Cardinality(WithChunk(c).received) \in Nat
            /\ Cardinality(WithChunk(c).received) <= c.total
        BY <1>1, <3>2, WithChunkFacts
      <4>2. c.total \in Nat
        BY <1>3, Bounds
      <4>3. /\ ~(Cardinality(WithChunk(c).received) > MaxAssembled)
            /\ Cardinality(WithChunk(c).received) # c.total
        BY <3>2 DEF TooBig, Complete
      <4>4. /\ Cardinality(WithChunk(c).received) <= MaxAssembled
            /\ Cardinality(WithChunk(c).received) < c.total
        BY <4>1, <4>2, <4>3, Bounds
      <4>. QED BY <1>3, <3>2, <4>1, <4>4
    <3>. QED BY <1>5, <1>6, <1>7, <3>1, <3>2
  <2>. QED BY <2>1, <2>2 DEF MemoryBounded
<1>9. AssembliesSound'
  <2> SUFFICES ASSUME NEW m \in Open'
               PROVE  partials'[m].received \subseteq 0..(partials'[m].total - 1)
    BY DEF AssembliesSound
  <2>1. CASE m \in Open /\ partials'[m] = partials[m]
    BY <1>1, <2>1 DEF AssembliesSound
  <2>2. CASE m = c.id /\ ~Ignored(c) /\ partials'[m] = WithChunk(c)
    BY <1>1, <1>3, <2>2, WithChunkFacts
  <2>. QED BY <1>5, <1>6, <1>7, <2>1, <2>2
<1>10. ArrivedSound'
  <2>0. /\ \A m \in Ids : arrived'[m] = IF m = c.id THEN arrived[m] \cup {c.seq} ELSE arrived[m]
        /\ forwarded' = IF Forwards(c) THEN forwarded \cup {c.id} ELSE forwarded
        /\ spoilt' = spoilt \cup Spoils(c)
    BY <1>1 DEF DeliverChunk, InboxTypeOK
  <2>1. ASSUME NEW m \in Ids \ spoilt', m # c.id
        PROVE  /\ m \in Open' => partials'[m].total = Total[m]
               /\ m \in forwarded' => arrived'[m] = 0..(Total[m] - 1)
               /\ m \notin forwarded' => arrived'[m] = IF m \in Open' THEN partials'[m].received ELSE {}
    <3>1. m \notin spoilt /\ m \notin Stale
      BY <2>0, <2>1 DEF Spoils
    <3>2. (m \in Open' <=> m \in Open) /\ (m \in Open => partials'[m] = partials[m])
      BY <1>2, <1>6, <2>1, <3>1
    <3>3. arrived'[m] = arrived[m] /\ (m \in forwarded' <=> m \in forwarded)
      BY <2>0, <2>1
    <3>. QED BY <1>1, <3>1, <3>2, <3>3 DEF ArrivedSound
  <2>2. ASSUME c.id \notin spoilt'
        PROVE  LET m == c.id IN
               /\ m \in Open' => partials'[m].total = Total[m]
               /\ m \in forwarded' => arrived'[m] = 0..(Total[m] - 1)
               /\ m \notin forwarded' => arrived'[m] = IF m \in Open' THEN partials'[m].received ELSE {}
    <3> DEFINE m == c.id
    <3>1. /\ m \notin spoilt /\ m \notin Stale /\ ~Refused(c) /\ ~TooBig(c)
          /\ Assembly(c).total = Total[m] /\ c.total = Total[m]
      BY <2>0, <2>2 DEF Spoils
    <3>2. m \in KeptOpen <=> m \in Open
      BY <1>2, <3>1
    <3>3. m \in Open' => partials'[m].total = Total[m]
      BY <1>3, <1>7, <3>1
    <3>4. CASE m \in forwarded
      <4>1. m \in forwarded' /\ arrived[m] = 0..(Total[m] - 1)
        BY <1>1, <1>3, <2>0, <3>1, <3>4 DEF ArrivedSound
      <4>2. arrived'[m] = 0..(Total[m] - 1)
        BY <1>3, <2>0, <3>1, <4>1
      <4>. QED BY <3>3, <4>1, <4>2
    <3>5. CASE m \notin forwarded
      <4>1. arrived[m] = Assembly(c).received
        BY <1>1, <1>3, <3>1, <3>2, <3>5 DEF ArrivedSound
      <4>2. arrived'[m] = WithChunk(c).received
        BY <1>3, <2>0, <4>1
      <4>3. CASE Ignored(c)
        <5>1. c.seq \in Assembly(c).received /\ Outcome(c) = Assembly(c)
          BY <3>1, <4>3 DEF Ignored, Outcome
        <5>2. m \in Open' /\ partials'[m] = Assembly(c)
          BY <1>3, <1>4, <1>5, <5>1, PartialIsSome
        <5>3. m \notin forwarded'
          BY <2>0, <3>5, <4>3 DEF Forwards
        <5>4. arrived'[m] = Assembly(c).received
          BY <1>3, <4>2, <5>1
        <5>. QED BY <3>3, <5>2, <5>3, <5>4
      <4>4. CASE ~Ignored(c) /\ Complete(c)
        <5>1. m \in forwarded'
          BY <2>0, <3>1, <4>4 DEF Forwards
        <5>2. arrived'[m] = 0..(Total[m] - 1)
          BY <1>1, <3>1, <4>2, <4>4, WithChunkFacts
        <5>. QED BY <3>3, <5>1, <5>2
      <4>5. CASE ~Ignored(c) /\ ~Complete(c)
        <5>1. Outcome(c) = WithChunk(c)
          BY <3>1, <4>5 DEF Outcome
        <5>2. m \in Open' /\ partials'[m] = WithChunk(c)
          BY <1>3, <1>4, <1>5, <5>1, PartialIsSome
        <5>3. m \notin forwarded'
          BY <2>0, <3>5, <4>5 DEF Forwards
        <5>. QED BY <3>3, <4>2, <5>2, <5>3
      <4>. QED BY <4>3, <4>4, <4>5
    <3>. QED BY <3>4, <3>5
  <2>. QED BY <2>1, <2>2 DEF ArrivedSound
<1>. QED BY <1>8, <1>9, <1>10

-----------------------------------------------------------------------------
(* The theorems.                                                           *)

LEMMA InboxStep == InboxInv /\ [InboxNext]_inboxVars => InboxInv'
<1> SUFFICES ASSUME InboxInv, [InboxNext]_inboxVars PROVE InboxInv'
  OBVIOUS
<1>1. InboxTypeOK'
  BY TypeStep DEF InboxInv
<1>2. CASE UNCHANGED <<partials, arrived, forwarded, spoilt>>
  <2>1. Open' = Open
    BY <1>2 DEF Open
  <2>. QED BY <1>1, <1>2, <2>1 DEF InboxInv, MemoryBounded, AssembliesSound, ArrivedSound
<1>3. ASSUME NEW c \in Chunks, DeliverChunk(c) PROVE InboxInv'
  BY <1>1, <1>3, ChunkStep DEF InboxInv
<1>4. \/ UNCHANGED <<partials, arrived, forwarded, spoilt>>
      \/ \E c \in Chunks : DeliverChunk(c)
  BY DEF InboxNext, DeliverKeyHop, DeliverMalformed, InboxTick, inboxVars, chunkVars, keyVars
<1>. QED BY <1>2, <1>3, <1>4

\* Whatever a peer sends and in whatever order, the invariant of the inbox holds.
THEOREM InboxSound == InboxSpec => []InboxInv
BY InitInbox, InboxStep, PTL DEF InboxSpec

\* A message none of whose chunks was dropped is forwarded exactly when all have arrived.
THEOREM ForwardedWhole == InboxSpec => []WholeOrNothing
<1>1. InboxInv => WholeOrNothing
  <2> SUFFICES ASSUME InboxInv, NEW m \in Ids \ spoilt
               PROVE  m \in forwarded <=> arrived[m] = 0..(Total[m] - 1)
    BY DEF WholeOrNothing
  <2>1. m \in forwarded => arrived[m] = 0..(Total[m] - 1)
    BY DEF InboxInv, ArrivedSound
  <2>2. Total[m] \in Nat \ {0} /\ 0 \in 0..(Total[m] - 1)
    BY Bounds
  <2>3. ASSUME m \notin forwarded, arrived[m] = 0..(Total[m] - 1) PROVE FALSE
    <3>1. m \in Open /\ partials[m].total = Total[m] /\ partials[m].received = 0..(Total[m] - 1)
      BY <2>2, <2>3 DEF InboxInv, ArrivedSound
    <3>2. Cardinality(partials[m].received) < Total[m]
      BY <3>1 DEF InboxInv, MemoryBounded
    <3>3. Cardinality(0..(Total[m] - 1)) = Total[m]
      <4>1. 0 \in Int /\ Total[m] - 1 \in Int /\ ~(0 > Total[m] - 1) /\ (Total[m] - 1) - 0 + 1 = Total[m]
        BY <2>2
      <4>. QED BY <4>1, FS_Interval
    <3>. QED BY <2>2, <3>1, <3>2, <3>3
  <2>. QED BY <2>1, <2>3
<1>. QED BY <1>1, InboxSound, PTL

\* Memory stays bounded, and no complete assembly is kept.
THEOREM InboxBounded == InboxSpec => []MemoryBounded
<1>1. InboxInv => MemoryBounded
  BY DEF InboxInv
<1>. QED BY <1>1, InboxSound, PTL
=============================================================================
