----------------------------- MODULE RelayInbox -----------------------------
(***************************************************************************)
(* The incoming half of class RelayTransport                               *)
(* (src/src/link/v5/relay-transport.ts): the key hop of an ecdh pairing    *)
(* and the reassembly of chunked messages, fed by a relay that delivers    *)
(* in any order and more than once.  The outgoing half is RelayTransport;  *)
(* the two share the socket and no other state.                            *)
(*                                                                         *)
(* A chunk is known by its message, its place and the total it claims.     *)
(* Sizes are counted in chunks, time in whatever unit StaleAfter is.       *)
(***************************************************************************)
EXTENDS Naturals, FiniteSets

CONSTANTS
    Ids,          \* ids of chunked messages
    Total,        \* Total[m]: the number of chunks of message m
    WalletKeys,   \* keys a hop may carry
    BadKeys,      \* the ones among them no session key can be derived from
    Absent,       \* `undefined`
    MaxChunks,    \* MAX_CHUNKS_PER_MESSAGE
    MaxPartials,  \* MAX_CONCURRENT_PARTIALS
    MaxAssembled, \* maxAssembledBytes, in chunks
    StaleAfter,   \* PARTIAL_STALE_MS
    MaxTime       \* bound on the clock

ASSUME InboxAssumption ==
    /\ Absent \notin WalletKeys /\ Absent \notin [total: Nat, received: SUBSET Nat, touchedAt: Nat]
    /\ BadKeys \subseteq WalletKeys
    /\ {MaxChunks, MaxPartials, MaxAssembled, StaleAfter, MaxTime} \subseteq Nat
    /\ Total \in [Ids -> 1..MaxChunks]
    /\ IsFiniteSet(Ids)

VARIABLES
    now,           \* Date.now()
    walletKeySeen, \* RelayTransport.walletKeySeen
    sessionKey,    \* the wallet key the session key was derived from
    partials,      \* partials[m]: the assembly of m, or Absent
    arrived,       \* arrived[m]: chunks of m the relay has delivered so far
    forwarded,     \* messages handed to the session layer
    hopFrames,     \* hops whose embedded frame was handed to it
    spoilt         \* messages of which something was dropped

inboxVars == <<now, walletKeySeen, sessionKey, partials, arrived, forwarded, hopFrames, spoilt>>
chunkVars == <<partials, arrived, forwarded, spoilt>>
keyVars == <<walletKeySeen, sessionKey, hopFrames>>

Seqs == 0..(MaxChunks - 1)
Partial == [total: 1..MaxChunks, received: SUBSET Seqs, touchedAt: 0..MaxTime]
Chunk == [id: Ids, seq: Nat, total: Nat]
Open == {m \in Ids : partials[m] # Absent}

InboxTypeOK ==
    /\ now \in 0..MaxTime
    /\ walletKeySeen \in BOOLEAN
    /\ sessionKey \in WalletKeys \cup {Absent}
    /\ partials \in [Ids -> Partial \cup {Absent}]
    /\ arrived \in [Ids -> SUBSET Seqs]
    /\ forwarded \subseteq Ids
    /\ hopFrames \subseteq WalletKeys
    /\ spoilt \subseteq Ids

InboxInit ==
    /\ now = 0
    /\ walletKeySeen = FALSE
    /\ sessionKey = Absent
    /\ partials = [m \in Ids |-> Absent]
    /\ arrived = [m \in Ids |-> {}]
    /\ forwarded = {}
    /\ hopFrames = {}
    /\ spoilt = {}

-----------------------------------------------------------------------------
(* The key hop of handleRaw, with PhantasmaLink5.relayEcdh's onWalletKey.  *)

IsFirstHop == ~walletKeySeen

\* onWalletKey decodes the key and derives the session key, or throws.
Derives(k) == k \notin BadKeys

\* The first hop sets the key and forwards the frame embedded in it, if there is one; a hop
\* that carries no usable key throws out of the handler, after walletKeySeen was set.
DeliverKeyHop(k) ==
    /\ IsFirstHop
    /\ walletKeySeen' = TRUE
    /\ IF Derives(k)
       THEN /\ sessionKey' = k
            /\ hopFrames' \in {hopFrames, hopFrames \cup {k}}
       ELSE UNCHANGED <<sessionKey, hopFrames>>
    /\ UNCHANGED <<now, chunkVars>>

-----------------------------------------------------------------------------
(* acceptChunk.                                                            *)

WellFormed(c) == c.total \in 1..MaxChunks /\ c.seq < c.total

\* Assemblies nothing has reached for too long; they go before the chunk is looked at.
Stale == {m \in Open : now - partials[m].touchedAt > StaleAfter}
Kept == [m \in Ids |-> IF m \in Stale THEN Absent ELSE partials[m]]
KeptOpen == {m \in Ids : Kept[m] # Absent}

Fresh(c) == [total |-> c.total, received |-> {}, touchedAt |-> now]

\* Mutant: a new assembly is started whatever their number.
Refused_NoLimit(c) == FALSE

\* No new assembly is started when there are too many.
Refused(c) == c.id \notin KeptOpen /\ Cardinality(KeptOpen) >= MaxPartials

Assembly(c) == IF c.id \in KeptOpen THEN Kept[c.id] ELSE Fresh(c)

\* An inconsistent chunk, or one the assembly already has, is ignored.
Ignored(c) == Assembly(c).total # c.total \/ c.seq \in Assembly(c).received

WithChunk(c) ==
    [Assembly(c) EXCEPT !.received = @ \cup {c.seq}, !.touchedAt = now]

TooBig(c) == Cardinality(WithChunk(c).received) > MaxAssembled

\* Mutant: the last chunk is not waited for.
Complete_AtLast(c) == c.seq = c.total - 1

Complete(c) == Cardinality(WithChunk(c).received) = c.total

\* What acceptChunk leaves in the place of the chunk's message.
Outcome(c) ==
    IF Refused(c) THEN Absent
    ELSE IF Ignored(c) THEN Assembly(c)
    ELSE IF TooBig(c) \/ Complete(c) THEN Absent
    ELSE WithChunk(c)

Forwards(c) == ~Refused(c) /\ ~Ignored(c) /\ ~TooBig(c) /\ Complete(c)

\* Messages this chunk's arrival costs a chunk: the stale ones, and its own message when
\* it is refused, inconsistent or too big.
Spoils(c) ==
    Stale \cup (IF Refused(c) \/ Assembly(c).total # Total[c.id] \/ TooBig(c)
                   \/ c.total # Total[c.id]
                THEN {c.id} ELSE {})

DeliverChunk(c) ==
    /\ WellFormed(c)
    /\ partials' = [Kept EXCEPT ![c.id] = Outcome(c)]
    /\ forwarded' = IF Forwards(c) THEN forwarded \cup {c.id} ELSE forwarded
    /\ spoilt' = spoilt \cup Spoils(c)
    /\ arrived' = [arrived EXCEPT ![c.id] = @ \cup {c.seq}]
    /\ UNCHANGED <<now, keyVars>>

\* A chunk whose fields make no sense changes nothing.
DeliverMalformed(c) ==
    /\ ~WellFormed(c)
    /\ UNCHANGED inboxVars

InboxTick ==
    /\ now < MaxTime
    /\ now' = now + 1
    /\ UNCHANGED <<chunkVars, keyVars>>

\* What the relay may deliver: any chunk of any message, again and again, with the total
\* its sender gave it or with another one.
Chunks == {c \in [id: Ids, seq: 0..MaxChunks, total: 0..(MaxChunks + 1)] :
             c.total = Total[c.id] \/ c.seq = 0}

InboxNext ==
    \/ \E k \in WalletKeys : DeliverKeyHop(k)
    \/ \E c \in Chunks : DeliverChunk(c) \/ DeliverMalformed(c)
    \/ InboxTick

InboxSpec == InboxInit /\ [][InboxNext]_inboxVars

-----------------------------------------------------------------------------
(* Properties.                                                             *)

\* Nothing is handed over in part: a message none of whose chunks was dropped is forwarded
\* exactly when the last of its chunks has arrived, in whatever order they came.
WholeOrNothing ==
    \A m \in Ids \ spoilt : m \in forwarded <=> arrived[m] = 0..(Total[m] - 1)

\* However a peer mixes messages, totals and pauses, memory stays bounded, and what is
\* kept is never complete: a finished assembly gives its place back.
MemoryBounded ==
    /\ Cardinality(Open) <= MaxPartials
    /\ \A m \in Open :
         /\ Cardinality(partials[m].received) <= MaxAssembled
         /\ Cardinality(partials[m].received) < partials[m].total

-----------------------------------------------------------------------------
(* What holds between the parts, from which the invariants above follow.   *)

\* An assembly has only chunks of its message.
AssembliesSound == \A m \in Open : partials[m].received \subseteq 0..(partials[m].total - 1)

\* A message nothing of which was dropped is either forwarded and has arrived, or what has
\* arrived of it is in its assembly.  A repeated chunk of a forwarded message may start
\* another assembly.
ArrivedSound ==
    \A m \in Ids \ spoilt :
      /\ m \in Open => partials[m].total = Total[m]
      /\ m \in forwarded => arrived[m] = 0..(Total[m] - 1)
      /\ m \notin forwarded => arrived[m] = IF m \in Open THEN partials[m].received ELSE {}

InboxInv == InboxTypeOK /\ MemoryBounded /\ AssembliesSound /\ ArrivedSound
=============================================================================
