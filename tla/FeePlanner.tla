----------------------------- MODULE FeePlanner -----------------------------
(***************************************************************************)
(* The gas-config cache of class FeePlanner (src/src/rpc/fee-planner.ts),  *)
(* as the PhantasmaAPI that owns it uses it: several plans run at once,    *)
(* each suspended in getGasConfig() while prices change on the chain, the  *)
(* clock moves, the application invalidates the cache, and the host the    *)
(* API talks to is switched.                                               *)
(*                                                                         *)
(* A price is the number of the governance resolution that set it.  Time   *)
(* is counted in whatever unit Ttl is.                                     *)
(***************************************************************************)
EXTENDS Naturals

CONSTANTS
    Calls,       \* calls of plan(), config() or chainParams()
    Hosts,       \* the nodes the API may talk to, each of its own chain
    None,        \* `undefined`
    Ttl,         \* configTtlMs
    HostMoves,   \* setRpcHost, setRpcByName or the ping of the peers moves the host
    MaxTime,     \* bound on the clock
    MaxPrice     \* bound on the number of resolutions per chain

ASSUME PlannerAssumption ==
    /\ None \notin Calls \cup Hosts
    /\ Ttl \in Nat /\ MaxTime \in Nat /\ MaxPrice \in Nat
    /\ HostMoves \in BOOLEAN

VARIABLES
    now,      \* Date.now()
    host,     \* PhantasmaAPI.host
    price,    \* price[h]: the resolution in force on the chain of h
    endedAt,  \* endedAt[h][p]: when price p went out of force there
    cached,   \* FeePlanner.cached
    call,     \* call[c]: where that call stands
    epoch,    \* how many times the cache has been invalidated
    quietAt   \* the last of these made while no read was under way

vars == <<now, host, price, endedAt, cached, call, epoch, quietAt>>
chainVars == <<price, endedAt>>

Times == 0..MaxTime
Prices == 0..MaxPrice

\* What a read stores and returns; `epoch` counts the invalidations that came before
\* the node gave the price.
Entry == [host: Hosts, price: Prices, fetchedAt: Times, epoch: Nat]

\* idle -> asked -> answered -> done | failed; a cache hit goes straight to done.
Call ==
    [at: {"idle", "failed"}]
    \cup [at: {"asked"}, refresh: BOOLEAN, start: Times, host: Hosts]
    \cup [at: {"answered"}, refresh: BOOLEAN, start: Times, host: Hosts,
          price: Prices, epoch: Nat]
    \cup [at: {"done"}, refresh: BOOLEAN, start: Times, host: Hosts, entry: Entry]

TypeOK ==
    /\ now \in Times
    /\ host \in Hosts
    /\ price \in [Hosts -> Prices]
    /\ endedAt \in [Hosts -> [Prices -> Times]]
    /\ cached \in Entry \cup {None}
    /\ call \in [Calls -> Call]
    /\ epoch \in Nat
    /\ quietAt \in Nat

Init ==
    /\ now = 0
    /\ host \in Hosts
    /\ price = [h \in Hosts |-> 0]
    /\ endedAt = [h \in Hosts |-> [p \in Prices |-> 0]]
    /\ cached = None
    /\ call = [c \in Calls |-> [at |-> "idle"]]
    /\ epoch = 0
    /\ quietAt = 0

-----------------------------------------------------------------------------
(* read(): the part before the await, and the part after it.               *)

\* The cached entry may be served.
Fresh(refresh) ==
    /\ ~refresh
    /\ cached # None
    /\ now < cached.fetchedAt + Ttl

Reading == {c \in Calls : call[c].at \in {"asked", "answered"}}

Asked(refresh) == [at |-> "asked", refresh |-> refresh, start |-> now, host |-> host]

Done(c, e) ==
    [at |-> "done", refresh |-> c.refresh, start |-> c.start, host |-> c.host, entry |-> e]

\* A cache hit returns in the same turn.
ServeCached(c, refresh) ==
    /\ call[c].at = "idle"
    /\ Fresh(refresh)
    /\ call' = [call EXCEPT ![c] = Done(Asked(refresh), cached)]
    /\ UNCHANGED <<now, host, chainVars, cached, epoch, quietAt>>

\* Otherwise the node is asked, at the host of this moment.
AskNode(c, refresh) ==
    /\ call[c].at = "idle"
    /\ ~Fresh(refresh)
    /\ call' = [call EXCEPT ![c] = Asked(refresh)]
    /\ UNCHANGED <<now, host, chainVars, cached, epoch, quietAt>>

\* Mutant: the entry is stamped when the answer arrives.
FetchedAt_OnArrival(c) == now

\* The entry is stamped with the time its read began.
FetchedAt(c) == call[c].start

\* The answer arrives: it replaces whatever is cached by then.
LandAnswer(c) ==
    /\ call[c].at = "answered"
    /\ LET e == [host |-> call[c].host, price |-> call[c].price,
                 fetchedAt |-> FetchedAt(c), epoch |-> call[c].epoch]
       IN /\ cached' = e
          /\ call' = [call EXCEPT ![c] = Done(@, e)]
    /\ UNCHANGED <<now, host, chainVars, epoch, quietAt>>

\* getGasConfig rejects, or its answer is not a gas config: the call fails and the cache
\* keeps what it had.
ReadFails(c) ==
    /\ c \in Reading
    /\ call' = [call EXCEPT ![c] = [at |-> "failed"]]
    /\ UNCHANGED <<now, host, chainVars, cached, epoch, quietAt>>

-----------------------------------------------------------------------------
(* The rest of the planner, and what the API does to its host.             *)

\* Mutant: the cache is kept.
Invalidate_KeepsCache ==
    /\ epoch < MaxPrice
    /\ epoch' = epoch + 1
    /\ quietAt' = IF Reading = {} THEN epoch + 1 ELSE quietAt
    /\ UNCHANGED <<now, host, chainVars, cached, call>>

\* invalidate(); the bound is MaxPrice, as there is a reason to call it at each price.
Invalidate ==
    /\ epoch < MaxPrice
    /\ epoch' = epoch + 1
    /\ quietAt' = IF Reading = {} THEN epoch + 1 ELSE quietAt
    /\ cached' = None
    /\ UNCHANGED <<now, host, chainVars, call>>

\* setRpcHost, setRpcByName and updateRpc assign the host and leave the planner alone.
SetRpcHost(h) ==
    /\ HostMoves
    /\ h # host
    /\ host' = h
    /\ UNCHANGED <<now, chainVars, cached, call, epoch, quietAt>>

-----------------------------------------------------------------------------
(* The node, the chain and the clock: external.                            *)

\* The node the call was made to answers with the price in force.
NodeAnswers(c) ==
    /\ call[c].at = "asked"
    /\ call' = [call EXCEPT ![c] =
                   [at |-> "answered", refresh |-> @.refresh, start |-> @.start,
                    host |-> @.host, price |-> price[@.host], epoch |-> epoch]]
    /\ UNCHANGED <<now, host, chainVars, cached, epoch, quietAt>>

\* A governance resolution changes the price.
ChangePrice(h) ==
    /\ price[h] < MaxPrice
    /\ price' = [price EXCEPT ![h] = @ + 1]
    /\ endedAt' = [endedAt EXCEPT ![h][price[h]] = now]
    /\ UNCHANGED <<now, host, cached, call, epoch, quietAt>>

Tick ==
    /\ now < MaxTime
    /\ now' = now + 1
    /\ UNCHANGED <<host, chainVars, cached, call, epoch, quietAt>>

Next ==
    \/ \E c \in Calls :
         \/ \E refresh \in BOOLEAN : ServeCached(c, refresh) \/ AskNode(c, refresh)
         \/ NodeAnswers(c)
         \/ LandAnswer(c)
         \/ ReadFails(c)
    \/ \E h \in Hosts : SetRpcHost(h) \/ ChangePrice(h)
    \/ Invalidate
    \/ Tick

Spec == Init /\ [][Next]_vars

-----------------------------------------------------------------------------
(* Properties.                                                             *)

\* Price p of the chain of h was in force at time t or later.
InForceSince(h, p, t) == p = price[h] \/ endedAt[h][p] >= t

CallsFresh ==
    \A c \in Calls :
        call[c].at = "done" =>
            LET e == call[c].entry IN
              /\ call[c].start < e.fetchedAt + Ttl \/ call[c].start = e.fetchedAt
              /\ InForceSince(e.host, e.price, e.fetchedAt)
              /\ call[c].refresh => InForceSince(e.host, e.price, call[c].start)

\* However reads overlap and land, a plan is priced with a config that was in force less
\* than one Ttl before the plan began; with refreshConfig, one in force since it began;
\* and the cache never claims to be younger than its price.
PriceFresh ==
    /\ CallsFresh
    /\ cached # None => InForceSince(cached.host, cached.price, cached.fetchedAt)

\* After an invalidate() that came while no read was under way, the cache never again
\* holds a price from before it.
IdleInvalidateHolds == cached # None => cached.epoch >= quietAt

\* Both, which is what a caller of plan() may count on: no plan is dearer in age than one
\* Ttl, and an invalidate() that no read was racing is never undone by one.
PricesHold == PriceFresh /\ IdleInvalidateHolds

\* What makes both inductive: what is stored, under way or returned has a price that was
\* in force when its read began or later, and no read is older than a quiet invalidation.
EntrySound(e) == e.fetchedAt <= now /\ InForceSince(e.host, e.price, e.fetchedAt)

ReadsSound ==
    /\ cached # None => EntrySound(cached)
    /\ \A c \in Calls :
         /\ call[c].at \notin {"idle", "failed"} => call[c].start <= now
         /\ call[c].at = "answered" =>
              InForceSince(call[c].host, call[c].price, call[c].start)
         /\ call[c].at = "done" => EntrySound(call[c].entry)

EpochsSound ==
    /\ quietAt <= epoch
    /\ IdleInvalidateHolds
    /\ \A c \in Calls : call[c].at = "answered" => call[c].epoch >= quietAt

PlannerInv == TypeOK /\ ReadsSound /\ EpochsSound /\ CallsFresh
=============================================================================
