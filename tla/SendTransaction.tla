--------------------------- MODULE SendTransaction ---------------------------
(***************************************************************************)
(* PhantasmaAPI.sendTransaction (src/src/rpc/phantasma.ts) over the        *)
(* planner of FeePlanner: the pre-flight of a token creation               *)
(* (transaction-preflight.ts), the plan, what a burned NFT holds           *)
(* (readAllPages), the signatures and the broadcast, each of them an await *)
(* in which the host may move, prices change and symbols be taken.         *)
(*                                                                         *)
(* Every attempt sends the one same message: an application that got no    *)
(* answer tries again, and may do so while the first attempt is under way. *)
(* A call of FeePlanner is the attempt that makes it.                      *)
(***************************************************************************)
EXTENDS FeePlanner, FiniteSets

CONSTANTS
    Pages,       \* how many pages a list has
    MaxPages     \* 1000: how many readAllPages() asks for

ASSUME SendAssumption == Pages \in Nat \ {0} /\ MaxPages \in Nat /\ Pages <= MaxPages

Kinds == {"create", "burn", "other"}

VARIABLES
    kind, planned, preflight,   \* fixed: what the message does; maxGas # 0n; the option,
                                \* for a creation
    try,       \* try[c]: what the attempt awaits, and what it has learnt
    chain      \* chain[h]: what the chain of h took of a message that the caller planned

message == <<kind, planned, preflight>>
plannerVars == <<now, host, price, endedAt, cached, epoch, quietAt>>
sendVars == <<message, try, chain>>
allVars == <<vars, sendVars>>

\* Mutant: what the caller planned is planned again.
NeedsPlan_Always == TRUE

NeedsPlan == ~planned

\* What follows the pre-flight.
AfterPreflight == IF NeedsPlan THEN "plan" ELSE "sign"

Own == [host |-> None, price |-> 0]     \* the prices are the caller's affair

\* What the node said of the symbol, where readAllPages() is, and the prices of the offer.
At(where) ==
    [at |-> where, symbol |-> "unasked", offer |-> Own,
     got |-> {}, cursor |-> 1, seen |-> {}, lied |-> FALSE]

SendInit ==
    /\ Init
    /\ kind \in Kinds
    /\ planned \in BOOLEAN
    /\ preflight \in (IF kind = "create" THEN BOOLEAN ELSE {FALSE})
    /\ try = [c \in Calls |-> At("idle")]
    /\ chain = [h \in Hosts |-> {}]

Is(c, where) == try[c].at = where
Becomes(c, t) == try' = [try EXCEPT ![c] = t]
Goes(c, where) == Becomes(c, [try[c] EXCEPT !.at = where])
Ends(c, how) == Becomes(c, At(how))

Quietly == UNCHANGED <<vars, message, chain>>

\* Awaits something of the planner, which is idle for this attempt afterwards.
Takes(c) ==
    /\ call[c].at \in {"done", "failed"}
    /\ call' = [call EXCEPT ![c] = [at |-> "idle"]]
    /\ UNCHANGED <<plannerVars, message, chain>>

Send(c) ==
    /\ Is(c, "idle")
    /\ Goes(c, IF preflight THEN "lookup" ELSE AfterPreflight)
    /\ Quietly

-----------------------------------------------------------------------------
(* preflightTransaction().                                                 *)

\* getToken(symbol): the node returns the token, says that there is none, or does not answer.
\* An error does not tell which of the last two it was.
LookUp(c, answer) ==
    /\ Is(c, "lookup")
    /\ IF answer = "token"
       THEN Ends(c, "refused")
       ELSE Becomes(c, [try[c] EXCEPT !.at = "control", !.symbol = answer])
    /\ Quietly

\* controlTokenId(): the id of the gas token, from the planner's cache or the node.
Control(c) ==
    /\ Is(c, "control") /\ Takes(c)
    /\ IF call[c].at = "done" THEN Goes(c, "probe") ELSE Ends(c, "refused")

\* Mutant: a refused symbol is a free one, whatever the control says.
Verdict_Free(served) == "free"

Verdict(served) == IF served THEN "free" ELSE "unknown"

\* getToken('', false, control).
Probe(c, served) ==
    /\ Is(c, "probe")
    /\ IF Verdict(served) = "free"
       THEN Becomes(c, [try[c] EXCEPT !.at = AfterPreflight,
                                      !.symbol = IF served THEN @ ELSE "unserved"])
       ELSE Ends(c, "refused")
    /\ Quietly

-----------------------------------------------------------------------------
(* fees.plan().                                                            *)

\* The planner's own turns, for the attempts that wait for it; only the plan may ask for a
\* fresh config.
Planner(c) ==
    /\ \/ /\ try[c].at \in {"control", "plan"}
          /\ \E refresh \in BOOLEAN :
                /\ refresh => Is(c, "plan")
                /\ ServeCached(c, refresh) \/ AskNode(c, refresh)
       \/ NodeAnswers(c) \/ LandAnswer(c) \/ ReadFails(c)
    /\ UNCHANGED sendVars

\* plan() has its config.  A burn asks for what the NFT holds before it is priced.
Plan(c) ==
    /\ Is(c, "plan") /\ Takes(c)
    /\ IF call[c].at = "failed"
       THEN Ends(c, "threw")
       ELSE Becomes(c, [try[c] EXCEPT !.at = IF kind = "burn" THEN "pages" ELSE "sign",
                          !.offer = [host |-> call[c].entry.host, price |-> call[c].entry.price]])

\* Mutant: an empty page is taken for the last one.
Stops_AtEmptyPage(c, next, empty) == next = 0 \/ next \in try[c].seen \/ empty

\* No cursor, which is 0 here, or one that was seen before.
Stops(c, next, empty) == next = 0 \/ next \in try[c].seen

\* What an honest node has after page i.
CursorAfter(i) == IF i < Pages THEN i + 1 ELSE 0

\* One page arrives, with the cursor of the next.
ReadPage(c, next, empty) ==
    LET t == [try[c] EXCEPT !.got = @ \cup {try[c].cursor}, !.cursor = next,
                            !.seen = @ \cup {next},
                            !.lied = @ \/ next # CursorAfter(try[c].cursor)]
    IN  /\ Is(c, "pages")
        /\ CASE Stops(c, next, empty) -> Becomes(c, [t EXCEPT !.at = "sign"])
             [] ~Stops(c, next, empty) /\ Cardinality(t.seen) = MaxPages -> Ends(c, "threw")
             [] OTHER -> Becomes(c, t)
        /\ Quietly

\* A page, a token or a balance is an error.
ReadPageFails(c) == Is(c, "pages") /\ Ends(c, "threw") /\ Quietly

-----------------------------------------------------------------------------
(* The signatures and the broadcast.                                       *)

\* Every witness signs, or one throws.
Sign(c, ok) ==
    /\ Is(c, "sign")
    /\ IF ok THEN Goes(c, "send") ELSE Ends(c, "threw")
    /\ Quietly

\* What two attempts can differ in: the offer.
Envelope(c) == <<try[c].offer, try[c].got>>

Taken(n) == n \in {"accepted", "unheard"}

\* unwrapRpcResult(): an error object becomes an exception.  JSONRPC() hands on an error that
\* has no message as it is, and nothing recognises it.
Unwrap(n) == IF n \in {"accepted", "speechless"} THEN "sent" ELSE "threw"

\* The node takes what it has not seen and answers, or the answer is lost, or it refuses with
\* a message or without one, or the request is lost.
Broadcast(c, n) ==
    /\ Is(c, "send")
    /\ Taken(n) => Envelope(c) \notin chain[host]
    /\ chain' = IF Taken(n) /\ planned THEN [chain EXCEPT ![host] = @ \cup {Envelope(c)}] ELSE chain
    /\ Ends(c, Unwrap(n))
    /\ UNCHANGED <<vars, message>>

-----------------------------------------------------------------------------
SendNext ==
    \/ \E c \in Calls :
          \/ Send(c) \/ Control(c) \/ Planner(c) \/ Plan(c) \/ ReadPageFails(c)
          \/ \E answer \in {"token", "absent", "unanswered"} : LookUp(c, answer)
          \/ \E served \in BOOLEAN : Probe(c, served)
          \/ \E next \in 0..MaxPages, empty \in BOOLEAN : ReadPage(c, next, empty)
          \/ \E ok \in BOOLEAN : Sign(c, ok)
          \/ \E n \in {"accepted", "unheard", "refused", "speechless", "lost"} : Broadcast(c, n)
    \/ (Tick \/ Invalidate \/ \E h \in Hosts : SetRpcHost(h) \/ ChangePrice(h))
       /\ UNCHANGED sendVars

SendSpec == SendInit /\ [][SendNext]_allVars

-----------------------------------------------------------------------------
(* Properties.                                                             *)

\* A message whose fee the caller settled is executed once on a chain however often it is
\* sent, with lost answers and attempts that overlap: no attempt changes its bytes
\* (phantasma.ts:792).
SentOnce ==
    planned => \A h \in Hosts : Cardinality(chain[h]) <= 1

\* An attempt that went on from the pre-flight was told by a node that serves lookups that
\* there is no such token, or that node failed to answer the first lookup alone; it never went
\* on after the symbol was found taken or after the control was not answered
\* (transaction-preflight.ts:99-112).
PreflightHonest ==
    \A c \in Calls : preflight /\ try[c].at \in {"plan", "pages", "sign", "send"} =>
        try[c].symbol \in {"absent", "unanswered"}

\* A walk that ended has every page, if the node's cursors were those of the list; a node that
\* makes up cursors cannot keep it going (phantasma.ts:745).
PagesWhole ==
    \A c \in Calls :
        /\ Is(c, "sign") /\ NeedsPlan /\ kind = "burn" /\ ~try[c].lied => try[c].got = 1..Pages
        /\ Is(c, "pages") => Cardinality(try[c].seen) < MaxPages

\* What the comment of `fees` says: it is the planner of the chain this client talks to
\* (phantasma.ts:685).  While the host has not moved since the plan was asked for, the plan has
\* the prices of that host.
PricesOfThisChain ==
    \A c \in Calls : Is(c, "plan") /\ call[c].at = "done" => call[c].entry.host = call[c].host

-----------------------------------------------------------------------------
(* What makes them inductive.                                              *)

Places == {"idle", "lookup", "control", "probe", "plan", "pages", "sign", "send",
           "refused", "threw", "sent"}
Offers == {Own} \cup [host: Hosts, price: Prices]
Try ==
    [at: Places, symbol: {"unasked", "absent", "unanswered", "unserved"}, offer: Offers,
     got: SUBSET Nat, cursor: Nat, seen: SUBSET Nat, lied: BOOLEAN]

\* The variables of sendTransaction keep their types.
SendTypeOK ==
    /\ kind \in Kinds /\ planned \in BOOLEAN /\ preflight \in BOOLEAN
    /\ try \in [Calls -> Try]
    /\ chain \in [Hosts -> SUBSET (Offers \X SUBSET Nat)]

\* All attempts at a settled message send the same bytes, and no chain has others of it.
SettledSound ==
    planned =>
        /\ \A c \in Calls : try[c].at \notin {"plan", "pages"} /\ Envelope(c) = <<Own, {}>>
        /\ \A h \in Hosts : chain[h] \subseteq {<<Own, {}>>}

\* From the lookup on, the symbol is not known to be taken.
LookUpSound ==
    \A c \in Calls :
        preflight /\ try[c].at \in {"control", "probe", "plan", "pages", "sign", "send"} =>
            try[c].symbol \in {"absent", "unanswered"}

\* What an honest node has told a walk so far: pages up to the cursor, and the cursors after
\* the first; nothing before the walk begins.
Walked(t) ==
    /\ t.at \in {"idle", "lookup", "control", "probe", "plan"} =>
         t.got = {} /\ t.cursor = 1 /\ t.seen = {} /\ ~t.lied
    /\ t.at = "pages" =>
         /\ IsFiniteSet(t.seen) /\ Cardinality(t.seen) < MaxPages
         /\ ~t.lied => t.cursor \in 1..Pages /\ t.got = 1..(t.cursor - 1) /\ t.seen = 2..t.cursor
    /\ t.at = "sign" /\ NeedsPlan /\ kind = "burn" /\ ~t.lied => t.got = 1..Pages

WalkSound == \A c \in Calls : Walked(try[c])

SendInv == SendTypeOK /\ SettledSound /\ LookUpSound /\ WalkSound
=============================================================================
