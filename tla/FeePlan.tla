------------------------------ MODULE FeePlan -------------------------------
(***************************************************************************)
(* planFees (src/src/types/carbon/blockchain/tx-helpers/fee-plan.ts): one  *)
(* message is priced from its own contents, the chain's prices and what    *)
(* the caller states of the chain.                                         *)
(*                                                                         *)
(* A message is a single operation or a Call_Multi of several.  One step   *)
(* is one round of the loop over its operations; in the same round the     *)
(* operation is priced as quoted, with every unstated fact at its cheaper  *)
(* reading (assumptionsMattered), and as the chain will find it: the last  *)
(* is what a plan is judged by.  What the chain finds agrees with what is  *)
(* stated, and may differ from operation to operation where nothing is.    *)
(***************************************************************************)
EXTENDS NativeFees

CONSTANTS
    Unstated,      \* `undefined`
    Refused,       \* an exception
    Configs,       \* gas configs a chain may run
    Statements,    \* what callers state: functions from Facts
    Assets,        \* what NFTs hold, as InfusedAsset lists it
    Listings,      \* the lists of them a caller may hand over
    Envelopes,     \* signed sizes
    RomSizes, RamSizes, Counts, Widths, InfoSizes, Lengths, TokenExtras,
                   \* sizes a message or a row may have
    Allowance,     \* scriptUnitsAllowance, scriptEventBytes, scriptStorageQuanta
    MaxCalls       \* bound on the calls of a Call_Multi

Config == [version : Nat, multiplier : Nat, shift : Nat, minimumBill : Nat,
           minimumOffer : Nat, escrow : Nat, transfer : Nat, query : Nat, perByte : Nat,
           createTokenBase : Nat, createTokenSymbol : Nat, createSeries : Nat,
           registerName : Nat, policyTokenBase : Nat, policyTokenSymbol : Nat,
           policySeries : Nat, policyName : Nat, maxName : Nat, maxSymbol : Nat]

ASSUME PlanAssumption ==
    /\ Unstated \notin BOOLEAN /\ Refused # Unstated
    /\ Configs \subseteq Config
    /\ Statements \subseteq [Facts -> BOOLEAN \cup {Unstated}]
    /\ \A a \in Assets :
         /\ a.instances \in Nat /\ a.token \in Tokens
         /\ a.burnerHolds \in BOOLEAN \cup {Unstated}
    /\ Listings \subseteq SUBSET Assets
    /\ Envelopes \subseteq Nat /\ RomSizes \subseteq Nat /\ RamSizes \subseteq Nat
    /\ Counts \subseteq Nat /\ InfoSizes \subseteq Nat /\ Lengths \subseteq Nat
    /\ Widths \subseteq 10..WidestBalance
    /\ Allowance \in [units : Nat, events : Nat, quanta : Nat]
    /\ MaxCalls \in Nat

VARIABLES
    config,     \* the gas config
    stated,     \* the state facts of FeePlanOptions
    infusions,  \* FeePlanOptions.infusions
    batch,      \* the message is a Call_Multi
    envelope,   \* its signed size
    kinds,      \* the kinds it was recognised as
    calls,      \* how many operations have been described
    returns,    \* describe(): the list the next burn takes
    owed,       \* what of the list taken is not yet priced
    held,       \* what the chain has not yet returned of it: external
    quoted,     \* counters at the costlier readings
    cheap,      \* counters at the cheaper readings
    actual,     \* counters at what the chain finds: external
    apart,      \* the chain's work when it scales each charge by itself: external
    plan        \* Unstated until there is one; Refused when planFees throws

vars == <<config, stated, infusions, batch, envelope, kinds, calls, returns, owed,
          held, quoted, cheap, actual, apart, plan>>
given == <<config, stated, infusions, batch, envelope>>

-----------------------------------------------------------------------------
(* Readings.                                                               *)

Reading(default) ==
    [x \in Facts |-> IF stated[x] = Unstated THEN default[x] ELSE stated[x]]

\* What the plan is quoted at.
Quoted == Reading(CostlierReading)

\* Mutant: the cheaper reading of one fact is forgotten.
Cheapest_ForgetsSupply ==
    [Reading([x \in Facts |-> ~CostlierReading[x]]) EXCEPT
        !["bigFungible"] = FALSE,
        !["supplyRowExists"] = Quoted["supplyRowExists"]]

\* assumptionsMattered: the other reading of what is unstated, and never the wide balance.
Cheapest ==
    [Reading([x \in Facts |-> ~CostlierReading[x]]) EXCEPT !["bigFungible"] = FALSE]

\* What the chain may find of the facts in R.
Truths(R) ==
    {Reading([x \in Facts |-> IF x \in R THEN g[x] ELSE CostlierReading[x]]) :
        g \in [R -> BOOLEAN]}

\* Whether the burner holds a returned asset, where that is not stated.
Listed == IF infusions = Unstated THEN {} ELSE infusions
HoldsStated == \A a \in Listed : a.burnerHolds # Unstated
MayHold(a) == IF a.burnerHolds = Unstated THEN BOOLEAN ELSE {a.burnerHolds}

-----------------------------------------------------------------------------
(* The loop over the operations.                                           *)

\* The chain scales each charge as it makes it.
ScaledApart(op) ==
    LET s(price) == MulShift(price, config.multiplier, config.shift)
    IN op.transfers * s(config.transfer) + op.queries * s(config.query) + s(op.flat)

\* Another operation of the message is described.
Describe(kind) ==
    /\ plan = Unstated
    /\ owed = {}
    /\ calls < IF batch THEN MaxCalls ELSE 1
    /\ calls' = calls + 1
    /\ kinds' = kinds \cup {kind}
    /\ UNCHANGED <<given, plan>>

\* It is priced: as quoted, at its cheapest, and as the chain finds it.
Price(q, c, a) ==
    /\ quoted' = Accumulate(config, quoted, q)
    /\ cheap' = Accumulate(config, cheap, c)
    /\ actual' = Accumulate(config, actual, a)
    /\ apart' = apart + ScaledApart(a)

\* Every operation but a burn of NFTs leaves what NFTs hold alone.
Keep == UNCHANGED <<returns, owed, held>>

PriceTransfer ==
    /\ Describe("TransferFungible") /\ Keep
    /\ \E tok \in Tokens, nft \in BOOLEAN, t \in Truths({"recipientHoldsToken"}) :
         Price(TransferFungible(Quoted, tok, nft), TransferFungible(Cheapest, tok, nft),
               TransferFungible(t, tok, nft))

PriceTransferNFT ==
    /\ Describe("TransferNonFungible") /\ Keep
    /\ \E tok \in {"ordinary"}, n \in Counts \ {0}, nft \in BOOLEAN,
          t \in Truths({"recipientHoldsToken"}) :
         Price(TransferNonFungible(Quoted, tok, n, nft),
               TransferNonFungible(Cheapest, tok, n, nft),
               TransferNonFungible(t, tok, n, nft))

PriceMint ==
    /\ Describe("MintFungible") /\ Keep
    /\ \E tok \in Tokens, nft \in BOOLEAN, wide \in Widths,
          t \in Truths({"recipientHoldsToken", "supplyRowExists", "bigFungible"}) :
         Price(MintFungible(Quoted, tok, WidestBalance, nft),
               MintFungible(Cheapest, tok, WidestBalance, nft),
               MintFungible(t, tok, wide, nft))

PriceBurn ==
    /\ Describe("BurnFungible") /\ Keep
    /\ \E tok \in Tokens, wide \in Widths,
          t \in Truths({"tokenBurnedBefore", "supplyRowExists", "bigFungible"}) :
         Price(BurnFungible(Quoted, tok, WidestBalance),
               BurnFungible(Cheapest, tok, WidestBalance), BurnFungible(t, tok, wide))

\* Only as a transaction type of its own: a call of this method is budgeted.
PriceMintNFT ==
    /\ ~batch
    /\ Describe("MintNonFungible") /\ Keep
    /\ \E tok \in {"ordinary"}, rom \in RomSizes, ram \in RamSizes, nft \in BOOLEAN,
          t \in Truths({"recipientHoldsToken", "supplyRowExists", "romHasMetaId"}) :
         Price(MintNonFungible(Quoted, tok, rom, ram, nft),
               MintNonFungible(Cheapest, tok, rom, ram, nft),
               MintNonFungible(t, tok, rom, ram, nft))

PriceMintPhantasma ==
    /\ Describe("MintPhantasmaNonFungible") /\ Keep
    /\ \E tok \in {"ordinary"}, n \in Counts \ {0}, rom \in RomSizes, ram \in RamSizes,
          nft \in BOOLEAN,
          t \in Truths({"recipientHoldsToken", "supplyRowExists", "duplicatedSeries"}) :
         \E series \in 1..n :
           LET op(f) == MintPhantasmaNonFungible(f, tok, n, series, rom, ram, nft)
           IN Price(op(Quoted), op(Cheapest), op(t))

PriceCreateToken ==
    /\ Describe("CreateToken") /\ Keep
    /\ \E length \in Lengths, bytes \in InfoSizes, extras \in TokenExtras :
         /\ Priceable(length, config.maxSymbol)
         /\ LET op == CreateToken(config, length, bytes, extras) IN Price(op, op, op)

PriceCreateSeries ==
    /\ Describe("CreateTokenSeries") /\ Keep
    /\ \E bytes \in InfoSizes, t \in Truths({"seriesHasMetaId"}) :
         LET op(f) == CreateTokenSeries(config, f, bytes)
         IN Price(op(Quoted), op(Cheapest), op(t))

PriceRegisterName ==
    /\ Describe("RegisterName") /\ Keep
    /\ \E length \in Lengths \ {0} :
         /\ Priceable(length, config.maxName)
         /\ LET op == RegisterName(config, length) IN Price(op, op, op)

\* Anything the model does not know, and a call that builds its arguments when it runs.
\* The chain finds any use of the allowance.
PriceScript ==
    /\ Describe("Script") /\ Keep
    /\ LET op == Script(Allowance.units, Allowance.events, Allowance.quanta)
       IN \E used \in {op, Script(0, 0, 0)} : Price(op, op, used)

-----------------------------------------------------------------------------
(* Burning NFTs.                                                           *)

\* The first burn of a batch takes the whole list of what is returned and leaves none for
\* the others.  The plan knows neither the ROM nor the RAM of what is burned.
PriceBurnNFT ==
    /\ Describe("BurnNonFungible")
    /\ returns # Unstated
    /\ \E n \in Counts \ {0}, rom \in RomSizes, ram \in RamSizes,
          t \in Truths({"tokenBurnedBefore", "supplyRowExists", "romHasMetaId"}) :
         Price(BurnNonFungible(Quoted, "ordinary", n, 0, 0),
               BurnNonFungible(Cheapest, "ordinary", n, 0, 0),
               BurnNonFungible(t, "ordinary", n, rom, ram))
    /\ owed' = returns
    /\ returns' = {}
    /\ UNCHANGED held

\* A round of the loop of returnedAssets().  The chain returns what an NFT holds once,
\* whichever burn it belongs to.
PriceReturn(a) ==
    /\ plan = Unstated
    /\ a \in owed
    /\ LET op(holds) == Returned(a, holds)
           stay == op(a.burnerHolds = TRUE)
       IN /\ quoted' = Accumulate(config, quoted, stay)
          /\ cheap' = Accumulate(config, cheap, stay)
          /\ IF a \in held
             THEN \E holds \in MayHold(a) :
                    /\ actual' = Accumulate(config, actual, op(holds))
                    /\ apart' = apart + ScaledApart(op(holds))
             ELSE UNCHANGED <<actual, apart>>
    /\ owed' = owed \ {a}
    /\ held' = held \ {a}
    /\ UNCHANGED <<given, kinds, calls, returns, plan>>

-----------------------------------------------------------------------------
(* The plan.                                                               *)

Init ==
    /\ config \in Configs
    /\ stated \in Statements
    /\ infusions \in {Unstated} \cup Listings
    /\ batch \in BOOLEAN
    /\ envelope \in Envelopes
    /\ kinds = {}
    /\ calls = 0
    /\ returns = infusions
    /\ owed = {}
    /\ held = Listed
    /\ quoted = Nothing /\ cheap = Nothing /\ actual = Nothing
    /\ apart = 0
    /\ plan = Unstated

\* The quote a set of counters gives.
Quote(t) ==
    [maxGas |-> Offer(config, t, envelope), maxData |-> Escrow(config, t),
     bill |-> Bill(config, t, envelope)]

Burns == "BurnNonFungible" \in kinds

\* settle(), and the flag: the two readings give the same quote.
PlanFees ==
    /\ plan = Unstated
    /\ calls > 0
    /\ owed = {}
    /\ plan' = [quote |-> Quote(quoted),
                exact |-> "Script" \notin kinds /\ Quote(cheap) = Quote(quoted)]
    /\ UNCHANGED <<given, kinds, calls, returns, owed, held, quoted, cheap, actual, apart>>

\* requireInfusions, symbolShift and the checks of `count` and `nameLength` throw.
Refuse ==
    /\ plan = Unstated
    /\ calls < IF batch THEN MaxCalls ELSE 1
    /\ \/ returns = Unstated
       \/ 0 \in Counts
       \/ \E length \in Lengths :
            \/ ~Priceable(length, config.maxSymbol)
            \/ length = 0 \/ ~Priceable(length, config.maxName)
    /\ plan' = Refused
    /\ UNCHANGED <<given, kinds, calls, returns, owed, held, quoted, cheap, actual, apart>>

Next ==
    \/ PriceTransfer \/ PriceTransferNFT \/ PriceMint \/ PriceBurn \/ PriceMintNFT
    \/ PriceMintPhantasma \/ PriceBurnNFT \/ (\E a \in Assets : PriceReturn(a))
    \/ PriceCreateToken \/ PriceCreateSeries \/ PriceRegisterName \/ PriceScript
    \/ PlanFees
    \/ Refuse

Spec == Init /\ [][Next]_vars

-----------------------------------------------------------------------------
(* Properties.                                                             *)

Counters == [work : 0..MaxWord, policy : 0..MaxWord, result : Nat, new : Nat, deleted : Nat]

Kinds == {"TransferFungible", "TransferNonFungible", "MintFungible", "MintNonFungible",
          "MintPhantasmaNonFungible", "BurnFungible", "BurnNonFungible", "CreateToken",
          "CreateTokenSeries", "RegisterName", "Script"}

TypeOK ==
    /\ config \in Configs /\ stated \in Statements /\ envelope \in Envelopes
    /\ batch \in BOOLEAN
    /\ infusions \in {Unstated} \cup Listings
    /\ kinds \subseteq Kinds
    /\ calls \in 0..(IF batch THEN MaxCalls ELSE 1)
    /\ returns = Unstated \/ returns \subseteq Assets
    /\ owed \subseteq Assets /\ held \subseteq Assets
    /\ quoted \in Counters /\ cheap \in Counters /\ actual \in Counters
    /\ apart \in Nat
    /\ plan \in {Unstated, Refused}
         \cup [quote : [maxGas : Nat, maxData : Nat, bill : Nat], exact : BOOLEAN]

Planned == plan \notin {Unstated, Refused}
ActualBill == Bill(config, actual, envelope)

\* A burn shares the transaction with an operation that may create rows.
Mixed == Burns /\ kinds # {"BurnNonFungible"}

\* However little is stated, the offer covers the bill and the ceiling covers the escrow -
\* save that a burn beside other operations needs to be told of the ROM's meta id.
OfferCovers ==
    Planned /\ (Mixed => stated["romHasMetaId"] # Unstated) =>
        /\ ActualBill <= plan.quote.maxGas
        /\ Escrow(config, actual) <= plan.quote.maxData

\* What a burn beside other operations frees and gives back is taken off what the others
\* create.  The caller can say whether the ROM carries a meta id and what the burner holds;
\* the sizes of the burned ROM and RAM nobody can say, and the plan presumes the smallest.
BurnsAsPresumed ==
    /\ stated["romHasMetaId"] # Unstated
    /\ HoldsStated
    /\ actual.deleted = quoted.deleted

\* A plan that calls itself exact names the bill to the unit, whatever the chain finds
\* where nothing was stated.  A message without a burn, or with nothing else, needs nothing
\* more for it; in a batch that burns NFTs beside other operations the bill is named when
\* what was burned is as presumed, and is at most what is named once the meta id is stated.
\* That the flag is set there although the sizes are unknown, and is silent about what the
\* burner holds, is not what fee-plan.ts:108-117 says of it.
ExactPredicts ==
    Planned /\ plan.exact =>
        /\ (Mixed => BurnsAsPresumed) => plan.quote.bill = ActualBill
        /\ (Mixed => stated["romHasMetaId"] # Unstated) => ActualBill <= plan.quote.bill

\* What the chain bills when it scales every charge by itself.
ChainBill ==
    AtLeast(Clamp(apart + MulShift(ByteUnits(actual, envelope), config.multiplier, config.shift)
                    + actual.policy), config.minimumBill)

\* Scaling the sum of the charges instead of each of them never quotes less, as long as
\* the sum does not saturate.
RoundingCovers ==
    Planned /\ V2(config) /\ actual.work + ByteUnits(actual, envelope) < MaxWord =>
        ChainBill <= ActualBill

\* What makes the first two inductive: what the chain counts lies between the two
\* readings, but for the rows that returned assets need where it is not stated who holds
\* them; rows deleted are the same in all three until a burn, whose own count is one lower
\* bound in both readings once it is told of the meta id;
\* burns alone delete at least what they create; what the quote owes, the chain holds.
Charged(s, t) == s.work <= t.work /\ s.policy <= t.policy /\ s.result <= t.result

Between ==
    /\ Charged(actual, quoted) /\ actual.new <= quoted.new
    /\ "Script" \notin kinds =>
         Charged(cheap, actual) /\ (~Burns \/ HoldsStated => cheap.new <= actual.new)

DeletedSound ==
    /\ ~Burns => cheap.deleted = actual.deleted /\ quoted.deleted = actual.deleted
    /\ stated["romHasMetaId"] # Unstated =>
         cheap.deleted = quoted.deleted /\ quoted.deleted <= actual.deleted

BurnsShrink ==
    kinds \subseteq {"BurnNonFungible"} =>
        \A t \in {cheap, actual, quoted} : t.new <= t.deleted

ReturnsSound ==
    /\ owed # {} => Burns /\ returns = {}
    /\ owed \subseteq held /\ held \subseteq Listed
    /\ returns # Unstated => returns \subseteq held

PlanSound ==
    Planned => plan = [quote |-> Quote(quoted),
                       exact |-> "Script" \notin kinds /\ Quote(cheap) = Quote(quoted)]

\* While the work does not saturate, the charges scaled apart do not exceed it scaled.
ApartSound ==
    IF config.shift >= 64
    THEN apart = 0
    ELSE actual.work < MaxWord => apart * Pow2[config.shift] <= actual.work * config.multiplier

PlanInv ==
    /\ TypeOK /\ Between /\ DeletedSound /\ BurnsShrink /\ ReturnsSound /\ PlanSound
    /\ ApartSound

\* What the code says of every message: stating nothing is an upper bound.
StatingNothingCovers == Planned => ActualBill <= plan.quote.maxGas
=============================================================================
