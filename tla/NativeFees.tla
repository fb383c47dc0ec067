----------------------------- MODULE NativeFees -----------------------------
(***************************************************************************)
(* The Tier-1 fee calculator                                               *)
(* (src/src/types/carbon/blockchain/tx-helpers/native-fee-estimator.ts):   *)
(* what each native operation costs, and how a transaction is settled.     *)
(*                                                                         *)
(* The model of an operation counts the charges it makes instead of adding *)
(* up their prices: how many transfers and queries, and what else is paid  *)
(* once.  The instances of one call have ROMs of one size and RAMs of one  *)
(* size; sizes that differ add up as those of two calls do.                *)
(***************************************************************************)
EXTENDS Integers, FiniteSets

CONSTANTS
    Pow2,         \* Pow2[n] = 2^n
    MaxWord       \* U64_MAX

ASSUME FeesAssumption ==
    /\ MaxWord \in Nat
    /\ Pow2 \in [0..64 -> Nat \ {0}]

-----------------------------------------------------------------------------
(* Arithmetic.                                                             *)

\* clampU64
Clamp(n) == IF n > MaxWord THEN MaxWord ELSE n

\* mulShift: an oversized shift leaves nothing.
MulShift(value, multiplier, shift) ==
    IF shift >= 64 THEN 0 ELSE Clamp((value * multiplier) \div Pow2[shift])

\* storageQuantaFor
Quanta(bytes) == (bytes + 1023) \div 1024

One(b) == IF b THEN 1 ELSE 0

\* The length-halved prices: symbolShift, and what it refuses.
Priceable(length, maxLength) ==
    /\ maxLength # 0 => length <= maxLength
    /\ length <= 64
Halved(price, length) == IF length = 0 THEN price ELSE price \div Pow2[length - 1]

-----------------------------------------------------------------------------
(* Facts about the chain, and how the calculator reads one left unstated.  *)

Facts == {"recipientHoldsToken", "bigFungible", "tokenBurnedBefore", "supplyRowExists",
          "romHasMetaId", "seriesHasMetaId", "duplicatedSeries"}

\* Mutant: a series is taken to be unique unless it is said to be duplicated.
CostlierReading_Unique ==
    [x \in Facts |-> x \in {"bigFungible", "romHasMetaId", "seriesHasMetaId"}]

\* The defaults of operationModel.
CostlierReading ==
    [x \in Facts |->
       x \in {"bigFungible", "romHasMetaId", "seriesHasMetaId", "duplicatedSeries"}]

\* A token is the chain's gas or data token, or an ordinary one; an id that is not known
\* is taken to be ordinary.
Tokens == {"gas", "data", "ordinary"}
FreeRows(tok) == tok \in {"gas", "data"}

RecipientRow(f, tok) == One(~f["recipientHoldsToken"] /\ ~FreeRows(tok))
BurntRow(f, tok) == One(~f["tokenBurnedBefore"] /\ ~FreeRows(tok))
SupplyRow(f, tok) == One(~f["supplyRowExists"] /\ ~FreeRows(tok))

\* The resulting balance as an IntX; `wide` is what a balance beyond int64 takes.
BalanceBytes(f, wide) == IF f["bigFungible"] THEN wide ELSE 9
WidestBalance == 33

\* Rows that hold an instance: the ROM's, owner and lookup, RAM's, meta id's.
InstanceRows(rom, ram, meta) ==
    Quanta(62 + rom) + 2 + (IF ram > 0 THEN Quanta(17 + ram) ELSE 0) + One(meta)

-----------------------------------------------------------------------------
(* operationModel.                                                         *)

Op(transfers, queries, result, new, deleted) ==
    [transfers |-> transfers, queries |-> queries, flat |-> 0, policy |-> 0,
     result |-> result, new |-> new, deleted |-> deleted]

TransferFungible(f, tok, nft) ==
    Op(1, One(nft), 0, RecipientRow(f, tok), 0)

TransferNonFungible(f, tok, count, nft) ==
    Op(count, One(nft), 0, count + RecipientRow(f, tok), count)

MintFungible(f, tok, wide, nft) ==
    Op(1, One(nft), BalanceBytes(f, wide), RecipientRow(f, tok) + SupplyRow(f, tok), 0)

BurnFungible(f, tok, wide) ==
    Op(1, 0, BalanceBytes(f, wide), BurntRow(f, tok) + SupplyRow(f, tok), 0)

MintNonFungible(f, tok, rom, ram, nft) ==
    Op(1, One(nft), 4 + 8,
       RecipientRow(f, tok) + SupplyRow(f, tok)
         + InstanceRows(rom, ram, f["romHasMetaId"]), 0)

\* phantasmaCanonicalRomBytes
CanonicalRom(rom) == 2 * rom + 36

\* `distinct` is how many series the instances are minted into.
MintPhantasmaNonFungible(f, tok, count, distinct, rom, ram, nft) ==
    LET dup == f["duplicatedSeries"]
    IN Op(count,
          (2 + One(dup)) * count + (IF dup THEN distinct ELSE 0) + One(nft),
          4 + 40 * count,
          RecipientRow(f, tok) + SupplyRow(f, tok)
            + count * InstanceRows(CanonicalRom(rom), ram, TRUE),
          0)

\* What the NFT held is returned by `Returned`, which is added to this.
BurnNonFungible(f, tok, count, rom, ram) ==
    Op(count, 2 * count, 0, BurntRow(f, tok) + SupplyRow(f, tok),
       count * InstanceRows(rom, ram, f["romHasMetaId"]))

\* One asset a burned NFT holds: `instances` of an NFT token, or 0 for a fungible one.
Returned(asset, burnerHolds) ==
    LET row == One(~burnerHolds /\ ~FreeRows(asset.token))
    IN IF asset.instances > 0
       THEN Op(asset.instances, 2, 0, row + asset.instances, 1 + asset.instances)
       ELSE Op(1, 1, 0, row, One(~FreeRows(asset.token)))

V2(cfg) == cfg.version >= 1

\* A price paid once: gas units under v1, a policy fee under v2.
Flat(cfg, v1, v2, queries, result, new) ==
    [transfers |-> 0, queries |-> queries, flat |-> IF V2(cfg) THEN 0 ELSE v1,
     policy |-> IF V2(cfg) THEN v2 ELSE 0, result |-> result, new |-> new, deleted |-> 0]

\* `extras` are what the token's flags and metadata ask for.
CreateToken(cfg, symbolLength, infoBytes, extras) ==
    LET symbol(price) == IF symbolLength = 0 THEN 0 ELSE Halved(price, symbolLength)
    IN Flat(cfg,
            cfg.createTokenBase + symbol(cfg.createTokenSymbol),
            Clamp(cfg.policyTokenBase + symbol(cfg.policyTokenSymbol)),
            Cardinality(extras \cap {"staking_org_id", "staking_reward_token"}),
            8,
            One(symbolLength > 0) + Quanta(9 + infoBytes) + 1
              + Cardinality(extras \cap {"nonFungible", "pre_burn", "inflation_period"}))

CreateTokenSeries(cfg, f, infoBytes) ==
    Flat(cfg, cfg.createSeries, cfg.policySeries, 0, 4,
         Quanta(13 + infoBytes) + 1 + One(f["seriesHasMetaId"]))

RegisterName(cfg, length) ==
    Flat(cfg, Halved(cfg.registerName, length), Halved(cfg.policyName, length), 0, 0, 0)

Script(units, eventBytes, quanta) ==
    [Op(0, 0, eventBytes, quanta, 0) EXCEPT !.flat = units]

-----------------------------------------------------------------------------
(* settle.                                                                 *)

\* The counters the loop of settle() accumulates.
Nothing == [work |-> 0, policy |-> 0, result |-> 0, new |-> 0, deleted |-> 0]

Work(cfg, op) == Clamp(op.transfers * cfg.transfer + op.queries * cfg.query + op.flat)

Accumulate(cfg, t, op) ==
    [work |-> Clamp(t.work + Work(cfg, op)),
     policy |-> Clamp(t.policy + op.policy),
     result |-> t.result + op.result,
     new |-> t.new + op.new,
     deleted |-> t.deleted + op.deleted]

NetQuanta(t) == IF t.new > t.deleted THEN t.new - t.deleted ELSE 0

AtLeast(n, floor) == IF n < floor THEN floor ELSE n

ByteUnits(t, envelope) == Clamp((envelope + NetQuanta(t) + t.result) * 25)

\* Under v1 there is neither an envelope term nor a floor; planFees passes no payload.
V1Bytes(t) == t.result + NetQuanta(t)
V1Work(cfg, t) == MulShift(t.work, cfg.multiplier, cfg.shift)

\* Mutant: the policy fee goes through the multiplier.
Bill_ScalesPolicy(cfg, t, envelope) ==
    IF V2(cfg)
    THEN AtLeast(MulShift(Clamp(t.work + ByteUnits(t, envelope) + t.policy),
                          cfg.multiplier, cfg.shift),
                 cfg.minimumBill)
    ELSE Clamp(V1Work(cfg, t) + Clamp(V1Bytes(t) * cfg.perByte))

\* expectedGasBill
Bill(cfg, t, envelope) ==
    IF V2(cfg)
    THEN AtLeast(
           Clamp(MulShift(Clamp(t.work + ByteUnits(t, envelope)), cfg.multiplier, cfg.shift)
                   + t.policy),
           cfg.minimumBill)
    ELSE Clamp(V1Work(cfg, t) + Clamp(V1Bytes(t) * cfg.perByte))

\* maxGas
Offer(cfg, t, envelope) ==
    IF V2(cfg)
    THEN AtLeast(Bill(cfg, t, envelope), cfg.minimumOffer)
    ELSE Clamp(cfg.minimumOffer * 2 + V1Work(cfg, t)
                 + Clamp(AtLeast(V1Bytes(t), 1024) * cfg.perByte))

\* maxData
Escrow(cfg, t) == Clamp(t.new * cfg.escrow)
=============================================================================
