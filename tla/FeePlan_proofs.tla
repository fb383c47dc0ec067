--------------------------- MODULE FeePlan_proofs ---------------------------
(***************************************************************************)
(* For every gas config, every statement of facts, every message of any    *)
(* number of operations: the offer of a plan covers the bill, and an exact *)
(* plan names it.                                                          *)
(***************************************************************************)
EXTENDS FeePlan, FiniteSetTheorems, TLAPS

-----------------------------------------------------------------------------
(* Arithmetic.                                                             *)

\* A product grows with its first factor.
LEMMA ProductMonotone ==
    ASSUME NEW a \in Nat, NEW b \in Nat, NEW k \in Nat, a <= b
    PROVE  a * k \in Nat /\ a * k <= b * k
<1>1. b = a + (b - a) /\ b - a \in Nat
  OBVIOUS
<1>2. b * k = a * k + (b - a) * k /\ a * k \in Nat /\ (b - a) * k \in Nat
  BY <1>1
<1> QED
  BY <1>2

\* So does a quotient with its numerator.
LEMMA QuotientMonotone ==
    ASSUME NEW a \in Nat, NEW b \in Nat, NEW k \in Nat \ {0}, a <= b
    PROVE  a \div k \in Nat /\ a \div k <= b \div k
<1> DEFINE p == a \div k
           q == b \div k
<1>1. p \in Nat /\ p * k <= a
  OBVIOUS
<1>2. q \in Nat /\ b < (q + 1) * k
  OBVIOUS
<1>3. ~(q + 1 <= p)
  BY <1>1, <1>2, ProductMonotone
<1> QED
  BY <1>1, <1>2, <1>3

\* Saturation keeps the order.
LEMMA ClampMonotone ==
    ASSUME NEW a \in Nat, NEW b \in Nat, a <= b
    PROVE  Clamp(a) \in 0..MaxWord /\ Clamp(a) <= Clamp(b)
  BY FeesAssumption DEF Clamp

\* So does the fee multiplier, whatever it and the shift are.
LEMMA MulShiftMonotone ==
    ASSUME NEW a \in Nat, NEW b \in Nat, NEW m \in Nat, NEW s \in Nat, a <= b
    PROVE  /\ MulShift(a, m, s) \in Nat /\ MulShift(b, m, s) \in Nat
           /\ MulShift(a, m, s) <= MulShift(b, m, s)
<1>1. CASE s >= 64
  BY <1>1 DEF MulShift
<1>2. CASE s < 64
  <2>1. Pow2[s] \in Nat \ {0}
    BY <1>2, FeesAssumption
  <2>2. a * m \in Nat /\ b * m \in Nat /\ a * m <= b * m
    BY ProductMonotone
  <2>3. /\ (a * m) \div Pow2[s] \in Nat /\ (b * m) \div Pow2[s] \in Nat
        /\ (a * m) \div Pow2[s] <= (b * m) \div Pow2[s]
    BY <2>1, <2>2, QuotientMonotone
  <2> QED
    BY <1>2, <2>3, ClampMonotone, FeesAssumption DEF MulShift
<1> QED
  BY <1>1, <1>2

-----------------------------------------------------------------------------
(* Settling: more counted is more billed.                                  *)

\* Counters are numbers, and so is what they net.
LEMMA CountersType ==
    ASSUME NEW t \in Counters
    PROVE  /\ t.work \in Nat /\ t.policy \in Nat /\ t.result \in Nat
           /\ t.new \in Nat /\ t.deleted \in Nat
           /\ NetQuanta(t) \in Nat
  BY FeesAssumption DEF Counters, NetQuanta

\* The escrow grows with the rows created.
LEMMA EscrowMonotone ==
    ASSUME NEW cfg \in Config, NEW s \in Counters, NEW t \in Counters, s.new <= t.new
    PROVE  Escrow(cfg, s) \in Nat /\ Escrow(cfg, s) <= Escrow(cfg, t)
<1>1. cfg.escrow \in Nat
  BY DEF Config
<1>2. /\ s.new * cfg.escrow \in Nat /\ t.new * cfg.escrow \in Nat
      /\ s.new * cfg.escrow <= t.new * cfg.escrow
  BY <1>1, CountersType, ProductMonotone
<1> QED
  BY <1>2, ClampMonotone, FeesAssumption DEF Escrow

\* Under gas model v1.
LEMMA SettleV1 ==
    ASSUME NEW cfg \in Config, NEW s \in Counters, NEW t \in Counters, NEW e \in Nat,
           Charged(s, t), NetQuanta(s) <= NetQuanta(t), ~V2(cfg)
    PROVE  /\ Bill(cfg, s, e) \in Nat /\ Offer(cfg, s, e) \in Nat
           /\ Bill(cfg, s, e) <= Bill(cfg, t, e)
           /\ Offer(cfg, s, e) <= Offer(cfg, t, e)
           /\ Bill(cfg, t, e) <= Offer(cfg, t, e)
<1> DEFINE bytes(u) == Clamp(V1Bytes(u) * cfg.perByte)
           padded(u) == Clamp(AtLeast(V1Bytes(u), 1024) * cfg.perByte)
<1>1. cfg.perByte \in Nat /\ cfg.multiplier \in Nat /\ cfg.shift \in Nat
      /\ cfg.minimumOffer \in Nat
  BY DEF Config
<1>2. /\ V1Work(cfg, s) \in Nat /\ V1Work(cfg, t) \in Nat
      /\ V1Work(cfg, s) <= V1Work(cfg, t)
  BY <1>1, CountersType, MulShiftMonotone DEF V1Work, Charged
<1>3. V1Bytes(s) \in Nat /\ V1Bytes(t) \in Nat /\ V1Bytes(s) <= V1Bytes(t)
  BY CountersType DEF V1Bytes, Charged
<1>4. bytes(s) \in Nat /\ bytes(t) \in Nat /\ bytes(s) <= bytes(t)
  <2> DEFINE x == V1Bytes(s) * cfg.perByte
             y == V1Bytes(t) * cfg.perByte
  <2>1. x \in Nat /\ y \in Nat /\ x <= y
    BY <1>1, <1>3, ProductMonotone
  <2>2. bytes(s) = Clamp(x) /\ bytes(t) = Clamp(y)
    OBVIOUS
  <2> HIDE DEF x, y, bytes
  <2>3. Clamp(x) \in Nat /\ Clamp(y) \in Nat /\ Clamp(x) <= Clamp(y)
    BY <2>1, FeesAssumption DEF Clamp
  <2> QED
    BY <2>2, <2>3
<1>5. /\ AtLeast(V1Bytes(s), 1024) \in Nat /\ AtLeast(V1Bytes(t), 1024) \in Nat
      /\ AtLeast(V1Bytes(s), 1024) <= AtLeast(V1Bytes(t), 1024)
      /\ V1Bytes(t) <= AtLeast(V1Bytes(t), 1024)
  BY <1>3 DEF AtLeast
<1>6. /\ padded(s) \in Nat /\ padded(t) \in Nat /\ padded(s) <= padded(t)
      /\ bytes(t) <= padded(t)
  <2> DEFINE x == V1Bytes(t) * cfg.perByte
             y == AtLeast(V1Bytes(s), 1024) * cfg.perByte
             z == AtLeast(V1Bytes(t), 1024) * cfg.perByte
  <2>1. x \in Nat /\ y \in Nat /\ z \in Nat /\ y <= z /\ x <= z
    BY <1>1, <1>3, <1>5, ProductMonotone
  <2>2. bytes(t) = Clamp(x) /\ padded(s) = Clamp(y) /\ padded(t) = Clamp(z)
    OBVIOUS
  <2> HIDE DEF x, y, z, bytes, padded
  <2>3. /\ Clamp(x) \in Nat /\ Clamp(y) \in Nat /\ Clamp(z) \in Nat
        /\ Clamp(y) <= Clamp(z) /\ Clamp(x) <= Clamp(z)
    BY <2>1, FeesAssumption DEF Clamp
  <2> QED
    BY <2>2, <2>3
<1>7. /\ Bill(cfg, s, e) = Clamp(V1Work(cfg, s) + bytes(s))
      /\ Bill(cfg, t, e) = Clamp(V1Work(cfg, t) + bytes(t))
      /\ Offer(cfg, s, e) = Clamp(cfg.minimumOffer * 2 + V1Work(cfg, s) + padded(s))
      /\ Offer(cfg, t, e) = Clamp(cfg.minimumOffer * 2 + V1Work(cfg, t) + padded(t))
  BY DEF Bill, Offer
<1> HIDE DEF bytes, padded
<1> QED
  BY <1>1, <1>2, <1>4, <1>6, <1>7, FeesAssumption DEF Clamp

\* Under gas model v2.
LEMMA SettleV2 ==
    ASSUME NEW cfg \in Config, NEW s \in Counters, NEW t \in Counters, NEW e \in Nat,
           Charged(s, t), NetQuanta(s) <= NetQuanta(t), V2(cfg)
    PROVE  /\ Bill(cfg, s, e) \in Nat /\ Offer(cfg, s, e) \in Nat
           /\ Bill(cfg, s, e) <= Bill(cfg, t, e)
           /\ Offer(cfg, s, e) <= Offer(cfg, t, e)
           /\ Bill(cfg, t, e) <= Offer(cfg, t, e)
<1> DEFINE units(u) == Clamp(u.work + ByteUnits(u, e))
           scaled(u) == MulShift(units(u), cfg.multiplier, cfg.shift)
<1>1. cfg.multiplier \in Nat /\ cfg.shift \in Nat /\ cfg.minimumOffer \in Nat
      /\ cfg.minimumBill \in Nat
  BY DEF Config
<1>2. /\ ByteUnits(s, e) \in Nat /\ ByteUnits(t, e) \in Nat
      /\ ByteUnits(s, e) <= ByteUnits(t, e)
  BY CountersType, FeesAssumption DEF ByteUnits, Charged, Clamp
<1>3. units(s) \in Nat /\ units(t) \in Nat /\ units(s) <= units(t)
  BY <1>2, CountersType, FeesAssumption DEF Charged, Clamp
<1>4. scaled(s) \in Nat /\ scaled(t) \in Nat /\ scaled(s) <= scaled(t)
  <2> HIDE DEF units
  <2> QED
    BY <1>1, <1>3, MulShiftMonotone
<1>5. /\ Bill(cfg, s, e) = AtLeast(Clamp(scaled(s) + s.policy), cfg.minimumBill)
      /\ Bill(cfg, t, e) = AtLeast(Clamp(scaled(t) + t.policy), cfg.minimumBill)
      /\ Offer(cfg, s, e) = AtLeast(Bill(cfg, s, e), cfg.minimumOffer)
      /\ Offer(cfg, t, e) = AtLeast(Bill(cfg, t, e), cfg.minimumOffer)
  BY DEF Bill, Offer
<1> HIDE DEF scaled
<1> QED
  BY <1>1, <1>4, <1>5, CountersType, FeesAssumption DEF Clamp, AtLeast, Charged

\* Under either gas model: who counts more is billed and offered more, and an offer
\* covers its own bill.
LEMMA SettleMonotone ==
    ASSUME NEW cfg \in Config, NEW s \in Counters, NEW t \in Counters, NEW e \in Nat,
           Charged(s, t), NetQuanta(s) <= NetQuanta(t)
    PROVE  /\ Bill(cfg, s, e) \in Nat /\ Offer(cfg, s, e) \in Nat
           /\ Bill(cfg, s, e) <= Bill(cfg, t, e)
           /\ Offer(cfg, s, e) <= Offer(cfg, t, e)
           /\ Bill(cfg, t, e) <= Offer(cfg, t, e)
  BY SettleV1, SettleV2

-----------------------------------------------------------------------------
(* Operations.                                                             *)

Operation == [transfers : Nat, queries : Nat, flat : Nat, policy : Nat, result : Nat,
              new : Nat, deleted : Nat]

\* p costs at least what o costs.
NoDearer(o, p) ==
    /\ o.transfers <= p.transfers /\ o.queries <= p.queries /\ o.flat <= p.flat
    /\ o.policy <= p.policy /\ o.result <= p.result

\* The work of a dearer operation is at least as much.
LEMMA WorkMonotone ==
    ASSUME NEW cfg \in Config, NEW o \in Operation, NEW p \in Operation, NoDearer(o, p)
    PROVE  Work(cfg, o) \in Nat /\ Work(cfg, p) \in Nat /\ Work(cfg, o) <= Work(cfg, p)
<1>1. cfg.transfer \in Nat /\ cfg.query \in Nat
  BY DEF Config
<1>2. /\ o.transfers \in Nat /\ o.queries \in Nat /\ o.flat \in Nat
      /\ p.transfers \in Nat /\ p.queries \in Nat /\ p.flat \in Nat
  BY DEF Operation
<1>3. /\ o.transfers * cfg.transfer \in Nat /\ p.transfers * cfg.transfer \in Nat
      /\ o.transfers * cfg.transfer <= p.transfers * cfg.transfer
  BY <1>1, <1>2, ProductMonotone DEF NoDearer
<1>4. /\ o.queries * cfg.query \in Nat /\ p.queries * cfg.query \in Nat
      /\ o.queries * cfg.query <= p.queries * cfg.query
  BY <1>1, <1>2, ProductMonotone DEF NoDearer
<1> QED
  BY <1>2, <1>3, <1>4, FeesAssumption DEF Work, Clamp, NoDearer

\* What an operation adds to the counters.
LEMMA AccumulateType ==
    ASSUME NEW cfg \in Config, NEW t \in Counters, NEW o \in Operation
    PROVE  /\ Accumulate(cfg, t, o) \in Counters
           /\ Accumulate(cfg, t, o).new = t.new + o.new
           /\ Accumulate(cfg, t, o).deleted = t.deleted + o.deleted
<1>1. Work(cfg, o) \in Nat
  BY WorkMonotone DEF NoDearer, Operation
<1> QED
  BY <1>1, FeesAssumption DEF Accumulate, Counters, Operation, Clamp

\* A dearer operation added to larger counters leaves them larger.
LEMMA AccumulateMonotone ==
    ASSUME NEW cfg \in Config, NEW s \in Counters, NEW t \in Counters,
           NEW o \in Operation, NEW p \in Operation, NoDearer(o, p), Charged(s, t)
    PROVE  Charged(Accumulate(cfg, s, o), Accumulate(cfg, t, p))
<1>1. Work(cfg, o) \in Nat /\ Work(cfg, p) \in Nat /\ Work(cfg, o) <= Work(cfg, p)
  BY WorkMonotone
<1> QED
  BY <1>1, FeesAssumption
  DEF Accumulate, Counters, Operation, Clamp, NoDearer, Charged

-----------------------------------------------------------------------------
(* Readings.                                                               *)

\* Every fact reads in g as in f, or at the default.
Dearer(f, g) == \A x \in Facts : f[x] = g[x] \/ g[x] = CostlierReading[x]

\* A truth lies between the two readings, and agrees with what is stated.
LEMMA TruthsBetween ==
    ASSUME NEW R \in SUBSET Facts, NEW t \in Truths(R), TypeOK
    PROVE  /\ t \in [Facts -> BOOLEAN]
           /\ Quoted \in [Facts -> BOOLEAN] /\ Cheapest \in [Facts -> BOOLEAN]
           /\ Dearer(t, Quoted) /\ Dearer(Cheapest, t)
           /\ ~Cheapest["bigFungible"]
           /\ stated["romHasMetaId"] # Unstated => Quoted["romHasMetaId"] = t["romHasMetaId"]
<1>1. stated \in [Facts -> BOOLEAN \cup {Unstated}]
  BY PlanAssumption DEF TypeOK
<1>2. CostlierReading \in [Facts -> BOOLEAN] /\ CostlierReading["bigFungible"] = TRUE
  <2> DEFINE S == {"bigFungible", "romHasMetaId", "seriesHasMetaId", "duplicatedSeries"}
  <2>1. \A x \in Facts : (x \in S) \in BOOLEAN
    OBVIOUS
  <2>2. CostlierReading \in [Facts -> BOOLEAN]
    BY <2>1, Zenon DEF CostlierReading
  <2>3. "bigFungible" \in Facts
    BY DEF Facts
  <2> QED
    BY <2>2, <2>3 DEF CostlierReading
<1>3. \A d \in [Facts -> BOOLEAN] :
        /\ Reading(d) \in [Facts -> BOOLEAN]
        /\ \A x \in Facts : IF stated[x] = Unstated THEN Reading(d)[x] = d[x]
                                                    ELSE Reading(d)[x] = stated[x]
  BY <1>1 DEF Reading
<1>4. PICK g \in [R -> BOOLEAN] :
        t = Reading([x \in Facts |-> IF x \in R THEN g[x] ELSE CostlierReading[x]])
  BY DEF Truths
<1>5. [x \in Facts |-> IF x \in R THEN g[x] ELSE CostlierReading[x]] \in [Facts -> BOOLEAN]
  BY <1>2
<1>6. [x \in Facts |-> ~CostlierReading[x]] \in [Facts -> BOOLEAN]
  BY <1>2
<1>7. /\ t \in [Facts -> BOOLEAN] /\ Quoted \in [Facts -> BOOLEAN]
      /\ \A x \in Facts : stated[x] = Unstated => Quoted[x] = CostlierReading[x]
      /\ \A x \in Facts : stated[x] # Unstated => Quoted[x] = t[x]
  BY <1>2, <1>3, <1>4, <1>5 DEF Quoted
<1>8. /\ Cheapest \in [Facts -> BOOLEAN] /\ Cheapest["bigFungible"] = FALSE
      /\ \A x \in Facts \ {"bigFungible"} :
           /\ stated[x] = Unstated => Cheapest[x] = ~CostlierReading[x]
           /\ stated[x] # Unstated => Cheapest[x] = t[x]
  <2> DEFINE d == [x \in Facts |-> ~CostlierReading[x]]
  <2>1. "bigFungible" \in Facts
    BY DEF Facts
  <2>2. /\ Reading(d) \in [Facts -> BOOLEAN]
        /\ \A x \in Facts : /\ stated[x] = Unstated => Reading(d)[x] = ~CostlierReading[x]
                            /\ stated[x] # Unstated => Reading(d)[x] = stated[x]
    BY <1>3, <1>6
  <2>3. \A x \in Facts : stated[x] # Unstated => t[x] = stated[x]
    BY <1>3, <1>4, <1>5
  <2>4. Cheapest = [Reading(d) EXCEPT !["bigFungible"] = FALSE]
    BY DEF Cheapest
  <2> HIDE DEF d
  <2> QED
    BY <2>1, <2>2, <2>3, <2>4
<1>9. Dearer(t, Quoted)
  BY <1>7 DEF Dearer
<1>10. Dearer(Cheapest, t)
  <2> SUFFICES ASSUME NEW x \in Facts
               PROVE  Cheapest[x] = t[x] \/ t[x] = CostlierReading[x]
    BY DEF Dearer
  <2>1. CASE x = "bigFungible"
    BY <2>1, <1>2, <1>7, <1>8
  <2>2. CASE x # "bigFungible"
    BY <2>2, <1>2, <1>7, <1>8
  <2> QED
    BY <2>1, <2>2
<1>11. "romHasMetaId" \in Facts
  BY DEF Facts
<1> QED
  BY <1>7, <1>8, <1>9, <1>10, <1>11

-----------------------------------------------------------------------------
(* What the operations cost.                                               *)

Readings == [Facts -> BOOLEAN]

\* p costs at least what o costs, creates at least as many rows and deletes as many.
Below(o, p) ==
    /\ o \in Operation /\ p \in Operation
    /\ NoDearer(o, p) /\ o.new <= p.new /\ o.deleted = p.deleted

\* A dearer reading creates at least as many balance, burnt and supply rows.
LEMMA RowsMonotone ==
    ASSUME NEW f \in Readings, NEW g \in Readings, Dearer(f, g), NEW tok
    PROVE  /\ RecipientRow(f, tok) \in 0..1 /\ RecipientRow(g, tok) \in 0..1
           /\ RecipientRow(f, tok) <= RecipientRow(g, tok)
           /\ BurntRow(f, tok) \in 0..1 /\ BurntRow(g, tok) \in 0..1
           /\ BurntRow(f, tok) <= BurntRow(g, tok)
           /\ SupplyRow(f, tok) \in 0..1 /\ SupplyRow(g, tok) \in 0..1
           /\ SupplyRow(f, tok) <= SupplyRow(g, tok)
<1>1. \A x \in {"recipientHoldsToken", "tokenBurnedBefore", "supplyRowExists"} :
        x \in Facts /\ ~CostlierReading[x]
  BY DEF Facts, CostlierReading
<1>2. \A x \in {"recipientHoldsToken", "tokenBurnedBefore", "supplyRowExists"} :
        g[x] => f[x]
  BY <1>1 DEF Dearer
<1> QED
  BY <1>2 DEF RecipientRow, BurntRow, SupplyRow, One

\* The facts that cost more when they are so.
LEMMA FactsMonotone ==
    ASSUME NEW f \in Readings, NEW g \in Readings, Dearer(f, g)
    PROVE  \A x \in {"bigFungible", "romHasMetaId", "seriesHasMetaId", "duplicatedSeries"} :
             f[x] => g[x]
<1>1. \A x \in {"bigFungible", "romHasMetaId", "seriesHasMetaId", "duplicatedSeries"} :
        x \in Facts /\ CostlierReading[x]
  BY DEF Facts, CostlierReading
<1> QED
  BY <1>1 DEF Dearer

\* A larger instance takes at least as many rows, and none takes fewer than three.
LEMMA InstanceRowsMonotone ==
    ASSUME NEW r \in Nat, NEW s \in Nat, r <= s, NEW m \in Nat, NEW n \in Nat, m <= n,
           NEW p, NEW q, p => q
    PROVE  /\ InstanceRows(r, m, p) \in Nat /\ InstanceRows(s, n, q) \in Nat
           /\ 3 <= InstanceRows(r, m, p)
           /\ InstanceRows(r, m, p) <= InstanceRows(s, n, q)
<1>1. /\ Quanta(62 + r) \in Nat /\ Quanta(62 + s) \in Nat
      /\ 1 <= Quanta(62 + r) /\ Quanta(62 + r) <= Quanta(62 + s)
  BY DEF Quanta
<1>2. /\ Quanta(17 + m) \in Nat /\ Quanta(17 + n) \in Nat
      /\ Quanta(17 + m) <= Quanta(17 + n)
  BY DEF Quanta
<1> QED
  BY <1>1, <1>2 DEF InstanceRows, One

\* Transfers cost more at a dearer reading.
LEMMA TransfersBelow ==
    ASSUME NEW f \in Readings, NEW g \in Readings, Dearer(f, g), NEW tok, NEW nft,
           NEW n \in Nat
    PROVE  /\ Below(TransferFungible(f, tok, nft), TransferFungible(g, tok, nft))
           /\ Below(TransferNonFungible(f, tok, n, nft), TransferNonFungible(g, tok, n, nft))
  BY RowsMonotone
  DEF TransferFungible, TransferNonFungible, Op, One, Below, Operation, NoDearer

\* The balance of the dearer reading is at least as wide: minting fungible tokens.
LEMMA MintFungibleBelow ==
    ASSUME NEW f \in Readings, NEW g \in Readings, Dearer(f, g), NEW tok, NEW nft,
           NEW v \in Nat, NEW w \in Nat, f["bigFungible"] => v <= w, 9 <= w
    PROVE  Below(MintFungible(f, tok, v, nft), MintFungible(g, tok, w, nft))
<1>1. /\ BalanceBytes(f, v) \in Nat /\ BalanceBytes(g, w) \in Nat
      /\ BalanceBytes(f, v) <= BalanceBytes(g, w)
  BY FactsMonotone DEF BalanceBytes
<1> QED
  BY <1>1, RowsMonotone DEF MintFungible, Op, One, Below, Operation, NoDearer

\* Burning fungible tokens costs more at a dearer reading.
LEMMA BurnFungibleBelow ==
    ASSUME NEW f \in Readings, NEW g \in Readings, Dearer(f, g), NEW tok,
           NEW v \in Nat, NEW w \in Nat, f["bigFungible"] => v <= w, 9 <= w
    PROVE  Below(BurnFungible(f, tok, v), BurnFungible(g, tok, w))
<1>1. /\ BalanceBytes(f, v) \in Nat /\ BalanceBytes(g, w) \in Nat
      /\ BalanceBytes(f, v) <= BalanceBytes(g, w)
  BY FactsMonotone DEF BalanceBytes
<1> QED
  BY <1>1, RowsMonotone DEF BurnFungible, Op, One, Below, Operation, NoDearer

\* So do both mints of NFTs.
LEMMA MintsBelow ==
    ASSUME NEW f \in Readings, NEW g \in Readings, Dearer(f, g), NEW tok, NEW nft,
           NEW rom \in Nat, NEW ram \in Nat, NEW n \in Nat, NEW d \in Nat
    PROVE  /\ Below(MintNonFungible(f, tok, rom, ram, nft),
                    MintNonFungible(g, tok, rom, ram, nft))
           /\ Below(MintPhantasmaNonFungible(f, tok, n, d, rom, ram, nft),
                    MintPhantasmaNonFungible(g, tok, n, d, rom, ram, nft))
<1>1. /\ InstanceRows(rom, ram, f["romHasMetaId"]) \in Nat
      /\ InstanceRows(rom, ram, g["romHasMetaId"]) \in Nat
      /\ InstanceRows(rom, ram, f["romHasMetaId"]) <= InstanceRows(rom, ram, g["romHasMetaId"])
  BY FactsMonotone, InstanceRowsMonotone
<1>2. Below(MintNonFungible(f, tok, rom, ram, nft), MintNonFungible(g, tok, rom, ram, nft))
  BY <1>1, RowsMonotone DEF MintNonFungible, Op, One, Below, Operation, NoDearer
<1> DEFINE rows == InstanceRows(CanonicalRom(rom), ram, TRUE)
           queries(h) == (2 + One(h["duplicatedSeries"])) * n
<1>3. rows \in Nat
  <2>1. CanonicalRom(rom) \in Nat
    BY DEF CanonicalRom
  <2>2. Quanta(62 + CanonicalRom(rom)) \in Nat /\ Quanta(17 + ram) \in Nat
    BY <2>1 DEF Quanta
  <2> QED
    BY <2>2 DEF InstanceRows, One
<1>4. n * rows \in Nat
  <2> HIDE DEF rows
  <2> QED
    BY <1>3, ProductMonotone
<1>5. /\ queries(f) \in Nat /\ queries(g) \in Nat /\ queries(f) <= queries(g)
      /\ f["duplicatedSeries"] => g["duplicatedSeries"]
  <2>1. f["duplicatedSeries"] => g["duplicatedSeries"]
    BY FactsMonotone
  <2>2. /\ 2 + One(f["duplicatedSeries"]) \in Nat /\ 2 + One(g["duplicatedSeries"]) \in Nat
        /\ 2 + One(f["duplicatedSeries"]) <= 2 + One(g["duplicatedSeries"])
    BY <2>1 DEF One
  <2> QED
    BY <2>1, <2>2, ProductMonotone
<1>6. Below(MintPhantasmaNonFungible(f, tok, n, d, rom, ram, nft),
            MintPhantasmaNonFungible(g, tok, n, d, rom, ram, nft))
  <2> DEFINE mint(h) == Op(n, queries(h) + (IF h["duplicatedSeries"] THEN d ELSE 0) + One(nft),
                           4 + 40 * n,
                           RecipientRow(h, tok) + SupplyRow(h, tok) + n * rows, 0)
  <2>1. /\ MintPhantasmaNonFungible(f, tok, n, d, rom, ram, nft) = mint(f)
        /\ MintPhantasmaNonFungible(g, tok, n, d, rom, ram, nft) = mint(g)
    BY DEF MintPhantasmaNonFungible
  <2> HIDE DEF rows, queries
  <2>2. Below(mint(f), mint(g))
    BY <1>4, <1>5, RowsMonotone DEF Op, One, Below, Operation, NoDearer
  <2> QED
    BY <2>1, <2>2
<1> QED
  BY <1>2, <1>6

\* Operations that are priced without a fact.
LEMMA NothingBelow ==
    ASSUME NEW o \in Operation
    PROVE  Below(o, o)
  BY DEF Below, NoDearer, Operation

\* A price halved is a price.
LEMMA HalvedType ==
    ASSUME NEW price \in Nat, NEW length \in Nat, NEW m, Priceable(length, m)
    PROVE  Halved(price, length) \in Nat
<1>1. CASE length = 0
  BY <1>1 DEF Halved
<1>2. CASE length # 0
  <2>1. Pow2[length - 1] \in Nat \ {0}
    BY <1>2, FeesAssumption DEF Priceable
  <2> QED
    BY <1>2, <2>1, QuotientMonotone DEF Halved
<1> QED
  BY <1>1, <1>2

\* The prices of a config are numbers.
LEMMA ConfigType ==
    ASSUME NEW cfg \in Config
    PROVE  /\ cfg.createTokenBase \in Nat /\ cfg.createTokenSymbol \in Nat
           /\ cfg.createSeries \in Nat /\ cfg.registerName \in Nat
           /\ cfg.policyTokenBase \in Nat /\ cfg.policyTokenSymbol \in Nat
           /\ cfg.policySeries \in Nat /\ cfg.policyName \in Nat
           /\ cfg.multiplier \in Nat /\ cfg.shift \in Nat
           /\ cfg.transfer \in Nat /\ cfg.query \in Nat
  BY DEF Config

\* What a price paid once comes to.
LEMMA FlatType ==
    ASSUME NEW cfg, NEW u \in Nat, NEW v \in Nat, NEW q \in Nat, NEW r \in Nat, NEW n \in Nat
    PROVE  /\ Flat(cfg, u, v, q, r, n) \in Operation
           /\ Flat(cfg, u, v, q, r, n).new = n /\ Flat(cfg, u, v, q, r, n).deleted = 0
           /\ \A k \in Nat : NoDearer(Flat(cfg, u, v, q, r, n), Flat(cfg, u, v, q, r, k))
<1> DEFINE flat(k) == [transfers |-> 0, queries |-> q, flat |-> IF V2(cfg) THEN 0 ELSE u,
                       policy |-> IF V2(cfg) THEN v ELSE 0, result |-> r, new |-> k,
                       deleted |-> 0]
<1>1. \A k \in Nat : Flat(cfg, u, v, q, r, k) = flat(k)
  BY DEF Flat
<1>2. \A k \in Nat : flat(k) \in Operation
  <2>1. CASE V2(cfg)
    BY <2>1 DEF Operation
  <2>2. CASE ~V2(cfg)
    BY <2>2 DEF Operation
  <2> QED
    BY <2>1, <2>2
<1>3. \A k \in Nat : flat(k).new = k /\ flat(k).deleted = 0 /\ NoDearer(flat(n), flat(k))
  <2>1. CASE V2(cfg)
    BY <2>1 DEF NoDearer
  <2>2. CASE ~V2(cfg)
    BY <2>2 DEF NoDearer
  <2> QED
    BY <2>1, <2>2
<1> HIDE DEF flat
<1> QED
  BY <1>1, <1>2, <1>3

\* How many of two or three flags are set.
LEMMA FlagsType ==
    ASSUME NEW extras, NEW x, NEW y, NEW z
    PROVE  Cardinality(extras \cap {x, y}) \in Nat /\ Cardinality(extras \cap {x, y, z}) \in Nat
<1>1. IsFiniteSet({x, y}) /\ IsFiniteSet({x, y, z})
  <2>1. IsFiniteSet({x} \cup {y})
    BY FS_Singleton, FS_Union
  <2>2. IsFiniteSet(({x} \cup {y}) \cup {z})
    BY <2>1, FS_Singleton, FS_Union
  <2>3. {x} \cup {y} = {x, y} /\ ({x} \cup {y}) \cup {z} = {x, y, z}
    OBVIOUS
  <2> QED
    BY <2>1, <2>2, <2>3
<1>2. IsFiniteSet(extras \cap {x, y}) /\ IsFiniteSet(extras \cap {x, y, z})
  BY <1>1, FS_Subset
<1> QED
  BY <1>2, FS_CardinalityType

\* A token creation is an operation whose counts are numbers.
LEMMA CreateTokenType ==
    ASSUME NEW cfg \in Config, NEW length \in Nat, NEW bytes \in Nat, NEW extras,
           NEW m, Priceable(length, m)
    PROVE  CreateToken(cfg, length, bytes, extras) \in Operation
<1> DEFINE symbol(price) == IF length = 0 THEN 0 ELSE Halved(price, length)
           queries == Cardinality(extras \cap {"staking_org_id", "staking_reward_token"})
           rows == One(length > 0) + Quanta(9 + bytes) + 1
                     + Cardinality(extras \cap {"nonFungible", "pre_burn", "inflation_period"})
<1>1. symbol(cfg.createTokenSymbol) \in Nat /\ symbol(cfg.policyTokenSymbol) \in Nat
  BY ConfigType, HalvedType
<1>2. queries \in Nat
  BY FlagsType
<1>3. rows \in Nat
  <2>1. Cardinality(extras \cap {"nonFungible", "pre_burn", "inflation_period"}) \in Nat
    BY FlagsType
  <2>2. Quanta(9 + bytes) \in Nat /\ One(length > 0) \in Nat
    BY DEF One, Quanta
  <2> QED
    BY <2>1, <2>2
<1>4. CreateToken(cfg, length, bytes, extras) =
        Flat(cfg, cfg.createTokenBase + symbol(cfg.createTokenSymbol),
             Clamp(cfg.policyTokenBase + symbol(cfg.policyTokenSymbol)), queries, 8, rows)
  BY DEF CreateToken
<1>5. /\ cfg.createTokenBase + symbol(cfg.createTokenSymbol) \in Nat
      /\ Clamp(cfg.policyTokenBase + symbol(cfg.policyTokenSymbol)) \in Nat
  <2> HIDE DEF symbol
  <2> QED
    BY <1>1, ConfigType, FeesAssumption DEF Clamp
<1> HIDE DEF symbol, queries, rows
<1> QED
  BY <1>2, <1>3, <1>4, <1>5, FlatType

\* So is a name's registration.
LEMMA RegisterNameType ==
    ASSUME NEW cfg \in Config, NEW length \in Nat, NEW m, Priceable(length, m)
    PROVE  RegisterName(cfg, length) \in Operation
<1>1. Halved(cfg.registerName, length) \in Nat /\ Halved(cfg.policyName, length) \in Nat
  BY ConfigType, HalvedType
<1> QED
  BY <1>1, FlatType DEF RegisterName

\* A series costs more at a dearer reading.
LEMMA SeriesBelow ==
    ASSUME NEW cfg \in Config, NEW f \in Readings, NEW g \in Readings, Dearer(f, g),
           NEW bytes \in Nat
    PROVE  Below(CreateTokenSeries(cfg, f, bytes), CreateTokenSeries(cfg, g, bytes))
<1> DEFINE rows(h) == Quanta(13 + bytes) + 1 + One(h["seriesHasMetaId"])
<1>1. rows(f) \in Nat /\ rows(g) \in Nat /\ rows(f) <= rows(g)
  BY FactsMonotone DEF Quanta, One
<1>2. /\ CreateTokenSeries(cfg, f, bytes) = Flat(cfg, cfg.createSeries, cfg.policySeries, 0, 4, rows(f))
      /\ CreateTokenSeries(cfg, g, bytes) = Flat(cfg, cfg.createSeries, cfg.policySeries, 0, 4, rows(g))
  BY DEF CreateTokenSeries
<1> HIDE DEF rows
<1>3. /\ Flat(cfg, cfg.createSeries, cfg.policySeries, 0, 4, rows(f)) \in Operation
      /\ Flat(cfg, cfg.createSeries, cfg.policySeries, 0, 4, rows(g)) \in Operation
  BY <1>1, ConfigType, FlatType
<1> QED
  BY <1>1, <1>2, <1>3, ConfigType, FlatType DEF Below

\* A budget is at least what is used of it.
LEMMA ScriptBelow ==
    /\ Script(0, 0, 0) \in Operation
    /\ Script(Allowance.units, Allowance.events, Allowance.quanta) \in Operation
    /\ Below(Script(0, 0, 0), Script(0, 0, 0))
    /\ Below(Script(0, 0, 0), Script(Allowance.units, Allowance.events, Allowance.quanta))
    /\ Below(Script(Allowance.units, Allowance.events, Allowance.quanta),
             Script(Allowance.units, Allowance.events, Allowance.quanta))
  BY PlanAssumption DEF Script, Op, Operation, Below, NoDearer

\* A burn deletes at least what it creates, and at least what the plan says.
LEMMA BurnBelow ==
    ASSUME NEW f \in Readings, NEW g \in Readings, Dearer(f, g), NEW tok, NEW n \in Nat \ {0},
           NEW r \in Nat, NEW m \in Nat, NEW s \in Nat, NEW k \in Nat
    PROVE  LET o == BurnNonFungible(f, tok, n, r, m)
               p == BurnNonFungible(g, tok, n, s, k)
           IN /\ o \in Operation /\ p \in Operation
              /\ NoDearer(o, p) /\ NoDearer(p, o) /\ o.new <= p.new
              /\ o.new <= o.deleted /\ p.new <= p.deleted
              /\ (f["romHasMetaId"] = g["romHasMetaId"] /\ s <= r /\ k <= m)
                   => p.deleted <= o.deleted
<1> DEFINE before == InstanceRows(r, m, f["romHasMetaId"])
           after == InstanceRows(s, k, g["romHasMetaId"])
<1>1. before \in Nat /\ 3 <= before /\ after \in Nat /\ 3 <= after
  BY InstanceRowsMonotone
<1>2. (f["romHasMetaId"] = g["romHasMetaId"] /\ s <= r /\ k <= m) => after <= before
  BY InstanceRowsMonotone
<1> HIDE DEF before, after
<1>3. /\ n * before \in Nat /\ n * after \in Nat /\ 3 <= n * before /\ 3 <= n * after
      /\ after <= before => n * after <= n * before
  <2>1. before * 1 <= before * n /\ after * 1 <= after * n
    BY <1>1, ProductMonotone
  <2>2. before * n \in Nat /\ after * n \in Nat /\ after <= before => after * n <= before * n
    BY <1>1, ProductMonotone
  <2> QED
    BY <1>1, <2>1, <2>2
<1>4. /\ BurnNonFungible(f, tok, n, r, m) =
           Op(n, 2 * n, 0, BurntRow(f, tok) + SupplyRow(f, tok), n * before)
      /\ BurnNonFungible(g, tok, n, s, k) =
           Op(n, 2 * n, 0, BurntRow(g, tok) + SupplyRow(g, tok), n * after)
  BY DEF BurnNonFungible, before, after
<1> QED
  BY <1>2, <1>3, <1>4, RowsMonotone DEF Op, Operation, NoDearer

\* What is returned costs the same whoever holds it; holding it saves a row.
LEMMA ReturnedBelow ==
    ASSUME NEW a \in Assets, NEW h \in BOOLEAN, NEW j \in BOOLEAN, j => h
    PROVE  /\ Below(Returned(a, h), Returned(a, j))
           /\ NoDearer(Returned(a, j), Returned(a, h))
           /\ Returned(a, h).new <= Returned(a, h).deleted
           /\ Returned(a, j).new <= Returned(a, j).deleted
<1>1. a.instances \in Nat
  BY PlanAssumption
<1> QED
  BY <1>1 DEF Returned, Op, One, Below, Operation, NoDearer

-----------------------------------------------------------------------------
(* One round of the loop.                                                  *)

\* The charges scaled apart add up to a number.
LEMMA ScaledApartType ==
    ASSUME NEW o \in Operation, config \in Config
    PROVE  ScaledApart(o) \in Nat
<1> DEFINE s(price) == MulShift(price, config.multiplier, config.shift)
<1>1. o.transfers \in Nat /\ o.queries \in Nat /\ o.flat \in Nat
  BY DEF Operation
<1>2. s(config.transfer) \in Nat /\ s(config.query) \in Nat /\ s(o.flat) \in Nat
  <2>1. config.multiplier \in Nat /\ config.shift \in Nat
        /\ config.transfer \in Nat /\ config.query \in Nat
    BY ConfigType
  <2>2. \A n \in Nat : n <= n
    OBVIOUS
  <2>3. \A n \in Nat : s(n) \in Nat
    BY <2>1, <2>2, MulShiftMonotone
  <2> QED
    BY <1>1, <2>1, <2>3
<1>3. ScaledApart(o) = o.transfers * s(config.transfer) + o.queries * s(config.query) + s(o.flat)
  BY DEF ScaledApart
<1> HIDE DEF s
<1>4. o.transfers * s(config.transfer) \in Nat /\ o.queries * s(config.query) \in Nat
  BY <1>1, <1>2, ProductMonotone
<1> QED
  BY <1>2, <1>3, <1>4

\* What pricing an operation does to the three sets of counters.
LEMMA PriceCounts ==
    ASSUME TypeOK, NEW q \in Operation, NEW c \in Operation, NEW a \in Operation,
           Price(q, c, a)
    PROVE  /\ quoted' \in Counters /\ cheap' \in Counters /\ actual' \in Counters
           /\ apart' \in Nat
           /\ quoted'.new = quoted.new + q.new /\ quoted'.deleted = quoted.deleted + q.deleted
           /\ cheap'.new = cheap.new + c.new /\ cheap'.deleted = cheap.deleted + c.deleted
           /\ actual'.new = actual.new + a.new /\ actual'.deleted = actual.deleted + a.deleted
           /\ NoDearer(a, q) /\ Charged(actual, quoted) => Charged(actual', quoted')
           /\ NoDearer(c, a) /\ Charged(cheap, actual) => Charged(cheap', actual')
<1>1. config \in Config /\ quoted \in Counters /\ cheap \in Counters /\ actual \in Counters
      /\ apart \in Nat
  BY PlanAssumption DEF TypeOK
<1>2. /\ quoted' = Accumulate(config, quoted, q) /\ cheap' = Accumulate(config, cheap, c)
      /\ actual' = Accumulate(config, actual, a) /\ apart' = apart + ScaledApart(a)
  BY DEF Price
<1>3. apart' \in Nat
  BY <1>1, <1>2, ScaledApartType
<1>4. NoDearer(a, q) /\ Charged(actual, quoted) => Charged(actual', quoted')
  BY <1>1, <1>2, AccumulateMonotone
<1>5. NoDearer(c, a) /\ Charged(cheap, actual) => Charged(cheap', actual')
  BY <1>1, <1>2, AccumulateMonotone
<1> QED
  BY <1>1, <1>2, <1>3, <1>4, <1>5, AccumulateType

\* Numbers that three sets of counters hold.
LEMMA RowsAreNumbers ==
    ASSUME TypeOK
    PROVE  /\ quoted.new \in Nat /\ quoted.deleted \in Nat
           /\ cheap.new \in Nat /\ cheap.deleted \in Nat
           /\ actual.new \in Nat /\ actual.deleted \in Nat
  BY CountersType DEF TypeOK

\* The rows of an operation are numbers.
LEMMA OperationType ==
    ASSUME NEW o \in Operation
    PROVE  o.new \in Nat /\ o.deleted \in Nat
  BY DEF Operation

\* What describing an operation changes.
LEMMA DescribeCounts ==
    ASSUME TypeOK, NEW kind \in Kinds, Describe(kind)
    PROVE  /\ plan' = Unstated /\ plan' \in {Unstated, Refused}
           /\ kinds' \subseteq Kinds /\ kind \in kinds' /\ kinds' = kinds \cup {kind}
           /\ calls' \in 0..(IF batch' THEN MaxCalls ELSE 1)
           /\ config' = config /\ stated' = stated /\ infusions' = infusions
           /\ batch' = batch /\ envelope' = envelope
           /\ owed = {}
<1>1. batch' = batch /\ calls \in Nat /\ calls' = calls + 1
      /\ calls < IF batch THEN MaxCalls ELSE 1
  BY PlanAssumption DEF TypeOK, Describe, given
<1>2. (IF batch THEN MaxCalls ELSE 1) \in Nat
  BY PlanAssumption
<1>3. calls' \in 0..(IF batch' THEN MaxCalls ELSE 1)
  BY <1>1, <1>2
<1> QED
  BY <1>3 DEF TypeOK, Describe, given

-----------------------------------------------------------------------------
(* Rounding.                                                               *)

\* A scaled price times the divisor is at most the product.
LEMMA MulShiftBound ==
    ASSUME NEW n \in Nat, NEW m \in Nat, NEW s \in 0..63
    PROVE  /\ Pow2[s] \in Nat \ {0}
           /\ MulShift(n, m, s) = Clamp((n * m) \div Pow2[s])
           /\ MulShift(n, m, s) \in Nat
           /\ MulShift(n, m, s) * Pow2[s] <= n * m
<1>1. Pow2[s] \in Nat \ {0} /\ n * m \in Nat
  BY FeesAssumption, ProductMonotone
<1> DEFINE P == Pow2[s]
           d == (n * m) \div P
<1>2. MulShift(n, m, s) = Clamp(d)
  BY DEF MulShift
<1>3. d \in Nat /\ d * P <= n * m
  <2> DEFINE x == n * m
  <2>1. x \in Nat /\ P \in Nat \ {0}
    BY <1>1
  <2> HIDE DEF x, P
  <2>2. x \div P \in Nat /\ (x \div P) * P <= x
    BY <2>1
  <2> QED
    BY <2>2 DEF x
<1> HIDE DEF d, P
<1>4. Clamp(d) \in Nat /\ Clamp(d) <= d
  BY <1>3, FeesAssumption DEF Clamp
<1>5. P \in Nat \ {0}
  BY <1>1 DEF P
<1>6. Clamp(d) * P <= d * P
  BY <1>3, <1>4, <1>5, ProductMonotone
<1>7. Clamp(d) * P \in Nat /\ d * P \in Nat
  BY <1>3, <1>4, <1>5, ProductMonotone
<1> QED
  BY <1>1, <1>2, <1>3, <1>4, <1>6, <1>7 DEF P, d

\* So it is for one operation.
LEMMA ApartOne ==
    ASSUME NEW o \in Operation, config \in Config, config.shift < 64,
           Work(config, o) < MaxWord
    PROVE  ScaledApart(o) * Pow2[config.shift] <= Work(config, o) * config.multiplier
<1> DEFINE s(price) == MulShift(price, config.multiplier, config.shift)
           P == Pow2[config.shift]
           m == config.multiplier
           t == config.transfer
           q == config.query
<1>1. config.shift \in 0..63 /\ m \in Nat /\ t \in Nat /\ q \in Nat
  BY ConfigType
<1>2. o.transfers \in Nat /\ o.queries \in Nat /\ o.flat \in Nat
  BY DEF Operation
<1>3. P \in Nat
  BY <1>1, FeesAssumption
<1>4. \A n \in Nat : s(n) \in Nat /\ s(n) * P <= n * m
  BY <1>1, MulShiftBound
<1>5. ScaledApart(o) = o.transfers * s(t) + o.queries * s(q) + s(o.flat)
  BY DEF ScaledApart
<1> DEFINE whole == o.transfers * t + o.queries * q + o.flat
<1>6. Work(config, o) = whole /\ whole \in Nat
  <2>1. o.transfers * t \in Nat /\ o.queries * q \in Nat
    BY <1>1, <1>2, ProductMonotone
  <2> QED
    BY <1>2, <2>1, FeesAssumption DEF Work, Clamp
<1> HIDE DEF s, P, m, t, q
<1>7. \A k \in Nat, n \in Nat : (k * s(n)) * P <= (k * n) * m
  <2> SUFFICES ASSUME NEW k \in Nat, NEW n \in Nat
               PROVE  (k * s(n)) * P <= (k * n) * m
    OBVIOUS
  <2>1. s(n) \in Nat /\ s(n) * P \in Nat /\ n * m \in Nat /\ s(n) * P <= n * m
    BY <1>1, <1>3, <1>4, ProductMonotone
  <2>2. (s(n) * P) * k <= (n * m) * k
    BY <2>1, ProductMonotone
  <2>3. (k * s(n)) * P = (s(n) * P) * k /\ (k * n) * m = (n * m) * k
    BY <1>1, <1>3, <2>1
  <2> QED
    BY <2>2, <2>3
<1>8. /\ (o.transfers * s(t)) * P <= (o.transfers * t) * m
      /\ (o.queries * s(q)) * P <= (o.queries * q) * m
      /\ s(o.flat) * P <= o.flat * m
  BY <1>1, <1>2, <1>4, <1>7
<1>9. /\ o.transfers * s(t) \in Nat /\ o.queries * s(q) \in Nat /\ s(o.flat) \in Nat
      /\ o.transfers * t \in Nat /\ o.queries * q \in Nat
  BY <1>1, <1>2, <1>4, ProductMonotone
<1>10. ScaledApart(o) * P <= whole * m
  <2> DEFINE a1 == o.transfers * s(t)
             a2 == o.queries * s(q)
             a3 == s(o.flat)
             b1 == o.transfers * t
             b2 == o.queries * q
             b3 == o.flat
  <2>1. /\ a1 \in Nat /\ a2 \in Nat /\ a3 \in Nat /\ b1 \in Nat /\ b2 \in Nat /\ b3 \in Nat
        /\ a1 * P <= b1 * m /\ a2 * P <= b2 * m /\ a3 * P <= b3 * m
    BY <1>2, <1>8, <1>9
  <2>2. ScaledApart(o) = a1 + a2 + a3 /\ whole = b1 + b2 + b3
    BY <1>5
  <2> HIDE DEF a1, a2, a3, b1, b2, b3, whole
  <2>3. /\ (a1 + a2 + a3) * P = a1 * P + a2 * P + a3 * P
        /\ (b1 + b2 + b3) * m = b1 * m + b2 * m + b3 * m
    BY <1>1, <1>3, <2>1
  <2>4. /\ a1 * P \in Nat /\ a2 * P \in Nat /\ a3 * P \in Nat
        /\ b1 * m \in Nat /\ b2 * m \in Nat /\ b3 * m \in Nat
    BY <1>1, <1>3, <2>1, ProductMonotone
  <2> QED
    BY <2>1, <2>2, <2>3, <2>4
<1> QED
  BY <1>6, <1>10 DEF P, m

\* One more charge keeps it so.
LEMMA ApartStep ==
    ASSUME TypeOK, ApartSound, NEW o \in Operation, config' = config,
           actual' = Accumulate(config, actual, o), apart' = apart + ScaledApart(o)
    PROVE  ApartSound'
<1>1. config \in Config /\ actual \in Counters /\ apart \in Nat
  BY PlanAssumption DEF TypeOK
<1>2. CASE config.shift >= 64
  <2>1. \A price : MulShift(price, config.multiplier, config.shift) = 0
    BY <1>2 DEF MulShift
  <2>2. o.transfers \in Nat /\ o.queries \in Nat
    BY DEF Operation
  <2>3. ScaledApart(o) = 0
    BY <2>1, <2>2 DEF ScaledApart
  <2> QED
    BY <1>2, <2>3 DEF ApartSound
<1>3. CASE ~(config.shift >= 64) /\ actual'.work < MaxWord
  <2> DEFINE P == Pow2[config.shift]
             m == config.multiplier
             w == actual.work
             v == Work(config, o)
             z == ScaledApart(o)
  <2>1. config.shift \in 0..63 /\ config.shift < 64 /\ m \in Nat
    BY <1>1, <1>3, ConfigType
  <2>2. w \in Nat /\ v \in Nat /\ z \in Nat /\ P \in Nat
    BY <1>1, <2>1, CountersType, WorkMonotone, ScaledApartType, FeesAssumption
    DEF NoDearer, Operation
  <2>3. actual'.work = Clamp(w + v)
    BY DEF Accumulate
  <2>4. w < MaxWord /\ v < MaxWord /\ actual'.work = w + v
    <3> HIDE DEF w, v
    <3> QED
      BY <1>3, <2>2, <2>3, FeesAssumption DEF Clamp
  <2>5. apart * P <= w * m
    BY <1>3, <2>4 DEF ApartSound
  <2>6. z * P <= v * m
    BY <1>1, <2>1, <2>4, ApartOne
  <2> HIDE DEF P, m, w, v, z
  <2>7. /\ apart * P \in Nat /\ z * P \in Nat /\ w * m \in Nat /\ v * m \in Nat
        /\ (apart + z) * P = apart * P + z * P /\ (w + v) * m = w * m + v * m
    BY <1>1, <2>1, <2>2, ProductMonotone
  <2>8. (apart + z) * P <= (w + v) * m
    BY <2>5, <2>6, <2>7
  <2> QED
    BY <1>3, <2>4, <2>8 DEF ApartSound, P, m, z
<1> QED
  BY <1>2, <1>3 DEF ApartSound

-----------------------------------------------------------------------------
(* The invariant.                                                          *)

\* The list of what is returned stays as it was given.
LEMMA ListKept ==
    ASSUME infusions' = infusions
    PROVE  Listed' = Listed /\ (HoldsStated' <=> HoldsStated)
  BY DEF Listed, HoldsStated

\* An operation that is neither a burn of NFTs nor budgeted keeps the invariant.
LEMMA OrdinaryStep ==
    ASSUME PlanInv, NEW kind \in Kinds \ {"BurnNonFungible", "Script"}, Describe(kind), Keep,
           NEW q, NEW c, NEW a, Below(c, a), Below(a, q), Price(q, c, a)
    PROVE  PlanInv'
<1>1. /\ q \in Operation /\ c \in Operation /\ a \in Operation
      /\ NoDearer(c, a) /\ NoDearer(a, q) /\ c.new <= a.new /\ a.new <= q.new
      /\ c.deleted = a.deleted /\ q.deleted = a.deleted
  BY DEF Below
<1>2. TypeOK /\ Between /\ DeletedSound /\ ReturnsSound /\ ApartSound
  BY DEF PlanInv
<1> USE <1>2
<1>3. TypeOK'
  BY <1>1, DescribeCounts, PriceCounts DEF TypeOK, Keep
<1>4. /\ "Script" \notin kinds' => "Script" \notin kinds
      /\ Burns' <=> Burns
      /\ ~(kinds' \subseteq {"BurnNonFungible"})
  BY DescribeCounts DEF Burns
<1>5. /\ quoted'.new = quoted.new + q.new /\ quoted'.deleted = quoted.deleted + q.deleted
      /\ cheap'.new = cheap.new + c.new /\ cheap'.deleted = cheap.deleted + c.deleted
      /\ actual'.new = actual.new + a.new /\ actual'.deleted = actual.deleted + a.deleted
  BY <1>1, PriceCounts
<1>6. Between'
  <2>1. Charged(actual', quoted') /\ actual'.new <= quoted'.new
    BY <1>1, <1>5, PriceCounts, RowsAreNumbers, OperationType DEF Between
  <2>2. "Script" \notin kinds' => Charged(cheap', actual')
    BY <1>1, <1>4, PriceCounts DEF Between
  <2>3. "Script" \notin kinds' /\ (~Burns' \/ HoldsStated') => cheap'.new <= actual'.new
    BY <1>1, <1>4, <1>5, DescribeCounts, ListKept, RowsAreNumbers, OperationType DEF Between
  <2> QED
    BY <2>1, <2>2, <2>3 DEF Between, Charged
<1>7. DeletedSound'
  <2>1. ~Burns' => cheap'.deleted = actual'.deleted /\ quoted'.deleted = actual'.deleted
    BY <1>1, <1>4, <1>5 DEF DeletedSound
  <2>2. stated'["romHasMetaId"] # Unstated =>
          cheap'.deleted = quoted'.deleted /\ quoted'.deleted <= actual'.deleted
    BY <1>1, <1>5, DescribeCounts, RowsAreNumbers, OperationType DEF DeletedSound
  <2> QED
    BY <2>1, <2>2 DEF DeletedSound
<1>8. BurnsShrink'
  BY <1>4 DEF BurnsShrink
<1>9. ReturnsSound'
  BY <1>4, DescribeCounts, ListKept DEF ReturnsSound, Keep
<1>10. PlanSound'
  BY DescribeCounts DEF PlanSound, Planned
<1>11. ApartSound'
  BY <1>1, DescribeCounts, ApartStep DEF Price
<1> QED
  BY <1>3, <1>6, <1>7, <1>8, <1>9, <1>10, <1>11 DEF PlanInv

\* A quote is made of numbers.
LEMMA QuoteType ==
    ASSUME TypeOK
    PROVE  Quote(quoted) \in [maxGas : Nat, maxData : Nat, bill : Nat]
<1>1. config \in Config /\ envelope \in Nat /\ quoted \in Counters
  BY PlanAssumption DEF TypeOK
<1>2. Charged(quoted, quoted) /\ NetQuanta(quoted) <= NetQuanta(quoted) /\ quoted.new <= quoted.new
  BY <1>1, CountersType DEF Charged
<1>3. Bill(config, quoted, envelope) \in Nat /\ Offer(config, quoted, envelope) \in Nat
  BY <1>1, <1>2, SettleMonotone
<1>4. Escrow(config, quoted) \in Nat
  BY <1>1, <1>2, EscrowMonotone
<1> QED
  BY <1>3, <1>4 DEF Quote

\* The invariant holds before the first operation.
LEMMA InitInvariant ==
    ASSUME Init
    PROVE  PlanInv
<1>1. Nothing \in Counters
  BY FeesAssumption DEF Nothing, Counters
<1>2. TypeOK
  <2>1. Listed \subseteq Assets /\ (infusions = Unstated \/ infusions \subseteq Assets)
    BY PlanAssumption DEF Init, Listed
  <2> QED
    BY <1>1, <2>1, PlanAssumption DEF Init, TypeOK
<1>3. Between
  BY DEF Init, Between, Charged, Nothing
<1>4. DeletedSound
  BY DEF Init, DeletedSound, Nothing
<1>5. BurnsShrink
  BY DEF Init, BurnsShrink, Nothing
<1>6. ReturnsSound
  BY DEF Init, ReturnsSound, Listed
<1>7. PlanSound
  BY DEF Init, PlanSound, Planned
<1>8. ApartSound
  <2>1. config \in Config
    BY <1>2, PlanAssumption DEF TypeOK
  <2>2. config.shift < 64 => Pow2[config.shift] \in Nat
    BY <2>1, ConfigType, FeesAssumption
  <2>3. apart = 0 /\ actual.work = 0 /\ config.multiplier \in Nat /\ config.shift \in Nat
    BY <2>1, ConfigType DEF Init, Nothing
  <2> QED
    BY <2>2, <2>3 DEF ApartSound
<1> QED
  BY <1>2, <1>3, <1>4, <1>5, <1>6, <1>7, <1>8 DEF PlanInv

\* A budgeted operation keeps the invariant.
LEMMA ScriptStep ==
    ASSUME PlanInv, PriceScript
    PROVE  PlanInv'
<1> DEFINE q == Script(Allowance.units, Allowance.events, Allowance.quanta)
<1>1. PICK a \in {q, Script(0, 0, 0)} : Price(q, q, a)
  BY DEF PriceScript
<1>2. q \in Operation /\ a \in Operation /\ Below(a, q)
  BY ScriptBelow
<1> HIDE DEF q
<1>3. NoDearer(a, q) /\ a.new <= q.new /\ a.deleted = q.deleted
  BY <1>2 DEF Below
<1>4. TypeOK /\ Between /\ DeletedSound /\ ReturnsSound /\ ApartSound
      /\ Describe("Script") /\ Keep
  BY DEF PlanInv, PriceScript
<1> USE <1>4
<1>5. "Script" \in Kinds
  BY DEF Kinds
<1>6. /\ plan' = Unstated /\ plan' \in {Unstated, Refused} /\ kinds' \subseteq Kinds
      /\ "Script" \in kinds' /\ kinds' = kinds \cup {"Script"}
      /\ calls' \in 0..(IF batch' THEN MaxCalls ELSE 1)
      /\ config' = config /\ stated' = stated /\ infusions' = infusions
      /\ batch' = batch /\ envelope' = envelope
  BY <1>5, DescribeCounts
<1>7. /\ quoted' \in Counters /\ cheap' \in Counters /\ actual' \in Counters /\ apart' \in Nat
      /\ quoted'.new = quoted.new + q.new /\ quoted'.deleted = quoted.deleted + q.deleted
      /\ cheap'.new = cheap.new + q.new /\ cheap'.deleted = cheap.deleted + q.deleted
      /\ actual'.new = actual.new + a.new /\ actual'.deleted = actual.deleted + a.deleted
      /\ Charged(actual', quoted')
  BY <1>1, <1>2, <1>3, PriceCounts DEF Between
<1>8. TypeOK'
  BY <1>6, <1>7 DEF TypeOK, Keep
<1>9. Burns' <=> Burns
  BY <1>6 DEF Burns
<1>10. Between'
  BY <1>2, <1>3, <1>6, <1>7, RowsAreNumbers, OperationType DEF Between, Charged
<1>11. DeletedSound'
  BY <1>2, <1>3, <1>6, <1>7, <1>9, RowsAreNumbers, OperationType DEF DeletedSound
<1>12. BurnsShrink'
  BY <1>6 DEF BurnsShrink
<1>13. ReturnsSound'
  BY <1>6, <1>9, ListKept DEF ReturnsSound, Keep
<1>14. PlanSound'
  BY <1>6 DEF PlanSound, Planned
<1>15. ApartSound'
  BY <1>1, <1>2, <1>6, ApartStep DEF Price
<1> QED
  BY <1>8, <1>10, <1>11, <1>12, <1>13, <1>14, <1>15 DEF PlanInv

\* A burn of NFTs keeps the invariant.
LEMMA BurnStep ==
    ASSUME PlanInv, PriceBurnNFT
    PROVE  PlanInv'
<1> DEFINE R == {"tokenBurnedBefore", "supplyRowExists", "romHasMetaId"}
<1>1. PICK n \in Counts \ {0}, rom \in RomSizes, ram \in RamSizes, t \in Truths(R) :
        Price(BurnNonFungible(Quoted, "ordinary", n, 0, 0),
              BurnNonFungible(Cheapest, "ordinary", n, 0, 0),
              BurnNonFungible(t, "ordinary", n, rom, ram))
  BY DEF PriceBurnNFT
<1>2. n \in Nat \ {0} /\ rom \in Nat /\ ram \in Nat
  BY PlanAssumption
<1>3. TypeOK /\ Between /\ DeletedSound /\ BurnsShrink /\ ReturnsSound /\ ApartSound
      /\ Describe("BurnNonFungible") /\ returns # Unstated
      /\ owed' = returns /\ returns' = {} /\ held' = held
  BY DEF PlanInv, PriceBurnNFT
<1> USE <1>3
<1>4. R \in SUBSET Facts
  BY DEF Facts
<1> HIDE DEF R
<1>5. /\ t \in Readings /\ Quoted \in Readings /\ Cheapest \in Readings
      /\ Dearer(t, Quoted) /\ Dearer(Cheapest, t)
      /\ stated["romHasMetaId"] # Unstated => Quoted["romHasMetaId"] = t["romHasMetaId"]
  BY <1>4, TruthsBetween DEF Readings
<1>5a. stated["romHasMetaId"] # Unstated => Cheapest["romHasMetaId"] = Quoted["romHasMetaId"]
  BY DEF Cheapest, Quoted, Reading, Facts
<1> DEFINE q == BurnNonFungible(Quoted, "ordinary", n, 0, 0)
           c == BurnNonFungible(Cheapest, "ordinary", n, 0, 0)
           a == BurnNonFungible(t, "ordinary", n, rom, ram)
<1>6. /\ q \in Operation /\ c \in Operation /\ a \in Operation
      /\ NoDearer(a, q) /\ NoDearer(c, a) /\ a.new <= q.new /\ c.new <= a.new
      /\ q.new <= q.deleted /\ c.new <= c.deleted /\ a.new <= a.deleted
  BY <1>2, <1>5, BurnBelow
<1>7. stated["romHasMetaId"] # Unstated => q.deleted <= a.deleted /\ c.deleted = q.deleted
  <2>1. stated["romHasMetaId"] # Unstated => q.deleted <= a.deleted
    BY <1>2, <1>5, BurnBelow
  <2>2. stated["romHasMetaId"] # Unstated => c.deleted = q.deleted
    BY <1>5a DEF BurnNonFungible, Op
  <2> QED
    BY <2>1, <2>2
<1>8. Price(q, c, a)
  BY <1>1
<1> HIDE DEF q, c, a
<1>9. "BurnNonFungible" \in Kinds
  BY DEF Kinds
<1>10. /\ plan' = Unstated /\ plan' \in {Unstated, Refused} /\ kinds' \subseteq Kinds
       /\ kinds' = kinds \cup {"BurnNonFungible"}
       /\ calls' \in 0..(IF batch' THEN MaxCalls ELSE 1)
       /\ config' = config /\ stated' = stated /\ infusions' = infusions
       /\ batch' = batch /\ envelope' = envelope
  BY <1>9, DescribeCounts
<1>11. /\ quoted' \in Counters /\ cheap' \in Counters /\ actual' \in Counters /\ apart' \in Nat
       /\ quoted'.new = quoted.new + q.new /\ quoted'.deleted = quoted.deleted + q.deleted
       /\ cheap'.new = cheap.new + c.new /\ cheap'.deleted = cheap.deleted + c.deleted
       /\ actual'.new = actual.new + a.new /\ actual'.deleted = actual.deleted + a.deleted
       /\ Charged(actual', quoted')
       /\ "Script" \notin kinds => Charged(cheap', actual')
  BY <1>6, <1>8, PriceCounts DEF Between
<1>12. TypeOK'
  BY <1>10, <1>11 DEF TypeOK
<1>13. Burns'
  BY <1>10 DEF Burns
<1>14. Between'
  BY <1>6, <1>10, <1>11, <1>13, ListKept, RowsAreNumbers, OperationType DEF Between, Charged
<1>15. DeletedSound'
  BY <1>6, <1>7, <1>10, <1>11, <1>13, RowsAreNumbers, OperationType DEF DeletedSound
<1>16. BurnsShrink'
  <2> SUFFICES ASSUME kinds' \subseteq {"BurnNonFungible"}
               PROVE  /\ cheap'.new <= cheap'.deleted /\ actual'.new <= actual'.deleted
                      /\ quoted'.new <= quoted'.deleted
    BY DEF BurnsShrink
  <2>1. kinds \subseteq {"BurnNonFungible"}
    BY <1>10
  <2>2. /\ cheap.new <= cheap.deleted /\ actual.new <= actual.deleted
        /\ quoted.new <= quoted.deleted
    BY <2>1 DEF BurnsShrink
  <2> QED
    BY <2>2, <1>6, <1>11, RowsAreNumbers, OperationType
<1>17. ReturnsSound'
  BY <1>10, <1>13, ListKept DEF ReturnsSound
<1>18. PlanSound'
  BY <1>10 DEF PlanSound, Planned
<1>19. ApartSound'
  BY <1>6, <1>8, <1>10, ApartStep DEF Price
<1> QED
  BY <1>12, <1>14, <1>15, <1>16, <1>17, <1>18, <1>19 DEF PlanInv

\* So does an asset it returns.
LEMMA ReturnStep ==
    ASSUME PlanInv, NEW asset \in Assets, PriceReturn(asset)
    PROVE  PlanInv'
<1>1. TypeOK /\ Between /\ DeletedSound /\ BurnsShrink /\ ReturnsSound /\ ApartSound
  BY DEF PlanInv
<1> USE <1>1
<1> DEFINE known == asset.burnerHolds = TRUE
           q == Returned(asset, known)
<1>2. plan = Unstated /\ asset \in owed /\ asset \in held /\ Burns /\ returns = {}
  BY DEF PriceReturn, ReturnsSound
<1>3. PICK holds \in MayHold(asset) :
        Price(q, q, Returned(asset, holds))
  BY <1>2 DEF PriceReturn, Price
<1>4. known \in BOOLEAN /\ holds \in BOOLEAN /\ (known => holds)
  BY PlanAssumption DEF MayHold
<1> DEFINE a == Returned(asset, holds)
<1> HIDE DEF known
<1>5. /\ q \in Operation /\ a \in Operation /\ NoDearer(a, q) /\ NoDearer(q, a)
      /\ a.new <= q.new /\ a.deleted = q.deleted
      /\ q.new <= q.deleted /\ a.new <= a.deleted
  BY <1>4, ReturnedBelow DEF Below
<1>5a. HoldsStated => q.new = a.new
  <2>1. HoldsStated => holds = known
    BY <1>2, <1>4 DEF HoldsStated, MayHold, ReturnsSound, known
  <2> QED
    BY <2>1
<1>6. Price(q, q, a)
  BY <1>3
<1> HIDE DEF q, a
<1>7. /\ quoted' \in Counters /\ cheap' \in Counters /\ actual' \in Counters /\ apart' \in Nat
      /\ quoted'.new = quoted.new + q.new /\ quoted'.deleted = quoted.deleted + q.deleted
      /\ cheap'.new = cheap.new + q.new /\ cheap'.deleted = cheap.deleted + q.deleted
      /\ actual'.new = actual.new + a.new /\ actual'.deleted = actual.deleted + a.deleted
      /\ Charged(actual', quoted')
      /\ "Script" \notin kinds => Charged(cheap', actual')
  BY <1>5, <1>6, PriceCounts DEF Between
<1>8. /\ owed' = owed \ {asset} /\ held' = held \ {asset}
      /\ config' = config /\ stated' = stated /\ infusions' = infusions
      /\ batch' = batch /\ envelope' = envelope
      /\ kinds' = kinds /\ calls' = calls /\ returns' = returns /\ plan' = plan
  BY DEF PriceReturn, given
<1>9. TypeOK'
  BY <1>7, <1>8 DEF TypeOK
<1>10. Burns'
  BY <1>2, <1>8 DEF Burns
<1>11. Between'
  BY <1>5, <1>5a, <1>7, <1>8, <1>10, ListKept, RowsAreNumbers, OperationType DEF Between, Charged
<1>12. DeletedSound'
  BY <1>5, <1>7, <1>8, <1>10, RowsAreNumbers, OperationType DEF DeletedSound
<1>13. BurnsShrink'
  <2> SUFFICES ASSUME kinds \subseteq {"BurnNonFungible"}
               PROVE  /\ cheap'.new <= cheap'.deleted /\ actual'.new <= actual'.deleted
                      /\ quoted'.new <= quoted'.deleted
    BY <1>8 DEF BurnsShrink
  <2>1. /\ cheap.new <= cheap.deleted /\ actual.new <= actual.deleted
        /\ quoted.new <= quoted.deleted
    BY DEF BurnsShrink
  <2> QED
    BY <2>1, <1>5, <1>7, RowsAreNumbers, OperationType
<1>14. ReturnsSound'
  BY <1>2, <1>8, <1>10, ListKept DEF ReturnsSound
<1>15. PlanSound'
  BY <1>2, <1>8 DEF PlanSound, Planned
<1>16. ApartSound'
  BY <1>5, <1>6, <1>8, ApartStep DEF Price
<1> QED
  BY <1>9, <1>11, <1>12, <1>13, <1>14, <1>15, <1>16 DEF PlanInv

\* Every step keeps the invariant.
LEMMA NextInvariant ==
    ASSUME PlanInv, [Next]_vars
    PROVE  PlanInv'
<1>1. TypeOK /\ config \in Config /\ WidestBalance = 33
  BY PlanAssumption DEF PlanInv, TypeOK, WidestBalance
<1> DEFINE Ordinary == Kinds \ {"BurnNonFungible", "Script"}
<1>2. \A R \in SUBSET Facts : \A t \in Truths(R) :
        /\ t \in Readings /\ Quoted \in Readings /\ Cheapest \in Readings
        /\ Dearer(t, Quoted) /\ Dearer(Cheapest, t) /\ ~Cheapest["bigFungible"]
  BY <1>1, TruthsBetween DEF Readings
<1>3. /\ {"recipientHoldsToken"} \in SUBSET Facts
      /\ {"recipientHoldsToken", "supplyRowExists", "bigFungible"} \in SUBSET Facts
      /\ {"tokenBurnedBefore", "supplyRowExists", "bigFungible"} \in SUBSET Facts
      /\ {"recipientHoldsToken", "supplyRowExists", "romHasMetaId"} \in SUBSET Facts
      /\ {"recipientHoldsToken", "supplyRowExists", "duplicatedSeries"} \in SUBSET Facts
      /\ {"seriesHasMetaId"} \in SUBSET Facts
  BY DEF Facts
<1>4. CASE PriceTransfer
  <2>1. PICK tok \in Tokens, nft \in BOOLEAN, t \in Truths({"recipientHoldsToken"}) :
          Price(TransferFungible(Quoted, tok, nft), TransferFungible(Cheapest, tok, nft),
                TransferFungible(t, tok, nft))
    BY <1>4 DEF PriceTransfer
  <2>2. /\ Below(TransferFungible(Cheapest, tok, nft), TransferFungible(t, tok, nft))
        /\ Below(TransferFungible(t, tok, nft), TransferFungible(Quoted, tok, nft))
    BY <1>2, <1>3, TransfersBelow
  <2>3. "TransferFungible" \in Ordinary /\ Describe("TransferFungible") /\ Keep
    BY <1>4 DEF PriceTransfer, Kinds
  <2> QED
    BY <2>1, <2>2, <2>3, OrdinaryStep
<1>5. CASE PriceTransferNFT
  <2>1. PICK tok \in {"ordinary"}, n \in Counts \ {0}, nft \in BOOLEAN,
             t \in Truths({"recipientHoldsToken"}) :
          Price(TransferNonFungible(Quoted, tok, n, nft),
                TransferNonFungible(Cheapest, tok, n, nft),
                TransferNonFungible(t, tok, n, nft))
    BY <1>5 DEF PriceTransferNFT
  <2>2. n \in Nat
    BY PlanAssumption
  <2>3. /\ Below(TransferNonFungible(Cheapest, tok, n, nft), TransferNonFungible(t, tok, n, nft))
        /\ Below(TransferNonFungible(t, tok, n, nft), TransferNonFungible(Quoted, tok, n, nft))
    BY <1>2, <1>3, <2>2, TransfersBelow
  <2>4. "TransferNonFungible" \in Ordinary /\ Describe("TransferNonFungible") /\ Keep
    BY <1>5 DEF PriceTransferNFT, Kinds
  <2> QED
    BY <2>1, <2>3, <2>4, OrdinaryStep
<1>6. CASE PriceMint
  <2> DEFINE R == {"recipientHoldsToken", "supplyRowExists", "bigFungible"}
  <2>1. PICK tok \in Tokens, nft \in BOOLEAN, wide \in Widths, t \in Truths(R) :
          Price(MintFungible(Quoted, tok, WidestBalance, nft),
                MintFungible(Cheapest, tok, WidestBalance, nft),
                MintFungible(t, tok, wide, nft))
    BY <1>6 DEF PriceMint
  <2>2. wide \in Nat /\ 9 <= wide /\ wide <= 33
    BY <1>1, PlanAssumption
  <2>3. /\ Below(MintFungible(Cheapest, tok, 33, nft), MintFungible(t, tok, wide, nft))
        /\ Below(MintFungible(t, tok, wide, nft), MintFungible(Quoted, tok, 33, nft))
    BY <1>2, <1>3, <2>2, MintFungibleBelow
  <2>4. "MintFungible" \in Ordinary /\ Describe("MintFungible") /\ Keep
    BY <1>6 DEF PriceMint, Kinds
  <2> QED
    BY <1>1, <2>1, <2>3, <2>4, OrdinaryStep
<1>7. CASE PriceBurn
  <2> DEFINE R == {"tokenBurnedBefore", "supplyRowExists", "bigFungible"}
  <2>1. PICK tok \in Tokens, wide \in Widths, t \in Truths(R) :
          Price(BurnFungible(Quoted, tok, WidestBalance),
                BurnFungible(Cheapest, tok, WidestBalance), BurnFungible(t, tok, wide))
    BY <1>7 DEF PriceBurn
  <2>2. wide \in Nat /\ 9 <= wide /\ wide <= 33
    BY <1>1, PlanAssumption
  <2>3. /\ Below(BurnFungible(Cheapest, tok, 33), BurnFungible(t, tok, wide))
        /\ Below(BurnFungible(t, tok, wide), BurnFungible(Quoted, tok, 33))
    BY <1>2, <1>3, <2>2, BurnFungibleBelow
  <2>4. "BurnFungible" \in Ordinary /\ Describe("BurnFungible") /\ Keep
    BY <1>7 DEF PriceBurn, Kinds
  <2> QED
    BY <1>1, <2>1, <2>3, <2>4, OrdinaryStep
<1>8. CASE PriceMintNFT
  <2> DEFINE R == {"recipientHoldsToken", "supplyRowExists", "romHasMetaId"}
  <2>1. PICK tok \in {"ordinary"}, rom \in RomSizes, ram \in RamSizes, nft \in BOOLEAN,
             t \in Truths(R) :
          Price(MintNonFungible(Quoted, tok, rom, ram, nft),
                MintNonFungible(Cheapest, tok, rom, ram, nft),
                MintNonFungible(t, tok, rom, ram, nft))
    BY <1>8 DEF PriceMintNFT
  <2>2. rom \in Nat /\ ram \in Nat /\ 1 \in Nat
    BY PlanAssumption
  <2>3. /\ Below(MintNonFungible(Cheapest, tok, rom, ram, nft),
                 MintNonFungible(t, tok, rom, ram, nft))
        /\ Below(MintNonFungible(t, tok, rom, ram, nft),
                 MintNonFungible(Quoted, tok, rom, ram, nft))
    BY <1>2, <1>3, <2>2, MintsBelow
  <2>4. "MintNonFungible" \in Ordinary /\ Describe("MintNonFungible") /\ Keep
    BY <1>8 DEF PriceMintNFT, Kinds
  <2> QED
    BY <2>1, <2>3, <2>4, OrdinaryStep
<1>9. CASE PriceMintPhantasma
  <2> DEFINE R == {"recipientHoldsToken", "supplyRowExists", "duplicatedSeries"}
  <2>1. PICK tok \in {"ordinary"}, n \in Counts \ {0}, rom \in RomSizes, ram \in RamSizes,
             nft \in BOOLEAN, t \in Truths(R) : \E series \in 1..n :
          Price(MintPhantasmaNonFungible(Quoted, tok, n, series, rom, ram, nft),
                MintPhantasmaNonFungible(Cheapest, tok, n, series, rom, ram, nft),
                MintPhantasmaNonFungible(t, tok, n, series, rom, ram, nft))
    BY <1>9 DEF PriceMintPhantasma
  <2>2. PICK series \in 1..n :
          Price(MintPhantasmaNonFungible(Quoted, tok, n, series, rom, ram, nft),
                MintPhantasmaNonFungible(Cheapest, tok, n, series, rom, ram, nft),
                MintPhantasmaNonFungible(t, tok, n, series, rom, ram, nft))
    BY <2>1
  <2>3. rom \in Nat /\ ram \in Nat /\ n \in Nat /\ series \in Nat
    BY PlanAssumption
  <2>4. /\ Below(MintPhantasmaNonFungible(Cheapest, tok, n, series, rom, ram, nft),
                 MintPhantasmaNonFungible(t, tok, n, series, rom, ram, nft))
        /\ Below(MintPhantasmaNonFungible(t, tok, n, series, rom, ram, nft),
                 MintPhantasmaNonFungible(Quoted, tok, n, series, rom, ram, nft))
    BY <1>2, <1>3, <2>3, MintsBelow
  <2>5. /\ "MintPhantasmaNonFungible" \in Ordinary
        /\ Describe("MintPhantasmaNonFungible") /\ Keep
    BY <1>9 DEF PriceMintPhantasma, Kinds
  <2> QED
    BY <2>2, <2>4, <2>5, OrdinaryStep
<1>10. CASE PriceBurnNFT
  BY <1>10, BurnStep
<1>11. CASE \E a \in Assets : PriceReturn(a)
  BY <1>11, ReturnStep
<1>12. CASE PriceCreateToken
  <2>1. PICK length \in Lengths, bytes \in InfoSizes, extras \in TokenExtras :
          /\ Priceable(length, config.maxSymbol)
          /\ Price(CreateToken(config, length, bytes, extras),
                   CreateToken(config, length, bytes, extras),
                   CreateToken(config, length, bytes, extras))
    BY <1>12 DEF PriceCreateToken
  <2>2. length \in Nat /\ bytes \in Nat
    BY PlanAssumption
  <2>3. Below(CreateToken(config, length, bytes, extras),
              CreateToken(config, length, bytes, extras))
    BY <1>1, <2>1, <2>2, CreateTokenType, NothingBelow
  <2>4. "CreateToken" \in Ordinary /\ Describe("CreateToken") /\ Keep
    BY <1>12 DEF PriceCreateToken, Kinds
  <2> QED
    BY <2>1, <2>3, <2>4, OrdinaryStep
<1>13. CASE PriceCreateSeries
  <2>1. PICK bytes \in InfoSizes, t \in Truths({"seriesHasMetaId"}) :
          Price(CreateTokenSeries(config, Quoted, bytes),
                CreateTokenSeries(config, Cheapest, bytes),
                CreateTokenSeries(config, t, bytes))
    BY <1>13 DEF PriceCreateSeries
  <2>2. bytes \in Nat
    BY PlanAssumption
  <2>3. /\ Below(CreateTokenSeries(config, Cheapest, bytes), CreateTokenSeries(config, t, bytes))
        /\ Below(CreateTokenSeries(config, t, bytes), CreateTokenSeries(config, Quoted, bytes))
    BY <1>1, <1>2, <1>3, <2>2, SeriesBelow
  <2>4. "CreateTokenSeries" \in Ordinary /\ Describe("CreateTokenSeries") /\ Keep
    BY <1>13 DEF PriceCreateSeries, Kinds
  <2> QED
    BY <2>1, <2>3, <2>4, OrdinaryStep
<1>14. CASE PriceRegisterName
  <2>1. PICK length \in Lengths \ {0} :
          /\ Priceable(length, config.maxName)
          /\ Price(RegisterName(config, length), RegisterName(config, length),
                   RegisterName(config, length))
    BY <1>14 DEF PriceRegisterName
  <2>2. length \in Nat
    BY PlanAssumption
  <2>3. Below(RegisterName(config, length), RegisterName(config, length))
    BY <1>1, <2>1, <2>2, RegisterNameType, NothingBelow
  <2>4. "RegisterName" \in Ordinary /\ Describe("RegisterName") /\ Keep
    BY <1>14 DEF PriceRegisterName, Kinds
  <2> QED
    BY <2>1, <2>3, <2>4, OrdinaryStep
<1>15. CASE PriceScript
  BY <1>15, ScriptStep
<1>16. CASE PlanFees
  <2> DEFINE made == [quote |-> Quote(quoted),
                      exact |-> "Script" \notin kinds /\ Quote(cheap) = Quote(quoted)]
  <2>1. Quote(quoted) \in [maxGas : Nat, maxData : Nat, bill : Nat]
    BY <1>1, QuoteType
  <2>2. ("Script" \notin kinds /\ Quote(cheap) = Quote(quoted)) \in BOOLEAN
    OBVIOUS
  <2>3. made \in [quote : [maxGas : Nat, maxData : Nat, bill : Nat], exact : BOOLEAN]
    BY <2>1, <2>2, Zenon
  <2>4. /\ plan' = made
        /\ Quote(quoted)' = Quote(quoted) /\ Quote(cheap)' = Quote(cheap)
    BY <1>16 DEF PlanFees, given, Quote
  <2>5. TypeOK'
    BY <1>1, <1>16, <2>3, <2>4 DEF PlanFees, given, TypeOK
  <2>6. PlanSound'
    BY <1>16, <2>4 DEF PlanFees, PlanSound
  <2>7. Between' /\ DeletedSound' /\ BurnsShrink' /\ ReturnsSound' /\ ApartSound'
    BY <1>16
    DEF PlanFees, given, PlanInv, Between, DeletedSound, BurnsShrink, ReturnsSound, Burns,
        Charged, ApartSound, Listed, HoldsStated
  <2> QED
    BY <2>5, <2>6, <2>7 DEF PlanInv
<1>17. CASE Refuse
  <2>1. TypeOK'
    BY <1>1, <1>17 DEF Refuse, given, TypeOK
  <2>2. PlanSound'
    BY <1>17 DEF Refuse, PlanSound, Planned
  <2>3. Between' /\ DeletedSound' /\ BurnsShrink' /\ ReturnsSound' /\ ApartSound'
    BY <1>17
    DEF Refuse, given, PlanInv, Between, DeletedSound, BurnsShrink, ReturnsSound, Burns, Charged,
        ApartSound, Listed, HoldsStated
  <2> QED
    BY <2>1, <2>2, <2>3 DEF PlanInv
<1>18. CASE UNCHANGED vars
  BY <1>18
  DEF vars, PlanInv, TypeOK, Between, DeletedSound, BurnsShrink, ReturnsSound, PlanSound,
      Planned, Quote, Burns, Charged, ApartSound, Listed, HoldsStated
<1> QED
  BY <1>4, <1>5, <1>6, <1>7, <1>8, <1>9, <1>10, <1>11, <1>12, <1>13, <1>14, <1>15, <1>16,
     <1>17, <1>18
  DEF Next

(* What every round of the loop keeps: the chain's counters lie between the two readings.  *)
THEOREM Invariant == Spec => []PlanInv
<1>1. Init => PlanInv
  BY InitInvariant
<1>2. PlanInv /\ [Next]_vars => PlanInv'
  BY NextInvariant
<1> QED
  BY <1>1, <1>2, PTL DEF Spec

(* The counters stay within their range and a plan is made of numbers.                     *)
THEOREM TypeCorrect == Spec => []TypeOK
<1>1. PlanInv => TypeOK
  BY DEF PlanInv
<1> QED
  BY <1>1, Invariant, PTL

-----------------------------------------------------------------------------
(* The offer and the prediction.                                           *)

\* What the chain stores anew is at most what was quoted, and - budgets apart, and burns that
\* are not as presumed beside other operations - at least what the cheaper readings give.
LEMMA NetBetween ==
    ASSUME PlanInv
    PROVE  /\ (Mixed => stated["romHasMetaId"] # Unstated)
                => NetQuanta(actual) <= NetQuanta(quoted)
           /\ (Mixed => BurnsAsPresumed) /\ "Script" \notin kinds => NetQuanta(cheap) <= NetQuanta(actual)
<1>1. TypeOK /\ Between /\ DeletedSound /\ BurnsShrink
  BY DEF PlanInv
<1>2. CASE ~Burns
  <2>1. /\ cheap.deleted = actual.deleted /\ quoted.deleted = actual.deleted
        /\ actual.new <= quoted.new
        /\ "Script" \notin kinds => cheap.new <= actual.new
    BY <1>1, <1>2 DEF DeletedSound, Between
  <2> QED
    BY <1>1, <2>1, RowsAreNumbers DEF NetQuanta
<1>3. CASE Burns /\ ~Mixed
  <2>1. kinds \subseteq {"BurnNonFungible"}
    BY <1>3 DEF Mixed
  <2>2. /\ cheap.new <= cheap.deleted /\ actual.new <= actual.deleted
        /\ quoted.new <= quoted.deleted
    BY <1>1, <2>1 DEF BurnsShrink
  <2> QED
    BY <1>1, <2>2, RowsAreNumbers DEF NetQuanta
<1>4. CASE Mixed
  <2>1. stated["romHasMetaId"] # Unstated =>
          quoted.deleted <= actual.deleted /\ actual.new <= quoted.new
    BY <1>1 DEF DeletedSound, Between
  <2>2. BurnsAsPresumed /\ "Script" \notin kinds =>
          cheap.deleted = actual.deleted /\ cheap.new <= actual.new
    BY <1>1 DEF DeletedSound, Between, BurnsAsPresumed
  <2> QED
    BY <1>1, <1>4, <2>1, <2>2, RowsAreNumbers DEF NetQuanta
<1> QED
  BY <1>2, <1>3, <1>4

\* What the invariant says of the types the settlement is about.
LEMMA CountersOf ==
    ASSUME PlanInv
    PROVE  /\ config \in Config /\ envelope \in Nat
           /\ quoted \in Counters /\ cheap \in Counters /\ actual \in Counters
  BY PlanAssumption DEF PlanInv, TypeOK

(* However little the caller states of the chain, the gas a plan offers covers the bill    *)
(* and its ceiling covers the storage escrow; a message in which a burn of NFTs stands     *)
(* beside other operations has to state whether the ROM carries a meta id.                 *)
THEOREM OfferIsEnough == Spec => []OfferCovers
<1>1. PlanInv => OfferCovers
  <2> SUFFICES ASSUME PlanInv, Planned, Mixed => stated["romHasMetaId"] # Unstated
               PROVE  /\ ActualBill <= plan.quote.maxGas
                      /\ Escrow(config, actual) <= plan.quote.maxData
    BY DEF OfferCovers
  <2>1. plan.quote = Quote(quoted)
    BY DEF PlanInv, PlanSound
  <2>2. Charged(actual, quoted) /\ actual.new <= quoted.new
    BY DEF PlanInv, Between
  <2>3. NetQuanta(actual) <= NetQuanta(quoted)
    BY NetBetween
  <2>4. /\ Bill(config, actual, envelope) <= Bill(config, quoted, envelope)
        /\ Bill(config, quoted, envelope) <= Offer(config, quoted, envelope)
        /\ Bill(config, actual, envelope) \in Nat
    BY <2>2, <2>3, CountersOf, SettleMonotone
  <2>5. Charged(quoted, quoted) /\ NetQuanta(quoted) <= NetQuanta(quoted)
    BY CountersOf, CountersType DEF Charged
  <2>6. /\ Bill(config, quoted, envelope) \in Nat
        /\ Offer(config, quoted, envelope) \in Nat
    BY <2>5, CountersOf, SettleMonotone
  <2>7. Escrow(config, actual) <= Escrow(config, quoted)
    BY <2>2, CountersOf, EscrowMonotone
  <2> QED
    BY <2>1, <2>4, <2>6, <2>7 DEF Quote, ActualBill
<1> QED
  BY <1>1, Invariant, PTL

(* A plan that calls itself exact names the bill to the unit: between two readings with    *)
(* one quote there is no room.  In a batch that burns NFTs beside other operations this    *)
(* takes a stated meta id, stated holdings of the burner, and ROMs and RAMs of the quanta   *)
(* the plan presumes; with the meta id alone the bill is at most the one that was named.    *)
THEOREM ExactIsExact == Spec => []ExactPredicts
<1>1. PlanInv => ExactPredicts
  <2> SUFFICES ASSUME PlanInv, Planned, plan.exact
               PROVE  /\ (Mixed => BurnsAsPresumed) => plan.quote.bill = ActualBill
                      /\ (Mixed => stated["romHasMetaId"] # Unstated)
                           => ActualBill <= plan.quote.bill
    BY DEF ExactPredicts
  <2>1. /\ plan.quote = Quote(quoted)
        /\ "Script" \notin kinds /\ Quote(cheap) = Quote(quoted)
    <3> DEFINE exact == "Script" \notin kinds /\ Quote(cheap) = Quote(quoted)
    <3>1. plan = [quote |-> Quote(quoted), exact |-> exact]
      BY DEF PlanInv, PlanSound
    <3> HIDE DEF exact
    <3>2. plan.quote = Quote(quoted) /\ exact
      BY <3>1, Zenon
    <3> QED
      BY <3>2 DEF exact
  <2>2. Charged(actual, quoted) /\ Charged(cheap, actual)
    BY <2>1 DEF PlanInv, Between
  <2>3. /\ (Mixed => stated["romHasMetaId"] # Unstated) => NetQuanta(actual) <= NetQuanta(quoted)
        /\ (Mixed => BurnsAsPresumed) =>
             /\ Mixed => stated["romHasMetaId"] # Unstated
             /\ NetQuanta(cheap) <= NetQuanta(actual)
    BY <2>1, NetBetween DEF BurnsAsPresumed
  <2>4. NetQuanta(actual) <= NetQuanta(quoted) =>
          /\ Bill(config, actual, envelope) \in Nat
          /\ Bill(config, actual, envelope) <= Bill(config, quoted, envelope)
    BY <2>2, CountersOf, SettleMonotone
  <2>5. NetQuanta(cheap) <= NetQuanta(actual) =>
          /\ Bill(config, cheap, envelope) \in Nat
          /\ Bill(config, cheap, envelope) <= Bill(config, actual, envelope)
    BY <2>2, CountersOf, SettleMonotone
  <2>6. Bill(config, cheap, envelope) = Bill(config, quoted, envelope)
    BY <2>1 DEF Quote
  <2> QED
    BY <2>1, <2>3, <2>4, <2>5, <2>6 DEF Quote, ActualBill
<1> QED
  BY <1>1, Invariant, PTL

\* A factor of a product lies within the quotient.
LEMMA QuotientCovers ==
    ASSUME NEW n \in Nat, NEW x \in Nat, NEW k \in Nat \ {0}, n * k <= x
    PROVE  n <= x \div k
<1> DEFINE q == x \div k
<1>1. q \in Nat /\ x < (q + 1) * k
  OBVIOUS
<1>2. ~(q + 1 <= n)
  BY <1>1, ProductMonotone
<1> QED
  BY <1>1, <1>2

(* The chain scales every charge by itself and rounds each of them down; scaling their     *)
(* sum once, as settle() does, never quotes less, as long as the sum does not saturate.    *)
THEOREM RoundingIsCovered == Spec => []RoundingCovers
<1>1. PlanInv => RoundingCovers
  <2> SUFFICES ASSUME PlanInv, V2(config),
                      actual.work + ByteUnits(actual, envelope) < MaxWord
               PROVE  ChainBill <= ActualBill
    BY DEF RoundingCovers
  <2> DEFINE w == actual.work
             b == ByteUnits(actual, envelope)
             m == config.multiplier
             sh == config.shift
  <2>1. /\ w \in Nat /\ actual.policy \in Nat /\ m \in Nat /\ sh \in Nat
        /\ config.minimumBill \in Nat /\ apart \in Nat
    BY CountersOf, CountersType, ConfigType DEF PlanInv, TypeOK, Config
  <2>2. b \in Nat
    BY CountersOf, CountersType, FeesAssumption DEF ByteUnits, Clamp
  <2>3. ApartSound
    BY DEF PlanInv
  <2>4. /\ ChainBill = AtLeast(Clamp(apart + MulShift(b, m, sh) + actual.policy),
                               config.minimumBill)
        /\ ActualBill = AtLeast(Clamp(MulShift(w + b, m, sh) + actual.policy),
                                config.minimumBill)
    <3>1. Clamp(w + b) = w + b
      <4> HIDE DEF w, b
      <4>1. w + b \in Nat /\ w + b < MaxWord
        BY <2>1, <2>2 DEF w, b
      <4> QED
        BY <4>1, FeesAssumption DEF Clamp
    <3> QED
      BY <3>1 DEF ChainBill, ActualBill, Bill
  <2>5. CASE sh >= 64
    <3>1. MulShift(b, m, sh) = 0 /\ MulShift(w + b, m, sh) = 0 /\ apart = 0
      BY <2>3, <2>5 DEF MulShift, ApartSound
    <3> HIDE DEF b, w, m, sh
    <3> QED
      BY <2>1, <2>4, <3>1, FeesAssumption DEF AtLeast, Clamp
  <2>6. CASE sh < 64
    <3> DEFINE P == Pow2[sh]
               c == MulShift(b, m, sh)
               F == ((w + b) * m) \div P
    <3>1. sh \in 0..63 /\ w < MaxWord
      BY <2>1, <2>2, <2>6, FeesAssumption
    <3>2. apart * P <= w * m
      BY <2>3, <2>6, <3>1 DEF ApartSound
    <3>3. P \in Nat \ {0} /\ c \in Nat /\ c * P <= b * m
      BY <2>1, <2>2, <3>1, MulShiftBound
    <3>4. w + b \in Nat /\ MulShift(w + b, m, sh) = Clamp(F)
      <4> HIDE DEF w, b, m, sh
      <4>1. w + b \in Nat
        BY <2>1, <2>2
      <4> QED
        BY <2>1, <2>6, <4>1 DEF MulShift
    <3> HIDE DEF b, w, m, sh, P, c
    <3>5. (apart + c) * P <= (w + b) * m /\ (w + b) * m \in Nat
      <4>1. /\ (apart + c) * P = apart * P + c * P /\ (w + b) * m = w * m + b * m
            /\ apart * P \in Nat /\ c * P \in Nat /\ w * m \in Nat /\ b * m \in Nat
        BY <2>1, <2>2, <3>3, ProductMonotone
      <4> QED
        BY <3>2, <3>3, <4>1
    <3>6. F \in Nat /\ apart + c <= F
      <4> DEFINE x == (w + b) * m
      <4>1. x \in Nat /\ (apart + c) * P <= x /\ apart + c \in Nat
        BY <2>1, <3>3, <3>5
      <4> HIDE DEF x
      <4>2. apart + c <= x \div P /\ x \div P \in Nat
        BY <3>3, <4>1, QuotientCovers, QuotientMonotone
      <4> QED
        BY <4>2 DEF x
    <3> HIDE DEF F
    <3> QED
      BY <2>1, <2>4, <3>3, <3>4, <3>6, FeesAssumption DEF AtLeast, Clamp, c
  <2> QED
    BY <2>1, <2>5, <2>6
<1> QED
  BY <1>1, Invariant, PTL
=============================================================================
