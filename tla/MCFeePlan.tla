------------------------------ MODULE MCFeePlan ------------------------------
(* Values for the constants of FeePlan.                                     *)
EXTENDS FeePlan

\* TLC's integers have 32 bits; no product here comes near the largest of them.
MCPow2 == [n \in 0..64 |-> IF n <= 30 THEN 2^n ELSE 2147483647]

\* A chain of gas model v2 without a shift.
Plain == [version |-> 1, multiplier |-> 3, shift |-> 0, minimumBill |-> 100,
          minimumOffer |-> 10, escrow |-> 7, transfer |-> 10, query |-> 9, perByte |-> 2,
          createTokenBase |-> 500, createTokenSymbol |-> 400, createSeries |-> 250,
          registerName |-> 900, policyTokenBase |-> 500, policyTokenSymbol |-> 400,
          policySeries |-> 250, policyName |-> 900, maxName |-> 10, maxSymbol |-> 0]

\* One that rounds, and whose floor lies among the bills.
Shifted == [Plain EXCEPT !.multiplier = 5, !.shift = 3, !.minimumBill = 4800,
                         !.minimumOffer = 5000]

\* One whose prices saturate; one whose shift leaves nothing; one of gas model v1.
Hostile == [Plain EXCEPT !.multiplier = 12, !.transfer = 50000, !.query = 9000]
Oversized == [Plain EXCEPT !.shift = 64]
Original == [Plain EXCEPT !.version = 0, !.multiplier = 5, !.shift = 1]

MCConfigs == {Plain, Shifted, Hostile, Oversized, Original}

PlainOnly == {Plain}

States(x) == [f \in Facts |-> x]
MCStatements ==
    {States(Unstated), States(TRUE), [States(FALSE) EXCEPT !["bigFungible"] = Unstated],
     [States(Unstated) EXCEPT !["romHasMetaId"] = FALSE, !["tokenBurnedBefore"] = TRUE],
     [States(TRUE) EXCEPT !["supplyRowExists"] = Unstated],
     [States(TRUE) EXCEPT !["duplicatedSeries"] = Unstated, !["bigFungible"] = FALSE]}

NothingStated == {States(Unstated)}

MCAssets ==
    {[token |-> "gas", instances |-> 0, burnerHolds |-> FALSE],
     [token |-> "ordinary", instances |-> 0, burnerHolds |-> Unstated],
     [token |-> "ordinary", instances |-> 1, burnerHolds |-> FALSE],
     [token |-> "ordinary", instances |-> 2, burnerHolds |-> Unstated]}

\* Nothing comes back; three assets, two of which the burner may hold; or an NFT that it does not.
MCListings ==
    {{}, {a \in MCAssets : a.instances # 1},
     {[token |-> "ordinary", instances |-> 1, burnerHolds |-> FALSE]}}

MCAllowance == [units |-> 500, events |-> 20, quanta |-> 2]
MCExtras == {{}, {"nonFungible", "staking_org_id"}}
=============================================================================
