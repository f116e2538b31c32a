--------------------------- MODULE MCETOCommitment ---------------------------
(***************************************************************************)
(* A small offering.  A share has 4 tokens and a token costs 4; 76 tokens  *)
(* are the case where fee and amount without fee are not inverse (75 + 2). *)
(* Two investments of 100 or 200 reach the minimum, three units of 100 the *)
(* maximum, if one of them is the discounted whitelist slot.               *)
(***************************************************************************)
EXTENDS ETOCommitment

CONSTANTS a, b

MCPayments == [c \in Currencies |-> IF c = "ETH" THEN {10} ELSE {100, 200}]

MCBalances == [c \in Currencies |-> [i \in Investors |-> IF c = "ETH" THEN 10 ELSE IF i = a THEN 100 ELSE 200]]

\* less of both: enough to reach the minimum, the maximum, and to fail
MCSettlementBalances ==
    [c \in Currencies |-> [i \in Investors |-> IF c = "ETH" THEN IF i = a THEN 10 ELSE 0 ELSE 100]]

\* b has ICBM funds in EUR, invests a part of them and owes an odd number of Neumarks
MCLocks ==
    [c \in Currencies |->
       IF c = "ETH" THEN EmptyLock
       ELSE LockFunds(EmptyLock, b, 150, 3, 2)]

\* a has a fixed slot at half the price, b is not on the whitelist
Slot == [discountAmountEurUlps |-> 100, fullTokenPriceFrac |-> 50]
MCWhitelists == {[i \in Investors |-> IF i = a THEN Slot ELSE NotWhitelisted]}

\* entries are only removed
MCWhitelistEdits == {NotWhitelisted}

=============================================================================
