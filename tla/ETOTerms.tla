------------------------------- MODULE ETOTerms -------------------------------
(***************************************************************************)
(* Terms of one Equity Token Offering: caps, ticket sizes, prices and the  *)
(* whitelist discounts (ETOTerms.sol, ETOTokenTerms.sol).  The constants   *)
(* keep the names of the immutable fields they stand for.                  *)
(***************************************************************************)
EXTENDS PlatformTerms

CONSTANTS
    MIN_NUMBER_OF_TOKENS, MAX_NUMBER_OF_TOKENS, MAX_NUMBER_OF_TOKENS_IN_WHITELIST,
    TOKEN_PRICE_EUR_ULPS,
    EQUITY_TOKENS_PER_SHARE, EQUITY_TOKEN_POWER,
    SHARE_NOMINAL_VALUE_EUR_ULPS,
    MIN_TICKET_EUR_ULPS, MAX_TICKET_EUR_ULPS,
    WHITELIST_DISCOUNT_FRAC, PUBLIC_DISCOUNT_FRAC,
    MAX_INVESTMENT_AMOUNT_EUR_ULPS      \* of the product (constraints); 0 is no limit

\* what the constructors of the terms contracts require of their arguments
ASSUME TokenTermsAssumption ==
    /\ \A c \in {MIN_NUMBER_OF_TOKENS, MAX_NUMBER_OF_TOKENS, MAX_NUMBER_OF_TOKENS_IN_WHITELIST,
                 TOKEN_PRICE_EUR_ULPS, EQUITY_TOKENS_PER_SHARE, EQUITY_TOKEN_POWER,
                 SHARE_NOMINAL_VALUE_EUR_ULPS} : c \in Nat
    /\ MAX_NUMBER_OF_TOKENS >= MAX_NUMBER_OF_TOKENS_IN_WHITELIST
    /\ MAX_NUMBER_OF_TOKENS >= MIN_NUMBER_OF_TOKENS
    /\ MIN_NUMBER_OF_TOKENS >= EQUITY_TOKENS_PER_SHARE
    /\ EQUITY_TOKENS_PER_SHARE > 0
    /\ MAX_NUMBER_OF_TOKENS % EQUITY_TOKENS_PER_SHARE = 0
    /\ SHARE_NOMINAL_VALUE_EUR_ULPS > 0
    /\ EQUITY_TOKEN_POWER > 0
    /\ EQUITY_TOKENS_PER_SHARE % EQUITY_TOKEN_POWER = 0
    /\ TOKEN_PRICE_EUR_ULPS > 0

-----------------------------------------------------------------------------

MAX_AVAILABLE_TOKENS == CalculateAmountWithoutFee(MAX_NUMBER_OF_TOKENS)

MAX_AVAILABLE_TOKENS_IN_WHITELIST ==
    Least(MAX_AVAILABLE_TOKENS, MAX_NUMBER_OF_TOKENS_IN_WHITELIST)

CalculatePriceFraction(priceFrac) ==
    IF priceFrac = 1 THEN TOKEN_PRICE_EUR_ULPS
                     ELSE DecimalFraction(priceFrac, TOKEN_PRICE_EUR_ULPS)

\* tokens bought for an amount at a price, always rounded down
TokensFor(eurUlps, price) == (eurUlps * EQUITY_TOKEN_POWER) \div price

FULL_TOKEN_PRICE_FRACTION == CalculatePriceFraction(Q - PUBLIC_DISCOUNT_FRAC)

CalculateTokenAmount(committedEurUlps) ==
    TokensFor(committedEurUlps, FULL_TOKEN_PRICE_FRACTION)

CalculateEurUlpsAmount(tokenAmount) ==
    Proportion(tokenAmount, FULL_TOKEN_PRICE_FRACTION, EQUITY_TOKEN_POWER)

\* The whitelist entry of an investor; NotWhitelisted is the empty slot.
WhitelistTickets == [discountAmountEurUlps : Nat, fullTokenPriceFrac : Nat]
NotWhitelisted == [discountAmountEurUlps |-> 0, fullTokenPriceFrac |-> 0]

\* entries addWhitelistInvestorPrivate accepts
ValidWhitelistTicket(ticket) ==
    /\ ticket.fullTokenPriceFrac > 0 \/ ticket.discountAmountEurUlps = 0
    /\ ticket.fullTokenPriceFrac <= Q

IsWhitelisted(ticket) == ticket.fullTokenPriceFrac > 0

(***************************************************************************)
(* The contribution of an investor with whitelist entry wl who already put *)
(* `existing` in and adds `new`.  The part of `new` that still fits in the *)
(* investor's fixed slot is sold at the slot's price, the rest at the      *)
(* whitelist price or along the (flat) curve.                              *)
(***************************************************************************)
DiscountedAmount(wl, existing, new) ==
    IF existing < wl.discountAmountEurUlps
    THEN Least(new, wl.discountAmountEurUlps - existing)
    ELSE 0

\* a purchase in a slot whose price rounds to 0 divides by zero and is reverted
SlotPriced(wl, existing, new) ==
    DiscountedAmount(wl, existing, new) > 0 => CalculatePriceFraction(wl.fullTokenPriceFrac) > 0

CalculateContribution(wl, existing, new, applyWhitelistDiscounts) ==
    LET discounted == IF applyWhitelistDiscounts THEN DiscountedAmount(wl, existing, new) ELSE 0
        remaining  == new - discounted
        fixed == IF discounted > 0
                 THEN TokensFor(discounted, CalculatePriceFraction(wl.fullTokenPriceFrac))
                 ELSE 0
        curve == IF applyWhitelistDiscounts /\ WHITELIST_DISCOUNT_FRAC > 0
                 THEN TokensFor(remaining, CalculatePriceFraction(Q - WHITELIST_DISCOUNT_FRAC))
                 ELSE CalculateTokenAmount(remaining)
    IN [minTicket   |-> IF applyWhitelistDiscounts /\ wl.discountAmountEurUlps > 0
                        THEN Least(wl.discountAmountEurUlps, MIN_TICKET_EUR_ULPS)
                        ELSE MIN_TICKET_EUR_ULPS,
        maxTicket   |-> IF applyWhitelistDiscounts
                        THEN Greatest(wl.discountAmountEurUlps, MAX_TICKET_EUR_ULPS)
                        ELSE MAX_TICKET_EUR_ULPS,
        tokens      |-> fixed + (IF remaining > 0 THEN curve ELSE 0),
        fixedTokens |-> fixed]

-----------------------------------------------------------------------------
(***************************************************************************)
(* What the offering computes from its terms (ETOCommitment.sol).          *)
(***************************************************************************)

MIN_TICKET_TOKENS == CalculateTokenAmount(MIN_TICKET_EUR_ULPS)

\* the totals are those of the offering, the rest is the purchase to be added to them
IsCapExceeded(total, discounts, tokens, fixedTokens, equivEurUlps) ==
    \/ total.tokens + tokens > MAX_AVAILABLE_TOKENS
    \/ discounts /\ total.tokens + tokens - total.fixedTokens - fixedTokens
                        > MAX_AVAILABLE_TOKENS_IN_WHITELIST
    \/ MAX_INVESTMENT_AMOUNT_EUR_ULPS > 0
       /\ equivEurUlps + total.equivEurUlps > MAX_INVESTMENT_AMOUNT_EUR_ULPS

\* tokens that are missing to a whole number of shares
MissingToWholeShare(tokens) ==
    IF tokens % EQUITY_TOKENS_PER_SHARE = 0
    THEN 0 ELSE EQUITY_TOKENS_PER_SHARE - (tokens % EQUITY_TOKENS_PER_SHARE)

\* faulty: nothing special about an offering that sold everything
TokenParticipationFee_NoMaximum(totalTokenAmount) ==
    LET fee == CalculatePlatformTokenFee(totalTokenAmount)
    IN fee + MissingToWholeShare(totalTokenAmount + fee)

\* tokens issued to the platform on top of those sold, up to the next whole share
TokenParticipationFee(totalTokenAmount) ==
    LET fee == CalculatePlatformTokenFee(totalTokenAmount)
    IN IF totalTokenAmount = MAX_AVAILABLE_TOKENS
       THEN MAX_NUMBER_OF_TOKENS - MAX_AVAILABLE_TOKENS
       ELSE fee + MissingToWholeShare(totalTokenAmount + fee)

-----------------------------------------------------------------------------

\* requireValidTerms, without the durations (see ETOTimedStateMachine)
RequireValidTerms ==
    /\ MAX_AVAILABLE_TOKENS >= MIN_NUMBER_OF_TOKENS
    /\ MIN_TICKET_EUR_ULPS >= TOKEN_PRICE_EUR_ULPS
    /\ CalculateEurUlpsAmount(MAX_AVAILABLE_TOKENS) >= MIN_TICKET_EUR_ULPS
    /\ \/ MAX_INVESTMENT_AMOUNT_EUR_ULPS = 0
       \/ CalculateEurUlpsAmount(MIN_NUMBER_OF_TOKENS) <= MAX_INVESTMENT_AMOUNT_EUR_ULPS

ASSUME TermsAssumption ==
    /\ MIN_TICKET_EUR_ULPS \in Nat /\ MAX_TICKET_EUR_ULPS \in Nat
    /\ MIN_TICKET_EUR_ULPS <= MAX_TICKET_EUR_ULPS
    /\ 100 * WHITELIST_DISCOUNT_FRAC \in 0 .. 99 * Q
    /\ 100 * PUBLIC_DISCOUNT_FRAC \in 0 .. 99 * Q
    /\ WHITELIST_DISCOUNT_FRAC \in Nat /\ PUBLIC_DISCOUNT_FRAC \in Nat
    /\ MAX_INVESTMENT_AMOUNT_EUR_ULPS \in Nat
    /\ RequireValidTerms
    \* a price that rounds to 0 makes every purchase a division by zero
    /\ FULL_TOKEN_PRICE_FRACTION > 0
    /\ CalculatePriceFraction(Q - WHITELIST_DISCOUNT_FRAC) > 0

=============================================================================
