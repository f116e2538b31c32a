---------------------------- MODULE PlatformTerms ----------------------------
(***************************************************************************)
(* Fixed point arithmetic (Math.sol) and the fee rules every offering uses *)
(* (PlatformTerms.sol).  Amounts are integers in the smallest unit of      *)
(* their token; Q is the scale of decimal fractions, 10**18 in the code.   *)
(***************************************************************************)
EXTENDS Integers

CONSTANT Q          \* the whole, as a decimal fraction

ASSUME QAssumption == Q \in Nat \ {0} /\ Q % 100 = 0

Least(a, b) == IF a < b THEN a ELSE b
Greatest(a, b) == IF a > b THEN a ELSE b

\* v / d, rounded half up
DivRound(v, d) == (v + (d \div 2)) \div d

\* part / total of amount, multiplying first
Proportion(amount, part, total) == DivRound(amount * part, total)

DecimalFraction(amount, frac) == Proportion(amount, frac, Q)

-----------------------------------------------------------------------------

PLATFORM_FEE_FRACTION == 3 * (Q \div 100)
PLATFORM_NEUMARK_SHARE == 2

\* what the platform keeps of a Neumark reward; the investor gets the rest
PlatformNmk(rewardNmk) == rewardNmk \div PLATFORM_NEUMARK_SHARE
InvestorNmk(rewardNmk) == rewardNmk - PlatformNmk(rewardNmk)

CalculatePlatformTokenFee(tokenAmount) == DivRound(tokenAmount, 50)

CalculateAmountWithoutFee(tokenAmountWithFee) == DivRound(tokenAmountWithFee * 50, 51)

CalculatePlatformFee(amount) == DecimalFraction(amount, PLATFORM_FEE_FRACTION)

=============================================================================
