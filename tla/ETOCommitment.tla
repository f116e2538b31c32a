---------------------------- MODULE ETOCommitment ----------------------------
(***************************************************************************)
(* An Equity Token Offering (ETOCommitment.sol) with everything its money  *)
(* passes through: the payment tokens and their transfer controller, the   *)
(* Neumark and equity token balances, and the two ICBM wallets.            *)
(*                                                                         *)
(* Every external function of the offering is one action.  It carries a    *)
(* world w through the steps of the transaction,                           *)
(*   w.eto     storage of the offering, with its timed state machine       *)
(*   w.bal     balances of the payment tokens                              *)
(*   w.neu     balances of the Neumark                                     *)
(*   w.equity  balances of the equity token                                *)
(*   w.locks   the lock record of each ICBM wallet                         *)
(*   w.ok      no requirement failed so far: a transaction that is not ok  *)
(*             is reverted and does not happen                             *)
(* first the timed transitions with their effects (Before), then the body, *)
(* then the logic transitions with theirs (After).                         *)
(***************************************************************************)
EXTENDS ETOTerms, LockRecords

CONSTANTS
    WHITELIST_DURATION, PUBLIC_DURATION, SIGNING_DURATION, CLAIM_DURATION,
    DATE_TO_WHITELIST_MIN_DURATION,
    MaxTime, StartDates,            \* bounds of the clock, see ETOTimedStateMachine
    InitialBalances,                \* what each investor holds of each payment token
    InitialLocks,                   \* the lock record of each ICBM wallet
    InitialWhitelists,              \* bound: the whitelists offerings start with
    WhitelistEdits,                 \* bound: the entries the whitelist admin writes later
    Payments,                       \* bound: the amounts invested, per payment token
    Rates,                          \* bound: the ETH/EUR rates the oracle reports
    NeuRewards,                     \* bound: what Neumark.issueForEuro returns
    Urls,                           \* bound: the agreements the company may sign
    Fallible                        \* bound: who may lose and regain valid KYC

Currencies == {"ETH", "EUR"}
Parties == {"eto", "lock", "nominee", "company", "disbursal"}
NoUrl == "none"                     \* an empty string

ASSUME CommitmentAssumption ==
    /\ Commitments = {"eto"}
    /\ Investors \cap (Parties \cup {"operator", "portfolio"}) = {}
    /\ {NoUrl, "unconfirmed"} \cap Urls = {}

\* What the constructors check of the durations; the locks are those of a wallet that has
\* nothing pending in this offering, and inputs have the types of the code.
ASSUME InputAssumption ==
    /\ \A d \in {WHITELIST_DURATION, PUBLIC_DURATION, SIGNING_DURATION, CLAIM_DURATION,
                 DATE_TO_WHITELIST_MIN_DURATION, MaxTime} : d \in Nat
    /\ SIGNING_DURATION > 0 /\ CLAIM_DURATION > 0
    /\ StartDates \subseteq Nat \ {0}
    /\ InitialBalances \in [Currencies -> [Investors -> Nat]]
    /\ InitialLocks \in [Currencies -> Locks]
    /\ \A c \in Currencies :
          /\ SoundLock(InitialLocks[c])
          /\ \A i \in Investors : InitialLocks[c].commitments["eto"][i] = NoMoney
          /\ Payments[c] \subseteq Nat
    /\ InitialWhitelists \subseteq [Investors -> WhitelistTickets]
    /\ \A wl \in InitialWhitelists : \A i \in Investors : ValidWhitelistTicket(wl[i])
    /\ WhitelistEdits \subseteq WhitelistTickets
    /\ Rates \subseteq Nat /\ NeuRewards \subseteq Nat
    /\ Fallible \subseteq Investors \cup {"nominee", "company"}

VARIABLES
    eto, bal, neu, equity, locks,
    whitelist,                      \* ETOTerms._whitelist
    verified,                       \* who has valid claims and no frozen account
    now

vars == <<eto, bal, neu, equity, locks, whitelist, verified, now>>

(***************************************************************************)
(* The timed state machine of this offering.                               *)
(***************************************************************************)
Totals(e) == [tokens |-> e.totalTokenAmount, fixedTokens |-> e.totalFixedSlotsTokenAmount,
              equivEurUlps |-> e.totalEquivEurUlps]

MinReached(e) == e.totalTokenAmount >= MIN_NUMBER_OF_TOKENS

\* not even a minimum ticket fits; 1 is added because its tokens were rounded down
CapExceeded(e) ==
    IsCapExceeded(Totals(e), FALSE, MIN_TICKET_TOKENS + 1, 0, MIN_TICKET_EUR_ULPS)

Confirmed(e) == e.nomineeSignedUrl # "unconfirmed"

SM == INSTANCE ETOTimedStateMachine WITH
          machine <- eto.machine, minReached <- MinReached(eto),
          capExceeded <- CapExceeded(eto), confirmed <- Confirmed(eto)

Tickets == [equivEurUlps : Nat, rewardNmkUlps : Nat, equityTokenAmount : Nat,
            amount : [Currencies -> Nat], usedLockedAccount : BOOLEAN, settled : BOOLEAN]

NoTicket == [equivEurUlps |-> 0, rewardNmkUlps |-> 0, equityTokenAmount |-> 0,
             amount |-> [c \in Currencies |-> 0], usedLockedAccount |-> FALSE, settled |-> FALSE]

Offerings ==
    [machine : SM!Machines, tickets : [Investors -> Tickets], agreements : Nat,
     totalEquivEurUlps : Nat, totalTokenAmount : Nat, totalFixedSlotsTokenAmount : Nat,
     totalInvestors : Nat, additionalContribution : [Currencies -> Nat],
     platformFee : [Currencies -> Nat], newShares : Nat, tokenParticipationFeeAmount : Nat,
     signedUrl : Urls \cup {NoUrl}, nomineeSignedUrl : Urls \cup {NoUrl, "unconfirmed"}]

NewOffering ==
    [machine |-> SM!InitMachine, tickets |-> [i \in Investors |-> NoTicket], agreements |-> 0,
     totalEquivEurUlps |-> 0, totalTokenAmount |-> 0, totalFixedSlotsTokenAmount |-> 0,
     totalInvestors |-> 0, additionalContribution |-> [c \in Currencies |-> 0],
     platformFee |-> [c \in Currencies |-> 0], newShares |-> 0, tokenParticipationFeeAmount |-> 0,
     signedUrl |-> NoUrl, nomineeSignedUrl |-> "unconfirmed"]

Init ==
    /\ eto = NewOffering
    /\ bal = [c \in Currencies |-> [p \in Investors \cup Parties |->
                 IF p \in Investors THEN InitialBalances[c][p]
                 ELSE IF p = "lock" THEN InitialLocks[c].total ELSE 0]]
    /\ neu = [p \in Investors \cup {"eto", "operator"} |->
                 IF p \in Investors
                 THEN SumFunction([c \in Currencies |-> InitialLocks[c].accounts[p].neumarksDue])
                 ELSE 0]
    /\ equity = [p \in Investors \cup {"eto", "portfolio"} |-> 0]
    /\ locks = InitialLocks
    /\ whitelist \in InitialWhitelists
    /\ verified = Investors \cup {"nominee", "company"}
    /\ now = 0

-----------------------------------------------------------------------------

World == [eto |-> eto, bal |-> bal, neu |-> neu, equity |-> equity, locks |-> locks, ok |-> TRUE]

\* a requirement of the running transaction
Require(w, condition) == [w EXCEPT !.ok = @ /\ condition]

Moved(balances, from, to, amount) == [balances EXCEPT ![from] = @ - amount, ![to] = @ + amount]

\* isTransferAllowedPrivate for a transfer out of the offering; ether tokens move freely
MayReceive(c, to) == c = "ETH" \/ to \in {"lock", "disbursal"} \cup verified

Pay(w, c, to, amount) ==
    LET v == Require(w, MayReceive(c, to) /\ w.bal[c]["eto"] >= amount)
    IN [v EXCEPT !.bal[c] = Moved(@, "eto", to, amount)]

DistributeNeu(w, to, amount) ==
    [Require(w, w.neu["eto"] >= amount) EXCEPT !.neu = Moved(@, "eto", to, amount)]

DistributeTokens(w, to, amount) ==
    [Require(w, w.equity["eto"] >= amount) EXCEPT !.equity = Moved(@, "eto", to, amount)]

-----------------------------------------------------------------------------
(***************************************************************************)
(* Effects of entering a state (mAfterTransition).                         *)
(***************************************************************************)

\* faulty: limited by what the offering holds, the platform fee included
CapitalIncrease_OfBalance(w, shares, contribution) ==
    Least(SHARE_NOMINAL_VALUE_EUR_ULPS * shares, w.bal["EUR"]["eto"])

\* nominal value of the new shares, as far as the EUR contribution covers it
CapitalIncrease(w, shares, contribution) ==
    Least(SHARE_NOMINAL_VALUE_EUR_ULPS * shares, contribution["EUR"])

\* faulty: the fees are computed but not taken off
NetContribution_Gross(e, fee) == e.additionalContribution

NetContribution(e, fee) == [c \in Currencies |-> e.additionalContribution[c] - fee[c]]

OnSigningTransition(w) ==
    LET tokenFee == TokenParticipationFee(w.eto.totalTokenAmount)
        issued   == w.eto.totalTokenAmount + tokenFee
        shares   == issued \div EQUITY_TOKENS_PER_SHARE
        fee == [c \in Currencies |-> CalculatePlatformFee(w.eto.additionalContribution[c])]
        net == NetContribution(w.eto, fee)
        capital  == CapitalIncrease(w, shares, net)
        v == Require(w, issued % EQUITY_TOKENS_PER_SHARE = 0)
    IN [Pay(v, "EUR", "nominee", capital) EXCEPT
            !.eto.newShares = shares,
            !.eto.platformFee = fee,
            !.eto.tokenParticipationFeeAmount = tokenFee,
            !.eto.additionalContribution = [net EXCEPT !["EUR"] = @ - capital]]

\* faulty: the platform's tokens are not issued
IssuedTokens_WithoutFee(e) == e.totalTokenAmount

IssuedTokens(e) == e.totalTokenAmount + e.tokenParticipationFeeAmount

PayIfAny(w, c, to, amount) == IF amount > 0 THEN Pay(w, c, to, amount) ELSE w

OnClaimTransition(w) ==
    LET w1 == DistributeNeu(w, "operator", PlatformNmk(w.neu["eto"]))
        w2 == PayIfAny(w1, "ETH", "company", w.eto.additionalContribution["ETH"])
        w3 == PayIfAny(w2, "EUR", "company", w.eto.additionalContribution["EUR"])
    IN [w3 EXCEPT !.equity["eto"] = @ + IssuedTokens(w.eto)]

\* all Neumarks generated in the offering are burned
OnRefundTransition(w) == [w EXCEPT !.neu["eto"] = 0]

OnPayoutTransition(w) ==
    LET w1 == PayIfAny(w,  "ETH", "disbursal", w.eto.platformFee["ETH"])
        w2 == PayIfAny(w1, "EUR", "disbursal", w.eto.platformFee["EUR"])
    IN DistributeTokens(w2, "portfolio", w.eto.tokenParticipationFeeAmount)

\* The machine moves to m, and every state it enters on the way has its effects.
MoveTo(w, m) ==
    LET entered == {hop[2] : hop \in m.hops \ w.eto.machine.hops}
        w0 == [w EXCEPT !.eto.machine = m]
        w1 == IF SM!Signing \in entered THEN OnSigningTransition(w0) ELSE w0
        w2 == IF SM!Claim   \in entered THEN OnClaimTransition(w1)   ELSE w1
        w3 == IF SM!Payout  \in entered THEN OnPayoutTransition(w2)  ELSE w2
    IN IF SM!Refund \in entered THEN OnRefundTransition(w3) ELSE w3

\* the timed transitions a transaction starts with
Before(w) ==
    LET m == SM!Begin(w.eto.machine)
    IN MoveTo([w EXCEPT !.eto.machine = m], SM!AdvanceTimed(m, now, MinReached(w.eto)))

\* faulty: the transaction that fills the offering leaves it open
After_NoLogicTransitions(w) == w

\* the logic transitions it ends with
After(w) == MoveTo(w, SM!AdvanceLogic(w.eto.machine, now, MinReached(w.eto),
                                      CapExceeded(w.eto), Confirmed(w.eto)))

StateOf(w) == w.eto.machine.state

\* the transaction takes place as w
Become(w) ==
    /\ w.ok
    /\ eto' = w.eto /\ bal' = w.bal /\ neu' = w.neu /\ equity' = w.equity /\ locks' = w.locks

-----------------------------------------------------------------------------
(***************************************************************************)
(* Investing (tokenFallback).                                              *)
(***************************************************************************)
EurEquivalent(c, amount, rate) == IF c = "EUR" THEN amount ELSE DecimalFraction(amount, rate)

\* faulty: the investors' halves are handed out in full
RewardOf_NotReduced(issued) == InvestorNmk(issued)

\* the investor's part, reduced so that the roundings of all investors fit the total
RewardOf(issued) ==
    IF InvestorNmk(issued) > 0 THEN InvestorNmk(issued) - (PLATFORM_NEUMARK_SHARE - 1) ELSE 0

\* the assertion that goes with it
RewardFits(issued) == InvestorNmk(issued) = 0 \/ InvestorNmk(issued) > PLATFORM_NEUMARK_SHARE - 1

\* faulty: the flag tells about the last investment only
UpdateInvestorTicket_LastWallet(ticket, p) ==
    [ticket EXCEPT !.equivEurUlps = @ + p.equivEurUlps,
                   !.rewardNmkUlps = @ + p.rewardNmk,
                   !.equityTokenAmount = @ + p.tokens,
                   !.amount[p.currency] = @ + p.amount,
                   !.usedLockedAccount = p.viaLock]

UpdateInvestorTicket(ticket, p) ==
    [ticket EXCEPT !.equivEurUlps = @ + p.equivEurUlps,
                   !.rewardNmkUlps = @ + p.rewardNmk,
                   !.equityTokenAmount = @ + p.tokens,
                   !.amount[p.currency] = @ + p.amount,
                   !.usedLockedAccount = @ \/ p.viaLock]

\* faulty: an investor is new until the first EUR investment
IsFirstInvestment_InEur(ticket) == ticket.amount["EUR"] = 0

IsFirstInvestment(ticket) == ticket.equivEurUlps = 0

UpdateTotalInvestment(e, p, first) ==
    [e EXCEPT !.totalTokenAmount = @ + p.tokens,
              !.totalFixedSlotsTokenAmount = @ + p.fixedTokens,
              !.totalInvestors = IF first THEN @ + 1 ELSE @,
              !.totalEquivEurUlps = @ + p.equivEurUlps,
              !.additionalContribution[p.currency] = @ + p.amount]

\* The offering received `amount` from i or from the ICBM wallet of i; the oracle says
\* `rate`, and Neumark would issue `issued` for new money.
TokenFallback(w, i, viaLock, c, amount, rate, issued) ==
    LET ticket    == w.eto.tickets[i]
        discounts == StateOf(w) = SM!Whitelist
        equiv     == EurEquivalent(c, amount, rate)
        k         == CalculateContribution(whitelist[i], ticket.equivEurUlps, equiv, discounts)
        reward    == IF viaLock THEN 0 ELSE issued
        p == [currency |-> c, amount |-> amount, equivEurUlps |-> equiv, tokens |-> k.tokens,
              fixedTokens |-> k.fixedTokens, viaLock |-> viaLock, rewardNmk |-> RewardOf(reward)]
        v == Require(w, /\ StateOf(w) \in {SM!Whitelist, SM!Public}
                        /\ i \in verified
                        /\ discounts => SlotPriced(whitelist[i], ticket.equivEurUlps, equiv)
                        /\ equiv + ticket.equivEurUlps >= k.minTicket
                        /\ k.tokens >= EQUITY_TOKEN_POWER
                        /\ equiv + ticket.equivEurUlps <= k.maxTicket
                        /\ ~IsCapExceeded(Totals(w.eto), discounts, k.tokens, k.fixedTokens, equiv)
                        /\ discounts => IsWhitelisted(whitelist[i]) \/ viaLock
                        /\ RewardFits(reward))
        booked == [UpdateTotalInvestment(w.eto, p, IsFirstInvestment(ticket)) EXCEPT
                       !.tickets[i] = UpdateInvestorTicket(@, p)]
    IN [v EXCEPT !.neu["eto"] = @ + reward, !.eto = booked]

-----------------------------------------------------------------------------
(***************************************************************************)
(* Settling a ticket.                                                      *)
(***************************************************************************)
HasOpenTicket(e, i) == ~e.tickets[i].settled /\ e.tickets[i].equivEurUlps > 0

\* faulty: claiming ends with the payout
ClaimIsOpen_UntilPayout(s) == s = SM!Claim

ClaimIsOpen(s) == s \in {SM!Claim, SM!Payout}

ClaimTokens(w, i) ==
    LET ticket == w.eto.tickets[i]
        w1 == [w EXCEPT !.eto.tickets[i].settled = TRUE]
        w2 == DistributeTokens(DistributeNeu(w1, i, ticket.rewardNmkUlps), i, ticket.equityTokenAmount)
        w3 == IF ticket.usedLockedAccount
              THEN [w2 EXCEPT !.locks = [c \in Currencies |-> Claimed(@[c], "eto", i)]]
              ELSE w2
    IN IF HasOpenTicket(w.eto, i) THEN w3 ELSE w

\* the wallet takes back what it has pending, once the offering allowed it to
RefundToLock(w, i, c, amount) ==
    [Pay(Require(w, CanRefund(w.locks[c], "eto", i)), c, "lock", amount)
        EXCEPT !.locks[c] = Refunded(@, "eto", i)]

\* faulty: the investor gets the whole amount, whatever went back to the wallet
InvestorPart_Whole(amount, pending) == amount

InvestorPart(amount, pending) == amount - pending

RefundSingleToken(w, i, c) ==
    LET ticket  == w.eto.tickets[i]
        amount  == ticket.amount[c]
        pending == IF ticket.usedLockedAccount THEN w.locks[c].commitments["eto"][i].balance ELSE 0
        v == Require(w, pending <= amount)
    IN IF amount = 0 THEN w
       ELSE PayIfAny(IF pending > 0 THEN RefundToLock(v, i, c, pending) ELSE v,
                     c, i, InvestorPart(amount, pending))

RefundTokens(w, i) ==
    LET w1 == [w EXCEPT !.eto.tickets[i].settled = TRUE]
    IN IF HasOpenTicket(w.eto, i) THEN RefundSingleToken(RefundSingleToken(w1, i, "ETH"), i, "EUR")
       ELSE w

-----------------------------------------------------------------------------
(***************************************************************************)
(* The transactions.                                                       *)
(***************************************************************************)

\* the nominee publishes the agreement investors accept, until a start date is set
AmendAgreement ==
    /\ SM!StartOf(eto.machine, SM!Whitelist) = 0
    /\ eto.agreements = 0                        \* bound: one amendment
    /\ eto' = [eto EXCEPT !.agreements = @ + 1]
    /\ UNCHANGED <<bal, neu, equity, locks, whitelist, verified, now>>

SetStartDate(startDate) ==
    LET w == Before(World)
    IN /\ w.eto.agreements > 0
       /\ SM!CanSetStartDate(w.eto.machine, now, startDate)
       /\ Become(After([w EXCEPT !.eto.machine = SM!RunStateMachine(@, startDate)]))
       /\ UNCHANGED <<whitelist, verified, now>>

\* ERC223 transfer of the investor to the offering
Invest(i, c, amount, rate, issued) ==
    LET w == [World EXCEPT !.bal[c] = Moved(@, i, "eto", amount)]
    IN /\ bal[c][i] >= amount
       /\ Become(After(TokenFallback(Before(w), i, FALSE, c, amount, rate, issued)))
       /\ UNCHANGED <<whitelist, verified, now>>

\* LockedAccount.transfer of the investor
InvestLocked(i, c, amount, rate) ==
    LET w == [World EXCEPT !.bal[c] = Moved(@, "lock", "eto", amount),
                           !.locks[c] = InvestFunds(@, "eto", i, amount)]
    IN /\ CanInvest(locks[c], i, amount)
       /\ Become(After(TokenFallback(Before(w), i, TRUE, c, amount, rate, 0)))
       /\ UNCHANGED <<whitelist, verified, now>>

\* faulty: the company may exchange the agreement later
CompanyMaySign_Later(s) == s \in {SM!Signing, SM!Claim}

CompanyMaySign(s) == s = SM!Signing

CompanySignsInvestmentAgreement(url) ==
    LET w == Before(World)
    IN /\ CompanyMaySign(StateOf(w))
       /\ Become(After([w EXCEPT !.eto.signedUrl = url]))
       /\ UNCHANGED <<whitelist, verified, now>>

\* the nominee has to name the agreement that is stored, which may be the empty one
NomineeConfirmsInvestmentAgreement(url) ==
    LET w == Before(World)
    IN /\ StateOf(w) = SM!Signing
       /\ url = w.eto.signedUrl
       /\ Become(After([w EXCEPT !.eto.nomineeSignedUrl = url]))
       /\ UNCHANGED <<whitelist, verified, now>>

Claim(i) ==
    LET w == Before(World)
    IN /\ ClaimIsOpen(StateOf(w))
       /\ Become(After(ClaimTokens(w, i)))
       /\ UNCHANGED <<whitelist, verified, now>>

Refund(i) ==
    LET w == Before(World)
    IN /\ StateOf(w) = SM!Refund
       /\ Become(After(RefundTokens(w, i)))
       /\ UNCHANGED <<whitelist, verified, now>>

Payout ==
    LET w == Before(World)
    IN /\ StateOf(w) = SM!Payout
       /\ Become(After(w))
       /\ UNCHANGED <<whitelist, verified, now>>

HandleStateTransitions ==
    /\ Become(Before(World))
    /\ UNCHANGED <<whitelist, verified, now>>

\* LockedAccount.unlock
Unlock(i, c) ==
    LET account == locks[c].accounts[i]
        penalty == Penalty(account, now)
        charged == Moved(bal[c], "lock", "disbursal", penalty)
    IN /\ account.balance > 0
       /\ neu[i] >= account.neumarksDue
       /\ MayReceive(c, i)
       /\ locks' = [locks EXCEPT ![c] = RemoveInvestor(@, i)]
       /\ neu' = [neu EXCEPT ![i] = @ - account.neumarksDue]
       /\ bal' = [bal EXCEPT ![c] = Moved(charged, "lock", i, account.balance - penalty)]
       /\ UNCHANGED <<eto, equity, whitelist, verified, now>>

\* the whitelist admin adds, changes or (with the empty entry) removes an investor
SetWhitelisted(i, ticket) ==
    /\ ValidWhitelistTicket(ticket)
    /\ whitelist' = [whitelist EXCEPT ![i] = ticket]
    /\ UNCHANGED <<eto, bal, neu, equity, locks, verified, now>>

\* identity claims are revoked or an account is frozen, and the other way round
ChangeVerification(p) ==
    /\ verified' = (verified \cup {p}) \ (verified \cap {p})
    /\ UNCHANGED <<eto, bal, neu, equity, locks, whitelist, now>>

\* When the offering failed after Signing, the nominee sends the nominal value back, in
\* a plain transfer that calls nothing (bound: all of it, and only then).
NomineeReturnsCapital ==
    /\ eto.machine.state = SM!Refund
    /\ "nominee" \in verified
    /\ bal' = [bal EXCEPT !["EUR"] = Moved(@, "nominee", "eto", bal["EUR"]["nominee"])]
    /\ UNCHANGED <<eto, neu, equity, locks, whitelist, verified, now>>

Tick ==
    /\ now < MaxTime
    /\ now' = now + 1
    /\ UNCHANGED <<eto, bal, neu, equity, locks, whitelist, verified>>

InvestorActs(i) ==
    \/ \E c \in Currencies, rate \in Rates :
          \E amount \in Payments[c] :
             \/ \E issued \in NeuRewards : Invest(i, c, amount, rate, issued)
             \/ InvestLocked(i, c, amount, rate)
    \/ \E c \in Currencies : Unlock(i, c)
    \/ Claim(i)
    \/ Refund(i)

Next ==
    \/ \E i \in Investors : InvestorActs(i)
    \/ AmendAgreement
    \/ \E startDate \in StartDates : SetStartDate(startDate)
    \/ \E url \in Urls : CompanySignsInvestmentAgreement(url)
    \/ \E url \in Urls \cup {NoUrl} : NomineeConfirmsInvestmentAgreement(url)
    \/ Payout
    \/ HandleStateTransitions
    \/ \E i \in Investors, ticket \in WhitelistEdits : SetWhitelisted(i, ticket)
    \/ \E p \in Fallible : ChangeVerification(p)
    \/ NomineeReturnsCapital
    \/ Tick

Spec == Init /\ [][Next]_vars

(***************************************************************************)
(* Fairness of actions whose enabling condition is spelled out: a          *)
(* transaction is enabled iff the world it leads to is ok.  (TLC evaluates *)
(* ENABLED of such an action too slowly.)                                  *)
(***************************************************************************)
TransitionOverdue == LET w == Before(World) IN w.ok /\ w.eto # eto

CapitalOutstanding ==
    eto.machine.state = SM!Refund /\ "nominee" \in verified /\ bal["EUR"]["nominee"] > 0

CanSettle(i) ==
    LET w == Before(World)
    IN /\ HasOpenTicket(eto, i)
       /\ \/ ClaimIsOpen(StateOf(w)) /\ After(ClaimTokens(w, i)).ok
          \/ StateOf(w) = SM!Refund /\ After(RefundTokens(w, i)).ok

\* Assumptions about people, none of which the code enforces: somebody triggers overdue
\* transitions, an investor settles the own ticket (claim and refund settle msg.sender's, so
\* nobody can do it for an investor), and the nominee does not keep the capital of an offering
\* that failed.  Each does so if it is possible again and again (strong fairness), for a
\* verification that is missing reverts their transactions, and who lost it gets it back.
Fairness ==
    /\ ([]<>(now = MaxTime)) \/ ([]<><<Tick>>_vars)
    /\ (<>[]~TransitionOverdue) \/ ([]<><<HandleStateTransitions>>_vars)
    /\ (<>[]~CapitalOutstanding) \/ ([]<><<NomineeReturnsCapital>>_vars)
    /\ \A i \in Investors : (<>[]~CanSettle(i)) \/ ([]<><<Claim(i) \/ Refund(i)>>_vars)
    /\ \A p \in Fallible : []<>(p \in verified)

FairSpec == Spec /\ Fairness

-----------------------------------------------------------------------------

SumOver(f(_)) == SumFunction([i \in Investors |-> f(i)])

\* Every variable has its type: no amount wraps below zero.
TypeOK ==
    /\ eto \in Offerings
    /\ bal \in [Currencies -> [Investors \cup Parties -> Nat]]
    /\ neu \in [Investors \cup {"eto", "operator"} -> Nat]
    /\ equity \in [Investors \cup {"eto", "portfolio"} -> Nat]
    /\ locks \in [Currencies -> Locks]
    /\ whitelist \in [Investors -> WhitelistTickets]
    /\ \A i \in Investors : ValidWhitelistTicket(whitelist[i])
    /\ verified \subseteq Investors \cup {"nominee", "company"}
    /\ now \in 0 .. MaxTime

Ticket(i) == eto.tickets[i]
State == eto.machine.state

\* The counters of the offering are the sums over the tickets, and no sequence of
\* investments in two phases and two currencies crosses one of the three caps.
TotalsMatchTickets ==
    /\ eto.totalTokenAmount = SumOver(LAMBDA i : Ticket(i).equityTokenAmount)
    /\ eto.totalEquivEurUlps = SumOver(LAMBDA i : Ticket(i).equivEurUlps)
    /\ eto.totalInvestors = Cardinality({i \in Investors : Ticket(i) # NoTicket})
    /\ eto.totalTokenAmount <= MAX_AVAILABLE_TOKENS
    /\ MAX_INVESTMENT_AMOUNT_EUR_ULPS > 0 => eto.totalEquivEurUlps <= MAX_INVESTMENT_AMOUNT_EUR_ULPS
    /\ eto.totalFixedSlotsTokenAmount <= eto.totalTokenAmount
    /\ State = SM!Whitelist => eto.totalTokenAmount - eto.totalFixedSlotsTokenAmount
                                  <= MAX_AVAILABLE_TOKENS_IN_WHITELIST

\* The tokens to be issued, the platform's fee included, are whole shares and never
\* more than the maximum: the check NF_FEE_CROSSING_CAP may stay disabled.
IssuedWithinMaximum ==
    eto.newShares > 0 =>
       /\ IssuedTokens(eto) = eto.newShares * EQUITY_TOKENS_PER_SHARE
       /\ IssuedTokens(eto) <= MAX_NUMBER_OF_TOKENS

OpenRewards == SumOver(LAMBDA i : IF HasOpenTicket(eto, i) THEN Ticket(i).rewardNmkUlps ELSE 0)
OpenTokens  == SumOver(LAMBDA i : IF HasOpenTicket(eto, i) THEN Ticket(i).equityTokenAmount ELSE 0)
OpenAmount(c) == SumOver(LAMBDA i : IF HasOpenTicket(eto, i) THEN Ticket(i).amount[c] ELSE 0)

\* Whatever was rounded where, the Neumarks left in the offering cover all rewards not
\* claimed yet, and before Claim the platform's half on top.
NeumarksCoverRewards ==
    \/ State = SM!Refund
    \/ State \in {SM!Claim, SM!Payout} /\ neu["eto"] >= OpenRewards
    \/ State < SM!Claim /\ neu["eto"] - PlatformNmk(neu["eto"]) >= OpenRewards

\* In Claim the offering holds the equity tokens of all open tickets and those of the
\* platform, after Payout exactly those of the open tickets; an offering that is not
\* successful holds none.
EquityCoversTickets ==
    equity["eto"] = CASE State = SM!Claim  -> OpenTokens + eto.tokenParticipationFeeAmount
                      [] State = SM!Payout -> OpenTokens
                      [] OTHER             -> 0

\* Every payment token is accounted for: while investing and in Refund the offering
\* holds the open tickets (together with what the nominee got and did not return), in
\* Signing the contribution and the fee, in Claim the fee, and in the end nothing.
MoneyIsAccounted ==
    \A c \in Currencies :
       LET nominee == IF c = "EUR" THEN bal[c]["nominee"] ELSE 0
       IN /\ bal[c]["eto"] = CASE State \in {SM!Claim} -> eto.platformFee[c]
                               [] State = SM!Payout    -> 0
                               [] OTHER                -> OpenAmount(c) - nominee
          /\ State = SM!Signing => bal[c]["eto"] = eto.additionalContribution[c] + eto.platformFee[c]

\* What an ICBM wallet has pending in the offering is part of an open ticket that knows
\* it: the assertion in refundSingleToken cannot fail and nothing is left behind.
PendingIsInTicket ==
    \A i \in Investors, c \in Currencies :
       LET pending == locks[c].commitments["eto"][i].balance
       IN pending > 0 => /\ HasOpenTicket(eto, i)
                         /\ Ticket(i).usedLockedAccount
                         /\ pending <= Ticket(i).amount[c]

\* what i owns of a payment token, in the own wallet and locked
Wealth(b, l, c, i) == b[c][i] + l[c].accounts[i].balance

\* A refund gives an investor exactly the invested amount of both payment tokens, and
\* the part that came from the ICBM wallet goes back there with its Neumarks due.
RefundIsExact ==
    [][\A i \in Investors :
          HasOpenTicket(eto, i) /\ ~HasOpenTicket(eto', i) /\ eto'.machine.state = SM!Refund =>
             \A c \in Currencies :
                /\ Wealth(bal', locks', c, i) = Wealth(bal, locks, c, i) + Ticket(i).amount[c]
                /\ locks'[c].accounts[i].neumarksDue =
                      locks[c].accounts[i].neumarksDue + locks[c].commitments["eto"][i].neumarksDue]_vars

\* The agreement the nominee confirmed is the one that stays signed by the company.
SameAgreementSigned == Confirmed(eto) => eto.nomineeSignedUrl = eto.signedUrl

\* "to go to claim agreement MUST be signed": no payout without the company's signature.
CompanySignedBeforeClaim == State \in {SM!Claim, SM!Payout} => eto.signedUrl # NoUrl

\* The offering implements the timed state machine with free conditions.
ImplementsTimedStateMachine == SM!Spec

\* i unlocked the ICBM account that has funds pending in the offering
Liquidated(i) ==
    \E c \in Currencies : /\ locks[c].commitments["eto"][i].balance > 0
                          /\ locks[c].accounts[i].unlockDate = 0

\* However often investors, nominee and company lose their verification for a while, every
\* ticket is eventually settled, unless the offering failed and the owner liquidated the ICBM
\* account that part of the refund has to go back to.
TicketsAreSettled ==
    \A i \in Investors :
       HasOpenTicket(eto, i) ~> (~HasOpenTicket(eto, i) \/ (State = SM!Refund /\ Liquidated(i)))

=============================================================================
