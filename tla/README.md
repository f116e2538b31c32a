# A TLA+ verification of the Neufund platform contracts

This directory specifies the smart contracts of the Neufund platform (Solidity, under
`contracts/`) and the JavaScript that deploys and operates them (`migrations/`, `scripts/`)
in TLA+: modules that follow the code's state and functions, TLC configurations that
check them on small instances, and theorems proved with TLAPS. Paths below that begin
with `migrations/`, `scripts/` or `truffle.js` are relative to the repository's root, the
others to `contracts/`.

A contract runs one transaction at a time; a transaction that fails a `require`, an
`assert` or a nested call is reverted and leaves no trace. So one external function with
every call it makes is one TLA+ action, and a requirement that fails disables the action.
What makes the system hard is not parallelism inside a function but the freedom around
it: any order of calls by investors, company, nominee and platform, made as late as the
caller likes, with rounding in every amount and state split over several contracts.

A migration or a script is the opposite: a long program of transactions, of which each is
atomic and the sequence is not. It may stop after any of them, what it did stays on the
chain, what it knew (addresses, balances it read) is lost or stale, and it is run again.
There each transaction is an action.

## 1. Inventory

| Component | State | Operations | Talks to |
|---|---|---|---|
| **Timed state machine of an offering** (`ETO/ETOTimedStateMachine.sol`) | phase, end of each phase | timed cascade, logic transitions, `startOf` | base of the commitment; its hooks; the observer (company) |
| **ETO commitment** (`ETO/ETOCommitment.sol`) | tickets, totals, contributions, fees, agreement hashes | set date, invest, sign, confirm, claim, refund, payout | payment tokens, Neumark, equity token, both locked accounts, terms, fee disbursal |
| **Terms** (`ETO/ETOTerms.sol`, `ETO/ETOTokenTerms.sol`, `ETO/ETODurationTerms.sol`, `PlatformTerms.sol`, `Math.sol`) | immutable values, the whitelist | contribution, prices, fees; edit whitelist | read by the commitment |
| **Locked account** (`ICBM/LockedAccount.sol`) | accounts (balance, NEU due, unlock date), commitments per offering, migration destinations | invest, unlock, refund, claim, migrate | payment token, Neumark, offerings, old locked account |
| **Payment tokens** (`PaymentTokens/*`, `SimpleExchange.sol`) | balances, who may send and receive | transfer, deposit, withdraw, gas exchange | identity registry, universe |
| **Neumark** (`Neumark.sol`, `NeumarkIssuanceCurve.sol`) | balances, issued euro amount | issue, burn, distribute | snapshot token |
| **Snapshot tokens** (`Snapshot/*`, `SnapshotToken/*`) | histories of values per snapshot | transfer, mint, burn, approve, query the past | parent token of a clone, controller |
| **Voting center** (`VotingCenter/*`) | proposals, votes | add proposal, vote, relay batches, off-chain tally, timed transitions | snapshot token, initiator |
| **Fee disbursal** (`FeeDisbursal/*`) | disbursals, progress of each claimer | disburse, accept, reject, recycle | snapshot token, payment tokens |
| **Company governance** (`Company/Gov.sol`, `Company/Controller*.sol`, `Company/SingleEquityTokenController.sol`) | company state, resolutions and their execution | propose, vote, execute, observe offerings | voting center, offerings, equity token |
| **Equity token** (`Company/EquityToken.sol`) | balances, shares | issue, distribute, destroy, transfer | its controller |
| **Access, agreements, identities** (`AccessControl/*`, `Agreement.sol`, `Identity/*`, `EthereumForkArbiter.sol`) | roles, agreements signed, claims | set role, amend, sign, set claims | every contract |
| **Universe** (`Universe.sol`) | registered singletons and collections | set | every contract |
| **ICBM** (`ICBM/Commitment/*`, `ICBM/ICBMLockedAccount.sol`) | the finished presale | none new | source of migrations |
| **ESOP and extras** (`Company/Extras/*`) | options of employees, exit | offer, sign, terminate, exercise | – |
| **Platform deployment** (`migrations/2_*` to `16_*`, `201_*`, `config.js`, `helpers.js`, `truffle.js`, `scripts/verifyDeployment.js`) | the contracts deployed and their wiring, access policies, truffle's artifacts, the configuration | fourteen migrations, each a sequence of transactions; run again, edit the configuration, finish by hand, verify | policies, universe, ICBM locks and tokens, token controller, fee disbursal |
| **Offering scripts** (`migrations/deployETO.js`, `scripts/deployETO*.js`, `deployWhitelist.js`, `inspectETO.js`) | an offering, its entry in the universe, its whitelist | deploy constraints, offering, whitelist; check | universe, policies, terms, commitment |
| **Investor scripts** (`scripts/investIntoETO*.js`, `cancelTx.js`) | pending transactions and nonces of an account | check, invest, cancel | payment tokens, commitment, a node |

**Hard behaviours.** Deadlines at which nobody has to call, so a late call runs several
transitions in one transaction, with their payments; checks the authors disabled because
they should follow (`validTransition`, `NF_FEE_CROSSING_CAP`); amounts divided twice with
different rounding; tickets, lock records and balances that must agree across contracts;
refunds with up to four legs; a whitelist edited during an offering; recipients who lose
their verification; historical balances queried while new snapshots are made; indices
into lists that are merged. Outside the contracts: a migration that stops between two
transactions and deploys its contracts anew when it is run again, so that the chain
holds several attempts of which one is in use; rights granted for the duration of a
deployment; rights read before the operator is asked and used after; transactions of
one account that wait together, replace each other or revert. `PROJECT.json` lists every hazard with its line and the
properties that cover it.

**What makes each part correct.** The machine: phases in order, on schedule, success only
when earned, an end for every started offering. The commitment: every euro, ether, Neumark
and equity token accounted for in every phase, everyone settled once and exactly. Terms:
never more tokens than the maximum. Locks: debt conserved and backed by funds. Snapshot
token: the past never changes. Voting: one token, one vote. Disbursal: nobody paid twice
and never more than is held. Governance: a resolution executed only when its vote passed,
and at most once. Deployment: what is in use is wired together and holds no right it was
given for the deployment only, whatever happened on the way. Scripts: what they report is
so, and an investment takes what it says.

## 2. Modules

`PlatformTerms` and `ETOTerms` are the pure part; `LockRecords` the record of one locked
account with its operations; both are used by the state machines above them.

    PlatformTerms <- ETOTerms
                        ^
    LockRecords <-------+-- ETOCommitment <- MCETOCommitment    (composition)
      ^      ^                   |      ^
      |      |                   |      +-- ETOCommitment_proofs (-> LockRecords_proofs)
      |      |           SM == INSTANCE ETOTimedStateMachine <- ETOTimedStateMachine_proofs (-> FiniteSums)
      |      |
      |   LockedAccount <------- LockedAccount_proofs (-> LockRecords_proofs)
      |
    LockRecords_proofs -> FiniteSums  (lemmas about sums of a function over a finite set)

    Snapshots <------------- SnapshotSearch <- MCSnapshotSearch
        ^                        ^
    SnapshotToken -- Ledger == INSTANCE VersionedLedger         (refinement)
        ^                        |
    SnapshotToken_proofs --------+   (of a series, its search, a token; -> FiniteSums)

    AccessPolicy <- Deployment <- MCDeployment
        ^               ^
        |           Deployment_proofs (-> FiniteSums)
        |
    OfferingDeployment
        ^
    InvestScript <- MCInvestScript
        ^
    InvestScript_proofs   (of the policy, of the setup scripts, of the account)

An arrow points at the module that is extended. Sums over investors are `SumFunction` of the
community module `Functions`; `FiniteSums` holds what the proofs need to know about it.

* **`PlatformTerms`, `ETOTerms`** – fees, fractions, prices, tickets, caps,
  `calculateContribution`. Fractions of 10^18 become fractions of the constant `Q`, so the
  same rounding happens on numbers TLC can enumerate. Their `ASSUME`s are the checks of the
  constructors.
* **`ETOTimedStateMachine`** – the abstract specification of an offering's life. `machine`
  holds the phase (`_state`), the recorded ends (`_pastStateTransitionTimes`), and as a
  history variable the transitions (`hops`) taken so far. What the hooks read of the offering is
  kept as three conditions: minimum sold, cap reached, agreement confirmed. Its actions say when a
  call may change which condition. `AdvanceTimed` and `AdvanceLogic` are the two cascades;
  `Before` and `After` surround each call as the modifier `withStateTransition` does.
* **`ETOCommitment`** – the offering with everything its money passes through: payment
  tokens and who may receive them, Neumark and equity balances, both locked accounts,
  the whitelist. An action threads a record (`World`) through the transaction: timed
  transitions with their payments, body, logic transitions with theirs; `ok` collects the
  requirements. It is composed of the terms, the lock records and the machine, and
  `ImplementsTimedStateMachine == SM!Spec` says that it implements the machine under the
  refinement `machine <- eto.machine, minReached <- MinReached(eto), ...`.
* **`LockRecords`, `LockedAccount`** – one locked account: `InvestFunds`, `Refunded`,
  `Claimed`, `LockFunds`, `RemoveInvestor` as functions on its record, and a specification
  that drives them with migrations, offerings and unlocks in any order.

* **`Snapshots`** – one series of values with history (`Snapshot/Snapshot.sol`): `SetValue`
  with its four cases, the deletion included, and `GetValueAt`, defined by what the code's
  search looks for.
* **`SnapshotSearch`** – that search, one action per iteration, over any history
  (indices count from 1).
* **`VersionedLedger`** – the abstract specification of a snapshot token: every snapshot
  shows balances and their sum; a write changes the current snapshot and those to come.
  Voting and disbursals, which read the past, will be specified over it.
* **`SnapshotToken`** – `MintableSnapshotToken` with the snapshots of
  `DailyAndSnapshotable`, and one clone of it. `token[t]` is the storage of a token; the
  total supply is a series like the balances. `ImplementsLedger` maps histories to the
  ledger by reading every snapshot. The requirement that a query is not about the future
  is `Answered`. A clone given a snapshot that is not sealed is *coupled*: it cannot be
  written until its parent moves on, and its present follows the parent's.

* **`AccessPolicy`** – `RoleBasedAccessPolicy`: a policy is a function from subject, role and
  object to Allow or Deny; `Allowed` is the cascade from the local entry of a subject to the
  global one of everyone, `SetUserRole(s)` the changes, `MaySetUserRoles` who may make them.
* **`Deployment`** – the numbered migrations. `Migration(n)` is the sequence of operations of
  migration `n` under the present configuration; an operation names the contracts it works
  with by references (the last one deployed of a kind, a singleton of the universe in use,
  an account of the configuration) that are resolved when it runs, as the scripts do. Each
  kind of operation is an action that calls the contract: `SetRoles`, `SetManySingletons`,
  `SetController`, `ApplySettings` and so on, with the contract's own requirements in
  `Accepted`. Around them is the program that runs the migrations: `Begin` with the checks a
  migration starts with, `Finish` that saves the artifacts, `Revert` and `Crash` that lose
  them, `Restart`. `contracts`, `access` and `amended` are the chain, `mem` and `saved` the
  artifacts, `config` what the operator writes into `truffle.js`. `RevokeDeployer`,
  `ReinstateDeployer` and `FinishByHand` are the holders of the keys, who do what migrations
  6 and 201 ask for. `VerifyDeployment` is what `scripts/verifyDeployment.js` prints in green.
* **`OfferingDeployment`** – the scripts that set up an offering, on a universe with the
  platform's policy and on an isolated one. `script` is the one that runs, with what it read
  at its start; `offerings[n]` one run of `deployETO`, with what its output told the operator
  (`told`, `listed`). `CheckETO` is what the script's own check shows green.
* **`InvestScript`** – extends it by an account that invests in those offerings through
  `pending` transactions, with `cancelTx` beside it. `tokenFallback` keeps of the commitment
  what decides whether it accepts; amounts are counted in units of a transaction's fee.

Definitions with a comment `faulty:` or `mutant:` (`X_Something` or `XSomething` beside `X`) are not part of the model: each is
a plausible mistake in `X`, used to see that a property would notice it.

## 3. Runs

| Run | Instance | Question |
|---|---|---|
| `timed_state_machine` | phases of 2, 3, 2 and 1 units, every lateness up to the clock's bound, 3,199 states | Are the phases of one offering right for every order of calls? |
| `locked_account` | two investors, one offering, joint and split migrations, 104,650 states | Do balance and NEU debt stay together through any sequence of investments, refunds, claims and unlocks? |
| `eto_commitment` | 217,304 states, see below | Is everything accounted for in every phase, for every order of calls? |
| `eto_settlement` | nominee, company and one investor may lose their verification, 70,608 states, under fairness | Is every ticket eventually settled? |
| `snapshot_search` | all histories in up to 7 snapshots, 3,023 states, the search runs on (a transaction is not interrupted) | Does the binary search end, with the right value? |
| `snapshot_token` | two accounts, a token and its clone, three snapshots in two days, supplies up to 1, 47,765 states | Does a token keep its past, and a clone its parent's? |
| `deployment` | live and development network, one crash, four runs again, one revocation, 61,498 states | Is a platform deployed by interrupted migrations wired and free of leftover rights, and does the deployment end? |
| `offering_scripts` | three offerings or fewer, chunks of 2 rows, three alternatives of what happens, 677,887 states | Is what the scripts report true, and does an investment take exactly its amount? |
| `eto_signature` | expected violation | Is an agreement signed by the company before the offering is paid out? It is not, see section 6. |
| `deployment_access` | expected violation | Is the deployer's temporary access to the universe dropped? It is not. |
| `deployment_disburser` | expected violation | Does migration 12 make the platform's wallet a disburser? It makes everyone one. |
| `offering_neumark` | expected violation | May a commitment issue Neumarks when the script says so? Not in an isolated universe. |

`timed_state_machine`: `OnlyValidTransitions` (the disabled check `validTransition`),
`SuccessIsEarned` (Signing needs the minimum, Claim a confirmation before the deadline),
`ScheduleKept` (phases follow each other and none lasts longer than its duration),
`SoldOutIsClosed` (the transaction that reaches the cap closes the offering, below its
minimum for refund), `NothingOverdue` (one call catches up completely),
`PublishedStartsKept` (the start of a phase an observer was told does not move),
`Finalizes` (every offering with a start date ends in Payout or Refund).

`locked_account`: `DebtIsConserved`, `FundsAreBacked`, `NothingOwedForNothing`,
`UnlockDateNeverEarlier`.

`eto_commitment`: `TotalsMatchTickets` (counters equal sums of tickets and stay within
the three caps), `IssuedWithinMaximum`, `NeumarksCoverRewards`, `EquityCoversTickets`,
`MoneyIsAccounted` (the exact balance of the contract in each phase), `PendingIsInTicket`
(ticket and lock record agree), `RefundIsExact`, `SameAgreementSigned`, and the refinement.

`eto_settlement`: `TicketsAreSettled`. Nominee, company and an investor lose their verification
at any moment, any number of times, and get it back: transitions, confirmations, claims and
refunds revert meanwhile (`PaymentTokens/EuroTokenController.sol:447`), and the
deadline may pass. The one exception in the property, an investor who liquidated the
locked account while a commitment was pending in an offering that then failed, is real:
`refunded` reverts (`ICBM/LockedAccount.sol:291`) and the whole refund with it, the part paid from the
wallet included. In Claim and Payout there is no exception.

`snapshot_search`: `FindsValue`, `Terminates`. `snapshot_token`: `SupplyIsSumOfBalances` (at
every snapshot that can be asked for, of both tokens; for a clone that was given a snapshot
its parent had not reached only until it reaches it itself, see section 6), `ClonePastNeverChanges`,
`ImplementsLedger` (the past is sealed, the present adds up, snapshots only increase).
`CHECK_DEADLOCK FALSE` in both: a search ends, and the clock and the snapshots are bounded.
Two snapshots of one day and one of the next give every relation of two entries (same
snapshot, same day, other day); an entry is deleted, overwritten and repeated; the forks
are the last sealed snapshot and a given one that is past, present or future.

`deployment`: `VerifiedMeansWired` (a deployment shown green is also wired where the script
does not look), `CompletedMigrationsHold` (what a migration is for holds once it is behind,
however often it was run), `TemporaryRightsDropped` (of the roles migration 201 names none is
left on what the universe registers, of whichever attempt), `IsolatedLeavesIcbmAlone`,
`PlatformIsCompleted`. The exception in the last is real: migration 12 of an isolated
universe sets the penalty disbursal of locks whose policy the deployer does not control.
Migration 4 calls `setController` of two locks, which succeeds once
(`ICBM/ICBMLockedAccount.sol:284`), so a run that stopped after the first cannot be repeated: the
operator has to give the artifacts up and start anew (`StartsAnew`, `truffle migrate --reset`), which
abandons the first ICBM and is possible because nothing is configured yet. The
exception for interrupted runs of 13 in `CompletedMigrationsHold` is real too: switching off
the unavailable products, all of them in 13, comes last in `migrations/deployConstraints.js`, and a
repeated run deploys new constraints and leaves those of the stopped one switched on.
Contracts of a stopped attempt keep rights (a fee disbursal out of use stays
`eurtDepositManager`); the properties are about what the universe registers.
`CHECK_DEADLOCK FALSE`: a deployment ends, or its budget of runs does.

`offering_scripts`: `GreenMeansInvestable`, `DoneMeansComplete`, `InvestmentIsExact`. The first is
limited to scripts that ran to their end because `checkETO` does not look at the resolution:
stopped before `startNewOffering`, an offering can be all green and never start.
`DoneMeansComplete` speaks of the last entry of an investor and of the rows of the new file
only: rows that a corrected file drops keep their tickets. `InvestmentIsExact` allows a
second investment by an operator who stops the script while it waits and runs it again:
nothing in it knows of the first. `cancelTx` offers 20 gwei, so dearer transactions
are not replaced (its log says 60). `CHECK_DEADLOCK FALSE`: the budgets run out.

**Bounds, and why they suffice.** Money is scaled to `Q = 100`, so every rounding occurs.
`MAX_NUMBER_OF_TOKENS = 76` gives 75 tokens to sell, and 75 is a case where fee and
amount-without-fee are not inverse (75 plus the rounded-up fee would be 80 without the
branch for a sold-out offering). Payments of 100 and 200 at the price of 4, with one fixed
slot at half price, reach: below minimum, minimum exactly, sold out in the public phase,
whitelist cap hit, a ticket that mixes both currencies, and one that mixes wallet and
lock. One lock has an odd NEU debt. The clock runs to 5 with phases of one unit, so an
offering can be whole phases late and still reach Payout. Two investors are the least that
compete for a cap and for the rounding reserve; no property relates more than two. Bounds
in guards carry a comment `bound:`; the constants `Payments`, `Rates`, `NeuRewards`, `Urls`,
`WhitelistEdits` and `Fallible` enumerate inputs.

In `deployment` one crash, at any transaction, makes two attempts at a migration; two crashes
would repeat an attempt with the same contracts out of use. Four runs again are needed: live
deployments stop at migrations 9 and 12 for want of configuration, once when the deployer's
right was revoked, and once for the crash. The three products are one of each kind that the
deployment tells apart (available or not, of migration 13 or 15). In `offering_scripts` the
whitelist has three rows in chunks of two, so a chunk boundary, a short last chunk and an
investor in both chunks occur; a second file has a discount above the price. An investment
costs 2 of the 5 units of ether and 3 of wrapped ether, so the wrapped ether suffices, is
exhausted, and is topped up; two investments and one cancellation are the least that wait
together and replace each other. The budgets are three alternatives (setup alone; one
investment in a world that changes; several that wait) because what one of them spends does
not enable anything for another.

**Fairness.** The contracts oblige nobody, so `FairSpec` of `ETOCommitment` consists of assumptions
about people: time passes; somebody triggers an overdue transition (anybody may call
`handleStateTransitions`); an investor who can settle the own ticket does (`claim` and `refund`
settle the ticket of `msg.sender`, `ETO/ETOCommitment.sol:399-415`, so nobody can do it for an
investor); the nominee
returns the capital of an offering that failed after Signing; and who lost the verification gets it
back, again and again. Without any one of the last three the property fails. Because a lost
verification disables calls, the calls are strongly fair: `(<>[]~Enabled) \/ ([]<><<A>>_vars)`, the
enabling condition spelled out.
`Deployment` assumes weak fairness of the run itself, of running it again, of the
configuration whose absence stopped it and of giving the deployer's right back, of the first
with its enabling condition spelled out too (a running migration always has a next
step: it begins or a check throws, its call is accepted or reverts, it finishes): a truffle
process runs on until it stops, and the operator puts right what it reports. Crashes and
revocations are bounded and not fair. `InvestScript` assumes no fairness: a miner need not
take a transaction.

## 4. Proofs

**The timed machine** (`ETOTimedStateMachine_proofs`). For all durations, start dates and
clock bounds: `TypeOK`, `OnlyValidTransitions`, `SuccessIsEarned`, `ScheduleKept`,
`SoldOutIsClosed`, `NothingOverdue` and `PublishedStartsKept` hold of `Spec`. None is
inductive alone. The inductive invariant `IInv` adds to `TypeOK`, and to a sold out offering being
`Closed`, that the machine is `Sound`: the present phase was entered by a valid transition, success was earned, the
running phase ends on schedule, and the recorded ends of the past phases are ordered.
That is what one cascade needs of the machine the last one left. The lemmas first show what
one transition does to such a machine, then what a cascade does (a bounded number of
transitions, in order), then each action. `PublishedStartsKept` needs that a transition in
time enters the next phase at the very moment `startOf` had forecast, the sum of the durations
up to it (`DurationsAdd`, from `FiniteSums`), however late the call comes that notices.

**The terms** (`ETOCommitment_proofs`, first section). `IssueFits`: for all terms the constructors accept and
every amount sold up to the available maximum, the platform's fee rounded up to whole
shares is a natural number, the sum is whole shares, and it is at most the maximum number
of tokens. This is the requirement `NF_FEE_CROSSING_CAP` that the code disabled
(`ETO/ETOCommitment.sol:723`). The argument: the available maximum is the largest whole
amount whose fee fits; an amount strictly below it plus its fee is below the maximum, which
is a multiple of the share size, so rounding up to the next multiple cannot pass it; the
maximum itself is handled by the branch.

**The commitment** (`ETOCommitment_proofs`). For any investors, terms, whitelist, wallets with
anything in them, payments, rates, issuance, dates and clock, `Spec` satisfies every safety
property its run checks: `TypeOK`, `TotalsMatchTickets`, `IssuedWithinMaximum`,
`NeumarksCoverRewards`, `EquityCoversTickets`, `MoneyIsAccounted`, `PendingIsInTicket`,
`SameAgreementSigned` and `RefundIsExact`. None is inductive alone, and no two of them are
either: that Signing can pay the fee needs the counters to be the sums of the tickets and the
money to be those sums; that a refund's first leg goes through needs the wallet's record to be
in the ticket and the wallet to be `SoundLock`; that the rewards are covered after rounding
needs every purchase to have left the platform's half on top.

The inductive invariant `Inv(w, s)` is therefore one of the *world* `w` that a transaction
carries from step to step and of the phase `s` it is in, not only of the state: `Books` says
that the state satisfies it in its phase. It is a conjunction of named parts (`Typed`,
`TicketsOK`, `TotalsOK`, `SharesOK`, `MoneyOK`, `RewardsOK`, `EquityOK`, `AgreementOK`,
`PendingOK`), each for all phases. The argument has the form of a transaction:

1. the effects of entering a phase lead from the invariant of the old phase to that of the
   new one (`SigningEffect`, `ClaimEffect`, `PayoutEffect`, `RefundEffect`), and a cascade of
   transitions from that of its first phase to that of its last (`BeforeKeeps`, `AfterKeeps`);
2. each body keeps it: a purchase (`PurchaseKeeps`, with what a ticket, a counter and a cap
   become), a signature, a settled ticket with its payments (`ClaimTokensKeeps`,
   `RefundTokensKeeps`), a payment between others, an unlocked wallet;
3. what the transaction requires (`ok`) holds at every earlier step of it: a failed payment
   cannot be made good later (`Later`), so a transaction that ends well paid each time;
4. hence each action keeps `Books` (`InvestKeeps`, ... , `NextKeeps`), and moves the machine as the
   machine's specification says (`StepKeeps`).

`StepsAreOfTheMachine` is the refinement, step by step and without a condition: every step of the
offering is one of the timed state machine, or leaves it alone. `MachineIsImplemented` adds the initial
state and so `ImplementsTimedStateMachine`, but only under `SmallestTicketFits`: the smallest
ticket fits into what is on sale and under the product's maximum. The attempt without that
assumption failed for a good reason (section 6). The sums are those of `FiniteSums`. The
assumptions are the constructors' checks and the types of the code's inputs
(`CommitmentAssumption`, `InputAssumption`); a wallet may hold anything at the beginning as long as
it is sound and has nothing pending in this offering.

**The search** (`SnapshotToken_proofs`, second section). `SearchIsCorrect`: `FindsValue` for histories of any
length. The invariant is that the entry looked for stays between `min` and `max`: entries
up to `min` are not too young, entries after `max` are; when they meet, that entry is the
only candidate. Histories are sorted, which `TypeOK` of `SnapshotToken` shows of those
`SetValue` builds.

**Sums** (`FiniteSums`). Balances, debts and tickets are compared with totals, so the proofs
need that one changed entry changes the sum by as much, that a sum splits at an element, and
that of two functions one of which is nowhere smaller the sums compare. The library's
induction theorems take an operator and cannot be instantiated here. Instead induction is
stated over a *set* of good subsets (`InductionOnSubsets`): the set of bad ones would have a smallest
member (`WFMin` of `WellFoundedInduction`). With it the fold behind `SumFunction` is shown to
exist and to take the elements in any order.

**One locked account** (`LockRecords_proofs`). What each function on the record does to a *sound*
one. `SoundLock`: the amounts have their types, the total is the sum of the
accounts' balances, the number of investors that of the accounts with a date, and nothing
is due for an empty account or an empty commitment. `ShareIsPart`: the debt released with a part of the funds, which
is rounded, is never more than the whole debt. `MigrateInvestorIsSound`: a migrated
record that adds to an old one keeps all this.

**The locked account** (`LockedAccount_proofs`). For any investors, offerings, amounts and dates,
`Spec` satisfies `TypeOK`, `FundsAreBacked`, `NothingOwedForNothing`, `DebtIsConserved` and
`UnlockDateNeverEarlier`. `TypeOK` and `FundsAreBacked` are not inductive: that the subtractions stay natural needs
that no part is larger than the recorded total, hence that this total is the sum, and that
an offering can return what is pending in it. `WalletInv` says that the lock is `SoundLock`,
its total is exactly the wallet's token balance, and each offering holds at least what is pending in
it. `DebtIsConserved` and `UnlockDateNeverEarlier` are properties of steps, shown from that
invariant action by action. The constants are assumed to be what the constructors and the code's
types make them (`LockAssumption`, `WalletAssumption`): finitely many investors and offerings,
amounts in `Nat`, a penalty of at most everything, old accounts of the right type.

**The snapshot token** (`SnapshotToken_proofs`). First what one write does to one series, whatever
the series: `SetValueIsSound` shows that after `SetValue(values, current, v)` a query for a
snapshot before `current` answers what it did and one from `current` on answers `v`, in each
of the four cases, the deleted entry included. From it follow, for any accounts and any
bounds: `HistoriesStayInOrder` (`TypeOK`, that is the order the search relies on), `SupplyIsBalances`
(`SupplyIsSumOfBalances`) and `ClonePastIsSealed` (`ClonePastNeverChanges`). The inductive
invariant `TokenInv` states the sum over what each token reads at *every* snapshot, the coming
ones too, and not over the queries that are answered: a write is about the current snapshot
and the invariant must already speak of the one the clock makes next. Last, `TokenIsLedger`: `Spec` implies
`ImplementsLedger`. Each action has its lemma: a transfer, mint or burn is the ledger's
write of the two entries it touches (`PairIsWrite` with `TransferIsMove`, `GenerateIsGenerate`,
`DestroyIsDestroy`), a new day or snapshot is its advance, what happens to the clone is a
stutter of the parent's ledger.

**The deployment** (`Deployment_proofs`). For any number of crashes, restarts and revocations
and every order of what operator and key holders do, `Spec` satisfies `TypeOK`,
`CompletedMigrationsHold`, `VerifiedMeansWired`, `TemporaryRightsDropped` and
`IsolatedLeavesIcbmAlone`. None is inductive: what a migration leaves behind when it ends is
what its transactions did one after another, each to the contracts its references meant at
that moment, over whatever stopped attempts had left before. The inductive invariant
`DeploymentOK` is therefore an assertion for every *place* a migration may have reached, the step
and the operation `pc`, as one writes them between the lines of a sequential program:

* `Structure`: an address is numbered in its kind, so that a new contract is new; artifacts hold
  contracts of their kind; a commitment, a universe and a euro token refer to contracts of the
  right kinds under one policy; the configuration names what earlier runs deployed; artifacts in
  memory differ from those on disk only in what the running migration has deployed
  (`MemOK`). Without it no reference could be resolved, and hence no effect of an operation be known.
* `RightsOK`: who holds the rights on the ICBM's policy at each place. What a key holder or another
  universe does to the policy meanwhile is bounded by `RightsSound`. Only with it is migration 6
  seen to leave the access controller in control, and 201 to leave the deployer nothing.
* `WiringOK`: where penalties go, who may move the euro tokens and who manages deposits, in the
  order migration 12 sets them. Its core is an order that the code keeps and no line states: the old
  euro token is opened to a fee disbursal only after both locks pay it their penalties.
  That is why the script's green light, which looks at the token only, says something about the locks.
* `DepositRights`, `CollectionsOK`: the deposit rights from migration 10 on, and that an unavailable
  product is listed only between the two transactions of 13, unless that migration stopped there.

The proof goes bottom up: what a list of rules makes of a policy; each migration operation by
operation (`LengthOf`, `OpAt` and what the operation at each place is about); how one place follows
from the one before; a frame for transactions (`TransactionKeeps`) and one lemma per kind of
operation under it; then the actions around the migrations: `Begin`, `Finish`, a stop,
`Restart`, the configuration, the holders of the keys. A stop needs no argument of its own: a stopped migration returns to place 0, where nothing is said about what it does.

**The access policy** (`InvestScript_proofs`, first section). For all policies, subjects and objects.
`ControllerKeepsItself`: whoever controls a policy by an entry of his own keeps it, whatever
rule the policy accepts from him. `ChangesAreSeparate`: a rule decides for its own role
only, and, unless it is for everyone or for every object, for its own subject and object.
`LocalDropKeepsGlobal`: unsetting a right on one object does not drop one held on every
object. They rest on two lemmas: what `SetUserRole` does to one entry, and that a local
entry decides first.

**The offering scripts** (`InvestScript_proofs`). For any number
of offerings and scripts, whitelists of any length in chunks of any size, any amount and any
funds, `TypeOK`, `DoneMeansComplete`, `GreenMeansInvestable` and `InvestmentIsExact` hold of
`Spec`. The promises of the output are not inductive: a script stops between its steps and
the next reads what it left. `SetupIInv` says, of `deployETO`, what each step has already
left on the chain (`DeploysOK`); of `deployWhitelist`, that the rows up to the one it has
reached are tickets, each the last of its investor among them (`ListsOK`); and of what was reported, that it is so (`ToldOK`).
Nobody takes contracts out of the universe, and no rule that scripts and parties set
withdraws an issuer's right: the last is `ChangesAreSeparate`. An investment is exact because of `IInv` of the account: the nonces of pending transactions are
unique and lie between the account's nonce and `NextNonce`, so one that is mined is the
only one with its nonce; each was estimated in the world it remembers (`Estimated`), and
`SeenDecides` shows that its outcome depends on nothing but that world and on the universe,
which only grows; what `cancelTx` calls off has its own nonce, and is out of the pool.
The proofs assume that a whitelist is a sequence of rows (`FilesAssumption`), an amount
is positive, and chunks have at least one row.

**Only model-checked.** `Terminates`, `Finalizes`, `TicketsAreSettled` and `PlatformIsCompleted`:
liveness is beyond the prover. Every other property of a passing run is a theorem; the
refinement `ImplementsTimedStateMachine` under the one assumption named above.

## 5. What is left out, and why

Getters and views that only read. 256-bit arithmetic at its upper end: amounts are
bounded by real supplies far below 2^96, and the code's width checks are not modelled; the
subtractions that could wrap below zero are covered by `TypeOK`. Neumark issuance is an
arbitrary value from `NeuRewards`. The roles of callers: an action is performed by whoever
holds the role. `recycle()` of the commitment. Reclaiming tokens sent by mistake. A payment to the fee disbursal leaves the model.
Of the deployment: the fixtures of development networks (`migrations/1xx_*`, `7_*`, `8_*`),
which call operations modelled elsewhere in one fixed order; the migration controller (1);
ether sent to services and the checks of balances; `meta.json` and contract versions; wallets
and providers that sign. Of the scripts: the parsing of whitelist cells into numbers (a cell
is a number or is not; `deployETO.js` subtracts a discount from 1 as a float and hands it to BigNumber,
which refuses some values of more than 15 digits before the first transaction), dry runs, the gas station's prices. The actions of different
migrations share the operations, so a revert is not distinguished by its message.
Everything marked `not_modelled` in `PROJECT.json`: voting center, fee disbursal, company
governance and ESOP are not modelled *yet* (section 7); nothing in them is out of reach.

## 6. Findings

**The deployer keeps access to the universe.** `migrations/16_deploy_voting_center.js:31`
says "temporary access to universe, will be dropped in finalize". Its rule names no object, so
the role is granted on every object; `migrations/201_platform_finalize.js:47-52` unsets it on the
universe's address only. `deployment_access` shows it.

**Everyone is a disburser.** `migrations/12_deploy_fee_disbursal.js:60` says "add platform wallet
to disbursers" but reads `CONFIG.PLATFORM_OPERATOR_WALLET`, which is
`CONFIG.addresses.PLATFORM_OPERATOR_WALLET` (`migrations/config.js:40`). The undefined value is
encoded as the zero address, the policy's EVERYONE. `verifyDeployment` shows green, for the
wallet is one of everyone. `deployment_disburser` shows it.

**Neumarks of an isolated universe.** `migrations/deployETO.js:43` says Neumark may have a policy
of its own, checks the deployer's control of it, and announces at line 183 that the commitment
may issue; line 184 writes the universe's policy. Every investment then reverts
(`offering_neumark`).

**Confirmation without a signature.** `ETO/ETOTimedStateMachine.sol:237` says "to go to claim agreement MUST be signed". The
nominee's confirmation compares the hash of the URL given with the hash of the stored one
(`ETO/ETOCommitment.sol:328`); before the company signs, the stored URL is the empty
string, so a nominee who confirms the empty URL moves the offering to Claim without any
agreement. `eto_signature` shows the sequence.

**A clone of a future snapshot.** `SnapshotToken/BasicSnapshotToken.sol:72` takes the parent's snapshot it is
given without comparing it with the parent's present one. Given one to come, the clone
can be written before its parent gets there (it is already at another snapshot), and from
that snapshot on its entries from before the fork, which nobody sealed, are read together with the
parent's balances at the fork: the supply is then not the sum of the balances. The comment at lines 53-56 says that this "is prevented"
by the default argument, which a caller may override; `test/helpers/snapshotTokenTestCases.js:223-241`
clones a future snapshot and does not write. No contract of the platform clones that way. `SupplyIsSumOfBalances` therefore speaks of a
clone from its fork on only when it `StartsAtFork`; to see the case, drop that conjunct and run
`snapshot_token` with `SnapshotsPerDay = 3`, `MaxDay = 1`, `MaxSnapshot = 5`, `Forks = {4}`.

**An offering that is sold out before it starts.** The proof of the refinement's initial condition
needs the smallest ticket to fit under both caps (`SmallestTicketFits`), because
`mAdavanceLogicState` counts an offering as sold out when one more smallest ticket, rounded down to
tokens plus one, would not fit (`ETO/ETOCommitment.sol:611-612`). `requireValidTerms`
(`ETO/ETOTerms.sol:317-365`) does not give that. It compares the smallest ticket with the value
of the available tokens, so a ticket that buys all of them is accepted; and with the product's
maximum investment it compares only the minimum cap ("otherwise ETO always refunds"), not the ticket. With
such terms the first call in Whitelist goes on to Public and, with nothing sold, to Refund. Each
step is still the machine's (`StepsAreOfTheMachine`); only its initial condition is another. No run is devoted to
it: no sensible terms are like that, and those of the checked instances fit.

## 7. Plan

1. *(done)* Terms, timed machine with proofs, locked account, commitment.
2. *(done)* Snapshot tokens: histories, search with proof, clones, the abstract ledger. Proved
   with the refinement. Left: allowances.
3. **Voting center** on the ledger: one vote per voter and the tally never above
   the voting power, across relayed batches and early public transitions; deadlines and
   cascade; liveness of finalisation.
4. **Fee disbursal** on the ledger: solvency with rounding, merging, rejection and
   recycling; nobody paid twice; funds not stuck.
5. **Company governance**: life of a resolution (`ControllerGovernanceEngine`, `Gov`),
   `ControllerETO` as the observer, `SingleEquityTokenController`, with the voting center
   and the abstract timed machine as environment.
6. **Payment tokens**: euro token with controller and quotas of deposits, ether token,
   gas exchange; **agreement** amendments;
   **ESOP** life cycle; exit controller.
7. *(done)* Access policy; platform deployment; offering and investor scripts. Left: what
   `RoleBasedAccessPolicy` enumerates, development fixtures as a test of the composition.
8. Proofs *(done for the machine, the terms, the search, the locked account, the commitment
   with its refinement, the snapshot token, the policy, the scripts and the deployment)*. Left:
   those of the components above, once they are modelled.
