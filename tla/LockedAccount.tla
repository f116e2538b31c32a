---------------------------- MODULE LockedAccount ----------------------------
(***************************************************************************)
(* One ICBM wallet of the platform (LockedAccount.sol): payment tokens     *)
(* locked in the name of investors, with the Neumarks they owe.  Funds     *)
(* come in by migration from the old wallet, are invested in commitments,  *)
(* come back when a commitment fails, and leave when an investor unlocks   *)
(* by burning the Neumarks due.  The bookkeeping is in LockRecords; of the *)
(* commitments only this is known, that they settle what they received.    *)
(***************************************************************************)
EXTENDS LockRecords

CONSTANTS
    Amounts,            \* bound: the amounts investors invest
    Splits,             \* bound: the lists of destinations investors ask for
    MaxLockTime,        \* bound: the clock stops here
    InitialSources      \* the old wallet's accounts, one function per initial state

ASSUME WalletAssumption ==
    /\ Amounts \subseteq Nat /\ MaxLockTime \in Nat
    /\ \A wallets \in Splits : wallets \in Seq([investor : Investors, amount : Nat])
    /\ InitialSources \subseteq [Investors -> Accounts]

VARIABLES
    lock,           \* the lock record
    destinations,   \* _destinations: where an account of the old wallet migrates to
    source,         \* the accounts still in the old wallet
    held,           \* payment tokens of the wallet
    escrow,         \* payment tokens of each commitment
    paid,           \* payment tokens paid out to each investor
    feeDisbursal,   \* payment tokens paid as penalties to the fee disbursal
    neu,            \* Neumarks of each investor
    verified,       \* investors with valid claims in the identity registry
    now

lockVars == <<lock, destinations, source, held, escrow, paid, feeDisbursal, neu,
              verified, now>>

Init ==
    /\ lock = EmptyLock
    /\ source \in InitialSources
    /\ destinations = [i \in Investors |-> << >>]
    /\ held = 0
    /\ escrow = [c \in Commitments |-> 0]
    /\ paid = [i \in Investors |-> 0]
    /\ feeDisbursal = 0
    /\ neu = [i \in Investors |-> source[i].neumarksDue]     \* the reward for the old commitment
    /\ verified \in SUBSET Investors
    /\ now = 0

\* the old wallet calls migrateInvestor for the owner of the account, once
Migrate(i) ==
    LET m == MigrateInvestor(lock, i, source[i], destinations[i])
    IN /\ source[i].unlockDate > 0 /\ m.ok
       /\ lock' = m.l
       /\ held' = held + source[i].balance
       /\ source' = [source EXCEPT ![i] = NoAccount]
       /\ destinations' = [destinations EXCEPT ![i] = << >>]
       /\ UNCHANGED <<escrow, paid, feeDisbursal, neu, verified, now>>

\* addDestination: verified wallets, and nobody else's unmigrated account
CanBeDestination(i, wallet) ==
    wallet \in verified /\ (wallet # i => source[wallet].unlockDate = 0)

SetInvestorMigrationWallets(i, wallets) ==
    /\ \A n \in DOMAIN wallets : CanBeDestination(i, wallets[n].investor)
    /\ destinations' = [destinations EXCEPT ![i] = wallets]
    /\ UNCHANGED <<lock, source, held, escrow, paid, feeDisbursal, neu, verified, now>>

Transfer(i, c, amount) ==
    /\ CanInvest(lock, i, amount)
    /\ lock' = InvestFunds(lock, c, i, amount)
    /\ held' = held - amount
    /\ escrow' = [escrow EXCEPT ![c] = @ + amount]
    /\ UNCHANGED <<destinations, source, paid, feeDisbursal, neu, verified, now>>

\* the investor approved the Neumarks due; the fee disbursal gets the penalty
Unlock(i) ==
    LET account == lock.accounts[i]
        penalty == Penalty(account, now)
    IN /\ account.balance > 0
       /\ neu[i] >= account.neumarksDue
       /\ lock' = RemoveInvestor(lock, i)
       /\ neu' = [neu EXCEPT ![i] = @ - account.neumarksDue]
       /\ held' = held - account.balance
       /\ feeDisbursal' = feeDisbursal + penalty
       /\ paid' = [paid EXCEPT ![i] = @ + account.balance - penalty]
       /\ UNCHANGED <<destinations, source, escrow, verified, now>>

\* a failed commitment pays back what the wallet says is pending, from its own tokens
CommitmentRefunds(c, i) ==
    LET amount == lock.commitments[c][i].balance
    IN /\ CanRefund(lock, c, i)
       /\ escrow[c] >= amount
       /\ lock' = Refunded(lock, c, i)
       /\ escrow' = [escrow EXCEPT ![c] = @ - amount]
       /\ held' = held + amount
       /\ UNCHANGED <<destinations, source, paid, feeDisbursal, neu, verified, now>>

CommitmentClaims(c, i) ==
    /\ lock' = Claimed(lock, c, i)
    /\ UNCHANGED <<destinations, source, held, escrow, paid, feeDisbursal, neu, verified, now>>

Tick ==
    /\ now < MaxLockTime
    /\ now' = now + 1
    /\ UNCHANGED <<lock, destinations, source, held, escrow, paid, feeDisbursal, neu, verified>>

Next ==
    \/ \E i \in Investors :
          \/ Migrate(i)
          \/ \E wallets \in Splits : SetInvestorMigrationWallets(i, wallets)
          \/ \E c \in Commitments, amount \in Amounts : Transfer(i, c, amount)
          \/ Unlock(i)
          \/ \E c \in Commitments : CommitmentRefunds(c, i) \/ CommitmentClaims(c, i)
    \/ Tick

Spec == Init /\ [][Next]_lockVars

-----------------------------------------------------------------------------

\* Every variable has its type; no amount wraps below zero.
TypeOK ==
    /\ lock \in Locks
    /\ destinations \in [Investors -> Seq([investor : Investors, amount : Nat])]
    /\ source \in [Investors -> Accounts]
    /\ held \in Nat /\ escrow \in [Commitments -> Nat] /\ paid \in [Investors -> Nat]
    /\ feeDisbursal \in Nat /\ neu \in [Investors -> Nat] /\ verified \subseteq Investors
    /\ now \in 0 .. MaxLockTime

BalanceOf(i) == lock.accounts[i].balance
Total == SumFunction([i \in Investors |-> BalanceOf(i)])

\* The wallet owns exactly the tokens it keeps for its investors, the counter agrees
\* with the accounts, and what is pending is in the commitments.
FundsAreBacked ==
    /\ Total = lock.total
    /\ held = lock.total
    /\ lock.investors = Cardinality({i \in Investors : lock.accounts[i].unlockDate > 0})
    /\ \A c \in Commitments :
          SumFunction([i \in Investors |-> lock.commitments[c][i].balance]) <= escrow[c]

\* Whoever has no funds, here or pending in a commitment, owes no Neumarks for them:
\* rounding never leaves a debt without the money it is due for.
NothingOwedForNothing ==
    \A i \in Investors :
       /\ lock.accounts[i].balance = 0 => lock.accounts[i].neumarksDue = 0
       /\ \A c \in Commitments :
             lock.commitments[c][i].balance = 0 => lock.commitments[c][i].neumarksDue = 0

Owed ==
    SumFunction([i \in Investors |-> source[i].neumarksDue + lock.accounts[i].neumarksDue])
    + SumFunction([ci \in Commitments \X Investors |-> lock.commitments[ci[1]][ci[2]].neumarksDue])

NeuSupply == SumFunction(neu)

\* However accounts are split, joined, invested and refunded, Neumarks due only
\* disappear by being burned or by a successful commitment.
DebtIsConserved ==
    [][\/ \E c \in Commitments, i \in Investors : CommitmentClaims(c, i)
       \/ Owed - Owed' = NeuSupply - NeuSupply']_lockVars

\* Joining accounts never brings an unlock date forward.
UnlockDateNeverEarlier ==
    [][\A i \in Investors :
          LET before == lock.accounts[i].unlockDate
              after  == lock'.accounts[i].unlockDate
          IN after = 0 \/ after >= before]_lockVars

=============================================================================
