------------------------ MODULE LockedAccount_proofs -------------------------
(***************************************************************************)
(* One ICBM wallet, for any investors, amounts, lists of destinations and  *)
(* any state of the old wallet: the wallet holds what it owes, rounding    *)
(* leaves no debt without funds, and Neumarks due are neither lost nor     *)
(* made up.                                                                *)
(***************************************************************************)
EXTENDS LockedAccount, LockRecords_proofs

\* The lock record is sound, the wallet's tokens are the record's total, and each
\* commitment has at least what is pending in it.
WalletInv ==
    /\ TypeOK
    /\ SoundLock(lock)
    /\ held = lock.total
    /\ \A c \in Commitments : Pending(lock, c) <= escrow[c]

\* A new wallet is empty.
LEMMA InitWalletInv == Init => WalletInv
<1> SUFFICES ASSUME Init PROVE WalletInv
  OBVIOUS
<1>1. SoundLock(lock) /\ lock.total = 0 /\ \A c \in Commitments : Pending(lock, c) = 0
  BY EmptyLockIsSound DEF Init
<1>2. lock \in Locks
  BY <1>1, SoundLockParts
<1>3. source \in [Investors -> Accounts]
  BY WalletAssumption DEF Init
<1>4. neu \in [Investors -> Nat]
  <2>1. \A i \in Investors : source[i].neumarksDue \in Nat
    BY <1>3 DEF Accounts
  <2> QED
    BY <2>1 DEF Init
<1>5. destinations \in [Investors -> Seq([investor : Investors, amount : Nat])]
  <2>1. << >> \in Seq([investor : Investors, amount : Nat])
    OBVIOUS
  <2> QED
    BY <2>1 DEF Init
<1>6. now \in 0 .. MaxLockTime
  BY WalletAssumption DEF Init
<1> QED
  BY <1>1, <1>2, <1>3, <1>4, <1>5, <1>6 DEF Init, WalletInv, TypeOK

\* The types of the wallet's parts.
LEMMA WalletTypes ==
    ASSUME WalletInv
    PROVE  /\ lock \in Locks
           /\ destinations \in [Investors -> Destinations]
           /\ source \in [Investors -> Accounts]
           /\ held \in Nat /\ escrow \in [Commitments -> Nat] /\ paid \in [Investors -> Nat]
           /\ feeDisbursal \in Nat /\ neu \in [Investors -> Nat]
           /\ \A i \in Investors : /\ source[i] \in Accounts
                                   /\ source[i].balance \in Nat
                                   /\ source[i].neumarksDue \in Nat
                                   /\ source[i].unlockDate \in Nat
BY DEF WalletInv, TypeOK, Destinations, Destination, Accounts

\* An investor migrates from the old wallet, split over the destinations or not.
LEMMA MigrateInv ==
    ASSUME WalletInv, NEW i \in Investors, Migrate(i)
    PROVE  /\ WalletInv'
           /\ Due(lock') = Due(lock) + source[i].neumarksDue
           /\ lock'.commitments = lock.commitments
           /\ \A j \in Investors : lock'.accounts[j].unlockDate >= lock.accounts[j].unlockDate
<1> USE WalletTypes
<1>1. /\ SoundLock(lock')
      /\ lock'.total = lock.total + source[i].balance
      /\ Due(lock') = Due(lock) + source[i].neumarksDue
      /\ lock'.commitments = lock.commitments
      /\ \A j \in Investors : lock'.accounts[j].unlockDate >= lock.accounts[j].unlockDate
  <2> DEFINE m == MigrateInvestor(lock, i, source[i], destinations[i])
  <2>1. /\ SoundLock(lock) /\ source[i] \in Accounts /\ source[i].unlockDate > 0
        /\ destinations[i] \in Destinations /\ m.ok /\ lock' = m.l
    BY DEF WalletInv, Migrate
  <2>2. SoundLock(m.l) /\ m.l.total = lock.total + source[i].balance
    BY <2>1, MigrateInvestorIsSound
  <2>3. Due(m.l) = Due(lock) + source[i].neumarksDue
    BY <2>1, MigrateInvestorIsSound
  <2>4. m.l.commitments = lock.commitments
    BY <2>1, MigrateInvestorIsSound
  <2>5. \A j \in Investors : m.l.accounts[j].unlockDate >= lock.accounts[j].unlockDate
    BY <2>1, MigrateInvestorIsSound
  <2> HIDE DEF m
  <2> QED
    BY <2>1, <2>2, <2>3, <2>4, <2>5
<1>2. lock' \in Locks
  BY <1>1, SoundLockParts
<1>3. held' = lock'.total /\ held' \in Nat
  BY <1>1 DEF Migrate, WalletInv
<1>4. source' \in [Investors -> Accounts] /\ destinations' \in [Investors -> Destinations]
  <2>1. NoAccount \in Accounts
    BY DEF NoAccount, Accounts
  <2>2. << >> \in Destinations
    BY DEF Destinations
  <2> QED
    BY <2>1, <2>2 DEF Migrate
<1>5. \A c \in Commitments : Pending(lock', c) <= escrow'[c]
  <2>1. \A c \in Commitments : Pending(lock', c) = Pending(lock, c)
    BY <1>1 DEF Pending
  <2> QED
    BY <2>1 DEF Migrate, WalletInv
<1>6. UNCHANGED <<escrow, paid, feeDisbursal, neu, verified, now>>
  BY DEF Migrate
<1>7. TypeOK'
  BY <1>2, <1>3, <1>4, <1>6 DEF WalletInv, TypeOK, Destinations, Destination
<1> QED
  BY <1>1, <1>3, <1>5, <1>7 DEF WalletInv

\* An investor puts locked funds into a commitment.
LEMMA TransferInv ==
    ASSUME WalletInv, NEW i \in Investors, NEW c \in Commitments, NEW amount \in Amounts,
           Transfer(i, c, amount)
    PROVE  /\ WalletInv'
           /\ Due(lock') + PendingDue(lock') = Due(lock) + PendingDue(lock)
           /\ \A j \in Investors : lock'.accounts[j].unlockDate = lock.accounts[j].unlockDate
<1> USE WalletTypes
<1>0. amount \in Nat
  BY WalletAssumption
<1>1. /\ SoundLock(lock') /\ lock'.total = lock.total - amount
      /\ Due(lock') + PendingDue(lock') = Due(lock) + PendingDue(lock)
      /\ Pending(lock', c) = Pending(lock, c) + amount
      /\ \A d \in Commitments \ {c} : Pending(lock', d) = Pending(lock, d)
      /\ \A j \in Investors : lock'.accounts[j].unlockDate = lock.accounts[j].unlockDate
  <2> DEFINE r == InvestFunds(lock, c, i, amount)
  <2>1. SoundLock(lock) /\ CanInvest(lock, i, amount) /\ lock' = r
    BY DEF WalletInv, Transfer
  <2>2. SoundLock(r) /\ r.total = lock.total - amount
    BY <1>0, <2>1, InvestFundsIsSound
  <2>3. Due(r) + PendingDue(r) = Due(lock) + PendingDue(lock)
    BY <1>0, <2>1, InvestFundsIsSound
  <2>4. Pending(r, c) = Pending(lock, c) + amount
    BY <1>0, <2>1, InvestFundsIsSound
  <2>5. \A d \in Commitments \ {c} : Pending(r, d) = Pending(lock, d)
    BY <1>0, <2>1, InvestFundsIsSound
  <2>6. \A j \in Investors : r.accounts[j].unlockDate = lock.accounts[j].unlockDate
    BY <1>0, <2>1, InvestFundsIsSound
  <2> HIDE DEF r
  <2> QED
    BY <2>1, <2>2, <2>3, <2>4, <2>5, <2>6
<1>2. lock' \in Locks /\ lock'.total \in Nat /\ lock.total \in Nat
  BY <1>1, SoundLockParts, LockTypes
<1>3. held' = lock'.total /\ held' \in Nat
  BY <1>1, <1>2 DEF Transfer, WalletInv
<1>4. escrow' = [escrow EXCEPT ![c] = @ + amount] /\ escrow' \in [Commitments -> Nat]
  BY <1>0 DEF Transfer
<1>5. ASSUME NEW d \in Commitments PROVE Pending(lock', d) <= escrow'[d]
  <2>1. Pending(lock, d) <= escrow[d] /\ Pending(lock, d) \in Nat /\ escrow[d] \in Nat
    BY LockSums DEF WalletInv
  <2>2. CASE d = c
    BY <1>0, <1>1, <1>4, <2>1, <2>2
  <2>3. CASE d # c
    BY <1>1, <1>4, <2>1, <2>3
  <2> QED
    BY <2>2, <2>3
<1>6. UNCHANGED <<destinations, source, paid, feeDisbursal, neu, verified, now>>
  BY DEF Transfer
<1>7. TypeOK'
  BY <1>2, <1>3, <1>4, <1>6 DEF WalletInv, TypeOK
<1> QED
  BY <1>1, <1>3, <1>5, <1>7 DEF WalletInv

\* An investor unlocks, with or without penalty.
LEMMA UnlockInv ==
    ASSUME WalletInv, NEW i \in Investors, Unlock(i)
    PROVE  /\ WalletInv'
           /\ Due(lock') = Due(lock) - lock.accounts[i].neumarksDue
           /\ lock'.commitments = lock.commitments
           /\ SumFunction(neu') = SumFunction(neu) - lock.accounts[i].neumarksDue
           /\ \A j \in Investors : \/ lock'.accounts[j].unlockDate = 0
                                   \/ lock'.accounts[j] = lock.accounts[j]
<1> DEFINE account == lock.accounts[i]
           penalty == Penalty(account, now)
<1> USE WalletTypes
<1>0. /\ account \in Accounts /\ account.balance \in Nat /\ account.neumarksDue \in Nat
      /\ penalty \in 0 .. account.balance
  BY LockTypes, PenaltyIsPart
<1>a. /\ account.balance > 0
      /\ neu[i] >= account.neumarksDue
      /\ lock' = RemoveInvestor(lock, i)
      /\ neu' = [neu EXCEPT ![i] = @ - account.neumarksDue]
      /\ held' = held - account.balance
      /\ feeDisbursal' = feeDisbursal + penalty
      /\ paid' = [paid EXCEPT ![i] = @ + account.balance - penalty]
      /\ UNCHANGED <<destinations, source, escrow, verified, now>>
  BY DEF Unlock
<1>1. /\ SoundLock(lock')
      /\ lock'.total = lock.total - account.balance
      /\ Due(lock') = Due(lock) - account.neumarksDue
      /\ lock'.commitments = lock.commitments
      /\ \A j \in Investors : lock'.accounts[j] = IF j = i THEN NoAccount ELSE lock.accounts[j]
  <2> DEFINE r == RemoveInvestor(lock, i)
  <2>1. SoundLock(lock) /\ lock.accounts[i].balance > 0
    BY <1>a DEF WalletInv
  <2>2. SoundLock(r) /\ r.total = lock.total - lock.accounts[i].balance
    BY <2>1, RemoveInvestorIsSound
  <2>3. Due(r) = Due(lock) - lock.accounts[i].neumarksDue
    BY <2>1, RemoveInvestorIsSound
  <2>4. r.commitments = lock.commitments
    BY <2>1, RemoveInvestorIsSound
  <2>5. \A j \in Investors : r.accounts[j] = IF j = i THEN NoAccount ELSE lock.accounts[j]
    BY <2>1, RemoveInvestorIsSound
  <2> HIDE DEF r
  <2> QED
    BY <1>a, <2>2, <2>3, <2>4, <2>5 DEF r
<1> HIDE DEF penalty, account
<1>2. lock' \in Locks /\ lock'.total \in Nat /\ lock.total \in Nat
  BY <1>1, SoundLockParts, LockTypes
<1>3. held' = lock'.total /\ held' \in Nat
  BY <1>a, <1>1, <1>2 DEF WalletInv
<1>4. /\ neu' \in [Investors -> Nat] /\ paid' \in [Investors -> Nat] /\ feeDisbursal' \in Nat
  <2>1. /\ neu[i] \in Nat /\ neu[i] - account.neumarksDue \in Nat
        /\ paid[i] \in Nat /\ paid[i] + account.balance - penalty \in Nat
    BY <1>0, <1>a
  <2> QED
    BY <1>0, <1>a, <2>1
<1>5. SumFunction(neu') = SumFunction(neu) - account.neumarksDue
  <2>1. /\ neu \in [Investors -> Int] /\ neu' \in [Investors -> Int]
        /\ \A j \in Investors \ {i} : neu'[j] = neu[j]
        /\ neu'[i] = neu[i] - account.neumarksDue /\ neu[i] \in Int
    BY <1>a, <1>4
  <2>2. /\ SumFunction(neu) \in Int
        /\ SumFunction(neu') = SumFunction(neu) - neu[i] + neu'[i]
    BY <2>1, LockAssumption, SumOfChange
  <2> QED
    BY <1>0, <2>1, <2>2
<1>6. \A c \in Commitments : Pending(lock', c) <= escrow'[c]
  <2>1. \A c \in Commitments : Pending(lock', c) = Pending(lock, c)
    BY <1>1 DEF Pending
  <2> QED
    BY <1>a, <2>1 DEF WalletInv
<1>7. TypeOK'
  BY <1>a, <1>2, <1>3, <1>4 DEF WalletInv, TypeOK
<1>8. \A j \in Investors : \/ lock'.accounts[j].unlockDate = 0
                           \/ lock'.accounts[j] = lock.accounts[j]
  BY <1>1 DEF NoAccount
<1> QED
  BY <1>1, <1>3, <1>5, <1>6, <1>7, <1>8 DEF WalletInv, account

\* A commitment that failed sends everything back.
LEMMA CommitmentRefundsInv ==
    ASSUME WalletInv, NEW i \in Investors, NEW c \in Commitments, CommitmentRefunds(c, i)
    PROVE  /\ WalletInv'
           /\ Due(lock') + PendingDue(lock') = Due(lock) + PendingDue(lock)
           /\ \A j \in Investors : lock'.accounts[j].unlockDate = lock.accounts[j].unlockDate
<1> DEFINE amount == lock.commitments[c][i].balance
<1> USE WalletTypes
<1>0. amount \in Nat
  BY LockTypes
<1>a. /\ CanRefund(lock, c, i) /\ escrow[c] >= amount
      /\ lock' = Refunded(lock, c, i)
      /\ escrow' = [escrow EXCEPT ![c] = @ - amount]
      /\ held' = held + amount
      /\ UNCHANGED <<destinations, source, paid, feeDisbursal, neu, verified, now>>
  BY DEF CommitmentRefunds
<1>1. /\ SoundLock(lock') /\ lock'.total = lock.total + amount
      /\ Due(lock') + PendingDue(lock') = Due(lock) + PendingDue(lock)
      /\ Pending(lock', c) = Pending(lock, c) - amount
      /\ \A d \in Commitments \ {c} : Pending(lock', d) = Pending(lock, d)
      /\ \A j \in Investors : lock'.accounts[j].unlockDate = lock.accounts[j].unlockDate
  <2> DEFINE r == Refunded(lock, c, i)
  <2>1. SoundLock(lock) /\ CanRefund(lock, c, i)
    BY <1>a DEF WalletInv
  <2>2. SoundLock(r) /\ r.total = lock.total + lock.commitments[c][i].balance
    BY <2>1, RefundedIsSound
  <2>3. Due(r) + PendingDue(r) = Due(lock) + PendingDue(lock)
    BY <2>1, RefundedIsSound
  <2>4. Pending(r, c) = Pending(lock, c) - lock.commitments[c][i].balance
    BY <2>1, RefundedIsSound
  <2>5. \A d \in Commitments \ {c} : Pending(r, d) = Pending(lock, d)
    BY <2>1, RefundedIsSound
  <2>6. \A j \in Investors : r.accounts[j].unlockDate = lock.accounts[j].unlockDate
    BY <2>1, RefundedIsSound
  <2> HIDE DEF r
  <2> QED
    BY <1>a, <2>2, <2>3, <2>4, <2>5, <2>6 DEF r
<1> HIDE DEF amount
<1>2. lock' \in Locks /\ lock'.total \in Nat /\ lock.total \in Nat
  BY <1>1, SoundLockParts, LockTypes
<1>3. held' = lock'.total /\ held' \in Nat
  BY <1>a, <1>1, <1>2 DEF WalletInv
<1>4. escrow' \in [Commitments -> Nat]
  <2>1. escrow[c] - amount \in Nat
    BY <1>0, <1>a
  <2> QED
    BY <1>a, <2>1
<1>5. ASSUME NEW d \in Commitments PROVE Pending(lock', d) <= escrow'[d]
  <2>1. Pending(lock, d) <= escrow[d] /\ Pending(lock, d) \in Nat /\ escrow[d] \in Nat
    BY LockSums DEF WalletInv
  <2>2. CASE d = c
    BY <1>0, <1>a, <1>1, <2>1, <2>2
  <2>3. CASE d # c
    BY <1>a, <1>1, <2>1, <2>3
  <2> QED
    BY <2>2, <2>3
<1>7. TypeOK'
  BY <1>a, <1>2, <1>3, <1>4 DEF WalletInv, TypeOK
<1> QED
  BY <1>1, <1>3, <1>5, <1>7 DEF WalletInv

\* A commitment that succeeded keeps the funds.
LEMMA CommitmentClaimsInv ==
    ASSUME WalletInv, NEW i \in Investors, NEW c \in Commitments, CommitmentClaims(c, i)
    PROVE  WalletInv' /\ lock'.accounts = lock.accounts
<1> USE WalletTypes
<1>a. /\ lock' = Claimed(lock, c, i)
      /\ UNCHANGED <<destinations, source, held, escrow, paid, feeDisbursal, neu, verified, now>>
  BY DEF CommitmentClaims
<1>1. /\ SoundLock(lock') /\ lock'.total = lock.total /\ lock'.accounts = lock.accounts
      /\ Pending(lock', c) = Pending(lock, c) - lock.commitments[c][i].balance
      /\ \A d \in Commitments \ {c} : Pending(lock', d) = Pending(lock, d)
  <2> DEFINE r == Claimed(lock, c, i)
  <2>1. SoundLock(lock)
    BY DEF WalletInv
  <2>2. SoundLock(r) /\ r.total = lock.total /\ r.accounts = lock.accounts
    BY <2>1, ClaimedIsSound
  <2>3. Pending(r, c) = Pending(lock, c) - lock.commitments[c][i].balance
    BY <2>1, ClaimedIsSound
  <2>4. \A d \in Commitments \ {c} : Pending(r, d) = Pending(lock, d)
    BY <2>1, ClaimedIsSound
  <2> HIDE DEF r
  <2> QED
    BY <1>a, <2>2, <2>3, <2>4 DEF r
<1>2. lock' \in Locks
  BY <1>1, SoundLockParts
<1>3. ASSUME NEW d \in Commitments PROVE Pending(lock', d) <= escrow'[d]
  <2>1. /\ Pending(lock, d) <= escrow[d] /\ Pending(lock, d) \in Nat /\ escrow[d] \in Nat
        /\ lock.commitments[c][i].balance \in Nat
    BY LockSums, LockTypes DEF WalletInv
  <2>2. CASE d = c
    BY <1>a, <1>1, <2>1, <2>2
  <2>3. CASE d # c
    BY <1>a, <1>1, <2>1, <2>3
  <2> QED
    BY <2>2, <2>3
<1>4. TypeOK'
  BY <1>a, <1>2 DEF WalletInv, TypeOK
<1> QED
  BY <1>a, <1>1, <1>3, <1>4 DEF WalletInv

\* The steps that leave the lock record alone.
LEMMA QuietInv ==
    ASSUME WalletInv,
           \/ \E i \in Investors, wallets \in Splits : SetInvestorMigrationWallets(i, wallets)
           \/ Tick
           \/ UNCHANGED lockVars
    PROVE  WalletInv' /\ UNCHANGED <<lock, source, neu>>
<1>1. CASE \E i \in Investors, wallets \in Splits : SetInvestorMigrationWallets(i, wallets)
  <2>1. PICK i \in Investors, wallets \in Splits : SetInvestorMigrationWallets(i, wallets)
    BY <1>1
  <2>2. wallets \in Destinations
    BY WalletAssumption DEF Destinations, Destination
  <2>3. destinations' \in [Investors -> Destinations]
    BY <2>1, <2>2, WalletTypes DEF SetInvestorMigrationWallets
  <2> QED
    BY <2>1, <2>3 DEF SetInvestorMigrationWallets, WalletInv, TypeOK, Destinations, Destination
<1>2. CASE Tick
  <2>1. now \in 0 .. MaxLockTime /\ now < MaxLockTime /\ now' = now + 1
    BY <1>2 DEF Tick, WalletInv, TypeOK
  <2>2. now' \in 0 .. MaxLockTime
    BY <2>1, WalletAssumption
  <2>3. UNCHANGED <<lock, destinations, source, held, escrow, paid, feeDisbursal, neu, verified>>
    BY <1>2 DEF Tick
  <2> QED
    BY <2>2, <2>3 DEF WalletInv, TypeOK
<1>3. CASE UNCHANGED lockVars
  BY <1>3 DEF lockVars, WalletInv, TypeOK
<1> QED
  BY <1>1, <1>2, <1>3

\* Every step keeps the invariant.
LEMMA NextWalletInv == WalletInv /\ [Next]_lockVars => WalletInv'
<1> SUFFICES ASSUME WalletInv, [Next]_lockVars PROVE WalletInv'
  OBVIOUS
<1>1. ASSUME NEW i \in Investors, Migrate(i) PROVE WalletInv'
  BY <1>1, MigrateInv
<1>2. ASSUME NEW i \in Investors, NEW c \in Commitments, NEW amount \in Amounts,
             Transfer(i, c, amount)
      PROVE  WalletInv'
  BY <1>2, TransferInv
<1>3. ASSUME NEW i \in Investors, Unlock(i) PROVE WalletInv'
  BY <1>3, UnlockInv
<1>4. ASSUME NEW i \in Investors, NEW c \in Commitments, CommitmentRefunds(c, i) PROVE WalletInv'
  BY <1>4, CommitmentRefundsInv
<1>5. ASSUME NEW i \in Investors, NEW c \in Commitments, CommitmentClaims(c, i) PROVE WalletInv'
  BY <1>5, CommitmentClaimsInv
<1> QED
  BY <1>1, <1>2, <1>3, <1>4, <1>5, QuietInv DEF Next

-----------------------------------------------------------------------------

\* The inductive invariant holds in every reachable state.
LEMMA WalletInvHolds == Spec => []WalletInv
BY InitWalletInv, NextWalletInv, PTL DEF Spec

\* No amount of the wallet wraps below zero: not of an account, not of what is pending,
\* not of the penalties.
THEOREM AmountsHaveTheirTypes == Spec => []TypeOK
<1>1. WalletInv => TypeOK
  BY DEF WalletInv
<1> QED
  BY <1>1, WalletInvHolds, PTL

\* The wallet owns exactly the tokens it keeps for its investors, the counters agree with
\* the accounts, and what is pending is in the commitments.
THEOREM WalletIsBacked == Spec => []FundsAreBacked
<1>1. WalletInv => FundsAreBacked
  BY SoundLockParts DEF WalletInv, FundsAreBacked, Total, BalanceOf, Funds, Locked, Pending
<1> QED
  BY <1>1, WalletInvHolds, PTL

\* However shares are rounded, whoever has no funds left owes nothing for them.
THEOREM NoDebtWithoutFunds == Spec => []NothingOwedForNothing
<1>1. WalletInv => NothingOwedForNothing
  BY SoundLockParts DEF WalletInv, NothingOwedForNothing
<1> QED
  BY <1>1, WalletInvHolds, PTL

-----------------------------------------------------------------------------

SourceDue(s) == SumFunction([i \in Investors |-> s[i].neumarksDue])

\* What an investor owes is what is due in the old wallet, in this one, and in commitments.
LEMMA OwedParts ==
    ASSUME NEW s \in [Investors -> Accounts], NEW l \in Locks
    PROVE  /\ SourceDue(s) \in Nat
           /\ SumFunction([i \in Investors |-> s[i].neumarksDue + l.accounts[i].neumarksDue])
                 = SourceDue(s) + Due(l)
<1> DEFINE f == [i \in Investors |-> s[i].neumarksDue]
           g == [i \in Investors |-> l.accounts[i].neumarksDue]
<1>1. f \in [Investors -> Nat] /\ g \in [Investors -> Nat]
  BY LockTypes DEF Accounts
<1>2. /\ \A i \in Investors : f[i] = s[i].neumarksDue /\ g[i] = l.accounts[i].neumarksDue
      /\ SourceDue(s) = SumFunction(f) /\ Due(l) = SumFunction(g)
  BY DEF SourceDue, Due
<1>3. [i \in Investors |-> s[i].neumarksDue + l.accounts[i].neumarksDue]
         = [i \in Investors |-> f[i] + g[i]]
  OBVIOUS
<1> HIDE DEF f, g
<1>4. SumFunction(f) \in Nat
  BY <1>1, LockAssumption, SumIsNatural
<1>5. SumFunction([i \in Investors |-> f[i] + g[i]]) = SumFunction(f) + SumFunction(g)
  BY <1>1, LockAssumption, SumOfSums
<1> QED
  BY <1>2, <1>3, <1>4, <1>5

\* Migrating an account takes what it owes out of the old wallet.
LEMMA SourceShrinks ==
    ASSUME NEW s \in [Investors -> Accounts], NEW i \in Investors
    PROVE  SourceDue([s EXCEPT ![i] = NoAccount]) = SourceDue(s) - s[i].neumarksDue
<1> DEFINE t == [s EXCEPT ![i] = NoAccount]
           f == [j \in Investors |-> s[j].neumarksDue]
           g == [j \in Investors |-> t[j].neumarksDue]
<1>1. /\ f \in [Investors -> Int] /\ g \in [Investors -> Int]
      /\ \A j \in Investors \ {i} : f[j] = g[j]
      /\ f[i] = s[i].neumarksDue /\ g[i] = 0 /\ f[i] \in Int
  BY DEF Accounts, NoAccount
<1>2. SourceDue(s) = SumFunction(f) /\ SourceDue(t) = SumFunction(g)
  BY DEF SourceDue
<1> HIDE DEF f, g
<1>3. SumFunction(f) \in Int /\ SumFunction(g) = SumFunction(f) - f[i] + g[i]
  BY <1>1, LockAssumption, SumOfChange
<1> QED
  BY <1>1, <1>2, <1>3

\* However accounts are split, joined, invested and refunded, and however shares are
\* rounded, Neumarks due only disappear by being burned or by a successful commitment.
THEOREM NoDebtIsLost == Spec => DebtIsConserved
<1> DEFINE Conserved == \/ \E c \in Commitments, i \in Investors : CommitmentClaims(c, i)
                        \/ Owed - Owed' = NeuSupply - NeuSupply'
<1>1. ASSUME WalletInv, WalletInv', [Next]_lockVars PROVE Conserved
  <2> USE WalletTypes
  <2>1. /\ lock' \in Locks /\ source' \in [Investors -> Accounts]
        /\ neu \in [Investors -> Nat]
    BY <1>1 DEF WalletInv, TypeOK
  <2>2. /\ Owed = SourceDue(source) + Due(lock) + PendingDue(lock)
        /\ SourceDue(source) \in Nat
    BY <1>1, OwedParts DEF Owed, PendingDue
  <2>3. /\ Owed' = SourceDue(source') + Due(lock') + PendingDue(lock')
        /\ SourceDue(source') \in Nat
    BY <2>1, OwedParts DEF Owed, PendingDue
  <2>4. /\ Due(lock) \in Nat /\ PendingDue(lock) \in Nat
        /\ Due(lock') \in Nat /\ PendingDue(lock') \in Nat
    BY <1>1, <2>1, LockSums
  <2>5. NeuSupply \in Nat
    BY <2>1, LockAssumption, SumIsNatural DEF NeuSupply
  <2>6. ASSUME UNCHANGED <<source, neu>>,
               Due(lock') + PendingDue(lock') = Due(lock) + PendingDue(lock)
        PROVE  Conserved
    <3>1. NeuSupply' = NeuSupply /\ SourceDue(source') = SourceDue(source)
      BY <2>6 DEF NeuSupply
    <3>2. Owed - Owed' = NeuSupply - NeuSupply'
      BY <2>2, <2>3, <2>4, <2>5, <2>6, <3>1
    <3> QED
      BY <3>2
  <2>7. ASSUME NEW i \in Investors, Migrate(i) PROVE Conserved
    <3>1. Due(lock') = Due(lock) + source[i].neumarksDue /\ PendingDue(lock') = PendingDue(lock)
      BY <1>1, <2>7, MigrateInv DEF PendingDue
    <3>2. SourceDue(source') = SourceDue(source) - source[i].neumarksDue /\ neu' = neu
      BY <1>1, <2>7, SourceShrinks DEF Migrate
    <3>3. NeuSupply' = NeuSupply /\ source[i].neumarksDue \in Nat
      BY <1>1, <3>2 DEF NeuSupply
    <3>4. Owed - Owed' = NeuSupply - NeuSupply'
      BY <2>2, <2>3, <2>4, <2>5, <3>1, <3>2, <3>3
    <3> QED
      BY <3>4
  <2>8. ASSUME NEW i \in Investors, Unlock(i) PROVE Conserved
    <3>1. /\ Due(lock') = Due(lock) - lock.accounts[i].neumarksDue
          /\ PendingDue(lock') = PendingDue(lock)
          /\ NeuSupply' = NeuSupply - lock.accounts[i].neumarksDue
          /\ lock.accounts[i].neumarksDue \in Nat
      BY <1>1, <2>8, UnlockInv, LockTypes DEF PendingDue, NeuSupply
    <3>2. SourceDue(source') = SourceDue(source)
      BY <2>8 DEF Unlock
    <3>3. Owed - Owed' = NeuSupply - NeuSupply'
      BY <2>2, <2>3, <2>4, <2>5, <3>1, <3>2
    <3> QED
      BY <3>3
  <2>9. ASSUME NEW i \in Investors, NEW c \in Commitments, NEW amount \in Amounts,
               Transfer(i, c, amount)
        PROVE  Conserved
    BY <1>1, <2>6, <2>9, TransferInv DEF Transfer
  <2>10. ASSUME NEW i \in Investors, NEW c \in Commitments, CommitmentRefunds(c, i)
         PROVE  Conserved
    BY <1>1, <2>6, <2>10, CommitmentRefundsInv DEF CommitmentRefunds
  <2>11. ASSUME UNCHANGED <<lock, source, neu>> PROVE Conserved
    BY <2>6, <2>11
  <2> HIDE DEF Conserved
  <2>12. ASSUME NEW i \in Investors, NEW c \in Commitments, CommitmentClaims(c, i)
         PROVE  Conserved
    BY <2>12 DEF Conserved
  <2> QED
    BY <1>1, <2>7, <2>8, <2>9, <2>10, <2>11, <2>12, QuietInv DEF Next
<1>2. WalletInv /\ WalletInv' /\ [Next]_lockVars => [Conserved]_lockVars
  BY <1>1
<1> QED
  BY <1>2, WalletInvHolds, PTL DEF Spec, DebtIsConserved

\* Joining accounts never brings an unlock date forward, whoever migrates to whom.
THEOREM UnlockDateKept == Spec => UnlockDateNeverEarlier
<1> DEFINE Later == \A i \in Investors :
                       LET before == lock.accounts[i].unlockDate
                           after  == lock'.accounts[i].unlockDate
                       IN after = 0 \/ after >= before
<1>1. ASSUME WalletInv, [Next]_lockVars PROVE Later
  <2>1. \A j \in Investors : lock.accounts[j].unlockDate \in Nat
    BY <1>1, WalletTypes, LockTypes
  <2>2. ASSUME NEW i \in Investors, Migrate(i) PROVE Later
    BY <1>1, <2>2, MigrateInv
  <2>3. ASSUME NEW i \in Investors, NEW c \in Commitments, NEW amount \in Amounts,
               Transfer(i, c, amount)
        PROVE  Later
    BY <1>1, <2>1, <2>3, TransferInv
  <2>4. ASSUME NEW i \in Investors, Unlock(i) PROVE Later
    BY <1>1, <2>1, <2>4, UnlockInv
  <2>5. ASSUME NEW i \in Investors, NEW c \in Commitments, CommitmentRefunds(c, i)
        PROVE  Later
    BY <1>1, <2>1, <2>5, CommitmentRefundsInv
  <2>6. ASSUME NEW i \in Investors, NEW c \in Commitments, CommitmentClaims(c, i)
        PROVE  Later
    BY <1>1, <2>1, <2>6, CommitmentClaimsInv
  <2>7. ASSUME UNCHANGED lock PROVE Later
    BY <2>1, <2>7
  <2> HIDE DEF Later
  <2> QED
    BY <1>1, <2>2, <2>3, <2>4, <2>5, <2>6, <2>7, QuietInv DEF Next
<1>2. WalletInv /\ [Next]_lockVars => [Later]_lockVars
  BY <1>1
<1> QED
  BY <1>2, WalletInvHolds, PTL DEF Spec, UnlockDateNeverEarlier

=============================================================================
