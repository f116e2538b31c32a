----------------------------- MODULE LockRecords -----------------------------
(***************************************************************************)
(* The bookkeeping of one ICBM wallet (LockedAccount.sol) as operators on  *)
(* a lock record l:                                                        *)
(*   l.accounts[i]        balance, neumarksDue and unlockDate of i         *)
(*   l.commitments[c][i]  what i has pending in commitment c               *)
(*   l.total              _totalLockedAmount                               *)
(*   l.investors          _totalInvestors                                  *)
(* LockedAccount runs one wallet, ETOCommitment the wallets of both        *)
(* currencies against one offering.                                        *)
(***************************************************************************)
EXTENDS PlatformTerms, FiniteSets, SequencesExt

CONSTANTS
    Investors, Commitments,
    PENALTY_FRACTION    \* what an investor who unlocks early pays, a decimal fraction

\* config.js deploys a penalty of a tenth; the code itself accepts any number
ASSUME LockAssumption ==
    /\ IsFiniteSet(Investors) /\ IsFiniteSet(Commitments)
    /\ PENALTY_FRACTION \in 0 .. Q

Money == [balance : Nat, neumarksDue : Nat]
Accounts == [balance : Nat, neumarksDue : Nat, unlockDate : Nat]
Locks == [accounts : [Investors -> Accounts], commitments : [Commitments -> [Investors -> Money]],
          total : Nat, investors : Nat]

NoMoney == [balance |-> 0, neumarksDue |-> 0]
NoAccount == [balance |-> 0, neumarksDue |-> 0, unlockDate |-> 0]
EmptyLock == [accounts |-> [i \in Investors |-> NoAccount],
              commitments |-> [c \in Commitments |-> [i \in Investors |-> NoMoney]],
              total |-> 0, investors |-> 0]

Funds(l) == SumFunction([i \in Investors |-> l.accounts[i].balance])
Locked(l) == {i \in Investors : l.accounts[i].unlockDate > 0}

\* The counters agree with the accounts, an account without a date is no account, and
\* nothing is due for nothing.
SoundLock(l) ==
    /\ l \in Locks
    /\ l.total = Funds(l)
    /\ l.investors = Cardinality(Locked(l))
    /\ \A i \in Investors :
          /\ l.accounts[i].unlockDate = 0 => l.accounts[i].balance = 0
          /\ l.accounts[i].balance = 0 => l.accounts[i].neumarksDue = 0
          /\ \A c \in Commitments :
                l.commitments[c][i].balance = 0 => l.commitments[c][i].neumarksDue = 0

-----------------------------------------------------------------------------

\* faulty: the balance is not checked
CanInvest_NoFunds(l, i, amount) == amount > 0 /\ l.accounts[i].unlockDate > 0

\* transfer: investing part of a balance releases the same part of the Neumarks due
CanInvest(l, i, amount) == amount > 0 /\ l.accounts[i].balance >= amount

\* faulty: the share of the Neumarks due is that of all locked funds
InvestFunds_ShareOfTotal(l, c, i, amount) ==
    LET unlocked == Proportion(l.accounts[i].neumarksDue, amount, l.total)
    IN [l EXCEPT !.total = @ - amount,
                 !.accounts[i].balance = @ - amount,
                 !.accounts[i].neumarksDue = @ - unlocked,
                 !.commitments[c][i] = [balance |-> @.balance + amount,
                                        neumarksDue |-> @.neumarksDue + unlocked]]

InvestFunds(l, c, i, amount) ==
    LET account  == l.accounts[i]
        unlocked == Proportion(account.neumarksDue, amount, account.balance)
    IN [l EXCEPT !.total = @ - amount,
                 !.accounts[i].balance = @ - amount,
                 !.accounts[i].neumarksDue = @ - unlocked,
                 !.commitments[c][i] = [balance |-> @.balance + amount,
                                        neumarksDue |-> @.neumarksDue + unlocked]]

\* refunded: a silent no-op without a pending investment
CanRefund(l, c, i) == l.commitments[c][i].balance > 0 => l.accounts[i].unlockDate > 0

Refunded(l, c, i) ==
    LET investment == l.commitments[c][i]
    IN IF investment.balance = 0 THEN l
       ELSE [l EXCEPT !.commitments[c][i] = NoMoney,
                      !.total = @ + investment.balance,
                      !.accounts[i].balance = @ + investment.balance,
                      !.accounts[i].neumarksDue = @ + investment.neumarksDue]

Claimed(l, c, i) == [l EXCEPT !.commitments[c][i] = NoMoney]

\* faulty: the total keeps the balance that leaves
RemoveInvestor_TotalKept(l, i) ==
    [l EXCEPT !.investors = @ - 1,
              !.accounts[i] = NoAccount]

\* unlockInvestor: the account disappears, whatever is still pending in commitments
RemoveInvestor(l, i) ==
    [l EXCEPT !.total = @ - l.accounts[i].balance,
              !.investors = @ - 1,
              !.accounts[i] = NoAccount]

Penalty(account, t) ==
    IF t < account.unlockDate THEN DecimalFraction(account.balance, PENALTY_FRACTION) ELSE 0

\* faulty: the Neumarks due of an account that is joined are overwritten
LockFunds_DueOverwritten(l, i, amount, neumarks, unlockDate) ==
    [l EXCEPT !.investors = IF l.accounts[i].unlockDate = 0 THEN @ + 1 ELSE @,
              !.total = @ + amount,
              !.accounts[i] = [balance |-> @.balance + amount,
                               neumarksDue |-> neumarks,
                               unlockDate |-> Greatest(@.unlockDate, unlockDate)]]

\* faulty: the unlock date of an account that is joined is overwritten
LockFunds_DateOverwritten(l, i, amount, neumarks, unlockDate) ==
    [l EXCEPT !.investors = IF l.accounts[i].unlockDate = 0 THEN @ + 1 ELSE @,
              !.total = @ + amount,
              !.accounts[i] = [balance |-> @.balance + amount,
                               neumarksDue |-> @.neumarksDue + neumarks,
                               unlockDate |-> unlockDate]]

\* lock: a later unlock date wins when accounts are joined
LockFunds(l, i, amount, neumarks, unlockDate) ==
    [l EXCEPT !.investors = IF l.accounts[i].unlockDate = 0 THEN @ + 1 ELSE @,
              !.total = @ + amount,
              !.accounts[i] = [balance |-> @.balance + amount,
                               neumarksDue |-> @.neumarksDue + neumarks,
                               unlockDate |-> Greatest(@.unlockDate, unlockDate)]]

\* One turn of migrateInvestor's loop over the destinations.  m holds the lock, what
\* is left to migrate, and whether every requirement held so far.
SplitOff(m, destination) ==
    LET part == IF destination.amount = 0 THEN m.balance ELSE destination.amount
        fits == m.ok /\ part > 0 /\ part <= m.balance
        due  == IF fits THEN Proportion(m.neumarksDue, part, m.balance) ELSE 0
    IN [l |-> IF fits THEN LockFunds(m.l, destination.investor, part, due, m.unlockDate) ELSE m.l,
        balance |-> m.balance - part, neumarksDue |-> m.neumarksDue - due,
        unlockDate |-> m.unlockDate, ok |-> fits]

MigrateInvestor(l, i, source, destinations) ==
    LET m == [l |-> l, balance |-> source.balance, neumarksDue |-> source.neumarksDue,
              unlockDate |-> source.unlockDate, ok |-> source.balance > 0]
        r == FoldLeft(SplitOff, m, destinations)
    IN IF destinations = << >>
       THEN [m EXCEPT !.l = LockFunds(l, i, source.balance, source.neumarksDue, source.unlockDate),
                      !.balance = 0, !.neumarksDue = 0]
       ELSE [r EXCEPT !.ok = r.ok /\ r.balance = 0 /\ r.neumarksDue = 0]

=============================================================================
