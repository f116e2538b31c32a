------------------------- MODULE LockRecords_proofs --------------------------
(***************************************************************************)
(* What the bookkeeping of an ICBM wallet keeps: every operation of        *)
(* LockRecords leads from a sound lock record to a sound one, and moves    *)
(* exactly the funds and the Neumarks due it is asked to move.             *)
(***************************************************************************)
EXTENDS LockRecords, FiniteSums

-----------------------------------------------------------------------------

\* Quotients of natural numbers.
LEMMA QuotientFacts ==
    ASSUME NEW n \in Nat, NEW d \in Nat \ {0}
    PROVE  /\ n \div d \in Nat
           /\ d * (n \div d) <= n
           /\ n < d * (n \div d) + d
<1>1. /\ n \div d \in Nat
      /\ n % d \in 0 .. (d - 1)
      /\ n = d * (n \div d) + (n % d)
  BY Z3
<1> QED
  BY <1>1

\* The share of the Neumarks due that goes with a part of the funds is never more than
\* is due, and the whole of it goes with all funds (Math.proportion, rounded half up).
THEOREM ShareIsPart ==
    ASSUME NEW due \in Nat, NEW total \in Nat \ {0}, NEW part \in 0 .. total
    PROVE  /\ Proportion(due, part, total) \in 0 .. due
           /\ part = total => Proportion(due, part, total) = due
<1> DEFINE h == total \div 2
           n == due * part + h
           q == n \div total
<1>1. h \in Nat /\ h < total
  OBVIOUS
<1>2. due * part \in Nat /\ due * part <= due * total
  BY Z3
<1>3. n \in Nat
  BY <1>1, <1>2
<1>4. q \in Nat /\ total * q <= n /\ n < total * q + total
  BY <1>3, QuotientFacts
<1>5. Proportion(due, part, total) = q
  BY DEF Proportion, DivRound
<1> HIDE DEF h, q
<1>6. q <= due
  <2>1. SUFFICES ASSUME q >= due + 1 PROVE FALSE
    BY <1>4
  <2>2. total * q >= total * (due + 1)
    BY <1>4, <2>1, Z3
  <2>3. total * (due + 1) = due * total + total
    BY Z3
  <2> QED
    BY <1>1, <1>2, <1>4, <2>2, <2>3
<1>7. ASSUME part = total PROVE q = due
  <2>1. SUFFICES ASSUME q + 1 <= due PROVE FALSE
    BY <1>4, <1>6
  <2>2. total * (q + 1) <= total * due
    BY <1>4, <2>1, Z3
  <2>3. total * (q + 1) = total * q + total /\ total * due = due * part
    BY <1>4, <1>7, Z3
  <2> QED
    BY <1>1, <1>2, <1>4, <2>2, <2>3
<1> QED
  BY <1>4, <1>5, <1>6, <1>7

\* An early unlock never costs more than the balance.
LEMMA PenaltyIsPart ==
    ASSUME NEW account \in Accounts, NEW t
    PROVE  Penalty(account, t) \in 0 .. account.balance
<1>1. account.balance \in Nat
  BY DEF Accounts
<1>2. Proportion(account.balance, PENALTY_FRACTION, Q) \in 0 .. account.balance
  BY <1>1, ShareIsPart, QAssumption, LockAssumption
<1> QED
  BY <1>1, <1>2 DEF Penalty, DecimalFraction

-----------------------------------------------------------------------------

Due(l) == SumFunction([i \in Investors |-> l.accounts[i].neumarksDue])
Pending(l, c) == SumFunction([i \in Investors |-> l.commitments[c][i].balance])
PendingDue(l) ==
    SumFunction([ci \in Commitments \X Investors |-> l.commitments[ci[1]][ci[2]].neumarksDue])

\* The types of a lock record's parts.
LEMMA LockTypes ==
    ASSUME NEW l \in Locks
    PROVE  /\ l.accounts \in [Investors -> Accounts]
           /\ l.commitments \in [Commitments -> [Investors -> Money]]
           /\ l.total \in Nat /\ l.investors \in Nat
           /\ \A i \in Investors :
                 /\ l.accounts[i] \in Accounts
                 /\ l.accounts[i].balance \in Nat /\ l.accounts[i].neumarksDue \in Nat
                 /\ l.accounts[i].unlockDate \in Nat
                 /\ \A c \in Commitments :
                       /\ l.commitments[c][i] \in Money
                       /\ l.commitments[c][i].balance \in Nat
                       /\ l.commitments[c][i].neumarksDue \in Nat
BY DEF Locks, Accounts, Money

\* The sums over a lock record are natural numbers, and no account has more than all.
LEMMA LockSums ==
    ASSUME NEW l \in Locks
    PROVE  /\ Funds(l) \in Nat /\ Due(l) \in Nat /\ PendingDue(l) \in Nat
           /\ \A c \in Commitments : Pending(l, c) \in Nat
           /\ \A i \in Investors : l.accounts[i].balance <= Funds(l)
<1> DEFINE balances == [i \in Investors |-> l.accounts[i].balance]
           dues == [i \in Investors |-> l.accounts[i].neumarksDue]
           pendingDues == [ci \in Commitments \X Investors |->
                              l.commitments[ci[1]][ci[2]].neumarksDue]
           pending(c) == [i \in Investors |-> l.commitments[c][i].balance]
<1>1. balances \in [Investors -> Nat] /\ dues \in [Investors -> Nat]
  BY LockTypes
<1>2. pendingDues \in [Commitments \X Investors -> Nat]
  BY LockTypes
<1>3. \A c \in Commitments : pending(c) \in [Investors -> Nat]
  BY LockTypes
<1>4. IsFiniteSet(Investors) /\ IsFiniteSet(Commitments \X Investors)
  BY LockAssumption, FS_Product
<1>5. \A i \in Investors : balances[i] = l.accounts[i].balance
  OBVIOUS
<1>6. /\ Funds(l) = SumFunction(balances) /\ Due(l) = SumFunction(dues)
      /\ PendingDue(l) = SumFunction(pendingDues)
      /\ \A c \in Commitments : Pending(l, c) = SumFunction(pending(c))
  BY DEF Funds, Due, PendingDue, Pending
<1> HIDE DEF balances, dues, pendingDues, pending
<1>7. /\ SumFunction(balances) \in Nat
      /\ \A i \in Investors : SumFunction(balances) >= balances[i]
  BY <1>1, <1>4, SumIsNatural
<1>8. SumFunction(dues) \in Nat /\ SumFunction(pendingDues) \in Nat
  BY <1>1, <1>2, <1>4, SumIsNatural
<1>9. \A c \in Commitments : SumFunction(pending(c)) \in Nat
  BY <1>3, <1>4, SumIsNatural
<1>10. \A i \in Investors : l.accounts[i].balance <= Funds(l)
  BY <1>5, <1>6, <1>7, LockTypes
<1> QED
  BY <1>6, <1>7, <1>8, <1>9, <1>10

\* What a changed account changes of the sums.
LEMMA AccountChanges ==
    ASSUME NEW l \in Locks, NEW r \in Locks, NEW i \in Investors, NEW a \in Accounts,
           r.accounts = [l.accounts EXCEPT ![i] = a]
    PROVE  /\ Funds(r) = Funds(l) - l.accounts[i].balance + a.balance
           /\ Due(r) = Due(l) - l.accounts[i].neumarksDue + a.neumarksDue
           /\ Locked(r) = IF a.unlockDate > 0 THEN Locked(l) \cup {i} ELSE Locked(l) \ {i}
           /\ IsFiniteSet(Locked(l))
<1> DEFINE F(k) == [j \in Investors |-> k.accounts[j].balance]
           D(k) == [j \in Investors |-> k.accounts[j].neumarksDue]
<1>1. /\ F(l) \in [Investors -> Int] /\ F(r) \in [Investors -> Int]
      /\ D(l) \in [Investors -> Int] /\ D(r) \in [Investors -> Int]
  BY LockTypes
<1>2. r.accounts[i] = a /\ \A j \in Investors \ {i} : r.accounts[j] = l.accounts[j]
  BY LockTypes
<1>3. /\ F(r)[i] = a.balance /\ F(l)[i] = l.accounts[i].balance
      /\ D(r)[i] = a.neumarksDue /\ D(l)[i] = l.accounts[i].neumarksDue
      /\ \A j \in Investors \ {i} : F(r)[j] = F(l)[j] /\ D(r)[j] = D(l)[j]
  BY <1>2
<1>4. /\ SumFunction(F(r)) = SumFunction(F(l)) - F(l)[i] + F(r)[i]
      /\ SumFunction(D(r)) = SumFunction(D(l)) - D(l)[i] + D(r)[i]
  <2> HIDE DEF F, D
  <2> QED
    BY <1>1, <1>3, LockAssumption, SumOfChange
<1>5. Locked(r) = IF a.unlockDate > 0 THEN Locked(l) \cup {i} ELSE Locked(l) \ {i}
  BY <1>2 DEF Locked
<1>6. IsFiniteSet(Locked(l))
  BY LockAssumption, FS_Subset DEF Locked
<1> QED
  BY <1>3, <1>4, <1>5, <1>6 DEF Funds, Due

\* What a changed pending investment changes of the sums.
LEMMA PendingChanges ==
    ASSUME NEW l \in Locks, NEW r \in Locks, NEW c \in Commitments, NEW i \in Investors,
           NEW p \in Money, r.commitments = [l.commitments EXCEPT ![c][i] = p]
    PROVE  /\ Pending(r, c) = Pending(l, c) - l.commitments[c][i].balance + p.balance
           /\ \A d \in Commitments \ {c} : Pending(r, d) = Pending(l, d)
           /\ PendingDue(r) = PendingDue(l) - l.commitments[c][i].neumarksDue + p.neumarksDue
<1> DEFINE F(k) == [j \in Investors |-> k.commitments[c][j].balance]
           D(k) == [ci \in Commitments \X Investors |->
                       k.commitments[ci[1]][ci[2]].neumarksDue]
<1>1. /\ F(l) \in [Investors -> Int] /\ F(r) \in [Investors -> Int]
      /\ D(l) \in [Commitments \X Investors -> Int] /\ D(r) \in [Commitments \X Investors -> Int]
  BY LockTypes
<1>2. /\ r.commitments[c][i] = p
      /\ \A j \in Investors \ {i} : r.commitments[c][j] = l.commitments[c][j]
      /\ \A d \in Commitments \ {c} : r.commitments[d] = l.commitments[d]
  BY LockTypes
<1>3. /\ F(r)[i] = p.balance /\ F(l)[i] = l.commitments[c][i].balance
      /\ \A j \in Investors \ {i} : F(r)[j] = F(l)[j]
  BY <1>2
<1>4. /\ <<c, i>> \in Commitments \X Investors
      /\ D(r)[<<c, i>>] = p.neumarksDue
      /\ D(l)[<<c, i>>] = l.commitments[c][i].neumarksDue
  BY <1>2
<1>5. ASSUME NEW ci \in (Commitments \X Investors) \ {<<c, i>>}
      PROVE  D(r)[ci] = D(l)[ci]
  <2>1. PICK d \in Commitments, j \in Investors : ci = <<d, j>>
    OBVIOUS
  <2>2. r.commitments[d][j] = l.commitments[d][j]
    BY <1>2, <2>1
  <2> QED
    BY <2>1, <2>2
<1>6. SumFunction(F(r)) = SumFunction(F(l)) - F(l)[i] + F(r)[i]
  <2> HIDE DEF F
  <2> QED
    BY <1>1, <1>3, LockAssumption, SumOfChange
<1>7. SumFunction(D(r)) = SumFunction(D(l)) - D(l)[<<c, i>>] + D(r)[<<c, i>>]
  <2> DEFINE S == Commitments \X Investors
             ci == <<c, i>>
  <2>1. IsFiniteSet(S) /\ ci \in S
    BY LockAssumption, FS_Product
  <2>2. /\ D(l) \in [S -> Int] /\ D(r) \in [S -> Int]
        /\ \A x \in S \ {ci} : D(r)[x] = D(l)[x]
    BY <1>1, <1>5
  <2> HIDE DEF D, S, ci
  <2>3. SumFunction(D(r)) = SumFunction(D(l)) - D(l)[ci] + D(r)[ci]
    BY <2>1, <2>2, SumOfChange
  <2> QED
    BY <2>3 DEF ci
<1>8. \A d \in Commitments \ {c} : Pending(r, d) = Pending(l, d)
  BY <1>2 DEF Pending
<1>9. Pending(r, c) = Pending(l, c) - l.commitments[c][i].balance + p.balance
  BY <1>3, <1>6 DEF Pending
<1>10. PendingDue(r) = PendingDue(l) - l.commitments[c][i].neumarksDue + p.neumarksDue
  BY <1>4, <1>7 DEF PendingDue
<1> QED
  BY <1>8, <1>9, <1>10

-----------------------------------------------------------------------------

\* lock: an account that is opened or joined grows by what is locked, keeps the later
\* unlock date, and the counters follow.
THEOREM LockFundsIsSound ==
    ASSUME NEW l, SoundLock(l), NEW i \in Investors, NEW amount \in Nat \ {0},
           NEW neumarks \in Nat, NEW unlockDate \in Nat \ {0}
    PROVE  LET r == LockFunds(l, i, amount, neumarks, unlockDate)
           IN /\ SoundLock(r)
              /\ r.total = l.total + amount
              /\ Due(r) = Due(l) + neumarks
              /\ r.commitments = l.commitments
              /\ \A j \in Investors : r.accounts[j].unlockDate >= l.accounts[j].unlockDate
<1> DEFINE old == l.accounts[i]
           a == [balance |-> old.balance + amount,
                 neumarksDue |-> old.neumarksDue + neumarks,
                 unlockDate |-> Greatest(old.unlockDate, unlockDate)]
           r == LockFunds(l, i, amount, neumarks, unlockDate)
<1>l. /\ l \in Locks /\ l.total = Funds(l) /\ l.investors = Cardinality(Locked(l))
      /\ \A j \in Investors :
            /\ l.accounts[j].unlockDate = 0 => l.accounts[j].balance = 0
            /\ l.accounts[j].balance = 0 => l.accounts[j].neumarksDue = 0
            /\ \A c \in Commitments :
                  l.commitments[c][j].balance = 0 => l.commitments[c][j].neumarksDue = 0
  BY DEF SoundLock
<1>t. old.balance \in Nat /\ old.neumarksDue \in Nat /\ old.unlockDate \in Nat
  BY <1>l, LockTypes
<1>1. /\ a \in Accounts
      /\ a.balance = old.balance + amount /\ a.neumarksDue = old.neumarksDue + neumarks
      /\ a.unlockDate >= old.unlockDate /\ a.unlockDate > 0
  BY <1>t DEF Accounts, Greatest
<1>2. /\ r.accounts = [l.accounts EXCEPT ![i] = a]
      /\ r.commitments = l.commitments
      /\ r.total = l.total + amount
      /\ r.investors = IF old.unlockDate = 0 THEN l.investors + 1 ELSE l.investors
      /\ r = [accounts |-> r.accounts, commitments |-> r.commitments,
              total |-> r.total, investors |-> r.investors]
  <2>1. r = [l EXCEPT !.investors = IF old.unlockDate = 0 THEN @ + 1 ELSE @,
                      !.total = @ + amount, !.accounts[i] = a]
    BY DEF LockFunds
  <2> HIDE DEF r, a
  <2> QED
    BY <1>l, <2>1 DEF Locks
<1> HIDE DEF a, r
<1>3. r \in Locks
  <2>1. r.accounts \in [Investors -> Accounts]
    BY <1>l, <1>1, <1>2, LockTypes
  <2>2. r.total \in Nat /\ r.investors \in Nat
    BY <1>l, <1>2, LockTypes
  <2> QED
    BY <1>l, <1>2, <2>1, <2>2, LockTypes DEF Locks
<1>4. /\ Funds(r) = Funds(l) - old.balance + a.balance
      /\ Due(r) = Due(l) - old.neumarksDue + a.neumarksDue
      /\ Locked(r) = Locked(l) \cup {i}
      /\ IsFiniteSet(Locked(l))
  BY <1>l, <1>1, <1>2, <1>3, AccountChanges
<1>5. Funds(l) \in Nat /\ Due(l) \in Nat
  BY <1>l, LockSums
<1>6. Funds(r) = Funds(l) + amount /\ Due(r) = Due(l) + neumarks
  BY <1>1, <1>4, <1>5, <1>t
<1>7. r.investors = Cardinality(Locked(r))
  <2>1. i \in Locked(l) <=> old.unlockDate # 0
    BY <1>t DEF Locked
  <2>2. Cardinality(Locked(r)) = IF i \in Locked(l) THEN Cardinality(Locked(l))
                                                    ELSE Cardinality(Locked(l)) + 1
    BY <1>4, FS_AddElement
  <2> QED
    BY <1>2, <1>l, <2>1, <2>2
<1>8. r.accounts[i] = a /\ \A j \in Investors \ {i} : r.accounts[j] = l.accounts[j]
  BY <1>l, <1>2, LockTypes
<1>9. ASSUME NEW j \in Investors
      PROVE  /\ r.accounts[j].unlockDate = 0 => r.accounts[j].balance = 0
             /\ r.accounts[j].balance = 0 => r.accounts[j].neumarksDue = 0
             /\ r.accounts[j].unlockDate >= l.accounts[j].unlockDate
  <2>1. CASE j = i
    BY <2>1, <1>1, <1>8, <1>t
  <2>2. CASE j # i
    BY <2>2, <1>8, <1>l, LockTypes
  <2> QED
    BY <2>1, <2>2
<1>10. SoundLock(r)
  BY <1>2, <1>3, <1>6, <1>7, <1>9, <1>l DEF SoundLock
<1> QED
  BY <1>2, <1>6, <1>9, <1>10 DEF r

\* transfer: what is invested leaves the account with its share of the Neumarks due, and
\* is pending in the commitment.
THEOREM InvestFundsIsSound ==
    ASSUME NEW l, SoundLock(l), NEW i \in Investors, NEW c \in Commitments,
           NEW amount \in Nat, CanInvest(l, i, amount)
    PROVE  LET r == InvestFunds(l, c, i, amount)
           IN /\ SoundLock(r)
              /\ r.total = l.total - amount
              /\ Due(r) + PendingDue(r) = Due(l) + PendingDue(l)
              /\ Pending(r, c) = Pending(l, c) + amount
              /\ \A d \in Commitments \ {c} : Pending(r, d) = Pending(l, d)
              /\ \A j \in Investors : r.accounts[j].unlockDate = l.accounts[j].unlockDate
<1> DEFINE old == l.accounts[i]
           was == l.commitments[c][i]
           share == Proportion(old.neumarksDue, amount, old.balance)
           a == [balance |-> old.balance - amount, neumarksDue |-> old.neumarksDue - share,
                 unlockDate |-> old.unlockDate]
           p == [balance |-> was.balance + amount, neumarksDue |-> was.neumarksDue + share]
           r == InvestFunds(l, c, i, amount)
<1>l. /\ l \in Locks /\ l.total = Funds(l) /\ l.investors = Cardinality(Locked(l))
      /\ \A j \in Investors :
            /\ l.accounts[j].unlockDate = 0 => l.accounts[j].balance = 0
            /\ l.accounts[j].balance = 0 => l.accounts[j].neumarksDue = 0
            /\ \A d \in Commitments :
                  l.commitments[d][j].balance = 0 => l.commitments[d][j].neumarksDue = 0
  BY DEF SoundLock
<1>t. /\ old.balance \in Nat /\ old.neumarksDue \in Nat /\ old.unlockDate \in Nat
      /\ was.balance \in Nat /\ was.neumarksDue \in Nat
      /\ old = [balance |-> old.balance, neumarksDue |-> old.neumarksDue,
                unlockDate |-> old.unlockDate]
  <2>1. old \in Accounts
    BY <1>l, LockTypes
  <2> QED
    BY <1>l, <2>1, LockTypes DEF Accounts
<1>c. amount > 0 /\ old.balance >= amount /\ old.unlockDate > 0
  BY <1>l, <1>t DEF CanInvest
<1>s. share \in 0 .. old.neumarksDue /\ (amount = old.balance => share = old.neumarksDue)
  <2>1. old.balance \in Nat \ {0} /\ amount \in 0 .. old.balance
    BY <1>t, <1>c
  <2> QED
    BY <2>1, <1>t, ShareIsPart
<1>2. /\ r.accounts = [l.accounts EXCEPT ![i] = a]
      /\ r.commitments = [l.commitments EXCEPT ![c][i] = p]
      /\ r.total = l.total - amount
      /\ r.investors = l.investors
      /\ r = [accounts |-> r.accounts, commitments |-> r.commitments,
              total |-> r.total, investors |-> r.investors]
  <2> HIDE DEF share
  <2>1. [l.accounts EXCEPT ![i].balance = @ - amount, ![i].neumarksDue = @ - share]
           = [l.accounts EXCEPT ![i] = a]
    BY <1>l, <1>t, LockTypes
  <2>2. r = [l EXCEPT !.total = @ - amount,
                      !.accounts[i].balance = @ - amount,
                      !.accounts[i].neumarksDue = @ - share,
                      !.commitments[c][i] = [balance |-> @.balance + amount,
                                             neumarksDue |-> @.neumarksDue + share]]
    BY DEF InvestFunds, share
  <2> HIDE DEF r
  <2> QED
    BY <1>l, <2>1, <2>2 DEF Locks
<1> HIDE DEF share
<1>1. /\ a \in Accounts /\ p \in Money
      /\ a.balance = old.balance - amount /\ a.neumarksDue = old.neumarksDue - share
      /\ a.unlockDate = old.unlockDate
      /\ p.balance = was.balance + amount /\ p.neumarksDue = was.neumarksDue + share
  BY <1>t, <1>c, <1>s DEF Accounts, Money
<1> HIDE DEF a, p, r
<1>f. Funds(l) \in Nat /\ Due(l) \in Nat /\ PendingDue(l) \in Nat /\ Pending(l, c) \in Nat
      /\ old.balance <= Funds(l)
  BY <1>l, LockSums
<1>3. r \in Locks
  <2>1. r.accounts \in [Investors -> Accounts]
    BY <1>l, <1>1, <1>2, LockTypes
  <2>2. r.commitments \in [Commitments -> [Investors -> Money]]
    BY <1>l, <1>1, <1>2, LockTypes
  <2>3. r.total \in Nat /\ r.investors \in Nat
    BY <1>l, <1>c, <1>f, <1>t, <1>2, LockTypes
  <2> QED
    BY <1>2, <2>1, <2>2, <2>3 DEF Locks
<1>4. /\ Funds(r) = Funds(l) - old.balance + a.balance
      /\ Due(r) = Due(l) - old.neumarksDue + a.neumarksDue
      /\ Locked(r) = Locked(l) \cup {i}
  BY <1>l, <1>c, <1>1, <1>2, <1>3, AccountChanges
<1>5. /\ Pending(r, c) = Pending(l, c) - was.balance + p.balance
      /\ \A d \in Commitments \ {c} : Pending(r, d) = Pending(l, d)
      /\ PendingDue(r) = PendingDue(l) - was.neumarksDue + p.neumarksDue
  BY <1>l, <1>1, <1>2, <1>3, PendingChanges
<1>6. /\ Funds(r) = Funds(l) - amount /\ Pending(r, c) = Pending(l, c) + amount
      /\ Due(r) + PendingDue(r) = Due(l) + PendingDue(l)
  BY <1>1, <1>4, <1>5, <1>f, <1>s, <1>t
<1>7. Locked(r) = Locked(l)
  BY <1>4, <1>c DEF Locked
<1>8. /\ r.accounts[i] = a /\ \A j \in Investors \ {i} : r.accounts[j] = l.accounts[j]
      /\ r.commitments[c][i] = p
      /\ \A j \in Investors \ {i} : r.commitments[c][j] = l.commitments[c][j]
      /\ \A d \in Commitments \ {c} : r.commitments[d] = l.commitments[d]
  BY <1>l, <1>2, LockTypes
<1>9. ASSUME NEW j \in Investors
      PROVE  /\ r.accounts[j].unlockDate = 0 => r.accounts[j].balance = 0
             /\ r.accounts[j].balance = 0 => r.accounts[j].neumarksDue = 0
             /\ r.accounts[j].unlockDate = l.accounts[j].unlockDate
  <2>1. CASE j = i
    BY <2>1, <1>1, <1>8, <1>t, <1>c, <1>s
  <2>2. CASE j # i
    BY <2>2, <1>8, <1>l
  <2> QED
    BY <2>1, <2>2
<1>10. ASSUME NEW j \in Investors, NEW d \in Commitments
       PROVE  r.commitments[d][j].balance = 0 => r.commitments[d][j].neumarksDue = 0
  <2>1. CASE j = i /\ d = c
    BY <2>1, <1>1, <1>8, <1>t, <1>c
  <2>2. CASE ~(j = i /\ d = c)
    <3>1. r.commitments[d][j] = l.commitments[d][j]
      BY <2>2, <1>8
    <3> QED
      BY <3>1, <1>l
  <2> QED
    BY <2>1, <2>2
<1>11. SoundLock(r)
  BY <1>2, <1>3, <1>6, <1>7, <1>9, <1>10, <1>l DEF SoundLock
<1> QED
  BY <1>2, <1>5, <1>6, <1>9, <1>11 DEF r

\* What the parts of a sound lock record are, for one investor.
LEMMA SoundLockParts ==
    ASSUME NEW l, SoundLock(l)
    PROVE  /\ l \in Locks /\ l.total = Funds(l) /\ l.investors = Cardinality(Locked(l))
           /\ \A i \in Investors :
                 /\ l.accounts[i].unlockDate = 0 => l.accounts[i].balance = 0
                 /\ l.accounts[i].balance = 0 => l.accounts[i].neumarksDue = 0
                 /\ \A c \in Commitments :
                       l.commitments[c][i].balance = 0 => l.commitments[c][i].neumarksDue = 0
BY DEF SoundLock

\* refunded: what is pending returns to the account with its Neumarks due.
THEOREM RefundedIsSound ==
    ASSUME NEW l, SoundLock(l), NEW i \in Investors, NEW c \in Commitments, CanRefund(l, c, i)
    PROVE  LET r == Refunded(l, c, i)
           IN /\ SoundLock(r)
              /\ r.total = l.total + l.commitments[c][i].balance
              /\ Due(r) + PendingDue(r) = Due(l) + PendingDue(l)
              /\ Pending(r, c) = Pending(l, c) - l.commitments[c][i].balance
              /\ \A d \in Commitments \ {c} : Pending(r, d) = Pending(l, d)
              /\ \A j \in Investors : r.accounts[j].unlockDate = l.accounts[j].unlockDate
<1> DEFINE old == l.accounts[i]
           was == l.commitments[c][i]
           a == [balance |-> old.balance + was.balance,
                 neumarksDue |-> old.neumarksDue + was.neumarksDue,
                 unlockDate |-> old.unlockDate]
           r == Refunded(l, c, i)
<1>l. /\ l \in Locks /\ l.total = Funds(l) /\ l.investors = Cardinality(Locked(l))
      /\ \A j \in Investors :
            /\ l.accounts[j].unlockDate = 0 => l.accounts[j].balance = 0
            /\ l.accounts[j].balance = 0 => l.accounts[j].neumarksDue = 0
            /\ \A d \in Commitments :
                  l.commitments[d][j].balance = 0 => l.commitments[d][j].neumarksDue = 0
  BY SoundLockParts
<1>t. /\ old.balance \in Nat /\ old.neumarksDue \in Nat /\ old.unlockDate \in Nat
      /\ was.balance \in Nat /\ was.neumarksDue \in Nat
      /\ old = [balance |-> old.balance, neumarksDue |-> old.neumarksDue,
                unlockDate |-> old.unlockDate]
  <2>1. old \in Accounts
    BY <1>l, LockTypes
  <2> QED
    BY <1>l, <2>1, LockTypes DEF Accounts
<1>f. Funds(l) \in Nat /\ Due(l) \in Nat /\ PendingDue(l) \in Nat /\ Pending(l, c) \in Nat
  BY <1>l, LockSums
<1>0. CASE was.balance = 0
  <2>1. r = l
    BY <1>0 DEF Refunded
  <2> QED
    BY <2>1, <1>0, <1>f, <1>l, LockTypes
<1>1. CASE was.balance # 0
  <2>c. was.balance > 0 /\ old.unlockDate > 0
    BY <1>1, <1>t DEF CanRefund
  <2>2. /\ r.accounts = [l.accounts EXCEPT ![i] = a]
        /\ r.commitments = [l.commitments EXCEPT ![c][i] = NoMoney]
        /\ r.total = l.total + was.balance
        /\ r.investors = l.investors
        /\ r = [accounts |-> r.accounts, commitments |-> r.commitments,
                total |-> r.total, investors |-> r.investors]
    <3>1. [l.accounts EXCEPT ![i].balance = @ + was.balance,
                             ![i].neumarksDue = @ + was.neumarksDue]
             = [l.accounts EXCEPT ![i] = a]
      BY <1>l, <1>t, LockTypes
    <3>2. r = [l EXCEPT !.commitments[c][i] = NoMoney,
                        !.total = @ + was.balance,
                        !.accounts[i].balance = @ + was.balance,
                        !.accounts[i].neumarksDue = @ + was.neumarksDue]
      BY <1>1 DEF Refunded
    <3> HIDE DEF r
    <3> QED
      BY <1>l, <3>1, <3>2 DEF Locks
  <2>1. /\ a \in Accounts /\ NoMoney \in Money
        /\ a.balance = old.balance + was.balance
        /\ a.neumarksDue = old.neumarksDue + was.neumarksDue
        /\ a.unlockDate = old.unlockDate
    BY <1>t DEF Accounts, Money, NoMoney
  <2> HIDE DEF a, r
  <2>3. r \in Locks
    <3>1. r.accounts \in [Investors -> Accounts]
      BY <1>l, <2>1, <2>2, LockTypes
    <3>2. r.commitments \in [Commitments -> [Investors -> Money]]
      BY <1>l, <2>1, <2>2, LockTypes
    <3>3. r.total \in Nat /\ r.investors \in Nat
      BY <1>l, <1>t, <2>2, LockTypes
    <3> QED
      BY <2>2, <3>1, <3>2, <3>3 DEF Locks
  <2>4. /\ Funds(r) = Funds(l) - old.balance + a.balance
        /\ Due(r) = Due(l) - old.neumarksDue + a.neumarksDue
        /\ Locked(r) = Locked(l) \cup {i}
    BY <1>l, <2>c, <2>1, <2>2, <2>3, AccountChanges
  <2>5. /\ Pending(r, c) = Pending(l, c) - was.balance
        /\ \A d \in Commitments \ {c} : Pending(r, d) = Pending(l, d)
        /\ PendingDue(r) = PendingDue(l) - was.neumarksDue
    <3>1. /\ Pending(r, c) = Pending(l, c) - was.balance + NoMoney.balance
          /\ \A d \in Commitments \ {c} : Pending(r, d) = Pending(l, d)
          /\ PendingDue(r) = PendingDue(l) - was.neumarksDue + NoMoney.neumarksDue
      BY <1>l, <2>1, <2>2, <2>3, PendingChanges
    <3> QED
      BY <3>1, <1>f, <1>t DEF NoMoney
  <2>6. /\ Funds(r) = Funds(l) + was.balance
        /\ Due(r) + PendingDue(r) = Due(l) + PendingDue(l)
    BY <2>1, <2>4, <2>5, <1>f, <1>t
  <2>7. Locked(r) = Locked(l)
    BY <2>4, <2>c DEF Locked
  <2>8. r.accounts[i] = a /\ \A j \in Investors \ {i} : r.accounts[j] = l.accounts[j]
    BY <1>l, <2>2, LockTypes
  <2>9. ASSUME NEW j \in Investors
        PROVE  /\ r.accounts[j].unlockDate = 0 => r.accounts[j].balance = 0
               /\ r.accounts[j].balance = 0 => r.accounts[j].neumarksDue = 0
               /\ r.accounts[j].unlockDate = l.accounts[j].unlockDate
    <3>1. CASE j = i
      BY <3>1, <2>1, <2>8, <1>t, <2>c
    <3>2. CASE j # i
      BY <3>2, <2>8, <1>l
    <3> QED
      BY <3>1, <3>2
  <2>p. ASSUME NEW j \in Investors, NEW d \in Commitments
        PROVE  r.commitments[d][j].balance = 0 => r.commitments[d][j].neumarksDue = 0
    <3>1. r.commitments[d][j] = IF j = i /\ d = c THEN NoMoney ELSE l.commitments[d][j]
      BY <1>l, <2>2, LockTypes
    <3> QED
      BY <3>1, SoundLockParts DEF NoMoney
  <2>10. SoundLock(r)
    BY <2>2, <2>3, <2>p, <2>6, <2>7, <2>9, <1>l DEF SoundLock
  <2> QED
    BY <2>2, <2>5, <2>6, <2>9, <2>10 DEF r
<1> QED
  BY <1>0, <1>1

\* claimed: what was pending is settled, funds and Neumarks due.
THEOREM ClaimedIsSound ==
    ASSUME NEW l, SoundLock(l), NEW i \in Investors, NEW c \in Commitments
    PROVE  LET r == Claimed(l, c, i)
           IN /\ SoundLock(r)
              /\ r.total = l.total /\ r.accounts = l.accounts
              /\ Pending(r, c) = Pending(l, c) - l.commitments[c][i].balance
              /\ \A d \in Commitments \ {c} : Pending(r, d) = Pending(l, d)
<1> DEFINE r == Claimed(l, c, i)
<1>l. /\ l \in Locks /\ l.total = Funds(l) /\ l.investors = Cardinality(Locked(l))
      /\ \A j \in Investors :
            /\ l.accounts[j].unlockDate = 0 => l.accounts[j].balance = 0
            /\ l.accounts[j].balance = 0 => l.accounts[j].neumarksDue = 0
  BY SoundLockParts
<1>1. /\ r.commitments = [l.commitments EXCEPT ![c][i] = NoMoney]
      /\ r.accounts = l.accounts /\ r.total = l.total /\ r.investors = l.investors
      /\ r = [accounts |-> r.accounts, commitments |-> r.commitments,
              total |-> r.total, investors |-> r.investors]
  <2>1. r = [l EXCEPT !.commitments[c][i] = NoMoney]
    BY DEF Claimed
  <2> HIDE DEF r
  <2> QED
    BY <1>l, <2>1 DEF Locks
<1> HIDE DEF r
<1>2. r \in Locks
  <2>1. NoMoney \in Money
    BY DEF NoMoney, Money
  <2>2. r.commitments \in [Commitments -> [Investors -> Money]]
    BY <1>l, <1>1, <2>1, LockTypes
  <2> QED
    BY <1>l, <1>1, <2>2, LockTypes DEF Locks
<1>3. /\ Pending(r, c) = Pending(l, c) - l.commitments[c][i].balance
      /\ \A d \in Commitments \ {c} : Pending(r, d) = Pending(l, d)
  <2>1. NoMoney \in Money
    BY DEF NoMoney, Money
  <2>2. /\ Pending(r, c) = Pending(l, c) - l.commitments[c][i].balance + NoMoney.balance
        /\ \A d \in Commitments \ {c} : Pending(r, d) = Pending(l, d)
    BY <1>l, <1>1, <1>2, <2>1, PendingChanges
  <2>3. Pending(l, c) \in Nat /\ l.commitments[c][i].balance \in Nat
    BY <1>l, LockSums, LockTypes
  <2> QED
    BY <2>2, <2>3 DEF NoMoney
<1>p. ASSUME NEW j \in Investors, NEW d \in Commitments
      PROVE  r.commitments[d][j].balance = 0 => r.commitments[d][j].neumarksDue = 0
  <2>1. r.commitments[d][j] = IF j = i /\ d = c THEN NoMoney ELSE l.commitments[d][j]
    BY <1>l, <1>1, LockTypes
  <2> QED
    BY <2>1, SoundLockParts DEF NoMoney
<1>4. Funds(r) = Funds(l) /\ Locked(r) = Locked(l)
  BY <1>1 DEF Funds, Locked
<1>5. SoundLock(r)
  BY <1>l, <1>1, <1>2, <1>p, <1>4 DEF SoundLock
<1> QED
  BY <1>1, <1>3, <1>5 DEF r

\* unlock: the account disappears with its balance and its Neumarks due.
THEOREM RemoveInvestorIsSound ==
    ASSUME NEW l, SoundLock(l), NEW i \in Investors, l.accounts[i].balance > 0
    PROVE  LET r == RemoveInvestor(l, i)
           IN /\ SoundLock(r)
              /\ r.total = l.total - l.accounts[i].balance
              /\ Due(r) = Due(l) - l.accounts[i].neumarksDue
              /\ r.commitments = l.commitments
              /\ \A j \in Investors : r.accounts[j] = IF j = i THEN NoAccount ELSE l.accounts[j]
<1> DEFINE old == l.accounts[i]
           r == RemoveInvestor(l, i)
<1>l. /\ l \in Locks /\ l.total = Funds(l) /\ l.investors = Cardinality(Locked(l))
      /\ \A j \in Investors :
            /\ l.accounts[j].unlockDate = 0 => l.accounts[j].balance = 0
            /\ l.accounts[j].balance = 0 => l.accounts[j].neumarksDue = 0
            /\ \A d \in Commitments :
                  l.commitments[d][j].balance = 0 => l.commitments[d][j].neumarksDue = 0
  BY SoundLockParts
<1>t. old.balance \in Nat /\ old.neumarksDue \in Nat /\ old.unlockDate \in Nat
  BY <1>l, LockTypes
<1>c. old.unlockDate > 0
  BY <1>l, <1>t
<1>a. /\ NoAccount \in Accounts /\ NoAccount.balance = 0 /\ NoAccount.neumarksDue = 0
      /\ NoAccount.unlockDate = 0
  BY DEF NoAccount, Accounts
<1>1. /\ r.accounts = [l.accounts EXCEPT ![i] = NoAccount]
      /\ r.commitments = l.commitments
      /\ r.total = l.total - old.balance
      /\ r.investors = l.investors - 1
      /\ r = [accounts |-> r.accounts, commitments |-> r.commitments,
              total |-> r.total, investors |-> r.investors]
  <2>1. r = [l EXCEPT !.total = @ - old.balance, !.investors = @ - 1, !.accounts[i] = NoAccount]
    BY DEF RemoveInvestor
  <2> HIDE DEF r
  <2> QED
    BY <1>l, <2>1 DEF Locks
<1> HIDE DEF r
<1>f. Funds(l) \in Nat /\ Due(l) \in Nat /\ old.balance <= Funds(l)
  BY <1>l, LockSums
<1>2. i \in Locked(l) /\ IsFiniteSet(Locked(l))
  BY <1>c, LockAssumption, FS_Subset DEF Locked
<1>3. Cardinality(Locked(l) \ {i}) = Cardinality(Locked(l)) - 1 /\ IsFiniteSet(Locked(l) \ {i})
  BY <1>2, FS_RemoveElement
<1>4. Cardinality(Locked(l) \ {i}) \in Nat
  BY <1>3, FS_CardinalityType
<1>5. r \in Locks
  <2>1. r.accounts \in [Investors -> Accounts]
    BY <1>l, <1>1, <1>a, LockTypes
  <2>2. r.total \in Nat
    BY <1>1, <1>f, <1>l, <1>t
  <2>3. r.investors \in Nat
    BY <1>1, <1>3, <1>4, <1>l
  <2> QED
    BY <1>l, <1>1, <2>1, <2>2, <2>3, LockTypes DEF Locks
<1>6. /\ Funds(r) = Funds(l) - old.balance + NoAccount.balance
      /\ Due(r) = Due(l) - old.neumarksDue + NoAccount.neumarksDue
      /\ Locked(r) = Locked(l) \ {i}
  BY <1>l, <1>1, <1>5, <1>a, AccountChanges
<1>7. Funds(r) = Funds(l) - old.balance /\ Due(r) = Due(l) - old.neumarksDue
  BY <1>6, <1>a, <1>f, <1>t
<1>8. \A j \in Investors : r.accounts[j] = IF j = i THEN NoAccount ELSE l.accounts[j]
  BY <1>l, <1>1, LockTypes
<1>9. SoundLock(r)
  BY <1>l, <1>a, <1>1, <1>3, <1>5, <1>6, <1>7, <1>8 DEF SoundLock
<1> QED
  BY <1>1, <1>7, <1>8, <1>9 DEF r

\* A wallet starts with no account, and nothing pending.
LEMMA EmptyLockIsSound ==
    /\ SoundLock(EmptyLock)
    /\ EmptyLock.total = 0
    /\ \A c \in Commitments : Pending(EmptyLock, c) = 0
<1>1. /\ EmptyLock \in Locks
      /\ \A i \in Investors :
            /\ EmptyLock.accounts[i].balance = 0 /\ EmptyLock.accounts[i].neumarksDue = 0
            /\ EmptyLock.accounts[i].unlockDate = 0
            /\ \A c \in Commitments : /\ EmptyLock.commitments[c][i].balance = 0
                                      /\ EmptyLock.commitments[c][i].neumarksDue = 0
      /\ EmptyLock.total = 0 /\ EmptyLock.investors = 0
  BY DEF EmptyLock, Locks, Accounts, Money, NoAccount, NoMoney
<1>2. Funds(EmptyLock) = 0
  <2> DEFINE f == [i \in Investors |-> EmptyLock.accounts[i].balance]
  <2>1. f \in [Investors -> Int] /\ \A i \in Investors : f[i] = 0
    BY <1>1
  <2>2. SumFunction(f) = 0
    <3> HIDE DEF f
    <3> QED
      BY <2>1, LockAssumption, SumOfZeros
  <2> QED
    BY <2>2 DEF Funds
<1>3. ASSUME NEW c \in Commitments PROVE Pending(EmptyLock, c) = 0
  <2> DEFINE f == [i \in Investors |-> EmptyLock.commitments[c][i].balance]
  <2>1. f \in [Investors -> Int] /\ \A i \in Investors : f[i] = 0
    BY <1>1
  <2>2. SumFunction(f) = 0
    <3> HIDE DEF f
    <3> QED
      BY <2>1, LockAssumption, SumOfZeros
  <2> QED
    BY <2>2 DEF Pending
<1>4. Locked(EmptyLock) = {}
  BY <1>1 DEF Locked
<1> QED
  BY <1>1, <1>2, <1>3, <1>4, FS_EmptySet DEF SoundLock

-----------------------------------------------------------------------------

\* migrateInvestor walks the destinations one by one: what the fold over the list
\* computes is the last of the states the loop goes through.

\* g holds the results of the fold for all sets of places in the list D.
HoldsFold(g, m, D) ==
    g = [s \in SUBSET DOMAIN D |-> IF s = {} THEN m
                                   ELSE SplitOff(g[s \ {Max(s)}], D[Max(s)])]

\* What migrateInvestor folds over its destinations is a function that HoldsFold.
LEMMA SplitOffIsFold ==
    ASSUME NEW m, NEW D
    PROVE  FoldLeft(SplitOff, m, D) = (CHOOSE g : HoldsFold(g, m, D))[DOMAIN D]
BY DEF FoldLeft, MapThenFoldSet, HoldsFold

\* A set of places has a last one.
LEMMA LastPlace ==
    ASSUME NEW n \in Nat, NEW s \in SUBSET (1 .. n), s # {}
    PROVE  /\ Max(s) \in s /\ \A y \in s : Max(s) >= y
<1> DEFINE Good == {t \in SUBSET (1 .. n) : t = {} \/ \E x \in t : \A y \in t : x >= y}
<1>1. IsFiniteSet(1 .. n)
  BY FS_Interval
<1>2. {} \in Good
  OBVIOUS
<1>3. ASSUME NEW t \in SUBSET (1 .. n), NEW z \in (1 .. n) \ t, t \in Good
      PROVE  t \cup {z} \in Good
  <2>1. CASE t = {}
    BY <2>1
  <2>2. CASE t # {}
    <3>1. PICK x \in t : \A y \in t : x >= y
      BY <1>3, <2>2
    <3>2. CASE z >= x
      BY <3>1, <3>2
    <3>3. CASE ~(z >= x)
      BY <3>1, <3>3
    <3> QED
      BY <3>2, <3>3
  <2> QED
    BY <2>1, <2>2
<1>4. \A t \in SUBSET (1 .. n) : t \in Good
  <2> HIDE DEF Good
  <2> QED
    BY <1>1, <1>2, <1>3, InductionOnSubsets
<1>5. \E x \in s : \A y \in s : x >= y
  BY <1>4
<1> QED
  BY <1>5 DEF Max

\* The fold over the destinations has a solution: those of up to n destinations give those of n + 1.
LEMMA FoldExists ==
    ASSUME NEW m, NEW X, NEW D \in Seq(X)
    PROVE  \E g : HoldsFold(g, m, D)
<1> DEFINE S == DOMAIN D
           Small(n) == {s \in SUBSET S : Cardinality(s) <= n}
           Holds(g, n) == g = [s \in Small(n) |-> IF s = {} THEN m
                                     ELSE SplitOff(g[s \ {Max(s)}], D[Max(s)])]
           Good == {n \in Nat : \E g : Holds(g, n)}
<1>s. S = 1 .. Len(D) /\ Len(D) \in Nat /\ IsFiniteSet(S)
  BY FS_Interval
<1>x. \A s \in SUBSET S : s # {} => Max(s) \in s
  BY <1>s, LastPlace
<1> HIDE DEF S
<1>c. \A s \in SUBSET S : /\ IsFiniteSet(s) /\ Cardinality(s) \in Nat
                          /\ s # {} => /\ s \ {Max(s)} \in SUBSET S
                                       /\ Cardinality(s \ {Max(s)}) = Cardinality(s) - 1
  <2> SUFFICES ASSUME NEW s \in SUBSET S
               PROVE  /\ IsFiniteSet(s) /\ Cardinality(s) \in Nat
                      /\ s # {} => /\ s \ {Max(s)} \in SUBSET S
                                   /\ Cardinality(s \ {Max(s)}) = Cardinality(s) - 1
    OBVIOUS
  <2>1. IsFiniteSet(s) /\ Cardinality(s) \in Nat
    BY <1>s, FS_Subset, FS_CardinalityType
  <2>2. s # {} => Cardinality(s \ {Max(s)}) = Cardinality(s) - 1
    BY <1>x, <2>1, FS_RemoveElement
  <2> QED
    BY <2>1, <2>2
<1>1. 0 \in Good
  <2>1. \A s \in Small(0) : s = {}
    <3> SUFFICES ASSUME NEW s \in SUBSET S, Cardinality(s) <= 0 PROVE s = {}
      OBVIOUS
    <3>1. IsFiniteSet(s) /\ Cardinality(s) \in Nat
      BY <1>c
    <3>2. Cardinality(s) = 0
      BY <3>1
    <3> QED
      BY <3>1, <3>2, FS_EmptySet
  <2>2. Holds([s \in Small(0) |-> m], 0)
    BY <2>1
  <2> QED
    BY <2>2
<1>2. \A n \in Good : n + 1 \in Good
  <2> SUFFICES ASSUME NEW n \in Good PROVE n + 1 \in Good
    OBVIOUS
  <2>n. n \in Nat /\ n + 1 \in Nat
    OBVIOUS
  <2>1. PICK g : Holds(g, n)
    OBVIOUS
  <2> DEFINE h == [s \in Small(n + 1) |-> IF s = {} THEN m
                                          ELSE SplitOff(g[s \ {Max(s)}], D[Max(s)])]
  <2>2. \A s \in Small(n) : s \in Small(n + 1) /\ h[s] = g[s]
    <3> TAKE s \in Small(n)
    <3>1. s \in Small(n + 1)
      <4>1. Cardinality(s) \in Nat /\ Cardinality(s) <= n /\ s \in SUBSET S
        BY <1>c
      <4>2. Cardinality(s) <= n + 1
        BY <4>1, <2>n
      <4> QED
        BY <4>1, <4>2
    <3> QED
      BY <3>1, <2>1
  <2>3. \A s \in Small(n + 1) : s # {} => h[s \ {Max(s)}] = g[s \ {Max(s)}]
    <3> SUFFICES ASSUME NEW s \in Small(n + 1), s # {} PROVE s \ {Max(s)} \in Small(n)
      BY <2>2
    <3> QED
      BY <1>c, <2>n
  <2>4. Holds(h, n + 1)
    BY <2>3
  <2>5. \E k : Holds(k, n + 1)
    <3> HIDE DEF Holds, h
    <3> QED
      BY <2>4
  <2> QED
    BY <2>5, <2>n
<1>3. Good = Nat
  <2> HIDE DEF Good
  <2>1. Good \in SUBSET Nat
    BY DEF Good
  <2> QED
    BY <1>1, <1>2, <2>1, InductionOnNumbers
<1>4. S \in SUBSET S /\ Cardinality(S) \in Nat
  BY <1>c
<1>5. PICK g : Holds(g, Cardinality(S))
  BY <1>3, <1>4
<1>6. Small(Cardinality(S)) = SUBSET S
  BY <1>s, FS_Subset
<1>7. HoldsFold(g, m, D)
  BY <1>5, <1>6 DEF HoldsFold, S
<1> QED
  BY <1>7

\* The states of the loop: r[k] is the state after k destinations.
LEMMA LoopOfSplits ==
    ASSUME NEW m, NEW X, NEW D \in Seq(X)
    PROVE  \E r : /\ r[0] = m
                  /\ \A k \in 1 .. Len(D) : r[k] = SplitOff(r[k - 1], D[k])
                  /\ FoldLeft(SplitOff, m, D) = r[Len(D)]
<1> DEFINE g == CHOOSE g : HoldsFold(g, m, D)
           r == [k \in 0 .. Len(D) |-> g[1 .. k]]
<1>1. g = [s \in SUBSET DOMAIN D |-> IF s = {} THEN m
                                     ELSE SplitOff(g[s \ {Max(s)}], D[Max(s)])]
  <2>1. HoldsFold(g, m, D)
    BY FoldExists
  <2> QED
    BY <2>1 DEF HoldsFold
<1>2. DOMAIN D = 1 .. Len(D) /\ Len(D) \in Nat
  OBVIOUS
<1>3. FoldLeft(SplitOff, m, D) = g[DOMAIN D]
  BY SplitOffIsFold
<1> HIDE DEF g
<1>4. r[0] = m
  <2>1. 1 .. 0 = {} /\ {} \in SUBSET DOMAIN D
    OBVIOUS
  <2>2. g[{}] = m
    BY <1>1
  <2> QED
    BY <1>2, <2>1, <2>2
<1>5. ASSUME NEW k \in 1 .. Len(D) PROVE r[k] = SplitOff(r[k - 1], D[k])
  <2> DEFINE s == 1 .. k
  <2>0. k \in s /\ \A y \in s : y \in 1 .. Len(D)
    BY <1>2
  <2>1. s \in SUBSET (1 .. Len(D)) /\ k \in s /\ s # {}
    BY <2>0
  <2>2. Max(s) = k
    <3>1. Max(s) \in s /\ Max(s) >= k
      BY <1>2, <2>1, LastPlace
    <3> QED
      BY <3>1
  <2>3. s \ {k} = 1 .. (k - 1)
    OBVIOUS
  <2>4. g[s] = SplitOff(g[s \ {Max(s)}], D[Max(s)])
    BY <1>1, <1>2, <2>1
  <2>5. k \in 0 .. Len(D) /\ k - 1 \in 0 .. Len(D)
    BY <1>2
  <2> QED
    BY <2>2, <2>3, <2>4, <2>5
<1>6. r[Len(D)] = g[DOMAIN D]
  BY <1>2
<1> HIDE DEF r
<1> QED
  BY <1>3, <1>4, <1>5, <1>6

Destination == [investor : Investors, amount : Nat]
Destinations == Seq(Destination)

\* What the loop of migrateInvestor keeps while every requirement holds: lock and rest
\* together are what they were, and no date has moved forward.
SplitSound(m, l, source) ==
    m.ok => /\ SoundLock(m.l)
            /\ m.balance \in Nat /\ m.neumarksDue \in Nat /\ m.unlockDate = source.unlockDate
            /\ m.l.total + m.balance = l.total + source.balance
            /\ Due(m.l) + m.neumarksDue = Due(l) + source.neumarksDue
            /\ m.l.commitments = l.commitments
            /\ \A j \in Investors : m.l.accounts[j].unlockDate >= l.accounts[j].unlockDate

\* One destination of migrateInvestor splits funds and Neumarks due off and loses neither.
LEMMA SplitOffIsSound ==
    ASSUME NEW l, SoundLock(l), NEW source \in Accounts, source.unlockDate > 0,
           NEW m, SplitSound(m, l, source),
           NEW d \in Destination
    PROVE  SplitSound(SplitOff(m, d), l, source)
<1> DEFINE part == IF d.amount = 0 THEN m.balance ELSE d.amount
           fits == m.ok /\ part > 0 /\ part <= m.balance
           due == IF fits THEN Proportion(m.neumarksDue, part, m.balance) ELSE 0
           r == SplitOff(m, d)
<1>1. /\ r.ok = fits /\ r.unlockDate = m.unlockDate
      /\ r.balance = m.balance - part /\ r.neumarksDue = m.neumarksDue - due
      /\ r.l = IF fits THEN LockFunds(m.l, d.investor, part, due, m.unlockDate) ELSE m.l
  BY DEF SplitOff
<1> HIDE DEF r
<1>2. SUFFICES ASSUME fits PROVE SplitSound(r, l, source)
  BY <1>1 DEF SplitSound, r
<1>3. /\ SoundLock(m.l)
      /\ m.balance \in Nat /\ m.neumarksDue \in Nat /\ m.unlockDate = source.unlockDate
      /\ m.l.total + m.balance = l.total + source.balance
      /\ Due(m.l) + m.neumarksDue = Due(l) + source.neumarksDue
      /\ m.l.commitments = l.commitments
      /\ \A j \in Investors : m.l.accounts[j].unlockDate >= l.accounts[j].unlockDate
  BY <1>2 DEF SplitSound
<1>4. /\ d.investor \in Investors /\ d.amount \in Nat
      /\ source.unlockDate \in Nat \ {0}
  BY DEF Accounts, Destination
<1>5. part \in Nat \ {0} /\ part \in 0 .. m.balance /\ m.balance \in Nat \ {0}
  BY <1>2, <1>3, <1>4
<1>6. due \in 0 .. m.neumarksDue
  <2>1. Proportion(m.neumarksDue, part, m.balance) \in 0 .. m.neumarksDue
    <3> HIDE DEF part
    <3> QED
      BY <1>3, <1>5, ShareIsPart
  <2> QED
    BY <1>2, <2>1
<1>7. r.ok /\ r.l = LockFunds(m.l, d.investor, part, due, source.unlockDate)
  BY <1>1, <1>2, <1>3
<1> HIDE DEF part, due
<1>8. /\ SoundLock(r.l)
      /\ r.l.total = m.l.total + part
      /\ Due(r.l) = Due(m.l) + due
      /\ r.l.commitments = m.l.commitments
      /\ \A j \in Investors : r.l.accounts[j].unlockDate >= m.l.accounts[j].unlockDate
  <2>1. due \in Nat
    BY <1>3, <1>6
  <2> QED
    <3>1. PICK lock, investor, amount, neumarks, date :
             /\ lock = m.l /\ investor = d.investor /\ amount = part /\ neumarks = due
             /\ date = source.unlockDate
      OBVIOUS
    <3>2. /\ SoundLock(lock) /\ investor \in Investors /\ amount \in Nat \ {0}
          /\ neumarks \in Nat /\ date \in Nat \ {0}
      BY <1>3, <1>4, <1>5, <2>1, <3>1
    <3> DEFINE k == LockFunds(lock, investor, amount, neumarks, date)
    <3>3. /\ SoundLock(k) /\ k.total = lock.total + amount /\ Due(k) = Due(lock) + neumarks
          /\ k.commitments = lock.commitments
          /\ \A j \in Investors : k.accounts[j].unlockDate >= lock.accounts[j].unlockDate
      <4>1. SoundLock(k) /\ k.total = lock.total + amount
        BY ONLY <3>2, LockFundsIsSound, SMT
      <4>2. Due(k) = Due(lock) + neumarks
        BY ONLY <3>2, LockFundsIsSound, SMT
      <4>3. k.commitments = lock.commitments
        BY ONLY <3>2, LockFundsIsSound, SMT
      <4>4. \A j \in Investors : k.accounts[j].unlockDate >= lock.accounts[j].unlockDate
        BY ONLY <3>2, LockFundsIsSound, SMT
      <4> QED
        BY <4>1, <4>2, <4>3, <4>4
    <3> HIDE DEF k
    <3>4. r.l = k
      BY <1>7, <3>1 DEF k
    <3> QED
      BY <3>1, <3>3, <3>4
<1>9. /\ m.l.total \in Nat /\ Due(m.l) \in Nat
      /\ \A j \in Investors : /\ m.l.accounts[j].unlockDate \in Nat
                              /\ r.l.accounts[j].unlockDate \in Nat
                              /\ l.accounts[j].unlockDate \in Nat
  <2>1. m.l \in Locks /\ r.l \in Locks /\ l \in Locks
    BY <1>3, <1>8, SoundLockParts
  <2> QED
    BY <2>1, LockTypes, LockSums
<1>10. /\ r.balance \in Nat /\ r.neumarksDue \in Nat
       /\ r.l.total + r.balance = m.l.total + m.balance
       /\ Due(r.l) + r.neumarksDue = Due(m.l) + m.neumarksDue
  BY <1>1, <1>3, <1>5, <1>6, <1>8, <1>9
<1>11. \A j \in Investors : r.l.accounts[j].unlockDate >= l.accounts[j].unlockDate
  BY <1>3, <1>8, <1>9
<1> QED
  BY <1>1, <1>3, <1>8, <1>10, <1>11 DEF SplitSound

\* migrateInvestor: an account that migrates, however it is split, arrives whole.
THEOREM MigrateInvestorIsSound ==
    ASSUME NEW l, SoundLock(l), NEW i \in Investors, NEW source \in Accounts,
           source.unlockDate > 0, NEW D \in Destinations, MigrateInvestor(l, i, source, D).ok
    PROVE  LET r == MigrateInvestor(l, i, source, D).l
           IN /\ SoundLock(r)
              /\ r.total = l.total + source.balance
              /\ Due(r) = Due(l) + source.neumarksDue
              /\ r.commitments = l.commitments
              /\ \A j \in Investors : r.accounts[j].unlockDate >= l.accounts[j].unlockDate
<1> DEFINE m == [l |-> l, balance |-> source.balance, neumarksDue |-> source.neumarksDue,
                 unlockDate |-> source.unlockDate, ok |-> source.balance > 0]
           R == MigrateInvestor(l, i, source, D)
<1>t. /\ source.balance \in Nat /\ source.neumarksDue \in Nat
      /\ source.unlockDate \in Nat \ {0}
  BY DEF Accounts
<1>1. CASE D = << >>
  <2> DEFINE k == LockFunds(l, i, source.balance, source.neumarksDue, source.unlockDate)
  <2>1. R.l = k
    BY <1>1 DEF MigrateInvestor
  <2>2. source.balance > 0
    BY <1>1 DEF MigrateInvestor
  <2>3. source.balance \in Nat \ {0}
    BY <2>2, <1>t
  <2>4. /\ SoundLock(k)
        /\ k.total = l.total + source.balance
        /\ Due(k) = Due(l) + source.neumarksDue
        /\ k.commitments = l.commitments
        /\ \A j \in Investors : k.accounts[j].unlockDate >= l.accounts[j].unlockDate
    BY <1>t, <2>3, LockFundsIsSound, Zenon
  <2> HIDE DEF k
  <2> QED
    BY <2>1, <2>4
<1>2. CASE D # << >>
  <2> DEFINE end == FoldLeft(SplitOff, m, D)
  <2>1. R = [end EXCEPT !.ok = end.ok /\ end.balance = 0 /\ end.neumarksDue = 0]
    BY <1>2 DEF MigrateInvestor
  <2>2. PICK r : /\ r[0] = m
                 /\ \A k \in 1 .. Len(D) : r[k] = SplitOff(r[k - 1], D[k])
                 /\ end = r[Len(D)]
    BY LoopOfSplits DEF Destinations
  <2>3. R.l = end.l /\ end.ok /\ end.balance = 0 /\ end.neumarksDue = 0
    <3>1. PICK n \in Nat : n = Len(D) /\ n \in 1 .. Len(D)
      BY <1>2 DEF Destinations
    <3>2. end = SplitOff(r[n - 1], D[n])
      BY <2>2, <3>1
    <3>3. \A x, d : DOMAIN SplitOff(x, d) = {"l", "balance", "neumarksDue", "unlockDate", "ok"}
      BY DEF SplitOff
    <3>4. DOMAIN end = {"l", "balance", "neumarksDue", "unlockDate", "ok"}
      BY <3>2, <3>3
    <3> HIDE DEF end
    <3> QED
      BY <2>1, <3>4
  <2> HIDE DEF end, R
  <2>4. SplitSound(m, l, source)
    <3>1. \A j \in Investors : l.accounts[j].unlockDate \in Nat
      BY SoundLockParts, LockTypes
    <3> QED
      BY <1>t, <3>1 DEF SplitSound
  <2> DEFINE Good == {k \in Nat : k <= Len(D) => SplitSound(r[k], l, source)}
  <2>5. 0 \in Good
    BY <2>2, <2>4
  <2>6. ASSUME NEW k \in Good PROVE k + 1 \in Good
    <3>1. SUFFICES ASSUME k + 1 <= Len(D) PROVE SplitSound(r[k + 1], l, source)
      OBVIOUS
    <3>2. k \in Nat /\ Len(D) \in Nat
      BY DEF Destinations
    <3>3. SplitSound(r[k], l, source)
      BY <3>1, <3>2
    <3>4. k + 1 \in 1 .. Len(D) /\ (k + 1) - 1 = k
      BY <3>1, <3>2
    <3>5. D[k + 1] \in Destination
      <4>1. \A n \in 1 .. Len(D) : D[n] \in Destination
        BY DEF Destinations
      <4> QED
        BY <3>4, <4>1
    <3>6. r[k + 1] = SplitOff(r[k], D[k + 1])
      BY <2>2, <3>4
    <3> QED
      BY <3>3, <3>5, <3>6, SplitOffIsSound
  <2>7. Good = Nat
    <3>1. Good \in SUBSET Nat
      OBVIOUS
    <3> HIDE DEF Good
    <3> QED
      BY <2>5, <2>6, <3>1, InductionOnNumbers
  <2>8. SplitSound(end, l, source)
    <3>1. Len(D) \in Nat
      BY DEF Destinations
    <3> QED
      BY <2>2, <2>7, <3>1
  <2>9. /\ SoundLock(end.l)
        /\ end.l.total + 0 = l.total + source.balance
        /\ Due(end.l) + 0 = Due(l) + source.neumarksDue
        /\ end.l.commitments = l.commitments
        /\ \A j \in Investors : end.l.accounts[j].unlockDate >= l.accounts[j].unlockDate
    BY <2>3, <2>8 DEF SplitSound
  <2>10. end.l.total \in Nat /\ Due(end.l) \in Nat
    BY <2>9, SoundLockParts, LockTypes, LockSums
  <2> QED
    BY <2>3, <2>9, <2>10 DEF R
<1> QED
  BY <1>1, <1>2

-----------------------------------------------------------------------------
(***************************************************************************)
(* What a commitment sees of the wallet.                                   *)
(***************************************************************************)

\* What an investment makes pending, ...
LEMMA InvestedIs ==
    ASSUME NEW l \in Locks, NEW i \in Investors, NEW c \in Commitments, NEW amount \in Nat,
           NEW r, r = InvestFunds(l, c, i, amount)
    PROVE  \A d \in Commitments, j \in Investors :
              r.commitments[d][j].balance = l.commitments[d][j].balance
                                               + (IF d = c /\ j = i THEN amount ELSE 0)
<1> DEFINE was == l.commitments[c][i]
           share == Proportion(l.accounts[i].neumarksDue, amount, l.accounts[i].balance)
           p == [balance |-> was.balance + amount, neumarksDue |-> was.neumarksDue + share]
<1>1. r.commitments = [l.commitments EXCEPT ![c][i] = p]
  <2> HIDE DEF share
  <2>1. r = [l EXCEPT !.total = @ - amount,
                      !.accounts[i].balance = @ - amount,
                      !.accounts[i].neumarksDue = @ - share,
                      !.commitments[c][i] = [balance |-> @.balance + amount,
                                             neumarksDue |-> @.neumarksDue + share]]
    BY DEF InvestFunds, share
  <2> QED
    BY <2>1, LockTypes DEF Locks
<1>2. p.balance = was.balance + amount
  OBVIOUS
<1>3. l.commitments \in [Commitments -> [Investors -> Money]]
      /\ \A d \in Commitments, j \in Investors : l.commitments[d][j].balance \in Nat
  BY LockTypes
<1> HIDE DEF p
<1> QED
  BY <1>1, <1>2, <1>3

\* ... what a claim ...
LEMMA ClaimedIs ==
    ASSUME NEW l \in Locks, NEW i \in Investors, NEW c \in Commitments,
           NEW r, r = Claimed(l, c, i)
    PROVE  \A d \in Commitments, j \in Investors :
              r.commitments[d][j] = IF d = c /\ j = i THEN NoMoney ELSE l.commitments[d][j]
BY LockTypes DEF Claimed, Locks

\* ... and what a refund leave of it.
LEMMA RefundedIs ==
    ASSUME NEW l \in Locks, NEW i \in Investors, NEW c \in Commitments,
           l.commitments[c][i].balance > 0, NEW r, r = Refunded(l, c, i)
    PROVE  /\ \A d \in Commitments, j \in Investors :
                 r.commitments[d][j] = IF d = c /\ j = i THEN NoMoney ELSE l.commitments[d][j]
           /\ r.accounts[i].balance = l.accounts[i].balance + l.commitments[c][i].balance
           /\ r.accounts[i].neumarksDue = l.accounts[i].neumarksDue + l.commitments[c][i].neumarksDue
<1> DEFINE was == l.commitments[c][i]
           old == l.accounts[i]
           a == [balance |-> old.balance + was.balance,
                 neumarksDue |-> old.neumarksDue + was.neumarksDue,
                 unlockDate |-> old.unlockDate]
<1>1. /\ l.commitments \in [Commitments -> [Investors -> Money]]
      /\ l.accounts \in [Investors -> Accounts] /\ was.balance # 0
      /\ old.balance \in Nat /\ was.balance \in Nat /\ old.neumarksDue \in Nat
      /\ was.neumarksDue \in Nat
      /\ l = [accounts |-> l.accounts, commitments |-> l.commitments, total |-> l.total,
              investors |-> l.investors]
  BY LockTypes DEF Locks
<1>2. r = [l EXCEPT !.commitments[c][i] = NoMoney,
                    !.total = @ + was.balance,
                    !.accounts[i].balance = @ + was.balance,
                    !.accounts[i].neumarksDue = @ + was.neumarksDue]
  BY <1>1 DEF Refunded
<1>3. r.commitments = [l.commitments EXCEPT ![c][i] = NoMoney]
  BY <1>1, <1>2
<1>4. r.accounts[i].balance = old.balance + was.balance
  BY <1>1, <1>2 DEF Accounts
<1>5. r.accounts[i].neumarksDue = old.neumarksDue + was.neumarksDue
  BY <1>1, <1>2 DEF Accounts
<1> QED
  BY <1>1, <1>3, <1>4, <1>5

=============================================================================
