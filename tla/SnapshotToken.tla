---------------------------- MODULE SnapshotToken ----------------------------
(***************************************************************************)
(* A token that remembers its balances at every snapshot                   *)
(* (MintableSnapshotToken on BasicSnapshotToken, with the snapshots of     *)
(* DailyAndSnapshotable), and a clone of it, a token whose initial         *)
(* balances are those of its parent at one snapshot.                       *)
(*                                                                         *)
(* A snapshot is a day and a counter within the day.  The total supply is  *)
(* one more series beside the balances; `Series` are both.                 *)
(***************************************************************************)
EXTENDS Snapshots, FiniteSets, Functions

CONSTANTS
    Accounts,
    SnapshotsPerDay,        \* 2^128 in the code, assumed not to be crossed
    MaxDay,                 \* bound of the clock
    MaxSnapshot,            \* bound: the last snapshot made
    Forks,                  \* bound: the parent snapshots a clone is given, 0 for none
    MaxSupply,              \* bound of each token's supply
    Amounts                 \* bound: the amounts transferred, generated and destroyed

Supply == "totalSupply"
Series == Accounts \cup {Supply}
Tokens == {"origin", "clone"}

ASSUME TokenAssumption ==
    /\ SnapshotsPerDay \in Nat \ {0} /\ MaxDay \in Nat \ {0} /\ MaxSupply \in Nat
    /\ MaxSnapshot \in SnapshotsPerDay * MaxDay .. SnapshotsPerDay * (MaxDay + 1) - 1
    /\ Amounts \subseteq Nat
    /\ Forks \subseteq 0 .. MaxSnapshot
    /\ Supply \notin Accounts
    /\ IsFiniteSet(Accounts)

VARIABLES
    day,                    \* of block.timestamp, counted from the epoch
    token                   \* storage of both tokens

vars == <<day, token>>

AllSnapshots == 0 .. MaxSnapshot

\* isClone: whether there is a parent; a clone exists only once it was deployed
NewToken(isClone, snapshotId, parentSnapshotId) ==
    [deployed |-> TRUE, isClone |-> isClone, snapshotId |-> snapshotId,
     parentSnapshotId |-> parentSnapshotId, values |-> [x \in Series |-> << >>]]

NotDeployed == [NewToken(TRUE, 0, 0) EXCEPT !.deployed = FALSE]

Init ==
    /\ day = 1
    /\ token = [t \in Tokens |-> IF t = "origin" THEN NewToken(FALSE, 0, 0) ELSE NotDeployed]

-----------------------------------------------------------------------------

DayBase == SnapshotsPerDay * day

Larger(m, n) == IF m < n THEN n ELSE m
Smaller(m, n) == IF m < n THEN m ELSE n

\* mCurrentSnapshotId
CurrentSnapshotId(T) == Larger(DayBase, T.snapshotId)

\* totalSupplyAtInternal and balanceOfAtInternal, without and with a parent
OriginValueAt(x, s) ==
    LET values == token["origin"].values[x]
    IN IF HasValueAt(values, s) THEN GetValueAt(values, s) ELSE 0

\* faulty: the parent is asked for its value at the same snapshot
ValueAt_NoFork(T, x, s) ==
    IF HasValueAt(T.values[x], s) THEN GetValueAt(T.values[x], s)
    ELSE IF T.isClone THEN OriginValueAt(x, s) ELSE 0

ValueAt(T, x, s) ==
    IF HasValueAt(T.values[x], s) THEN GetValueAt(T.values[x], s)
    ELSE IF T.isClone THEN OriginValueAt(x, Smaller(T.parentSnapshotId, s)) ELSE 0

Value(T, x) == ValueAt(T, x, CurrentSnapshotId(T))

\* The snapshots a query is answered for: none of the token's future, nor, when the
\* parent has to be asked, of the parent's.
Answered(T) ==
    {s \in 0 .. CurrentSnapshotId(T) :
        T.isClone => Smaller(T.parentSnapshotId, s) <= CurrentSnapshotId(token["origin"])}

\* the clone's initial balances are sealed in the parent
IsDecoupled(T) == T.isClone => T.parentSnapshotId < CurrentSnapshotId(token["origin"])

\* setValue, which advances the snapshot (mAdvanceSnapshotId)
Set(T, x, value) ==
    [T EXCEPT !.snapshotId = CurrentSnapshotId(T),
              !.values[x] = SetValue(@, CurrentSnapshotId(T), value)]

Become(t, T) == token' = [token EXCEPT ![t] = T] /\ UNCHANGED day

-----------------------------------------------------------------------------

\* faulty: both balances are read first, so a transfer to oneself creates tokens
Transferred_BothReadFirst(T, from, to, amount) ==
    Set(Set(T, from, Value(T, from) - amount), to, Value(T, to) + amount)

\* the recipient's balance is read after the sender's was written
Transferred(T, from, to, amount) ==
    LET sent == Set(T, from, Value(T, from) - amount)
    IN Set(sent, to, Value(sent, to) + amount)

\* mTransfer
Transfer(t, from, to, amount) ==
    LET T == token[t]
    IN /\ T.deployed /\ IsDecoupled(T)
       /\ Value(T, from) >= amount
       /\ Become(t, Transferred(T, from, to, amount))

\* mGenerateTokens
GenerateTokens(t, owner, amount) ==
    LET T == token[t]
    IN /\ T.deployed /\ IsDecoupled(T)
       /\ Value(T, Supply) + amount <= MaxSupply                            \* bound
       /\ Become(t, Set(Set(T, Supply, Value(T, Supply) + amount), owner, Value(T, owner) + amount))

\* mDestroyTokens
DestroyTokens(t, owner, amount) ==
    LET T == token[t]
    IN /\ T.deployed /\ IsDecoupled(T)
       /\ Value(T, Supply) >= amount
       /\ Value(T, owner) >= amount
       /\ Become(t, Set(Set(T, Supply, Value(T, Supply) - amount), owner, Value(T, owner) - amount))

\* createSnapshot: of midnight, or one more within the day
CreateSnapshot(t) ==
    LET T == token[t]
        new == IF DayBase > T.snapshotId THEN DayBase ELSE T.snapshotId + 1
    IN /\ T.deployed
       /\ new < DayBase + SnapshotsPerDay /\ new <= MaxSnapshot             \* bound
       /\ Become(t, [T EXCEPT !.snapshotId = new])

\* The clone is deployed.  Its snapshots continue those of the parent; without a
\* snapshot given it forks at the last sealed one.
DeployClone(forkAt) ==
    LET now == CurrentSnapshotId(token["origin"])
    IN /\ ~token["clone"].deployed
       /\ forkAt = 0 => now > 0
       /\ Become("clone", NewToken(TRUE, now, IF forkAt = 0 THEN now - 1 ELSE forkAt))

NextDay ==
    /\ day < MaxDay
    /\ day' = day + 1
    /\ UNCHANGED token

Next ==
    \/ \E t \in Tokens, amount \in Amounts :
          \/ \E from, to \in Accounts : Transfer(t, from, to, amount)
          \/ \E owner \in Accounts : GenerateTokens(t, owner, amount)
          \/ \E owner \in Accounts : DestroyTokens(t, owner, amount)
    \/ \E t \in Tokens : CreateSnapshot(t)
    \/ \E forkAt \in Forks : DeployClone(forkAt)
    \/ NextDay

Spec == Init /\ [][Next]_vars

-----------------------------------------------------------------------------

\* Every series is a history: sorted, one entry a snapshot, nothing of the future.
TypeOK ==
    /\ day \in 1 .. MaxDay
    /\ \A t \in Tokens :
          /\ token[t].snapshotId \in AllSnapshots
          /\ token[t].parentSnapshotId \in AllSnapshots
          /\ \A x \in Series : IsHistory(token[t].values[x], CurrentSnapshotId(token[t]))

\* No series of a clone has an entry older than its fork.  Without this, a clone shows own
\* balances from before the fork beside the parent's of the fork: nothing keeps a clone
\* that is given a future snapshot of its parent from being written in the meantime.
StartsAtFork(T) ==
    T.isClone => \A x \in Series :
                    T.values[x] # << >> => T.values[x][1].snapshotId >= T.parentSnapshotId

\* At every snapshot the balances add up to the supply: whoever weighs balances by the
\* supply at a past snapshot (votes, disbursals) divides exactly what there was.
SupplyIsSumOfBalances ==
    \A t \in Tokens : token[t].deployed /\ StartsAtFork(token[t]) =>
       \A s \in Answered(token[t]) :
          ValueAt(token[t], Supply, s) =
             SumFunction([a \in Accounts |-> ValueAt(token[t], a, s)])

CloneValueAt(x, s) == ValueAt(token["clone"], x, s)

\* A clone whose fork is sealed in the parent shows the same past forever, however the
\* parent, the clone and the snapshots of both go on.
ClonePastNeverChanges ==
    [][token["clone"].deployed /\ IsDecoupled(token["clone"]) =>
          \A x \in Series : \A s \in 0 .. CurrentSnapshotId(token["clone"]) - 1 :
             CloneValueAt(x, s)' = CloneValueAt(x, s)]_vars

\* the ledger that the origin's histories stand for
OriginBalances == [s \in AllSnapshots |-> [a \in Accounts |-> OriginValueAt(a, s)]]
OriginSupply == [s \in AllSnapshots |-> OriginValueAt(Supply, s)]

Ledger == INSTANCE VersionedLedger WITH
              current <- CurrentSnapshotId(token["origin"]),
              balances <- OriginBalances, supply <- OriginSupply

\* The token keeps the promise of a ledger with a sealed past.
ImplementsLedger == Ledger!LedgerSpec

=============================================================================
