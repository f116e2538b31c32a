--------------------------- MODULE VersionedLedger ---------------------------
(***************************************************************************)
(* What a snapshot token promises: a ledger whose past is sealed.  Every   *)
(* snapshot shows all balances and their sum; writing changes the current  *)
(* snapshot and those to come, and nothing ever changes an older one.      *)
(***************************************************************************)
EXTENDS Naturals, FiniteSetsExt, Functions

CONSTANTS
    Accounts,
    MaxSnapshot             \* bound: the last snapshot looked at

Snapshots == 0 .. MaxSnapshot

VARIABLES
    current,                \* currentSnapshotId
    balances,               \* balanceOfAt, per snapshot and account
    supply                  \* totalSupplyAt, per snapshot

ledgerVars == <<current, balances, supply>>

LedgerTypeOK ==
    /\ current \in Snapshots
    /\ balances \in [Snapshots -> [Accounts -> Nat]]
    /\ supply \in [Snapshots -> Nat]

LedgerInit ==
    /\ current \in Snapshots
    /\ balances = [s \in Snapshots |-> [a \in Accounts |-> 0]]
    /\ supply = [s \in Snapshots |-> 0]

\* from the current snapshot on the balances are b and their sum is v
Write(b, v) ==
    /\ balances' = [s \in Snapshots |-> IF s < current THEN balances[s] ELSE b]
    /\ supply' = [s \in Snapshots |-> IF s < current THEN supply[s] ELSE v]
    /\ UNCHANGED current

Move(from, to, amount) ==
    LET taken == [balances[current] EXCEPT ![from] = @ - amount]
    IN /\ amount <= balances[current][from]
       /\ Write([taken EXCEPT ![to] = @ + amount], supply[current])

Generate(owner, amount) ==
    Write([balances[current] EXCEPT ![owner] = @ + amount], supply[current] + amount)

Destroy(owner, amount) ==
    /\ amount <= balances[current][owner]
    /\ Write([balances[current] EXCEPT ![owner] = @ - amount], supply[current] - amount)

\* a new snapshot seals the present one
Advance ==
    /\ current' \in Snapshots /\ current' > current
    /\ UNCHANGED <<balances, supply>>

LedgerNext ==
    \/ \E from, to \in Accounts : \E amount \in 0 .. balances[current][from] : Move(from, to, amount)
    \/ \E owner \in Accounts, amount \in 0 .. supply'[current] : Generate(owner, amount)
    \/ \E owner \in Accounts : \E amount \in 0 .. balances[current][owner] : Destroy(owner, amount)
    \/ Advance

LedgerSpec == LedgerInit /\ [][LedgerNext]_ledgerVars

=============================================================================
