SPECIFICATION Spec
CONSTANTS
    a = a
    b = b
    Accounts = {a, b}
    SnapshotsPerDay = 2
    MaxDay = 2
    MaxSnapshot = 4
    MaxSupply = 1
    Amounts = {1}
    Forks = {0, 3}
INVARIANTS
    TypeOK
    SupplyIsSumOfBalances
PROPERTIES
    ClonePastNeverChanges
    ImplementsLedger
CHECK_DEADLOCK FALSE
