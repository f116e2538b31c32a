SPECIFICATION Spec
CONSTANTS
    a = a
    b = b
    Investors = {a, b}
    Commitments = {c1}
    Q = 100
    PENALTY_FRACTION = 10
    Amounts = {3, 4}
    Splits <- MCSplits
    MaxLockTime = 2
    InitialSources <- MCSources
INVARIANTS
    TypeOK
    FundsAreBacked
    NothingOwedForNothing
PROPERTIES
    DebtIsConserved
    UnlockDateNeverEarlier
