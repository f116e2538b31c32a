SPECIFICATION SearchSpec
CONSTANTS
    Histories <- MCHistories
    LatestSnapshot = 7
INVARIANTS
    FindsValue
PROPERTIES
    Terminates
CHECK_DEADLOCK FALSE
