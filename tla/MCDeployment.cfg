CONSTANTS
    Networks = {"live", "dev"}
    MaxCrashes = 1
    MaxRestarts = 4
    MaxRevokes = 1
SPECIFICATION Spec
INVARIANTS
    TypeOK
    VerifiedMeansWired
    CompletedMigrationsHold
    TemporaryRightsDropped
PROPERTIES
    IsolatedLeavesIcbmAlone
    PlatformIsCompleted
CHECK_DEADLOCK FALSE
