CONSTANTS
    Networks = {"live"}
    MaxCrashes = 0
    MaxRestarts = 2
    MaxRevokes = 0
SPECIFICATION Spec
INVARIANT TemporaryUniverseAccessDropped
CHECK_DEADLOCK FALSE
