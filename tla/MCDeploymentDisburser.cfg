CONSTANTS
    Networks = {"live"}
    MaxCrashes = 0
    MaxRestarts = 2
    MaxRevokes = 0
SPECIFICATION Spec
INVARIANT OnlyPlatformWalletDisburses
CHECK_DEADLOCK FALSE
