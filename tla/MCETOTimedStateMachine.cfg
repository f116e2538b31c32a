SPECIFICATION FairSpec
CONSTANTS
    WHITELIST_DURATION = 2
    PUBLIC_DURATION = 3
    SIGNING_DURATION = 2
    CLAIM_DURATION = 1
    DATE_TO_WHITELIST_MIN_DURATION = 1
    MaxTime = 15
    StartDates <- MCStartDates
INVARIANTS
    TypeOK
    OnlyValidTransitions
    SuccessIsEarned
    ScheduleKept
    SoldOutIsClosed
PROPERTIES
    NothingOverdue
    PublishedStartsKept
    Finalizes
