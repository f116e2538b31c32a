SPECIFICATION Spec
CONSTANTS
    a = a
    b = b
    Q = 100
    MIN_NUMBER_OF_TOKENS = 50
    MAX_NUMBER_OF_TOKENS = 76
    MAX_NUMBER_OF_TOKENS_IN_WHITELIST = 30
    TOKEN_PRICE_EUR_ULPS = 4
    EQUITY_TOKENS_PER_SHARE = 4
    EQUITY_TOKEN_POWER = 1
    SHARE_NOMINAL_VALUE_EUR_ULPS = 6
    MIN_TICKET_EUR_ULPS = 80
    MAX_TICKET_EUR_ULPS = 400
    WHITELIST_DISCOUNT_FRAC = 0
    PUBLIC_DISCOUNT_FRAC = 0
    MAX_INVESTMENT_AMOUNT_EUR_ULPS = 0
    WHITELIST_DURATION = 1
    PUBLIC_DURATION = 1
    SIGNING_DURATION = 1
    CLAIM_DURATION = 1
    DATE_TO_WHITELIST_MIN_DURATION = 0
    MaxTime = 5
    StartDates = {1}
    Investors = {a, b}
    Commitments = {"eto"}
    PENALTY_FRACTION = 10
    InitialBalances <- MCBalances
    InitialLocks <- MCLocks
    InitialWhitelists <- MCWhitelists
    WhitelistEdits <- MCWhitelistEdits
    Payments <- MCPayments
    Rates = {1000}
    NeuRewards = {0, 3}
    Urls = {"url"}
    Fallible = {"nominee"}
INVARIANTS
    TypeOK
    TotalsMatchTickets
    IssuedWithinMaximum
    NeumarksCoverRewards
    EquityCoversTickets
    MoneyIsAccounted
    PendingIsInTicket
    SameAgreementSigned
PROPERTIES
    RefundIsExact
    ImplementsTimedStateMachine
