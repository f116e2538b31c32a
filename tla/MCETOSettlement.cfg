SPECIFICATION FairSpec
CONSTANTS
    a = a
    b = b
    Q = 100
    MIN_NUMBER_OF_TOKENS = 50
    MAX_NUMBER_OF_TOKENS = 76
    MAX_NUMBER_OF_TOKENS_IN_WHITELIST = 60
    TOKEN_PRICE_EUR_ULPS = 4
    EQUITY_TOKENS_PER_SHARE = 4
    EQUITY_TOKEN_POWER = 1
    SHARE_NOMINAL_VALUE_EUR_ULPS = 6
    MIN_TICKET_EUR_ULPS = 80
    MAX_TICKET_EUR_ULPS = 400
    WHITELIST_DISCOUNT_FRAC = 20
    PUBLIC_DISCOUNT_FRAC = 0
    MAX_INVESTMENT_AMOUNT_EUR_ULPS = 300
    WHITELIST_DURATION = 1
    PUBLIC_DURATION = 1
    SIGNING_DURATION = 1
    CLAIM_DURATION = 1
    DATE_TO_WHITELIST_MIN_DURATION = 0
    MaxTime = 5
    StartDates = {1}
    Investors = {a, b}
    Commitments = {"eto"}
    PENALTY_FRACTION = 10
    InitialBalances <- MCSettlementBalances
    InitialLocks <- MCLocks
    InitialWhitelists <- MCWhitelists
    WhitelistEdits = {}
    Payments <- MCPayments
    Rates = {800}
    NeuRewards = {3}
    Urls = {"url"}
    Fallible = {"nominee", "company", a}
PROPERTIES
    TicketsAreSettled
