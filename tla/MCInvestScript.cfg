CONSTANTS
    Files <- MCFiles
    Chunk = 2
    Budgets <- MCBudgets
    Me = "me"
    Amount = 2
    Funds <- MCFunds
SPECIFICATION Spec
INVARIANTS
    TypeOK
    GreenMeansInvestable
    DoneMeansComplete
PROPERTIES
    InvestmentIsExact
CHECK_DEADLOCK FALSE
