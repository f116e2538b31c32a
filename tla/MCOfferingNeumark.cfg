CONSTANTS
    Files <- MCFiles
    Chunk = 2
    Budgets <- MCBudgets
    Me = "me"
    Amount = 2
    Funds <- MCFunds
SPECIFICATION Spec
INVARIANT
    NeuManagerAllowsIssue
CHECK_DEADLOCK FALSE
