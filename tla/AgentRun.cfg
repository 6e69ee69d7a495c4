SPECIFICATION LiveSpec
CONSTANTS
    MaxIterations = 3
    MaxTokens = 3
    MaxCost = {3}
    MaxRetries = 1
    Handled = {"context", "after", "review"}
    Paths = {p1}
    NoPath = NoPath
    MaxCalls = 2
    TokenUse = {0, 1}
    Prices = {1}
INVARIANTS
    RunInv
    WithinBudget
    LedgerMatches
PROPERTIES
    
    LimitVerdictSticks
    ConcludesReviewed
    ContractHolds
    Termination
CHECK_DEADLOCK FALSE
