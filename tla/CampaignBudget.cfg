SPECIFICATION BudgetFairSpec
CONSTANTS
    Cap = 3
    Estimates = {1, 2}
    Overshoot = 1
    MaxRetries = 1
    MaxBytes = 2
    ChunkSizes = {1, 2}
    MaxRuns = 3
    MaxFaults = 1
INVARIANTS
    SpendBounded
    LedgerTellsTheSpend
    AnswersAreWhole
PROPERTIES
    CallsSettle
CHECK_DEADLOCK FALSE
