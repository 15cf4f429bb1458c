CONSTANTS
    Absent = Absent
    MaxGeneration = 5
    MaxAttempts = 2
    Budgets <- MCBudgets
SPECIFICATION LifecycleSpec
INVARIANT CustodyNotDeleted
CHECK_DEADLOCK FALSE
