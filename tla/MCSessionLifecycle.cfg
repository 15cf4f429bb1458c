CONSTANTS
    Absent = Absent
    MaxGeneration = 5
    MaxAttempts = 2
    Budgets <- MCBudgets
SPECIFICATION LifecycleSpec
INVARIANTS
    LifecycleTypeOK
    AdapterOwned
    KeptNotDeleted
    
PROPERTIES
    ExitBeforeArchive
    CloseIntentKept
CHECK_DEADLOCK FALSE
