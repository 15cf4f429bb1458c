SPECIFICATION BoundedSpec
CONSTANTS
    NoOperation = NoOperation
    Senders = {"dispatcher", "runner"}
    OperationIDs <- MCOperationIDs
    Age <- MCAge
    Outputs = {"o1", "o2"}
    Cards = {"o1", "o2"}
    KindChoices <- MCKinds
    HistoryLimit = 3
    MaxFailures = 1
    MaxCrashes = 1
INVARIANTS
    OutputTypeOK
    OutputSentOnce
    ConfirmedIsShown
    SupersededIsSilent
PROPERTIES
    OutputsSettle
CHECK_DEADLOCK FALSE
