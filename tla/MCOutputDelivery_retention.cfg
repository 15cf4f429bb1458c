SPECIFICATION OutputSpec
CONSTANTS
    NoOperation = NoOperation
    Senders = {"dispatcher", "runner"}
    OperationIDs <- MCOperationIDs
    Age <- MCAge
    Outputs = {"o1"}
    Cards = {"o1"}
    KindChoices <- FinalKinds
    HistoryLimit = 1
    MaxFailures = 0
    MaxCrashes = 1
INVARIANTS
    OutputSentOnce
CHECK_DEADLOCK FALSE
