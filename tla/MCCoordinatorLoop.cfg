SPECIFICATION BoundedSpec
CONSTANTS
    NoOperation = NoOperation
    Senders = {"loop", "runner"}
    OperationIDs <- MCOperationIDs
    Age <- MCAge
    Cards <- MCCards
    Updates = {1, 2, 3}
    KindChoices <- MCKinds
    FirstUpdateIDs = {0, 1}
    HistoryLimit = 1
    MaxFailures = 2
    MaxCrashes = 2
INVARIANTS
    LoopTypeOK
    EffectsFenced
    SendsFenced
    PassedIsSettled
    ConfirmedWasDelivered
    OffsetIsOwn
PROPERTIES
    OffsetNeverRegresses
    
CHECK_DEADLOCK FALSE
