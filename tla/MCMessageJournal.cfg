SPECIFICATION BoundedSpec
SYMMETRY Symmetry
CHECK_DEADLOCK FALSE
CONSTANTS
    MessageIDs = {1, 2, 3}
    OperationIDs = {1, 2, 3}
    Owners = {o1, o2}
    Tokens = {t1, t2}
    Payloads = {p1, p2}
    Kinds = {k1, k2}
    Receipts = {"r1"}
    MaxInputsPerSession = 3
    MaxPendingInputsPerSession = 2
    MaxOutputsPerSession = 2
INVARIANTS
    TypeOK
    GuardsImplyValidation
    NoOvertaking
    SkippedWasCaptured
    
    SupersededSafely
PROPERTIES
    OutcomesAreFinal
