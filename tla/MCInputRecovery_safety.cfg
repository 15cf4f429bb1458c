SPECIFICATION BoundedSpec
CONSTANTS
  MessageIDs = {m1, m2}
  OperationIDs = {}
  Owners = {"node"}
  Tokens = {t1, t2}
  Payloads = {"raw", "prepared"}
  Kinds = {}
  Receipts = {}
  MaxInputsPerSession = 2
  MaxPendingInputsPerSession = 2
  MaxOutputsPerSession = 1
  owner = "node"
  None = None
  MaxFaults = 1
  Environments <- AllEnvironments
  MaxCrashes = 2
INVARIANTS RecoveryTypeOK NoAutoReplay NoOpenBoundary
SYMMETRY Symmetry
CHECK_DEADLOCK FALSE
