SPECIFICATION RecSpec
CONSTANTS
  MessageIDs = {m1, m2}
  OperationIDs = {}
  Owners = {"node"}
  Tokens = {t1, t2}
  Payloads = {"raw"}
  Kinds = {}
  Receipts = {}
  MaxInputsPerSession = 2
  MaxPendingInputsPerSession = 2
  MaxOutputsPerSession = 1
  owner = "node"
  None = None
  MaxFaults = 0
  Environments <- TimelyOnly
  MaxCrashes = 1
INVARIANTS NoReplay
SYMMETRY Symmetry
CHECK_DEADLOCK FALSE
