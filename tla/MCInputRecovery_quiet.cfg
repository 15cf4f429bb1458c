SPECIFICATION FairSpec
CONSTANTS
  MessageIDs = {m1, m2}
  OperationIDs = {}
  Owners = {"node"}
  Tokens = {t1}
  Payloads = {"raw"}
  Kinds = {}
  Receipts = {}
  MaxInputsPerSession = 2
  MaxPendingInputsPerSession = 2
  MaxOutputsPerSession = 1
  owner = "node"
  None = None
  MaxFaults = 0
  Environments <- ReachableOnly
  MaxCrashes = 1
PROPERTIES QuietRecoveryEnds
CHECK_DEADLOCK FALSE
