SPECIFICATION Spec
CONSTANTS
  Engines = {"e1", "e2"}
  Configs <- MCConfigs
  Valid <- MCValid
  Scenarios <- MCKeys
INVARIANTS
  KeysFollowLedger
CHECK_DEADLOCK FALSE
