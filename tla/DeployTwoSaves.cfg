SPECIFICATION Spec
CONSTANTS
  Engines = {"e1", "e2"}
  Configs <- MCConfigs
  Valid <- MCValid
  Scenarios <- MCTwoSaves
INVARIANTS
  NoEditIsLost
CHECK_DEADLOCK FALSE
