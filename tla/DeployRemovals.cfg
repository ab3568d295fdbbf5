SPECIFICATION Spec
CONSTANTS
  Engines = {"e1", "e2"}
  Configs <- MCConfigs
  Valid <- MCValid
  Scenarios <- MCRemovals
INVARIANTS
  RemovalsRun
CHECK_DEADLOCK FALSE
