SPECIFICATION Spec
CONSTANTS
  Engines = {"e1", "e2"}
  Configs <- MCConfigs
  Valid <- MCValid
  Scenarios <- MCScenarios
INVARIANTS
  NoEditIsLost
  SchemaFollowsLedger
  AcceptedPlansRun
PROPERTIES
  DataSurvives
CHECK_DEADLOCK FALSE
