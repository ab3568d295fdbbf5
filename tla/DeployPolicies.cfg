SPECIFICATION Spec
CONSTANTS
  Engines = {"e1", "e2"}
  Configs <- MCConfigs
  Valid <- MCValid
  Scenarios <- MCScenarios
INVARIANTS
  BucketPoliciesEnforced
CHECK_DEADLOCK FALSE
