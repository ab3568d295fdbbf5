SPECIFICATION Spec
CONSTANTS
  Req = {q1, q2}
  Key = {k1, k2}
  User = {u1, u2}
  Conn = {c1, c2}
  Owner = owner
  MaxInt = 7
  Configs <- AllConfigs
  Scenes <- AllScenes
  Stocks <- OneRowOrTwo
  None = none
  Gone = gone
  q1 = q1
  q2 = q2
  k1 = k1
  k2 = k2
  u1 = u1
  u2 = u2
  c1 = c1
  c2 = c2
INVARIANTS
  NonSingularIsNotCommitted
CHECK_DEADLOCK FALSE
