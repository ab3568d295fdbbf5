SPECIFICATION Spec
CONSTANTS
  m1 = m1
  m2 = m2
  p1 = p1
  p2 = p2
  p3 = p3
  None = None
  Manager <- TwoManagers
  Proc <- ThreeProcs
  Home <- OneEach
  MaxKid = 2
  MaxClock = 8
  Slow = 0
  Faults = FALSE
  Life = 2
  Leeway = 1
  ReloadInterval = 2
  MissReloadInterval = 1
PROPERTIES
  TokensVerify
