SPECIFICATION Spec
CONSTANTS
  m1 = m1
  m2 = m2
  p1 = p1
  p2 = p2
  p3 = p3
  None = None
  Manager <- TwoManagers
  Proc <- TwoProcs
  Home <- OneEach
  MaxKid = 2
  MaxClock = 4
  Slow = 1
  Faults = FALSE
  Life = 1
  Leeway = 0
  ReloadInterval = 1
  MissReloadInterval = 1
PROPERTIES
  RetirementIsTimely
SYMMETRY AnyManager
