SPECIFICATION FairSpec
CONSTANTS
  m1 = m1
  m2 = m2
  p1 = p1
  p2 = p2
  p3 = p3
  None = None
  Manager <- OneManager
  Proc <- TwoProcs
  Home <- AllAtOne
  MaxKid = 2
  MaxClock = 3
  Slow = 1
  Faults = TRUE
  Life = 1
  Leeway = 1
  ReloadInterval = 2
  MissReloadInterval = 0
INVARIANTS
  KeysAgree
PROPERTIES
  RequestsReturn
  TokensVerify
