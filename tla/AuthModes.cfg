SPECIFICATION MCSpec
CONSTANTS
  u1 = u1
  u2 = u2
  p1 = p1
  p2 = p2
  p3 = p3
  User <- OneUser
  Proc <- ThreeProcs
  MaxToken = 3
  MaxClock = 3
  MaxPw = 1
  Grace = 2
  Life = 2
  TxMax = 1
  MFA = TRUE
  Legacy <- OneUser
SYMMETRY ProcSymmetry
INVARIANTS
  TypeOK
  NoFork
  AnswerKeepsSession
  BannedGetsNothing
  RevocationsAreComplete
  OnTimeKeepsSession
PROPERTIES
  ImplementsLines
CHECK_DEADLOCK FALSE
