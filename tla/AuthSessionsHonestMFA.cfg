SPECIFICATION HonestSpec
CONSTANTS
  u1 = u1
  u2 = u2
  p1 = p1
  p2 = p2
  p3 = p3
  User <- OneUser
  Proc <- TwoProcs
  MaxToken = 3
  MaxClock = 1
  MaxPw = 0
  Grace = 2
  Life = 9
  TxMax = 1
  MFA = TRUE
  Legacy <- NoUser
SYMMETRY ProcSymmetry
INVARIANTS
  HonestClientKeepsSession
CHECK_DEADLOCK FALSE
