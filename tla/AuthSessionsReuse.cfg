SPECIFICATION Spec
CONSTANTS
  u1 = u1
  u2 = u2
  p1 = p1
  p2 = p2
  p3 = p3
  User <- OneUser
  Proc <- TwoProcs
  MaxToken = 3
  MaxClock = 1
  MaxPw = 0
  Grace = 1
  Life = 2
  TxMax = 1
  MFA = FALSE
  Legacy <- NoUser
SYMMETRY ProcSymmetry
INVARIANTS
  ReuseRevokesSession
