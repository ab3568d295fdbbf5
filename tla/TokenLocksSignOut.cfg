SPECIFICATION Spec
CONSTANTS
  Proc = {p1, p2}
  MaxToken = 4
  MaxLogin = 2
  MaxExpired = 2
  Scopes = {"session", "others", "all"}
  Faults = FALSE
INVARIANTS
  SignOutInvalidates
CHECK_DEADLOCK FALSE
