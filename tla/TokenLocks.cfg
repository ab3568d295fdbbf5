SPECIFICATION Spec
CONSTANTS
  Proc = {p1, p2}
  MaxToken = 3
  MaxLogin = 1
  MaxExpired = 2
  Scopes = {"session"}
  Faults = TRUE
PROPERTIES
  RequestsReturn
  LocksKeepPromises
CHECK_DEADLOCK FALSE
