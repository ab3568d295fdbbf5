SPECIFICATION Spec
CONSTANTS
  Drafts <- AllDrafts
  Modes <- AllModes
INVARIANTS
  PoliciesAreExact
  VerdictsAreExplained
CHECK_DEADLOCK FALSE
