SPECIFICATION Spec
CONSTANTS
  Dirs <- TheDirs
  Base = "/"
  Parent <- TheParent
  Fragments <- TheFragments
  DirOf <- TheDirOf
  Target <- TheTarget
  Display <- TheDisplay
  Patterns <- ThePatterns
  PatDir <- ThePatDir
  PatFiles <- ThePatFiles
  Entries = {"a"}
  MaxEdits = 3
INVARIANTS
  EditsAreSeen
  MergeIsFaithful
CHECK_DEADLOCK FALSE
