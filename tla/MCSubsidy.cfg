CONSTANTS
  MaxHeight = 100000
SPECIFICATION Spec
INVARIANTS SubsidyIsCut
CHECK_DEADLOCK FALSE
