SPECIFICATION Spec
CONSTANTS
  Blind = {"remove"}
  MaxEdits = 1
  MaxFaults = 1
INVARIANTS NoEditLost
CHECK_DEADLOCK FALSE
