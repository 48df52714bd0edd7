SPECIFICATION FairSpec
CONSTANTS
  Blind = {}
  MaxEdits = 2
  MaxFaults = 3
INVARIANTS NoEditLost SkillKept
PROPERTIES RepairConverges
CHECK_DEADLOCK FALSE
