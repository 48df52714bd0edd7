SPECIFICATION Spec
CONSTANTS
  Pids = {d1, d2, d3}
  None = None
  Overlap = TRUE
  MaxFaults = 1
INVARIANTS SoleOwner
