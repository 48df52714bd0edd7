SPECIFICATION FairSpec
CONSTANTS
  Pids = {d1, d2, d3}
  None = None
  Overlap = FALSE
  MaxFaults = 4
INVARIANTS ServesWhatItOwns
PROPERTIES StartupNotWedged
