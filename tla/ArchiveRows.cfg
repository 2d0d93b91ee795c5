SPECIFICATION ArchiveSpec
CONSTANTS
  NDirs = 2
  Wavs = {"w1"}
  Rows = 2
  MaxFaults = 0
INVARIANTS
  NoRowLost
CHECK_DEADLOCK FALSE
