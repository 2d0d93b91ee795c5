SPECIFICATION FairArchive
CONSTANTS
  NDirs = 2
  Wavs = {"w1"}
  Rows = 2
  MaxFaults = 1
PROPERTIES
  WholeStays
  Converges
