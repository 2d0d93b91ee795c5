SPECIFICATION FairRecorder
CONSTANTS
  GapLimit = 2
  MaxFrames = 3
  MaxPackets = 7
INVARIANTS
  NothingLost
  OpenClipHasTimer
PROPERTIES
  EveryClipEnds
CHECK_DEADLOCK FALSE
