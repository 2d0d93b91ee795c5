SPECIFICATION Spec
CONSTANTS
  Clients = {"a"}
  OldClips = {"o1"}
  Clips = {"c1"}
  DayLen = 2
  Opened = 1
  Retention = 1
  Horizon = 4
  MaxStarts = 2
  MaxCalls = 2
  MaxFaults = 1
INVARIANTS
  RestartSame
  CountedOnce
  AllCounted
  VisitorsOnce
CHECK_DEADLOCK FALSE
