SPECIFICATION FairSpec
CONSTANTS
  NumPorts = 3
  Dropout = 2
  QueueCap = 2
INVARIANTS
  NewestIsActive
PROPERTIES
  OlderStaysSuppressed
  CloseFinishes
