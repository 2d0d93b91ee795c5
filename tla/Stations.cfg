SPECIFICATION FairSpec
CONSTANTS
  north = north
  south = south
  s1 = s1
  s2 = s2
  s3 = s3
  l1 = l1
  l2 = l2
  both = both
  utc = utc
  moved = moved
  broken = broken
  NoStation = NoStation
  Missing = Missing
  NoContent = NoContent
  Stations = {s1, s2, s3}
  Listeners = {l1}
  Keys <- TwoKeys
  Contents = {both, utc, moved, broken}
  Valid = {both, utc, moved}
  Defines <- Files
  Port <- PortOf
  EditsDuringLoad = FALSE
  MaxEdits = 3
INVARIANTS
  StoppedBeforeStarting
  PagesMatch
  NoLeakedConnection
PROPERTIES
  UnchangedKeepRunning
  Settles
CHECK_DEADLOCK FALSE
