SPECIFICATION Spec
CONSTANTS
  a = a
  b = b
  short = short
  long = long
  old = old
  NoJob = NoJob
  Servers <- TwoServers
  Wavs = {short, old}
  Size <- SizeBytes
  Covers <- AnyLength
  Managed = {}
  Crashable = {a}
  Live = {old}
  Bulk = {}
  Archive = {short, old}
  MaxRetries = 1
  TokenCap = 2
  MaxBulk = 2
  MaxWaiting = 2
INVARIANTS
  NoClipLost
  RefusedOnlyIfWaiting
  CountersMatch
  BackfillLeavesServer
  NoLostWakeup
CHECK_DEADLOCK FALSE
