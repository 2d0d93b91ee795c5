SPECIFICATION FairSpec
CONSTANTS
  a = a
  b = b
  short = short
  long = long
  old = old
  NoJob = NoJob
  Servers <- TwoServers
  Wavs <- AllWavs
  Size <- SizeBytes
  Covers <- AnyLength
  Managed = {a}
  Crashable = {a}
  Live = {short, long}
  Bulk = {}
  Archive = {old}
  MaxRetries = 0
  TokenCap = 2
  MaxBulk = 2
  MaxWaiting = 2
PROPERTIES
  EveryClipAnswered
  BulkDrains
CHECK_DEADLOCK FALSE
