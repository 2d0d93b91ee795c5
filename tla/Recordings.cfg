SPECIFICATION Spec
CONSTANTS
  clip = clip
  copy = copy
  Wavs <- TwoWavs
  Texts <- Often
  Modes = {"full", "window"}
  Restorable = {copy}
  Unwritable <- Failing
  MaxGens = 2
INVARIANTS
  IndexMatchesDisk
  HistoryComplete
CHECK_DEADLOCK FALSE
