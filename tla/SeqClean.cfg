SPECIFICATION StreamSpec
CONSTANTS
  None = None
  Space = 8
  WrapThreshold = 4
  Starts = {6}
  MaxSent = 10
  MaxAir = 1
  MaxLost = 0
  MaxRepeats = 0
INVARIANT CleanStreamClean
CHECK_DEADLOCK FALSE
