SPECIFICATION MCSpec
CONSTANTS
  None = None
  DeviceAddress = 1
  Policy = "Strict"
  CrcValid <- MCCrcValid
  Lines <- CutShort
  ChunkSizes = {1, 4}
  Tunnelled = FALSE
  Parts = {"rough"}
INVARIANT ResidueHoldsNoMessage
CHECK_DEADLOCK FALSE
