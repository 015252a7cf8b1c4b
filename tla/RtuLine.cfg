SPECIFICATION FairMCSpec
CONSTANTS
  None = None
  DeviceAddress = 1
  Policy = "Strict"
  CrcValid <- MCCrcValid
  Lines <- RoughLines
  ChunkSizes = {1, 2, 3, 8}
  Tunnelled = FALSE
  Parts = {"rough", "clean"}
INVARIANTS TypeOK GenuineKept BufferBounded
PROPERTIES PromiseKept PromiseDelivers
CHECK_DEADLOCK FALSE
