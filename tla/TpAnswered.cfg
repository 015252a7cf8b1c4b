SPECIFICATION FairBusSpec
CONSTANTS
  None = None
  Space = 8
  WrapThreshold = 4
  Runs = {1, 2}
  MaxCounter = 20
  Open = Open
  Initiators = {1}
  Nodes = {"n", "m"}
  Capabilities = {{"FD"}}
  Sends = {"Start", "Stop", "PingRequest", "Hello"}
  Loopback = TRUE
  MaxSends = 4
  MaxWaiting = 3
  MaxMissed = 0
PROPERTY PingsAnswered
CHECK_DEADLOCK FALSE
