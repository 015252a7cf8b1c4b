SPECIFICATION BusSpec
CONSTANTS
  None = None
  Space = 8
  WrapThreshold = 4
  Runs = {1, 2}
  MaxCounter = 20
  Open = Open
  Initiators = {1, 2}
  Nodes = {"n"}
  Capabilities = {{"FD"}, {"EXTENDED"}}
  Sends = {"Hello", "RequestStatus"}
  Loopback = TRUE
  MaxSends = 3
  MaxWaiting = 3
  MaxMissed = 0
PROPERTY OnlyHelloWhileIdle
CHECK_DEADLOCK FALSE
