SPECIFICATION BusSpec
CONSTANTS
  None = None
  Space = 8
  WrapThreshold = 4
  Runs = {1, 2}
  MaxCounter = 2
  Open = Open
  Initiators = {1, 2}
  Nodes = {"n"}
  Capabilities = {{"FD"}}
  Sends = {"Start", "Stop", "PingRequest", "LatencyProbe", "Throughput", "SweepRequest", "RequestStatus"}
  Loopback = TRUE
  MaxSends = 5
  MaxWaiting = 3
  MaxMissed = 1
INVARIANTS CountersTrue RepliesFit
CHECK_DEADLOCK FALSE
