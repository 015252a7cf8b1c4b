SPECIFICATION ExchangeSpec
CONSTANTS
  None = None
  DeviceAddress = None
  Policy = "Strict"
  CrcValid <- MCCrcValid
  Transactions <- MCTransactions
  FrameSize = 8
  MaxTurns = 5
  MaxMissed = 2
INVARIANTS SidesTrue LengthDeclared PairingRecovers
CHECK_DEADLOCK FALSE
