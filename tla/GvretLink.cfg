SPECIFICATION LinkSpec
CONSTANTS
  MAX_RESYNC_BYTES = 4
  Asks <- MCAsks
  Pushes <- MCPushes
  Noises <- MCNoises
  Rubbish <- MCRubbish
  ChunkSizes = {3, 10}
  MaxMessages = 3
INVARIANTS NoSyncBuffered DevBounded HostBounded RepliesRecover
  NothingHeldBack
PROPERTY CommandsKept
CHECK_DEADLOCK FALSE
