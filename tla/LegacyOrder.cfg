SPECIFICATION MCSpec
CONSTANTS
  Numbers <- MCNumbers
  Texts <- MCTexts
  Quoted <- MCQuoted
  CaseParts <- MCCaseParts
  Documents <- MCDocuments
  FrameKeysToo <- MCFrameKeys
  FrameValues <- MCFrameValues
  SignalValues <- MCSignalValues
  NodeNames <- MCNodeNames
  MaxEdits = 2
  CaseNames <- MCCaseNames
  Tunnels <- MCTunnels
  FrameForms <- MCFrameForms
  SignalForms <- MCSignalForms
  Oversized = {"99999999999"}
  Identifiers = {"low"}
  DbcNames = {"a", "b", "c", "d", "e", "x", "y", "z"}
  WriteMeta <- MCWriteMeta
  WriteFrames <- MCWriteFrames
  Batches <- MCBatches
  Banks <- MCBanks
  CASE_SPAN = 2
  Catalogues <- MCLegacy
  RawIds = {16, 1296}
  PayloadBytes <- MCBytes
  MaxPayload = 5
  Parts = {"payloads"}
INVARIANT RegistersAgree
CHECK_DEADLOCK FALSE
