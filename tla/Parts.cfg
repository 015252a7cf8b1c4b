SPECIFICATION MCSpec
CONSTANTS
  None = None
  Absent = Absent
  MAX_LINE_BYTES = 32
  BusFrames <- MCBusFrames
  Replies <- MCReplies
  Noises <- MCNoises
  Ends <- MCEnds
  MaxLines = 2
  MaxTrouble = 2
  Frames <- MCFrames
  Specs <- MCSpecs
  MaxFrames = 2
  Times = {1, 5, 9}
  MaxSamples = 21
  Catalog <- MCCatalog
  Mask = 8
  DEFAULT_INTERVAL = 2
  RawId <- MCRawId
  Period = 2
  Jitter = 1
  Values = {0, 1}
  Faulty = {2}
  WrongPayloads <- MCWrong
  MaxRounds = 3
  MaxRewinds = 1
  Space = 8
  WrapThreshold = 4
  Starts = {0, 5}
  MaxSent = 6
  MaxAir = 3
  MaxLost = 2
  MaxRepeats = 1
  Truths <- MCTruths
  Bodies <- MCBodies
  Runts <- MCRunts
  Forms <- MCForms
  ScanOptions <- MCScanOptions
  Algorithms <- MCAlgorithms
  Searched <- MCSearched
  MaxCapture = 4
  MIN_SAMPLES = 3
  CONSTANT_COLUMN_MIN_SAMPLES = 3
  MAX_SAMPLES = 3
  MAX_POOL = 4
  MAX_CANDIDATES = 12
  MIN_TRANSITIONS = 2
  MAX_CANDIDATES_PER_ID = 6
INVARIANTS
  LinesComplete
  SweepIsValidation
  SealHolds
  NearestRank
  NoFalseLatch
  WholeRoundsSettle
  StreamTypeOK
  CountsExact
  EveryNumberCounted
  SolutionsReproduce
  TruthFound
  NeverDisqualified
  AcceptedIsMeasured
PROPERTY SilenceChangesNothing
CHECK_DEADLOCK FALSE
