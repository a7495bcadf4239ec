SPECIFICATION MCSpec
CHECK_DEADLOCK FALSE
CONSTANTS
  a = a
  b = b
  runA = runA
  runB = runB
  None = None
  Anon = Anon
  Unused = Unused
  Handshake = 2
  HelloTimeout = 2
  PingInterval = 2
  Timeout = 3
  CloseTimeout = 3
  InitialDelay = 1
  MaxDelay = 4
  MaxTries = 4
  CronContent = {"missing", "a", "b"}
  MaxCronFaults = 2
  Pass = {a, b}
  Versions = {1, 2}
  SizeOf <- UploadSizes
  ChunkSizes = {2}
  Attempts = 2
  Waits = 1
  MaxConn = 1
  Key = {a, b}
  Turns <- FewTurns
  MaxSessions = 2
  Session = {a, b}
  Hidden = {}
  PageLimit = 1
  Modes <- AllModes
  RowsOf <- GateRows
  EditsOf <- NoEdits
  MaxRows = 2
  MaxEpochs = 1
  MaxFaults = 1
SYMMETRY RunSymmetry
INVARIANT SentIsTaken
INVARIANT ConnectionIsKept
INVARIANT RelayLearnsOfChanges
INVARIANT AttachmentsAreTrue
INVARIANT MediaIsPlaced
INVARIANT TurnsKeepApart
INVARIANT StreamIsTold
INVARIANT HistoriesAreTrue
INVARIANT CommandIsTold
