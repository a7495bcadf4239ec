SPECIFICATION PartsSpec
CHECK_DEADLOCK FALSE
CONSTANTS
  a = a
  b = b
  keyA = keyA
  keyB = keyB
  first = first
  second = second
  Absent = Absent
  HalfWritten = HalfWritten
  Off = Off
  None = None
  Key = {keyA, keyB}
  MinRecords = 3
  Headroom = 1
  Environments <- Trouble
  MaxGeneration = 3
  MaxRecords = 5
  MaxFaults = 2
  Instance = {i1, i2, i3, i4}
  Cleaner = {c1, c2}
  Nobody = Nobody
  Script <- Rows
  MaxAttempts = 3
  MaxRetries = 2
  MaxAsked = 3
  AtOnce = {first, second}
  TTL = 3
  Grace = 2
  LockAge = 1
  MaxRecordClock = 4
  MaxRecordOps = 3
  Id = {a, b}
  BuiltIn = {b}
  NeedsKey = {b}
  Limit = 2
  MaxAsks = 3
  MaxMade = 3
  MaxConfigClock = 2
  Slot = {1, 2}
SYMMETRY Symmetry
INVARIANT OneWriter
INVARIANT NothingWipedInUse
INVARIANT JournalIsKept
INVARIANT CheckedRowsStay
INVARIANT RunsStayRecorded
INVARIANT ConfigIsKept
PROPERTY ImplementsQueue
