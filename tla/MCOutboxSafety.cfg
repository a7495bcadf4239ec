SPECIFICATION Spec
CONSTANTS
  a = a
  b = b
  x = x
  y = y
  None = None
  Key = {a, b}
  Content = {x, y}
  ByteLength <- MCByteLength
  MaxEntries = 2
  MaxBytes = 3
  DeliveryModes <- MCBothModes
  LateCallbacks = FALSE
  MaxFaults = 2
INVARIANT NothingLost
INVARIANT BytesAccounted
INVARIANT KeepsGoing
INVARIANT WrittenInOrder
INVARIANT AckIsForTheQueuedMessage
PROPERTY NoReplayOnSameConnection
PROPERTY ImplementsDelivery
