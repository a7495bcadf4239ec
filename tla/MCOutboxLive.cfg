SPECIFICATION FairSpec
CONSTANTS
  a = a
  b = b
  x = x
  y = y
  None = None
  Key = {a, b}
  Content = {x}
  ByteLength <- MCByteLength
  MaxEntries = 2
  MaxBytes = 3
  DeliveryModes <- MCBothModes
  LateCallbacks = FALSE
  MaxFaults = 2
PROPERTY EventuallyDelivered
PROPERTY EventuallyReleased
