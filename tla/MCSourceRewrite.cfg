SPECIFICATION Spec
CONSTANTS
  s1 = s1
  s2 = s2
  Session = {s1}
  Hidden = {}
  PageLimit = 1
  Modes <- MCAcknowledged
  RowsOf <- MCRowsOf
  EditsOf <- MCOneEdit
  MaxRows = 2
  MaxEpochs = 1
  MaxFaults = 0
INVARIANT RewritesAreSeen
