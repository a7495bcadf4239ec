SPECIFICATION FairSpec
CONSTANTS
  s1 = s1
  s2 = s2
  Session = {s1}
  Hidden = {2}
  PageLimit = 1
  Modes <- MCAllModes
  RowsOf <- MCRowsOf
  EditsOf <- MCOneEdit
  MaxRows = 3
  MaxEpochs = 2
  MaxFaults = 1
INVARIANT ClaimsAreTrue
PROPERTY EveryRowArrives
