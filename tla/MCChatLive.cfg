SPECIFICATION FairSpec
CONSTANTS
  None = None
  c1 = c1  c2 = c2  c3 = c3
  k1 = k1  k2 = k2  s1 = s1
  Command = {c1, c2, c3}
  Key = {k1}
  Session = {s1}
  KeyOf <- MCSameKey
  SessionOf <- MCSessionOf
  ContentOf <- MCChanged
  Voice = {}
  Attached = {c1}
  Slash = {c1}
  MaxTerminals = 1
  MaxConnections = 2
  MaxCrashes = 1
CHECK_DEADLOCK FALSE
INVARIANT AnswersAreTrue
PROPERTY ImplementsRunOnce
PROPERTY EveryCommandEnds
