SPECIFICATION Spec
CONSTANTS
  None = None
  c1 = c1  c2 = c2  c3 = c3
  k1 = k1  k2 = k2  s1 = s1
  Command = {c1, c2, c3}
  Key = {k1, k2}
  Session = {s1}
  KeyOf <- MCTwoKeys
  SessionOf <- MCSessionOf
  ContentOf <- MCContentOf
  Voice = {c3}
  Attached = {c1}
  Slash = {c2}
  MaxTerminals = 1
  MaxConnections = 1
  MaxCrashes = 0
CHECK_DEADLOCK FALSE
INVARIANT TurnsInOrder
INVARIANT AbandonedRunsAreAborted
PROPERTY NoAbortAfterEnd
