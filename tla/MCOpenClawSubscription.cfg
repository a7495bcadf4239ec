SPECIFICATION Spec
CONSTANTS
  None = None
  c1 = c1  c2 = c2  c3 = c3
  k1 = k1  k2 = k2  s1 = s1
  Command = {c1, c2, c3}
  Run = {r1, r2}
  KeyOf <- MCKeyOf
  EndsOf <- MCEndsOf
  SessionOf <- MCSessionOf
  MaxIdentities = 1
  DeltasOf <- MCDeltasOf
  MaxDrops = 1
CHECK_DEADLOCK FALSE
INVARIANT RunsStartSubscribed
