SPECIFICATION FairSpec
CONSTANTS
  tool = tool
  final = final
  Drain = Drain
  Operation = {tool, final}
  Closing = {final}
  MaxRetries = 1
  MaxSnapshots = 3
  MaxStates = 2
CHECK_DEADLOCK FALSE
INVARIANT OperationsKeepTheirPlace
PROPERTY NeverBackwards
PROPERTY EverythingSettles
