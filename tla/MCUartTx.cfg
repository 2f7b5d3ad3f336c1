SPECIFICATION FairSpec
CONSTANTS
  Callers = {"task1", "task2"}
  Size <- MCSize
  Timeout = 1
  Wrap = 3
  MaxPos = 3
INVARIANTS TypeOK BusyIsHonest LoneCallWhole
PROPERTY CallReturns
