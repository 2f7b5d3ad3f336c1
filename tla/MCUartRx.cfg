SPECIFICATION FairSpec
CONSTANTS
  Size = 2
  Timeout = 1
  MaxBytes = 5
INVARIANTS TypeOK Accounted WholeFrame StaleTail
PROPERTIES NeverOlder ReceiveReturns LineSpec
