SPECIFICATION FairSpec
CONSTANTS
  Sets <- MCSets
  MaxParams = 3
  RxLen = 2
  MaxDrops = 2
INVARIANTS TypeOK RepliedIsDone NoSetVanishes
PROPERTY SetReaches
