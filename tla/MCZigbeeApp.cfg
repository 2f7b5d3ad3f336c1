SPECIFICATION FairSpec
CONSTANTS
  Nodes = {"panel", "stm32"}
  Coordinator = "stm32"
  Frames <- MCFrames
  BufLen = 4
  MaxChanges <- MCMaxChanges
  MaxQueue = 2
  MaxAir = 1
INVARIANTS TypeOK ResendAlive HandsOnFrames
PROPERTIES LastWordSpec LastCommandArrives
