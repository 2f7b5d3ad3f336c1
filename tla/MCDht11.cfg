SPECIFICATION FairSpec
CONSTANTS
  Fields = 2
  Width = 2
  Weight <- MCWeight
  Wake = 3
  Delay = 4
  Answer = 2
  AnswerLow = 8
  AnswerHigh = 8
  BitLow = 5
  High0 = 3
  High1 = 7
  Period = 25
  Phases = {0, 9}
  Cuts <- MCCuts
  Gaps <- MCGaps
  MaxPreempts = 3
INVARIANTS TypeOK AcceptedIsInStep NothingFromACutSensor
PROPERTY ReadEnds
CHECK_DEADLOCK FALSE
