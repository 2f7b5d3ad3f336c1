SPECIFICATION MCSpec
CONSTANTS
  Recordings = 2
  FileSize = 2
  Block = 1
  ReadMax = 2
  Words <- MCWords
  MaxSpoken = 2
  MaxFails = 1
  MaxDown = 3
  Songs = 2
  MaxPlayers = 2
INVARIANTS TypeOK AnswersInStep PageOwnsSound
PROPERTY LinkGoes
CHECK_DEADLOCK FALSE
