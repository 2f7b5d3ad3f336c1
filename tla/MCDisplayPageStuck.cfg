SPECIFICATION FairSpec
CONSTANTS
  MaxVisits = 1
  MaxOpen = 2
PROPERTY UiKeepsRunning
CHECK_DEADLOCK FALSE
