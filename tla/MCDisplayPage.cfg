SPECIFICATION FairSpec
CONSTANTS
  MaxVisits = 3
  MaxOpen = 2
INVARIANTS TypeOK MutexNotOrphaned LabelsLive MisuseNeedsCut
PROPERTY CleanReturn
CHECK_DEADLOCK FALSE
