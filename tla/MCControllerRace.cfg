SPECIFICATION Spec
CONSTANTS
  Streams <- RaceStreams
  Lossy = TRUE
  LowSensors = {}
  Keys = {"KEY2"}
  MaxPresses = 1
INVARIANTS TypeOK OnOnlyByCommand AirReportTrue WindowNotFalselyOpen LedFlagTransient
