SPECIFICATION Spec
CONSTANTS
  Streams <- LampStreams
  Lossy = FALSE
  LowSensors = {}
  Keys = {}
  MaxPresses = 0
PROPERTY OneTurnsOn
