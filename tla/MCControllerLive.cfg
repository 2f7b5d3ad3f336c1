SPECIFICATION FairSpec
CONSTANTS
  Streams <- LiveStreams
  Lossy = FALSE
  LowSensors = {1, 2}
  Keys = {"KEY1"}
  MaxPresses = 1
PROPERTIES FireAlarm AirConverges
