SPECIFICATION Spec
CONSTANTS
  Modes = {"mono", "left", "both"}
  RECEIVER_BUFLEN = 24
  SAMPLE_RATE = 500
  ULONG = 1000000
  DIV = 3
  THR_OPEN = 3
  THR_CLOSE = 11
  RED_STEP = 2
  AMax = 4
  Amps <- MCAmps
  ReadLens = {5, 12, 13}
  FrameLimit = 29
  MaxClock = 1
INVARIANTS
  AccessInStruct
  MonoInBounds
  EventsPaired
  DurationIsAirTime
  NoChatter
  SquelchTracksLevel
PROPERTIES
  ImplementsWindows
