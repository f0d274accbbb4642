SPECIFICATION Spec
CONSTANTS
  Modes = {"both"}
  RECEIVER_BUFLEN = 16
  SAMPLE_RATE = 500
  ULONG = 1000000
  DIV = 2
  THR_OPEN = 2
  THR_CLOSE = 3
  RED_STEP = 2
  AMax = 3
  Amps <- MCAmps
  ReadLens = {5, 8}
  FrameLimit = 21
  MaxClock = 1
INVARIANT EndsOnItsChannel
