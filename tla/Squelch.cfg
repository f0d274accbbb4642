SPECIFICATION FairSpec
CONSTANTS
  DIV = 4
  THR_OPEN = 8
  THR_CLOSE = 16
  RED_STEP = 3
  AMax = 6
  Amps <- MCAmps
INVARIANTS
  TypeOK
  StateTracksLevel
PROPERTIES
  QuietOpens
  NoiseCloses
