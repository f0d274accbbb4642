SPECIFICATION Spec
CONSTANTS
  TOPLEN = 1
  FpCount = 2
  FpLens = {1, 2}
  Offsets <- MCOffsets
  Sums <- MCSums
  threshold_weak = 3
  ULONG_MAX = 100
PROPERTY WorstNotAdded
