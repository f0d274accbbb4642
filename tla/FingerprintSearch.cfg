SPECIFICATION Spec
CONSTANTS
  TOPLEN = 2
  FpCount = 3
  FpLens = {1, 2}
  Offsets <- MCOffsets
  Sums <- MCSums
  threshold_weak = 3
  ULONG_MAX = 100
INVARIANTS
  ListHoldsMatches
  AnnouncesBest
