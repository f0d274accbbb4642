SPECIFICATION Spec
CONSTANTS
  SP_ALLOC_N = 2
  Keys = {1, 2, 3, 4, 5}
  Names = {"a", "b", "c", "d"}
  Crc <- MCCrc
  Mmsis = {1, 2}
  Reports = {1, 2}
  ReportLimit = 4
INVARIANTS
  TreesWellFormed
  ContentsAreRight
  NothingLeaks
CHECK_DEADLOCK FALSE
