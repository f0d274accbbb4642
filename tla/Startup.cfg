SPECIFICATION Spec
CONSTANTS
  Characters <- MCCharacters
  Directives <- MCDirectives
  Values <- MCValues
  OptionLimit = 2
  LineLimit = 2
  FILTER_AVG_LEN = 2
  Dirs <- MCDirs
  Files <- MCFiles
  DirLimit = 2
INVARIANTS
  ArgsAreWhatWasWritten
  OwnersAreDistinct
  OneSource
  FingerprintsAreComplete
