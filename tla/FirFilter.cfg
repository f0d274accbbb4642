SPECIFICATION FirSpec
CONSTANTS
  length = 2
  BufferLen = 5
  Samples = {0, 1, 2}
  Filler = 0
  MaxLen = 4
INVARIANT FirTypeOK
PROPERTY ImplementsWindow
