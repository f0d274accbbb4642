SPECIFICATION FairSpec
CONSTANTS
  NumUplinks = 2
  PushLimit = 4
INVARIANTS
  InOrderExactlyOnce
  NothingLost
  QueueWellFormed
  BatchIsPrivate
  GrabNeverEmpty
  IndInv
PROPERTY ImplementsChannel
  PushedIsOffered
  ShutdownCompletes
