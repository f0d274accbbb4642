SPECIFICATION FairSpec
CONSTANTS
  Threads = {admin, t1, t2, t3}
  Admin = admin
INVARIANTS
  NoLostWakeup
  
  NameIsAlive
PROPERTIES
  ImplementsReadersWriters
  WaitersGetIn
