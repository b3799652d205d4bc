CONSTANTS
  Sockets = {root, chat}
  Root = root
  MaxAttempts = 2
  MaxEvents = 2
  Blobs = {1}
  MaxQueue = 1
SPECIFICATION FairSpec
INVARIANTS
  TypeOK
  KeepsTrying
  NoOrphan
  InOrder
PROPERTIES
  LoopEnds
CHECK_DEADLOCK FALSE
