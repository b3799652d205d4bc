CONSTANTS
  s1 = s1
  s2 = s2
  Sockets = {s1, s2}
  Polling = {s1}
  RoomIds = {r1}
  Threads = {t1, t2}
  NoRoom = NoRoom
  All = All
SPECIFICATION Spec
INVARIANTS
  EmitReachesAll
  OneRoom
  DisconnectedIsGone
SYMMETRY Symmetry
