CONSTANTS
  Resets = {r1, r2, r3}
  Clears = {c1}
  NoTask = NoTask
SPECIFICATION FairSpec
INVARIANTS
  NoOrphan
  LatestSurvives
PROPERTIES
  SilentSessionTimesOut
CHECK_DEADLOCK FALSE
