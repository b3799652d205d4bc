CONSTANTS
  MaxUp = 2
  MaxDown = 2
  MaxSessions = 2
SPECIFICATION Spec
INVARIANTS
  TypeOK
  OrderUp
  
  UpgradeStalls
  NothingStranded
CHECK_DEADLOCK FALSE
