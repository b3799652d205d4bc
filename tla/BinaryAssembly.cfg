CONSTANTS
  ClientArgs <- AssemblyArgs
SPECIFICATION Spec
INVARIANTS
  TypeOK
  ToldIntact
  EachTold
CHECK_DEADLOCK FALSE
