CONSTANTS
  polling = polling
  tomcat = tomcat
  websocket = websocket
  root = root
  rootAgain = rootAgain
  chat = chat
  Conns = {websocket}
  Transport <- OnlyWebSocket
  Sockets = {root, rootAgain}
  NsOf <- NsOfSocket
  DefaultNs = "/"
  Workers = {w1, w2}
  NoConn = NoConn
  ActiveRef = ActiveRef
  ListenersThrow = FALSE
SPECIFICATION FairSpec
INVARIANTS
  TypeOK
  NoSilentLeak
PROPERTIES
  UnknownOnlyInWindow
  KeepsContract
  ShutdownFollowsClose
  BrokenSocketEndsSession
CHECK_DEADLOCK FALSE
