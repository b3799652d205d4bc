CONSTANTS
  polling = polling
  tomcat = tomcat
  websocket = websocket
  root = root
  rootAgain = rootAgain
  chat = chat
  Conns = {polling}
  Transport <- OnlyXHR
  Sockets = {root}
  NsOf <- NsOfSocket
  DefaultNs = "/"
  Workers = {w1}
  NoConn = NoConn
  ActiveRef = ActiveRef
  ListenersThrow = FALSE
SPECIFICATION FairSpec
PROPERTIES
  ShutdownFollowsClose
CHECK_DEADLOCK FALSE
