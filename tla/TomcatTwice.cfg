CONSTANTS
  polling = polling
  tomcat = tomcat
  websocket = websocket
  root = root
  rootAgain = rootAgain
  chat = chat
  Conns = {tomcat}
  Transport <- OnlyTomcat
  Sockets = {root}
  NsOf <- NsOfSocket
  DefaultNs = "/"
  Workers = {w1, w2}
  NoConn = NoConn
  ActiveRef = ActiveRef
  ListenersThrow = FALSE
SPECIFICATION Spec
INVARIANTS
  NotifiedOnce
CHECK_DEADLOCK FALSE
