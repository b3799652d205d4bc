CONSTANTS
  polling = polling
  tomcat = tomcat
  websocket = websocket
  root = root
  rootAgain = rootAgain
  chat = chat
  Conns = {polling, tomcat, websocket}
  Transport <- EitherServlet
  Sockets = {root, chat}
  NsOf <- NsOfSocket
  DefaultNs = "/"
  Workers = {w1, w2}
  NoConn = NoConn
  ActiveRef = ActiveRef
  ListenersThrow = TRUE
SPECIFICATION Spec
SYMMETRY Symmetry
INVARIANTS
  ToldAgainOnlyTogether
  NoSilentLeak
CHECK_DEADLOCK FALSE
