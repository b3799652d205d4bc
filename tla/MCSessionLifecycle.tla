------------------------- MODULE MCSessionLifecycle -------------------------
(***************************************************************************)
(* Small sessions for TLC: one polling connection of the servlet at hand   *)
(* and one WebSocket at most, the default namespace, which has two Socket  *)
(* objects so that a second CONNECT can replace the first, and "chat".     *)
(***************************************************************************)
EXTENDS SessionLifecycle, TLC

CONSTANTS polling, tomcat, websocket, root, rootAgain, chat

\* The first request decides: either the session is one of the Tomcat servlet,
\* or one of the Jetty servlet, which can upgrade.
EitherServlet == polling :> "xhr" @@ tomcat :> "tomcat" @@ websocket :> "ws"
OnlyWebSocket == websocket :> "ws"
OnlyXHR       == polling :> "xhr"
OnlyTomcat    == tomcat :> "tomcat"

NsOfSocket == root :> "/" @@ rootAgain :> "/" @@ chat :> "/chat"

Symmetry == Permutations(Workers)
=============================================================================
