------------------------------- MODULE Upgrade -------------------------------
(***************************************************************************)
(* The upgrade of a polling connection to a WebSocket, seen from both      *)
(* ends: the Engine.IO socket and the two transports of the bundled client *)
(* (js/socket.io.js), and what Session, XHRTransportConnection and         *)
(* JettyWebSocketTransportConnection do with what it sends.                *)
(*                                                                         *)
(* The client is one thread, so each callback (a response, a frame, a      *)
(* timer, a call of the application) is one step.  Its state is one        *)
(* record, because one callback goes through many of its functions; each   *)
(* of them is an operator from records to records.  The record holds the   *)
(* requests the client has under way as well.  The server's steps are one  *)
(* request or frame each; PollingConnection has the interleavings inside   *)
(* a GET and SessionLifecycle those inside the session.                    *)
(*                                                                         *)
(* Requests and frames may be delayed at will, a request or the WebSocket  *)
(* may fail at any time, and timers may fire at any time once they are     *)
(* set.  Abstracted: binary messages, the handshake's data, JSONP and      *)
(* flash transports, and rememberUpgrade.                                  *)
(***************************************************************************)
EXTENDS Naturals, Sequences, SequencesExt

CONSTANTS
  MaxUp,     \* messages the client's application writes at most
  MaxDown,   \* messages the server's application emits at most, the CONNECT
             \* packet of the handshake included
  MaxSessions \* sessions the client is given at most

ASSUME UpgradeAssumption ==
  MaxUp \in Nat /\ MaxDown \in Nat \ {0} /\ MaxSessions \in Nat \ {0}

VARIABLES
  client,    \* the Engine.IO socket of the client with its transports
  server,    \* the session with its two connections
  overtaken  \* history: a NOOP reached the client before the probe's PONG

vars == <<client, server, overtaken>>

-----------------------------------------------------------------------------
\* Packets and state.

Message(n) == [type |-> "message", n |-> n]
Packet(t)  == [type |-> t, n |-> 0]

Packets  == {Packet(t) : t \in {"open", "ping", "pong", "probe", "upgrade", "noop"}}
            \cup {Message(n) : n \in 1 .. MaxUp + MaxDown + MaxSessions}
Requests == [state : {"none", "sent", "taking", "done", "failed"},
             packets : Seq(Packets)]
NoRequest       == [state |-> "none", packets |-> <<>>]
Request(ps)     == [state |-> "sent", packets |-> ps]
Response(ps)    == [state |-> "done", packets |-> ps]
FailedRequest   == [state |-> "failed", packets |-> <<>>]

\* readyState, transport, upgrading, writeBuffer and prevBufferLen are fields
\* of the engine's Socket.  closeWhen is the event its close() waits for.
\* pinged: its ping timer is running out.  polling is the readyState of the
\* polling transport, get and post are its XMLHttpRequests, bye is the request
\* with the CLOSE packet.  probe is how far probe() has come, ws the WebSocket
\* ("gone": closed, and the server was told),
\* writable its transport's flag, out the frames sent on it.  accepted counts
\* what the application wrote, heard is what it was given.
ClientType ==
  [readyState : {"opening", "open", "closing", "closed"},
   transport : {"polling", "websocket"}, upgrading : BOOLEAN,
   writeBuffer : Seq(Packets), prevBufferLen : Nat,
   closeWhen : {"no", "drain", "upgrade"}, pinged : BOOLEAN,
   polling : {"opening", "open", "pausing", "paused", "closed"},
   get : Requests, post : Requests, bye : BOOLEAN,
   probe : {"none", "opening", "pinged", "pausing", "done", "failed"},
   ws : {"none", "connecting", "open", "closed", "gone"}, writable : BOOLEAN,
   out : Seq(Packets), accepted : Nat, heard : Seq(Nat)]

\* active is the transport of Session.activeConnection, queue and done belong
\* to the polling connection, down are the frames sent on the WebSocket.
\* emitter is the connection an emit() under way has read ("none": no emit),
\* emitted counts the messages, got are the messages of the client, sessions
\* the sessions the client was given one after the other.
ServerType ==
  [session : {"none", "opening", "connected", "closing", "closed"},
   active : {"polling", "websocket"}, queue : Seq(Packets), done : BOOLEAN,
   down : Seq(Packets), emitter : {"none", "polling", "websocket"},
   emitted : Nat, got : Seq(Nat), sessions : 0 .. MaxSessions]

TypeOK ==
  /\ client \in ClientType /\ client.prevBufferLen <= Len(client.writeBuffer)
  /\ server \in ServerType
  /\ overtaken \in BOOLEAN

\* The client's socket has just opened its first transport, polling.
Init ==
  /\ client = [readyState |-> "opening", transport |-> "polling",
               upgrading |-> FALSE, writeBuffer |-> <<>>, prevBufferLen |-> 0,
               closeWhen |-> "no", pinged |-> FALSE, polling |-> "opening",
               get |-> Request(<<>>), post |-> NoRequest, bye |-> FALSE,
               probe |-> "none", ws |-> "none", writable |-> TRUE,
               out |-> <<>>, accepted |-> 0, heard |-> <<>>]
  /\ server = [session |-> "none", active |-> "polling", queue |-> <<>>,
               done |-> FALSE, down |-> <<>>, emitter |-> "none",
               emitted |-> 0, got |-> <<>>, sessions |-> 0]
  /\ overtaken = FALSE

-----------------------------------------------------------------------------
\* Functions of the client.

\* Transport.write: the frames of a WebSocket that is gone are dropped.
Write(c, ps) ==
  IF c.transport = "polling" THEN [c EXCEPT !.post = Request(ps)]
  ELSE [c EXCEPT !.writable = FALSE,
                 !.out = IF c.ws = "open" THEN @ \o ps ELSE @]

Writable(c) ==
  IF c.transport = "polling" THEN c.polling # "opening" /\ c.post = NoRequest
  ELSE c.writable

Flush(c) ==
  IF /\ c.readyState # "closed" /\ Writable(c)
     /\ ~c.upgrading /\ c.writeBuffer # <<>>
  THEN [Write(c, c.writeBuffer) EXCEPT !.prevBufferLen = Len(c.writeBuffer)]
  ELSE c

SendPacket(c, p) ==
  IF c.readyState \in {"closing", "closed"} THEN c
  ELSE Flush([c EXCEPT !.writeBuffer = Append(@, p)])

Probing(c) == c.probe \in {"opening", "pinged", "pausing"}

\* The WebSocket's doClose().
Hung(ws) == IF ws = "gone" THEN ws ELSE "closed"

\* probe(): freezeTransport.
Freeze(c) ==
  IF Probing(c) THEN [c EXCEPT !.probe = "failed", !.ws = Hung(@)] ELSE c

\* onClose: the transport is closed if it is open or opening, which for
\* polling means that a CLOSE packet is posted; a probe is given up.  Nobody
\* listens to the poll any more.
OnClose(c) ==
  LET polls == c.transport = "polling" IN
  IF c.readyState = "closed" THEN c
  ELSE [Freeze(c) EXCEPT
          !.readyState = "closed", !.closeWhen = "no", !.writeBuffer = <<>>,
          !.prevBufferLen = 0, !.get = NoRequest, !.pinged = FALSE,
          !.bye = polls /\ c.polling = "open",
          !.polling = IF polls /\ @ \in {"opening", "open"} THEN "closed" ELSE @,
          !.ws = IF polls THEN @ ELSE Hung(@)]

KeepsLength(c) == [c EXCEPT !.writeBuffer = SubSeq(@, c.prevBufferLen + 1, Len(@))]
Emptied(c) == [c EXCEPT !.prevBufferLen = 0,
                        !.writeBuffer = SubSeq(@, c.prevBufferLen + 1, Len(@))]

DrainEnds(c) ==
  LET d == Emptied(c) IN
  CASE d.writeBuffer = <<>> /\ d.closeWhen = "drain" ->
         IF d.upgrading THEN [d EXCEPT !.closeWhen = "upgrade"] ELSE OnClose(d)
    [] OTHER -> d

\* onDrain, with the listener that close() may have left.
OnDrain(c) ==
  LET d == Emptied(c) IN
  CASE d.writeBuffer # <<>> -> Flush(d)
    [] d.writeBuffer = <<>> /\ d.closeWhen = "drain" ->
         IF d.upgrading THEN [d EXCEPT !.closeWhen = "upgrade"] ELSE OnClose(d)
    [] OTHER -> d

\* The callback of pause(): the engine changes its transport, unless the probe
\* failed in the meantime.  The "upgrade" event lets close() go on.
OnPause(c) ==
  LET p == [c EXCEPT !.polling = "paused"]
      u == [p EXCEPT !.transport = "websocket", !.probe = "done"]
      w == Write(u, <<Packet("upgrade")>>)
      e == IF w.closeWhen = "upgrade" THEN OnClose(w) ELSE w
  IN  IF c.probe # "pausing" \/ c.readyState = "closed" THEN p
      ELSE Flush([e EXCEPT !.upgrading = FALSE])

PauseBeforePost(c) ==
  IF c.polling = "pausing" /\ c.get = NoRequest THEN OnPause(c) ELSE c

PauseBeforeGet(c) ==
  IF c.polling = "pausing" /\ c.post = NoRequest THEN OnPause(c) ELSE c

\* pause() waits for the GET and the POST that are under way.
PauseIfIdle(c) ==
  IF c.polling = "pausing" /\ c.get = NoRequest /\ c.post = NoRequest
  THEN OnPause(c) ELSE c

\* onHandshake and onOpen: the socket is open and probes the WebSocket.
OnOpen(c) ==
  [Flush([c EXCEPT !.readyState = "open"]) EXCEPT
     !.probe = "opening", !.ws = "connecting"]

\* onPacket.
OnPacket(c, p) ==
  IF c.readyState \notin {"opening", "open"} THEN c
  ELSE CASE p.type = "open"    -> OnOpen(c)
         [] p.type = "pong"    -> [c EXCEPT !.pinged = FALSE]
         [] p.type = "message" -> [c EXCEPT !.heard = Append(@, p.n)]
         [] OTHER              -> c

OnPackets(c, ps) == FoldLeft(OnPacket, c, ps)

\* Polling.onData: the packets, then pollComplete, then the next poll.
OnPollData(c) ==
  LET first == IF c.polling = "opening" THEN [c EXCEPT !.polling = "open"] ELSE c
      d     == OnPackets(first, c.get.packets)
      e     == PauseIfIdle([d EXCEPT !.get = NoRequest])
  IN  IF e.polling = "open" THEN [e EXCEPT !.get = Request(<<>>)] ELSE e

\* The probe's PONG: the engine pauses polling.
OnProbePong(c) ==
  PauseIfIdle([c EXCEPT !.upgrading = TRUE, !.probe = "pausing", !.polling = "pausing"])

\* probe(): onerror.  The "upgradeError" event lets close() go on; upgrading
\* keeps its value.
OnProbeError(c) ==
  LET f == Freeze(c) IN IF f.closeWhen = "upgrade" THEN OnClose(f) ELSE f

\* close().
CloseSocket(c) ==
  LET d == [c EXCEPT !.readyState = "closing"] IN
  CASE c.writeBuffer # <<>> -> [d EXCEPT !.closeWhen = "drain"]
    [] c.writeBuffer = <<>> /\ c.upgrading -> [d EXCEPT !.closeWhen = "upgrade"]
    [] OTHER -> OnClose(d)

-----------------------------------------------------------------------------
\* Steps of the client.

Live == client.readyState # "closed"

ClientStep(c) == client' = c /\ UNCHANGED <<server, overtaken>>

\* The application writes a message.
AppWrite ==
  /\ client.readyState \in {"opening", "open"} /\ client.accepted < MaxUp
  /\ ClientStep(SendPacket([client EXCEPT !.accepted = @ + 1],
                           Message(client.accepted + 1)))

AppClose ==
  /\ client.readyState \in {"opening", "open"}
  /\ ClientStep(CloseSocket(client))

\* onOpen has run.
Opened(c) == c.probe # "none"

\* setPing: a PING that close() no longer lets out still starts the timer.
PingDue ==
  /\ client.readyState \in {"open", "closing"} /\ Opened(client) /\ ~client.pinged
  /\ ClientStep(SendPacket([client EXCEPT !.pinged = TRUE], Packet("ping")))

PingTimeout ==
  /\ Live /\ client.pinged
  /\ ClientStep(OnClose(client))

GetDone ==
  /\ Live /\ client.get.state = "done"
  /\ client' = OnPollData(client)
  /\ overtaken' = (overtaken \/ /\ client.probe = "pinged"
                                /\ Packet("noop") \in Range(client.get.packets))
  /\ UNCHANGED server

PostDone ==
  /\ Live /\ client.post.state = "done"
  /\ ClientStep(PauseIfIdle(OnDrain([client EXCEPT !.post = NoRequest])))

\* A request with an error status, or cut off.
RequestFailed ==
  /\ Live
  /\ \/ client.get.state = "failed"
     \/ client.post.state = "failed"
  /\ ClientStep(OnClose(client))

\* onTransportOpen: the probe is sent.  A session without an active connection
\* refuses the WebSocket: getConnection dies with a NullPointerException.
WebSocketOpen ==
  /\ Live /\ client.ws = "connecting" /\ server.session # "opening"
  /\ ClientStep([client EXCEPT !.ws = "open", !.probe = "pinged",
                               !.out = <<Packet("probe")>>])

WebSocketRefused ==
  /\ Live /\ client.ws = "connecting"
  /\ ClientStep(OnProbeError(client))

\* A frame arrives: for the probe, or for the engine.
Frame ==
  /\ Live /\ client.ws = "open" /\ server.down # <<>>
  /\ server' = [server EXCEPT !.down = Tail(@)]
  /\ client' = CASE client.probe = "pinged" -> OnProbePong(client)
                 [] client.transport = "websocket" -> OnPacket(client, Head(server.down))
                 [] OTHER -> client
  /\ UNCHANGED overtaken

\* The transport tells that its frames are out.
FramesOut ==
  /\ Live /\ ~client.writable
  /\ LET c == [client EXCEPT !.writable = TRUE] IN
     ClientStep(IF c.transport = "websocket" THEN OnDrain(c) ELSE c)

\* The WebSocket breaks, or the client learns that it was closed.
WebSocketLost ==
  /\ Live /\ client.ws \in {"open", "closed", "gone"}
  /\ \/ Probing(client) /\ ClientStep(OnProbeError(client))
     \/ client.transport = "websocket" /\ ClientStep(OnClose(client))

-----------------------------------------------------------------------------
\* Steps of the server.

Answer(r) == client' = [client EXCEPT !.get = r]

\* connection.send(packet).
SendOn(s, t, p) ==
  IF t = "polling" THEN [s EXCEPT !.queue = Append(@, p)]
  ELSE [s EXCEPT !.down = IF client.ws = "open" THEN Append(@, p) ELSE @]

OnPingNoCycle(s, t, p) == SendOn(s, t, p)

\* Session.onPing answers where the PING came from; forcePollingCycle then
\* sends a NOOP on the active connection if that is another one.
OnPing(s, t, p) ==
  LET a == SendOn(s, t, p) IN
  IF t = s.active THEN a ELSE SendOn(a, s.active, Packet("noop"))

\* onEvent ignores the events of a session that is not connected.
OnEvent(s, n) ==
  IF s.session = "connected" THEN [s EXCEPT !.got = Append(@, n)] ELSE s

\* Session.onPacket for a packet that came on transport t.
OnServerPacket(s, t, p) ==
  CASE p.type = "message" -> OnEvent(s, p.n)
    [] p.type = "ping"    -> OnPing(s, t, Packet("pong"))
    [] p.type = "probe"   -> OnPing(s, t, Packet("probe"))
    [] p.type = "upgrade" -> [s EXCEPT !.active = t]
    [] OTHER              -> s

\* handleConnect: the first GET carries the handshake.  A GET for a session that
\* is closed, and so deleted, is given a new session in the same way (if it is one
\* of its last: MaxSessions).  The probe of the old one has failed by then.  The
\* CONNECT packet is here put in the queue that nobody sees before OnConnect.
Handshake ==
  /\ server.session \in {"none", "closed"} /\ client.get.state = "sent"
  /\ server.sessions < MaxSessions /\ ~Probing(client)
  /\ LET n == server.emitted + 1 IN
     server' = [server EXCEPT !.session = "opening", !.emitted = n,
                              !.active = "polling", !.done = FALSE,
                              !.queue = <<Message(n)>>, !.down = <<>>,
                              !.emitter = "none", !.sessions = @ + 1]
  /\ Answer(Response(<<Packet("open")>>))
  /\ UNCHANGED overtaken

\* Session.onConnect, after the response: the connection becomes the active one,
\* CONNECT is sent, and the session is CONNECTED.
OnConnect ==
  /\ server.session = "opening"
  /\ server' = [server EXCEPT !.session = "connected"]
  /\ UNCHANGED <<client, overtaken>>

\* A GET reaches take(), or is turned away: with an internal error when there is
\* no active connection yet, with the status GONE when the session is closing,
\* with an empty text body when the connection is done.
GetArrives ==
  /\ server.session \in {"opening", "connected", "closing"} /\ client.get.state = "sent"
  /\ Answer(IF server.session = "connected" /\ ~server.done
            THEN [client.get EXCEPT !.state = "taking"] ELSE FailedRequest)
  /\ UNCHANGED <<server, overtaken>>

\* take() and poll() empty the queue into the response; the NOOP of abort()
\* ends it, with no packet.
GetAnswered ==
  /\ client.get.state = "taking"
  /\ \/ server.done /\ Answer(Response(<<>>)) /\ UNCHANGED server
     \/ /\ ~server.done /\ server.queue # <<>>
        /\ Answer(Response(server.queue))
        /\ server' = [server EXCEPT !.queue = <<>>]
  /\ UNCHANGED overtaken

\* A POST: decodePayload fails on a payload of several packets, before any of
\* them is handled; a connection that is done ignores it.  For a session that
\* is closed a new one, which nobody gets to know, ignores its packet, and so it
\* does until the next session is open; the first one fails until it is.
PostArrives ==
  /\ client.post.state = "sent"
  /\ LET ps == client.post.packets
         polled == server.session = "connected" /\ ~server.done
         ok == /\ server.session # "closing"
               /\ server.session = "opening" => server.sessions > 1
               /\ Len(ps) = 1 \/ (server.session = "connected" /\ server.done) IN
     /\ server' = IF ok /\ polled
                  THEN OnServerPacket(server, "polling", Head(ps)) ELSE server
     /\ client' = [client EXCEPT !.post = IF ok THEN Response(<<>>) ELSE FailedRequest]
  /\ UNCHANGED overtaken

\* The POST with the CLOSE packet: closeConnection aborts the connection.
ByeArrives ==
  /\ client.bye
  /\ client' = [client EXCEPT !.bye = FALSE]
  /\ server' = IF server.session = "connected" THEN [server EXCEPT !.done = TRUE]
                                              ELSE server
  /\ UNCHANGED overtaken

\* A request or its response is lost on the way.
RequestLost ==
  /\ \/ /\ client.get.state \in {"sent", "taking", "done"}
        /\ client' = [client EXCEPT !.get = FailedRequest]
     \/ /\ client.post.state \in {"sent", "done"}
        /\ client' = [client EXCEPT !.post = FailedRequest]
  /\ UNCHANGED <<server, overtaken>>

\* onWebSocketText: one frame after the other.
FrameArrives ==
  /\ client.out # <<>> /\ server.session # "closed"
  /\ server' = OnServerPacket(server, "websocket", Head(client.out))
  /\ client' = [client EXCEPT !.out = Tail(@)]
  /\ UNCHANGED overtaken

\* onWebSocketClose ends the session, also when the WebSocket was only probed.
\* Of one that the client takes for refused the server may know, or never hear.
WebSocketClosed ==
  /\ client.ws = "closed"
  /\ server.session \in {"connected", "closing"}
  /\ server' = [server EXCEPT !.session = "closed", !.down = <<>>]
  /\ client' = [client EXCEPT !.ws = "gone", !.out = <<>>]
  /\ UNCHANGED overtaken

\* The application emits: the active connection is read, then used.
EmitRead ==
  /\ Live /\ server.session = "connected" /\ server.emitter = "none"
  /\ server.emitted < MaxDown
  /\ server' = [server EXCEPT !.emitter = server.active]
  /\ UNCHANGED <<client, overtaken>>

EmitSend ==
  /\ server.emitter # "none"
  /\ LET n == server.emitted + 1 IN
     server' = [SendOn(server, server.emitter, Message(n)) EXCEPT
                  !.emitter = "none", !.emitted = n]
  /\ UNCHANGED <<client, overtaken>>

\* The active connection is aborted: by the session's timeout, which leaves the
\* state as it is, or by disconnect(), which sets it.
Abort ==
  /\ Live /\ server.session = "connected"
  /\ \E state \in {"connected", "closing"} :
       IF server.active = "polling"
       THEN /\ server' = [server EXCEPT !.session = state, !.done = TRUE]
            /\ UNCHANGED client
       ELSE /\ server' = [server EXCEPT !.session = state]
            /\ client' = [client EXCEPT !.ws = Hung(@)]
  /\ UNCHANGED overtaken

-----------------------------------------------------------------------------
App      == AppWrite \/ AppClose \/ EmitRead \/ Abort
Faults   == RequestLost \/ WebSocketRefused \/ WebSocketLost
Timers   == PingDue \/ PingTimeout
Reaction == \/ GetDone \/ PostDone \/ RequestFailed \/ WebSocketOpen
            \/ Frame \/ FramesOut
Service  == \/ Handshake \/ OnConnect \/ GetArrives \/ GetAnswered \/ PostArrives
            \/ ByeArrives \/ FrameArrives \/ WebSocketClosed \/ EmitSend

Next == App \/ Faults \/ Timers \/ Reaction \/ Service

Spec == Init /\ [][Next]_vars

-----------------------------------------------------------------------------
\* Properties.

\* What the client's application writes reaches the server in order, without
\* a duplicate, across the change of the transport.  A gap is a message that
\* was posted to a connection that is done, which says "ok" all the same.
OrderUp ==
  /\ \A i, j \in DOMAIN server.got : i < j => server.got[i] < server.got[j]
  /\ ~server.done /\ server.sessions = 1 =>
       server.got = [i \in 1 .. Len(server.got) |-> i]

\* What the server's application emits reaches the client in order.  A gap is
\* a message that was queued on the polling connection when nobody polls it
\* any more: upgradeConnection does not move the queue.
OrderDown ==
  /\ \A i, j \in DOMAIN client.heard : i < j => client.heard[i] < client.heard[j]
  /\ server.sessions = 1 => \A j \in Range(client.heard) : \A k \in 1 .. j - 1 :
       k \in Range(client.heard) \/ Message(k) \in Range(server.queue)

\* Nothing is on its way and nobody has anything to do but wait.
Still ==
  /\ client.get.state \in {"none", "taking"} /\ client.post = NoRequest
  /\ client.get.state = "taking" => server.queue = <<>> /\ ~server.done
  /\ client.out = <<>> /\ server.down = <<>> /\ server.emitter = "none"
  /\ client.writable /\ client.ws # "connecting"
  /\ client.ws \in {"closed", "gone"} => ~Probing(client) /\ client.transport = "polling"

\* An upgrade that waits for ever (until the ping timeout, as the PING is held
\* back too) is due to a NOOP that overtook the PONG: forcePollingCycle sends
\* one only.  Or the probe failed after its PONG and nobody resets upgrading.
UpgradeStalls ==
  Live /\ client.upgrading /\ Still => overtaken \/ client.probe = "failed"

\* Whenever nothing is under way, all that the application wrote has arrived;
\* what waits, waits for the upgrade or behind the end of its session.
NothingStranded ==
  /\ Still /\ client.readyState = "open" /\ ~client.upgrading
  /\ server.session = "connected" /\ server.sessions = 1 /\ ~server.done
  => client.writeBuffer = <<>> /\ Len(server.got) = client.accepted
=============================================================================
