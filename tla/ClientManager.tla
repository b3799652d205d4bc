---------------------------- MODULE ClientManager ----------------------------
(***************************************************************************)
(* The Manager of the bundled client (js/socket.io.js) with its Sockets:   *)
(* opening an engine, reconnecting with a limited number of attempts,      *)
(* sharing one engine among namespaces, buffering and encoding events.     *)
(*                                                                         *)
(* The client is one thread: a timer, an event of an engine or a call of   *)
(* the application is one step, and what it calls synchronously happens    *)
(* within it.  The state is one record and each function an operator from  *)
(* records to records.  An event listener is registered or it is not: subs *)
(* are the listeners of Manager.subs that matter.                          *)
(*                                                                         *)
(* An engine is what module Upgrade has in detail: it opens or fails, and  *)
(* closes at any time; closing takes until its write buffer is drained.    *)
(* The server answers a CONNECT packet, and the default namespace is       *)
(* connected without one.  Abstracted: delays, event data, pings and the   *)
(* acknowledgements (SessionMessages).                                     *)
(***************************************************************************)
EXTENDS Naturals, Sequences, FiniteSets, SequencesExt

CONSTANTS
  Sockets,      \* namespaces of which the application has a Socket
  Root,         \* the default one
  MaxAttempts,  \* reconnectionAttempts
  MaxEvents,    \* bound: events the application emits
  Blobs,        \* those that carry a Blob, which is read asynchronously
  MaxQueue      \* bound: packets that wait for an encoding when connect() is called

ASSUME ManagerAssumption ==
  /\ Root \in Sockets /\ IsFiniteSet(Sockets)
  /\ MaxAttempts \in Nat \ {0} /\ MaxEvents \in Nat /\ MaxQueue \in Nat
  /\ Blobs \subseteq 1 .. MaxEvents

VARIABLE c   \* the client

\* The engine and the one before it: nobody ever listens to more than two.
Engines == 1 .. 2
Other(e) == 3 - e
Kinds   == {"connect", "event", "disconnect"}
Packets == [kind : Kinds, socket : Sockets, n : 0 .. MaxEvents]

Packet(k, s) == [kind |-> k, socket |-> s, n |-> 0]
Event(s, n)  == [kind |-> "event", socket |-> s, n |-> n]

\* The listeners of an engine: "first" and "retry" are those of open(), without
\* and with a callback, "events" those of onopen().
Subs == Engines \X {"first", "retry", "events"}

\* timer: a reconnection is due.  connecting are the Sockets that listen to the
\* Manager.  jobs are the packets whose encoding is under way.  state is the
\* readyState of each engine ("stuck": closing before it was open, so that
\* nothing drains it).  Of the current engine, unsent tells whether its write
\* buffer holds anything and answers whose CONNECT is on its way.  sent are the
\* events written to an engine.  history has what happened that the properties
\* make an exception for.
ClientType ==
  [readyState : {"closed", "opening", "open"}, engine : Engines,
   skipReconnect : BOOLEAN, reconnecting : BOOLEAN, timer : BOOLEAN,
   attempts : 0 .. MaxAttempts, subs : SUBSET Subs,
   connecting : SUBSET Sockets, connected : SUBSET Sockets,
   sendBuffer : [Sockets -> Seq(Packets)], encoding : BOOLEAN,
   jobs : SUBSET Packets, packetBuffer : Seq(Packets),
   accepted : 0 .. MaxEvents, sent : Seq(Packets),
   state : [Engines -> {"closed", "opening", "open", "closing", "stuck"}],
   unsent : BOOLEAN, answers : SUBSET Sockets,
   history : SUBSET {"interfered", "failed", "reopened", "stale", "cutIn"}]

TypeOK == c \in ClientType

\* lookup() has made the Manager, which opens its first engine, and its Sockets.
Init ==
  c = [readyState |-> "opening", engine |-> 1, skipReconnect |-> FALSE,
       reconnecting |-> FALSE, timer |-> FALSE, attempts |-> 0,
       subs |-> {<<1, "first">>}, connecting |-> Sockets, connected |-> {},
       sendBuffer |-> [s \in Sockets |-> <<>>], encoding |-> FALSE, jobs |-> {},
       packetBuffer |-> <<>>, accepted |-> 0, sent |-> <<>>,
       state |-> [e \in Engines |-> IF e = 1 THEN "opening" ELSE "closed"],
       unsent |-> FALSE, answers |-> {}, history |-> {}]

-----------------------------------------------------------------------------
\* Writing.

\* engine.write: an engine that closes drops the packet.
WriteEngine(m, p) ==
  LET e == m.engine IN
  IF m.state[e] \notin {"opening", "open"} THEN m
  ELSE [m EXCEPT !.unsent = TRUE,
                 !.sent = IF p.kind = "event" THEN Append(@, p) ELSE @,
                 !.answers = IF p.kind = "connect" THEN @ \cup {p.socket} ELSE @]

\* packet(): encode and write, or wait for the encoding that is under way.
WritePacket(m, p) ==
  CASE m.encoding -> [m EXCEPT !.packetBuffer = Append(@, p)]
    [] ~m.encoding /\ p.n \in Blobs -> [m EXCEPT !.encoding = TRUE, !.jobs = @ \cup {p}]
    [] OTHER -> WriteEngine(m, p)

WriteAll(m, ps) == FoldLeft(WritePacket, m, ps)

\* processPacketQueue().
ProcessPacketQueue(m) == WriteAll([m EXCEPT !.packetBuffer = <<>>], m.packetBuffer)

\* cleanup(): every listener and timer goes, the timer of reconnect() too.
Cleanup(m) ==
  [m EXCEPT !.subs = {}, !.timer = FALSE, !.packetBuffer = <<>>, !.encoding = FALSE,
            !.history = IF m.jobs = {} THEN @ ELSE @ \cup {"stale"}]

-----------------------------------------------------------------------------
\* Opening and closing.

OneAttemptMore(m) ==
  CASE m.reconnecting \/ m.skipReconnect -> m
    [] ~m.reconnecting /\ ~m.skipReconnect /\ m.attempts > MaxAttempts ->
         [m EXCEPT !.attempts = 0, !.history = @ \cup {"failed"}]
    [] OTHER -> [m EXCEPT !.attempts = @ + 1, !.reconnecting = TRUE, !.timer = TRUE]

KeepsAttempts(m) ==
  IF m.reconnecting \/ m.skipReconnect THEN m
  ELSE [m EXCEPT !.reconnecting = TRUE, !.timer = TRUE]

\* reconnect().
Reconnect(m) ==
  CASE m.reconnecting \/ m.skipReconnect -> m
    [] ~m.reconnecting /\ ~m.skipReconnect /\ m.attempts >= MaxAttempts ->
         [m EXCEPT !.attempts = 0, !.history = @ \cup {"failed"}]
    [] OTHER -> [m EXCEPT !.attempts = @ + 1, !.reconnecting = TRUE, !.timer = TRUE]

\* open(fn): k is "retry" with a callback, "first" without.  An application that
\* opens while a reconnection is due interferes with it; one that opens while
\* an engine is still closing has two engines that the Manager listens to.
Open(m, k) ==
  LET e == Other(m.engine) IN
  IF m.readyState # "closed" THEN m
  ELSE [m EXCEPT
          !.engine = e, !.readyState = "opening", !.skipReconnect = FALSE,
          !.state[e] = "opening", !.unsent = FALSE, !.answers = {},
          !.subs = @ \cup {<<e, k>>},
          !.history = (@ \ {"failed"})
             \cup (IF m.reconnecting /\ k = "first" THEN {"interfered"} ELSE {})
             \cup (IF m.subs # {} THEN {"reopened"} ELSE {})]

\* Socket.onopen, for the Sockets that listen to the Manager.
SocketsOpen(m, S) ==
  WriteAll(m, SetToSeq({Packet("connect", s) : s \in S \ {Root}}))

\* onopen() and the callback of reconnect(), onreconnect().
OnOpen(m, k) ==
  LET o == SocketsOpen([Cleanup(m) EXCEPT !.readyState = "open"], m.connecting)
      s == [o EXCEPT !.subs = {<<o.engine, "events">>}]
  IN  IF k = "retry"
      THEN [s EXCEPT !.reconnecting = FALSE, !.attempts = 0,
                     !.history = @ \ {"interfered"}]
      ELSE s

\* onclose(): the sockets are told, then the Manager reconnects.
OnClose(m) ==
  Reconnect([Cleanup(m) EXCEPT !.attempts = 0, !.readyState = "closed",
                               !.connected = @ \ m.connecting])

EngineClosed(m, e) ==
  LET d == [m EXCEPT !.state[e] = "closed", !.unsent = @ /\ e # m.engine,
                     !.answers = IF e = m.engine THEN {} ELSE @]
  IN  IF <<e, "events">> \in m.subs THEN OnClose(d) ELSE d

\* engine.close(), of the current engine.
EngineClose(m) ==
  LET e == m.engine IN
  CASE m.state[e] = "opening" /\ m.unsent -> [m EXCEPT !.state[e] = "stuck"]
    [] m.state[e] = "open" /\ m.unsent    -> [m EXCEPT !.state[e] = "closing"]
    [] m.state[e] \in {"opening", "open"} /\ ~m.unsent -> EngineClosed(m, e)
    [] OTHER -> m

ErrorKeepsReconnecting(m, k) ==
  LET d == [Cleanup(m) EXCEPT !.readyState = "closed"] IN
  IF d.attempts = 0 \/ k = "retry" THEN Reconnect(d) ELSE d

\* The engine's "error" event for the listener of open().
ConnectError(m, k) ==
  LET d == [Cleanup(m) EXCEPT !.readyState = "closed"] IN
  CASE k = "retry" ->
         Reconnect([d EXCEPT !.reconnecting = FALSE, !.history = @ \ {"interfered"}])
    [] k = "first" /\ d.attempts = 0 -> Reconnect(d)
    [] OTHER -> d

\* close().
Close(m) ==
  EngineClose([(IF m.readyState = "opening" THEN Cleanup(m) ELSE m) EXCEPT
                 !.skipReconnect = TRUE, !.reconnecting = FALSE, !.attempts = 0,
                 !.readyState = "closed", !.history = @ \ {"interfered"}])

\* Socket.destroy and Manager.destroy.
Destroy(m, s) ==
  LET d == [m EXCEPT !.connecting = @ \ {s}] IN
  IF d.connecting = {} THEN Close(d) ELSE d

-----------------------------------------------------------------------------
\* Calls of the application.

\* Socket.connect.
Connect(s) ==
  /\ s \notin c.connected
  /\ Len(c.packetBuffer) < MaxQueue
  /\ LET o == [Open(c, "first") EXCEPT !.connecting = @ \cup {s}] IN
     c' = IF o.readyState = "open" THEN SocketsOpen(o, {s}) ELSE o

\* Socket.disconnect.
Disconnect(s) ==
  LET d == IF s \in c.connected THEN WritePacket(c, Packet("disconnect", s)) ELSE c
  IN  c' = [Destroy(d, s) EXCEPT !.connected = @ \ {s}]

\* Socket.emit.
EmitOn(m, s) ==
  LET n == m.accepted + 1
      a == [m EXCEPT !.accepted = n]
  IN  IF s \in m.connected THEN WritePacket(a, Event(s, n))
      ELSE [a EXCEPT !.sendBuffer[s] = Append(@, Event(s, n))]

Emit(s) == c.accepted < MaxEvents /\ c' = EmitOn(c, s)

-----------------------------------------------------------------------------
\* Timers and events.

\* The timer of reconnect().
ReconnectTimer ==
  /\ c.timer
  /\ LET d == [c EXCEPT !.timer = FALSE] IN
     c' = IF d.skipReconnect THEN d ELSE Open(d, "retry")

TimeoutLeavesEngine ==
  \E k \in {"first", "retry"} :
    <<c.engine, k>> \in c.subs /\ c' = ConnectError(c, k)

\* The timer of open().
ConnectTimeout ==
  \E k \in {"first", "retry"} :
    /\ <<c.engine, k>> \in c.subs
    /\ c' = ConnectError(EngineClose(c), k)

\* An engine opens: the server will connect the default namespace.
EngineOpens(e) ==
  /\ c.state[e] = "opening"
  /\ LET o == [c EXCEPT !.state[e] = "open", !.answers = IF e = c.engine THEN {Root} ELSE @] IN
     c' = IF \E k \in {"first", "retry"} : <<e, k>> \in c.subs
          THEN OnOpen(o, CHOOSE k \in {"first", "retry"} : <<e, k>> \in c.subs)
          ELSE o

\* A transport error: "error", which open() or onerror hears, then "close".
EngineFails(e) ==
  /\ c.state[e] # "closed"
  /\ c' = EngineClosed(IF \E k \in {"first", "retry"} : <<e, k>> \in c.subs
                       THEN ConnectError(c, CHOOSE k \in {"first", "retry"} : <<e, k>> \in c.subs)
                       ELSE c, e)

\* The write buffer is drained; an engine that waited for it closes.
Drained(e) ==
  /\ \/ c.state[e] = "closing"
     \/ e = c.engine /\ c.state[e] = "open" /\ c.unsent
  /\ c' = IF c.state[e] = "closing" THEN EngineClosed(c, e) ELSE [c EXCEPT !.unsent = FALSE]

\* A packet of the server is heard by the Sockets that listen to the Manager.
Heard(s) ==
  /\ <<c.engine, "events">> \in c.subs /\ c.state[c.engine] = "open"
  /\ s \in c.connecting

KeepsSendBuffer(m, s) == WriteAll(m, m.sendBuffer[s])

\* Socket.onconnect: the "connect" listener, then the buffered events.
OnConnect(m, s) ==
  WriteAll([m EXCEPT !.sendBuffer[s] = <<>>], m.sendBuffer[s])

ServerConnects(s) ==
  /\ s \in c.answers /\ c.state[c.engine] = "open"
  /\ LET d == [c EXCEPT !.answers = @ \ {s}]
         o == [d EXCEPT !.connected = @ \cup {s}]
     IN \/ ~Heard(s) /\ c' = d
        \/ Heard(s) /\ c' = OnConnect(o, s)
        \/ \* the listener emits
           /\ Heard(s) /\ c.accepted < MaxEvents
           /\ c' = OnConnect([EmitOn(o, s) EXCEPT
                      !.history = IF c.sendBuffer[s] = <<>> THEN @ ELSE @ \cup {"cutIn"}], s)

\* Socket.ondisconnect.
ServerDisconnects(s) ==
  /\ Heard(s) /\ s \in c.connected
  /\ c' = [Destroy(c, s) EXCEPT !.connected = @ \ {s}]

\* A Blob has been read: its packet goes to the engine of the time.
Encoded ==
  \E p \in c.jobs :
    c' = ProcessPacketQueue([WriteEngine(c, p) EXCEPT !.jobs = @ \ {p}, !.encoding = FALSE])

Application == \E s \in Sockets : Connect(s) \/ Disconnect(s) \/ Emit(s)
Timers      == ReconnectTimer \/ ConnectTimeout
Network     == \/ \E e \in Engines : EngineOpens(e) \/ EngineFails(e) \/ Drained(e)
               \/ \E s \in Sockets : ServerConnects(s) \/ ServerDisconnects(s)

Next == Application \/ Timers \/ Network \/ Encoded

Spec     == Init /\ [][Next]_c
FairSpec == Spec /\ WF_c(ReconnectTimer) /\ WF_c(ConnectTimeout)

-----------------------------------------------------------------------------
\* Properties.

\* A Manager that lost its connection, and was not told to close, has a timer
\* that will open the next engine, or said that it failed; one that is opening
\* or open listens to its engine.  Except: connect() while a reconnection was
\* due cleared its timer and left reconnecting set, so nobody tries again.
KeepsTrying ==
  /\ c.readyState = "closed" /\ ~c.skipReconnect =>
       c.timer \/ c.history \cap {"failed", "interfered"} # {}
  /\ c.readyState # "closed" => \E k \in {"first", "retry", "events"} :
                                  <<c.engine, k>> \in c.subs

\* An engine that is open or will be is the one the Manager listens to.
\* Except: connect() while the old engine was still closing; its "close" event
\* then takes the listeners off the new one.
NoOrphan ==
  \A e \in Engines : c.state[e] \in {"opening", "open"} =>
    \/ e = c.engine /\ c.readyState # "closed"
    \/ "reopened" \in c.history

\* Each event is written once, and the events of a Socket in the order they
\* were emitted.  Except: an event that the "connect" listener emits overtakes
\* the buffered ones, and one whose encoding outlasts its engine is written to
\* a later one.
InOrder ==
  /\ \A i, j \in DOMAIN c.sent : i # j => c.sent[i].n # c.sent[j].n
  /\ c.history \cap {"cutIn", "stale"} = {} =>
       \A i, j \in DOMAIN c.sent :
         i < j /\ c.sent[i].socket = c.sent[j].socket => c.sent[i].n < c.sent[j].n

\* Reconnecting comes to an end, with a connection or with "reconnect_failed".
LoopEnds == c.reconnecting ~> ~c.reconnecting \/ "interfered" \in c.history
=============================================================================
