-------------------------- MODULE SessionLifecycle --------------------------
(***************************************************************************)
(* The life of one Socket.IO session: connecting, upgrading, and the       *)
(* several ways it is closed.                                              *)
(*                                                                         *)
(* impl/Session.java keeps its fields in atomics and takes no lock; its    *)
(* methods run on servlet request threads, WebSocket callback threads,     *)
(* executor threads (the session timeout) and application threads.  A      *)
(* thread is a program counter here, and a step is one access to a field   *)
(* that other threads use, so that the threads interleave where the code   *)
(* lets them.  A Worker runs any request, packet, timer or application     *)
(* call; the thread named by a connection c runs the one                   *)
(* onWebSocketClose(c) call that the container makes.                      *)
(*                                                                         *)
(* Abstracted: packet contents (only what a packet makes the session do),  *)
(* message text, acknowledgements, binary assembly and the timer object    *)
(* (the timeout may expire at any time once a packet has scheduled it).    *)
(* A POST with several packets is several workers that were admitted       *)
(* together.                                                               *)
(***************************************************************************)
EXTENDS Naturals

CONSTANTS
  Conns,          \* transport connection objects the session may get
  Transport,      \* Conns -> {"xhr", "tomcat", "ws"}
  Sockets,        \* Socket objects that createSocket may make
  NsOf,           \* Sockets -> namespace id
  DefaultNs,      \* SocketIOProtocol.DEFAULT_NAMESPACE
  Workers,        \* threads
  NoConn,         \* null
  ActiveRef,      \* the AtomicReference object in Session.activeConnection
  ListenersThrow  \* may an application's disconnect listener throw?

ASSUME ConnAssumption ==
  /\ Transport \in [Conns -> {"xhr", "tomcat", "ws"}]
  /\ NoConn \notin Conns
  /\ ActiveRef \notin Conns
  /\ Workers \cap Conns = {}
  /\ ListenersThrow \in BOOLEAN

Namespaces == {NsOf[s] : s \in Sockets} \cup {DefaultNs}
Threads    == Workers \cup Conns

States  == {"CONNECTING", "CONNECTED", "CLOSING", "CLOSED"}
Reasons == {"UNKNOWN", "CONNECT_FAILED", "DISCONNECT", "TIMEOUT",
            "CLOSE_FAILED", "ERROR", "CLOSED_REMOTELY", "CLIENT_GONE"}
Labels  == {"idle", "uncalled", "handshake", "cas", "create", "put", "send",
            "ready", "listen", "reject", "packet", "ns_put", "ns_send",
            "ns_listen", "ns_reject", "pong", "noop", "disconnect", "close",
            "reason1", "reason2", "abort", "shutdown", "check", "mark", "notify", "done"}

\* src is the connection whose request or callback a worker runs, conn and why
\* are the arguments of the call it is in, ret is the label where
\* setDisconnectReason returns to, and after is where closeConnection does.
Calls  == [src : Conns \cup {NoConn}, conn : Conns \cup {NoConn},
           why : Reasons, ret : {"idle", "abort", "shutdown"},
           after : {"idle", "noop"}]
NoCall == [src |-> NoConn, conn |-> NoConn, why |-> "UNKNOWN", ret |-> "idle",
           after |-> "idle"]

VARIABLES
  state,       \* Session.state
  active,      \* content of Session.activeConnection
  reason,      \* Session.disconnectReason
  timedOut,    \* Session.timedOut
  sockets,     \* Session.sockets, a map from namespaces: the values
  members,     \* union of Namespace.sockets over the namespaces
  registered,  \* is the session in SocketIOManager.sessions?
  endpoint,    \* WebSocket endpoint of a connection ("null" once aborted)
  done,        \* XHRTransportConnection.done
  pc,          \* where each thread is
  call,        \* what each thread was called with (see NoCall)
  created,     \* the Socket a worker has made and not yet put into sockets
  given,       \* has a connection listener been given a Socket?
  armed,       \* has resetTimeout() scheduled the session's timeout?
  todo,        \* copy of the sockets that onDisconnect iterates over
  told,        \* history: how often the listeners of a socket were called
  strays,      \* history: sockets that onDisconnect can no longer reach
  together     \* history: have two threads been in onDisconnect at a time?

session == <<state, active, reason, timedOut, sockets, members, registered>>
wire    == <<endpoint, done>>
threads == <<pc, call>>
held    == <<created, given, armed>>
notices == <<todo, told, strays, together>>
vars    == <<session, wire, threads, held, notices>>

-----------------------------------------------------------------------------
TypeOK ==
  /\ state \in States
  /\ active \in Conns \cup {NoConn}
  /\ reason \in Reasons
  /\ timedOut \in BOOLEAN
  /\ sockets \subseteq Sockets
  /\ \A s, x \in sockets : NsOf[s] = NsOf[x] => s = x
  /\ members \subseteq Sockets
  /\ registered \in BOOLEAN
  /\ endpoint \in [Conns -> {"none", "open", "broken", "null"}]
  /\ done \in [Conns -> BOOLEAN]
  /\ pc \in [Threads -> Labels]
  /\ call \in [Threads -> Calls]
  /\ created \in [Workers -> SUBSET Sockets]
  /\ given \in BOOLEAN
  /\ armed \in BOOLEAN
  /\ todo \in [Threads -> SUBSET Sockets]
  /\ told \in [Sockets -> Nat]
  /\ strays \subseteq Sockets
  /\ together \in BOOLEAN

\* SocketIOManager.createSession has just put a fresh session in its map.
Init ==
  /\ state = "CONNECTING"
  /\ active = NoConn
  /\ reason = "UNKNOWN"
  /\ timedOut = FALSE
  /\ sockets = {}
  /\ members = {}
  /\ registered = TRUE
  /\ endpoint = [c \in Conns |-> "none"]
  /\ done = [c \in Conns |-> FALSE]
  /\ pc = [t \in Threads |-> IF t \in Conns THEN "uncalled" ELSE "idle"]
  /\ call = [t \in Threads |-> NoCall]
  /\ created = [w \in Workers |-> {}]
  /\ given = FALSE
  /\ armed = FALSE
  /\ todo = [t \in Threads |-> {}]
  /\ told = [s \in Sockets |-> 0]
  /\ strays = {}
  /\ together = FALSE

-----------------------------------------------------------------------------
\* Control flow of a thread.

Conn(t) == call[t].conn

Goto(t, l) ==
  /\ pc' = [pc EXCEPT ![t] = l]
  /\ call' = IF l = "idle" THEN [call EXCEPT ![t] = NoCall] ELSE call

\* Worker w starts an operation for connection c at label l; d and r are the
\* connection and the reason that the operation passes on.
Start(w, c, l, d, r) ==
  /\ pc[w] = "idle"
  /\ pc' = [pc EXCEPT ![w] = l]
  /\ call' = [call EXCEPT ![w] = [src |-> c, conn |-> d, why |-> r,
                                     ret |-> "idle", after |-> "idle"]]

\* Thread t calls setDisconnectReason(r) and goes on at label l.
SetReason(t, r, l) ==
  /\ pc' = [pc EXCEPT ![t] = "reason1"]
  /\ call' = [call EXCEPT ![t] = [@ EXCEPT !.why = r, !.ret = l]]

\* Thread t calls closeConnection(r, c).
CloseConn(t, r, c) ==
  /\ pc' = [pc EXCEPT ![t] = "close"]
  /\ call' = [call EXCEPT ![t] = [@ EXCEPT !.why = r, !.conn = c]]

\* Thread t calls disconnect() on the active connection; it goes on at label l.
CallDisconnect(t, l) ==
  /\ pc' = [pc EXCEPT ![t] = "disconnect"]
  /\ call' = [call EXCEPT ![t] = [@ EXCEPT !.conn = active, !.ret = l]]

\* The three outcomes of connection.send(packet).  A polling connection only
\* appends to its queue.  A WebSocket send fails when the endpoint is closed,
\* or with an IOException upon which the endpoint is disconnected; after
\* abort() the endpoint is null and send() throws a NullPointerException.
SendOk(c)   == /\ Transport[c] = "ws" => endpoint[c] = "open"
               /\ UNCHANGED endpoint
SendFail(c) == /\ Transport[c] = "ws"
               /\ endpoint[c] \in {"open", "broken"}
               /\ endpoint' = [endpoint EXCEPT ![c] = "broken"]
SendNull(c) == /\ Transport[c] = "ws"
               /\ endpoint[c] = "null"
               /\ UNCHANGED endpoint

\* A NullPointerException leaves every caller up to the container.
SendCrash(t, c) == SendNull(c) /\ Goto(t, "idle")

\* Jetty serialises the connect and text callbacks of one WebSocket.  (A binary
\* message is handled on a thread of its own, which here does what AppEmit does.)
Busy(c) == \E w \in Workers : call[w].src = c

\* A packet can arrive on c: over WebSocket while the endpoint is open, over
\* polling by a POST.  The transport hands a POST to the active connection, or,
\* when that one is a WebSocket, to a fresh connection of its own; it serves a
\* session in CONNECTING too (the onConnect that then follows the packets finds
\* a connection set, and its exception is logged).  Without an active
\* connection the request dies before it reaches the session.
CanReceive(c) ==
  /\ active # NoConn
  /\ \/ /\ Transport[c] = "ws"
        /\ endpoint[c] = "open" /\ ~Busy(c) /\ pc[c] = "uncalled"
     \/ /\ Transport[c] # "ws"
        /\ registered /\ state \in {"CONNECTING", "CONNECTED"} /\ ~done[c]
        /\ \/ c = active
           \/ Transport[active] = "ws" /\ Transport[c] = "xhr" /\ endpoint[c] = "none"

\* Session.createSocket takes two steps: the Socket joins its namespace, and
\* then the session's map, where it replaces the one the session had for that
\* namespace.
Passing == {t \in Threads : pc[t] = "notify"}

MakeSocket(w, ns) ==
  \E s \in Sockets :
    /\ NsOf[s] = ns /\ s \notin members /\ told[s] = 0 /\ s \notin strays
    /\ members' = members \cup {s}
    /\ created' = [created EXCEPT ![w] = @ \cup {s}]

\* onDisconnect will miss what is replaced, and what is put after it took its
\* copy of the sockets.
NoneReplaced(s) == {}
Replaced(s)     == {x \in sockets : NsOf[x] = NsOf[s]}

PutSocket(w) ==
  \E s \in created[w] :
    /\ sockets' = (sockets \ Replaced(s)) \cup {s}
    /\ strays' = strays \cup Replaced(s)
                        \cup IF Passing # {} \/ ~registered THEN {s} ELSE {}
    /\ created' = [created EXCEPT ![w] = @ \ {s}]

-----------------------------------------------------------------------------
\* Connecting: AbstractTransport.getConnection, the handshake and
\* Session.onConnect.

\* The request that created the session; its connection calls onConnect.
OpenFirst(w, c) ==
  /\ \A d \in Conns : endpoint[d] = "none"
  /\ endpoint' = [endpoint EXCEPT ![c] = "open"]
  /\ Start(w, c, "handshake", c, "UNKNOWN")
  /\ UNCHANGED <<session, done, held, notices>>

\* A WebSocket request with the session's id gets a new connection when the
\* active one is of another transport.  onWebSocketConnect calls onConnect
\* only if it still sees CONNECTING.  (TomcatTransportProvider has no WebSocket
\* transport.)
OpenUpgrade(w, c) ==
  /\ registered /\ active # NoConn
  /\ Transport[c] = "ws" /\ Transport[active] = "xhr"
  /\ endpoint[c] = "none"
  /\ endpoint' = [endpoint EXCEPT ![c] = "open"]
  /\ pc[w] = "idle"
  /\ IF state = "CONNECTING" THEN Start(w, c, "handshake", c, "UNKNOWN")
                             ELSE UNCHANGED threads
  /\ UNCHANGED <<session, done, held, notices>>

\* A SocketIOException out of onConnect: the HTTP transports only log it.
ConnectFailed(w) ==
  IF Transport[Conn(w)] = "ws"
  THEN SetReason(w, "CONNECT_FAILED", "abort")
  ELSE Goto(w, "idle")

\* The handshake packet is sent, over polling with the response of the request
\* (an IOException leaves the request, and onConnect is not called).
Handshake(w) ==
  /\ pc[w] = "handshake"
  /\ \/ SendOk(Conn(w)) /\ Goto(w, "cas")
     \/ SendFail(Conn(w)) /\ ConnectFailed(w)
     \/ Transport[Conn(w)] # "ws" /\ UNCHANGED endpoint /\ Goto(w, "idle")
  /\ UNCHANGED <<session, done, held, notices>>

ConnectCas(w) ==
  /\ pc[w] = "cas"
  /\ IF active = NoConn
     THEN /\ active' = Conn(w)
          /\ Goto(w, "create")
     ELSE ConnectFailed(w) /\ UNCHANGED active
  /\ UNCHANGED <<state, reason, timedOut, sockets, members, registered, wire, held,
                 notices>>

ConnectCreate(w) ==
  /\ pc[w] = "create"
  /\ MakeSocket(w, DefaultNs)
  /\ Goto(w, "put")
  /\ UNCHANGED <<state, active, reason, timedOut, sockets, registered, wire,
                 given, armed, notices>>

ConnectPut(w) ==
  /\ pc[w] = "put"
  /\ PutSocket(w)
  /\ Goto(w, "send")
  /\ UNCHANGED <<state, active, reason, timedOut, members, registered, wire,
                 given, armed, todo, told, together>>

ConnectSend(w) ==
  /\ pc[w] = "send"
  /\ \/ SendOk(Conn(w)) /\ Goto(w, "ready")
     \/ SendFail(Conn(w)) /\ ConnectFailed(w)
     \/ SendCrash(w, Conn(w))
  /\ UNCHANGED <<session, done, held, notices>>

ConnectReady(w) ==
  /\ pc[w] = "ready"
  /\ state' = "CONNECTED"
  /\ given' = TRUE
  /\ Goto(w, "listen")
  /\ UNCHANGED <<active, reason, timedOut, sockets, members, registered, wire,
                 created, armed, notices>>

\* The namespace's connection listeners return, or refuse the connection.
ConnectListen(w) ==
  /\ pc[w] = "listen"
  /\ \E l \in {"idle", "reject"} : Goto(w, l)
  /\ UNCHANGED <<session, wire, held, notices>>

ConnectReject(w) ==
  /\ pc[w] = "reject"
  /\ \/ SendOk(Conn(w)) /\ CloseConn(w, "CONNECT_FAILED", Conn(w))
     \/ SendFail(Conn(w)) /\ ConnectFailed(w)
     \/ SendCrash(w, Conn(w))
  /\ UNCHANGED <<session, done, held, notices>>

-----------------------------------------------------------------------------
\* Packets: Session.onPacket.

\* Only the connections that run AbstractTransportConnection.init() set a
\* timeout; the WebSocket connection overrides it.
TimeoutSet(e) == \E c \in Conns : Transport[c] # "ws" /\ e[c] # "none"

\* The request or frame is admitted and resets the timeout (SessionTimer has
\* how; that clearTimeout() may miss a task is why nothing disarms it here).
\* What it carries is handled next.
Receive(w, c) ==
  /\ CanReceive(c)
  /\ Start(w, c, "packet", c, "UNKNOWN")
  /\ endpoint' = [endpoint EXCEPT ![c] = "open"]
  /\ armed' = (armed \/ TimeoutSet(endpoint'))
  /\ UNCHANGED <<session, done, created, given, notices>>

\* CONNECT: Session.connect.
NsInvalid(w) ==
  /\ pc[w] = "packet"
  /\ \/ SendOk(active) /\ Goto(w, "idle")
     \/ SendFail(active) /\ CloseConn(w, "CONNECT_FAILED", active)
     \/ SendCrash(w, active)
  /\ UNCHANGED <<session, done, held, notices>>

NsConnect(w) ==
  /\ pc[w] = "packet"
  /\ \E ns \in Namespaces : MakeSocket(w, ns)
  /\ Goto(w, "ns_put")
  /\ UNCHANGED <<state, active, reason, timedOut, sockets, registered, wire,
                 given, armed, notices>>

NsPut(w) ==
  /\ pc[w] = "ns_put"
  /\ PutSocket(w)
  /\ Goto(w, "ns_send")
  /\ UNCHANGED <<state, active, reason, timedOut, members, registered, wire,
                 given, armed, todo, told, together>>

NsSend(w) ==
  /\ pc[w] = "ns_send"
  /\ \/ SendOk(active) /\ Goto(w, "ns_listen") /\ given' = TRUE
     \/ SendFail(active) /\ CloseConn(w, "CONNECT_FAILED", active) /\ UNCHANGED given
     \/ SendCrash(w, active) /\ UNCHANGED given
  /\ UNCHANGED <<session, done, created, armed, notices>>

NsListen(w) ==
  /\ pc[w] = "ns_listen"
  /\ \E l \in {"idle", "ns_reject"} : Goto(w, l)
  /\ UNCHANGED <<session, wire, held, notices>>

\* The error packet is sent and the refused socket is disconnected(false).
NsReject(w) ==
  /\ pc[w] = "ns_reject"
  /\ \/ SendOk(active) /\ CallDisconnect(w, "idle")
     \/ SendFail(active) /\ CloseConn(w, "CONNECT_FAILED", active)
     \/ SendCrash(w, active)
  /\ UNCHANGED <<session, done, held, notices>>

\* An Engine.IO CLOSE closes the connection it came on, a Socket.IO
\* DISCONNECT the active one.
RemoteClose(w) ==
  /\ pc[w] = "packet"
  /\ \E d \in {Conn(w), active} : CloseConn(w, "CLOSED_REMOTELY", d)
  /\ UNCHANGED <<session, wire, held, notices>>

UpgradePacket(w) ==
  /\ pc[w] = "packet"
  /\ active' = Conn(w)
  /\ Goto(w, "idle")
  /\ UNCHANGED <<state, reason, timedOut, sockets, members, registered, wire,
                 held, notices>>

\* Any other packet: an event may be answered, and onEvent and onACK catch
\* whatever goes wrong.
OtherPacket(w) ==
  /\ pc[w] = "packet"
  /\ UNCHANGED endpoint \/ (state = "CONNECTED" /\ SendFail(active))
  /\ Goto(w, "idle")
  /\ UNCHANGED <<session, done, held, notices>>

Ping(w) ==
  /\ pc[w] = "packet"
  /\ pc' = [pc EXCEPT ![w] = "pong"]
  /\ call' = [call EXCEPT ![w] = [@ EXCEPT !.after = "noop"]]
  /\ UNCHANGED <<session, wire, held, notices>>

Pong(w) ==
  /\ pc[w] = "pong"
  /\ \/ SendOk(Conn(w)) /\ Goto(w, "noop")
     \/ SendFail(Conn(w)) /\ CloseConn(w, "ERROR", Conn(w))
     \/ SendCrash(w, Conn(w))
  /\ UNCHANGED <<session, done, held, notices>>

\* forcePollingCycle, when the PING did not come over the active connection;
\* a failure is only logged.
Noop(w) ==
  /\ pc[w] = "noop"
  /\ UNCHANGED endpoint \/ (active # call[w].src /\ SendFail(active))
  /\ Goto(w, "idle")
  /\ UNCHANGED <<session, done, held, notices>>

-----------------------------------------------------------------------------
\* Closing.

OnTimeout(w) ==
  /\ armed /\ ~timedOut /\ active # NoConn
  /\ timedOut' = TRUE
  /\ Start(w, NoConn, "close", active, "TIMEOUT")
  /\ UNCHANGED <<state, active, reason, sockets, members, registered, wire, held, notices>>

\* The application calls Socket.disconnect(closeConnection) on a socket that
\* a connection listener gave it.
AppDisconnect(w, closeConnection) ==
  /\ given /\ active # NoConn
  /\ pc[w] = "idle"
  /\ CallDisconnect(w, IF closeConnection THEN "abort" ELSE "idle")
  /\ UNCHANGED <<session, wire, held, notices>>

\* The application emits; the caller gets the exception.
AppEmit ==
  /\ given /\ state = "CONNECTED"
  /\ SendFail(active)
  /\ UNCHANGED <<session, done, threads, held, notices>>

\* AbstractTransportConnection.disconnect.
Disconnect(w) ==
  /\ pc[w] = "disconnect"
  /\ \/ SendOk(Conn(w)) /\ SetReason(w, "DISCONNECT", call[w].ret)
     \/ SendFail(Conn(w)) /\ SetReason(w, "CLOSE_FAILED", call[w].ret)
     \/ SendCrash(w, Conn(w))
  /\ UNCHANGED <<session, done, held, notices>>

\* Objects.equals(activeConnection, connection) compares the reference
\* object, not what it refers to.
IsActive(c) == ActiveRef = c

CloseConnection(w) ==
  /\ pc[w] = "close"
  /\ IF IsActive(Conn(w))
     THEN SetReason(w, call[w].why, "abort")
     ELSE Goto(w, "abort")
  /\ UNCHANGED <<session, wire, held, notices>>

\* Session.setDisconnectReason: two writes.
WriteClosing(t) ==
  /\ pc[t] = "reason1"
  /\ state' = "CLOSING"
  /\ Goto(t, "reason2")
  /\ UNCHANGED <<active, reason, timedOut, sockets, members, registered, wire,
                 held, notices>>

StoresItself(t) == reason
Stored(t)       == call[t].why

WriteReason(t) ==
  /\ pc[t] = "reason2"
  /\ reason' = Stored(t)
  /\ Goto(t, call[t].ret)
  /\ UNCHANGED <<state, active, timedOut, sockets, members, registered, wire,
                 held, notices>>

AbortXHR(w) ==
  /\ pc[w] = "abort" /\ Transport[Conn(w)] = "xhr"
  /\ done' = [done EXCEPT ![Conn(w)] = TRUE]
  /\ Goto(w, "idle")
  /\ UNCHANGED <<session, endpoint, held, notices>>

\* TomcatLongPollingTransportConnection.abort calls onShutdown itself.
AbortTomcat(w) ==
  /\ pc[w] = "abort" /\ Transport[Conn(w)] = "tomcat"
  /\ Goto(w, "shutdown")
  /\ UNCHANGED <<session, wire, held, notices>>

AbortWebSocket(w) ==
  /\ pc[w] = "abort" /\ Transport[Conn(w)] = "ws"
  /\ endpoint' = [endpoint EXCEPT ![Conn(w)] = "null"]
  /\ Goto(w, call[w].after)
  /\ UNCHANGED <<session, done, held, notices>>

SetDone(w) ==
  /\ pc[w] = "done"
  /\ done' = [done EXCEPT ![Conn(w)] = TRUE]
  /\ Goto(w, "idle")
  /\ UNCHANGED <<session, endpoint, held, notices>>

\* What fromCloseCode may return.
FromCloseCode == {"CLIENT_GONE", "ERROR"}

\* onWebSocketClose: once per WebSocket, after it was disconnected here or
\* because the peer went away.
WebSocketClosed(c) ==
  /\ Transport[c] = "ws" /\ pc[c] = "uncalled"
  /\ \/ endpoint[c] \in {"broken", "null"} /\ UNCHANGED endpoint
     \/ /\ endpoint[c] = "open" /\ ~Busy(c)
        /\ endpoint' = [endpoint EXCEPT ![c] = "broken"]
  /\ IF state # "CLOSING"
     THEN \E r \in FromCloseCode : SetReason(c, r, "shutdown")
     ELSE Goto(c, "shutdown")
  /\ UNCHANGED <<session, done, held, notices>>

\* Session.onShutdown picks the reason.
OnShutdown(t) ==
  /\ pc[t] = "shutdown"
  /\ pc' = [pc EXCEPT ![t] = "check"]
  /\ LET r == IF state = "CLOSING" THEN reason ELSE "ERROR"
     IN  call' = [call EXCEPT ![t] = [@ EXCEPT !.why = r]]
  /\ UNCHANGED <<session, wire, held, notices>>

\* Where a thread goes on when onShutdown returns: Tomcat's abort sets done.
AfterShutdown(t) == IF t \in Workers THEN "done" ELSE "idle"

\* Session.onDisconnect: the test of the state, the write of the state with
\* the copy of the sockets, the listeners one socket at a time, and the
\* removal from the manager.
ClosingOrClosed == state \in {"CLOSING", "CLOSED"}
AlreadyClosed   == state = "CLOSED"

CheckClosed(t) ==
  /\ pc[t] = "check"
  /\ Goto(t, IF AlreadyClosed THEN AfterShutdown(t) ELSE "mark")
  /\ UNCHANGED <<session, wire, held, notices>>

MarkClosed(t) ==
  /\ pc[t] = "mark"
  /\ state' = "CLOSED"
  /\ todo' = [todo EXCEPT ![t] = sockets]
  /\ together' = (together \/ \E u \in Threads \ {t} : pc[u] \in {"mark", "notify"})
  /\ Goto(t, "notify")
  /\ UNCHANGED <<active, reason, timedOut, sockets, members, registered, wire,
                 held, told, strays>>

\* The first two listeners of a Socket: its Namespace drops it, and the Session
\* drops whatever it holds for that namespace.
NamespaceKeeps(s) == /\ UNCHANGED members
                     /\ sockets' = {x \in sockets : NsOf[x] # NsOf[s]}
SessionKeeps(s)   == members' = members \ {s} /\ UNCHANGED sockets
Forget(s)         == /\ members' = members \ {s}
                     /\ sockets' = {x \in sockets : NsOf[x] # NsOf[s]}

\* Then the application's listeners are told.
Notify(t) ==
  /\ pc[t] = "notify"
  /\ \E s \in todo[t] :
       /\ told' = [told EXCEPT ![s] = @ + 1]
       /\ Forget(s)
       /\ \/ /\ todo' = [todo EXCEPT ![t] = @ \ {s}]
             /\ UNCHANGED <<threads, strays>>
          \/ /\ ListenersThrow
             /\ todo' = [todo EXCEPT ![t] = {}]
             /\ strays' = strays \cup (todo[t] \ {s})
             /\ Goto(t, "idle")
  /\ UNCHANGED <<state, active, reason, timedOut, registered, wire, held,
                 together>>

DoNotWait(t)  == TRUE
AllTold(t)    == todo[t] = {}
Remember      == UNCHANGED registered
Unregister    == registered' = FALSE

DeleteSession(t) ==
  /\ pc[t] = "notify" /\ AllTold(t)
  /\ Unregister
  /\ Goto(t, AfterShutdown(t))
  /\ UNCHANGED <<state, active, reason, timedOut, sockets, members, wire,
                 held, notices>>

-----------------------------------------------------------------------------
\* Steps a thread takes on its own once it has been given work.
Step(t) ==
  \/ WriteClosing(t) \/ WriteReason(t)
  \/ OnShutdown(t) \/ CheckClosed(t) \/ MarkClosed(t)
  \/ Notify(t) \/ DeleteSession(t)

WorkerStep(w) ==
  \/ Handshake(w) \/ ConnectCas(w) \/ ConnectCreate(w) \/ ConnectPut(w)
  \/ ConnectSend(w) \/ ConnectReady(w) \/ ConnectListen(w) \/ ConnectReject(w)
  \/ NsInvalid(w) \/ NsConnect(w) \/ NsPut(w) \/ NsSend(w) \/ NsListen(w)
  \/ NsReject(w) \/ RemoteClose(w) \/ UpgradePacket(w) \/ OtherPacket(w)
  \/ Ping(w) \/ Pong(w) \/ Noop(w) \/ Disconnect(w) \/ CloseConnection(w)
  \/ AbortXHR(w) \/ AbortTomcat(w) \/ AbortWebSocket(w) \/ SetDone(w)

Request(w, c) == OpenFirst(w, c) \/ OpenUpgrade(w, c) \/ Receive(w, c)

Next ==
  \/ \E t \in Threads : Step(t)
  \/ \E w \in Workers : \/ WorkerStep(w)
                        \/ \E c \in Conns : Request(w, c)
                        \/ OnTimeout(w)
                        \/ \E b \in BOOLEAN : AppDisconnect(w, b)
  \/ AppEmit
  \/ \E c \in Conns : WebSocketClosed(c)

Spec == Init /\ [][Next]_vars

\* A thread that has started a call finishes it, and the container calls
\* onWebSocketClose after a disconnect().  No request, packet, timeout or
\* application call has to happen.
Fairness ==
  /\ \A w \in Workers : WF_vars(Step(w) \/ WorkerStep(w))
  /\ \A c \in Conns : WF_vars(Step(c) \/ (WebSocketClosed(c) /\ endpoint[c] # "open"))

FairSpec == Spec /\ Fairness

-----------------------------------------------------------------------------
\* Properties.

Owed == UNION {todo[t] : t \in Passing}

Making == UNION {created[w] : w \in Workers}

\* The disconnect listeners of a socket are called at most once, however many
\* threads close the session (Session.onDisconnect, "to prevent calling it
\* twice").
NotifiedOnce == \A s \in Sockets : told[s] <= 1

\* What the code does keep of that: a socket is told a second time only if two
\* threads were in onDisconnect together.  A pass that comes after another is
\* over tells nobody again, although a late CONNECTED or CLOSING written over
\* CLOSED lets it through the test, for what was told is no longer held.
ToldAgainOnlyTogether == NotifiedOnce \/ together

\* A namespace keeps no socket that its session has forgotten: a member is
\* held by the session, or about to be told, or about to be put, or was
\* replaced by a second CONNECT, or was put too late for the closing, or was
\* skipped by it when a listener threw.  Once the session is gone from the
\* manager none of those it held in time is left.
NoSilentLeak ==
  /\ members \subseteq sockets \cup Owed \cup Making \cup strays
  /\ ~registered /\ Passing = {} => members \subseteq Making \cup strays

\* onShutdown finds the initial reason UNKNOWN in a closing session only while
\* another thread is between the two writes of setDisconnectReason.
UnknownOnlyInWindow ==
  [][\A t \in Threads :
       pc[t] = "shutdown" /\ pc'[t] = "check" /\ call'[t].why = "UNKNOWN"
         => \E u \in Threads \ {t} : pc[u] = "reason2"]_vars

\* closeConnection on the active connection of a connected session "should
\* trigger onShutdown() eventually" (Session.closeConnection), which ends with
\* deleteSession.
ShutdownFollowsClose ==
  (\E w \in Workers : pc[w] = "close" /\ Conn(w) = active /\ state = "CONNECTED")
    ~> ~registered

\* While one onWebSocketClose() is the only way to onShutdown(), the session
\* keeps the promise of DisconnectContract.
SingleCallback ==
  /\ \A c \in Conns : Transport[c] # "tomcat"
  /\ \A c, d \in Conns : Transport[c] = "ws" /\ Transport[d] = "ws" => c = d

phase ==
  IF ~registered THEN "gone"
  ELSE IF Passing # {} THEN "closing"
  ELSE IF \E c \in Conns : pc[c] = "idle" THEN "stuck" ELSE "open"

Contract == INSTANCE DisconnectContract
              WITH times <- told, owed <- Owed

KeepsContract == Contract!Spec

\* A WebSocket whose endpoint was disconnected, by either side, takes its
\* session down.
BrokenSocketEndsSession ==
  \A c \in Conns : endpoint[c] \in {"broken", "null"} ~> ~registered
=============================================================================
