# Verification of socket.io-server-java

TLA+ specifications of this Socket.IO 1.x server (Java, servlet based, with
extensions for Jetty and Tomcat) and of the client it bundles
(`js/socket.io.js`), their TLC configurations, and TLAPS proofs about them.

`tlc -workers 2 -config SessionWebSocket.cfg MCSessionLifecycle.tla` checks one
run; `tlapm SessionLifecycleProofs.tla` checks the proofs of a module. The list
of runs, mutated operators and source lines is in `PROJECT.json`.

## 1. Inventory

Paths are below `core/src/main/java/org/kgusarov/socketio/core` unless they say
otherwise.

| Component | State | Operations | Interacts with |
|---|---|---|---|
| Session (`server/impl/Session`) | state, active connection, reason, message, timeout value and task, timedOut, binary packet slot, ack listeners, sockets | onConnect, onPacket, closeConnection, setDisconnectReason, onShutdown, onTimeout, resetTimeout, subscribeACK, onBinary | called by connections, timers and the application; calls namespaces, sockets, manager, connection |
| Polling connection (`server/transport/connection/XHRTransportConnection`; Tomcat subclass in `extensions/tomcat`) | packet queue, done flag | handle (GET, POST), send, abort | GET and POST request threads, sending threads, session |
| WebSocket connection (`extensions/jetty/.../JettyWebSocketTransportConnection`) | remote endpoint (plain field) | onWebSocketConnect/Close/Text/Binary, send, abort | Jetty callbacks, session |
| HTTP transports (`server/transport/AbstractHttpTransport`, `AbstractTransport`, `AbstractTransportProvider`) | transports by type | handle, getConnection, handleConnect | servlet, manager, session |
| Connection base (`server/transport/connection/AbstractTransportConnection`) | config, session, request | disconnect, emit | Socket, session |
| Namespace, Room, Socket (`server/impl`) | concurrent sets of sockets, rooms, listeners | createSocket, onConnect, onDisconnect, emit, broadcast, join, leave | session, application |
| Manager (`server/impl/SocketIOManager`), servlet | sessions, namespaces, executor | createSession, getSession, deleteSession, createNamespace, namespace | everything |
| Engine.IO codec (`protocol/EngineIOProtocol`) | none | encode, decode, payloads | connections |
| Socket.IO codec (`protocol/SocketIOProtocol`, `packets`) | none (a binary packet under assembly collects attachments) | decode, encode, extractBinaryObjects, insertBinaryObject | session |
| Client: Engine.IO socket and transports (`js/socket.io.js`) | readyState, transport, upgrading, write buffer, requests under way | open, probe, write, flush, close, packets, timers | server's connections, Manager |
| Client: Manager and Sockets (`js/socket.io.js`) | readyState, engine, reconnection attempts and timer, buffers, connected sockets | open, reconnect, close, packet, connect, disconnect, emit | Engine.IO socket, application |
| Client: encoder and decoder (`js/socket.io.js`) | packet under reconstruction, ack callbacks | encode, Decoder.add, ack | Manager, Sockets |

No component takes a lock: every field of the session is an atomic or a
concurrent map, read and written step by step by request threads, WebSocket
callbacks, executor threads and application threads. What is hard follows from
that.

* **Concurrency.** Test-then-set sequences (closing twice, `timedOut`, timer
  replacement, `namespace()`), two fields written one after the other (CLOSING,
  then the reason), iteration over a copy of the sockets while CONNECT packets
  add more, several senders and several GET requests on one queue.
* **Order.** A binary message is several packets; the upgrade switches the
  active connection while the queue of the old one still holds packets; a
  refusal is queued right before the connection is torn down; the answer to the
  probe, the forced NOOP and a GET that times out race each other.
* **Failure.** A send may fail or meet an endpoint that is already null, a
  response may be cut off, a listener may throw in the middle of a loop.
* **Liveness.** A session disappears only if its transport calls
  `onShutdown()`; a GET waits in `take()` until somebody wakes it; the client
  reconnects from a timer that other calls cancel.

What makes each component correct:

* Session: its disconnect listeners are called once per socket, before the
  session leaves the manager, with the right reason; a session that was asked
  to close is removed; no namespace keeps a socket nobody will remove.
* Polling connection: packets reach a client in order, without a gap or a
  duplicate, and are lost only when the connection is torn down or a response
  fails; tearing down ends the waiting request; a refusal should reach the client
  (section 4 says why it does not).
* Timer: a session that gets packets in time is not timed out; one that gets
  none is; at most one timeout closes it.
* Acknowledgements: a listener is called at most once, with the answer to its
  own event; a listener that expired is not called unless its answer had been
  looked up before.
* Upgrade: what both applications send arrives in order across the change of
  the transport, and an upgrade ends.
* Client Manager: a client that lost its connection goes on trying until it is
  told to stop or gives up; it has one engine at a time; events leave in order.
* Namespaces and rooms: emit reaches the members, one broken member does not
  hide the others, a disconnected socket is in no room.
* Codecs: what is encoded is decoded to the same packets, several packets in
  one payload included; attachments return to their placeholders.

## 2. Modules

In the order they were written.

1. **SessionLifecycle**, with the abstract **DisconnectContract** it
   implements, `MCSessionLifecycle`, and **SessionLifecycleProofs**.
2. **PollingConnection**, `MCPollingConnection`, **PollingConnectionProofs**.
3. **SessionTimer**, **SessionTimerProofs**.
4. **NamespaceRooms**, `MCNamespaceRooms`, **NamespaceRoomsProofs**.
5. **EngineIOPayload**, `MCEngineIOPayload`, **EngineIOPayloadProofs**.
6. **Upgrade**, **UpgradeProofs**: the two ends of a connection together, from the
   handshake to the change of the transport and the end of the session.
7. **ClientManager**, **ClientManagerProofs**: the client above its engine.
8. **SessionMessages**, `MCSessionMessages`, **SessionMessagesProofs**: events,
   attachments and acknowledgements between the session and a client's Socket.
9. **BinaryAssembly**, `MCBinaryAssembly`: how the session puts a client's packet
   and its attachments together, on several threads of the container.

Upgrade composes the server's two connections with the client's engine;
ClientManager takes such an engine as something that opens, fails and closes;
SessionMessages takes the connection as two channels that keep the order, which
is what Upgrade's OrderUp and OrderDown say of it. Runs stay small (two threads,
one or two connections, up to three sockets or messages), because each hazard
of the list in `PROJECT.json` needs at most two concurrent calls and one more
object to be confused with.

## 3. SessionLifecycle

One session. `state`, `active`, `reason`, `timedOut`, `sockets` are the fields
of `Session`; `members` is the union of the socket sets of its namespaces;
`registered` says whether the manager still has it; `endpoint` and `done` are
the fields of its connections. Threads have a program counter: a **worker**
runs any request, packet, timer or application call, and the thread named after
a connection runs the single `onWebSocketClose` that Jetty makes for it. A step
is one access to a field that another thread uses.

| Code | Actions |
|---|---|
| `AbstractTransport.getConnection`, `handleConnect`, `onWebSocketConnect` | OpenFirst, OpenUpgrade, Handshake |
| `Session.onConnect` | ConnectCas, ConnectCreate, ConnectPut, ConnectSend, ConnectReady, ConnectListen, ConnectReject |
| `AbstractHttpTransport.handle`, `onWebSocketText`, up to `onPacket` | Receive |
| `Session.connect`, `invokeOnConnectOnNamespace` | NsInvalid, NsConnect, NsPut, NsSend, NsListen, NsReject |
| `Session.onPacket`: CLOSE, DISCONNECT, UPGRADE, PING, the others | RemoteClose, UpgradePacket, Ping, Pong, Noop, OtherPacket |
| `AbstractTransportConnection.emit` | AppEmit |
| `Session.onTimeout`, `Socket.disconnect`, `AbstractTransportConnection.disconnect` | OnTimeout, AppDisconnect, Disconnect |
| `closeConnection`, `setDisconnectReason` | CloseConnection, WriteClosing, WriteReason |
| `abort()` of the three connections | AbortXHR; AbortTomcat and SetDone; AbortWebSocket |
| `onWebSocketClose`, `onShutdown`, `onDisconnect` | WebSocketClosed, OnShutdown, CheckClosed, MarkClosed, Notify, DeleteSession |

`connection.send` has the outcomes SendOk, SendFail (closed endpoint or
IOException, after which the endpoint is disconnected) and SendNull (the
endpoint is null after `abort()`, the NullPointerException leaves every caller
to the container). `IsActive` keeps the comparison of `closeConnection` as it
is written: the reference object with a connection.

That a request is admitted (`CanReceive`) and what its packet does are two steps:
a CONNECT that was admitted in time goes on beside an `onDisconnect`. `createSocket`
is two steps as well: the Socket joins its namespace (MakeSocket), then the map of
the session (PutSocket), where it may replace another. A POST is admitted in
CONNECTING too, and, after the upgrade, on a fresh polling connection that the
transport makes for it; a POST of several packets is several workers that were
admitted together.

History variables record what properties speak of: `told` (how often each
socket's listeners were called), `strays` (sockets that `onDisconnect` can no
longer reach: replaced by a second CONNECT, put while it iterates or afterwards,
or skipped because a listener threw) and `together` (two threads were in
`onDisconnect` at a time).

Abstractions. Packet contents other than what makes the session act; text and
message of the disconnect; acknowledgements (SessionMessages) and binary assembly
(BinaryAssembly). The timer object (SessionTimer): once a polling connection has
stored a timeout and a packet has scheduled it, `OnTimeout` may happen at any
time, for nothing disarms it here (`clearTimeout` may miss a task); its test and write of `timedOut` are one step. The write of CLOSED
and the copy of the sockets are one step: nothing reads the sockets in between
without taking a step that commutes. Jetty runs the connect and text callbacks of one WebSocket
one after the other (`Busy`). A session gets at most one WebSocket unless a
configuration gives it more. The Tomcat servlet has no WebSocket transport
(`TomcatTransportProvider`), so a session with a `"tomcat"` connection is not
upgraded.

**DisconnectContract** is what an application may rely on: when the session
closes, a set of sockets is owed a notification; each is told once; then the
session disappears; a listener that throws leaves it stuck half way.
`KeepsContract` is `DisconnectContract!Spec` under the mapping `phase`, `Owed`
and `told`.

| Run | Instance | Shows |
|---|---|---|
| SessionWebSocket | one WebSocket, 2 Sockets of one namespace, 2 threads, fair | types; NoSilentLeak; UnknownOnlyInWindow; KeepsContract; ShutdownFollowsClose; BrokenSocketEndsSession |
| SessionServlets | Tomcat polling, or polling and WebSocket; 2 namespaces, 2 threads (symmetric), throwing listeners | ToldAgainOnlyTogether; NoSilentLeak |
| TomcatTwice | Tomcat polling, 1 socket, 2 threads | violated: NotifiedOnce |
| LiveXHR | polling, fair | violated: ShutdownFollowsClose |

In SessionServlets the first request decides which servlet it is. There the
listeners of the first of two sockets may throw, two threads may be in
`onDisconnect` (Tomcat), and a CONNECT may be in processing beside one of them.
Replacement by a second CONNECT happens in SessionWebSocket, so that each of the
ways in which a socket becomes a stray happens in one of the two. `NotifiedOnce`,
which a comment of `onDisconnect` promises, fails with two threads (TomcatTwice);
ToldAgainOnlyTogether says that nothing else breaks it: not a CLOSING or a
CONNECTED written over CLOSED, nor a second pass behind a first, because what was
told is no longer held.

The bounds are the constants themselves: the state space is finite because a
Socket object is created once and there are finitely many. Two threads beside
the close callback give every pair of racing calls; a third thread would only
repeat a role. The second namespace gives a socket that connects while the
others are told, two Socket objects of one namespace the repeated CONNECT.
In SessionServlets a session that began with a WebSocket may get the fresh polling
connection of a POST. A session with two WebSockets, where the close of the second
writes CLOSING over CLOSED, is left out of the runs by the constant `Conns`; the
theorem on ToldAgainOnlyTogether covers it. KeepsContract of a session that is
upgraded, and with listeners that throw, is a theorem (section 11).

Fairness: a thread that started a call goes on with it (`WF` of its steps: the
code has no lock and no wait in these methods), and Jetty calls
`onWebSocketClose` once an endpoint was disconnected. Nothing says that a
client, a timer or the application ever does anything. A session may stop
(no one uses it), so deadlock is not an error in these runs.

## 4. PollingConnection

The queue of a polling connection is the log `added` with the number `taken`,
so a packet is named by its position. GETs, senders and `abort()` calls are
threads.

| Code | Actions |
|---|---|
| `send(SocketIOPacket)`: message, then attachments | Send |
| `AbstractHttpTransport.handle`, `XHRTransportConnection.handle` | Get, Handle |
| `processOutbound`: take, loop, poll, flush | Take, CheckDone, Poll, Flush, Fail |
| `abort()`; the Tomcat one (`WakesPoller = FALSE`) | Abort, AddNoop |
| refusal in `Session.onConnect` | SendError, then Abort |

A response reaches the client whole or not at all; in the second case, and when
two GETs were under way at a time, `faults` remembers it.

The run Polling (XHR connection; 2 GETs that may overlap; 2 senders, one with an
attachment; a refusal with its `abort()`; fair) checks the types; OneFate;
LostOnlyAfterAbort; PrefixDelivered; AbortEndsGet; EverythingArrives.

Each message is sent once, so the log is bounded by the attachments plus one
NOOP per `abort()`. Two GETs and two senders are what it takes to split a
message between responses. Fairness: a running request, an `abort()` or a send
that has begun goes on, and the client polls again after a response; `take()`
on an empty queue is disabled and so may wait for ever.

Exceptions. With a response cut off a packet is lost, and with two GETs packets
overtake each other: PrefixDelivered and LostOnlyAfterAbort speak of behaviours
without. A refusal is queued right before `abort()`, so that no GET delivers
it; LostOnlyAfterAbort allows that loss. AbortEndsGet leaves out overlapping
GETs, because there is one NOOP: the second GET stays in `take()`. With
`WakesPoller = FALSE` it fails for one GET: the Tomcat `abort()` wakes nobody.
Attachments of two messages mix, because `send` adds header and attachments one
by one without a lock; what a client makes of that is in SessionMessages.

## 5. SessionTimer

`timeout`, `timeoutTask`, `timedOut` of `Session`; a call of `resetTimeout()`
or `clearTimeout()` has a program counter, and a reset shares its name with the
task it schedules. Each access to a field is a step. Cancelling a task that
runs already does not stop it.

| Code | Actions |
|---|---|
| `AbstractTransportConnection.init` | SetTimeout |
| `clearTimeout` | Call, GetTask, Cancel, SetNull |
| rest of `resetTimeout` | Test, Schedule, SetTask |
| the executor and `onTimeout` | Fire, Ignore, SeeNotYet, TimeOut |

The run SessionTimer (3 resets, 1 clear) checks NoOrphan;
LatestSurvives; SilentSessionTimesOut. Two resets overlap in every way and the
third is the packet that follows. Overlapping resets do leave a task behind that
nobody can cancel, and it may end an active session: NoOrphan therefore speaks
of calls that do not overlap (`overlapped`), and LatestSurvives says what is
left when they do. Delays are abstracted: a scheduled task may run at any time.
Fairness: a call goes on, and the executor runs what is due. When all calls
were made the behaviour ends, so deadlock is not an error.

## 6. NamespaceRooms

One namespace. `members` are the concurrent sets of sockets of the namespace
and of its rooms, `rooms` the map of rooms; a Room object is named by its id and
the thread that created it, so that two objects of one id can be told apart. A
thread makes one call at a time, and each access to a concurrent collection is
a step. `toVisit` and `toLeave` are what a loop has still to come across: an
element that is removed is not visited any more, one that is added may or may
not be, which is what the iterators of `ConcurrentHashMap` promise. Of the
session only what `emit` asks is kept: its state and its WebSocket endpoint.

| Code | Actions |
|---|---|
| `Session.createSocket`, `Namespace.createSocket` | CreateSocket |
| `Session` leaves CONNECTED; `abort()` or a broken endpoint | Close, LoseEndpoint |
| `Namespace.in`, `room` | UseRoom, Find, Create |
| `Room.join`, `leave` | Join, Leave |
| `leaveAll`, `Namespace.onDisconnect` | LeaveAll, OnDisconnect, LeaveRoom, RoomsLeft, Remove |
| `Namespace.emit`, `Room.emit`, `Room.broadcast` | UseNamespace, StartLoop, SkipSender, Emit, EmitClosed, EmitFails, EmitNull, EndLoop |

`owed` records the sockets that an emit has to reach: members and reachable
when it began, and still so. `strays` are sockets that joined a room while or
after their `onDisconnect` ran: nothing in the code stops them, so
DisconnectedIsGone is about the others. A broadcast ends at the first socket
that throws, as the code does, and an emit ends with a NullPointerException at a
WebSocket that `abort()` has torn down (`EmitNull`, nobody catches it);
EmitReachesAll speaks of emits that end as declared.

The run NamespaceRooms (two sockets, one of them polling, one room besides the
namespace's own set, two threads, threads symmetric) checks
EmitReachesAll, OneRoom and DisconnectedIsGone, and that nothing gets stuck.
Two threads are what a race for a room, or a join beside a disconnect, takes;
more sockets and rooms only add members that behave like these, and the proofs
cover them.

## 7. EngineIOPayload

A payload or a frame is encoded by one side and decoded by the other. `Init`
chooses the packets; each step decodes one packet at the position `pos` or stops.
Bytes are numbers, so that a length, a separator and data can be confused; texts
are code points, so that the length of a text and that of its bytes differ.
`PayloadAssumption` says what the client sends: of the types CLOSE, PING, MESSAGE
and UPGRADE only, and data with PING and MESSAGE only, which is all that the calls
of `sendPacket` and `send` in `js/socket.io.js` make.

| Code | Definitions |
|---|---|
| client `encodePayload`, `encodePayloadAsArrayBuffer`, `...AsBlob` | ClientText, ClientBinary |
| `EngineIOProtocol.binaryEncode`, `encodeLength` | BinaryEncode, EncodeLength |
| `decodePayload` | Text |
| `binaryDecodePayload` | Binary |
| client `decodePayloadAsBinary` | Response |
| client `encodePacket`, `decodePacket`; `EngineIOProtocol.encode`, `decode` | Frame, FrameArrives |
| client `utf8encode`, `utf8decode`; `getBytes` | UTF8, UTF8Decode |

The run Payloads (all lists of one or two packets, text and binary, both
directions, and frames of one) checks ServerIntact, SingleIntact and
FirstPacketRight.

The packets have texts that look like a header (`1:4`), the first and the last
characters of one to four bytes, data that contain the separator, digits as
bytes, and lengths on both sides of ten. Two packets are
enough to see whether the second one starts where the first one ends; a
length has two digits at most. A decoder stops, so deadlock is not an error.

A post of two packets is misread: the position behind a text packet is two
characters too far (`decodePayload` adds `idx + 1` to a position that has
advanced already), and `binaryDecodePayload` takes the marker of the second
packet for a digit of its length. What holds of posts is therefore stated for
single packets and for first packets; Upgrade has the consequence, a POST of two
packets that always fails.

A text that is posted is encoded as UTF-8 twice, by `encodePacket` and by the
request, and decoded once. Lengths agree, but each character beyond ASCII
arrives as the characters that stand for its bytes: `Received` says so, and a
commented-out line of `processInbound` would undo it. The same text arrives
intact in a frame of a WebSocket, and in both ways from the server.

## 8. Upgrade

The client's Engine.IO socket with both transports, and the server's session
with both connections. The client is one thread, so a callback is one step; its
state is one record and each of its functions an operator on records. The server
handles a request or a frame in one step (PollingConnection and SessionLifecycle
have what happens inside).

| Code | Definitions |
|---|---|
| `Socket.write`, `flush`, `onDrain`, `close`, `onClose`, `onPacket`, `onHandshake`, `onOpen`, `setPing`, `onHeartbeat` | SendPacket, Flush, OnDrain, CloseSocket, OnClose, OnPacket (OnPackets for a response), OnOpen, PingDue, PingTimeout |
| `Socket.probe` | WebSocketOpen, OnProbePong, OnPause, OnProbeError, Freeze |
| `Polling.onData`, `poll`, `pause`, `doClose`; `Request` | OnPollData, PauseIfIdle, GetDone, PostDone, RequestFailed |
| `WS.write`, `onData`, `onClose` | Write, FramesOut, Frame, WebSocketLost |
| `AbstractTransport.getConnection`, `handleConnect`, `XHRTransportConnection.handle` | Handshake, GetArrives, GetAnswered, PostArrives, ByeArrives |
| `Session.onConnect` | OnConnect |
| `Session.onPing`, `upgradeConnection`, `onEvent`; `onWebSocketText`, `onWebSocketClose` | OnPing, OnServerPacket, OnEvent, FrameArrives, WebSocketClosed |
| `Socket.emit`: read the active connection, send on it | EmitRead, EmitSend |
| `onTimeout`, `disconnect` up to `abort()` | Abort |

A WebSocket that the client lost or closed is `"closed"` until Jetty has called
`onWebSocketClose`, which it does once, and `"gone"` after that (`Hung` keeps it).
Requests and frames may take any time, a request or the WebSocket may fail
(RequestLost, WebSocketRefused, WebSocketLost), timers fire at any time once set.
The response with the session id leaves before `Session.onConnect`: in between
(`"opening"`) the client may already poll, post and probe, and each of these
requests dies with a NullPointerException.

The run Upgrade (two messages up; CONNECT and one message down; up to two
sessions in a row) checks the types; OrderUp; OrderDown; UpgradeStalls;
NothingStranded. Two messages up are what it takes to have one written before
and one during the upgrade, or two in one POST; the second session is the one a
GET gets that names a deleted session. Any step may be the last, so deadlock is
not an error.

What the model shows beside the properties, each of them an exception in one:

* OrderDown: a message that is queued on the polling connection after its last
  GET stays there, `upgradeConnection` does not move it, and later messages
  arrive on the WebSocket: a gap.
* OrderUp: a POST to a connection that `abort()` has marked as done is answered
  "ok" and its message dropped.
* UpgradeStalls: `forcePollingCycle` sends one NOOP. If the GET's answer with
  it overtakes the PONG, the client polls once more before it pauses, and
  nobody ends that GET: the upgrade waits until the ping timeout, because the
  PING is held back as well. If the probe fails after its PONG, `upgrading` is
  never reset and nothing is written any more.
* A POST of several packets always fails (section 7), so a client that buffers
  two packets while a POST is under way loses its connection.
* A GET or POST that names a deleted session gets a new one.
* A client that polls before `onConnect` has set the active connection loses its
  engine, and the server keeps the session.
* `disconnect()` that races the UPGRADE packet closes the polling connection but
  leaves the WebSocket of a CLOSING session, which goes on answering PINGs.

## 9. ClientManager

The Manager of the bundled client and its Sockets, above engines that open, fail
and close. Again one thread, one record, an operator for each function. `subs`
are the listeners that are registered with an engine.

| Code | Definitions |
|---|---|
| `Manager.open`, its `open`, `error` and timeout listeners | Open, OnOpen, ConnectError, ConnectTimeout |
| `Manager.onopen`, `onclose`, `cleanup`, `close`, `destroy`, `reconnect` | OnOpen, OnClose, Cleanup, Close, Destroy, Reconnect, ReconnectTimer |
| `Manager.packet`, `processPacketQueue`, the encoder's callback | WritePacket, ProcessPacketQueue, Encoded |
| `Socket.connect`, `disconnect`, `emit`, `onopen`, `onconnect`, `ondisconnect` | Connect, Disconnect, Emit, SocketsOpen, OnConnect, ServerConnects, ServerDisconnects |
| the engine | EngineOpens, EngineFails, EngineClosed, EngineClose, Drained |

The run ClientReconnect (two namespaces, two attempts, two events of which one
carries a Blob, one packet waiting for an encoding) checks the types;
KeepsTrying; NoOrphan; InOrder; and, under fairness of the two timers,
LoopEnds. Two attempts are enough for a first, a repeated and a last one.
`MaxQueue` bounds how often an application calls `connect()` while a Blob is
being read. Fairness: JavaScript runs a timer that is due; the timer of
`open()` is set, as by default. Nothing is assumed of the network or the
application. With unlimited attempts (the default) reconnecting need not end,
which is why the constant is finite.

The exceptions (`history`), each of which TLC needs:

* `interfered`: `connect()` while a reconnection is due opens an engine; when
  that engine opens or fails, `cleanup` clears the timer, but `reconnecting`
  stays set and every later `reconnect()` returns at once: nobody tries again.
* `reopened`: `connect()` while the old engine still drains its buffer; its
  "close" event then takes the listeners off the new engine.
* `stale`: `cleanup` resets `encoding` while a Blob is being read; its packet
  goes to a later engine, in front of or behind others.
* `cutIn`: `onconnect` calls the "connect" listener before `emitBuffered`, so
  what it emits overtakes the buffered events.

## 10. SessionMessages and BinaryAssembly

**SessionMessages** has events, the attachments of those of the server, and
acknowledgements, between the session and a Socket of the client, over two
channels that keep the order. A packet is its header, with numbered placeholders
for its streams, and one message for each stream. Of an argument only the kind is
kept: text, null, stream, a Collection with a stream, a Map with or without one.

| Code | Definitions |
|---|---|
| `AbstractTransportConnection.emit`, `Session.getNewPacketId`, `subscribeACK` and its task | GetNewPacketId, EmitThrows, SubscribeACK, Expire |
| `SocketIOProtocol.hasBinary`, `extractBinaryObjects`, `createEventPacket`, `createACKPacket`, `toJSON` | HasBinary, Accepted, Extract, Packet, ToJSON |
| `send` of a packet and its attachments; a connection that breaks | Send, SendFails, Break |
| `Session.onPacket`, `onEvent`, `onACK` | Read, OnPacket, OnEvent, OnACK, CallACKListener |
| client `Decoder.add`, `BinaryReconstructor`, `reconstructPacket`; `Polling.onData` | DecoderAdd, DecodeString, TakeBinaryData, Reconstruct |
| client `Socket.emit`, `ack`, `onevent`, `onack`, `onconnect` | ClientEmit, Ack, OnDecoded |

On the server each thread that emits and the one that reads send message by
message; the look-up of an ack listener and its call are two steps, so that the
expiry task runs in between. Over polling a POST has one packet.

The run SessionMessages has three threads of the server over polling: one emits a
list and a stream, each with an attachment, one a Map with a stream (a header that
says 0 attachments) and a text, one a stream and a null, which `emit` refuses; and
two events of the client, answered with a stream and with a list. It checks the
types; AckMatches; DownIntact; EachArrives. Two threads are what it takes to mix
two packets, two streams to confuse them, two client events to confuse their
answers. An application need not do anything, so deadlock is not an error. Over a
WebSocket nothing stops the client's reading, which is a behaviour of polling
without its `stuck`; the theorems hold for both transports.

Exceptions and what they stand for:

* `mixed`: `send()` is not atomic. A header that comes in between a header and
  its attachments makes the client forget the first packet and put its streams
  into the second. The last attachments then have no packet: over a WebSocket
  each is an exception of its own, over polling the exception leaves
  `Polling.onData` before it has decoded the rest of the response or asked for
  the next one, and the client polls no more (`stuck`).
* `Faithful`: of a Map, `extractBinaryObjects` sends the list of its entries in
  place of the values, when some argument has a stream; a stream in such a Map is
  counted by `hasBinary` and not extracted, so that the packet may be a binary one
  with 0 attachments. `hasBinary` does not look into Collections: a stream in one,
  alone, goes out as the JSON of an object without properties, `{}`, because
  `FAIL_ON_EMPTY_BEANS` is off. Nothing throws, the bytes are just not sent.
* `Accepted`: a null argument makes `hasBinary` or `extractBinaryObjects` throw a
  NullPointerException. `emit` then has taken a packet id and subscribed nothing;
  an answer of a listener is dropped (`onEvent` catches everything), and the
  client's callback waits for ever.

**BinaryAssembly** is the other direction. Header frames are handled in order on
the thread that reads the connection. `onWebSocketBinary` takes an
`InputStream`, and Jetty 9.2 handles such a message on a thread of its executor
while it reads on; this is modelled from how `JettyWebSocketTransportConnection`
uses Jetty, which is not part of the repository. So the handlers of attachments
run beside one another and beside the headers that follow, on one slot
(`Session.binaryPacket`), on the arguments of the packet in it, and on an
unsynchronized list and counter. Each access is a step.

| Code | Definitions |
|---|---|
| client `Socket.emit`, `encodeAsBinary`, `deconstructPacket` | ClientSend, Wire, Deconstruct |
| `onWebSocketText`, `onWebSocketBinary` | OnText, OnBinaryFrame |
| `Session.onBinary` | FetchPacket, IsComplete, TellPacket, ClearSlot |
| `insertBinaryObject`, `isPlaceholder` | ReadArgs, InsertObject (Insert), SetArgs |
| `BinaryEventPacket`, `BinaryACKPacket`: constructor, `addAttachment` | NewPacket, AddAttachment |
| `onEvent`, `onACK` | Tell |

The run BinaryAssembly (a packet with a null and a stream, one with two streams
around a text, one without streams) checks the types; ToldIntact; EachTold.
`mixed` are the packets that were handled beside another frame with binary data:
of those nothing is promised: when the handlers of two attachments of one event run
beside one another, the later `setArgs` undoes the insertion of the other, both are
counted, and the listener is told a placeholder. A packet with a null
beside a stream is never told (`insertBinaryObject` throws on null), stays in the
slot, and the next header replaces it. That a handler sees what handlers that
ended before it have written is assumed, although the fields are not volatile; a
weaker memory only adds to the ways in which mixed packets go wrong.

## 11. Proofs

`SessionLifecycleProofs` proves for any sets of connections, sockets and
threads, from `ConnAssumption`:

* `TypeCorrect`: `Spec => []TypeOK`.
* `NothingLeaksSilently`: `Spec => []NoSilentLeak`. NoSilentLeak is not
  inductive: the strengthening `LeakInv` says where a thread that iterates in
  onDisconnect can be, that what it still owes are members, and that every
  session socket put after the copy was taken is already a stray, for CONNECT
  packets in processing at any point of the closing.
* `UnknownNeedsTheWindow`: `Spec => UnknownOnlyInWindow`, from `WindowInv`: in
  CLOSING the reason is UNKNOWN only if some thread is between the two writes.
  The window is real: a close callback that falls into it reports UNKNOWN.
* `SecondNotificationNeedsTwoPasses`: `Spec => []ToldAgainOnlyTogether`, for
  connections of any transport, two WebSockets included. While `together` is
  false one thread at most is between the test of CLOSED and the end of
  `onDisconnect`, and no socket that was told is held by the session, about to be
  put or told, or created again.
* `SessionKeepsContract`: under `SingleCallback` (no Tomcat connection and at most
  one WebSocket, so that one `onWebSocketClose` is the only way to `onShutdown`)
  every step maps to a step or a stutter of DisconnectContract. The invariant
  `ContractInv` says that only the closing thread of that WebSocket is past
  `onShutdown`, and that the sockets it owes have not been told. The hypothesis is
  needed: with a Tomcat connection TomcatTwice is a counterexample.

`PollingConnectionProofs` proves for any number of GETs, senders and aborts,
from `PollingAssumption`: `TypeCorrect`, `OneFateForEach`, `LossNeedsAbort`
and `PrefixForOneGet`, which speaks of behaviours without a fault (`faults = {}`). `HandInv` says at which labels a
GET holds a packet or a buffer; `PrefixInv` that the packet in its hand is the
last one taken, and that nothing is taken any more once a packet was lost.

`SessionTimerProofs` proves for any number of calls, from `TimerAssumption`:
`TypeCorrect`, `NoOrphanInTurn` and `OneTaskSurvives`. `OrphanInv` says which
tasks may be pending at each step of the one call under way; `LatestInv` that
only a reset which has not yet scheduled its own task can have cancelled the
latest one.

`NamespaceRoomsProofs` proves for any sockets, rooms and threads, from
`RoomsAssumption`: `TypeCorrect`, `OneRoomForAll`, `EmitCovers` and
`GoneForGood`. `CallInv` ties the label of a thread to the kind of its call and
the room it holds to the map, which never changes an entry; `EmitInv` says that what an emit still owes is a
subset of what it has still to visit and reachable; `GoneInv` says
that a socket whose disconnect is past a room, and that is no stray, is a member
only of rooms the disconnecting thread has still to visit.

`EngineIOPayloadProofs` proves for any packets, with data of any length, and any
number of them, from `PayloadAssumption`:

* `SymbolSurvives`: whichever character a text goes on with, the client's reader
  makes that character of the bytes its writer makes of it. `HasRead` says what a
  reader is behind a symbol; lemmas follow it from byte to byte.
* `TextSurvives`: so does a whole text, however long.
* `ServerIsIntact`, `SingleIsIntact` and `FirstIsRight`, the three properties of the
  run. `At(e, o)` says that the payload has the bytes `e` behind the position `o`,
  and `Parts(off)` that it is the encodings of its packets, one from each `off[i]`
  to the next. Of each way of encoding a lemma says what a decoder that stands in
  front of it reads (TextRead, BinaryRead, ResponseRead, FrameRead). The invariant
  `IInv`: a client that reads a response stands between two packets and has those
  before; the server has read nothing, or has the first packet as it was sent and,
  if there was no other, is at the end. From a second packet on nothing is said,
  for the decoders of the server misread it.

The loops of the codecs are folds and recursive functions (`DecodeSteps`,
`NumberSteps`, `DigitsOf`, `FlattenSteps`, `EncodedIs`). The library's induction
takes an operator, so these lemmas are proved from the least element of a set of
numbers instead: the set of the steps at which the claim fails has none. That a
recursive function exists at all is proved in the same way, as the least number
for which no function has the values up to it.

`UpgradeProofs` proves for any number of messages and sessions, from
`UpgradeAssumption`: `TypeCorrect`, `UpInOrder`, `DownInOrder`, `UpgradeWaits` and
`AllDelivered`, which are all the properties of its run. None of them is
inductive. `IInv` is about the two records and has these parts: `ClientShape` and
`Shape`, which states of requests, probe, WebSocket and session go together;
`UpOrder`, that what the server got, what is in a POST or a frame and what of the
write buffer was not sent follow each other; `UpGap`, that in the first session
these leave nothing out while nothing was lost; `DownOrder` and `DownGap`, the same
for what the server emits, where a gap lies on the queue that nobody polls after
the upgrade; `Waking`, that while the client waits for the end of a GET the NOOP for it is
under way, unless the PONG came first; `Flushed` and `Resumed`, that the client
leaves nothing undone that a callback should have done. Lemmas follow each function
of the client (`Flush`, `OnPacket`, `OnClose`, ...) on the parts it keeps; a
response is a fold over its packets, proved step by step as above.

`ClientManagerProofs` proves for any finite set of namespaces and any number of
attempts and events, from `ManagerAssumption`: `TypeCorrect`, `TriesOn`,
`NoneOrphaned` and `EventsInOrder`. `IInv` consists of `ClientType`;
`Control`: which listeners a Manager has in each state (`Listening`), that a
reconnection which is due has its timer or an engine (`Trying`), and that the other
engine is closed and silent (`Alone`, `Quiet`); `Ordered`: events written, being
encoded, waiting for the encoder, about to be written and waiting for their
Socket follow each other; and `Unbuffered`: a connected Socket keeps nothing back.
`Ordered` has the events about to be written as a parameter, because
`emitBuffered` and `processPacketQueue` write one after the other and the
invariant has to hold in between.

`SessionMessagesProofs` proves for any number of threads and client events, both
transports, and arguments of any length and kind, from `MessagesAssumption`:

* `TypeCorrect`. It needs `TypeInv`: the placeholders of a packet on its way are
  numbered like the attachments that follow it, or a listener could be given a
  placeholder.
* `AcksMatch`: `Spec => []AckMatches`. `IdInv` says that an id belongs to one
  thread, one whose emit threw included; `FlowInv` that wherever an event or an
  answer is - in a channel, under assembly, in the reader's hand - its id stands
  for its sender; `CallInv` that a thread with an id waits in the list, is in the
  reader's hand or was called.
* `DownstreamIntact` and `AllArrive`: `Spec => []DownIntact` and `Spec =>
  []EachArrives`, from one invariant (`DownInvariant`). `UpInv` says that each
  event of the client is served once, under its own number. The parts of `DownInv` follow a packet from
  the call of emit to the client's application. `OutInv`: a sender has left to
  send a packet from some message on, and two senders are both in the middle of
  a packet only if these were mixed. `ChainInv`: a mark says of which packet,
  and how many of its attachments, the client has when it has read so far; a
  packet that was not mixed has its next attachment behind its mark, with no
  other header with attachments in between, on the channel and at its sender.
  `PlaceInv`: each packet that was made is in exactly one of four places (at its
  sender, on the way, under assembly, with the application), unless it was mixed.
  `TellInv`: nothing is told twice, and nothing stays in
  `receiveBuffer` after CONNECT. `EventNumbers` and `AckNumbers`: the id of an
  answer finds the callback of its event. `ClientInv`: what the client has of a
  packet that was not mixed is its own.

The proofs found three things about the models. With "closed" alone for a
WebSocket that was lost, `onWebSocketClose` could be called twice and end a later
session; two guards of `WritePacket` overlapped; and what a client sends had to be
said (`PayloadAssumption`), because the server drops the data of other packets than
PING and MESSAGE.

Only model-checked: the liveness properties (ShutdownFollowsClose,
BrokenSocketEndsSession, AbortEndsGet, EverythingArrives, SilentSessionTimesOut,
LoopEnds), because the prover does not handle ENABLED and fairness. Every other
property that a passing run checks is a theorem, except those of BinaryAssembly;
KeepsContract is one under `SingleCallback`. The types of SessionTimer and
NamespaceRooms are proved and not checked by a run. The invariant of EngineIOPayload is proved and not
checked: it says that offsets exist, over which TLC cannot range.

## 12. Disagreements between code and comments

Two are runs that TLC ends with a counterexample; details and quoted lines are
in `PROJECT.json`.

* `onDisconnect` does not "prevent calling it twice": two threads pass its test
  together (TomcatTwice).
* Polling sessions outside Tomcat are never deleted (LiveXHR).

The others are in the models, as the code has them, and the properties except
them:

* `closeConnection` never stores the reason: it compares the AtomicReference with
  the connection (`IsActive`), so that "Remembers the disconnect reason"
  (`Session.java:412`) does not hold.
* An event with a stream inside a Collection is not sent as a binary event, as the
  comment of `createEventPacket` has it (`SocketIOProtocol.java:123-127`), and the
  stream is lost (`Faithful`).
* An event of the client with two attachments may be told with a placeholder,
  although `insertBinaryObject` "replaces it with attachment"
  (`SocketIOProtocol.java:328-330`; `mixed` of BinaryAssembly).

## 13. Not modelled

* Servlet and configuration: dispatch without state. One race is in it: two
  threads in `namespace()` may both create a Namespace, of which the map keeps
  one. A model of a look-up and an insertion would restate that sentence.
* The second handshake: within `onConnect`, between the `compareAndSet` and
  CONNECTED, a poll is handled by `handleConnect` again and answered with a second
  handshake packet, upon which the client probes a second time. Upgrade has the
  window before the `compareAndSet`, and an engine with one probe.
* Session ids and the maps of the manager; choice of the transport from the
  request's parameters; HTTP headers, content types, logging.
* JSON text: the kinds of SessionMessages and the texts of EngineIOPayload stand
  for it. Lone surrogates, which no text of a well-behaved application has.
* Client: JSONP and flash transports, `rememberUpgrade`, delays of the backoff,
  the parser of URIs, polyfills and debug output. The copy of the client below
  `samples` is the same program with other white space.
* The sample chat application: no state of the protocol.

`PROJECT.json` lists the hazards that remain without a property, with the reason.
