--------------------------- MODULE SessionMessages ---------------------------
(***************************************************************************)
(* Events, the binary attachments of those of the server, and their        *)
(* acknowledgements, between the server's Session and a Socket of the      *)
(* client, over one connection that keeps the order in each direction.     *)
(* What the client sends has no attachments here (BinaryAssembly has it);  *)
(* over polling, a POST has one packet (EngineIOPayload has several).      *)
(*                                                                         *)
(* A packet is sent as its header, in which the streams are replaced by    *)
(* numbered placeholders, and a message for each stream.  Each thread of   *)
(* the server that emits, and the one that reads, sends its messages one   *)
(* by one.  Of an argument of the server only the kind is kept:            *)
(*   "text"       has no stream and is neither a Map nor a Collection;     *)
(*   "null"       null, or an array with one;                              *)
(*   "stream"     an InputStream;                                          *)
(*   "list"       a Collection with a stream;                              *)
(*   "map"        a Map without streams;                                   *)
(*   "streamMap"  a Map with a stream.                                     *)
(***************************************************************************)
EXTENDS Naturals, Sequences, FiniteSets

CONSTANTS
  Transport,    \* "polling" or "websocket"
  Threads,      \* threads of the server that emit; each emits one event
  Reader,       \* the one that reads
  Args,         \* Args[t]: the arguments of the event of t
  MaxUp,        \* bound: events of the client
  ServerAnswers \* ServerAnswers[k]: what the listener of the k-th returns

Kinds    == {"text", "null", "stream", "list", "map", "streamMap"}
UpEvents == 1 .. MaxUp

ASSUME MessagesAssumption ==
  /\ Transport \in {"polling", "websocket"}
  /\ Reader \notin Threads /\ MaxUp \in Nat
  /\ Args \in [Threads -> Seq(Kinds)] /\ ServerAnswers \in [UpEvents -> Seq(Kinds)]

None == [type |-> "none"]

VARIABLES
  open,       \* the session is CONNECTED and its connection works
  packetId,   \* Session.packetId
  pc, id,     \* for each thread: how far its emit is and its packet id
  listeners,  \* Session.ackListeners: pairs of an id and the thread that waits
  tasks,      \* ids whose expiry is scheduled
  out,        \* for each thread: the messages it has yet to send
  down, up,   \* messages under way to the client and to the server
  fetched,    \* the acknowledgement whose listener onACK has looked up
  calls,      \* the calls of ack listeners
  served,     \* the events of the client the server's listeners were told
  recon,      \* Decoder.reconstructor
  stuck,      \* an exception has left Polling.onData: the client polls no more
  connected,  \* Socket.connected
  receiveBuffer,
  got,        \* the events the client's listeners were told
  answered,   \* those whose ack callback was called
  emitted,    \* number of events of the client
  acks,       \* Socket.acks: the events that wait for an acknowledgement
  called,     \* the calls of the client's ack callbacks
  mixed       \* binary packets that two threads sent at a time

emitting  == <<packetId, pc, id, tasks>>
channels  == <<down, up>>
reading   == <<fetched, calls, served>>
application == <<connected, receiveBuffer, got, acks, called>>
client    == <<recon, stuck, application, answered, emitted>>
vars      == <<open, emitting, listeners, out, channels, reading, client, mixed>>

-----------------------------------------------------------------------------
\* Packets and messages.

Buffer(type, of, i) == <<"buffer", type, of, i>>

\* hasBinary: it looks into arrays and Maps, not into Collections.
HasBinary(args) == \E i \in DOMAIN args : args[i] \in {"stream", "streamMap"}

\* hasBinary, or extractBinaryObjects where a stream came first, calls a method
\* of null.
Accepted(args) == \A i \in DOMAIN args : args[i] # "null"

\* extractBinaryObjects finds a stream and those of a Collection; of a Map it
\* copies the entries in place of the values.
Extracted(args)  == {i \in DOMAIN args : args[i] \in {"stream", "list"}}
Num(args, i)     == Cardinality({j \in Extracted(args) : j < i})

Extract(args) ==
  [i \in DOMAIN args |->
     CASE i \in Extracted(args) -> <<"placeholder", Num(args, i)>>
       [] args[i] \in {"map", "streamMap"} -> <<"entries">>
       [] OTHER -> <<args[i]>>]

\* toJSON writes a stream as an object without its bytes (FAIL_ON_EMPTY_BEANS is
\* off).
ToJSON(args) ==
  [i \in DOMAIN args |-> IF args[i] = "list" THEN <<"emptied">> ELSE <<args[i]>>]

\* createEventPacket, createACKPacket.
Packet(type, of, n, args) ==
  [type |-> type, of |-> of, n |-> n, bin |-> HasBinary(args),
   attachments |-> IF HasBinary(args) THEN Cardinality(Extracted(args)) ELSE 0,
   data |-> IF HasBinary(args) THEN Extract(args) ELSE ToJSON(args)]

BareHeader(p) == <<p>>

\* The messages of a packet.
Wire(p) ==
  <<p>> \o [i \in 1 .. p.attachments |->
              [type |-> "binary", buffer |-> Buffer(p.type, p.of, i - 1)]]

\* No acknowledgement is sent where its creation threw (caught in onEvent).
ServerWire(type, of, n, args) ==
  IF Accepted(args) THEN Wire(Packet(type, of, n, args)) ELSE <<>>

\* The data of a packet with its streams in their places.
Whole(type, of, args) ==
  [i \in DOMAIN args |-> IF i \in Extracted(args) THEN Buffer(type, of, Num(args, i))
                                                  ELSE <<args[i]>>]

-----------------------------------------------------------------------------
\* A stream of the packet type and of, and what an argument becomes.
Sources      == Threads \cup UpEvents
Buffers      == {"buffer"} \X {"event", "ack"} \X Sources \X Nat
Placeholders == {"placeholder"} \X Nat
Told         == {<<k>> : k \in Kinds \cup {"entries", "emptied"}} \cup Buffers
Packets == [type : {"connect", "event", "ack"}, of : Sources \cup {Reader}, n : Nat,
            bin : BOOLEAN, attachments : Nat, data : Seq(Told \cup Placeholders)]
Messages == Packets \cup [type : {"binary"}, buffer : Buffers]
Requests == [type : {"event"}, of : UpEvents, n : Nat] \cup [type : {"ack"}, of : Threads, n : Nat]
Events   == [of : Sources, n : Nat, data : Seq(Told)]

TypeOK ==
  /\ open \in BOOLEAN /\ connected \in BOOLEAN /\ stuck \in BOOLEAN
  /\ packetId \in Nat /\ id \in [Threads -> Nat]
  /\ pc \in [Threads -> {"idle", "numbered", "sent", "thrown"}]
  /\ listeners \subseteq Nat \X Threads /\ tasks \subseteq Nat
  /\ out \in [Threads \cup {Reader} -> Seq(Messages)]
  /\ down \in Seq(Messages) /\ up \in Seq(Requests)
  /\ fetched \in {None} \cup [type : {"ack"}, n : Nat, of : Threads, waits : SUBSET Threads]
  /\ calls \in Seq([waits : Threads, of : Threads]) /\ served \subseteq UpEvents
  /\ recon \in {None} \cup [type : {"recon"}, packet : Packets, buffers : Seq(Buffers)]
  /\ receiveBuffer \in Seq(Events) /\ got \in Seq(Events) /\ called \in Seq(Events)
  /\ answered \subseteq DOMAIN got /\ emitted \in 0 .. MaxUp /\ acks \subseteq Nat
  /\ mixed \subseteq {"event", "ack"} \X Sources

ConnectPacket ==
  [type |-> "connect", of |-> Reader, n |-> 0, bin |-> FALSE, attachments |-> 0, data |-> <<>>]

\* The socket is in the namespace, CONNECT is about to be sent.
Init ==
  /\ open = TRUE /\ packetId = 0 /\ listeners = {} /\ tasks = {}
  /\ pc = [t \in Threads |-> "idle"] /\ id = [t \in Threads |-> 0]
  /\ out = [t \in Threads \cup {Reader} |-> IF t = Reader THEN <<ConnectPacket>> ELSE <<>>]
  /\ down = <<>> /\ up = <<>>
  /\ fetched = None /\ calls = <<>> /\ served = {}
  /\ recon = None /\ stuck = FALSE /\ connected = FALSE /\ receiveBuffer = <<>> /\ got = <<>>
  /\ answered = {} /\ emitted = 0 /\ acks = {} /\ called = <<>> /\ mixed = {}

-----------------------------------------------------------------------------
\* The server sends.

ReusesId(t) ==
  /\ pc[t] = "idle" /\ open
  /\ packetId' = 1
  /\ id' = [id EXCEPT ![t] = 1]
  /\ pc' = [pc EXCEPT ![t] = "numbered"]
  /\ UNCHANGED <<open, listeners, tasks, out, channels, reading, client, mixed>>

\* getNewPacketId, in emit.
GetNewPacketId(t) ==
  /\ pc[t] = "idle" /\ open
  /\ packetId' = packetId + 1
  /\ id' = [id EXCEPT ![t] = packetId + 1]
  /\ pc' = [pc EXCEPT ![t] = "numbered"]
  /\ UNCHANGED <<open, listeners, tasks, out, channels, reading, client, mixed>>

\* createEventPacket, the next step, throws a NullPointerException.
EmitThrows(t) ==
  /\ pc[t] = "numbered" /\ ~Accepted(Args[t])
  /\ pc' = [pc EXCEPT ![t] = "thrown"]
  /\ UNCHANGED <<open, packetId, id, tasks, listeners, out, channels, reading, client, mixed>>

\* subscribeACK, before the packet is sent.
SubscribeACK(t) ==
  /\ pc[t] = "numbered" /\ Accepted(Args[t])
  /\ listeners' = {l \in listeners : l[1] # id[t]} \cup {<<id[t], t>>}
  /\ tasks' = tasks \cup {id[t]}
  /\ out' = [out EXCEPT ![t] = ServerWire("event", t, id[t], Args[t])]
  /\ pc' = [pc EXCEPT ![t] = "sent"]
  /\ UNCHANGED <<open, packetId, id, channels, reading, client, mixed>>

\* One message of send().  The header of a binary packet mixes with the packets
\* of which attachments are outstanding.
Send(t) ==
  /\ out[t] # <<>>
  /\ down' = Append(down, Head(out[t]))
  /\ out' = [out EXCEPT ![t] = Tail(@)]
  /\ LET m      == Head(out[t])
         others == {u \in DOMAIN out \ {t} : out[u] # <<>> /\ Head(out[u]).type = "binary"}
     IN mixed' = IF m.type = "binary" \/ ~m.bin \/ others = {} THEN mixed
                 ELSE mixed \cup {<<m.type, m.of>>}
                        \cup {<<Head(out[u]).buffer[2], Head(out[u]).buffer[3]>> : u \in others}
  /\ UNCHANGED <<open, emitting, listeners, up, reading, client>>

\* Once the connection is broken a send throws.
SendFails(t) ==
  /\ out[t] # <<>> /\ ~open
  /\ out' = [out EXCEPT ![t] = <<>>]
  /\ UNCHANGED <<open, emitting, listeners, channels, reading, client, mixed>>

\* The task of subscribeACK, which nobody cancels.
Expire ==
  \E n \in tasks :
    /\ tasks' = tasks \ {n}
    /\ listeners' = {l \in listeners : l[1] # n}
    /\ UNCHANGED <<open, packetId, pc, id, out, channels, reading, client, mixed>>

\* The session is closed or its connection breaks.
Break ==
  /\ open /\ open' = FALSE
  /\ UNCHANGED <<emitting, listeners, out, channels, reading, client, mixed>>

-----------------------------------------------------------------------------
\* The server reads.

\* onEvent: the listener, then its acknowledgement.
OnEvent(m) ==
  /\ served' = served \cup {m.of}
  /\ out' = [out EXCEPT ![Reader] = ServerWire("ack", m.of, m.n, ServerAnswers[m.of])]
  /\ UNCHANGED <<fetched, calls>>

\* onACK, up to the look-up of the listener.
OnACK(m) ==
  /\ fetched' = [type |-> "ack", n |-> m.n, of |-> m.of,
                 waits |-> {l[2] : l \in {x \in listeners : x[1] = m.n}}]
  /\ UNCHANGED <<served, calls, out>>

\* onPacket: nothing is told once the session is not CONNECTED.
OnPacket(m) ==
  CASE open /\ m.type = "event" -> OnEvent(m)
    [] open /\ m.type = "ack"   -> OnACK(m)
    [] OTHER -> UNCHANGED <<served, out, fetched, calls>>

Read ==
  /\ out[Reader] = <<>> /\ fetched = None /\ up # <<>>
  /\ up' = Tail(up) /\ OnPacket(Head(up))
  /\ UNCHANGED <<open, emitting, listeners, down, client, mixed>>

\* The rest of onACK: unsubscribeACK and the call of the listener.
CallACKListener ==
  /\ fetched # None /\ fetched' = None
  /\ listeners' = {l \in listeners : l[1] # fetched.n}
  /\ calls' = IF fetched.waits = {} THEN calls
              ELSE Append(calls, [waits |-> CHOOSE t \in fetched.waits : TRUE,
                                  of |-> fetched.of])
  /\ UNCHANGED <<open, emitting, out, channels, served, client, mixed>>

-----------------------------------------------------------------------------
\* The client.

\* Socket.onconnect, onevent and onack.
OnDecoded(p, data) ==
  LET e == [of |-> p.of, n |-> p.n, data |-> data] IN
  CASE p.type = "connect" ->
         /\ connected' = TRUE
         /\ got' = got \o receiveBuffer /\ receiveBuffer' = <<>>
         /\ UNCHANGED <<acks, called>>
    [] p.type = "event" /\ connected ->
         got' = Append(got, e) /\ UNCHANGED <<connected, receiveBuffer, acks, called>>
    [] p.type = "event" /\ ~connected ->
         receiveBuffer' = Append(receiveBuffer, e) /\ UNCHANGED <<connected, got, acks, called>>
    [] p.type = "ack" ->
         /\ called' = IF p.n \in acks THEN Append(called, e) ELSE called
         /\ acks' = acks \ {p.n}
         /\ UNCHANGED <<connected, got, receiveBuffer>>

AlwaysFirst(data, buffers) ==
  [i \in DOMAIN data |-> IF data[i][1] = "placeholder" THEN buffers[1] ELSE data[i]]

\* reconstructPacket.
Reconstruct(data, buffers) ==
  [i \in DOMAIN data |-> IF data[i][1] = "placeholder" THEN buffers[data[i][2] + 1]
                                                       ELSE data[i]]

\* takeBinaryData.  An attachment that no packet waits for throws: over polling
\* the exception leaves onData, which neither reads on nor polls again.
TakeBinaryData(buffer) ==
  IF recon = None
  THEN stuck' = (Transport = "polling") /\ UNCHANGED <<recon, application>>
  ELSE LET buffers == Append(recon.buffers, buffer) IN
       /\ stuck' = stuck
       /\ IF Len(buffers) = recon.packet.attachments
          THEN recon' = None /\ OnDecoded(recon.packet, Reconstruct(recon.packet.data, buffers))
          ELSE recon' = [recon EXCEPT !.buffers = buffers] /\ UNCHANGED application

ForgetsAttachments(m) == UNCHANGED <<recon, stuck>> /\ OnDecoded(m, m.data)

\* A binary header starts a new reconstruction, whatever became of the last one,
\* and is told at once if there is nothing to wait for.
DecodeString(m) ==
  /\ stuck' = stuck
  /\ recon' = IF m.bin THEN [type |-> "recon", packet |-> m, buffers |-> <<>>] ELSE recon
  /\ IF m.attachments = 0 THEN OnDecoded(m, m.data) ELSE UNCHANGED application

\* Decoder.add.
DecoderAdd ==
  /\ down # <<>> /\ ~stuck /\ down' = Tail(down)
  /\ LET m == Head(down) IN
     IF m.type = "binary" THEN TakeBinaryData(m.buffer) ELSE DecodeString(m)
  /\ UNCHANGED <<open, emitting, listeners, out, up, reading, answered, emitted, mixed>>

\* The callback of Socket.ack: it answers once.
Ack ==
  \E i \in DOMAIN got \ answered :
    /\ answered' = answered \cup {i}
    /\ up' = Append(up, [type |-> "ack", of |-> got[i].of, n |-> got[i].n])
    /\ UNCHANGED <<open, emitting, listeners, out, down, reading, recon, stuck, application,
                   emitted, mixed>>

\* Socket.emit with an ack callback.
ClientEmit ==
  /\ connected /\ emitted < MaxUp
  /\ emitted' = emitted + 1 /\ acks' = acks \cup {emitted}
  /\ up' = Append(up, [type |-> "event", of |-> emitted + 1, n |-> emitted])
  /\ UNCHANGED <<open, emitting, listeners, out, down, reading, recon, stuck, connected,
                 receiveBuffer, got, answered, called, mixed>>

-----------------------------------------------------------------------------
Server ==
  \/ \E t \in Threads : GetNewPacketId(t) \/ EmitThrows(t) \/ SubscribeACK(t)
  \/ \E t \in Threads \cup {Reader} : Send(t) \/ SendFails(t)
  \/ Read \/ CallACKListener \/ Expire \/ Break

Next == Server \/ DecoderAdd \/ Ack \/ ClientEmit
Spec == Init /\ [][Next]_vars

-----------------------------------------------------------------------------
\* Properties.

Occurs(e, s) == \E i \in DOMAIN s : s[i].of = e
Distinct(s)  == \A i, j \in DOMAIN s : i # j => s[i].of # s[j].of

\* The arguments arrive as they were given: extractBinaryObjects has Maps wrong,
\* and hasBinary does not see the streams of a Collection.
Faithful(args) ==
  \A i \in DOMAIN args : args[i] \notin IF HasBinary(args) THEN {"map", "streamMap"} ELSE {"list"}

\* An ack listener is called at most once, with the answer the client's
\* application gave to the event the listener was emitted with, whatever other
\* threads emit, whose emit throws, and whenever the expiry task runs.
AckMatches ==
  /\ \A i, j \in DOMAIN calls : i # j => calls[i].waits # calls[j].waits
  /\ \A i \in DOMAIN calls : calls[i].of = calls[i].waits

\* The client's listeners and callbacks are told each packet once, with its own
\* streams.  Except: binary packets that two threads of the server send at a
\* time, as send() is not atomic.
DownIntact ==
  /\ Distinct(got \o receiveBuffer) /\ Distinct(called)
  /\ \A i \in DOMAIN got : LET e == got[i] IN
       Faithful(Args[e.of]) /\ <<"event", e.of>> \notin mixed
         => e.data = Whole("event", e.of, Args[e.of])
  /\ \A i \in DOMAIN called : LET e == called[i] IN
       Faithful(ServerAnswers[e.of]) /\ <<"ack", e.of>> \notin mixed
         => e.of = e.n + 1 /\ e.data = Whole("ack", e.of, ServerAnswers[e.of])

\* When nothing is under way, the client was told every event that was sent and
\* every answer that could be made.  Except: those of which another thread's
\* binary header came in between.  The client stops polling for no other reason.
EachArrives ==
  /\ stuck => mixed # {}
  /\ open /\ down = <<>> /\ (\A t \in DOMAIN out : out[t] = <<>>) =>
       /\ \A t \in Threads : pc[t] = "sent" => Occurs(t, got) \/ <<"event", t>> \in mixed
       /\ \A k \in served :
            Accepted(ServerAnswers[k]) => Occurs(k, called) \/ <<"ack", k>> \in mixed
=============================================================================
