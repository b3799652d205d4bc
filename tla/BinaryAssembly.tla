---------------------------- MODULE BinaryAssembly ----------------------------
(***************************************************************************)
(* How the server puts together the client's packets with attachments over *)
(* the WebSocket of Jetty: the header goes to Session.binaryPacket, and    *)
(* each attachment is inserted in the packet that is there.                *)
(*                                                                         *)
(* The connection keeps the order of the frames.  onWebSocketText runs in  *)
(* that order on the thread that reads the connection; onWebSocketBinary   *)
(* takes an InputStream, so that Jetty 9.2 starts each call on a thread of *)
(* its executor and reads on.  A call sees what the calls that ended       *)
(* before it have written, although nothing in the code sees to it.        *)
(*                                                                         *)
(* A packet is an event or an acknowledgement; of an argument only the     *)
(* kind is kept: "text", "null" or "stream".                               *)
(***************************************************************************)
EXTENDS Integers, Sequences, FiniteSets

CONSTANT ClientArgs   \* ClientArgs[k]: the arguments of the k-th packet

Sent == DOMAIN ClientArgs

ASSUME AssemblyAssumption == ClientArgs \in Seq(Seq({"text", "null", "stream"}))

VARIABLES
  open,      \* the session is CONNECTED
  emitted,   \* number of packets the client has sent
  up,        \* frames under way to the server
  slot,      \* Session.binaryPacket: the number of a packet, 0 is null
  packets,   \* the BinaryPacket objects
  pc,        \* for each attachment: how far its handler is
  bp, copy,  \* the variables of onBinary and insertBinaryObject
  told,      \* the calls of listeners
  mixed      \* packets beside the handler of another frame with binary data

handlers == <<pc, bp, copy>>
vars     == <<open, emitted, up, slot, packets, handlers, told, mixed>>

-----------------------------------------------------------------------------
Streams(args) == {i \in DOMAIN args : args[i] = "stream"}
Num(args, i)  == Cardinality({j \in Streams(args) : j < i})
Amount(k)     == Cardinality(Streams(ClientArgs[k]))
Plain(k)      == Amount(k) = 0

Attachments == UNION {{k} \X (0 .. Amount(k) - 1) : k \in Sent}
Buffer(a)   == <<"buffer", a[1], a[2]>>

\* The data of a packet with placeholders, and with the streams in their places.
Deconstruct(args) ==
  [i \in DOMAIN args |-> IF args[i] = "stream" THEN <<"placeholder", Num(args, i)>>
                                               ELSE <<args[i]>>]
Whole(k) ==
  [i \in DOMAIN ClientArgs[k] |->
     IF i \in Streams(ClientArgs[k]) THEN Buffer(<<k, Num(ClientArgs[k], i)>>)
                                     ELSE <<ClientArgs[k][i]>>]

Wire(k) ==
  <<[type |-> "text", of |-> k]>>
    \o [i \in 1 .. Amount(k) |-> [type |-> "binary", of |-> <<k, i - 1>>]]

Values == {<<"text">>, <<"null">>} \cup ({"placeholder"} \X Nat) \cup {Buffer(a) : a \in Attachments}
IsDataOf(data, k) == data \in [DOMAIN ClientArgs[k] -> Values]
States == {"none", "called", "fetched", "read", "inserted", "set", "added", "complete", "told", "done"}

TypeOK ==
  /\ open \in BOOLEAN /\ emitted \in 0 .. Len(ClientArgs)
  /\ \A i \in DOMAIN up : up[i].of \in IF up[i].type = "text" THEN Sent ELSE Attachments
  /\ slot \in 0 .. emitted
  /\ \A k \in Sent : /\ IsDataOf(packets[k].args, k)
                     /\ packets[k].attachments \in 0 .. Cardinality(Attachments)
                     /\ packets[k].expected \in Int
  /\ pc \in [Attachments -> States]
  /\ \A a \in Attachments : pc[a] \notin {"none", "called", "done"} =>
       bp[a] \in 1 .. emitted /\ IsDataOf(copy[a], bp[a])
  /\ \A i \in DOMAIN told : told[i].of \in 1 .. emitted /\ IsDataOf(told[i].data, told[i].of)
  /\ mixed \subseteq 1 .. emitted

ExpectsOneMore(k) ==
  [args |-> Deconstruct(ClientArgs[k]), attachments |-> 0, expected |-> Amount(k) + 1]

\* The constructor of BinaryEventPacket and of BinaryACKPacket.
NewPacket(k) ==
  [args |-> Deconstruct(ClientArgs[k]), attachments |-> 0, expected |-> Amount(k)]

Init ==
  /\ open = TRUE /\ emitted = 0 /\ up = <<>> /\ slot = 0
  /\ packets = [k \in Sent |-> NewPacket(k)]
  /\ pc = [a \in Attachments |-> "none"]
  /\ bp = [a \in Attachments |-> 0] /\ copy = [a \in Attachments |-> <<>>]
  /\ told = <<>> /\ mixed = {}

-----------------------------------------------------------------------------
\* Socket.emit, or the callback of an event of the server.
ClientSend ==
  /\ emitted \in 0 .. Len(ClientArgs) - 1
  /\ emitted' = emitted + 1 /\ up' = up \o Wire(emitted + 1)
  /\ UNCHANGED <<open, slot, packets, handlers, told, mixed>>

\* The session is closed; frames that have come are still handled.
Break ==
  /\ open /\ open' = FALSE
  /\ UNCHANGED <<emitted, up, slot, packets, handlers, told, mixed>>

\* The packets of the handlers that run, and p, mix.
Running == {a \in Attachments : pc[a] \notin {"none", "done"}}
MixWith(p) == mixed' = IF Running = {} THEN mixed ELSE mixed \cup {p} \cup {a[1] : a \in Running}

\* onEvent and onACK: a listener is called unless the session is closed.
Tell(k, data) == told' = IF open THEN Append(told, [of |-> k, data |-> data]) ELSE told

\* onWebSocketText.  A header takes the slot, whatever is there.
OnText ==
  /\ up # <<>> /\ Head(up).type = "text"
  /\ up' = Tail(up)
  /\ LET k == Head(up).of IN
     IF Plain(k)
     THEN Tell(k, Deconstruct(ClientArgs[k])) /\ UNCHANGED <<slot, mixed>>
     ELSE slot' = k /\ MixWith(k) /\ UNCHANGED told
  /\ UNCHANGED <<open, emitted, packets, handlers>>

\* A handler for the frame is started.
OnBinaryFrame ==
  /\ up # <<>> /\ Head(up).type = "binary"
  /\ up' = Tail(up) /\ MixWith(Head(up).of[1])
  /\ pc' = [pc EXCEPT ![Head(up).of] = "called"]
  /\ UNCHANGED <<open, emitted, slot, packets, bp, copy, told>>

-----------------------------------------------------------------------------
\* onBinary, for the attachment a.

Goes(a, from, to) == pc[a] = from /\ pc' = [pc EXCEPT ![a] = to]

SkipsNullCheck(a) ==
  /\ Goes(a, "called", "fetched")
  /\ bp' = [bp EXCEPT ![a] = slot]
  /\ UNCHANGED <<open, emitted, up, slot, packets, copy, told, mixed>>

\* "Unexpected binary object" where there is no packet.
FetchPacket(a) ==
  /\ Goes(a, "called", IF slot = 0 THEN "done" ELSE "fetched")
  /\ bp' = [bp EXCEPT ![a] = slot]
  /\ copy' = [copy EXCEPT ![a] = IF slot = 0 THEN <<>> ELSE packets[slot].args]
  /\ UNCHANGED <<open, emitted, up, slot, packets, told, mixed>>

\* insertBinaryObject: getArgs.
ReadArgs(a) ==
  /\ Goes(a, "fetched", "read")
  /\ copy' = [copy EXCEPT ![a] = packets[bp[a]].args]
  /\ UNCHANGED <<open, emitted, up, slot, packets, bp, told, mixed>>

Insert(data, index, a) ==
  [i \in DOMAIN data |-> IF data[i] = <<"placeholder", index>> THEN Buffer(a) ELSE data[i]]

\* The index is the number of attachments so far.  A null argument makes it throw
\* a NullPointerException, and where no placeholder has the index there is none
\* found: the packet stays as it is, in the slot.
InsertObject(a) ==
  LET data  == copy[a]
      index == packets[bp[a]].attachments
      fails == \/ \E i \in DOMAIN data : data[i] = <<"null">>
               \/ \A i \in DOMAIN data : data[i] # <<"placeholder", index>>
  IN /\ pc[a] = "read"
     /\ Goes(a, "read", IF fails THEN "done" ELSE "inserted")
     /\ copy' = [copy EXCEPT ![a] = Insert(data, index, a)]
     /\ UNCHANGED <<open, emitted, up, slot, packets, bp, told, mixed>>

SetArgs(a) ==
  /\ Goes(a, "inserted", "set")
  /\ packets' = [packets EXCEPT ![bp[a]].args = copy[a]]
  /\ UNCHANGED <<open, emitted, up, slot, bp, copy, told, mixed>>

OneToGo(a) ==
  /\ Goes(a, "added", IF packets[bp[a]].expected = 1 THEN "complete" ELSE "done")
  /\ UNCHANGED <<open, emitted, up, slot, packets, bp, copy, told, mixed>>

\* Neither the list nor the counter is synchronized: beside another handler that
\* is about to change them, a change may be lost.
AddAttachment(a) ==
  LET beside == \E b \in Attachments \ {a} : pc[b] = "set" /\ bp[b] = bp[a]
      kept   == IF beside THEN {0, 1} ELSE {1}
  IN /\ Goes(a, "set", "added")
     /\ \E n \in kept, e \in kept :
          packets' = [packets EXCEPT ![bp[a]].attachments = @ + n, ![bp[a]].expected = @ - e]
     /\ UNCHANGED <<open, emitted, up, slot, bp, copy, told, mixed>>

IsComplete(a) ==
  /\ Goes(a, "added", IF packets[bp[a]].expected = 0 THEN "complete" ELSE "done")
  /\ UNCHANGED <<open, emitted, up, slot, packets, bp, copy, told, mixed>>

TellPacket(a) ==
  /\ Goes(a, "complete", "told")
  /\ Tell(bp[a], packets[bp[a]].args)
  /\ UNCHANGED <<open, emitted, up, slot, packets, bp, copy, mixed>>

\* binaryPacket.set(null), whatever is there.
ClearSlot(a) ==
  /\ Goes(a, "told", "done")
  /\ slot' = 0
  /\ UNCHANGED <<open, emitted, up, packets, bp, copy, told, mixed>>

OnBinary(a) ==
  \/ FetchPacket(a) \/ ReadArgs(a) \/ InsertObject(a) \/ SetArgs(a) \/ AddAttachment(a)
  \/ IsComplete(a) \/ TellPacket(a) \/ ClearSlot(a)

Next ==
  \/ ClientSend \/ Break \/ OnText \/ OnBinaryFrame
  \/ \E a \in Attachments : OnBinary(a)

Spec == Init /\ [][Next]_vars

-----------------------------------------------------------------------------
\* Properties.

\* Listeners are told the packets without attachments in the order they were sent
\* in, and each other packet at most once and with its own streams, unless frames
\* with binary data were handled side by side.
ToldIntact ==
  /\ \A i, j \in DOMAIN told : i < j /\ Plain(told[i].of) /\ Plain(told[j].of)
       => told[i].of < told[j].of
  /\ \A i \in DOMAIN told : told[i].of \notin mixed =>
       /\ told[i].data = Whole(told[i].of)
       /\ \A j \in DOMAIN told \ {i} : told[j].of # told[i].of

\* When nothing is under way every packet has been told, but for those with
\* attachments that were handled side by side or that have a null argument too.
EachTold ==
  open /\ up = <<>> /\ Running = {} =>
    \A k \in 1 .. emitted :
      \/ \E i \in DOMAIN told : told[i].of = k
      \/ ~Plain(k) /\ (k \in mixed \/ \E i \in DOMAIN ClientArgs[k] : ClientArgs[k][i] = "null")
=============================================================================
