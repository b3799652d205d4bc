------------------------ MODULE SessionMessagesProofs ------------------------
(***************************************************************************)
(* Proofs about SessionMessages, for any number of threads and of events   *)
(* of the client:                                                          *)
(*   TypeCorrect     the type invariant, from TypeInv;                     *)
(*   AcksMatch       an ack listener is told the answer to its own event,  *)
(*                   at most once, from AckInv: who owns an id (IdInv),    *)
(*                   what an id under way stands for (FlowInv), how far    *)
(*                   the call of a listener is (CallInv);                  *)
(*   DownstreamIntact  the client's application is told an event or an     *)
(*                   answer at most once, and with its own streams unless  *)
(*                   the packet was mixed with another;                    *)
(*   AllArrive       what was sent and not mixed has arrived once nothing  *)
(*                   is under way, and the client goes on polling unless   *)
(*                   packets were mixed; both from DownInv.                *)
(***************************************************************************)
EXTENDS SessionMessages, FiniteSetTheorems, SequenceTheorems, TLAPS

-----------------------------------------------------------------------------
(* Placeholders.  The streams of the arguments are numbered from 0, each    *)
(* with a number of its own and without a gap.                              *)
LEMMA Numbering ==
  ASSUME NEW args \in Seq(Kinds)
  PROVE  /\ IsFiniteSet(Extracted(args)) /\ Cardinality(Extracted(args)) \in Nat
         /\ \A i \in Extracted(args) :
              Num(args, i) \in 0 .. Cardinality(Extracted(args)) - 1
         /\ \A k \in 0 .. Cardinality(Extracted(args)) - 1 :
              \E i \in Extracted(args) : Num(args, i) = k
<1> DEFINE E == Extracted(args)
           N == Cardinality(E)
           Before(i) == {j \in E : j < i}
<1>1. E \in SUBSET (1 .. Len(args)) /\ Len(args) \in Nat
  BY LenProperties DEF Extracted
<1>2. IsFiniteSet(E) /\ N \in Nat
  <2>1. IsFiniteSet(1 .. Len(args))
    BY <1>1, FS_Interval
  <2>2. IsFiniteSet(E)
    BY <1>1, <2>1, FS_Subset
  <2> QED
    BY <2>2, FS_CardinalityType
<1> HIDE DEF E
<1>3. \A i \in E : /\ IsFiniteSet(Before(i)) /\ Num(args, i) = Cardinality(Before(i))
                   /\ Num(args, i) \in Nat /\ Num(args, i) < N
  <2> TAKE i \in E
  <2>1. Before(i) \in SUBSET E /\ i \notin Before(i)
    BY <1>1
  <2>2. IsFiniteSet(Before(i)) /\ Cardinality(Before(i)) <= N /\ N # Cardinality(Before(i))
    BY <1>2, <2>1, FS_Subset
  <2>3. Cardinality(Before(i)) \in Nat
    BY <2>2, FS_CardinalityType
  <2>4. Num(args, i) = Cardinality(Before(i))
    BY DEF Num, E
  <2> QED
    BY <1>2, <2>2, <2>3, <2>4
<1> HIDE DEF N, Before
<1>4. \A i, j \in E : i < j => Num(args, i) < Num(args, j)
  <2> SUFFICES ASSUME NEW i \in E, NEW j \in E, i < j
               PROVE  Num(args, i) < Num(args, j)
    OBVIOUS
  <2>1. Before(i) \in SUBSET Before(j) /\ i \in Before(j) /\ i \notin Before(i)
    <3>1. E \subseteq Nat
      BY <1>1
    <3>2. \A k \in E : k < i => k < j
      BY <3>1
    <3>3. \A k : k \in Before(i) => k \in Before(j)
      BY <3>2, Zenon DEF Before
    <3>4. i \in Before(j)
      BY DEF Before
    <3>5. i \notin Before(i)
      BY <3>1 DEF Before
    <3> QED
      BY <3>3, <3>4, <3>5
  <2>2. Cardinality(Before(i)) <= Cardinality(Before(j))
        /\ Cardinality(Before(j)) # Cardinality(Before(i))
    BY <1>3, <2>1, FS_Subset
  <2> QED
    BY <1>3, <2>2
<1> DEFINE f == [i \in E |-> Num(args, i)]
<1>5. f \in Injection(E, 0 .. N - 1)
  <2>1. f \in [E -> 0 .. N - 1]
    BY <1>2, <1>3
  <2>2. \A i, j \in E : f[i] = f[j] => i = j
    BY <1>1, <1>3, <1>4
  <2> QED
    BY <2>1, <2>2 DEF Injection, IsInjective
<1>6. IsFiniteSet(0 .. N - 1) /\ Cardinality(0 .. N - 1) = N
  <2>1. 0 \in Int /\ N - 1 \in Int
    BY <1>2
  <2>2. IsFiniteSet(0 .. N - 1) /\ Cardinality(0 .. N - 1) = IF 0 > N - 1 THEN 0 ELSE N - 1 - 0 + 1
    BY <2>1, FS_Interval
  <2> QED
    BY <1>2, <2>2
<1>7. f \in Surjection(E, 0 .. N - 1)
  BY <1>2, <1>5, <1>6, FS_Injection DEF N
<1>8. \A k \in 0 .. N - 1 : \E i \in E : Num(args, i) = k
  BY <1>7 DEF Surjection
<1> QED
  BY <1>2, <1>3, <1>8 DEF E, N

LEMMA SeqOfFunction ==
  ASSUME NEW S, NEW n \in Nat, NEW g \in [1 .. n -> S]
  PROVE  g \in Seq(S) /\ Len(g) = n
<1>1. g \in Seq(S)
  BY SeqDef
<1>2. Len(g) \in Nat /\ 1 .. Len(g) = 1 .. n
  BY <1>1, LenProperties
<1> QED
  BY <1>1, <1>2

-----------------------------------------------------------------------------
(* Packets on their way: which events and acknowledgements go in which      *)
(* direction, and that the placeholders of a header are those of its        *)
(* attachments, from the lowest one that is outstanding.                    *)
Formed(p, lowest) ==
  \A j \in DOMAIN p.data :
    \/ p.data[j] \in Told
    \/ \E k \in lowest .. p.attachments - 1 : p.data[j] = <<"placeholder", k>>

DownKind(p) == \/ p.type = "connect" /\ p.attachments = 0 /\ ~p.bin
               \/ p.type = "event"   /\ p.of \in Threads
               \/ p.type = "ack"     /\ p.of \in UpEvents

Attachments  == [type : {"binary"}, buffer : Buffers]
DownMessages == {p \in Packets : DownKind(p) /\ Formed(p, 0)} \cup Attachments
ThreadEvents == {e \in Events : e.of \in Threads}

Recons == {r \in [type : {"recon"}, packet : Packets, buffers : Seq(Buffers)] :
             /\ DownKind(r.packet) /\ Formed(r.packet, 0)
             /\ r.packet.attachments # 0 => Len(r.buffers) < r.packet.attachments}
Fetches == [type : {"ack"}, n : Nat, of : Threads, waits : SUBSET Threads]
Calls   == [waits : Threads, of : Threads]

(* TypeOK with the packets of the server told apart and their placeholders   *)
(* those of their attachments: inductive, where TypeOK is not, as a          *)
(* placeholder without its attachment would be left in what a listener is    *)
(* told.                                                                     *)
TypeInv ==
  /\ open \in BOOLEAN /\ connected \in BOOLEAN /\ stuck \in BOOLEAN
  /\ packetId \in Nat /\ id \in [Threads -> Nat]
  /\ pc \in [Threads -> {"idle", "numbered", "sent", "thrown"}]
  /\ listeners \subseteq Nat \X Threads /\ tasks \subseteq Nat
  /\ out \in [Threads \cup {Reader} -> Seq(DownMessages)]
  /\ down \in Seq(DownMessages) /\ up \in Seq(Requests)
  /\ fetched \in {None} \cup Fetches
  /\ calls \in Seq(Calls) /\ served \subseteq UpEvents
  /\ recon \in {None} \cup Recons
  /\ receiveBuffer \in Seq(ThreadEvents) /\ got \in Seq(ThreadEvents)
  /\ called \in Seq(Events)
  /\ answered \subseteq DOMAIN got /\ emitted \in 0 .. MaxUp /\ acks \subseteq Nat
  /\ mixed \subseteq {"event", "ack"} \X Sources

LEMMA Constants ==
  /\ MaxUp \in Nat /\ UpEvents \subseteq Nat
  /\ \A t \in Threads : Args[t] \in Seq(Kinds)
  /\ \A k \in UpEvents : ServerAnswers[k] \in Seq(Kinds)
BY MessagesAssumption DEF MessagesAssumption, UpEvents

LEMMA BufferType ==
  ASSUME NEW type \in {"event", "ack"}, NEW of \in Sources, NEW i \in Nat
  PROVE  /\ Buffer(type, of, i) \in Buffers
         /\ [type |-> "binary", buffer |-> Buffer(type, of, i)] \in Attachments
  BY DEF Buffer, Buffers, Attachments

(* The header of a packet of the server, and its messages.                  *)
LEMMA PacketType ==
  ASSUME NEW type \in {"event", "ack"}, NEW of \in Sources, NEW n \in Nat,
         NEW args \in Seq(Kinds)
  PROVE  LET p == Packet(type, of, n, args)
         IN  /\ p \in Packets /\ Formed(p, 0) /\ p.attachments \in Nat
             /\ p.type = type /\ p.of = of /\ p.n = n /\ p.bin = HasBinary(args)
<1> DEFINE p == Packet(type, of, n, args)
<1>1. args \in [1 .. Len(args) -> Kinds] /\ Len(args) \in Nat /\ DOMAIN args = 1 .. Len(args)
  BY LenProperties
<1>2. p.type = type /\ p.of = of /\ p.n = n /\ p.bin = HasBinary(args) /\ p.bin \in BOOLEAN
  BY DEF Packet, HasBinary
<1>3. p.attachments \in Nat
  BY Numbering DEF Packet
<1>4. DOMAIN p.data = 1 .. Len(args)
  BY <1>1 DEF Packet, Extract, ToJSON
<1>5. \A j \in 1 .. Len(args) :
        \/ p.data[j] \in Told
        \/ \E k \in 0 .. p.attachments - 1 : p.data[j] = <<"placeholder", k>>
  <2> TAKE j \in 1 .. Len(args)
  <2>1. CASE ~HasBinary(args)
    <3>1. p.data[j] = IF args[j] = "list" THEN <<"emptied">> ELSE <<args[j]>>
      BY <1>1, <2>1 DEF Packet, ToJSON
    <3> QED
      BY <1>1, <3>1 DEF Told
  <2>2. CASE HasBinary(args) /\ j \in Extracted(args)
    <3>1. p.data = Extract(args)
      BY <2>2 DEF Packet
    <3>2. Extract(args)[j] = <<"placeholder", Num(args, j)>>
      <4>1. args[j] \notin {"map", "streamMap"}
        BY <2>2 DEF Extracted
      <4> QED
        BY <1>1, <2>2, <4>1 DEF Extract
    <3>3. p.attachments = Cardinality(Extracted(args))
      BY <2>2 DEF Packet
    <3> QED
      BY <2>2, <3>1, <3>2, <3>3, Numbering
  <2>3. CASE HasBinary(args) /\ j \notin Extracted(args) /\ args[j] \in {"map", "streamMap"}
    <3>1. p.data[j] = <<"entries">>
      BY <1>1, <2>3 DEF Packet, Extract
    <3> QED
      BY <3>1 DEF Told
  <2>4. CASE HasBinary(args) /\ j \notin Extracted(args) /\ args[j] \notin {"map", "streamMap"}
    <3>1. p.data[j] = <<args[j]>>
      BY <1>1, <2>4 DEF Packet, Extract
    <3> QED
      BY <1>1, <3>1 DEF Told
  <2> QED
    BY <2>1, <2>2, <2>3, <2>4
<1>6. \A k \in Nat : <<"placeholder", k>> \in Placeholders
  BY DEF Placeholders
<1>7. p.data \in Seq(Told \cup Placeholders)
  <2>1. \A j \in 1 .. Len(args) : p.data[j] \in Told \cup Placeholders
    <3>1. 0 .. p.attachments - 1 \subseteq Nat
      BY <1>3
    <3> HIDE DEF p
    <3> QED
      BY <1>5, <1>6, <3>1
  <2>2. CASE HasBinary(args)
    <3>1. p.data = Extract(args) /\ p.data = [j \in 1 .. Len(args) |-> p.data[j]]
      BY <1>1, <2>2 DEF Packet, Extract
    <3>2. p.data \in [1 .. Len(args) -> Told \cup Placeholders]
      BY <2>1, <3>1
    <3> QED
      BY <1>1, <3>2, SeqOfFunction
  <2>3. CASE ~HasBinary(args)
    <3>1. p.data = [j \in 1 .. Len(args) |-> p.data[j]]
      BY <1>1, <2>3 DEF Packet, ToJSON
    <3>2. p.data \in [1 .. Len(args) -> Told \cup Placeholders]
      BY <2>1, <3>1
    <3> QED
      BY <1>1, <3>2, SeqOfFunction
  <2> QED
    BY <2>2, <2>3
<1>8. p \in Packets
  <2>1. p = [type |-> type, of |-> of, n |-> n, bin |-> p.bin,
             attachments |-> p.attachments, data |-> p.data]
    BY DEF Packet
  <2> QED
    BY <1>2, <1>3, <1>7, <2>1 DEF Packets
<1>9. Formed(p, 0)
  BY <1>4, <1>5 DEF Formed
<1> QED
  BY <1>2, <1>3, <1>8, <1>9

LEMMA WireMessages ==
  ASSUME NEW p \in Packets, p.type \in {"event", "ack"}, p.of \in Sources
  PROVE  /\ Wire(p) \in Seq({p} \cup Attachments) /\ Len(Wire(p)) = 1 + p.attachments
         /\ Wire(p)[1] = p
         /\ \A j \in 1 .. p.attachments :
              Wire(p)[1 + j] = [type |-> "binary", buffer |-> Buffer(p.type, p.of, j - 1)]
<1> DEFINE e(i) == [type |-> "binary", buffer |-> Buffer(p.type, p.of, i - 1)]
           a == [i \in 1 .. p.attachments |-> e(i)]
<1>1. p.attachments \in Nat
  BY DEF Packets
<1>2. \A i \in 1 .. p.attachments : e(i) \in {p} \cup Attachments
  BY <1>1, BufferType
<1>3. a \in [1 .. p.attachments -> {p} \cup Attachments]
  BY <1>2
<1> HIDE DEF e, a
<1>4. a \in Seq({p} \cup Attachments) /\ Len(a) = p.attachments
  BY <1>1, <1>3, SeqOfFunction
<1>5. <<p>> \in Seq({p} \cup Attachments) /\ Len(<<p>>) = 1 /\ <<p>>[1] = p
  OBVIOUS
<1>6. Wire(p) = <<p>> \o a
  BY DEF Wire, a, e
<1>7. /\ <<p>> \o a \in Seq({p} \cup Attachments)
      /\ Len(<<p>> \o a) = 1 + p.attachments
      /\ \A i \in 1 .. 1 + p.attachments :
           (<<p>> \o a)[i] = IF i <= 1 THEN <<p>>[i] ELSE a[i - 1]
  BY <1>4, <1>5, ConcatProperties
<1>8. (<<p>> \o a)[1] = p
  BY <1>1, <1>5, <1>7
<1>9. \A j \in 1 .. p.attachments : (<<p>> \o a)[1 + j] = e(j)
  <2> TAKE j \in 1 .. p.attachments
  <2>1. 1 + j \in 1 .. 1 + p.attachments /\ ~(1 + j <= 1) /\ (1 + j) - 1 = j
    BY <1>1
  <2> QED
    BY <1>7, <2>1 DEF a
<1> QED
  BY <1>1, <1>6, <1>7, <1>8, <1>9 DEF e

LEMMA ServerWireType ==
  ASSUME NEW type \in {"event", "ack"}, NEW of \in Sources, NEW n \in Nat,
         NEW args \in Seq(Kinds),
         type = "event" => of \in Threads, type = "ack" => of \in UpEvents
  PROVE  ServerWire(type, of, n, args) \in Seq(DownMessages)
<1> DEFINE p == Packet(type, of, n, args)
<1>1. p \in Packets /\ Formed(p, 0) /\ p.type = type /\ p.of = of
  BY PacketType
<1> HIDE DEF p
<1>2. {p} \cup Attachments \subseteq DownMessages
  BY <1>1 DEF DownMessages, DownKind
<1>3. Wire(p) \in Seq(DownMessages)
  BY <1>1, <1>2, WireMessages, SeqMonotonic
<1> QED
  BY <1>3, EmptySeq DEF ServerWire, p

(* What a listener is told has no placeholder.                              *)
LEMMA Mark ==
  /\ \A x \in Told : x[1] # "placeholder"
  /\ \A x \in Told, k \in Nat : x # <<"placeholder", k>>
  /\ Buffers \subseteq Told
  /\ \A k \in Nat : <<"placeholder", k>> \in Placeholders
<1>1. \A k \in Kinds \cup {"entries", "emptied"} : <<k>>[1] # "placeholder"
  BY DEF Kinds
<1>2. \A x \in Buffers : x[1] = "buffer"
  BY DEF Buffers
<1>3. \A x \in Told : x[1] # "placeholder"
  BY <1>1, <1>2 DEF Told
<1>4. \A k \in Nat : <<"placeholder", k>>[1] = "placeholder"
  OBVIOUS
<1> QED
  BY <1>3, <1>4 DEF Told, Placeholders

LEMMA Finished ==
  ASSUME NEW p \in Packets, Formed(p, p.attachments)
  PROVE  p.data \in Seq(Told)
<1>1. p.attachments \in Nat /\ p.data \in Seq(Told \cup Placeholders)
  BY DEF Packets
<1>2. Len(p.data) \in Nat /\ DOMAIN p.data = 1 .. Len(p.data)
      /\ p.data \in [1 .. Len(p.data) -> Told \cup Placeholders]
  BY <1>1, LenProperties
<1>3. \A j \in 1 .. Len(p.data) : p.data[j] \in Told
  BY <1>1, <1>2 DEF Formed
<1>4. p.data \in [1 .. Len(p.data) -> Told]
  BY <1>2, <1>3
<1> QED
  BY <1>2, <1>4, SeqOfFunction

LEMMA ReconstructType ==
  ASSUME NEW p \in Packets, Formed(p, 0),
         NEW buffers \in Seq(Buffers), Len(buffers) = p.attachments
  PROVE  Reconstruct(p.data, buffers) \in Seq(Told)
<1> DEFINE d == Reconstruct(p.data, buffers)
<1>1. p.attachments \in Nat /\ p.data \in Seq(Told \cup Placeholders)
  BY DEF Packets
<1>2. Len(p.data) \in Nat /\ DOMAIN p.data = 1 .. Len(p.data)
  BY <1>1, LenProperties
<1>3. \A k \in 1 .. p.attachments : buffers[k] \in Told
  BY ElementOfSeq, Mark
<1>4. \A j \in 1 .. Len(p.data) :
        d[j] = IF p.data[j][1] = "placeholder" THEN buffers[p.data[j][2] + 1] ELSE p.data[j]
  BY <1>2 DEF Reconstruct
<1>5. \A j \in 1 .. Len(p.data) : d[j] \in Told
  <2> TAKE j \in 1 .. Len(p.data)
  <2>1. CASE p.data[j] \in Told
    BY <1>4, <2>1, Mark
  <2>2. CASE p.data[j] \notin Told
    <3>1. PICK k \in 0 .. p.attachments - 1 : p.data[j] = <<"placeholder", k>>
      BY <1>2, <2>2 DEF Formed
    <3>2. p.data[j][1] = "placeholder" /\ p.data[j][2] = k /\ k + 1 \in 1 .. p.attachments
      BY <1>1, <3>1
    <3> QED
      BY <1>3, <1>4, <3>2
  <2> QED
    BY <2>1, <2>2
<1>6. d = [j \in 1 .. Len(p.data) |-> d[j]]
  BY <1>2 DEF Reconstruct
<1>7. d \in [1 .. Len(p.data) -> Told]
  BY <1>5, <1>6
<1> QED
  BY <1>2, <1>7, SeqOfFunction

LEMMA MessageSorts ==
  /\ \A m \in DownMessages :
       /\ m.type = "binary" => m \in Attachments /\ m.buffer \in Buffers
       /\ m.type # "binary" => m \in Packets /\ Formed(m, 0)
  /\ \A m \in DownMessages : m.type # "binary" => DownKind(m)
  /\ \A m \in Packets : m.type # "binary"
  BY DEF DownMessages, Attachments, Packets

-----------------------------------------------------------------------------
(* Type correctness, action by action.                                      *)
LEMMA InitType == Init => TypeInv
<1> SUFFICES ASSUME Init PROVE TypeInv
  OBVIOUS
<1>1. ConnectPacket \in DownMessages
  <2>1. ConnectPacket \in Packets
    BY EmptySeq DEF ConnectPacket, Packets
  <2>2. DownKind(ConnectPacket) /\ Formed(ConnectPacket, 0)
    BY DEF ConnectPacket, DownKind, Formed
  <2> QED
    BY <2>1, <2>2 DEF DownMessages
<1>2. <<ConnectPacket>> \in Seq(DownMessages) /\ <<>> \in Seq(DownMessages)
  BY <1>1, EmptySeq
<1>3. out \in [Threads \cup {Reader} -> Seq(DownMessages)]
  BY <1>2 DEF Init
<1>4. /\ <<>> \in Seq(Requests) /\ <<>> \in Seq(Calls)
      /\ <<>> \in Seq(ThreadEvents) /\ <<>> \in Seq(Events)
  BY EmptySeq
<1>5. /\ id \in [Threads -> Nat] /\ pc \in [Threads -> {"idle", "numbered", "sent", "thrown"}]
      /\ emitted \in 0 .. MaxUp /\ answered \subseteq DOMAIN got
  BY Constants DEF Init
<1> QED
  BY <1>2, <1>3, <1>4, <1>5 DEF Init, TypeInv

LEMMA SendingType ==
  ASSUME TypeInv, NEW t \in Threads \cup {Reader},
         \/ t \in Threads /\ (GetNewPacketId(t) \/ EmitThrows(t) \/ SubscribeACK(t))
         \/ Send(t) \/ SendFails(t) \/ Expire \/ Break
  PROVE  TypeInv'
<1>1. CASE t \in Threads /\ GetNewPacketId(t)
  BY <1>1 DEF TypeInv, GetNewPacketId, channels, reading, client, application
<1>7. CASE t \in Threads /\ EmitThrows(t)
  BY <1>7 DEF TypeInv, EmitThrows, channels, reading, client, application
<1>2. CASE t \in Threads /\ SubscribeACK(t)
  <2>1. t \in Sources /\ id[t] \in Nat /\ Args[t] \in Seq(Kinds)
    BY <1>2, Constants DEF TypeInv, Sources
  <2>2. ServerWire("event", t, id[t], Args[t]) \in Seq(DownMessages)
    BY <1>2, <2>1, ServerWireType
  <2>3. out' \in [Threads \cup {Reader} -> Seq(DownMessages)]
    BY <1>2, <2>2 DEF SubscribeACK, TypeInv
  <2>4. listeners' \subseteq Nat \X Threads /\ tasks' \subseteq Nat
    <3>1. <<id[t], t>> \in Nat \X Threads
      BY <1>2, <2>1
    <3> QED
      BY <1>2, <2>1, <3>1 DEF SubscribeACK, TypeInv
  <2>5. pc' \in [Threads -> {"idle", "numbered", "sent", "thrown"}]
    BY <1>2 DEF SubscribeACK, TypeInv
  <2> QED
    BY <1>2, <2>3, <2>4, <2>5 DEF SubscribeACK, TypeInv, channels, reading, client, application
<1>3. CASE Send(t)
  <2>1. out[t] \in Seq(DownMessages) /\ out[t] # <<>>
    BY <1>3 DEF Send, TypeInv
  <2>2. Head(out[t]) \in DownMessages /\ Tail(out[t]) \in Seq(DownMessages)
    BY <2>1, HeadTailProperties
  <2>3. out' \in [Threads \cup {Reader} -> Seq(DownMessages)]
    BY <1>3, <2>2 DEF Send, TypeInv
  <2>4. down' \in Seq(DownMessages)
    BY <1>3, <2>2, AppendProperties DEF Send, TypeInv
  <2>5. mixed' \subseteq {"event", "ack"} \X Sources
    <3> DEFINE m == Head(out[t])
               others == {u \in DOMAIN out \ {t} : out[u] # <<>> /\ Head(out[u]).type = "binary"}
               M == {<<Head(out[u]).buffer[2], Head(out[u]).buffer[3]>> : u \in others}
    <3>1. \A u \in others : Head(out[u]).buffer \in Buffers
      <4> TAKE u \in others
      <4>1. out[u] \in Seq(DownMessages) /\ out[u] # <<>> /\ Head(out[u]).type = "binary"
        BY DEF TypeInv
      <4>2. Head(out[u]) \in DownMessages
        BY <4>1, HeadTailProperties
      <4> QED
        BY <4>1, <4>2, MessageSorts
    <3>2. \A b \in Buffers : <<b[2], b[3]>> \in {"event", "ack"} \X Sources
      BY DEF Buffers
    <3>3. M \subseteq {"event", "ack"} \X Sources
      BY <3>1, <3>2
    <3>4. CASE m.type = "binary" \/ ~m.bin \/ others = {}
      BY <1>3, <3>4 DEF Send, TypeInv
    <3>5. CASE ~(m.type = "binary" \/ ~m.bin \/ others = {})
      <4>1. m \in DownMessages
        BY <2>2
      <4>2. m.type # "binary" /\ m.bin
        BY <3>5
      <4>3. DownKind(m)
        BY <4>1, <4>2, MessageSorts
      <4>4. <<m.type, m.of>> \in {"event", "ack"} \X Sources
        BY <4>2, <4>3 DEF DownKind, Sources
      <4>5. mixed' = mixed \cup {<<m.type, m.of>>} \cup M
        BY <1>3, <3>5 DEF Send
      <4> HIDE DEF m, M
      <4> QED
        BY <3>3, <4>4, <4>5 DEF TypeInv
    <3> QED
      BY <3>4, <3>5
  <2> QED
    BY <1>3, <2>3, <2>4, <2>5 DEF Send, TypeInv, emitting, reading, client, application
<1>4. CASE SendFails(t)
  <2>1. out' \in [Threads \cup {Reader} -> Seq(DownMessages)]
    BY <1>4, EmptySeq DEF SendFails, TypeInv
  <2> QED
    BY <1>4, <2>1 DEF SendFails, TypeInv, emitting, channels, reading, client, application
<1>5. CASE Expire
  BY <1>5 DEF Expire, TypeInv, channels, reading, client, application
<1>6. CASE Break
  BY <1>6 DEF Break, TypeInv, emitting, channels, reading, client, application
<1> QED
  BY <1>1, <1>2, <1>3, <1>4, <1>5, <1>6, <1>7

(* Events of the client reach a listener, its answers the look-up of one.    *)
LEMMA ReadType ==
  ASSUME TypeInv, Read
  PROVE  TypeInv'
<1> DEFINE m == Head(up)
<1>1. m \in Requests /\ up' \in Seq(Requests)
  BY HeadTailProperties DEF Read, TypeInv
<1>2. OnPacket(m) /\ fetched = None
      /\ UNCHANGED <<open, emitting, listeners, down, client, mixed>>
  BY DEF Read
<1> DEFINE Rest == /\ served' \subseteq UpEvents /\ fetched' \in {None} \cup Fetches
                   /\ out' \in [Threads \cup {Reader} -> Seq(DownMessages)]
                   /\ calls' \in Seq(Calls)
<1> HIDE DEF m
<1>3. ASSUME open, m.type = "event" PROVE Rest
  <2>1. OnEvent(m) /\ m.of \in UpEvents /\ m.n \in Nat
    BY <1>1, <1>2, <1>3 DEF OnPacket, Requests
  <2>2. m.of \in Sources /\ ServerAnswers[m.of] \in Seq(Kinds)
    BY <2>1, Constants DEF Sources
  <2>3. ServerWire("ack", m.of, m.n, ServerAnswers[m.of]) \in Seq(DownMessages)
    BY <2>1, <2>2, ServerWireType
  <2> QED
    BY <1>2, <2>1, <2>3 DEF OnEvent, TypeInv
<1>4. ASSUME open, m.type = "ack" PROVE Rest
  <2>1. OnACK(m) /\ m.of \in Threads /\ m.n \in Nat
    BY <1>1, <1>2, <1>4 DEF OnPacket, Requests
  <2>2. {l[2] : l \in {x \in listeners : x[1] = m.n}} \subseteq Threads
    BY DEF TypeInv
  <2>3. fetched' \in Fetches
    BY <2>1, <2>2 DEF OnACK, Fetches
  <2> QED
    BY <2>1, <2>3 DEF OnACK, TypeInv
<1>5. ASSUME ~open PROVE Rest
  BY <1>2, <1>5 DEF OnPacket, TypeInv
<1>6. Rest
  BY <1>1, <1>3, <1>4, <1>5 DEF Requests, TypeInv
<1> HIDE DEF Rest
<1> QED
  BY <1>1, <1>2, <1>6 DEF Rest, TypeInv, emitting, client, application

LEMMA CallType ==
  ASSUME TypeInv, CallACKListener
  PROVE  TypeInv'
<1>1. fetched \in Fetches
  BY DEF CallACKListener, TypeInv
<1>2. calls' \in Seq(Calls)
  <2>1. CASE fetched.waits = {}
    BY <2>1 DEF CallACKListener, TypeInv
  <2>2. CASE fetched.waits # {}
    <3>1. (CHOOSE t \in fetched.waits : TRUE) \in fetched.waits
      BY <2>2
    <3>2. [waits |-> CHOOSE t \in fetched.waits : TRUE, of |-> fetched.of] \in Calls
      BY <1>1, <3>1 DEF Fetches, Calls
    <3> QED
      BY <2>2, <3>2, AppendProperties DEF CallACKListener, TypeInv
  <2> QED
    BY <2>1, <2>2
<1> QED
  BY <1>2 DEF CallACKListener, TypeInv, emitting, channels, client, application

LEMMA OnDecodedType ==
  ASSUME TypeInv, NEW p \in Packets, DownKind(p), NEW data \in Seq(Told), OnDecoded(p, data)
  PROVE  /\ connected' \in BOOLEAN /\ receiveBuffer' \in Seq(ThreadEvents)
         /\ got' \in Seq(ThreadEvents) /\ called' \in Seq(Events)
         /\ acks' \subseteq Nat /\ answered \subseteq DOMAIN got'
<1> DEFINE e == [of |-> p.of, n |-> p.n, data |-> data]
<1>1. p.n \in Nat /\ p.type \in {"connect", "event", "ack"}
  BY DEF Packets
<1>2. /\ got \in Seq(ThreadEvents) /\ receiveBuffer \in Seq(ThreadEvents)
      /\ called \in Seq(Events) /\ acks \subseteq Nat /\ answered \subseteq DOMAIN got
      /\ connected \in BOOLEAN
  BY DEF TypeInv
<1>3. DOMAIN got = 1 .. Len(got) /\ Len(got) \in Nat
  BY <1>2, LenProperties
<1>4. CASE p.type = "connect"
  <2>1. /\ connected' = TRUE /\ got' = got \o receiveBuffer /\ receiveBuffer' = <<>>
        /\ acks' = acks /\ called' = called
    BY <1>4 DEF OnDecoded
  <2>2. /\ got \o receiveBuffer \in Seq(ThreadEvents)
        /\ Len(got \o receiveBuffer) = Len(got) + Len(receiveBuffer)
    BY <1>2, ConcatProperties
  <2>3. Len(receiveBuffer) \in Nat /\ DOMAIN (got \o receiveBuffer) = 1 .. Len(got \o receiveBuffer)
    BY <1>2, <2>2, LenProperties
  <2>4. answered \subseteq DOMAIN (got \o receiveBuffer)
    BY <1>2, <1>3, <2>2, <2>3
  <2> QED
    BY <1>2, <2>1, <2>2, <2>4, EmptySeq
<1>5. CASE p.type = "event"
  <2>1. e \in ThreadEvents
    BY <1>1, <1>5 DEF DownKind, ThreadEvents, Events, Sources
  <2> HIDE DEF e
  <2>2. Append(got, e) \in Seq(ThreadEvents) /\ Len(Append(got, e)) = Len(got) + 1
    BY <1>2, <2>1, AppendProperties
  <2>3. answered \subseteq DOMAIN Append(got, e)
    <3>1. DOMAIN Append(got, e) = 1 .. Len(Append(got, e))
      BY <2>2, LenProperties
    <3> QED
      BY <1>2, <1>3, <2>2, <3>1
  <2>4. Append(receiveBuffer, e) \in Seq(ThreadEvents)
    BY <1>2, <2>1, AppendProperties
  <2>5. CASE connected
    <3>1. got' = Append(got, e) /\ UNCHANGED <<connected, receiveBuffer, acks, called>>
      BY <1>5, <2>5 DEF OnDecoded, e
    <3> QED
      BY <1>2, <2>2, <2>3, <3>1
  <2>6. CASE ~connected
    <3>1. receiveBuffer' = Append(receiveBuffer, e) /\ UNCHANGED <<connected, got, acks, called>>
      BY <1>5, <2>6 DEF OnDecoded, e
    <3> QED
      BY <1>2, <2>4, <3>1
  <2> QED
    BY <2>5, <2>6
<1>6. CASE p.type = "ack"
  <2>1. e \in Events
    BY <1>1, <1>6 DEF DownKind, Events, Sources
  <2> HIDE DEF e
  <2>2. /\ called' = IF p.n \in acks THEN Append(called, e) ELSE called
        /\ acks' = acks \ {p.n} /\ UNCHANGED <<connected, got, receiveBuffer>>
    BY <1>6 DEF OnDecoded, e
  <2>3. Append(called, e) \in Seq(Events)
    BY <1>2, <2>1, AppendProperties
  <2> QED
    BY <1>2, <2>2, <2>3
<1> QED
  BY <1>1, <1>4, <1>5, <1>6

LEMMA DecoderType ==
  ASSUME TypeInv, DecoderAdd
  PROVE  TypeInv'
<1> DEFINE m == Head(down)
           Heard == /\ connected' \in BOOLEAN /\ receiveBuffer' \in Seq(ThreadEvents)
                    /\ got' \in Seq(ThreadEvents) /\ called' \in Seq(Events)
                    /\ acks' \subseteq Nat /\ answered \subseteq DOMAIN got'
                    /\ recon' \in {None} \cup Recons /\ stuck' \in BOOLEAN
<1>1. m \in DownMessages /\ down' \in Seq(DownMessages)
  BY HeadTailProperties DEF DecoderAdd, TypeInv
<1>2. ASSUME UNCHANGED application, recon' \in {None} \cup Recons, stuck' \in BOOLEAN
      PROVE  Heard
  BY <1>2 DEF TypeInv, application
<1>3. ASSUME m.type # "binary" PROVE Heard
  <2>1. DecodeString(m) /\ m \in Packets /\ DownKind(m) /\ Formed(m, 0)
        /\ m.attachments \in Nat /\ m.bin \in BOOLEAN
    BY <1>1, <1>3, MessageSorts DEF DecoderAdd, Packets
  <2> HIDE DEF m
  <2>2. stuck' \in BOOLEAN /\ recon' \in {None} \cup Recons
    <3>1. CASE m.bin
      <4>1. recon' = [type |-> "recon", packet |-> m, buffers |-> <<>>]
        BY <2>1, <3>1 DEF DecodeString
      <4>2. <<>> \in Seq(Buffers) /\ Len(<<>>) = 0
        BY EmptySeq
      <4>3. recon' \in Recons
        BY <2>1, <4>1, <4>2 DEF Recons
      <4> QED
        BY <2>1, <4>3 DEF DecodeString, TypeInv
    <3>2. CASE ~m.bin
      BY <2>1, <3>2 DEF DecodeString, TypeInv
    <3> QED
      BY <3>1, <3>2
  <2>3. CASE m.attachments = 0
    <3>1. m.data \in Seq(Told)
      BY <2>1, <2>3, Finished
    <3>2. OnDecoded(m, m.data)
      BY <2>1, <2>3 DEF DecodeString
    <3> QED
      BY <2>1, <2>2, <3>1, <3>2, OnDecodedType
  <2>4. CASE m.attachments # 0
    <3>1. UNCHANGED application
      BY <2>1, <2>4 DEF DecodeString
    <3> HIDE DEF Heard
    <3> QED
      BY <1>2, <2>2, <3>1
  <2> QED
    BY <2>3, <2>4
<1>4. ASSUME m.type = "binary" PROVE Heard
  <2> DEFINE b == m.buffer
  <2>1. TakeBinaryData(b) /\ b \in Buffers
    BY <1>1, <1>4, MessageSorts DEF DecoderAdd
  <2> HIDE DEF b, m
  <2>2. CASE recon = None
    <3>1. UNCHANGED <<recon, application>> /\ stuck' \in BOOLEAN
      BY <2>1, <2>2 DEF TakeBinaryData
    <3> HIDE DEF Heard
    <3> QED
      BY <1>2, <2>2, <3>1
  <2>3. CASE recon # None
    <3> DEFINE p == recon.packet
               bs == Append(recon.buffers, b)
    <3>1. /\ recon \in Recons /\ p \in Packets /\ DownKind(p) /\ Formed(p, 0)
          /\ recon.buffers \in Seq(Buffers) /\ stuck \in BOOLEAN
          /\ p.attachments # 0 => Len(recon.buffers) < p.attachments
          /\ p.attachments \in Nat
      BY <2>3 DEF TypeInv, Recons, Packets
    <3>2. bs \in Seq(Buffers) /\ Len(bs) = Len(recon.buffers) + 1 /\ Len(recon.buffers) \in Nat
      BY <2>1, <3>1, AppendProperties, LenProperties
    <3>3. /\ stuck' = stuck
          /\ IF Len(bs) = p.attachments
             THEN recon' = None /\ OnDecoded(p, Reconstruct(p.data, bs))
             ELSE recon' = [recon EXCEPT !.buffers = bs] /\ UNCHANGED application
      BY <2>1, <2>3 DEF TakeBinaryData
    <3> HIDE DEF bs
    <3>4. CASE Len(bs) = p.attachments
      <4>1. Reconstruct(p.data, bs) \in Seq(Told)
        BY <3>1, <3>2, <3>4, ReconstructType
      <4> QED
        BY <3>1, <3>3, <3>4, <4>1, OnDecodedType
    <3>5. CASE Len(bs) # p.attachments
      <4>1. recon' = [type |-> "recon", packet |-> p, buffers |-> bs]
        BY <3>1, <3>3, <3>5 DEF Recons
      <4>2. p.attachments # 0 => Len(bs) < p.attachments
        BY <3>1, <3>2, <3>5
      <4>3. recon' \in Recons
        BY <3>1, <3>2, <4>1, <4>2 DEF Recons
      <4> HIDE DEF Heard
      <4> QED
        BY <1>2, <3>1, <3>3, <3>5, <4>3
    <3> QED
      BY <3>4, <3>5
  <2> QED
    BY <2>2, <2>3
<1>5. Heard
  BY <1>3, <1>4
<1> HIDE DEF Heard
<1> QED
  BY <1>1, <1>5 DEF Heard, DecoderAdd, TypeInv, emitting, reading

LEMMA ClientSendsType ==
  ASSUME TypeInv, Ack \/ ClientEmit
  PROVE  TypeInv'
<1>1. CASE Ack
  <2>1. PICK i \in DOMAIN got \ answered :
          /\ answered' = answered \cup {i}
          /\ up' = Append(up, [type |-> "ack", of |-> got[i].of, n |-> got[i].n])
          /\ UNCHANGED <<open, emitting, listeners, out, down, reading, recon, stuck,
                         application, emitted, mixed>>
    BY <1>1 DEF Ack
  <2>2. got[i] \in ThreadEvents
    BY LenProperties, ElementOfSeq DEF TypeInv
  <2>3. [type |-> "ack", of |-> got[i].of, n |-> got[i].n] \in Requests
    BY <2>2 DEF ThreadEvents, Events, Requests
  <2>4. up' \in Seq(Requests)
    BY <2>1, <2>3, AppendProperties DEF TypeInv
  <2> QED
    BY <2>1, <2>4 DEF TypeInv, emitting, reading, application
<1>2. CASE ClientEmit
  <2>1. emitted + 1 \in UpEvents /\ emitted \in Nat
    BY <1>2, Constants DEF ClientEmit, TypeInv, UpEvents
  <2>2. [type |-> "event", of |-> emitted + 1, n |-> emitted] \in Requests
    BY <2>1 DEF Requests
  <2>3. up' \in Seq(Requests)
    BY <1>2, <2>2, AppendProperties DEF ClientEmit, TypeInv
  <2>4. emitted' \in 0 .. MaxUp
    BY <1>2, <2>1, Constants DEF ClientEmit, UpEvents
  <2>5. acks' \subseteq Nat
    BY <1>2, <2>1 DEF ClientEmit, TypeInv
  <2> QED
    BY <1>2, <2>3, <2>4, <2>5 DEF ClientEmit, TypeInv, emitting, reading
<1> QED
  BY <1>1, <1>2

LEMMA TypeStep == TypeInv /\ [Next]_vars => TypeInv'
<1> SUFFICES ASSUME TypeInv, [Next]_vars PROVE TypeInv'
  OBVIOUS
<1>1. CASE \E t \in Threads : GetNewPacketId(t) \/ EmitThrows(t) \/ SubscribeACK(t)
  BY <1>1, SendingType
<1>2. CASE \E t \in Threads \cup {Reader} : Send(t) \/ SendFails(t)
  BY <1>2, SendingType
<1>3. CASE Expire \/ Break
  <2>1. Reader \in Threads \cup {Reader}
    OBVIOUS
  <2> QED
    BY <1>3, <2>1, SendingType
<1>4. CASE Read \/ CallACKListener
  BY <1>4, ReadType, CallType
<1>5. CASE DecoderAdd \/ Ack \/ ClientEmit
  BY <1>5, DecoderType, ClientSendsType
<1>6. CASE UNCHANGED vars
  BY <1>6 DEF vars, emitting, channels, reading, client, application, TypeInv
<1> QED
  BY <1>1, <1>2, <1>3, <1>4, <1>5, <1>6 DEF Next, Server

LEMMA TypeInvImplies == TypeInv => TypeOK
<1> SUFFICES ASSUME TypeInv PROVE TypeOK
  OBVIOUS
<1>1. DownMessages \subseteq Messages
  BY DEF DownMessages, Messages, Attachments
<1>2. \A q \in Seq(DownMessages) : q \in Seq(Messages)
  BY <1>1, SeqMonotonic
<1>3. out \in [Threads \cup {Reader} -> Seq(Messages)]
  BY <1>2 DEF TypeInv
<1>4. down \in Seq(Messages)
  BY <1>2 DEF TypeInv
<1>6. recon \in {None} \cup [type : {"recon"}, packet : Packets, buffers : Seq(Buffers)]
  BY DEF TypeInv, Recons
<1>8. receiveBuffer \in Seq(Events) /\ got \in Seq(Events)
  <2>1. ThreadEvents \subseteq Events
    BY DEF ThreadEvents
  <2> QED
    BY <2>1, SeqMonotonic DEF TypeInv
<1> QED
  BY <1>3, <1>4, <1>6, <1>8 DEF TypeInv, TypeOK, Calls, Fetches

(* The variables keep their types; in particular no listener of the client is  *)
(* told a placeholder.                                                         *)
THEOREM TypeCorrect == Spec => []TypeOK
<1>1. Spec => []TypeInv
  BY InitType, TypeStep, PTL DEF Spec
<1> QED
  BY <1>1, TypeInvImplies, PTL

-----------------------------------------------------------------------------
(* Numbers.  Every thread that emits has an id of its own, and an id names    *)
(* the thread that sent it, wherever the packet or its answer has come to.    *)
Sent(t, n) == t \in Threads /\ pc[t] = "sent" /\ n = id[t]

IdInv ==
  /\ \A t \in Threads : pc[t] # "idle" => id[t] <= packetId
  /\ \A t, u \in Threads : pc[t] # "idle" /\ pc[u] # "idle" /\ id[t] = id[u] => t = u
  /\ \A l \in listeners : Sent(l[2], l[1])

DownSent   == {m \in DownMessages : m.type = "event" => Sent(m.of, m.n)}
UpSent     == {m \in Requests : m.type = "ack" => Sent(m.of, m.n)}
EventsSent == {e \in ThreadEvents : Sent(e.of, e.n)}

FlowInv ==
  /\ out \in [Threads \cup {Reader} -> Seq(DownSent)]
  /\ down \in Seq(DownSent) /\ up \in Seq(UpSent)
  /\ recon # None /\ recon.packet.type = "event" => Sent(recon.packet.of, recon.packet.n)
  /\ receiveBuffer \in Seq(EventsSent) /\ got \in Seq(EventsSent)
  /\ fetched # None => Sent(fetched.of, fetched.n)

(* A thread waits in the list, or in the hand of the reader, or was called.   *)
CallInv ==
  /\ fetched # None => \A t \in fetched.waits :
       Sent(t, fetched.n) /\ \A i \in DOMAIN calls : calls[i].waits # t
  /\ \A i \in DOMAIN calls :
       /\ pc[calls[i].waits] = "sent" /\ calls[i].of = calls[i].waits
       /\ \A l \in listeners : l[2] # calls[i].waits
  /\ \A i, j \in DOMAIN calls : i # j => calls[i].waits # calls[j].waits

LEMMA SentStays ==
  ASSUME TypeInv, [Next]_vars, NEW t, NEW n, Sent(t, n)
  PROVE  Sent(t, n)'
<1>1. CASE \E u \in Threads : GetNewPacketId(u)
  BY <1>1 DEF GetNewPacketId, Sent, TypeInv
<1>2. CASE \E u \in Threads : SubscribeACK(u)
  BY <1>2 DEF SubscribeACK, Sent, TypeInv
<1>3. CASE UNCHANGED <<pc, id>>
  BY <1>3 DEF Sent
<1>5. CASE \E u \in Threads : EmitThrows(u)
  BY <1>5 DEF EmitThrows, Sent, TypeInv
<1>4. \/ \E u \in Threads : GetNewPacketId(u) \/ EmitThrows(u) \/ SubscribeACK(u)
      \/ UNCHANGED <<pc, id>>
  BY DEF Next, Server, Send, SendFails, Read, CallACKListener, Expire, Break,
         DecoderAdd, Ack, ClientEmit, vars, emitting
<1> QED
  BY <1>1, <1>2, <1>3, <1>4, <1>5

LEMMA SentSets ==
  ASSUME TypeInv, [Next]_vars
  PROVE  /\ DownSent \subseteq DownSent' /\ UpSent \subseteq UpSent'
         /\ EventsSent \subseteq EventsSent'
         /\ \A q \in Seq(DownSent) : q \in Seq(DownSent)'
         /\ \A q \in Seq(UpSent) : q \in Seq(UpSent)'
         /\ \A q \in Seq(EventsSent) : q \in Seq(EventsSent)'
<1>1. DownSent \subseteq DownSent'
  BY SentStays DEF DownSent
<1>2. UpSent \subseteq UpSent'
  BY SentStays DEF UpSent
<1>3. EventsSent \subseteq EventsSent'
  BY SentStays DEF EventsSent
<1> QED
  BY <1>1, <1>2, <1>3, SeqMonotonic

LEMMA IdStep ==
  ASSUME TypeInv, IdInv, [Next]_vars
  PROVE  IdInv'
<1>1. ASSUME NEW t \in Threads, GetNewPacketId(t) PROVE IdInv'
  <2>1. /\ packetId' = packetId + 1 /\ id' = [id EXCEPT ![t] = packetId + 1]
        /\ pc' = [pc EXCEPT ![t] = "numbered"] /\ pc[t] = "idle" /\ listeners' = listeners
    BY <1>1 DEF GetNewPacketId
  <2>2. packetId \in Nat /\ id \in [Threads -> Nat] /\ DOMAIN pc = Threads
    BY DEF TypeInv
  <2>3. \A u \in Threads : pc'[u] # "idle" => id'[u] <= packetId'
    BY <2>1, <2>2 DEF IdInv
  <2>4. \A u, v \in Threads : pc'[u] # "idle" /\ pc'[v] # "idle" /\ id'[u] = id'[v] => u = v
    BY <2>1, <2>2 DEF IdInv
  <2>5. \A l \in listeners' : Sent(l[2], l[1])'
    BY <2>1, SentStays DEF IdInv
  <2> QED
    BY <2>3, <2>4, <2>5 DEF IdInv
<1>2. ASSUME NEW t \in Threads, SubscribeACK(t) PROVE IdInv'
  <2>1. /\ UNCHANGED <<packetId, id>> /\ pc[t] = "numbered" /\ pc' = [pc EXCEPT ![t] = "sent"]
        /\ listeners' = {l \in listeners : l[1] # id[t]} \cup {<<id[t], t>>}
    BY <1>2 DEF SubscribeACK
  <2>2. DOMAIN pc = Threads
    BY DEF TypeInv
  <2>3. Sent(t, id[t])'
    BY <2>1, <2>2 DEF Sent
  <2>4. \A l \in listeners' : Sent(l[2], l[1])'
    BY <2>1, <2>3, SentStays DEF IdInv
  <2>5. \A u \in Threads : pc'[u] # "idle" => pc[u] # "idle"
    BY <2>1, <2>2
  <2> QED
    BY <2>1, <2>4, <2>5 DEF IdInv
<1>5. ASSUME NEW t \in Threads, EmitThrows(t) PROVE IdInv'
  <2>1. /\ UNCHANGED <<packetId, id, listeners>> /\ pc[t] = "numbered"
        /\ pc' = [pc EXCEPT ![t] = "thrown"] /\ DOMAIN pc = Threads
    BY <1>5 DEF EmitThrows, TypeInv
  <2>2. \A u \in Threads : pc'[u] # "idle" => pc[u] # "idle"
    BY <2>1
  <2> QED
    BY <2>1, <2>2, SentStays DEF IdInv
<1>3. CASE UNCHANGED <<packetId, pc, id>> /\ listeners' \subseteq listeners
  BY <1>3, SentStays DEF IdInv
<1>4. \/ \E t \in Threads : GetNewPacketId(t) \/ EmitThrows(t) \/ SubscribeACK(t)
      \/ UNCHANGED <<packetId, pc, id>> /\ listeners' \subseteq listeners
  BY DEF Next, Server, Send, SendFails, Read, CallACKListener, Expire, Break,
         DecoderAdd, Ack, ClientEmit, vars, emitting
<1> QED
  BY <1>1, <1>2, <1>3, <1>4, <1>5

EventOf(t, n) == {m \in DownMessages : m.type = "event" => m.of = t /\ m.n = n}

LEMMA EventWire ==
  ASSUME NEW t \in Threads, NEW n \in Nat, NEW args \in Seq(Kinds)
  PROVE  ServerWire("event", t, n, args) \in Seq(EventOf(t, n))
<1> DEFINE p == Packet("event", t, n, args)
<1>1. t \in Sources
  BY DEF Sources
<1>2. p \in Packets /\ Formed(p, 0) /\ p.type = "event" /\ p.of = t /\ p.n = n
  BY <1>1, PacketType
<1> HIDE DEF p
<1>3. {p} \cup Attachments \subseteq EventOf(t, n)
  BY <1>2 DEF EventOf, DownMessages, DownKind, Attachments
<1>4. Wire(p) \in Seq(EventOf(t, n))
  BY <1>1, <1>2, <1>3, WireMessages, SeqMonotonic
<1> QED
  BY <1>4, EmptySeq DEF ServerWire, p

LEMMA AnswerWire ==
  ASSUME NEW k \in UpEvents, NEW n \in Nat, NEW args \in Seq(Kinds)
  PROVE  ServerWire("ack", k, n, args) \in Seq(DownSent)
<1> DEFINE p == Packet("ack", k, n, args)
<1>1. k \in Sources
  BY DEF Sources
<1>2. p \in Packets /\ Formed(p, 0) /\ p.type = "ack" /\ p.of = k
  BY <1>1, PacketType
<1> HIDE DEF p
<1>3. {p} \cup Attachments \subseteq DownSent
  BY <1>2 DEF DownSent, DownMessages, DownKind, Attachments
<1>4. Wire(p) \in Seq(DownSent)
  BY <1>1, <1>2, <1>3, WireMessages, SeqMonotonic
<1> QED
  BY <1>4, EmptySeq DEF ServerWire, p

LEMMA FlowSending ==
  ASSUME TypeInv, FlowInv, [Next]_vars, NEW t \in Threads \cup {Reader},
         \/ t \in Threads /\ (GetNewPacketId(t) \/ EmitThrows(t) \/ SubscribeACK(t))
         \/ Send(t) \/ SendFails(t) \/ Expire \/ Break \/ CallACKListener \/ UNCHANGED vars
  PROVE  FlowInv'
<1>1. /\ out' \in [Threads \cup {Reader} -> Seq(DownSent)'] /\ down' \in Seq(DownSent)'
  <2>1. CASE t \in Threads /\ SubscribeACK(t)
    <3>1. Sent(t, id[t])' /\ id[t] \in Nat /\ Args[t] \in Seq(Kinds) /\ down' = down
      BY <2>1, Constants DEF SubscribeACK, Sent, TypeInv, channels
    <3>2. ServerWire("event", t, id[t], Args[t]) \in Seq(EventOf(t, id[t]))
      BY <2>1, <3>1, EventWire
    <3>3. EventOf(t, id[t]) \subseteq DownSent'
      <4>1. id' = id
        BY <2>1 DEF SubscribeACK
      <4> QED
        BY <3>1, <4>1 DEF EventOf, DownSent
    <3>4. ServerWire("event", t, id[t], Args[t]) \in Seq(DownSent)'
      BY <3>2, <3>3, SeqMonotonic
    <3> QED
      BY <2>1, <3>1, <3>4, SentSets DEF SubscribeACK, FlowInv
  <2>2. CASE Send(t)
    <3>1. out[t] \in Seq(DownSent) /\ out[t] # <<>>
      BY <2>2 DEF Send, FlowInv
    <3>2. Head(out[t]) \in DownSent /\ Tail(out[t]) \in Seq(DownSent)
      BY <3>1, HeadTailProperties
    <3>3. down' \in Seq(DownSent) /\ out' \in [Threads \cup {Reader} -> Seq(DownSent)]
      BY <2>2, <3>2, AppendProperties DEF Send, FlowInv
    <3> QED
      BY <3>3, SentSets
  <2>3. CASE SendFails(t)
    <3>1. down' = down /\ out' \in [Threads \cup {Reader} -> Seq(DownSent)]
      BY <2>3, EmptySeq DEF SendFails, FlowInv, channels
    <3> QED
      BY <3>1, SentSets DEF FlowInv
  <2>4. CASE UNCHANGED <<out, down>>
    BY <2>4, SentSets DEF FlowInv
  <2> QED
    BY <2>1, <2>2, <2>3, <2>4
       DEF GetNewPacketId, EmitThrows, Expire, Break, CallACKListener, vars, channels
<1>2. UNCHANGED <<up, recon, receiveBuffer, got>>
  BY DEF GetNewPacketId, EmitThrows, SubscribeACK, Send, SendFails, Expire, Break, CallACKListener,
         vars, channels, reading, client, application
<1>3. fetched' = fetched \/ fetched' = None
  BY DEF GetNewPacketId, EmitThrows, SubscribeACK, Send, SendFails, Expire, Break, CallACKListener,
         vars, channels, reading, client, application
<1> QED
  BY <1>1, <1>2, <1>3, SentSets, SentStays DEF FlowInv

LEMMA FlowReading ==
  ASSUME TypeInv, IdInv, FlowInv, Read
  PROVE  FlowInv'
<1> DEFINE m == Head(up)
<1>1. m \in UpSent /\ m \in Requests /\ up' \in Seq(UpSent)
  BY HeadTailProperties DEF Read, FlowInv, UpSent
<1>2. UNCHANGED <<pc, id, down, recon, receiveBuffer, got>> /\ OnPacket(m) /\ fetched = None
  BY DEF Read, emitting, client, application
<1>3. DownSent' = DownSent /\ UpSent' = UpSent /\ EventsSent' = EventsSent
      /\ \A t, n : Sent(t, n)' = Sent(t, n)
  BY <1>2 DEF DownSent, UpSent, EventsSent, Sent
<1> HIDE DEF m
<1> DEFINE Goal == /\ out' \in [Threads \cup {Reader} -> Seq(DownSent)]
                   /\ fetched' # None => Sent(fetched'.of, fetched'.n)
<1>4. ASSUME open, m.type = "event" PROVE Goal
  <2>1. OnEvent(m) /\ m.of \in UpEvents /\ m.n \in Nat /\ ServerAnswers[m.of] \in Seq(Kinds)
    BY <1>1, <1>2, <1>4, Constants DEF OnPacket, Requests
  <2>2. ServerWire("ack", m.of, m.n, ServerAnswers[m.of]) \in Seq(DownSent)
    BY <2>1, AnswerWire
  <2>3. out' \in [Threads \cup {Reader} -> Seq(DownSent)] /\ fetched' = fetched
    BY <2>1, <2>2 DEF OnEvent, FlowInv
  <2> QED
    BY <1>2, <2>3
<1>5. ASSUME open, m.type = "ack" PROVE Goal
  <2>1. OnACK(m)
    BY <1>2, <1>5 DEF OnPacket
  <2>2. fetched'.of = m.of /\ fetched'.n = m.n /\ out' = out
    BY <2>1 DEF OnACK
  <2> QED
    BY <1>1, <1>5, <2>2 DEF FlowInv, UpSent
<1>6. ASSUME ~open PROVE Goal
  BY <1>2, <1>6 DEF OnPacket, FlowInv
<1>7. Goal
  BY <1>1, <1>4, <1>5, <1>6 DEF Requests
<1> QED
  BY <1>1, <1>2, <1>3, <1>7 DEF FlowInv

LEMMA FlowDecoded ==
  ASSUME TypeInv, FlowInv, NEW p \in Packets, DownKind(p), NEW data \in Seq(Told),
         p.type = "event" => Sent(p.of, p.n), OnDecoded(p, data)
  PROVE  receiveBuffer' \in Seq(EventsSent) /\ got' \in Seq(EventsSent)
<1> DEFINE e == [of |-> p.of, n |-> p.n, data |-> data]
<1>1. p.n \in Nat /\ p.type \in {"connect", "event", "ack"}
  BY DEF Packets
<1>2. receiveBuffer \in Seq(EventsSent) /\ got \in Seq(EventsSent) /\ connected \in BOOLEAN
  BY DEF FlowInv, TypeInv
<1>3. CASE p.type = "connect"
  <2>1. got' = got \o receiveBuffer /\ receiveBuffer' = <<>>
    BY <1>3 DEF OnDecoded
  <2> QED
    BY <1>2, <2>1, ConcatProperties, EmptySeq
<1>4. CASE p.type = "event"
  <2>1. e \in EventsSent
    BY <1>1, <1>4 DEF DownKind, EventsSent, ThreadEvents, Events, Sources
  <2> HIDE DEF e
  <2>2. Append(got, e) \in Seq(EventsSent) /\ Append(receiveBuffer, e) \in Seq(EventsSent)
    BY <1>2, <2>1, AppendProperties
  <2>3. CASE connected
    <3>1. got' = Append(got, e) /\ receiveBuffer' = receiveBuffer
      BY <1>4, <2>3 DEF OnDecoded, e
    <3> QED
      BY <1>2, <2>2, <3>1
  <2>4. CASE ~connected
    <3>1. receiveBuffer' = Append(receiveBuffer, e) /\ got' = got
      BY <1>4, <2>4 DEF OnDecoded, e
    <3> QED
      BY <1>2, <2>2, <3>1
  <2> QED
    BY <2>3, <2>4
<1>5. CASE p.type = "ack"
  BY <1>2, <1>5 DEF OnDecoded
<1> QED
  BY <1>1, <1>3, <1>4, <1>5

LEMMA FlowDecoding ==
  ASSUME TypeInv, FlowInv, DecoderAdd
  PROVE  FlowInv'
<1> DEFINE m == Head(down)
           Heard == /\ receiveBuffer' \in Seq(EventsSent) /\ got' \in Seq(EventsSent)
                    /\ recon' # None /\ recon'.packet.type = "event"
                         => Sent(recon'.packet.of, recon'.packet.n)
<1>1. m \in DownSent /\ m \in DownMessages /\ down' \in Seq(DownSent)
  BY HeadTailProperties DEF DecoderAdd, FlowInv, DownSent
<1>2. ASSUME UNCHANGED <<got, receiveBuffer>>,
             recon' # None /\ recon'.packet.type = "event"
               => Sent(recon'.packet.of, recon'.packet.n)
      PROVE  Heard
  BY <1>2 DEF FlowInv
<1>3. ASSUME m.type # "binary" PROVE Heard
  <2>1. /\ DecodeString(m) /\ m \in Packets /\ DownKind(m) /\ Formed(m, 0)
        /\ m.type = "event" => Sent(m.of, m.n)
    BY <1>1, <1>3, MessageSorts DEF DecoderAdd, DownSent
  <2> HIDE DEF m
  <2>2. recon' = recon \/ recon'.packet = m
    BY <2>1 DEF DecodeString
  <2>3. CASE m.attachments = 0
    <3>1. m.data \in Seq(Told)
      BY <2>1, <2>3, Finished
    <3>2. OnDecoded(m, m.data)
      BY <2>1, <2>3 DEF DecodeString
    <3> QED
      BY <2>1, <2>2, <3>1, <3>2, FlowDecoded DEF FlowInv
  <2>4. CASE m.attachments # 0
    <3>1. UNCHANGED <<got, receiveBuffer>>
      BY <2>1, <2>4 DEF DecodeString, application
    <3> HIDE DEF Heard
    <3> QED
      BY <1>2, <2>1, <2>2, <3>1 DEF FlowInv
  <2> QED
    BY <2>3, <2>4
<1>4. ASSUME m.type = "binary" PROVE Heard
  <2> DEFINE b == m.buffer
  <2>1. TakeBinaryData(b) /\ b \in Buffers
    BY <1>1, <1>4, MessageSorts DEF DecoderAdd
  <2> HIDE DEF b, m
  <2>2. CASE recon = None
    <3>1. UNCHANGED <<recon, got, receiveBuffer>>
      BY <2>1, <2>2 DEF TakeBinaryData, application
    <3> HIDE DEF Heard
    <3> QED
      BY <1>2, <2>2, <3>1
  <2>3. CASE recon # None
    <3> DEFINE p == recon.packet
               bs == Append(recon.buffers, b)
    <3>1. /\ recon \in Recons /\ p \in Packets /\ DownKind(p) /\ Formed(p, 0)
          /\ recon.buffers \in Seq(Buffers) /\ (p.type = "event" => Sent(p.of, p.n))
      BY <2>3 DEF TypeInv, FlowInv, Recons
    <3>2. bs \in Seq(Buffers)
      BY <2>1, <3>1, AppendProperties
    <3>3. IF Len(bs) = p.attachments
          THEN recon' = None /\ OnDecoded(p, Reconstruct(p.data, bs))
          ELSE /\ recon' = [recon EXCEPT !.buffers = bs]
               /\ UNCHANGED <<got, receiveBuffer>>
      BY <2>1, <2>3 DEF TakeBinaryData, application
    <3> HIDE DEF bs
    <3>4. CASE Len(bs) = p.attachments
      <4>1. Reconstruct(p.data, bs) \in Seq(Told)
        BY <3>1, <3>2, <3>4, ReconstructType
      <4> QED
        BY <3>1, <3>3, <3>4, <4>1, FlowDecoded
    <3>5. CASE Len(bs) # p.attachments
      <4>1. recon'.packet = p
        BY <3>1, <3>3, <3>5 DEF Recons
      <4> HIDE DEF Heard
      <4> QED
        BY <1>2, <3>1, <3>3, <3>5, <4>1
    <3> QED
      BY <3>4, <3>5
  <2> QED
    BY <2>2, <2>3
<1>5. Heard
  BY <1>3, <1>4
<1>6. UNCHANGED <<pc, id, out, up, fetched>>
  BY DEF DecoderAdd, emitting, reading
<1>7. DownSent' = DownSent /\ UpSent' = UpSent /\ EventsSent' = EventsSent
      /\ \A t, n : Sent(t, n)' = Sent(t, n)
  BY <1>6 DEF DownSent, UpSent, EventsSent, Sent
<1> QED
  BY <1>1, <1>5, <1>6, <1>7 DEF FlowInv

LEMMA FlowClientSends ==
  ASSUME TypeInv, FlowInv, Ack \/ ClientEmit
  PROVE  FlowInv'
<1>1. UNCHANGED <<pc, id, out, down, fetched, recon, receiveBuffer, got>>
  BY DEF Ack, ClientEmit, emitting, reading, application
<1>2. DownSent' = DownSent /\ UpSent' = UpSent /\ EventsSent' = EventsSent
      /\ \A t, n : Sent(t, n)' = Sent(t, n)
  BY <1>1 DEF DownSent, UpSent, EventsSent, Sent
<1>3. up \in Seq(UpSent)
  BY DEF FlowInv
<1>4. CASE Ack
  <2>1. PICK i \in DOMAIN got :
          up' = Append(up, [type |-> "ack", of |-> got[i].of, n |-> got[i].n])
    BY <1>4 DEF Ack
  <2>2. got[i] \in EventsSent
    BY LenProperties, ElementOfSeq DEF FlowInv
  <2>3. [type |-> "ack", of |-> got[i].of, n |-> got[i].n] \in UpSent
    BY <2>2 DEF EventsSent, ThreadEvents, Events, UpSent, Requests
  <2>4. up' \in Seq(UpSent)
    BY <1>3, <2>1, <2>3, AppendProperties
  <2> QED
    BY <1>1, <1>2, <2>4 DEF FlowInv
<1>5. CASE ClientEmit
  <2>1. emitted + 1 \in UpEvents /\ emitted \in Nat
    BY <1>5, Constants DEF ClientEmit, TypeInv, UpEvents
  <2>2. [type |-> "event", of |-> emitted + 1, n |-> emitted] \in UpSent
    BY <2>1 DEF UpSent, Requests
  <2>3. up' \in Seq(UpSent)
    BY <1>3, <1>5, <2>2, AppendProperties DEF ClientEmit
  <2> QED
    BY <1>1, <1>2, <2>3 DEF FlowInv
<1> QED
  BY <1>4, <1>5

LEMMA FlowStep ==
  ASSUME TypeInv, IdInv, FlowInv, [Next]_vars
  PROVE  FlowInv'
<1>1. CASE \E t \in Threads : GetNewPacketId(t) \/ EmitThrows(t) \/ SubscribeACK(t)
  BY <1>1, FlowSending
<1>2. CASE \E t \in Threads \cup {Reader} : Send(t) \/ SendFails(t)
  BY <1>2, FlowSending
<1>3. CASE Expire \/ Break \/ CallACKListener \/ UNCHANGED vars
  <2>1. Reader \in Threads \cup {Reader}
    OBVIOUS
  <2> QED
    BY <1>3, <2>1, FlowSending
<1>4. CASE Read
  BY <1>4, FlowReading
<1>5. CASE DecoderAdd \/ Ack \/ ClientEmit
  BY <1>5, FlowDecoding, FlowClientSends
<1> QED
  BY <1>1, <1>2, <1>3, <1>4, <1>5 DEF Next, Server

LEMMA SentPc ==
  ASSUME TypeInv, [Next]_vars, NEW t \in Threads, pc[t] = "sent"
  PROVE  pc'[t] = "sent"
<1>1. Sent(t, id[t])
  BY DEF Sent
<1>2. \A n : Sent(t, n) => Sent(t, n)'
  BY SentStays
<1>3. \A n : Sent(t, n)' => pc'[t] = "sent"
  BY DEF Sent
<1> QED
  BY <1>1, <1>2, <1>3

LEMMA CallStep ==
  ASSUME TypeInv, IdInv, FlowInv, CallInv, [Next]_vars
  PROVE  CallInv'
<1>1. /\ calls \in Seq(Calls) /\ Len(calls) \in Nat /\ DOMAIN calls = 1 .. Len(calls)
      /\ \A i \in DOMAIN calls : calls[i].waits \in Threads
  <2>1. calls \in Seq(Calls)
    BY DEF TypeInv
  <2>2. Len(calls) \in Nat /\ DOMAIN calls = 1 .. Len(calls)
    BY <2>1, LenProperties
  <2>3. \A i \in DOMAIN calls : calls[i] \in Calls
    BY <2>1, <2>2, ElementOfSeq
  <2> QED
    BY <2>1, <2>2, <2>3 DEF Calls
<1>2. \A t \in Threads : pc[t] = "sent" => pc'[t] = "sent"
  BY SentPc
<1>3. \A t, n : Sent(t, n) => Sent(t, n)'
  BY SentStays
<1>4. ASSUME UNCHANGED <<fetched, calls>>, listeners' \subseteq listeners
      PROVE  CallInv'
  BY <1>1, <1>2, <1>3, <1>4 DEF CallInv
<1>5. ASSUME NEW t \in Threads, SubscribeACK(t) PROVE CallInv'
  <2>1. /\ pc[t] = "numbered" /\ UNCHANGED <<fetched, calls>>
        /\ listeners' \subseteq listeners \cup {<<id[t], t>>}
    BY <1>5 DEF SubscribeACK, reading
  <2>2. \A i \in DOMAIN calls : \A l \in listeners' : l[2] # calls[i].waits
    BY <2>1 DEF CallInv
  <2> QED
    BY <1>1, <1>2, <1>3, <2>1, <2>2 DEF CallInv
<1>6. ASSUME Read PROVE CallInv'
  <2>1. UNCHANGED <<listeners, calls, pc>>
    BY <1>6 DEF Read, OnPacket, OnEvent, OnACK, emitting
  <2>2. fetched' = fetched
        \/ \E n : fetched'.waits = {l[2] : l \in {x \in listeners : x[1] = n}} /\ fetched'.n = n
    BY <1>6 DEF Read, OnPacket, OnEvent, OnACK
  <2>3. \A n : \A t \in {l[2] : l \in {x \in listeners : x[1] = n}} :
          Sent(t, n) /\ \A i \in DOMAIN calls : calls[i].waits # t
    BY DEF IdInv, CallInv
  <2>4. fetched' # None => \A t \in fetched'.waits :
          Sent(t, fetched'.n) /\ \A i \in DOMAIN calls : calls[i].waits # t
    BY <2>2, <2>3 DEF CallInv
  <2> QED
    BY <1>1, <1>2, <1>3, <2>1, <2>4 DEF CallInv
<1>7. ASSUME CallACKListener PROVE CallInv'
  <2> DEFINE w == CHOOSE t \in fetched.waits : TRUE
             c == [waits |-> w, of |-> fetched.of]
  <2>1. /\ fetched # None /\ fetched' = None /\ UNCHANGED <<pc, id>>
        /\ listeners' = {l \in listeners : l[1] # fetched.n}
        /\ calls' = IF fetched.waits = {} THEN calls ELSE Append(calls, c)
    BY <1>7 DEF CallACKListener, emitting
  <2>2. CASE fetched.waits = {}
    BY <1>1, <1>2, <2>1, <2>2 DEF CallInv
  <2>3. CASE fetched.waits # {}
    <3>1. w \in fetched.waits
      BY <2>3
    <3>2. Sent(w, fetched.n) /\ Sent(fetched.of, fetched.n)
          /\ \A i \in DOMAIN calls : calls[i].waits # w
      BY <2>1, <3>1 DEF CallInv, FlowInv
    <3>3. w = fetched.of /\ w \in Threads /\ pc[w] = "sent" /\ id[w] = fetched.n
      BY <3>2 DEF Sent, IdInv
    <3>4. c.waits = w /\ c.of = w
      BY <3>3
    <3>5. \A l \in listeners' : l[2] # w
      BY <2>1, <3>3 DEF IdInv, Sent
    <3>6. calls' = Append(calls, c) /\ listeners' \subseteq listeners
      BY <2>1, <2>3
    <3> HIDE DEF c, w
    <3>7. DOMAIN calls' = 1 .. Len(calls) + 1
          /\ \A i \in 1 .. Len(calls) + 1 :
               calls'[i] = IF i \in DOMAIN calls THEN calls[i] ELSE c
      BY <1>1, <3>6
    <3>8. \A i \in DOMAIN calls' :
            \/ i \in DOMAIN calls /\ calls'[i] = calls[i]
            \/ i = Len(calls) + 1 /\ calls'[i] = c
      BY <1>1, <3>7
    <3>9. \A i \in DOMAIN calls' :
            /\ pc'[calls'[i].waits] = "sent" /\ calls'[i].of = calls'[i].waits
            /\ \A l \in listeners' : l[2] # calls'[i].waits
      BY <2>1, <3>3, <3>4, <3>5, <3>6, <3>8 DEF CallInv
    <3>10. \A i, j \in DOMAIN calls' : i # j => calls'[i].waits # calls'[j].waits
      BY <3>2, <3>4, <3>8 DEF CallInv
    <3> QED
      BY <2>1, <3>9, <3>10 DEF CallInv
  <2> QED
    BY <2>2, <2>3
<1>8. \/ \E t \in Threads : SubscribeACK(t)
      \/ Read \/ CallACKListener
      \/ UNCHANGED <<fetched, calls>> /\ listeners' \subseteq listeners
  <2> DEFINE Goal == UNCHANGED <<fetched, calls>> /\ listeners' \subseteq listeners
  <2>1. ASSUME NEW t \in Threads, GetNewPacketId(t) \/ EmitThrows(t) PROVE Goal
    BY <2>1 DEF GetNewPacketId, EmitThrows, reading
  <2>2. ASSUME NEW t \in Threads \cup {Reader}, Send(t) \/ SendFails(t) PROVE Goal
    BY <2>2 DEF Send, SendFails, reading
  <2>3. ASSUME Expire \/ Break \/ DecoderAdd \/ Ack \/ ClientEmit \/ UNCHANGED vars PROVE Goal
    BY <2>3 DEF Expire, Break, DecoderAdd, Ack, ClientEmit, vars, reading
  <2> HIDE DEF Goal
  <2> QED
    BY <2>1, <2>2, <2>3 DEF Next, Server, Goal
<1> QED
  BY <1>4, <1>5, <1>6, <1>7, <1>8

-----------------------------------------------------------------------------
LEMMA InitInv == Init => IdInv /\ FlowInv /\ CallInv
<1> SUFFICES ASSUME Init PROVE IdInv /\ FlowInv /\ CallInv
  OBVIOUS
<1>1. TypeInv
  BY InitType
<1>2. IdInv
  BY DEF Init, IdInv
<1>3. FlowInv
  <2>1. \A m \in DownMessages : m.type = "connect" => m \in DownSent
    BY DEF DownSent
  <2>2. out[Reader] \in Seq(DownMessages) /\ out[Reader] = <<ConnectPacket>>
    BY <1>1 DEF TypeInv, Init
  <2>3. Head(out[Reader]) \in DownMessages
    BY <2>2, HeadTailProperties
  <2>4. ConnectPacket \in DownSent
    BY <2>1, <2>2, <2>3 DEF ConnectPacket
  <2>5. <<ConnectPacket>> \in Seq(DownSent) /\ <<>> \in Seq(DownSent)
        /\ <<>> \in Seq(UpSent) /\ <<>> \in Seq(EventsSent)
    BY <2>4, EmptySeq
  <2>6. out \in [Threads \cup {Reader} -> Seq(DownSent)]
    BY <2>5 DEF Init
  <2> QED
    BY <2>5, <2>6 DEF Init, FlowInv
<1>4. CallInv
  BY DEF Init, CallInv
<1> QED
  BY <1>2, <1>3, <1>4

(* The inductive invariant of the acknowledgements.                         *)
AckInv == TypeInv /\ IdInv /\ FlowInv /\ CallInv

LEMMA AckInvariant == Spec => []AckInv
<1>1. Init => AckInv
  BY InitType, InitInv DEF AckInv
<1>2. AckInv /\ [Next]_vars => AckInv'
  BY TypeStep, IdStep, FlowStep, CallStep DEF AckInv
<1> QED
  BY <1>1, <1>2, PTL DEF Spec

(* An ack listener is called at most once, with the answer of the client's    *)
(* application to the event it was emitted with, whatever threads emit at the *)
(* same time, whose emit throws, and whenever a listener expires.             *)
THEOREM AcksMatch == Spec => []AckMatches
<1>1. AckInv => AckMatches
  BY DEF AckInv, CallInv, AckMatches
<1> QED
  BY <1>1, AckInvariant, PTL

-----------------------------------------------------------------------------
(* The events of the client.  Each is under way to the server once or has     *)
(* been told, and its packet has the id it was given.                         *)
IsEvent(m) == m.type = "event"

UpInv ==
  /\ served \subseteq 1 .. emitted
  /\ \A i \in DOMAIN up : IsEvent(up[i]) =>
       up[i].of \in 1 .. emitted /\ up[i].of \notin served /\ up[i].n + 1 = up[i].of
  /\ \A i, j \in DOMAIN up :
       i # j /\ IsEvent(up[i]) /\ IsEvent(up[j]) => up[i].of # up[j].of

LEMMA UpAppended ==
  ASSUME TypeInv, UpInv, emitted \in Nat, emitted' \in {emitted, emitted + 1}, served' = served,
         NEW m \in Requests, up' = Append(up, m),
         IsEvent(m) => emitted' = emitted + 1 /\ m.of = emitted + 1 /\ m.n + 1 = m.of
  PROVE  UpInv'
<1>1. up \in Seq(Requests) /\ Len(up) \in Nat /\ DOMAIN up = 1 .. Len(up)
  BY LenProperties DEF TypeInv
<1>2. DOMAIN up' = 1 .. Len(up) + 1 /\ up'[Len(up) + 1] = m
      /\ \A i \in DOMAIN up : up'[i] = up[i]
  BY <1>1
<1>3. \A i \in DOMAIN up' : \/ i \in DOMAIN up /\ up'[i] = up[i]
                            \/ i = Len(up) + 1 /\ up'[i] = m
  BY <1>1, <1>2
<1>4. 1 .. emitted \subseteq 1 .. emitted' /\ emitted' \in Nat /\ emitted + 1 \notin 1 .. emitted
  OBVIOUS
<1>5. \A i \in DOMAIN up' : IsEvent(up'[i]) =>
        up'[i].of \in 1 .. emitted' /\ up'[i].of \notin served' /\ up'[i].n + 1 = up'[i].of
  BY <1>3, <1>4 DEF UpInv
<1>6. \A i, j \in DOMAIN up' :
        i # j /\ IsEvent(up'[i]) /\ IsEvent(up'[j]) => up'[i].of # up'[j].of
  <2> SUFFICES ASSUME NEW i \in DOMAIN up', NEW j \in DOMAIN up', i # j,
                      IsEvent(up'[i]), IsEvent(up'[j])
               PROVE  up'[i].of # up'[j].of
    OBVIOUS
  <2>1. CASE i \in DOMAIN up /\ j \in DOMAIN up
    BY <1>2, <2>1 DEF UpInv
  <2>2. CASE i \in DOMAIN up /\ j \notin DOMAIN up
    BY <1>3, <1>4, <2>2 DEF UpInv
  <2>3. CASE i \notin DOMAIN up /\ j \in DOMAIN up
    BY <1>3, <1>4, <2>3 DEF UpInv
  <2> QED
    BY <1>3, <2>1, <2>2, <2>3
<1> QED
  BY <1>4, <1>5, <1>6 DEF UpInv

LEMMA UpStep ==
  ASSUME TypeInv, UpInv, [Next]_vars
  PROVE  UpInv'
<1>1. up \in Seq(Requests) /\ Len(up) \in Nat /\ DOMAIN up = 1 .. Len(up) /\ emitted \in Nat
  BY LenProperties, Constants DEF TypeInv
<1>2. CASE UNCHANGED <<up, emitted, served>>
  BY <1>2 DEF UpInv
<1>3. CASE Read
  <2>1. up # <<>> /\ up' = Tail(up) /\ emitted' = emitted /\ OnPacket(Head(up))
    BY <1>3 DEF Read, client
  <2>2. DOMAIN up' = 1 .. Len(up) - 1 /\ \A i \in DOMAIN up' : up'[i] = up[i + 1] /\ i + 1 \in DOMAIN up
    BY <1>1, <2>1
  <2>3. 1 \in DOMAIN up /\ Head(up) = up[1]
    BY <1>1, <2>1
  <2>4. served' = served \/ (IsEvent(up[1]) /\ served' = served \cup {up[1].of})
    BY <2>1, <2>3 DEF OnPacket, OnEvent, OnACK, IsEvent
  <2>5. \A i \in DOMAIN up' : i + 1 # 1 /\ (IsEvent(up[1]) /\ IsEvent(up'[i]) => up'[i].of # up[1].of)
    BY <2>2, <2>3 DEF UpInv
  <2>6. served' \subseteq 1 .. emitted'
    BY <2>1, <2>3, <2>4 DEF UpInv
  <2>7. \A i \in DOMAIN up' : IsEvent(up'[i]) =>
          up'[i].of \in 1 .. emitted' /\ up'[i].of \notin served' /\ up'[i].n + 1 = up'[i].of
    BY <2>1, <2>2, <2>4, <2>5 DEF UpInv
  <2>8. \A i, j \in DOMAIN up' :
          i # j /\ IsEvent(up'[i]) /\ IsEvent(up'[j]) => up'[i].of # up'[j].of
    <3> TAKE i, j \in DOMAIN up'
    <3>1. i # j => i + 1 # j + 1
      BY <2>2, <1>1
    <3> QED
      BY <2>2, <3>1 DEF UpInv
  <2> QED
    BY <2>6, <2>7, <2>8 DEF UpInv
<1>4. CASE Ack
  <2>1. PICK i \in DOMAIN got :
          up' = Append(up, [type |-> "ack", of |-> got[i].of, n |-> got[i].n])
          /\ emitted' = emitted /\ served' = served
    BY <1>4 DEF Ack, reading
  <2>2. got[i] \in ThreadEvents
    BY LenProperties, ElementOfSeq DEF TypeInv
  <2>3. [type |-> "ack", of |-> got[i].of, n |-> got[i].n] \in Requests
    BY <2>2 DEF ThreadEvents, Events, Requests
  <2> QED
    BY <1>1, <2>1, <2>3, UpAppended DEF IsEvent
<1>5. CASE ClientEmit
  <2>1. emitted + 1 \in UpEvents /\ emitted' = emitted + 1 /\ served' = served
        /\ up' = Append(up, [type |-> "event", of |-> emitted + 1, n |-> emitted])
    BY <1>1, <1>5, Constants DEF ClientEmit, UpEvents, reading
  <2>2. [type |-> "event", of |-> emitted + 1, n |-> emitted] \in Requests
    BY <1>1, <2>1 DEF Requests
  <2> QED
    BY <1>1, <2>1, <2>2, UpAppended
<1>6. \/ Read \/ Ack \/ ClientEmit \/ UNCHANGED <<up, emitted, served>>
  <2> DEFINE Goal == UNCHANGED <<up, emitted, served>>
  <2>1. ASSUME NEW t \in Threads, GetNewPacketId(t) \/ EmitThrows(t) \/ SubscribeACK(t) PROVE Goal
    BY <2>1 DEF GetNewPacketId, EmitThrows, SubscribeACK, channels, reading, client
  <2>2. ASSUME NEW t \in Threads \cup {Reader}, Send(t) \/ SendFails(t) PROVE Goal
    BY <2>2 DEF Send, SendFails, channels, reading, client
  <2>3. ASSUME CallACKListener \/ Expire \/ Break \/ DecoderAdd \/ UNCHANGED vars PROVE Goal
    BY <2>3 DEF CallACKListener, Expire, Break, DecoderAdd, vars, channels, reading, client
  <2> HIDE DEF Goal
  <2> QED
    BY <2>1, <2>2, <2>3 DEF Next, Server, Goal
<1> QED
  BY <1>2, <1>3, <1>4, <1>5, <1>6

LEMMA UpInit == Init => UpInv
BY DEF Init, UpInv

-----------------------------------------------------------------------------
(* The way to the client.  The owner of a message is the packet it belongs   *)
(* to; a mark is how far a packet has got: its owner, and how many of its    *)
(* attachments are in front.                                                 *)
Owners      == ({"event"} \X Threads) \cup ({"ack"} \X UpEvents)
DownArgs(o) == IF o[1] = "event" THEN Args[o[2]] ELSE ServerAnswers[o[2]]
Amount(o)   == IF HasBinary(DownArgs(o)) THEN Cardinality(Extracted(DownArgs(o))) ELSE 0
Owner(m)    == IF m.type = "binary" THEN <<m.buffer[2], m.buffer[3]>> ELSE <<m.type, m.of>>

Carries(m) == m.type = "binary" \/ m.bin
After(m)   == <<Owner(m), IF m.type = "binary" THEN m.buffer[4] + 1 ELSE 0>>
Before(m)  == <<Owner(m), m.buffer[4]>>

(* The headers and attachments that threads send.                            *)
IsHeader(p) ==
  \/ p = ConnectPacket
  \/ /\ p.type # "binary" /\ Owner(p) \in Owners
     /\ p = Packet(p.type, p.of, p.n, DownArgs(Owner(p)))
     /\ p.type = "ack" => p.n + 1 = p.of
IsAttachment(m) ==
  /\ m \in Attachments /\ Owner(m) \in Owners /\ m.buffer[4] < Amount(Owner(m))
IsDown(m) == IF m.type = "binary" THEN IsAttachment(m) ELSE IsHeader(m)

Senders        == Threads \cup {Reader}
Outstanding(u) == out[u] # <<>> /\ Head(out[u]).type = "binary"
Waiting(u)     == out[u] # <<>> /\ Head(out[u]).type # "binary"
SenderOf(o)    == IF o[1] = "event" THEN o[2] ELSE Reader

(* From the mark a on, q is what is left of its packet.                      *)
Left(q, a) ==
  /\ Len(q) + a[2] = Amount(a[1])
  /\ \A j \in 1 .. Len(q) : IsAttachment(q[j]) /\ Before(q[j]) = <<a[1], a[2] + j - 1>>

Leaves(u, q) ==
  q # <<>> =>
    /\ IsDown(Head(q)) /\ SenderOf(Owner(Head(q))) = u
    /\ IF Carries(Head(q)) THEN Left(Tail(q), After(Head(q))) ELSE Tail(q) = <<>>

OutInv ==
  /\ \A u \in Senders : Leaves(u, out[u])
  /\ \A t \in Threads : IF pc[t] = "sent" THEN Accepted(Args[t]) ELSE out[t] = <<>>
  /\ \A u, v \in Senders : u # v /\ Outstanding(u) /\ Outstanding(v)
       => Owner(Head(out[u])) \in mixed
  /\ \A i \in 1 .. Len(down) : IsDown(down[i])
  /\ recon # None => IsHeader(recon.packet)

(* What comes before the place i in q, if r is the mark in front of q.       *)
NoMark == <<>>
Priors(q, r, i) ==
  {After(q[j]) : j \in {k \in 1 .. i - 1 : /\ Carries(q[k])
                                           /\ \A l \in k + 1 .. i - 1 : ~Carries(q[l])}}
  \cup {a \in {r} : \A l \in 1 .. i - 1 : ~Carries(q[l])}

(* The decoder has a packet that waits for attachments.  One without any is  *)
(* left in the decoder after it has been told.                               *)
Collecting == recon # None /\ recon.packet.attachments # 0
AtClient == IF Collecting THEN <<Owner(recon.packet), Len(recon.buffers)>> ELSE NoMark

(* Nothing more is to come of the packet, or it is mixed.                    *)
Dead(a)     == a = NoMark \/ a[1] \in mixed \/ a[2] = Amount(a[1])
Joins(a, m) == a = Before(m) \/ (Owner(m) \in mixed /\ Dead(a))

(* The attachments of a packet that is not mixed follow it in order, with    *)
(* only packets without attachments in between: where x comes after the mark *)
(* a, and where a is the last mark on the way.                               *)
Fits(a, x) ==
  /\ x.type = "binary" => Joins(a, x)
  /\ open /\ x.type # "binary" /\ Carries(x) => Dead(a)
Ends(a) ==
  /\ \A u \in Senders : Outstanding(u) => Joins(a, Head(out[u]))
  /\ open => Dead(a) \/ \E u \in Senders : Outstanding(u) /\ a = Before(Head(out[u]))

ChainInv ==
  /\ \A i \in 1 .. Len(down) : \A a \in Priors(down, AtClient, i) : Fits(a, down[i])
  /\ \A a \in Priors(down, AtClient, Len(down) + 1) : Ends(a)

(* The packets of which the header is in q, and that none is there twice.      *)
HeaderOf(m) == IF m.type = "binary" THEN {} ELSE {Owner(m)}
Headers(q)  == UNION {HeaderOf(q[i]) : i \in 1 .. Len(q)}
Once(q) == \A i, j \in 1 .. Len(q) : i # j => HeaderOf(q[i]) \cap HeaderOf(q[j]) = {}

(* Where the packets are that have been made: with their sender, on their    *)
(* way, at the decoder, or with the client's application.                    *)
Made    == {<<"connect", Reader>>} \cup {<<"event", t>> : t \in {u \in Threads : pc[u] = "sent"}}
           \cup {<<"ack", k>> : k \in served}
AtSender == {Owner(Head(out[u])) : u \in {v \in Senders : Waiting(v)}}
OnTheWay == Headers(down)
Decoding == IF Collecting THEN {Owner(recon.packet)} ELSE {}
Of(s)    == {s[i].of : i \in DOMAIN s}
Decoded  == {o \in {<<"connect", Reader>>} : connected}
            \cup {<<"event", t>> : t \in Of(got) \cup Of(receiveBuffer)}
            \cup {<<"ack", k>> : k \in Of(called)}

(* The client's application is told nothing twice.                           *)
TellInv ==
  /\ Distinct(got) /\ Distinct(receiveBuffer) /\ Distinct(called)
  /\ Of(got) \cap Of(receiveBuffer) = {} /\ (connected => receiveBuffer = <<>>)

PlaceInv ==
  /\ AtSender \cup OnTheWay \cup Decoding \cup Decoded \subseteq Made
  /\ AtSender \cap (OnTheWay \cup Decoding \cup Decoded) = {}
  /\ OnTheWay \cap (Decoding \cup Decoded) = {} /\ Decoding \cap Decoded = {}
  /\ Once(down)
  /\ open => \A o \in Made : \/ (o \in Owners /\ ~Accepted(DownArgs(o)))
                              \/ o \in AtSender \cup OnTheWay \cup Decoding \cup Decoded \cup mixed

(* The client stops polling only for an attachment that was mixed.             *)
StuckInv == stuck => mixed # {}

(* The numbers of the client's ack callbacks, and what the client has of a     *)
(* packet.                                                                     *)
AckNumbers == \A k \in 1 .. emitted : k - 1 \in acks \/ <<"ack", k>> \in Decoded

Right(e, o) ==
  Faithful(DownArgs(o)) /\ o \notin mixed => e.data = Whole(o[1], o[2], DownArgs(o))

ClientInv ==
  /\ Collecting /\ Owner(recon.packet) \notin mixed =>
       \A l \in 1 .. Len(recon.buffers) :
         recon.buffers[l] = Buffer(recon.packet.type, recon.packet.of, l - 1)
  /\ \A i \in DOMAIN got : Right(got[i], <<"event", got[i].of>>)
  /\ \A i \in DOMAIN receiveBuffer : Right(receiveBuffer[i], <<"event", receiveBuffer[i].of>>)
  /\ \A i \in DOMAIN called :
       called[i].of = called[i].n + 1 /\ Right(called[i], <<"ack", called[i].of>>)

DownInv ==
  OutInv /\ ChainInv /\ PlaceInv /\ TellInv /\ StuckInv /\ AckNumbers /\ ClientInv

(* How many attachments a header stands for.                                 *)
LEMMA OwnerFacts ==
  ASSUME NEW o \in Owners
  PROVE  /\ o = <<o[1], o[2]>> /\ o[1] \in {"event", "ack"} /\ o[2] \in Sources
         /\ (o[1] = "event" => o[2] \in Threads) /\ (o[1] = "ack" => o[2] \in UpEvents)
         /\ DownArgs(o) \in Seq(Kinds) /\ Amount(o) \in Nat
<1>1. /\ o = <<o[1], o[2]>> /\ o[1] \in {"event", "ack"} /\ o[2] \in Sources
      /\ (o[1] = "event" => o[2] \in Threads) /\ (o[1] = "ack" => o[2] \in UpEvents)
  BY DEF Owners, Sources
<1>2. DownArgs(o) \in Seq(Kinds)
  BY <1>1, Constants DEF DownArgs
<1>3. Amount(o) \in Nat
  BY <1>2, Numbering DEF Amount
<1> QED
  BY <1>1, <1>2, <1>3

LEMMA HeaderFacts ==
  ASSUME NEW p, IsHeader(p)
  PROVE  /\ p.type # "binary" /\ Owner(p) = <<p.type, p.of>> /\ p.attachments \in Nat
         /\ p.bin \in BOOLEAN /\ (~p.bin => p.attachments = 0)
         /\ \/ p = ConnectPacket /\ Owner(p) = <<"connect", Reader>> /\ ~p.bin
            \/ /\ Owner(p) \in Owners /\ p.type \in {"event", "ack"}
               /\ p.attachments = Amount(Owner(p)) /\ p.bin = HasBinary(DownArgs(Owner(p)))
               /\ p = Packet(p.type, p.of, p.n, DownArgs(Owner(p)))
               /\ (p.type = "ack" => p.n + 1 = p.of)
<1>1. CASE p = ConnectPacket
  <2>1. p.type = "connect" /\ p.attachments = 0 /\ p.of = Reader /\ p.bin = FALSE
    BY <1>1 DEF ConnectPacket
  <2>2. Owner(p) = <<p.type, p.of>>
    BY <2>1 DEF Owner
  <2>3. p.attachments \in Nat /\ p.type # "binary" /\ Owner(p) = <<"connect", Reader>>
    BY <2>1, <2>2
  <2>4. p.bin \in BOOLEAN /\ ~p.bin
    BY <2>1
  <2> QED
    BY <1>1, <2>1, <2>2, <2>3, <2>4, Zenon
<1>2. CASE p # ConnectPacket
  <2> DEFINE o == Owner(p)
             args == DownArgs(o)
  <2>1. /\ o \in Owners /\ p.type # "binary" /\ p = Packet(p.type, p.of, p.n, args)
        /\ (p.type = "ack" => p.n + 1 = p.of)
    BY <1>2 DEF IsHeader
  <2>2. o[1] \in {"event", "ack"} /\ args \in Seq(Kinds) /\ Amount(o) \in Nat
    BY <2>1, OwnerFacts
  <2>3. /\ Packet(p.type, p.of, p.n, args).attachments = Amount(o)
        /\ Packet(p.type, p.of, p.n, args).bin = HasBinary(args)
    BY DEF Amount, Packet
  <2>4. p.attachments = Amount(o) /\ p.bin = HasBinary(args)
    BY <2>1, <2>3
  <2>5. HasBinary(args) \in BOOLEAN /\ (~HasBinary(args) => Amount(o) = 0)
    BY DEF HasBinary, Amount
  <2>6. o = <<p.type, p.of>>
    BY <2>1 DEF Owner
  <2>7. p.type \in {"event", "ack"}
    BY <2>2, <2>6
  <2> HIDE DEF args
  <2> QED
    BY <2>1, <2>2, <2>4, <2>5, <2>6, <2>7 DEF args
<1> QED
  BY <1>1, <1>2

LEMMA AttachmentFacts ==
  ASSUME NEW m, IsAttachment(m)
  PROVE  /\ m.type = "binary" /\ m.buffer \in Buffers /\ m.buffer[4] \in Nat
         /\ Owner(m) = <<m.buffer[2], m.buffer[3]>> /\ Owner(m) \in Owners
         /\ m.buffer[4] < Amount(Owner(m)) /\ Carries(m)
         /\ m.buffer = Buffer(Owner(m)[1], Owner(m)[2], m.buffer[4])
<1>1. m \in Attachments /\ Owner(m) \in Owners /\ m.buffer[4] < Amount(Owner(m))
  BY DEF IsAttachment
<1>2. m.type = "binary" /\ m.buffer \in Buffers
  BY <1>1 DEF Attachments
<1>3. m.buffer[4] \in Nat /\ m.buffer = <<"buffer", m.buffer[2], m.buffer[3], m.buffer[4]>>
  BY <1>2 DEF Buffers
<1>4. Owner(m) = <<m.buffer[2], m.buffer[3]>>
  BY <1>2 DEF Owner
<1> QED
  BY <1>1, <1>2, <1>3, <1>4 DEF Carries, Buffer

LEMMA DownFacts ==
  ASSUME NEW m, IsDown(m)
  PROVE  /\ m.type = "binary" => IsAttachment(m)
         /\ m.type # "binary" => IsHeader(m)
  BY DEF IsDown

(* What a thread sends of a packet it has made.                              *)
LEMMA WireLeaves ==
  ASSUME NEW o \in Owners, NEW n \in Nat, o[1] = "ack" => n + 1 = o[2]
  PROVE  LET q == ServerWire(o[1], o[2], n, DownArgs(o))
         IN  /\ Leaves(SenderOf(o), q)
             /\ q # <<>> => Head(q).type # "binary" /\ Owner(Head(q)) = o
             /\ q # <<>> <=> Accepted(DownArgs(o))
<1> DEFINE args == DownArgs(o)
           p == Packet(o[1], o[2], n, args)
           q == ServerWire(o[1], o[2], n, args)
<1>1. /\ o = <<o[1], o[2]>> /\ o[1] \in {"event", "ack"} /\ o[2] \in Sources
      /\ args \in Seq(Kinds) /\ Amount(o) \in Nat
  BY OwnerFacts
<1> HIDE DEF args
<1>2. /\ p \in Packets /\ p.type = o[1] /\ p.of = o[2] /\ p.n = n /\ p.attachments \in Nat
      /\ p.bin = HasBinary(args)
  BY <1>1, PacketType
<1>3. CASE ~Accepted(args)
  <2>1. q = <<>>
    BY <1>3 DEF ServerWire
  <2> QED
    BY <1>3, <2>1 DEF Leaves, args
<1>4. CASE Accepted(args)
  <2>1. p.attachments = Amount(o)
    BY DEF Amount, Packet, args
  <2>2. Owner(p) = o /\ p.type # "binary"
    BY <1>1, <1>2 DEF Owner
  <2>3. p = Packet(p.type, p.of, p.n, DownArgs(Owner(p)))
    BY <1>2, <2>2 DEF args
  <2>4. q = Wire(p)
    BY <1>4 DEF ServerWire
  <2>12. ~p.bin => p.attachments = 0
    BY DEF Packet
  <2> HIDE DEF p, q
  <2>5. IsHeader(p)
    BY <1>1, <1>2, <2>2, <2>3 DEF IsHeader
  <2>6. /\ q \in Seq({p} \cup Attachments) /\ Len(q) = 1 + p.attachments /\ q[1] = p
        /\ \A j \in 1 .. p.attachments :
             q[1 + j] = [type |-> "binary", buffer |-> Buffer(p.type, p.of, j - 1)]
    BY <1>1, <1>2, <2>4, WireMessages
  <2>7. q # <<>>
    <3>1. Len(q) # 0
      BY <1>2, <2>6
    <3> QED
      BY <3>1
  <2> DEFINE r == Tail(q)
  <2>8. Head(q) = p /\ r \in Seq({p} \cup Attachments) /\ Len(r) = p.attachments
        /\ \A k \in 1 .. Len(r) : r[k] = q[k + 1]
    BY <1>2, <2>6, <2>7, HeadTailProperties
  <2> HIDE DEF r
  <2>9. IsDown(Head(q)) /\ Owner(Head(q)) = o
    BY <2>2, <2>5, <2>8 DEF IsDown
  <2>10. CASE Carries(p)
    <3>1. After(p) = <<o, 0>>
      BY <2>2 DEF After
    <3>2. ASSUME NEW j \in 1 .. Len(r)
          PROVE  IsAttachment(r[j]) /\ Before(r[j]) = <<o, 0 + j - 1>>
      <4>1. j \in 1 .. p.attachments /\ j + 1 = 1 + j /\ j - 1 \in Nat /\ j - 1 < p.attachments
            /\ 0 + j - 1 = j - 1
        BY <1>2, <2>8
      <4> DEFINE m == [type |-> "binary", buffer |-> Buffer(p.type, p.of, j - 1)]
      <4>2. r[j] = m
        BY <2>6, <2>8, <4>1
      <4>3. m \in Attachments
        BY <1>1, <1>2, <4>1, BufferType
      <4>4. m.type = "binary" /\ m.buffer[4] = j - 1 /\ <<m.buffer[2], m.buffer[3]>> = o
        BY <1>1, <1>2 DEF Buffer
      <4> HIDE DEF m
      <4>5. Owner(m) = o
        BY <4>4 DEF Owner
      <4> QED
        BY <2>1, <4>1, <4>2, <4>3, <4>4, <4>5 DEF IsAttachment, Before
    <3>3. Left(r, After(p))
      BY <1>1, <2>1, <2>8, <3>1, <3>2 DEF Left
    <3> QED
      BY <1>4, <2>2, <2>7, <2>8, <2>9, <2>10, <3>3 DEF Leaves, q, r, args
  <2>11. CASE ~Carries(p)
    <3>1. p.attachments = 0
      BY <2>2, <2>11, <2>12 DEF Carries
    <3>2. r = <<>>
      BY <2>8, <3>1, EmptySeq
    <3> QED
      BY <1>4, <2>2, <2>7, <2>8, <2>9, <2>11, <3>2 DEF Leaves, q, r, args
  <2> QED
    BY <2>10, <2>11
<1> QED
  BY <1>3, <1>4

LEMMA LeavesTail ==
  ASSUME NEW u, NEW q \in Seq(DownMessages), q # <<>>, Leaves(u, q)
  PROVE  /\ IsDown(Head(q)) /\ SenderOf(Owner(Head(q))) = u
         /\ Leaves(u, Tail(q))
         /\ Tail(q) # <<>> =>
              /\ Carries(Head(q)) /\ Head(Tail(q)).type = "binary"
              /\ IsAttachment(Head(Tail(q)))
              /\ Owner(Head(Tail(q))) = Owner(Head(q))
              /\ Before(Head(Tail(q))) = After(Head(q))
         /\ Tail(q) = <<>> /\ Carries(Head(q)) =>
              After(Head(q))[2] = Amount(Owner(Head(q)))
<1> DEFINE r == Tail(q)
           m == Head(q)
           a == After(m)
<1>1. r \in Seq(DownMessages)
  BY HeadTailProperties
<1>2. IsDown(m) /\ SenderOf(Owner(m)) = u /\ a[1] = Owner(m)
  BY DEF Leaves, After
<1>3. IF Carries(m) THEN Left(r, a) ELSE r = <<>>
  BY DEF Leaves
<1>4. CASE ~Carries(m)
  BY <1>2, <1>3, <1>4 DEF Leaves
<1>5. CASE Carries(m)
  <2>1. a[2] \in Nat
    <3>1. CASE m.type = "binary"
      BY <1>2, <3>1, DownFacts, AttachmentFacts DEF After
    <3>2. CASE m.type # "binary"
      BY <3>2 DEF After
    <3> QED
      BY <3>1, <3>2
  <2>2. /\ Len(r) \in Nat /\ Len(r) + a[2] = Amount(a[1])
        /\ \A j \in 1 .. Len(r) : IsAttachment(r[j]) /\ Before(r[j]) = <<a[1], a[2] + j - 1>>
    BY <1>1, <1>3, <1>5, LenProperties DEF Left
  <2> HIDE DEF a, m, r
  <2>3. CASE r = <<>>
    <3>1. Len(r) = 0
      BY <2>3
    <3>2. a[2] = Amount(a[1])
      BY <2>1, <2>2, <3>1
    <3> QED
      BY <1>2, <2>3, <3>2 DEF Leaves, a, m, r
  <2>4. CASE r # <<>>
    <3> DEFINE x == Head(r)
               s == Tail(r)
    <3>1. /\ s \in Seq(DownMessages) /\ Len(s) = Len(r) - 1 /\ x = r[1]
          /\ \A k \in 1 .. Len(s) : s[k] = r[k + 1]
      BY <1>1, <2>4, HeadTailProperties
    <3>2. 1 \in 1 .. Len(r) /\ a[2] + 1 - 1 = a[2]
      <4>1. Len(r) # 0
        BY <1>1, <2>4, EmptySeq
      <4> QED
        BY <2>1, <2>2, <4>1
    <3> HIDE DEF s, x
    <3>3. IsAttachment(x) /\ Before(x) = <<a[1], a[2]>>
      BY <2>2, <3>1, <3>2
    <3>4. x.type = "binary" /\ Carries(x) /\ IsDown(x)
      BY <3>3, AttachmentFacts DEF IsDown
    <3>5. Owner(x) = a[1] /\ x.buffer[4] = a[2] /\ After(x) = <<a[1], a[2] + 1>>
      BY <3>3, <3>4 DEF Before, After
    <3>6. Left(s, After(x))
      <4>1. Len(s) + (a[2] + 1) = Amount(a[1])
        BY <2>1, <2>2, <3>1
      <4>2. ASSUME NEW j \in 1 .. Len(s)
            PROVE  IsAttachment(s[j]) /\ Before(s[j]) = <<a[1], (a[2] + 1) + j - 1>>
        <5>1. j + 1 \in 1 .. Len(r) /\ a[2] + (j + 1) - 1 = (a[2] + 1) + j - 1
          BY <2>1, <2>2, <3>1
        <5>2. s[j] = r[j + 1]
          BY <3>1
        <5>3. IsAttachment(r[j + 1]) /\ Before(r[j + 1]) = <<a[1], a[2] + (j + 1) - 1>>
          BY <2>2, <5>1
        <5> QED
          BY <5>1, <5>2, <5>3
      <4> QED
        BY <3>5, <4>1, <4>2 DEF Left
    <3>7. Leaves(u, r)
      BY <1>2, <3>4, <3>5, <3>6 DEF Leaves, x, s
    <3>8. Before(x) = a
      BY <3>3 DEF a, After
    <3> QED
      BY <1>2, <1>5, <2>4, <3>3, <3>4, <3>5, <3>7, <3>8 DEF x, a, m, r
  <2> QED
    BY <2>3, <2>4
<1> QED
  BY <1>4, <1>5

(* Marks in front of a place, as the sequence grows and shrinks.             *)
LEMMA PriorsAppend ==
  ASSUME NEW S, NEW q \in Seq(S), NEW m \in S, NEW r
  PROVE  LET x == Append(q, m)
         IN  /\ \A i \in 1 .. Len(q) + 1 : Priors(x, r, i) = Priors(q, r, i)
             /\ Priors(x, r, Len(x) + 1) =
                  IF Carries(m) THEN {After(m)} ELSE Priors(q, r, Len(q) + 1)
<1> DEFINE x == Append(q, m)
           n == Len(q)
<1>1. /\ n \in Nat /\ Len(x) = n + 1 /\ x[n + 1] = m
      /\ \A j \in 1 .. n : x[j] = q[j]
  BY AppendProperties, LenProperties
<1> HIDE DEF x, n
<1>2. ASSUME NEW i \in 1 .. n + 1 PROVE Priors(x, r, i) = Priors(q, r, i)
  <2>1. \A j \in 1 .. i - 1 : x[j] = q[j]
    BY <1>1
  <2>2. \A k \in 1 .. i - 1 : \A l \in k + 1 .. i - 1 : x[l] = q[l]
    BY <1>1
  <2>3. {k \in 1 .. i - 1 : Carries(x[k]) /\ \A l \in k + 1 .. i - 1 : ~Carries(x[l])}
        = {k \in 1 .. i - 1 : Carries(q[k]) /\ \A l \in k + 1 .. i - 1 : ~Carries(q[l])}
    BY <2>1, <2>2
  <2>4. (\A l \in 1 .. i - 1 : ~Carries(x[l])) <=> (\A l \in 1 .. i - 1 : ~Carries(q[l]))
    BY <2>1
  <2> QED
    BY <2>1, <2>3, <2>4 DEF Priors
<1>3. Priors(x, r, n + 2) = IF Carries(m) THEN {After(m)} ELSE Priors(q, r, n + 1)
  <2> DEFINE J(z, i) == {k \in 1 .. i - 1 : Carries(z[k]) /\ \A l \in k + 1 .. i - 1 : ~Carries(z[l])}
  <2>1. (n + 2) - 1 = n + 1 /\ (n + 1) - 1 = n
    BY <1>1
  <2>2. CASE Carries(m)
    <3>1. J(x, n + 2) = {n + 1}
      <4>1. n + 1 \in J(x, n + 2)
        BY <1>1, <2>1, <2>2
      <4>2. ASSUME NEW k \in J(x, n + 2), k # n + 1 PROVE FALSE
        <5>1. n + 1 \in k + 1 .. (n + 2) - 1
          BY <1>1, <2>1, <4>2
        <5> QED
          BY <1>1, <2>2, <5>1
      <4> QED
        BY <4>1, <4>2
    <3>2. ~ \A l \in 1 .. (n + 2) - 1 : ~Carries(x[l])
      BY <1>1, <2>1, <2>2
    <3> QED
      BY <1>1, <2>2, <3>1, <3>2 DEF Priors
  <2>3. CASE ~Carries(m)
    <3>1. J(x, n + 2) = J(q, n + 1)
      <4>1. ASSUME NEW k \in J(x, n + 2) PROVE k \in J(q, n + 1)
        <5>1. k \in 1 .. n /\ Carries(q[k])
          BY <1>1, <2>1, <2>3
        <5>2. \A l \in k + 1 .. n : ~Carries(q[l])
          BY <1>1, <2>1, <5>1
        <5> QED
          BY <2>1, <5>1, <5>2
      <4>2. ASSUME NEW k \in J(q, n + 1) PROVE k \in J(x, n + 2)
        <5>1. k \in 1 .. n /\ Carries(x[k])
          BY <1>1, <2>1
        <5>2. \A l \in k + 1 .. n : ~Carries(x[l])
          BY <1>1, <2>1, <5>1
        <5>3. \A l \in k + 1 .. n + 1 : ~Carries(x[l])
          BY <1>1, <2>3, <5>1, <5>2
        <5> QED
          BY <1>1, <2>1, <5>1, <5>3
      <4> QED
        BY <4>1, <4>2
    <3>2. (\A l \in 1 .. (n + 2) - 1 : ~Carries(x[l])) <=> (\A l \in 1 .. (n + 1) - 1 : ~Carries(q[l]))
      BY <1>1, <2>1, <2>3
    <3>3. \A j \in J(q, n + 1) : x[j] = q[j]
      BY <1>1, <2>1
    <3> QED
      BY <2>3, <3>1, <3>2, <3>3 DEF Priors
  <2> QED
    BY <2>2, <2>3
<1>4. Len(x) + 1 = n + 2
  BY <1>1
<1> QED
  BY <1>2, <1>3, <1>4 DEF x, n

LEMMA PriorsTail ==
  ASSUME NEW S, NEW q \in Seq(S), q # <<>>, NEW i \in 1 .. Len(q), NEW r, NEW s,
         NEW a \in Priors(Tail(q), s, i)
  PROVE  \/ a \in Priors(q, r, i + 1)
         \/ a = s /\ IF Carries(Head(q)) THEN After(Head(q)) \in Priors(q, r, i + 1)
                                          ELSE r \in Priors(q, r, i + 1)
<1> DEFINE t == Tail(q)
           n == Len(q)
<1>1. /\ n \in Nat /\ Len(t) = n - 1 /\ Head(q) = q[1]
      /\ \A k \in 1 .. n - 1 : t[k] = q[k + 1]
  BY HeadTailProperties, LenProperties
<1> HIDE DEF t, n
<1>2. (i + 1) - 1 = i /\ i - 1 \in Nat /\ i <= n
  BY <1>1 DEF n
<1>3. CASE \E j \in 1 .. i - 1 : /\ Carries(t[j]) /\ a = After(t[j])
                                 /\ \A l \in j + 1 .. i - 1 : ~Carries(t[l])
  <2>1. PICK j \in 1 .. i - 1 : /\ Carries(t[j]) /\ a = After(t[j])
                                /\ \A l \in j + 1 .. i - 1 : ~Carries(t[l])
    BY <1>3
  <2>2. j + 1 \in 1 .. (i + 1) - 1 /\ t[j] = q[j + 1]
    BY <1>1, <1>2
  <2>3. ASSUME NEW l \in (j + 1) + 1 .. (i + 1) - 1 PROVE ~Carries(q[l])
    <3>1. l - 1 \in j + 1 .. i - 1 /\ l - 1 \in 1 .. n - 1 /\ (l - 1) + 1 = l
      BY <1>1, <1>2
    <3> QED
      BY <1>1, <2>1, <3>1
  <2>4. a \in Priors(q, r, i + 1)
    BY <2>1, <2>2, <2>3 DEF Priors
  <2> QED
    BY <2>4
<1>4. CASE a = s /\ \A l \in 1 .. i - 1 : ~Carries(t[l])
  <2>1. ASSUME NEW l \in 2 .. i PROVE ~Carries(q[l])
    <3>1. l - 1 \in 1 .. i - 1 /\ l - 1 \in 1 .. n - 1 /\ (l - 1) + 1 = l
      BY <1>1, <1>2
    <3> QED
      BY <1>1, <1>4, <3>1
  <2>2. CASE Carries(q[1])
    <3>1. 1 \in 1 .. (i + 1) - 1 /\ 1 + 1 .. (i + 1) - 1 = 2 .. i
      BY <1>2
    <3>2. After(q[1]) \in Priors(q, r, i + 1)
      BY <2>1, <2>2, <3>1 DEF Priors
    <3> QED
      BY <1>1, <1>4, <2>2, <3>2
  <2>3. CASE ~Carries(q[1])
    <3>1. \A l \in 1 .. (i + 1) - 1 : ~Carries(q[l])
      <4> TAKE l \in 1 .. (i + 1) - 1
      <4>1. l = 1 \/ l \in 2 .. i
        BY <1>2
      <4> QED
        BY <2>1, <2>3, <4>1
    <3>2. r \in Priors(q, r, i + 1)
      BY <3>1 DEF Priors
    <3> QED
      BY <1>1, <1>4, <2>3, <3>2
  <2> QED
    BY <2>2, <2>3
<1> QED
  BY <1>3, <1>4 DEF Priors, t

LEMMA PriorsFirst ==
  ASSUME NEW q, NEW r
  PROVE  Priors(q, r, 1) = {r}
<1>1. 1 .. 1 - 1 = {}
  OBVIOUS
<1> QED
  BY <1>1 DEF Priors

(* A mark in front of an attachment.                                         *)
LEMMA DeadJoins ==
  ASSUME NEW a, NEW m, IsAttachment(m), Dead(a), Joins(a, m)
  PROVE  Owner(m) \in mixed
<1>1. /\ Before(m) = <<Owner(m), m.buffer[4]>> /\ m.buffer[4] < Amount(Owner(m))
      /\ m.buffer[4] \in Nat
  BY AttachmentFacts DEF Before
<1>2. Amount(Owner(m)) \in Nat
  BY AttachmentFacts, OwnerFacts
<1>3. CASE a = Before(m)
  <2>1. a # NoMark
    BY <1>1, <1>3 DEF NoMark
  <2>2. a[1] = Owner(m) /\ a[2] = m.buffer[4] /\ a[2] # Amount(a[1])
    BY <1>1, <1>2, <1>3
  <2> QED
    BY <2>1, <2>2 DEF Dead
<1> QED
  BY <1>3 DEF Joins

-----------------------------------------------------------------------------
LEMMA MixedGrows == [Next]_vars => mixed \subseteq mixed'
  BY DEF Next, Server, GetNewPacketId, EmitThrows, SubscribeACK, Send, SendFails, Read, CallACKListener,
         Expire, Break, DecoderAdd, Ack, ClientEmit, vars

LEMMA DeadStays ==
  ASSUME mixed \subseteq mixed', NEW a
  PROVE  /\ Dead(a) => Dead(a)'
         /\ \A m : Joins(a, m) => Joins(a, m)'
  BY DEF Dead, Joins

(* What Send comes to.                                                       *)
LEMMA SendFacts ==
  ASSUME TypeInv, OutInv, NEW t \in Senders, Send(t)
  PROVE  LET m == Head(out[t])
         IN  /\ out[t] \in Seq(DownMessages) /\ out[t] # <<>> /\ m \in DownMessages
             /\ Tail(out[t]) \in Seq(DownMessages)
             /\ IsDown(m) /\ SenderOf(Owner(m)) = t /\ Leaves(t, Tail(out[t]))
             /\ down \in Seq(DownMessages) /\ down' = Append(down, m)
             /\ out'[t] = Tail(out[t]) /\ \A u \in Senders \ {t} : out'[u] = out[u]
             /\ UNCHANGED <<open, pc, served, recon>> /\ UNCHANGED <<client, application>>
             /\ mixed \subseteq mixed'
             /\ m.type = "binary" \/ ~Carries(m) => mixed' = mixed
             /\ m.type # "binary" /\ Carries(m) =>
                  \A u \in Senders \ {t} : Outstanding(u) =>
                    Owner(m) \in mixed' /\ Owner(Head(out[u])) \in mixed'
<1> DEFINE m == Head(out[t])
           others == {u \in DOMAIN out \ {t} : out[u] # <<>> /\ Head(out[u]).type = "binary"}
<1>1. /\ out[t] # <<>> /\ down' = Append(down, m) /\ out' = [out EXCEPT ![t] = Tail(@)]
      /\ mixed' = IF m.type = "binary" \/ ~m.bin \/ others = {} THEN mixed
                  ELSE mixed \cup {<<m.type, m.of>>}
                         \cup {<<Head(out[u]).buffer[2], Head(out[u]).buffer[3]>> : u \in others}
      /\ UNCHANGED <<open, emitting, reading, client>>
  BY DEF Send
<1>2. /\ out \in [Senders -> Seq(DownMessages)] /\ out[t] \in Seq(DownMessages)
      /\ down \in Seq(DownMessages)
  BY DEF TypeInv, Senders
<1>3. m \in DownMessages /\ Tail(out[t]) \in Seq(DownMessages)
  BY <1>1, <1>2, HeadTailProperties
<1>4. IsDown(m) /\ SenderOf(Owner(m)) = t /\ Leaves(t, Tail(out[t]))
  BY <1>1, <1>2, LeavesTail DEF OutInv
<1>5. out'[t] = Tail(out[t]) /\ \A u \in Senders \ {t} : out'[u] = out[u]
  BY <1>1, <1>2
<1>6. UNCHANGED <<open, pc, served, recon>> /\ UNCHANGED <<client, application>>
  BY <1>1 DEF emitting, reading, client, application
<1> DEFINE M == {<<Head(out[u]).buffer[2], Head(out[u]).buffer[3]>> : u \in others}
<1>7. \A u \in Senders \ {t} : Outstanding(u) => u \in others /\ Owner(Head(out[u])) \in M
  <2> TAKE u \in Senders \ {t}
  <2>1. ASSUME Outstanding(u) PROVE u \in others
    BY <1>2, <2>1 DEF Outstanding
  <2>2. ASSUME Outstanding(u) PROVE Owner(Head(out[u])) \in M
    BY <2>1, <2>2 DEF Outstanding, Owner
  <2> QED
    BY <2>1, <2>2
<1>8. mixed' = IF m.type = "binary" \/ ~m.bin \/ others = {} THEN mixed
               ELSE mixed \cup {<<m.type, m.of>>} \cup M
  BY <1>1
<1> HIDE DEF M, others
<1>9. mixed \subseteq mixed' /\ (m.type = "binary" \/ ~Carries(m) => mixed' = mixed)
  BY <1>8 DEF Carries
<1>10. ASSUME m.type # "binary", Carries(m), NEW u \in Senders \ {t}, Outstanding(u)
       PROVE  Owner(m) \in mixed' /\ Owner(Head(out[u])) \in mixed'
  <2>1. others # {} /\ Owner(Head(out[u])) \in M
    BY <1>7, <1>10
  <2>2. m.bin /\ Owner(m) = <<m.type, m.of>>
    BY <1>10 DEF Carries, Owner
  <2> QED
    BY <1>8, <1>10, <2>1, <2>2
<1> HIDE DEF m
<1> QED
  BY <1>1, <1>2, <1>3, <1>4, <1>5, <1>6, <1>9, <1>10 DEF m

(* What a step does to the way down: it makes a packet, breaks off one, or    *)
(* leaves it alone; or it is Send or DecoderAdd.                              *)
Fixed == UNCHANGED <<down, recon, stuck, mixed, connected, got, receiveBuffer, called>>
Unsent == \A t \in Threads : pc'[t] # "sent" => pc[t] # "sent"

Makes(o, n) ==
  /\ o \in Owners \ Made /\ n \in Nat /\ (o[1] = "ack" => n + 1 = o[2])
  /\ out[SenderOf(o)] = <<>> /\ SenderOf(o) \in Senders
  /\ out' = [out EXCEPT ![SenderOf(o)] = ServerWire(o[1], o[2], n, DownArgs(o))]
  /\ open' = open /\ Fixed /\ Made' = Made \cup {o}
  /\ Unsent /\ (o[1] = "event" => Accepted(DownArgs(o)))
  /\ (SenderOf(o) \in Threads => pc'[SenderOf(o)] = "sent")
BreaksOff(t) ==
  /\ ~open /\ open' = open /\ out' = [out EXCEPT ![t] = <<>>] /\ Fixed
  /\ Made' = Made /\ Unsent
Rests == out' = out /\ Fixed /\ (open' => open) /\ Made' = Made /\ Unsent

LEMMA MadeSame ==
  ASSUME UNCHANGED <<pc, served>>
  PROVE  Made' = Made /\ Unsent
  BY DEF Made, Unsent

LEMMA EventMade ==
  ASSUME TypeInv, OutInv, NEW t \in Threads, SubscribeACK(t)
  PROVE  \E o, n : Makes(o, n)
<1> DEFINE o == <<"event", t>>
<1>1. /\ pc[t] = "numbered" /\ Accepted(Args[t]) /\ pc' = [pc EXCEPT ![t] = "sent"]
      /\ out' = [out EXCEPT ![t] = ServerWire("event", t, id[t], Args[t])]
      /\ UNCHANGED <<open, served>> /\ Fixed
  BY DEF SubscribeACK, Fixed, channels, reading, client, application
<1>2. o \in Owners /\ o[1] = "event" /\ o[2] = t /\ SenderOf(o) = t /\ DownArgs(o) = Args[t]
  BY DEF Owners, SenderOf, DownArgs
<1>3. t \in Senders /\ t # Reader /\ id[t] \in Nat /\ out[t] = <<>> /\ DOMAIN pc = Threads
  BY <1>1, MessagesAssumption DEF MessagesAssumption, TypeInv, OutInv, Senders
<1>4. o \notin Made
  BY <1>1 DEF Made
<1>5. Made' = Made \cup {o}
  <2>1. {u \in Threads : pc'[u] = "sent"} = {u \in Threads : pc[u] = "sent"} \cup {t}
    BY <1>1, <1>3
  <2> QED
    BY <1>1, <2>1 DEF Made
<1>6. Unsent /\ pc'[t] = "sent"
  BY <1>1, <1>3 DEF Unsent
<1> HIDE DEF o
<1>7. Makes(o, id[t])
  BY <1>1, <1>2, <1>3, <1>4, <1>5, <1>6 DEF Makes
<1> QED
  BY <1>7

LEMMA AnswerMade ==
  ASSUME TypeInv, UpInv, NEW m \in Requests, OnPacket(m), open, IsEvent(m), m.n + 1 = m.of,
         m.of \notin served, out[Reader] = <<>>, UNCHANGED <<open, pc>>, Fixed
  PROVE  \E o, n : Makes(o, n)
<1> DEFINE o == <<"ack", m.of>>
<1>1. /\ served' = served \cup {m.of}
      /\ out' = [out EXCEPT ![Reader] = ServerWire("ack", m.of, m.n, ServerAnswers[m.of])]
  BY DEF OnPacket, OnEvent, IsEvent
<1>2. m.of \in UpEvents /\ m.n \in Nat
  BY DEF Requests, IsEvent
<1>3. o \in Owners /\ o[1] = "ack" /\ o[2] = m.of /\ SenderOf(o) = Reader
      /\ DownArgs(o) = ServerAnswers[m.of]
  BY <1>2 DEF Owners, SenderOf, DownArgs
<1>4. o \notin Made
  BY DEF Made
<1>5. Made' = Made \cup {o}
  BY <1>1 DEF Made
<1>6. Unsent /\ Reader \in Senders /\ Reader \notin Threads
  BY MessagesAssumption DEF MessagesAssumption, Unsent, Senders
<1> HIDE DEF o
<1>7. Makes(o, m.n)
  BY <1>1, <1>2, <1>3, <1>4, <1>5, <1>6 DEF Makes
<1> QED
  BY <1>7

LEMMA ReadMakes ==
  ASSUME TypeInv, UpInv, Read
  PROVE  (\E o, n : Makes(o, n)) \/ Rests
<1> DEFINE m == Head(up)
<1>1. /\ out[Reader] = <<>> /\ up # <<>> /\ UNCHANGED <<open, pc>> /\ Fixed /\ OnPacket(m)
  BY DEF Read, emitting, client, application, Fixed
<1>2. m \in Requests /\ m = up[1] /\ 1 \in DOMAIN up
  BY <1>1 DEF TypeInv
<1>3. IsEvent(m) => m.n + 1 = m.of /\ m.of \notin served
  BY <1>2 DEF UpInv
<1> HIDE DEF m
<1>4. CASE UNCHANGED <<out, served>>
  BY <1>1, <1>4, MadeSame DEF Rests
<1>5. CASE open /\ IsEvent(m)
  BY <1>1, <1>2, <1>3, <1>5, AnswerMade
<1>6. CASE ~(open /\ IsEvent(m))
  BY <1>1, <1>4, <1>6 DEF OnPacket, OnACK, IsEvent
<1> QED
  BY <1>5, <1>6

LEMMA DownSteps ==
  ASSUME TypeInv, UpInv, OutInv, [Next]_vars
  PROVE  \/ \E o, n : Makes(o, n)
         \/ \E t \in Senders : Send(t) \/ BreaksOff(t)
         \/ DecoderAdd \/ Rests
<1>1. ASSUME NEW t \in Threads, GetNewPacketId(t) PROVE Rests
  <2>1. /\ pc[t] = "idle" /\ pc' = [pc EXCEPT ![t] = "numbered"] /\ DOMAIN pc = Threads
        /\ UNCHANGED <<open, out, served>> /\ Fixed
    BY <1>1 DEF GetNewPacketId, TypeInv, Fixed, channels, reading, client, application
  <2>2. \A u \in Threads : pc'[u] = "sent" <=> pc[u] = "sent"
    BY <2>1
  <2>3. Made' = Made /\ Unsent
    BY <2>1, <2>2 DEF Made, Unsent
  <2> QED
    BY <2>1, <2>3 DEF Rests
<1>6. ASSUME NEW t \in Threads, EmitThrows(t) PROVE Rests
  <2>1. /\ pc[t] = "numbered" /\ pc' = [pc EXCEPT ![t] = "thrown"] /\ DOMAIN pc = Threads
        /\ UNCHANGED <<open, out, served>> /\ Fixed
    BY <1>6 DEF EmitThrows, TypeInv, Fixed, channels, reading, client, application
  <2>2. \A u \in Threads : pc'[u] = "sent" <=> pc[u] = "sent"
    BY <2>1
  <2>3. Made' = Made /\ Unsent
    BY <2>1, <2>2 DEF Made, Unsent
  <2> QED
    BY <2>1, <2>3 DEF Rests
<1>2. ASSUME NEW t \in Threads, SubscribeACK(t) PROVE \E o, n : Makes(o, n)
  BY <1>2, EventMade
<1>3. ASSUME NEW t \in Senders, SendFails(t) PROVE BreaksOff(t)
  <2>1. UNCHANGED <<open, pc, served>> /\ Fixed
    BY <1>3 DEF SendFails, Fixed, emitting, channels, reading, client, application
  <2> QED
    BY <1>3, <2>1, MadeSame DEF SendFails, BreaksOff
<1>4. ASSUME CallACKListener \/ Expire \/ Break \/ Ack \/ ClientEmit \/ UNCHANGED vars PROVE Rests
  <2>1. UNCHANGED <<pc, served, out>> /\ Fixed /\ (open' => open)
    <3>1. CASE CallACKListener \/ Expire \/ Break
      BY <3>1 DEF CallACKListener, Expire, Break, Fixed, emitting, channels, reading, client,
                  application
    <3>2. CASE Ack
      BY <3>2 DEF Ack, Fixed, emitting, reading, application
    <3>3. CASE ClientEmit
      BY <3>3 DEF ClientEmit, Fixed, emitting, reading
    <3>4. CASE UNCHANGED vars
      BY <3>4 DEF vars, Fixed, emitting, channels, reading, client, application
    <3> QED
      BY <1>4, <3>1, <3>2, <3>3, <3>4
  <2> QED
    BY <2>1, MadeSame DEF Rests
<1>5. ASSUME Read PROVE (\E o, n : Makes(o, n)) \/ Rests
  BY <1>5, ReadMakes
<1> QED
  BY <1>1, <1>2, <1>3, <1>4, <1>5, <1>6 DEF Next, Server, Senders

-----------------------------------------------------------------------------
Quiet == UNCHANGED <<connected, got, receiveBuffer, acks, called>>
Collected(m) == Append(recon.buffers, m.buffer)

DecodeWhole(m)  == /\ m.type # "binary" /\ ~Carries(m) /\ m.attachments = 0
                   /\ recon' = recon /\ OnDecoded(m, m.data)
DecodeEmpty(m)  == /\ m.type # "binary" /\ Carries(m) /\ m.attachments = 0
                   /\ recon' = [type |-> "recon", packet |-> m, buffers |-> <<>>]
                   /\ OnDecoded(m, m.data)
DecodeHeader(m) == /\ m.type # "binary" /\ Carries(m) /\ m.attachments # 0 /\ Quiet
                   /\ recon' = [type |-> "recon", packet |-> m, buffers |-> <<>>]
DecodeStray(m)  == /\ m.type = "binary" /\ ~Collecting /\ ~Collecting' /\ Quiet
                   /\ recon' # None => recon # None /\ recon'.packet = recon.packet
DecodeNext(m)   == /\ m.type = "binary" /\ Collecting /\ Collecting' /\ recon \in Recons /\ Quiet
                   /\ Len(Collected(m)) # recon.packet.attachments
                   /\ recon' = [type |-> "recon", packet |-> recon.packet, buffers |-> Collected(m)]
DecodeLast(m)   == /\ m.type = "binary" /\ Collecting /\ recon \in Recons /\ recon' = None
                   /\ Len(Collected(m)) = recon.packet.attachments
                   /\ OnDecoded(recon.packet, Reconstruct(recon.packet.data, Collected(m)))

LEMMA DecodeCases ==
  ASSUME TypeInv, OutInv, DecoderAdd
  PROVE  LET m == Head(down)
         IN  /\ down # <<>> /\ down' = Tail(down) /\ IsDown(m) /\ m = down[1]
             /\ down \in Seq(DownMessages) /\ Len(down) \in Nat /\ Len(down) # 0
             /\ UNCHANGED <<open, out, pc, served, mixed, emitted, up>>
             /\ Made' = Made /\ Unsent
             /\ \/ DecodeWhole(m) \/ DecodeEmpty(m) \/ DecodeHeader(m) \/ DecodeStray(m)
                \/ DecodeNext(m) \/ DecodeLast(m)
             /\ stuck' = stuck \/ DecodeStray(m)
<1> DEFINE m == Head(down)
<1>1. /\ down # <<>> /\ down' = Tail(down) /\ down \in Seq(DownMessages)
      /\ IF m.type = "binary" THEN TakeBinaryData(m.buffer) ELSE DecodeString(m)
      /\ UNCHANGED <<open, out, pc, served, mixed, emitted, up>>
  BY DEF DecoderAdd, TypeInv, emitting, reading
<1>2. Made' = Made /\ Unsent
  BY <1>1, MadeSame
<1>3. m = down[1] /\ Len(down) \in Nat /\ Len(down) # 0 /\ 1 \in 1 .. Len(down)
  <2>1. Len(down) \in Nat /\ Len(down) # 0
    BY <1>1, LenProperties, EmptySeq
  <2> QED
    BY <1>1, <2>1, HeadTailProperties
<1>4. IsDown(m)
  BY <1>3 DEF OutInv
<1> HIDE DEF m
<1> DEFINE Case == /\ \/ DecodeWhole(m) \/ DecodeEmpty(m) \/ DecodeHeader(m) \/ DecodeStray(m)
                      \/ DecodeNext(m) \/ DecodeLast(m)
                   /\ stuck' = stuck \/ DecodeStray(m)
<1>5. ASSUME m.type # "binary" PROVE Case
  <2>1. DecodeString(m) /\ IsHeader(m)
    BY <1>1, <1>4, <1>5, DownFacts
  <2>2. m.bin \in BOOLEAN /\ (~m.bin => m.attachments = 0)
    BY <2>1, HeaderFacts
  <2>3. CASE ~m.bin
    BY <1>5, <2>1, <2>2, <2>3 DEF DecodeString, DecodeWhole, Carries
  <2>4. CASE m.bin /\ m.attachments = 0
    BY <1>5, <2>1, <2>2, <2>4 DEF DecodeString, DecodeEmpty, Carries
  <2>5. CASE m.bin /\ m.attachments # 0
    BY <1>5, <2>1, <2>2, <2>5 DEF DecodeString, DecodeHeader, Carries, Quiet, application
  <2> QED
    BY <2>2, <2>3, <2>4, <2>5
<1>6. ASSUME m.type = "binary" PROVE Case
  <2>1. TakeBinaryData(m.buffer)
    BY <1>1, <1>6
  <2>2. CASE recon = None
    BY <1>6, <2>1, <2>2 DEF TakeBinaryData, DecodeStray, Quiet, application, Collecting
  <2>3. CASE recon # None
    <3>1. recon \in Recons
      BY <2>3 DEF TypeInv
    <3>2. /\ stuck' = stuck
          /\ IF Len(Collected(m)) = recon.packet.attachments
             THEN recon' = None
                  /\ OnDecoded(recon.packet, Reconstruct(recon.packet.data, Collected(m)))
             ELSE recon' = [recon EXCEPT !.buffers = Collected(m)] /\ Quiet
      BY <2>1, <2>3 DEF TakeBinaryData, Collected, Quiet, application
    <3>3. CASE Len(Collected(m)) = recon.packet.attachments
      <4>1. recon.buffers \in Seq(Buffers) /\ m.buffer \in Buffers
        BY <1>4, <1>6, <3>1, DownFacts, AttachmentFacts DEF Recons
      <4>2. Len(Collected(m)) # 0
        BY <4>1, LenProperties, AppendProperties DEF Collected
      <4>3. Collecting
        BY <2>3, <3>3, <4>2 DEF Collecting
      <4> QED
        BY <1>6, <3>1, <3>2, <3>3, <4>3 DEF DecodeLast
    <3>4. CASE Len(Collected(m)) # recon.packet.attachments
      <4> DEFINE bs == Collected(m)
      <4>1. recon' = [recon EXCEPT !.buffers = bs]
        BY <3>2, <3>4
      <4> HIDE DEF bs
      <4>2. recon' = [type |-> "recon", packet |-> recon.packet, buffers |-> bs]
        BY <3>1, <4>1 DEF Recons
      <4>3. recon' # None /\ recon'.packet = recon.packet
        BY <4>2 DEF None
      <4>4. Collecting' <=> Collecting
        BY <2>3, <4>3 DEF Collecting
      <4>5. CASE Collecting
        BY <1>6, <3>1, <3>2, <3>4, <4>2, <4>4, <4>5 DEF DecodeNext, bs
      <4>6. CASE ~Collecting
        BY <1>6, <2>3, <3>2, <3>4, <4>3, <4>4, <4>6 DEF DecodeStray
      <4> QED
        BY <4>5, <4>6
    <3> QED
      BY <3>3, <3>4
  <2> QED
    BY <2>2, <2>3
<1>7. Case
  BY <1>5, <1>6
<1> QED
  BY <1>1, <1>2, <1>3, <1>4, <1>7 DEF m

(* The packet under reconstruction.                                          *)
LEMMA ReconFacts ==
  ASSUME TypeInv, OutInv, Collecting
  PROVE  /\ recon \in Recons /\ IsHeader(recon.packet) /\ recon.buffers \in Seq(Buffers)
         /\ Len(recon.buffers) \in Nat /\ Len(recon.buffers) < Amount(Owner(recon.packet))
         /\ Amount(Owner(recon.packet)) = recon.packet.attachments
         /\ Owner(recon.packet) \in Owners
         /\ AtClient = <<Owner(recon.packet), Len(recon.buffers)>> /\ AtClient # NoMark
         /\ (Dead(AtClient) => Owner(recon.packet) \in mixed)
<1>1. /\ recon \in Recons /\ IsHeader(recon.packet) /\ recon.buffers \in Seq(Buffers)
      /\ Len(recon.buffers) < recon.packet.attachments /\ recon.packet.attachments # 0
  BY DEF TypeInv, Recons, OutInv, Collecting
<1>2. Len(recon.buffers) \in Nat
  BY <1>1, LenProperties
<1>3. recon.packet.attachments \in Nat /\ recon.packet.attachments # 0
  BY <1>1, <1>2, HeaderFacts
<1>4. Owner(recon.packet) \in Owners /\ Amount(Owner(recon.packet)) = recon.packet.attachments
  BY <1>1, <1>3, HeaderFacts
<1>5. AtClient = <<Owner(recon.packet), Len(recon.buffers)>> /\ AtClient # NoMark
  BY DEF AtClient, NoMark
<1>6. AtClient[1] = Owner(recon.packet) /\ AtClient[2] = Len(recon.buffers)
  BY <1>5
<1>7. Dead(AtClient) => Owner(recon.packet) \in mixed
  BY <1>1, <1>2, <1>3, <1>4, <1>5, <1>6 DEF Dead
<1> QED
  BY <1>1, <1>2, <1>4, <1>5, <1>7

LEMMA FirstFits ==
  ASSUME TypeInv, OutInv, ChainInv, down # <<>>
  PROVE  Fits(AtClient, Head(down))
<1>1. 1 \in 1 .. Len(down) /\ Head(down) = down[1]
  <2>1. Len(down) \in Nat /\ Len(down) # 0
    BY LenProperties, EmptySeq DEF TypeInv
  <2> QED
    BY <2>1, HeadTailProperties DEF TypeInv
<1>2. Priors(down, AtClient, 1) = {AtClient}
  BY PriorsFirst
<1> QED
  BY <1>1, <1>2 DEF ChainInv

(* An attachment that comes up while a packet that is not mixed is put        *)
(* together is its next one.                                                 *)
LEMMA NextIsRight ==
  ASSUME TypeInv, OutInv, ChainInv, down # <<>>, Collecting,
         Head(down).type = "binary", Owner(recon.packet) \notin mixed
  PROVE  /\ Owner(Head(down)) = Owner(recon.packet)
         /\ Head(down).buffer = Buffer(recon.packet.type, recon.packet.of, Len(recon.buffers))
<1> DEFINE m == Head(down)
<1>1. Joins(AtClient, m)
  BY FirstFits DEF Fits
<1>2. AtClient = Before(m)
  BY <1>1, ReconFacts DEF Joins
<1>3. Owner(m) = Owner(recon.packet) /\ m.buffer[4] = Len(recon.buffers)
  BY <1>2, ReconFacts DEF Before
<1>4. IsAttachment(m)
  <2>1. 1 \in 1 .. Len(down) /\ m = down[1]
    BY LenProperties, EmptySeq, HeadTailProperties DEF TypeInv
  <2> QED
    BY <2>1, DownFacts DEF OutInv
<1>5. m.buffer = Buffer(Owner(m)[1], Owner(m)[2], m.buffer[4])
  BY <1>4, AttachmentFacts
<1>6. Owner(recon.packet) = <<recon.packet.type, recon.packet.of>>
  BY ReconFacts, HeaderFacts
<1> HIDE DEF m
<1> QED
  BY <1>3, <1>5, <1>6 DEF m

LEMMA ConnectPlain == ~ConnectPacket.bin /\ ConnectPacket.type # "binary"
BY DEF ConnectPacket

(* The mark at the client after a message.                                   *)
LEMMA DecodeMark ==
  ASSUME TypeInv, OutInv, ChainInv, DecoderAdd
  PROVE  LET m == Head(down)
         IN  \E s : /\ s = AtClient'
                    /\ IF Carries(m) THEN s = After(m) \/ (Dead(s) /\ Dead(After(m)))
                                     ELSE s = AtClient
<1> DEFINE m == Head(down)
<1>1. PICK s : s = AtClient'
  OBVIOUS
<1>2. /\ IsDown(m) /\ Fits(AtClient, m)
      /\ \/ DecodeWhole(m) \/ DecodeEmpty(m) \/ DecodeHeader(m) \/ DecodeStray(m)
         \/ DecodeNext(m) \/ DecodeLast(m)
  BY DecodeCases, FirstFits
<1> HIDE DEF m
<1>4. (m.type = "binary" => IsAttachment(m)) /\ (m.type # "binary" => IsHeader(m))
  BY <1>2, DownFacts
<1>5. Dead(NoMark)
  BY DEF Dead
<1>6. CASE DecodeWhole(m)
  BY <1>1, <1>6 DEF DecodeWhole, AtClient, Collecting, m
<1>10. CASE DecodeEmpty(m)
  <2>1. recon' # None /\ recon'.packet = m /\ Carries(m) /\ m.attachments = 0 /\ m.type # "binary"
    BY <1>10 DEF DecodeEmpty, None
  <2>2. s = NoMark
    BY <1>1, <2>1 DEF AtClient, Collecting
  <2>3. m # ConnectPacket => Amount(Owner(m)) = 0
    BY <1>4, <2>1, HeaderFacts
  <2>4. m # ConnectPacket
    BY <2>1, ConnectPlain DEF Carries
  <2>5. After(m)[1] = Owner(m) /\ After(m)[2] = 0
    BY <2>1 DEF After
  <2>6. Dead(After(m))
    BY <2>3, <2>4, <2>5 DEF Dead
  <2> QED
    BY <1>1, <1>5, <2>1, <2>2, <2>6 DEF m
<1>7. CASE DecodeHeader(m)
  <2>1. recon' # None /\ recon'.packet = m /\ recon'.buffers = <<>>
    BY <1>7 DEF DecodeHeader, None
  <2>2. s = <<Owner(m), 0>>
    BY <1>1, <1>7, <2>1 DEF AtClient, Collecting, DecodeHeader
  <2>3. s = After(m) /\ Carries(m)
    BY <1>7, <2>2 DEF DecodeHeader, After
  <2> QED
    BY <1>1, <2>3 DEF m
<1>8. CASE DecodeStray(m)
  <2>1. AtClient = NoMark /\ s = NoMark /\ Carries(m) /\ m.type = "binary"
    BY <1>1, <1>8 DEF DecodeStray, AtClient, Carries
  <2>2. Joins(NoMark, m) /\ NoMark # Before(m)
    BY <1>2, <2>1 DEF Fits, Before, NoMark
  <2>3. Owner(m) \in mixed
    BY <2>2 DEF Joins
  <2>4. Dead(After(m))
    BY <2>3 DEF Dead, After
  <2> QED
    BY <1>1, <1>5, <2>1, <2>4 DEF m
<1>9. CASE DecodeNext(m) \/ DecodeLast(m)
  <2>1. Collecting /\ m.type = "binary" /\ Carries(m)
    BY <1>9 DEF DecodeNext, DecodeLast, Carries
  <2>2. Joins(AtClient, m)
    BY <1>2, <2>1 DEF Fits
  <2>3. m.buffer \in Buffers /\ m.buffer[4] \in Nat
    BY <1>4, <2>1, AttachmentFacts
  <2>4. Len(Collected(m)) = Len(recon.buffers) + 1
    BY <2>1, <2>3, ReconFacts, AppendProperties DEF Collected
  <2>5. CASE Owner(recon.packet) \in mixed
    <3>1. Dead(s)
      <4>1. CASE DecodeNext(m)
        <5>1. recon' # None /\ recon'.packet = recon.packet
          BY <4>1 DEF DecodeNext, None
        <5>2. s[1] = Owner(recon.packet)
          BY <1>1, <4>1, <5>1 DEF AtClient, DecodeNext
        <5> QED
          BY <2>5, <5>2 DEF Dead
      <4>2. CASE DecodeLast(m)
        <5>1. s = NoMark
          BY <1>1, <4>2 DEF DecodeLast, AtClient, Collecting
        <5> QED
          BY <1>5, <5>1
      <4> QED
        BY <1>9, <4>1, <4>2
    <3>2. Owner(m) \in mixed
      BY <2>1, <2>2, <2>5, ReconFacts DEF Joins, Before
    <3>3. Dead(After(m))
      BY <3>2 DEF Dead, After
    <3> QED
      BY <1>1, <2>1, <3>1, <3>3 DEF m
  <2>6. CASE Owner(recon.packet) \notin mixed
    <3>1. AtClient = Before(m)
      BY <2>1, <2>2, <2>6, ReconFacts DEF Joins
    <3>2. Owner(m) = Owner(recon.packet) /\ m.buffer[4] = Len(recon.buffers)
      BY <2>1, <3>1, ReconFacts DEF Before
    <3>3. After(m) = <<Owner(recon.packet), Len(recon.buffers) + 1>>
      BY <2>1, <3>2 DEF After
    <3>4. CASE DecodeNext(m)
      <4>1. recon' # None /\ recon'.packet = recon.packet /\ recon'.buffers = Collected(m)
        BY <3>4 DEF DecodeNext, None
      <4>2. s = After(m)
        BY <1>1, <2>4, <3>3, <3>4, <4>1 DEF AtClient, DecodeNext
      <4> QED
        BY <1>1, <2>1, <4>2 DEF m
    <3>5. CASE DecodeLast(m)
      <4>1. s = NoMark
        BY <1>1, <3>5 DEF DecodeLast, AtClient, Collecting
      <4>2. Len(recon.buffers) + 1 = Amount(Owner(recon.packet))
        BY <2>1, <2>4, <3>5, ReconFacts DEF DecodeLast
      <4>3. After(m)[1] = Owner(recon.packet) /\ After(m)[2] = Amount(Owner(recon.packet))
        BY <3>3, <4>2
      <4>4. Dead(After(m))
        BY <4>3 DEF Dead
      <4> QED
        BY <1>1, <1>5, <2>1, <4>1, <4>4 DEF m
    <3> QED
      BY <1>9, <3>4, <3>5
  <2> QED
    BY <2>5, <2>6
<1> QED
  BY <1>2, <1>6, <1>7, <1>8, <1>9, <1>10

LEMMA FitsStays ==
  ASSUME mixed \subseteq mixed', open' => open, NEW a, NEW x, Fits(a, x)
  PROVE  Fits(a, x)'
  BY DeadStays DEF Fits

(* One mark for another, when nothing is to come of either.                  *)
LEMMA DeadReplaces ==
  ASSUME NEW a, NEW b, Dead(a), Dead(b)
  PROVE  /\ \A x : IsDown(x) /\ Fits(b, x) => Fits(a, x)
         /\ OutInv /\ Ends(b) => Ends(a)
<1>1. ASSUME NEW x, IsDown(x), Fits(b, x) PROVE Fits(a, x)
  BY <1>1, DownFacts, DeadJoins DEF Fits, Joins
<1>2. ASSUME OutInv, Ends(b) PROVE Ends(a)
  <2>1. ASSUME NEW u \in Senders, Outstanding(u) PROVE Joins(a, Head(out[u]))
    <3>1. IsDown(Head(out[u])) /\ Head(out[u]).type = "binary" /\ Joins(b, Head(out[u]))
      BY <1>2, <2>1 DEF OutInv, Leaves, Outstanding, Ends
    <3>2. PICK x : x = Head(out[u])
      OBVIOUS
    <3>3. Owner(x) \in mixed
      BY <3>1, <3>2, DownFacts, DeadJoins
    <3> QED
      BY <3>2, <3>3 DEF Joins
  <2> QED
    BY <2>1 DEF Ends
<1> QED
  BY <1>1, <1>2

LEMMA ChainOther ==
  ASSUME TypeInv, OutInv, ChainInv,
         (\E o, n : Makes(o, n)) \/ (\E t \in Senders : BreaksOff(t)) \/ Rests
  PROVE  ChainInv'
<1>1. UNCHANGED <<down, mixed>> /\ AtClient' = AtClient /\ (open' => open)
  BY DEF Makes, BreaksOff, Rests, Fixed, AtClient, Collecting
<1>2. ASSUME NEW i \in 1 .. Len(down), NEW a \in Priors(down, AtClient, i) PROVE Fits(a, down[i])'
  <2>1. PICK x : x = down[i]
    OBVIOUS
  <2>2. Fits(a, x)
    BY <2>1 DEF ChainInv
  <2>3. Fits(a, x)'
    BY <1>1, <2>2, FitsStays
  <2> QED
    BY <1>1, <2>1, <2>3
<1>3. /\ \A u \in Senders : Outstanding(u)' => Outstanding(u) /\ out'[u] = out[u]
      /\ open' => \A u \in Senders : Outstanding(u) => Outstanding(u)'
  <2>1. out \in [Senders -> Seq(DownMessages)]
    BY DEF TypeInv, Senders
  <2>2. ASSUME NEW o, NEW n, Makes(o, n)
        PROVE  \A u \in Senders : /\ Outstanding(u)' => Outstanding(u) /\ out'[u] = out[u]
                                  /\ Outstanding(u) => Outstanding(u)'
    <3> DEFINE v == SenderOf(o)
               q == ServerWire(o[1], o[2], n, DownArgs(o))
    <3>1. /\ o \in Owners /\ n \in Nat /\ (o[1] = "ack" => n + 1 = o[2])
          /\ out[v] = <<>> /\ v \in Senders /\ out' = [out EXCEPT ![v] = q]
      BY <2>2 DEF Makes
    <3>2. q # <<>> => Head(q).type # "binary"
      BY <3>1, WireLeaves
    <3> HIDE DEF v, q
    <3> QED
      BY <2>1, <3>1, <3>2 DEF Outstanding
  <2>3. ASSUME NEW t \in Senders, BreaksOff(t)
        PROVE  ~open' /\ \A u \in Senders : Outstanding(u)' => Outstanding(u) /\ out'[u] = out[u]
    BY <2>1, <2>3 DEF BreaksOff, Outstanding
  <2>4. CASE Rests
    BY <2>4 DEF Rests, Outstanding
  <2> QED
    BY <2>2, <2>3, <2>4
<1>4. ASSUME NEW a, Ends(a) PROVE Ends(a)'
  <2>1. ASSUME NEW u \in Senders, Outstanding(u)' PROVE Joins(a, Head(out[u]))'
    <3>1. PICK x : x = Head(out[u])
      OBVIOUS
    <3>2. Joins(a, x) /\ x = Head(out'[u])
      BY <1>3, <1>4, <2>1, <3>1 DEF Ends
    <3>3. Joins(a, x)'
      BY <1>1, <3>2, DeadStays
    <3> QED
      BY <3>2, <3>3
  <2>2. ASSUME open' PROVE Dead(a)' \/ \E u \in Senders : Outstanding(u)' /\ a = Before(Head(out'[u]))
    <3>1. CASE Dead(a)
      BY <1>1, <3>1, DeadStays
    <3>2. ASSUME NEW u \in Senders, Outstanding(u), a = Before(Head(out[u]))
          PROVE  Outstanding(u)' /\ a = Before(Head(out'[u]))
      BY <1>3, <2>2, <3>2
    <3> QED
      BY <1>1, <1>4, <2>2, <3>1, <3>2 DEF Ends
  <2> QED
    BY <2>1, <2>2 DEF Ends
<1>5. \A a \in Priors(down, AtClient, Len(down) + 1) : Ends(a)'
  BY <1>4 DEF ChainInv
<1> QED
  BY <1>1, <1>2, <1>5 DEF ChainInv

LEMMA ChainDecode ==
  ASSUME TypeInv, OutInv, ChainInv, DecoderAdd
  PROVE  ChainInv'
<1> DEFINE m == Head(down)
           r == AtClient
<1>1. /\ down # <<>> /\ down' = Tail(down) /\ down \in Seq(DownMessages) /\ Len(down) \in Nat
      /\ UNCHANGED <<open, out, mixed>>
  BY DecodeCases
<1>2. PICK s : /\ s = AtClient'
               /\ IF Carries(m) THEN s = After(m) \/ (Dead(s) /\ Dead(After(m))) ELSE s = r
  BY DecodeMark
<1>3. /\ Len(down') = Len(down) - 1 /\ \A i \in 1 .. Len(down') : down'[i] = down[i + 1]
  BY <1>1, HeadTailProperties
<1>4. \A a, x : Fits(a, x) => Fits(a, x)'
  BY <1>1, FitsStays
<1>5. \A a : Ends(a) => Ends(a)'
  BY <1>1 DEF Ends, Dead, Joins, Outstanding
<1>6. ASSUME NEW i \in 1 .. Len(down), NEW a \in Priors(down', AtClient', i)
      PROVE  \E b \in Priors(down, r, i + 1) : a = b \/ (Dead(a) /\ Dead(b))
  <2>1. a \in Priors(Tail(down), s, i)
    BY <1>1, <1>2
  <2>2. PICK z : z = r
    OBVIOUS
  <2>3. PICK q : q = down
    OBVIOUS
  <2>4. q \in Seq(DownMessages) /\ q # <<>> /\ i \in 1 .. Len(q) /\ a \in Priors(Tail(q), s, i)
    BY <1>1, <2>1, <2>3
  <2>5. \/ a \in Priors(q, z, i + 1)
        \/ a = s /\ IF Carries(Head(q)) THEN After(Head(q)) \in Priors(q, z, i + 1)
                                         ELSE z \in Priors(q, z, i + 1)
    BY <2>4, PriorsTail
  <2> HIDE DEF r
  <2> QED
    BY <1>2, <2>2, <2>3, <2>5
<1> HIDE DEF m
<1>7. ASSUME NEW i \in 1 .. Len(down'), NEW a \in Priors(down', AtClient', i)
      PROVE  Fits(a, down[i])'
  <2>1. i \in 1 .. Len(down) /\ i + 1 \in 1 .. Len(down)
    BY <1>1, <1>3
  <2>2. PICK b \in Priors(down, r, i + 1) : a = b \/ (Dead(a) /\ Dead(b))
    BY <1>6, <2>1
  <2>3. PICK x : x = down[i + 1]
    OBVIOUS
  <2>4. Fits(b, x) /\ IsDown(x)
    BY <2>1, <2>2, <2>3 DEF ChainInv, OutInv
  <2>5. Fits(a, x)
    BY <2>2, <2>4, DeadReplaces
  <2>6. Fits(a, x)'
    BY <1>4, <2>5
  <2>7. x = down'[i]
    BY <1>3, <2>3
  <2> QED
    BY <2>6, <2>7
<1>8. ASSUME NEW a \in Priors(down', AtClient', Len(down') + 1)
      PROVE  Ends(a)'
  <2>1. Len(down) \in 1 .. Len(down) /\ Len(down') + 1 = Len(down)
    BY <1>1, <1>3, EmptySeq
  <2>2. PICK b \in Priors(down, r, Len(down) + 1) : a = b \/ (Dead(a) /\ Dead(b))
    BY <1>6, <2>1
  <2>3. Ends(b)
    BY <2>2 DEF ChainInv
  <2>4. Ends(a)
    BY <2>2, <2>3, DeadReplaces
  <2> QED
    BY <1>5, <2>4
<1> QED
  BY <1>7, <1>8 DEF ChainInv

LEMMA ChainSend ==
  ASSUME TypeInv, OutInv, ChainInv, NEW t \in Senders, Send(t)
  PROVE  ChainInv'
<1> DEFINE N == Len(down)
<1>1. PICK m : m = Head(out[t])
  OBVIOUS
<1>2. /\ out[t] \in Seq(DownMessages) /\ out[t] # <<>> /\ m \in DownMessages
      /\ IsDown(m) /\ Leaves(t, out[t])
      /\ down \in Seq(DownMessages) /\ down' = Append(down, m)
      /\ out'[t] = Tail(out[t]) /\ \A u \in Senders \ {t} : out'[u] = out[u]
      /\ UNCHANGED <<open, recon>> /\ mixed \subseteq mixed'
      /\ (m.type = "binary" \/ ~Carries(m) => mixed' = mixed)
      /\ (m.type # "binary" /\ Carries(m) =>
            \A u \in Senders \ {t} : Outstanding(u) =>
              Owner(m) \in mixed' /\ Owner(Head(out[u])) \in mixed')
  BY <1>1, SendFacts DEF OutInv
<1>3. PICK r : r = AtClient
  OBVIOUS
<1>4. r = AtClient'
  BY <1>2, <1>3 DEF AtClient, Collecting
<1>5. PICK q : q = down
  OBVIOUS
<1>6. /\ N \in Nat /\ Len(down') = N + 1 /\ down'[N + 1] = m
      /\ \A i \in 1 .. N : down'[i] = down[i]
  BY <1>2, LenProperties, AppendProperties
<1>7. /\ \A i \in 1 .. N + 1 : Priors(down', r, i) = Priors(down, r, i)
      /\ Priors(down', r, (N + 1) + 1) =
           IF Carries(m) THEN {After(m)} ELSE Priors(down, r, N + 1)
  <2>1. q \in Seq(DownMessages) /\ down' = Append(q, m)
    BY <1>2, <1>5
  <2>2. /\ \A i \in 1 .. Len(q) + 1 : Priors(Append(q, m), r, i) = Priors(q, r, i)
        /\ Priors(Append(q, m), r, Len(Append(q, m)) + 1) =
             IF Carries(m) THEN {After(m)} ELSE Priors(q, r, Len(q) + 1)
    BY <1>2, <2>1, PriorsAppend
  <2> QED
    BY <1>2, <1>5, <1>6, <2>1, <2>2
<1> HIDE DEF N
<1>8. ASSUME NEW i \in 1 .. N, NEW a \in Priors(down', r, i) PROVE Fits(a, down[i])'
  <2>1. PICK x : x = down[i]
    OBVIOUS
  <2>2. Fits(a, x)
    BY <1>3, <1>6, <1>7, <2>1 DEF ChainInv, N
  <2>3. Fits(a, x)'
    BY <1>2, <2>2, FitsStays
  <2> QED
    BY <1>6, <2>1, <2>3
<1>9. ASSUME NEW a, Ends(a) PROVE Fits(a, m)'
  <2>1. ASSUME m.type = "binary" PROVE Joins(a, m)'
    <3>1. Joins(a, m)
      BY <1>1, <1>2, <1>9, <2>1 DEF Ends, Outstanding
    <3> QED
      BY <1>2, <3>1, DeadStays
  <2>2. ASSUME open, m.type # "binary", Carries(m) PROVE Dead(a)'
    <3>1. CASE Dead(a)
      BY <1>2, <3>1, DeadStays
    <3>2. ASSUME NEW u \in Senders, Outstanding(u), a = Before(Head(out[u])) PROVE Dead(a)'
      <4>1. u # t
        BY <1>1, <2>2, <3>2 DEF Outstanding
      <4>2. a[1] \in mixed'
        BY <1>2, <2>2, <3>2, <4>1 DEF Before
      <4> QED
        BY <4>2 DEF Dead
    <3> QED
      BY <1>9, <2>2, <3>1, <3>2 DEF Ends
  <2> QED
    BY <1>2, <2>1, <2>2 DEF Fits
<1>10. \A a \in Priors(down, r, N + 1) : Ends(a)
  BY <1>3 DEF ChainInv, N
<1>11. \A a \in Priors(down', r, N + 1) : Fits(a, m)'
  BY <1>6, <1>7, <1>9, <1>10
<1> DEFINE rest == Tail(out[t])
<1>12. /\ Carries(m) /\ rest # <<>> =>
            Head(rest).type = "binary" /\ Owner(Head(rest)) = Owner(m) /\ Before(Head(rest)) = After(m)
       /\ rest # <<>> => Carries(m) /\ Head(rest).type = "binary"
       /\ rest = <<>> /\ Carries(m) => After(m)[2] = Amount(Owner(m))
  BY <1>1, <1>2, LeavesTail
<1>13. ASSUME Carries(m) PROVE Ends(After(m))'
  <2> DEFINE a == After(m)
  <2>1. a[1] = Owner(m)
    BY DEF After
  <2>2. ASSUME NEW u \in Senders, Outstanding(u)' PROVE Joins(a, Head(out[u]))'
    <3>1. CASE u = t
      BY <1>2, <1>12, <1>13, <2>2, <3>1 DEF Outstanding, Joins
    <3>2. CASE u # t
      <4>1. Outstanding(u) /\ out'[u] = out[u]
        BY <1>2, <2>2, <3>2 DEF Outstanding
      <4>2. Owner(m) \in mixed' /\ Owner(Head(out[u])) \in mixed'
        <5>1. CASE m.type = "binary"
          <6>1. Outstanding(t)
            BY <1>1, <1>2, <5>1 DEF Outstanding
          <6> QED
            BY <1>1, <1>2, <3>2, <4>1, <6>1 DEF OutInv
        <5>2. CASE m.type # "binary"
          BY <1>2, <1>13, <3>2, <4>1, <5>2
        <5> QED
          BY <5>1, <5>2
      <4>3. Dead(a)'
        BY <2>1, <4>2 DEF Dead
      <4> HIDE DEF a
      <4> QED
        BY <4>1, <4>2, <4>3 DEF Joins
    <3> QED
      BY <3>1, <3>2
  <2>3. Dead(a)' \/ \E u \in Senders : Outstanding(u)' /\ a = Before(Head(out'[u]))
    <3>1. CASE rest = <<>>
      BY <1>12, <1>13, <2>1, <3>1 DEF Dead
    <3>2. CASE rest # <<>>
      BY <1>2, <1>12, <1>13, <3>2 DEF Outstanding
    <3> QED
      BY <3>1, <3>2
  <2> HIDE DEF a
  <2>4. Ends(a)'
    BY <2>2, <2>3 DEF Ends
  <2> QED
    BY <2>4 DEF a
<1>14. ASSUME ~Carries(m), NEW a, Ends(a) PROVE Ends(a)'
  <2>1. ~Outstanding(t) /\ ~Outstanding(t)' /\ mixed' = mixed
    <3>1. m.type # "binary" /\ rest = <<>>
      BY <1>12, <1>14 DEF Carries
    <3> QED
      BY <1>1, <1>2, <1>14, <3>1 DEF Outstanding
  <2>2. \A u \in Senders : /\ Outstanding(u)' <=> Outstanding(u)
                           /\ Outstanding(u) => out'[u] = out[u]
    BY <1>2, <2>1 DEF Outstanding
  <2>3. ASSUME NEW u \in Senders, Outstanding(u)' PROVE Joins(a, Head(out[u]))'
    <3>1. PICK x : x = Head(out[u])
      OBVIOUS
    <3>2. Joins(a, x) /\ x = Head(out'[u])
      BY <1>14, <2>2, <2>3, <3>1 DEF Ends
    <3>3. Joins(a, x)'
      BY <1>2, <3>2, DeadStays
    <3> QED
      BY <3>2, <3>3
  <2>4. ASSUME open PROVE Dead(a)' \/ \E u \in Senders : Outstanding(u)' /\ a = Before(Head(out'[u]))
    <3>1. CASE Dead(a)
      BY <1>2, <3>1, DeadStays
    <3>2. CASE \E u \in Senders : Outstanding(u) /\ a = Before(Head(out[u]))
      BY <2>2, <3>2
    <3> QED
      BY <1>14, <2>4, <3>1, <3>2 DEF Ends
  <2> QED
    BY <1>2, <2>3, <2>4 DEF Ends
<1>15. \A a \in Priors(down', r, (N + 1) + 1) : Ends(a)'
  <2>1. CASE Carries(m)
    BY <1>7, <1>13, <2>1
  <2>2. CASE ~Carries(m)
    BY <1>7, <1>10, <1>14, <2>2
  <2> QED
    BY <2>1, <2>2
<1>16. \A i \in 1 .. N + 1 : \A a \in Priors(down', r, i) : Fits(a, down[i])'
  <2> SUFFICES ASSUME NEW i \in 1 .. N + 1, NEW a \in Priors(down', r, i) PROVE Fits(a, down[i])'
    OBVIOUS
  <2>1. CASE i \in 1 .. N
    BY <1>8, <2>1
  <2>2. CASE i = N + 1
    BY <1>6, <1>11, <2>2
  <2> QED
    BY <1>6, <2>1, <2>2
<1> QED
  BY <1>4, <1>6, <1>15, <1>16 DEF ChainInv

-----------------------------------------------------------------------------
(* The events that have been made are those of which the making did not throw. *)
LEMMA SentAccepted ==
  ASSUME OutInv, \A u \in Threads : <<"event", u>> \in Made' =>
                                     <<"event", u>> \in Made \/ Accepted(Args[u])
  PROVE  \A t \in Threads : pc'[t] = "sent" => Accepted(Args[t])
<1> SUFFICES ASSUME NEW t \in Threads, pc'[t] = "sent" PROVE Accepted(Args[t])
  OBVIOUS
<1>1. <<"event", t>> \in Made'
  BY DEF Made
<1>2. <<"event", t>> \in Made => pc[t] = "sent"
  BY DEF Made
<1> QED
  BY <1>1, <1>2 DEF OutInv

LEMMA OutStep ==
  ASSUME TypeInv, UpInv, OutInv, [Next]_vars
  PROVE  OutInv'
<1>1. out \in [Senders -> Seq(DownMessages)] /\ down \in Seq(DownMessages)
  BY DEF TypeInv, Senders
<1>2. ASSUME NEW o, NEW n, Makes(o, n) PROVE OutInv'
  <2> DEFINE v == SenderOf(o)
             q == ServerWire(o[1], o[2], n, DownArgs(o))
  <2>1. /\ o \in Owners /\ n \in Nat /\ (o[1] = "ack" => n + 1 = o[2])
        /\ out[v] = <<>> /\ v \in Senders /\ out' = [out EXCEPT ![v] = q]
        /\ Unsent /\ (v \in Threads => pc'[v] = "sent")
        /\ UNCHANGED <<down, recon, mixed>>
        /\ Made' = Made \cup {o} /\ (o[1] = "event" => Accepted(DownArgs(o)))
    BY <1>2 DEF Makes, Fixed
  <2>2. Leaves(v, q) /\ (q # <<>> => Head(q).type # "binary")
    BY <2>1, WireLeaves
  <2> HIDE DEF v, q
  <2>3. out'[v] = q /\ \A u \in Senders \ {v} : out'[u] = out[u]
    BY <1>1, <2>1
  <2>4. \A u \in Senders : Leaves(u, out'[u])
    BY <2>2, <2>3 DEF OutInv
  <2>5. \A t \in Threads : pc'[t] # "sent" => out'[t] = <<>>
    BY <2>1, <2>3 DEF OutInv, Unsent, Senders
  <2>6. \A u \in Senders : Outstanding(u)' => Outstanding(u) /\ out'[u] = out[u]
    BY <2>2, <2>3 DEF Outstanding
  <2>7. \A t \in Threads : pc'[t] = "sent" => Accepted(Args[t])
    <3>1. \A t \in Threads : o = <<"event", t>> => Accepted(Args[t])
      BY <2>1 DEF DownArgs
    <3> QED
      BY <2>1, <3>1, SentAccepted
  <2> QED
    BY <2>1, <2>4, <2>5, <2>6, <2>7 DEF OutInv
<1>3. ASSUME NEW t \in Senders, BreaksOff(t) PROVE OutInv'
  <2>1. /\ out'[t] = <<>> /\ \A u \in Senders \ {t} : out'[u] = out[u]
        /\ Unsent /\ UNCHANGED <<down, recon, mixed>> /\ Made' = Made
    BY <1>1, <1>3 DEF BreaksOff, Fixed
  <2>2. \A u \in Senders : Leaves(u, out'[u])
    BY <2>1 DEF OutInv, Leaves
  <2>3. \A u \in Threads : pc'[u] # "sent" => out'[u] = <<>>
    BY <2>1 DEF OutInv, Unsent, Senders
  <2>4. \A u \in Senders : Outstanding(u)' => Outstanding(u) /\ out'[u] = out[u]
    BY <2>1 DEF Outstanding
  <2>5. \A u \in Threads : pc'[u] = "sent" => Accepted(Args[u])
    BY <2>1, SentAccepted
  <2> QED
    BY <2>1, <2>2, <2>3, <2>4, <2>5 DEF OutInv
<1>4. ASSUME Rests PROVE OutInv'
  <2>1. \A u \in Threads : pc'[u] = "sent" => Accepted(Args[u])
    BY <1>4, SentAccepted DEF Rests
  <2> QED
    BY <1>4, <2>1 DEF OutInv, Rests, Fixed, Unsent, Outstanding
<1>5. ASSUME NEW t \in Senders, Send(t) PROVE OutInv'
  <2> DEFINE rest == Tail(out[t])
  <2>1. PICK m : m = Head(out[t])
    OBVIOUS
  <2>2. /\ out[t] \in Seq(DownMessages) /\ out[t] # <<>> /\ m \in DownMessages
        /\ IsDown(m) /\ Leaves(t, out[t]) /\ Leaves(t, rest)
        /\ down' = Append(down, m)
        /\ out'[t] = rest /\ \A u \in Senders \ {t} : out'[u] = out[u]
        /\ UNCHANGED <<pc, recon>> /\ mixed \subseteq mixed'
        /\ (m.type # "binary" /\ Carries(m) =>
              \A u \in Senders \ {t} : Outstanding(u) =>
                Owner(m) \in mixed' /\ Owner(Head(out[u])) \in mixed')
    BY <1>5, <2>1, SendFacts DEF OutInv
  <2>3. rest # <<>> => Carries(m) /\ Owner(Head(rest)) = Owner(m)
    BY <2>1, <2>2, LeavesTail
  <2>4. \A u \in Senders : Leaves(u, out'[u])
    BY <2>2 DEF OutInv
  <2>5. \A u \in Threads : pc'[u] # "sent" => out'[u] = <<>>
    <3> SUFFICES ASSUME NEW u \in Threads, pc'[u] # "sent" PROVE out'[u] = <<>>
      OBVIOUS
    <3>1. u # t /\ u \in Senders
      BY <2>2 DEF OutInv, Senders
    <3> QED
      BY <2>2, <3>1 DEF OutInv
  <2>6. ASSUME NEW u \in Senders \ {t}, Outstanding(u)', Outstanding(t)'
        PROVE  Owner(Head(out'[u])) \in mixed' /\ Owner(Head(out'[t])) \in mixed'
    <3>1. Outstanding(u) /\ out'[u] = out[u]
      BY <2>2, <2>6 DEF Outstanding
    <3>2. Carries(m) /\ Owner(Head(out'[t])) = Owner(m)
      BY <2>2, <2>3, <2>6 DEF Outstanding
    <3>3. CASE m.type = "binary"
      <4>1. Outstanding(t)
        BY <2>1, <2>2, <3>3 DEF Outstanding
      <4> QED
        BY <2>1, <2>2, <3>1, <3>2, <4>1 DEF OutInv
    <3>4. CASE m.type # "binary"
      BY <2>2, <3>1, <3>2, <3>4
    <3> QED
      BY <3>3, <3>4
  <2>7. ASSUME NEW u \in Senders, NEW w \in Senders, u # w, Outstanding(u)', Outstanding(w)'
        PROVE  Owner(Head(out'[u])) \in mixed'
    <3>1. CASE u = t \/ w = t
      BY <2>6, <2>7, <3>1
    <3>2. CASE u # t /\ w # t
      BY <2>2, <2>7, <3>2 DEF OutInv, Outstanding
    <3> QED
      BY <3>1, <3>2
  <2>8. \A i \in 1 .. Len(down') : IsDown(down'[i])
    <3>1. /\ Len(down) \in Nat /\ Len(down') = Len(down) + 1 /\ down'[Len(down) + 1] = m
          /\ \A i \in 1 .. Len(down) : down'[i] = down[i]
      BY <1>1, <2>2, LenProperties, AppendProperties
    <3>2. \A i \in 1 .. Len(down') : i \in 1 .. Len(down) \/ i = Len(down) + 1
      BY <3>1
    <3> QED
      BY <2>2, <3>1, <3>2 DEF OutInv
  <2>9. recon' # None => IsHeader(recon'.packet)
    BY <2>2 DEF OutInv
  <2>10. \A u \in Threads : pc'[u] = "sent" => Accepted(Args[u])
    BY <2>2 DEF OutInv
  <2> QED
    BY <2>4, <2>5, <2>7, <2>8, <2>9, <2>10 DEF OutInv
<1>6. ASSUME DecoderAdd PROVE OutInv'
  <2> DEFINE m == Head(down)
  <2>1. /\ down # <<>> /\ down' = Tail(down) /\ Len(down) \in Nat /\ IsDown(m)
        /\ UNCHANGED <<out, pc, mixed>>
        /\ \/ DecodeWhole(m) \/ DecodeEmpty(m) \/ DecodeHeader(m) \/ DecodeStray(m)
           \/ DecodeNext(m) \/ DecodeLast(m)
    BY <1>6, DecodeCases
  <2>2. Len(down') = Len(down) - 1 /\ \A i \in 1 .. Len(down') : down'[i] = down[i + 1]
    BY <1>1, <2>1, HeadTailProperties
  <2>3. \A i \in 1 .. Len(down') : IsDown(down'[i])
    <3>1. \A i \in 1 .. Len(down') : i + 1 \in 1 .. Len(down)
      BY <2>1, <2>2
    <3> QED
      BY <2>2, <3>1 DEF OutInv
  <2> HIDE DEF m
  <2>4. recon' # None => IsHeader(recon'.packet)
    <3>1. CASE DecodeHeader(m) \/ DecodeEmpty(m)
      BY <2>1, <3>1, DownFacts DEF DecodeHeader, DecodeEmpty
    <3>2. CASE DecodeNext(m)
      BY <3>2 DEF DecodeNext, OutInv, Recons, None
    <3>3. CASE DecodeWhole(m) \/ DecodeStray(m) \/ DecodeLast(m)
      BY <3>3 DEF DecodeWhole, DecodeStray, DecodeLast, OutInv
    <3> QED
      BY <2>1, <3>1, <3>2, <3>3
  <2> QED
    BY <2>1, <2>3, <2>4 DEF OutInv, Outstanding
<1> QED
  BY <1>2, <1>3, <1>4, <1>5, <1>6, DownSteps

-----------------------------------------------------------------------------
(* Sequences of events.                                                      *)
LEMMA AppendOf ==
  ASSUME NEW S, NEW q \in Seq(S), NEW e \in S
  PROVE  LET x == Append(q, e)
         IN  /\ Of(x) = Of(q) \cup {e.of}
             /\ Distinct(q) /\ e.of \notin Of(q) => Distinct(x)
             /\ \A i \in DOMAIN x : x[i] = e \/ \E j \in DOMAIN q : x[i] = q[j]
<1> DEFINE x == Append(q, e)
           n == Len(q)
<1>1. /\ n \in Nat /\ DOMAIN q = 1 .. n /\ x \in Seq(S) /\ Len(x) = n + 1 /\ x[n + 1] = e
      /\ \A j \in 1 .. n : x[j] = q[j]
  BY AppendProperties, LenProperties
<1>2. DOMAIN x = 1 .. n + 1
  BY <1>1, LenProperties
<1> HIDE DEF x, n
<1>3. \A i \in DOMAIN x : (i = n + 1 /\ x[i] = e) \/ (i \in 1 .. n /\ x[i] = q[i])
  BY <1>1, <1>2
<1>4. n + 1 \in DOMAIN x /\ DOMAIN q \subseteq DOMAIN x
  BY <1>1, <1>2
<1>5. Of(x) = Of(q) \cup {e.of}
  <2>1. \A i \in DOMAIN x : x[i].of \in Of(q) \cup {e.of}
    BY <1>1, <1>3 DEF Of
  <2>2. e.of \in Of(x) /\ \A j \in DOMAIN q : q[j].of \in Of(x)
    BY <1>1, <1>4 DEF Of
  <2> QED
    BY <2>1, <2>2 DEF Of
<1>6. ASSUME Distinct(q), e.of \notin Of(q) PROVE Distinct(x)
  <2>1. \A j \in DOMAIN q : q[j].of # e.of
    BY <1>6 DEF Of
  <2> QED
    BY <1>1, <1>3, <1>6, <2>1 DEF Distinct
<1>7. \A i \in DOMAIN x : x[i] = e \/ \E j \in DOMAIN q : x[i] = q[j]
  BY <1>1, <1>3
<1> QED
  BY <1>5, <1>6, <1>7 DEF x

LEMMA ConcatOf ==
  ASSUME NEW S, NEW q \in Seq(S), NEW r \in Seq(S)
  PROVE  LET x == q \o r
         IN  /\ Of(x) = Of(q) \cup Of(r)
             /\ Distinct(q) /\ Distinct(r) /\ Of(q) \cap Of(r) = {} => Distinct(x)
             /\ \A i \in DOMAIN x : (\E j \in DOMAIN q : x[i] = q[j])
                                      \/ \E j \in DOMAIN r : x[i] = r[j]
<1> DEFINE x == q \o r
           n == Len(q)
           k == Len(r)
<1>1. /\ n \in Nat /\ k \in Nat /\ DOMAIN q = 1 .. n /\ DOMAIN r = 1 .. k
      /\ x \in Seq(S) /\ Len(x) = n + k
      /\ \A i \in 1 .. n + k : x[i] = IF i <= n THEN q[i] ELSE r[i - n]
  BY ConcatProperties, LenProperties
<1>2. DOMAIN x = 1 .. n + k
  BY <1>1, LenProperties
<1> HIDE DEF x, n, k
<1>3. \A i \in DOMAIN x : \/ i \in DOMAIN q /\ x[i] = q[i]
                          \/ i \notin DOMAIN q /\ i - n \in DOMAIN r /\ x[i] = r[i - n]
  BY <1>1, <1>2
<1>4. /\ \A i \in DOMAIN q : i \in DOMAIN x /\ x[i] = q[i]
      /\ \A j \in DOMAIN r : j + n \in DOMAIN x /\ x[j + n] = r[j]
  <2>1. \A i \in DOMAIN q : i \in DOMAIN x /\ x[i] = q[i]
    BY <1>1, <1>2
  <2>2. ASSUME NEW j \in DOMAIN r PROVE j + n \in DOMAIN x /\ x[j + n] = r[j]
    <3>1. j + n \in 1 .. n + k /\ ~(j + n <= n) /\ (j + n) - n = j
      BY <1>1
    <3> QED
      BY <1>1, <1>2, <3>1
  <2> QED
    BY <2>1, <2>2
<1>5. Of(x) = Of(q) \cup Of(r)
  <2>1. \A i \in DOMAIN x : x[i].of \in Of(q) \cup Of(r)
    BY <1>3 DEF Of
  <2>2. \A i \in DOMAIN q : q[i].of \in Of(x)
    BY <1>4 DEF Of
  <2>3. \A j \in DOMAIN r : r[j].of \in Of(x)
    <3> SUFFICES ASSUME NEW j \in DOMAIN r PROVE r[j].of \in Of(x)
      OBVIOUS
    <3>1. j + n \in DOMAIN x /\ x[j + n] = r[j]
      BY <1>4
    <3> QED
      BY <3>1 DEF Of
  <2> QED
    BY <2>1, <2>2, <2>3 DEF Of
<1>6. ASSUME Distinct(q), Distinct(r), Of(q) \cap Of(r) = {} PROVE Distinct(x)
  <2>1. \A i \in DOMAIN q, j \in DOMAIN r : q[i].of # r[j].of
    BY <1>6 DEF Of
  <2> SUFFICES ASSUME NEW i \in DOMAIN x, NEW j \in DOMAIN x, i # j
               PROVE  x[i].of # x[j].of
    BY DEF Distinct
  <2>2. i \notin DOMAIN q /\ j \notin DOMAIN q => i - n # j - n
    BY <1>1, <1>2
  <2> QED
    BY <1>3, <1>6, <2>1, <2>2 DEF Distinct
<1>7. \A i \in DOMAIN x : (\E j \in DOMAIN q : x[i] = q[j]) \/ \E j \in DOMAIN r : x[i] = r[j]
  BY <1>3
<1> QED
  BY <1>5, <1>6, <1>7 DEF x

(* A packet that is complete reaches the application, with e.                *)
Hears(p, e) ==
  /\ \A i \in DOMAIN got' :
       \/ p.type = "event" /\ got'[i] = e
       \/ \E j \in DOMAIN got : got'[i] = got[j]
       \/ \E j \in DOMAIN receiveBuffer : got'[i] = receiveBuffer[j]
  /\ \A i \in DOMAIN receiveBuffer' :
       \/ p.type = "event" /\ receiveBuffer'[i] = e
       \/ \E j \in DOMAIN receiveBuffer : receiveBuffer'[i] = receiveBuffer[j]
  /\ \A i \in DOMAIN called' :
       \/ p.type = "ack" /\ called'[i] = e
       \/ \E j \in DOMAIN called : called'[i] = called[j]

LEMMA Delivery ==
  ASSUME TypeInv, UpInv, TellInv, AckNumbers, emitted' = emitted,
         NEW p \in Packets, IsHeader(p), NEW data \in Seq(Told),
         Owner(p) \in Made, Owner(p) \notin Decoded, OnDecoded(p, data)
  PROVE  LET e == [of |-> p.of, n |-> p.n, data |-> data]
         IN  /\ Decoded' = Decoded \cup {Owner(p)} /\ TellInv' /\ AckNumbers'
             /\ Hears(p, e)
<1> DEFINE e == [of |-> p.of, n |-> p.n, data |-> data]
<1>1. /\ got \in Seq(ThreadEvents) /\ receiveBuffer \in Seq(ThreadEvents)
      /\ called \in Seq(Events) /\ acks \subseteq Nat /\ emitted \in Nat
      /\ connected \in BOOLEAN
  BY Constants DEF TypeInv
<1>2. e.of = p.of /\ e.n = p.n
  OBVIOUS
<1> HIDE DEF e
<1>3. CASE p = ConnectPacket
  <2>1. p.type = "connect" /\ Owner(p) = <<"connect", Reader>>
    BY <1>3, HeaderFacts DEF ConnectPacket
  <2>2. /\ connected' = TRUE /\ got' = got \o receiveBuffer /\ receiveBuffer' = <<>>
        /\ UNCHANGED <<acks, called>>
    BY <2>1 DEF OnDecoded
  <2> DEFINE x == got \o receiveBuffer
  <2>3. /\ Of(x) = Of(got) \cup Of(receiveBuffer)
        /\ Distinct(x)
        /\ \A i \in DOMAIN x : (\E j \in DOMAIN got : x[i] = got[j])
                                 \/ \E j \in DOMAIN receiveBuffer : x[i] = receiveBuffer[j]
    BY <1>1, ConcatOf DEF TellInv
  <2> HIDE DEF x
  <2>4. Of(<<>>) = {} /\ Distinct(<<>>)
    BY DEF Of, Distinct
  <2>5. got' = x /\ Of(receiveBuffer') = {} /\ Of(got') = Of(got) \cup Of(receiveBuffer)
    BY <2>2, <2>3, <2>4 DEF x
  <2>6. Decoded' = Decoded \cup {Owner(p)}
    <3>1. {o \in {<<"connect", Reader>>} : connected'} = {Owner(p)}
          /\ {o \in {<<"connect", Reader>>} : connected} \subseteq {Owner(p)}
      BY <2>1, <2>2
    <3>2. Of(got') \cup Of(receiveBuffer') = Of(got) \cup Of(receiveBuffer)
      BY <2>5
    <3>3. Decoded' = {o \in {<<"connect", Reader>>} : connected'}
            \cup {<<"event", t>> : t \in Of(got') \cup Of(receiveBuffer')}
            \cup {<<"ack", k>> : k \in Of(called')}
      BY DEF Decoded, Of
    <3>4. Of(called') = Of(called)
      BY <2>2
    <3> QED
      BY <3>1, <3>2, <3>3, <3>4 DEF Decoded
  <2>7. TellInv'
    BY <2>2, <2>3, <2>4, <2>5 DEF TellInv
  <2>8. AckNumbers'
    BY <2>2, <2>6 DEF AckNumbers
  <2>9. DOMAIN receiveBuffer' = {}
    BY <2>2
  <2>10. Hears(p, e)
    BY <2>2, <2>3, <2>5, <2>9 DEF Hears
  <2> QED
    BY <2>6, <2>7, <2>8, <2>10 DEF e
<1>4. CASE p # ConnectPacket /\ p.type = "event"
  <2>1. Owner(p) = <<"event", p.of>> /\ p.of \in Threads
    BY <1>4, HeaderFacts, OwnerFacts
  <2>2. p.of \notin Of(got) \cup Of(receiveBuffer)
    BY <2>1 DEF Decoded
  <2>3. e \in ThreadEvents
    BY <2>1 DEF e, ThreadEvents, Events, Packets, Sources
  <2>4. UNCHANGED <<connected, acks, called>>
        /\ \/ connected /\ got' = Append(got, e) /\ receiveBuffer' = receiveBuffer
           \/ ~connected /\ receiveBuffer' = Append(receiveBuffer, e) /\ got' = got
    BY <1>1, <1>4 DEF OnDecoded, e
  <2>5. ASSUME NEW q \in Seq(ThreadEvents)
        PROVE  /\ Of(Append(q, e)) = Of(q) \cup {p.of}
               /\ Distinct(q) /\ p.of \notin Of(q) => Distinct(Append(q, e))
               /\ \A i \in DOMAIN Append(q, e) : Append(q, e)[i] = e
                                                   \/ \E j \in DOMAIN q : Append(q, e)[i] = q[j]
    BY <1>2, <2>3, AppendOf
  <2>6. Of(got') \cup Of(receiveBuffer') = Of(got) \cup Of(receiveBuffer) \cup {p.of}
    BY <1>1, <2>4, <2>5
  <2>7. Decoded' = Decoded \cup {Owner(p)}
    <3>1. Decoded' = {o \in {<<"connect", Reader>>} : connected'}
            \cup {<<"event", t>> : t \in Of(got') \cup Of(receiveBuffer')}
            \cup {<<"ack", k>> : k \in Of(called')}
      BY DEF Decoded, Of
    <3>2. Of(called') = Of(called) /\ connected' = connected
      BY <2>4
    <3> QED
      BY <2>1, <2>6, <3>1, <3>2 DEF Decoded
  <2>8. TellInv'
    <3>1. CASE connected
      <4>1. got' = Append(got, e) /\ UNCHANGED <<connected, receiveBuffer, called>>
        BY <2>4, <3>1
      <4>2. Distinct(got') /\ Of(got') = Of(got) \cup {p.of}
        BY <1>1, <2>2, <2>5, <4>1 DEF TellInv
      <4> QED
        BY <2>2, <4>1, <4>2 DEF TellInv
    <3>2. CASE ~connected
      <4>1. receiveBuffer' = Append(receiveBuffer, e) /\ UNCHANGED <<connected, got, called>>
        BY <2>4, <3>2
      <4>2. Distinct(receiveBuffer') /\ Of(receiveBuffer') = Of(receiveBuffer) \cup {p.of}
        BY <1>1, <2>2, <2>5, <4>1 DEF TellInv
      <4> QED
        BY <2>2, <3>2, <4>1, <4>2 DEF TellInv
    <3> QED
      BY <3>1, <3>2
  <2>9. AckNumbers'
    BY <2>4, <2>7 DEF AckNumbers
  <2>10. Hears(p, e)
    <3>1. CASE connected
      <4>1. got' = Append(got, e) /\ UNCHANGED <<receiveBuffer, called>>
        BY <2>4, <3>1
      <4>2. \A i \in DOMAIN got' : got'[i] = e \/ \E j \in DOMAIN got : got'[i] = got[j]
        BY <1>1, <2>5, <4>1
      <4> QED
        BY <1>4, <4>1, <4>2 DEF Hears
    <3>2. CASE ~connected
      <4>1. receiveBuffer' = Append(receiveBuffer, e) /\ UNCHANGED <<got, called>>
        BY <2>4, <3>2
      <4>2. \A i \in DOMAIN receiveBuffer' :
              receiveBuffer'[i] = e \/ \E j \in DOMAIN receiveBuffer : receiveBuffer'[i] = receiveBuffer[j]
        BY <1>1, <2>5, <4>1
      <4> QED
        BY <1>4, <4>1, <4>2 DEF Hears
    <3> QED
      BY <3>1, <3>2
  <2> QED
    BY <2>7, <2>8, <2>9, <2>10 DEF e
<1>5. CASE p # ConnectPacket /\ p.type = "ack"
  <2>1. Owner(p) = <<"ack", p.of>> /\ p.of \in UpEvents /\ p.n + 1 = p.of /\ p.n \in Nat
    BY <1>5, HeaderFacts, OwnerFacts DEF Packets
  <2>2. p.of \notin Of(called)
    BY <2>1 DEF Decoded
  <2>3. e \in Events
    BY <2>1 DEF e, Events, Packets, Sources
  <2>4. p.n \in acks
    <3>1. p.of \in served
      BY <2>1 DEF Made
    <3>2. p.of \in 1 .. emitted
      BY <3>1 DEF UpInv
    <3>3. p.of - 1 = p.n
      BY <1>1, <2>1, <3>2
    <3> QED
      BY <2>1, <3>2, <3>3 DEF AckNumbers
  <2>5. called' = Append(called, e) /\ acks' = acks \ {p.n}
        /\ UNCHANGED <<connected, got, receiveBuffer>>
    BY <1>5, <2>4 DEF OnDecoded, e
  <2>6. /\ Of(called') = Of(called) \cup {p.of} /\ Distinct(called')
        /\ \A i \in DOMAIN called' : called'[i] = e \/ \E j \in DOMAIN called : called'[i] = called[j]
    BY <1>1, <1>2, <2>2, <2>3, <2>5, AppendOf DEF TellInv
  <2>7. Decoded' = Decoded \cup {Owner(p)}
    <3>1. Decoded' = {o \in {<<"connect", Reader>>} : connected'}
            \cup {<<"event", t>> : t \in Of(got') \cup Of(receiveBuffer')}
            \cup {<<"ack", k>> : k \in Of(called')}
      BY DEF Decoded, Of
    <3>2. Of(got') = Of(got) /\ Of(receiveBuffer') = Of(receiveBuffer) /\ connected' = connected
      BY <2>5
    <3> QED
      BY <2>1, <2>6, <3>1, <3>2 DEF Decoded
  <2>8. TellInv'
    BY <2>5, <2>6 DEF TellInv
  <2>9. AckNumbers'
    <3> SUFFICES ASSUME NEW k \in 1 .. emitted
                 PROVE  k - 1 \in acks' \/ <<"ack", k>> \in Decoded'
      BY DEF AckNumbers
    <3>1. CASE k - 1 = p.n
      <4>1. k = p.of
        BY <1>1, <2>1, <3>1
      <4> QED
        BY <2>1, <2>7, <4>1
    <3>2. CASE k - 1 # p.n
      BY <2>5, <2>7, <3>2 DEF AckNumbers
    <3> QED
      BY <3>1, <3>2
  <2>10. Hears(p, e)
    BY <1>5, <2>5, <2>6 DEF Hears
  <2> QED
    BY <2>7, <2>8, <2>9, <2>10 DEF e
<1> QED
  BY <1>3, <1>4, <1>5, HeaderFacts

LEMMA HeadersTail ==
  ASSUME NEW S, NEW q \in Seq(S), q # <<>>
  PROVE  /\ Headers(q) = Headers(Tail(q)) \cup HeaderOf(Head(q))
         /\ Once(q) => Once(Tail(q)) /\ HeaderOf(Head(q)) \cap Headers(Tail(q)) = {}
<1> DEFINE r == Tail(q)
<1>1. /\ Len(q) \in Nat /\ Len(r) = Len(q) - 1 /\ Head(q) = q[1] /\ Len(q) # 0
      /\ \A k \in 1 .. Len(r) : r[k] = q[k + 1]
  BY HeadTailProperties, LenProperties, EmptySeq
<1> HIDE DEF r
<1>2. \A i \in 1 .. Len(q) : i = 1 \/ (i - 1 \in 1 .. Len(r) /\ q[i] = r[i - 1])
  <2> TAKE i \in 1 .. Len(q)
  <2>1. CASE i # 1
    <3>1. i - 1 \in 1 .. Len(r) /\ (i - 1) + 1 = i
      BY <1>1, <2>1
    <3> QED
      BY <1>1, <3>1
  <2> QED
    BY <2>1
<1>3. \A k \in 1 .. Len(r) : k + 1 \in 1 .. Len(q) /\ k + 1 # 1
  BY <1>1
<1>4. 1 \in 1 .. Len(q)
  BY <1>1
<1>5. Headers(q) \subseteq Headers(r) \cup HeaderOf(Head(q))
  BY <1>1, <1>2 DEF Headers
<1>6. Headers(r) \subseteq Headers(q)
  BY <1>1, <1>3 DEF Headers
<1>7. HeaderOf(Head(q)) \subseteq Headers(q)
  BY <1>1, <1>4 DEF Headers
<1>8. ASSUME Once(q) PROVE Once(r) /\ HeaderOf(Head(q)) \cap Headers(r) = {}
  <2>1. Once(r)
    <3> SUFFICES ASSUME NEW i \in 1 .. Len(r), NEW j \in 1 .. Len(r), i # j
                 PROVE  HeaderOf(r[i]) \cap HeaderOf(r[j]) = {}
      BY DEF Once
    <3>1. i + 1 # j + 1 /\ i + 1 \in 1 .. Len(q) /\ j + 1 \in 1 .. Len(q)
      BY <1>1
    <3> QED
      BY <1>1, <1>8, <3>1 DEF Once
  <2>2. \A k \in 1 .. Len(r) : HeaderOf(q[1]) \cap HeaderOf(r[k]) = {}
    BY <1>1, <1>3, <1>4, <1>8 DEF Once
  <2> QED
    BY <1>1, <2>1, <2>2 DEF Headers
<1> QED
  BY <1>5, <1>6, <1>7, <1>8 DEF r

LEMMA HeadersAppend ==
  ASSUME NEW S, NEW q \in Seq(S), NEW m \in S
  PROVE  /\ Headers(Append(q, m)) = Headers(q) \cup HeaderOf(m)
         /\ Once(q) /\ HeaderOf(m) \cap Headers(q) = {} => Once(Append(q, m))
<1> DEFINE x == Append(q, m)
           n == Len(q)
<1>1. /\ n \in Nat /\ Len(x) = n + 1 /\ x[n + 1] = m
      /\ \A j \in 1 .. n : x[j] = q[j]
  BY AppendProperties, LenProperties
<1> HIDE DEF x, n
<1>2. \A i \in 1 .. Len(x) : (i = n + 1 /\ x[i] = m) \/ (i \in 1 .. n /\ x[i] = q[i])
  BY <1>1
<1>3. n + 1 \in 1 .. Len(x) /\ \A i \in 1 .. n : i \in 1 .. Len(x)
  BY <1>1
<1>4. Headers(x) \subseteq Headers(q) \cup HeaderOf(m)
  BY <1>2 DEF Headers, n
<1>5. Headers(q) \subseteq Headers(x)
  BY <1>1, <1>3 DEF Headers, n
<1>6. HeaderOf(m) \subseteq Headers(x)
  BY <1>1, <1>3 DEF Headers
<1>7. ASSUME Once(q), HeaderOf(m) \cap Headers(q) = {} PROVE Once(x)
  <2>1. \A i \in 1 .. n : HeaderOf(m) \cap HeaderOf(q[i]) = {}
    BY <1>7 DEF Headers, n
  <2>2. \A i, j \in 1 .. n : i # j => HeaderOf(q[i]) \cap HeaderOf(q[j]) = {}
    BY <1>7 DEF Once, n
  <2> SUFFICES ASSUME NEW i \in 1 .. Len(x), NEW j \in 1 .. Len(x), i # j
               PROVE  HeaderOf(x[i]) \cap HeaderOf(x[j]) = {}
    BY DEF Once
  <2> QED
    BY <1>2, <2>1, <2>2
<1> QED
  BY <1>4, <1>5, <1>6, <1>7 DEF x

LEMMA ToldSame ==
  ASSUME UNCHANGED <<connected, got, receiveBuffer, called>>
  PROVE  Decoded' = Decoded /\ (TellInv => TellInv')
<1>1. Of(got)' = Of(got) /\ Of(receiveBuffer)' = Of(receiveBuffer) /\ Of(called)' = Of(called)
  BY DEF Of
<1>2. Decoded' = Decoded
  BY <1>1, Zenon DEF Decoded
<1>3. TellInv => TellInv'
  BY <1>1 DEF TellInv, Distinct
<1> QED
  BY <1>2, <1>3

(* A header that arrives while another packet is put together.               *)
LEMMA Replaced ==
  ASSUME TypeInv, OutInv, ChainInv, down # <<>>, open, Collecting,
         Head(down).type # "binary", Carries(Head(down))
  PROVE  Decoding \subseteq mixed
<1>1. Dead(AtClient)
  BY FirstFits DEF Fits
<1> QED
  BY <1>1, ReconFacts DEF Decoding

LEMMA PlaceDecode ==
  ASSUME TypeInv, UpInv, OutInv, ChainInv, PlaceInv, TellInv, AckNumbers, DecoderAdd
  PROVE  PlaceInv' /\ TellInv' /\ AckNumbers'
<1> DEFINE m == Head(down)
           Goal == PlaceInv' /\ TellInv' /\ AckNumbers'
<1>1. /\ down # <<>> /\ down' = Tail(down) /\ down \in Seq(DownMessages) /\ IsDown(m)
      /\ UNCHANGED <<open, out, mixed, emitted>> /\ Made' = Made /\ m = down[1]
      /\ Len(down) \in Nat /\ Len(down) # 0
      /\ \/ DecodeWhole(m) \/ DecodeEmpty(m) \/ DecodeHeader(m) \/ DecodeStray(m)
         \/ DecodeNext(m) \/ DecodeLast(m)
  BY DecodeCases
<1>2. /\ OnTheWay = OnTheWay' \cup HeaderOf(m) /\ HeaderOf(m) \cap OnTheWay' = {} /\ Once(down')
  <2>1. PICK q : q = down
    OBVIOUS
  <2>2. q \in Seq(DownMessages) /\ q # <<>> /\ Once(q) /\ m = Head(q) /\ down' = Tail(q)
    BY <1>1, <2>1 DEF PlaceInv
  <2>3. Headers(q) = Headers(Tail(q)) \cup HeaderOf(Head(q))
        /\ Once(Tail(q)) /\ HeaderOf(Head(q)) \cap Headers(Tail(q)) = {}
    BY <2>2, HeadersTail
  <2> QED
    BY <2>1, <2>2, <2>3 DEF OnTheWay
<1>3. AtSender' = AtSender
  BY <1>1 DEF AtSender, Waiting
<1>4. m \in DownMessages /\ (m.type # "binary" => m \in Packets /\ Formed(m, 0) /\ IsHeader(m))
  <2>1. m \in DownMessages
    BY <1>1, HeadTailProperties
  <2> QED
    BY <1>1, <2>1, MessageSorts, DownFacts
<1> HIDE DEF m
<1>5. CASE DecodeWhole(m)
  <2>1. /\ m.type # "binary" /\ m.attachments = 0 /\ recon' = recon /\ OnDecoded(m, m.data)
    BY <1>5 DEF DecodeWhole
  <2>2. HeaderOf(m) = {Owner(m)} /\ Decoding' = Decoding
    BY <2>1 DEF HeaderOf, Decoding, Collecting
  <2>3. m.data \in Seq(Told)
    BY <1>4, <2>1, Finished
  <2>4. Owner(m) \in OnTheWay
    BY <1>2, <2>2
  <2>5. Owner(m) \in Made /\ Owner(m) \notin Decoded
    BY <2>4 DEF PlaceInv
  <2>6. Decoded' = Decoded \cup {Owner(m)} /\ TellInv' /\ AckNumbers'
    <3>1. PICK p, data : p = m /\ data = m.data
      OBVIOUS
    <3> QED
      BY <1>1, <1>4, <2>1, <2>3, <2>5, <3>1, Delivery
  <2>7. PlaceInv'
    BY <1>1, <1>2, <1>3, <2>2, <2>6 DEF PlaceInv
  <2> QED
    BY <2>6, <2>7
<1>6. CASE DecodeHeader(m)
  <2>1. m.type # "binary" /\ Carries(m) /\ Quiet /\ recon' # None /\ recon'.packet = m
    BY <1>6 DEF DecodeHeader, None
  <2>2. HeaderOf(m) = {Owner(m)} /\ Decoding' = {Owner(m)}
    BY <1>6, <2>1 DEF HeaderOf, Decoding, Collecting, DecodeHeader
  <2>3. Decoded' = Decoded /\ TellInv' /\ AckNumbers'
    BY <1>1, <2>1, ToldSame DEF Quiet, AckNumbers
  <2>4. open => Decoding \subseteq mixed
    <3>1. CASE ~Collecting
      BY <3>1 DEF Decoding
    <3>2. CASE Collecting
      BY <1>1, <2>1, <3>2, Replaced DEF m
    <3> QED
      BY <3>1, <3>2
  <2>5. PlaceInv'
    BY <1>1, <1>2, <1>3, <2>2, <2>3, <2>4 DEF PlaceInv
  <2> QED
    BY <2>3, <2>5
<1>9. CASE DecodeEmpty(m)
  <2>1. /\ m.type # "binary" /\ Carries(m) /\ m.attachments = 0 /\ OnDecoded(m, m.data)
        /\ recon' # None /\ recon'.packet = m
    BY <1>9 DEF DecodeEmpty, None
  <2>2. HeaderOf(m) = {Owner(m)} /\ Decoding' = {}
    BY <2>1 DEF HeaderOf, Decoding, Collecting
  <2>3. m.data \in Seq(Told)
    BY <1>4, <2>1, Finished
  <2>4. Owner(m) \in OnTheWay
    BY <1>2, <2>2
  <2>5. Owner(m) \in Made /\ Owner(m) \notin Decoded
    BY <2>4 DEF PlaceInv
  <2>6. Decoded' = Decoded \cup {Owner(m)} /\ TellInv' /\ AckNumbers'
    <3>1. PICK p, data : p = m /\ data = m.data
      OBVIOUS
    <3> QED
      BY <1>1, <1>4, <2>1, <2>3, <2>5, <3>1, Delivery
  <2>7. open => Decoding \subseteq mixed
    <3>1. CASE ~Collecting
      BY <3>1 DEF Decoding
    <3>2. CASE Collecting
      BY <1>1, <2>1, <3>2, Replaced DEF m
    <3> QED
      BY <3>1, <3>2
  <2>8. PlaceInv'
    BY <1>1, <1>2, <1>3, <2>2, <2>6, <2>7 DEF PlaceInv
  <2> QED
    BY <2>6, <2>8
<1>7. CASE DecodeStray(m) \/ DecodeNext(m)
  <2>1. m.type = "binary" /\ Quiet /\ Decoding' = Decoding
    <3>1. CASE DecodeStray(m)
      BY <3>1 DEF DecodeStray, Decoding
    <3>2. CASE DecodeNext(m)
      <4>1. recon'.packet = recon.packet
        BY <3>2 DEF DecodeNext
      <4> QED
        BY <3>2, <4>1 DEF DecodeNext, Decoding
    <3> QED
      BY <1>7, <3>1, <3>2
  <2>2. HeaderOf(m) = {}
    BY <2>1 DEF HeaderOf
  <2>3. Decoded' = Decoded /\ TellInv' /\ AckNumbers'
    BY <1>1, <2>1, ToldSame DEF Quiet, AckNumbers
  <2>4. PlaceInv'
    BY <1>1, <1>2, <1>3, <2>1, <2>2, <2>3 DEF PlaceInv
  <2> QED
    BY <2>3, <2>4
<1>8. CASE DecodeLast(m)
  <2> DEFINE d == Reconstruct(recon.packet.data, Collected(m))
  <2>1. /\ m.type = "binary" /\ Collecting /\ recon \in Recons /\ recon # None /\ recon' = None
        /\ Len(Collected(m)) = recon.packet.attachments
        /\ OnDecoded(recon.packet, d)
    BY <1>8 DEF DecodeLast, Recons, None
  <2>2. HeaderOf(m) = {} /\ Decoding = {Owner(recon.packet)} /\ Decoding' = {}
    BY <2>1 DEF HeaderOf, Decoding, Collecting
  <2>3. d \in Seq(Told)
    <3>1. m.buffer \in Buffers
      BY <1>4, <2>1, MessageSorts
    <3>2. Collected(m) \in Seq(Buffers)
      BY <2>1, <3>1, AppendProperties DEF Collected, Recons
    <3> QED
      BY <2>1, <3>2, ReconstructType DEF Recons
  <2> HIDE DEF d
  <2>4. Owner(recon.packet) \in Made /\ Owner(recon.packet) \notin Decoded
    BY <2>2 DEF PlaceInv
  <2>5. recon.packet \in Packets /\ IsHeader(recon.packet)
    BY <2>1 DEF Recons, OutInv
  <2>6. Decoded' = Decoded \cup {Owner(recon.packet)} /\ TellInv' /\ AckNumbers'
    <3>1. PICK p, data : p = recon.packet /\ data = d
      OBVIOUS
    <3> QED
      BY <1>1, <2>1, <2>3, <2>4, <2>5, <3>1, Delivery
  <2>7. PlaceInv'
    BY <1>1, <1>2, <1>3, <2>2, <2>6 DEF PlaceInv
  <2> QED
    BY <2>6, <2>7
<1> QED
  BY <1>1, <1>5, <1>6, <1>7, <1>8, <1>9

LEMMA PlaceSend ==
  ASSUME TypeInv, OutInv, PlaceInv, NEW t \in Senders, Send(t)
  PROVE  PlaceInv'
<1>1. PICK m : m = Head(out[t])
  OBVIOUS
<1>2. /\ out[t] \in Seq(DownMessages) /\ out[t] # <<>> /\ m \in DownMessages
      /\ IsDown(m) /\ SenderOf(Owner(m)) = t /\ Leaves(t, out[t])
      /\ down \in Seq(DownMessages) /\ down' = Append(down, m)
      /\ out'[t] = Tail(out[t]) /\ \A u \in Senders \ {t} : out'[u] = out[u]
      /\ UNCHANGED <<open, pc, served, recon>> /\ UNCHANGED application
      /\ mixed \subseteq mixed'
  BY <1>1, SendFacts DEF OutInv
<1>3. Made' = Made /\ Decoding' = Decoding /\ Decoded' = Decoded
  BY <1>2 DEF Made, Decoding, Decoded, Of, application, Collecting
<1>4. AtSender = AtSender' \cup HeaderOf(m)
  <2>1. ~Waiting(t)'
    <3>1. Tail(out[t]) # <<>> => Head(Tail(out[t])).type = "binary"
      BY <1>2, LeavesTail
    <3> QED
      BY <1>2, <3>1 DEF Waiting
  <2>2. \A u \in Senders : u # t => (Waiting(u)' <=> Waiting(u)) /\ out'[u] = out[u]
    BY <1>2 DEF Waiting
  <2>3. AtSender' \subseteq AtSender
    BY <2>1, <2>2 DEF AtSender
  <2>4. HeaderOf(m) \subseteq AtSender
    <3>1. m.type # "binary" => Waiting(t)
      BY <1>1, <1>2 DEF Waiting
    <3> QED
      BY <1>1, <3>1 DEF AtSender, HeaderOf
  <2>5. ASSUME NEW u \in Senders, Waiting(u) PROVE Owner(Head(out[u])) \in AtSender' \cup HeaderOf(m)
    <3>1. CASE u = t
      BY <1>1, <2>5, <3>1 DEF Waiting, HeaderOf
    <3>2. CASE u # t
      BY <2>2, <2>5, <3>2 DEF AtSender
    <3> QED
      BY <3>1, <3>2
  <2> QED
    BY <2>3, <2>4, <2>5 DEF AtSender
<1>5. HeaderOf(m) \cap AtSender' = {}
  <2>1. ASSUME NEW u \in Senders, Waiting(u)' PROVE Owner(Head(out'[u])) # Owner(m)
    <3>1. CASE u = t
      <4>1. Tail(out[t]) # <<>> => Head(Tail(out[t])).type = "binary"
        BY <1>2, LeavesTail
      <4> QED
        BY <1>2, <2>1, <3>1, <4>1 DEF Waiting
    <3>2. CASE u # t
      <4>1. out'[u] = out[u] /\ out[u] # <<>>
        BY <1>2, <2>1, <3>2 DEF Waiting
      <4>2. SenderOf(Owner(Head(out[u]))) = u
        BY <4>1 DEF OutInv, Leaves
      <4> QED
        BY <1>2, <3>2, <4>1, <4>2
    <3> QED
      BY <3>1, <3>2
  <2> QED
    BY <2>1 DEF AtSender, HeaderOf
<1>6. /\ HeaderOf(m) \cap OnTheWay = {}
      /\ HeaderOf(m) \cap (Decoding \cup Decoded) = {} /\ HeaderOf(m) \subseteq Made
  BY <1>4 DEF PlaceInv
<1>7. OnTheWay' = OnTheWay \cup HeaderOf(m) /\ Once(down')
  <2>1. PICK q : q = down
    OBVIOUS
  <2>2. q \in Seq(DownMessages) /\ Once(q) /\ HeaderOf(m) \cap Headers(q) = {}
    BY <1>2, <1>6, <2>1 DEF PlaceInv, OnTheWay
  <2>3. Headers(Append(q, m)) = Headers(q) \cup HeaderOf(m) /\ Once(Append(q, m))
    BY <1>2, <2>2, HeadersAppend
  <2> QED
    BY <1>2, <2>1, <2>3 DEF OnTheWay
<1> QED
  BY <1>2, <1>3, <1>4, <1>5, <1>6, <1>7 DEF PlaceInv

LEMMA PlaceOther ==
  ASSUME TypeInv, OutInv, PlaceInv,
         (\E o, n : Makes(o, n)) \/ (\E t \in Senders : BreaksOff(t)) \/ Rests
  PROVE  PlaceInv'
<1>1. /\ UNCHANGED <<down, mixed>> /\ (open' => open)
      /\ OnTheWay' = OnTheWay /\ Decoding' = Decoding /\ Decoded' = Decoded
  <2>1. Fixed /\ (open' => open)
    BY DEF Makes, BreaksOff, Rests
  <2>2. Decoded' = Decoded
    BY <2>1, ToldSame DEF Fixed
  <2> QED
    BY <2>1, <2>2 DEF Fixed, OnTheWay, Decoding, Collecting
<1>2. out \in [Senders -> Seq(DownMessages)]
  BY DEF TypeInv, Senders
<1>3. ASSUME NEW o, NEW n, Makes(o, n) PROVE PlaceInv'
  <2> DEFINE v == SenderOf(o)
             q == ServerWire(o[1], o[2], n, DownArgs(o))
  <2>1. /\ o \in Owners /\ o \notin Made /\ n \in Nat /\ (o[1] = "ack" => n + 1 = o[2])
        /\ out[v] = <<>> /\ v \in Senders /\ out' = [out EXCEPT ![v] = q]
        /\ open' = open /\ Made' = Made \cup {o}
    BY <1>3 DEF Makes
  <2>2. /\ q # <<>> => Head(q).type # "binary" /\ Owner(Head(q)) = o
        /\ q # <<>> <=> Accepted(DownArgs(o))
    BY <2>1, WireLeaves
  <2> HIDE DEF v, q
  <2>3. out'[v] = q /\ \A u \in Senders \ {v} : out'[u] = out[u]
    BY <1>2, <2>1
  <2>4. /\ \A u \in Senders \ {v} : Waiting(u)' <=> Waiting(u)
        /\ ~Waiting(v) /\ (Waiting(v)' <=> q # <<>>)
    BY <2>1, <2>2, <2>3 DEF Waiting
  <2>5. AtSender \subseteq AtSender'
    <3> SUFFICES ASSUME NEW u \in Senders, Waiting(u) PROVE Owner(Head(out[u])) \in AtSender'
      BY DEF AtSender
    <3>1. u # v
      BY <2>4
    <3> QED
      BY <2>3, <2>4, <3>1 DEF AtSender
  <2>6. AtSender' \subseteq AtSender \cup {o}
    <3> SUFFICES ASSUME NEW u \in Senders, Waiting(u)' PROVE Owner(Head(out'[u])) \in AtSender \cup {o}
      BY DEF AtSender
    <3>1. CASE u = v
      BY <2>2, <2>3, <2>4, <3>1
    <3>2. CASE u # v
      BY <2>3, <2>4, <3>2 DEF AtSender
    <3> QED
      BY <3>1, <3>2
  <2>7. Accepted(DownArgs(o)) => o \in AtSender'
    BY <2>1, <2>2, <2>3, <2>4 DEF AtSender
  <2> QED
    BY <1>1, <2>1, <2>5, <2>6, <2>7 DEF PlaceInv
<1>4. ASSUME NEW t \in Senders, BreaksOff(t) PROVE PlaceInv'
  <2>1. /\ ~open' /\ Made' = Made /\ out'[t] = <<>> /\ \A u \in Senders \ {t} : out'[u] = out[u]
    BY <1>2, <1>4 DEF BreaksOff
  <2>2. AtSender' \subseteq AtSender
    BY <2>1 DEF AtSender, Waiting
  <2> QED
    BY <1>1, <2>1, <2>2 DEF PlaceInv
<1>5. CASE Rests
  <2>1. AtSender' = AtSender /\ Made' = Made
    BY <1>5 DEF Rests, AtSender, Waiting
  <2> QED
    BY <1>1, <2>1 DEF PlaceInv
<1> QED
  BY <1>3, <1>4, <1>5

-----------------------------------------------------------------------------
(* Steps by which the client's application hears nothing.                     *)
LEMMA Unheard ==
  ASSUME TypeInv, [Next]_vars, ~DecoderAdd
  PROVE  /\ UNCHANGED <<recon, stuck, connected, got, receiveBuffer, called>>
         /\ UNCHANGED <<emitted, acks>> \/ ClientEmit
<1> DEFINE Goal == /\ UNCHANGED <<recon, stuck, connected, got, receiveBuffer, called>>
                   /\ UNCHANGED <<emitted, acks>> \/ ClientEmit
<1>1. ASSUME NEW t \in Threads, GetNewPacketId(t) \/ EmitThrows(t) \/ SubscribeACK(t) PROVE Goal
  BY <1>1 DEF GetNewPacketId, EmitThrows, SubscribeACK, client, application
<1>2. ASSUME NEW t \in Threads \cup {Reader}, Send(t) \/ SendFails(t) PROVE Goal
  BY <1>2 DEF Send, SendFails, client, application
<1>3. ASSUME Read \/ CallACKListener \/ Expire \/ Break \/ UNCHANGED vars PROVE Goal
  BY <1>3 DEF Read, CallACKListener, Expire, Break, vars, client, application
<1>4. ASSUME Ack \/ ClientEmit PROVE Goal
  BY <1>4 DEF Ack, ClientEmit, application
<1> HIDE DEF Goal
<1>5. Goal
  BY <1>1, <1>2, <1>3, <1>4 DEF Next, Server
<1> QED
  BY <1>5 DEF Goal

LEMMA TellStep ==
  ASSUME TypeInv, UpInv, OutInv, ChainInv, PlaceInv, TellInv, AckNumbers, [Next]_vars
  PROVE  TellInv' /\ AckNumbers'
<1>1. CASE DecoderAdd
  BY <1>1, PlaceDecode
<1>2. CASE ~DecoderAdd
  <2>1. UNCHANGED <<recon, connected, got, receiveBuffer, called>>
        /\ (UNCHANGED <<emitted, acks>> \/ ClientEmit)
    BY <1>2, Unheard
  <2>2. TellInv' /\ Decoded' = Decoded
    BY <2>1, ToldSame
  <2>3. AckNumbers'
    <3>1. CASE UNCHANGED <<emitted, acks>>
      BY <2>2, <3>1 DEF AckNumbers
    <3>2. CASE ClientEmit
      <4>1. emitted' = emitted + 1 /\ acks' = acks \cup {emitted} /\ emitted \in Nat
        BY <3>2, Constants DEF ClientEmit, TypeInv
      <4>2. \A k \in 1 .. emitted' : k \in 1 .. emitted \/ k - 1 = emitted
        BY <4>1
      <4> QED
        BY <2>2, <4>1, <4>2 DEF AckNumbers
    <3> QED
      BY <2>1, <3>1, <3>2
  <2> QED
    BY <2>2, <2>3
<1> QED
  BY <1>1, <1>2

LEMMA PlaceStep ==
  ASSUME TypeInv, UpInv, OutInv, ChainInv, PlaceInv, TellInv, AckNumbers, [Next]_vars
  PROVE  PlaceInv'
<1>1. CASE DecoderAdd
  BY <1>1, PlaceDecode
<1>2. CASE \E t \in Senders : Send(t)
  BY <1>2, PlaceSend
<1>3. CASE (\E o, n : Makes(o, n)) \/ (\E t \in Senders : BreaksOff(t)) \/ Rests
  BY <1>3, PlaceOther
<1> QED
  BY <1>1, <1>2, <1>3, DownSteps

LEMMA ChainStep ==
  ASSUME TypeInv, UpInv, OutInv, ChainInv, [Next]_vars
  PROVE  ChainInv'
<1>1. CASE DecoderAdd
  BY <1>1, ChainDecode
<1>2. CASE \E t \in Senders : Send(t)
  BY <1>2, ChainSend
<1>3. CASE (\E o, n : Makes(o, n)) \/ (\E t \in Senders : BreaksOff(t)) \/ Rests
  BY <1>3, ChainOther
<1> QED
  BY <1>1, <1>2, <1>3, DownSteps

(* An attachment that no packet waits for is mixed.                          *)
LEMMA StuckStep ==
  ASSUME TypeInv, OutInv, ChainInv, StuckInv, [Next]_vars
  PROVE  StuckInv'
<1>1. mixed \subseteq mixed'
  BY MixedGrows
<1>2. CASE stuck' = stuck
  BY <1>1, <1>2 DEF StuckInv
<1>3. CASE DecoderAdd /\ stuck' # stuck
  <2>1. PICK m : m = Head(down)
    OBVIOUS
  <2>2. DecodeStray(m) /\ Fits(AtClient, m)
    <3>1. down # <<>> /\ DecodeStray(Head(down))
      BY <1>3, DecodeCases
    <3> QED
      BY <2>1, <3>1, FirstFits
  <2>3. AtClient = NoMark /\ m.type = "binary"
    BY <2>2 DEF DecodeStray, AtClient
  <2>4. Joins(NoMark, m) /\ NoMark # Before(m)
    BY <2>2, <2>3 DEF Fits, Before, NoMark
  <2> QED
    BY <1>1, <2>4 DEF Joins, StuckInv
<1> QED
  BY <1>2, <1>3, Unheard

-----------------------------------------------------------------------------
(* The data of a packet, without attachments and with all of its own.         *)
LEMMA PlainIsWhole ==
  ASSUME NEW p, IsHeader(p), p # ConnectPacket, ~p.bin, Faithful(DownArgs(Owner(p)))
  PROVE  p.data = Whole(p.type, p.of, DownArgs(Owner(p)))
<1> DEFINE args == DownArgs(Owner(p))
<1>1. /\ Owner(p) \in Owners /\ ~HasBinary(args) /\ p = Packet(p.type, p.of, p.n, args)
  BY HeaderFacts
<1>2. Faithful(args)
  OBVIOUS
<1> HIDE DEF args
<1>3. \A i \in DOMAIN args : args[i] # "list" /\ args[i] # "stream"
  BY <1>1, <1>2 DEF HasBinary, Faithful
<1>4. Extracted(args) = {}
  BY <1>3 DEF Extracted
<1>5. Packet(p.type, p.of, p.n, args).data = [i \in DOMAIN args |-> <<args[i]>>]
  BY <1>1, <1>3 DEF Packet, ToJSON
<1>6. Whole(p.type, p.of, args) = [i \in DOMAIN args |-> <<args[i]>>]
  BY <1>4 DEF Whole
<1> QED
  BY <1>1, <1>5, <1>6 DEF args

(* A binary packet without attachments has a Map with streams.                *)
LEMMA EmptyIsUnfaithful ==
  ASSUME NEW p, IsHeader(p), p.bin, p.attachments = 0
  PROVE  ~Faithful(DownArgs(Owner(p)))
<1> DEFINE args == DownArgs(Owner(p))
<1>1. /\ Owner(p) \in Owners /\ HasBinary(args) /\ Amount(Owner(p)) = 0
  BY HeaderFacts
<1>2. args \in Seq(Kinds) /\ Cardinality(Extracted(args)) = 0
  BY <1>1, OwnerFacts DEF Amount
<1> HIDE DEF args
<1>3. Extracted(args) = {}
  BY <1>2, Numbering, FS_EmptySet
<1>4. \E i \in DOMAIN args : args[i] = "streamMap"
  BY <1>1, <1>3 DEF HasBinary, Extracted
<1>5. ~Faithful(args)
  BY <1>1, <1>4 DEF Faithful
<1> QED
  BY <1>5 DEF args

LEMMA CollectedIsWhole ==
  ASSUME NEW p, IsHeader(p), p.attachments # 0, Faithful(DownArgs(Owner(p))),
         NEW bs, \A l \in 1 .. p.attachments : bs[l] = Buffer(p.type, p.of, l - 1)
  PROVE  Reconstruct(p.data, bs) = Whole(p.type, p.of, DownArgs(Owner(p)))
<1> DEFINE args == DownArgs(Owner(p))
           N == p.attachments
<1>1. p # ConnectPacket
  BY DEF ConnectPacket
<1>2. /\ Owner(p) \in Owners /\ HasBinary(args) /\ N = Amount(Owner(p))
      /\ p = Packet(p.type, p.of, p.n, args)
  BY <1>1, HeaderFacts
<1>3. args \in Seq(Kinds) /\ N \in Nat /\ N = Cardinality(Extracted(args))
  BY <1>2, OwnerFacts DEF Amount
<1>4. Faithful(args)
  OBVIOUS
<1> HIDE DEF args
<1>6. Packet(p.type, p.of, p.n, args).data = Extract(args)
  BY <1>2 DEF Packet
<1>7. p.data = Extract(args)
  BY <1>2, <1>6
<1>8. \A i \in DOMAIN args : /\ args[i] \in Kinds /\ args[i] # "streamMap" /\ args[i] # "map"
                             /\ i \in Extracted(args) =>
                                  Num(args, i) \in Nat /\ Num(args, i) + 1 \in 1 .. N
  <2> TAKE i \in DOMAIN args
  <2>1. args[i] \in Kinds
    BY <1>3, LenProperties, ElementOfSeq
  <2>2. args[i] # "streamMap" /\ args[i] # "map"
    BY <1>2, <1>4 DEF Faithful
  <2>3. i \in Extracted(args) => Num(args, i) \in 0 .. N - 1
    BY <1>3, Numbering
  <2> QED
    BY <1>3, <2>1, <2>2, <2>3
<1>9. ASSUME NEW i \in DOMAIN args
      PROVE  (IF p.data[i][1] = "placeholder" THEN bs[p.data[i][2] + 1] ELSE p.data[i])
               = IF i \in Extracted(args) THEN Buffer(p.type, p.of, Num(args, i)) ELSE <<args[i]>>
  <2>1. CASE i \in Extracted(args)
    <3>1. Extract(args)[i] = <<"placeholder", Num(args, i)>>
      BY <1>8, <2>1 DEF Extract
    <3>2. p.data[i][1] = "placeholder" /\ p.data[i][2] = Num(args, i)
      BY <1>7, <3>1
    <3>3. bs[Num(args, i) + 1] = Buffer(p.type, p.of, Num(args, i))
      <4>1. (Num(args, i) + 1) - 1 = Num(args, i)
        BY <1>8, <2>1
      <4> QED
        BY <1>8, <2>1, <4>1
    <3> QED
      BY <2>1, <3>2, <3>3
  <2>2. CASE i \notin Extracted(args)
    <3>1. Extract(args)[i] = <<args[i]>>
      BY <1>8, <2>2 DEF Extract
    <3>2. <<args[i]>>[1] # "placeholder"
      BY <1>8 DEF Kinds
    <3> QED
      BY <1>7, <2>2, <3>1, <3>2
  <2> QED
    BY <2>1, <2>2
<1>10. DOMAIN p.data = DOMAIN args
  BY <1>7 DEF Extract
<1>11. Reconstruct(p.data, bs) = Whole(p.type, p.of, args)
  BY <1>9, <1>10 DEF Reconstruct, Whole
<1> QED
  BY <1>11 DEF args

LEMMA RightStays ==
  ASSUME mixed \subseteq mixed', NEW e, NEW o, Right(e, o)
  PROVE  Right(e, o)'
  BY DEF Right

(* What the application hears is right, if e is.                              *)
LEMMA HeardIsRight ==
  ASSUME ClientInv, mixed' = mixed, NEW p, NEW e, e.of = p.of, e.n = p.n, Hears(p, e),
         p.type = "ack" => p.of = p.n + 1,
         p.type \in {"event", "ack"} => Right(e, <<p.type, p.of>>)
  PROVE  /\ \A i \in DOMAIN got' : Right(got[i], <<"event", got[i].of>>)'
         /\ \A i \in DOMAIN receiveBuffer' : Right(receiveBuffer[i], <<"event", receiveBuffer[i].of>>)'
         /\ \A i \in DOMAIN called' :
              (called[i].of = called[i].n + 1 /\ Right(called[i], <<"ack", called[i].of>>))'
<1> DEFINE Event(x) == Right(x, <<"event", x.of>>)
           Answer(x) == x.of = x.n + 1 /\ Right(x, <<"ack", x.of>>)
<1>1. \A x, o : Right(x, o) => Right(x, o)'
  BY RightStays
<1>2. (p.type = "event" => Event(e)) /\ (p.type = "ack" => Answer(e))
  OBVIOUS
<1>3. /\ \A j \in DOMAIN got : Event(got[j])
      /\ \A j \in DOMAIN receiveBuffer : Event(receiveBuffer[j])
      /\ \A j \in DOMAIN called : Answer(called[j])
  BY DEF ClientInv
<1> HIDE DEF Event, Answer
<1>4. ASSUME NEW i \in DOMAIN got' PROVE Right(got[i], <<"event", got[i].of>>)'
  <2>1. PICK x : x = got'[i]
    OBVIOUS
  <2>2. Event(x)
    BY <1>2, <1>3, <2>1 DEF Hears
  <2>3. Right(x, <<"event", x.of>>)'
    BY <1>1, <2>2 DEF Event
  <2> QED
    BY <2>1, <2>3
<1>5. ASSUME NEW i \in DOMAIN receiveBuffer'
      PROVE  Right(receiveBuffer[i], <<"event", receiveBuffer[i].of>>)'
  <2>1. PICK x : x = receiveBuffer'[i]
    OBVIOUS
  <2>2. Event(x)
    BY <1>2, <1>3, <2>1 DEF Hears
  <2>3. Right(x, <<"event", x.of>>)'
    BY <1>1, <2>2 DEF Event
  <2> QED
    BY <2>1, <2>3
<1>6. ASSUME NEW i \in DOMAIN called'
      PROVE  (called[i].of = called[i].n + 1 /\ Right(called[i], <<"ack", called[i].of>>))'
  <2>1. PICK x : x = called'[i]
    OBVIOUS
  <2>2. Answer(x)
    BY <1>2, <1>3, <2>1 DEF Hears
  <2>3. x.of = x.n + 1 /\ Right(x, <<"ack", x.of>>)'
    BY <1>1, <2>2 DEF Answer
  <2> QED
    BY <2>1, <2>3
<1> QED
  BY <1>4, <1>5, <1>6

LEMMA ClientDecode ==
  ASSUME TypeInv, UpInv, OutInv, ChainInv, PlaceInv, TellInv, AckNumbers, ClientInv,
         DecoderAdd
  PROVE  ClientInv'
<1> DEFINE m == Head(down)
<1>1. /\ down # <<>> /\ IsDown(m) /\ down \in Seq(DownMessages)
      /\ UNCHANGED <<mixed, emitted>> /\ m = down[1] /\ 1 \in 1 .. Len(down)
      /\ \/ DecodeWhole(m) \/ DecodeEmpty(m) \/ DecodeHeader(m) \/ DecodeStray(m)
         \/ DecodeNext(m) \/ DecodeLast(m)
  BY DecodeCases
<1>2. m \in DownMessages /\ (m.type # "binary" => m \in Packets /\ Formed(m, 0) /\ IsHeader(m))
  <2>1. m \in DownMessages
    BY <1>1, HeadTailProperties
  <2> QED
    BY <1>1, <2>1, MessageSorts, DownFacts
<1>3. Collecting /\ m.type = "binary" /\ Owner(recon.packet) \notin mixed =>
        m.buffer = Buffer(recon.packet.type, recon.packet.of, Len(recon.buffers))
  BY <1>1, NextIsRight
<1>4. m.type = "binary" => m.buffer \in Buffers
  BY <1>2, MessageSorts
<1>5. m.type # "binary" => HeaderOf(m) = {Owner(m)} /\ Owner(m) \in Made /\ Owner(m) \notin Decoded
  <2>1. ASSUME m.type # "binary" PROVE Owner(m) \in OnTheWay
    BY <1>1, <2>1 DEF OnTheWay, Headers, HeaderOf
  <2> QED
    BY <2>1 DEF HeaderOf, PlaceInv
<1> HIDE DEF m
<1> DEFINE Clean(r) == \A l \in 1 .. Len(r.buffers) :
                         r.buffers[l] = Buffer(r.packet.type, r.packet.of, l - 1)
           Heard == /\ \A i \in DOMAIN got' : Right(got[i], <<"event", got[i].of>>)'
                    /\ \A i \in DOMAIN receiveBuffer' :
                         Right(receiveBuffer[i], <<"event", receiveBuffer[i].of>>)'
                    /\ \A i \in DOMAIN called' :
                         (called[i].of = called[i].n + 1 /\ Right(called[i], <<"ack", called[i].of>>))'
<1>6. ASSUME Quiet PROVE Heard
  BY <1>1, <1>6 DEF Quiet, ClientInv, Right
<1>7. ASSUME NEW p \in Packets, IsHeader(p), NEW d \in Seq(Told), OnDecoded(p, d),
             Owner(p) \in Made, Owner(p) \notin Decoded,
             p # ConnectPacket => Right([data |-> d], Owner(p))
      PROVE  Heard
  <2> DEFINE x == [of |-> p.of, n |-> p.n, data |-> d]
  <2>1. Hears(p, x)
    BY <1>1, <1>7, Delivery
  <2>2. PICK e : e = x
    OBVIOUS
  <2>3. e.of = p.of /\ e.n = p.n /\ e.data = d
    BY <2>2
  <2>4. p.type = "ack" => p.n + 1 = p.of
    BY <1>7, HeaderFacts DEF ConnectPacket
  <2>5. p.type \in {"event", "ack"} => Right(e, <<p.type, p.of>>)
    <3>1. Owner(p) = <<p.type, p.of>> /\ (p.type \in {"event", "ack"} => p # ConnectPacket)
      BY <1>7, HeaderFacts DEF ConnectPacket
    <3> QED
      BY <1>7, <2>3, <3>1 DEF Right
  <2> HIDE DEF x
  <2>6. Hears(p, e)
    BY <2>1, <2>2
  <2> QED
    BY <1>1, <2>3, <2>4, <2>5, <2>6, HeardIsRight
<1>8. Collecting /\ Owner(recon.packet) \notin mixed => Clean(recon)
  BY DEF ClientInv
<1>9. ASSUME Heard, Collecting' /\ Owner(recon'.packet) \notin mixed => Clean(recon')
      PROVE  ClientInv'
  BY <1>1, <1>9 DEF ClientInv
<1> HIDE DEF Heard
<1>10. CASE DecodeWhole(m)
  <2>1. /\ m.type # "binary" /\ ~m.bin /\ m.attachments = 0 /\ recon' = recon
        /\ OnDecoded(m, m.data) /\ (Collecting' <=> Collecting)
    BY <1>10 DEF DecodeWhole, Carries, Collecting
  <2>2. m.data \in Seq(Told)
    BY <1>2, <2>1, Finished
  <2>3. m # ConnectPacket => Right([data |-> m.data], Owner(m))
    <3> SUFFICES ASSUME m # ConnectPacket, Faithful(DownArgs(Owner(m)))
                 PROVE  m.data = Whole(Owner(m)[1], Owner(m)[2], DownArgs(Owner(m)))
      BY DEF Right
    <3>1. m.data = Whole(m.type, m.of, DownArgs(Owner(m)))
      BY <1>2, <2>1, PlainIsWhole
    <3>2. Owner(m) = <<m.type, m.of>>
      BY <1>2, <2>1, HeaderFacts
    <3> QED
      BY <3>1, <3>2
  <2>4. Heard
    <3>1. PICK p, d : p = m /\ d = m.data
      OBVIOUS
    <3> QED
      BY <1>2, <1>5, <1>7, <2>1, <2>2, <2>3, <3>1
  <2> HIDE DEF Clean
  <2> QED
    BY <1>8, <1>9, <2>1, <2>4
<1>16. CASE DecodeEmpty(m)
  <2>1. /\ m.type # "binary" /\ m.bin /\ m.attachments = 0 /\ OnDecoded(m, m.data)
        /\ ~Collecting'
    BY <1>16 DEF DecodeEmpty, Carries, Collecting
  <2>2. m.data \in Seq(Told)
    BY <1>2, <2>1, Finished
  <2>3. Right([data |-> m.data], Owner(m))
    BY <1>2, <2>1, EmptyIsUnfaithful DEF Right
  <2>4. Heard
    <3>1. PICK p, d : p = m /\ d = m.data
      OBVIOUS
    <3> QED
      BY <1>2, <1>5, <1>7, <2>1, <2>2, <2>3, <3>1
  <2> HIDE DEF Clean
  <2> QED
    BY <1>9, <2>1, <2>4
<1>11. CASE DecodeHeader(m)
  <2>1. Quiet /\ recon'.buffers = <<>>
    BY <1>11 DEF DecodeHeader
  <2>2. Clean(recon')
    BY <2>1
  <2> QED
    BY <1>6, <1>9, <2>1, <2>2
<1>12. CASE DecodeStray(m)
  BY <1>6, <1>9, <1>12 DEF DecodeStray
<1> DEFINE bs == Collected(m)
<1>13. ASSUME Collecting, recon \in Recons, m.type = "binary"
       PROVE  /\ recon # None /\ recon.packet \in Packets /\ IsHeader(recon.packet)
              /\ Formed(recon.packet, 0) /\ bs \in Seq(Buffers) /\ Len(bs) # 0
              /\ Owner(recon.packet) \notin mixed =>
                   \A l \in 1 .. Len(bs) : bs[l] = Buffer(recon.packet.type, recon.packet.of, l - 1)
  <2>1. recon # None /\ recon.packet \in Packets /\ Formed(recon.packet, 0)
        /\ recon.buffers \in Seq(Buffers)
    BY <1>13 DEF Recons, None
  <2>2. IsHeader(recon.packet)
    BY <2>1 DEF OutInv
  <2> DEFINE k == Len(recon.buffers)
  <2>3. /\ bs \in Seq(Buffers) /\ Len(bs) = k + 1 /\ k \in Nat /\ bs[k + 1] = m.buffer
        /\ \A l \in 1 .. k : bs[l] = recon.buffers[l]
    BY <1>4, <1>13, <2>1, AppendProperties, LenProperties DEF Collected
  <2> HIDE DEF bs, k
  <2>4. ASSUME Owner(recon.packet) \notin mixed, NEW l \in 1 .. Len(bs)
        PROVE  bs[l] = Buffer(recon.packet.type, recon.packet.of, l - 1)
    <3>1. CASE l \in 1 .. k
      BY <1>8, <1>13, <2>3, <2>4, <3>1 DEF k
    <3>2. CASE l = k + 1
      <4>1. l - 1 = k
        BY <2>3, <3>2
      <4> QED
        BY <1>3, <1>13, <2>1, <2>3, <2>4, <3>2, <4>1 DEF k
    <3> QED
      BY <2>3, <3>1, <3>2
  <2> QED
    BY <2>1, <2>2, <2>3, <2>4
<1> HIDE DEF bs
<1>14. CASE DecodeNext(m)
  <2>1. /\ m.type = "binary" /\ Collecting /\ recon \in Recons /\ Quiet
        /\ recon' = [type |-> "recon", packet |-> recon.packet, buffers |-> bs]
    BY <1>14 DEF DecodeNext, bs
  <2>2. recon'.packet = recon.packet /\ recon'.buffers = bs
    BY <2>1
  <2>3. Owner(recon'.packet) \notin mixed => Clean(recon')
    BY <1>13, <2>1, <2>2
  <2> HIDE DEF Clean
  <2> QED
    BY <1>6, <1>9, <2>1, <2>3
<1>15. CASE DecodeLast(m)
  <2> DEFINE p == recon.packet
             d == Reconstruct(p.data, bs)
  <2>1. /\ m.type = "binary" /\ Collecting /\ recon \in Recons /\ recon' = None /\ ~Collecting'
        /\ Len(bs) = p.attachments /\ OnDecoded(p, d)
    BY <1>15 DEF DecodeLast, Collecting, bs
  <2>2. /\ recon # None /\ p \in Packets /\ IsHeader(p) /\ Formed(p, 0) /\ bs \in Seq(Buffers)
        /\ Len(bs) # 0
        /\ Owner(p) \notin mixed => \A l \in 1 .. Len(bs) : bs[l] = Buffer(p.type, p.of, l - 1)
    BY <1>13, <2>1
  <2>3. Owner(p) \in Made /\ Owner(p) \notin Decoded
    BY <2>1, <2>2 DEF Decoding, PlaceInv
  <2>4. PICK x, y, bz : x = p /\ y = d /\ bz = bs
    OBVIOUS
  <2> HIDE DEF p, d
  <2>5. y = Reconstruct(x.data, bz)
    BY <2>4 DEF d
  <2>6. y \in Seq(Told)
    BY <2>1, <2>2, <2>4, <2>5, ReconstructType
  <2>7. Right([data |-> y], Owner(x))
    <3> SUFFICES ASSUME Faithful(DownArgs(Owner(x))), Owner(x) \notin mixed
                 PROVE  y = Whole(Owner(x)[1], Owner(x)[2], DownArgs(Owner(x)))
      BY DEF Right
    <3>1. x.attachments # 0 /\ \A l \in 1 .. x.attachments : bz[l] = Buffer(x.type, x.of, l - 1)
      BY <2>1, <2>2, <2>4
    <3>2. Reconstruct(x.data, bz) = Whole(x.type, x.of, DownArgs(Owner(x)))
      BY <2>2, <2>4, <3>1, CollectedIsWhole
    <3>3. Owner(x) = <<x.type, x.of>>
      BY <2>2, <2>4, HeaderFacts
    <3> QED
      BY <2>5, <3>2, <3>3
  <2>8. Heard
    BY <1>7, <2>1, <2>2, <2>3, <2>4, <2>6, <2>7
  <2> QED
    BY <1>9, <2>1, <2>8
<1> QED
  BY <1>1, <1>10, <1>11, <1>12, <1>14, <1>15, <1>16

-----------------------------------------------------------------------------
LEMMA ClientStep ==
  ASSUME TypeInv, UpInv, OutInv, ChainInv, PlaceInv, TellInv, AckNumbers, ClientInv,
         [Next]_vars
  PROVE  ClientInv'
<1>1. CASE DecoderAdd
  BY <1>1, ClientDecode
<1>2. CASE ~DecoderAdd
  <2>1. UNCHANGED <<recon, got, receiveBuffer, called>> /\ mixed \subseteq mixed'
    BY <1>2, Unheard, MixedGrows
  <2> QED
    BY <2>1 DEF ClientInv, Right, Collecting
<1> QED
  BY <1>1, <1>2

LEMMA DownInit == Init => DownInv
<1> SUFFICES ASSUME Init PROVE DownInv
  OBVIOUS
<1>1. /\ open = TRUE /\ pc = [t \in Threads |-> "idle"] /\ down = <<>> /\ up = <<>>
      /\ out = [t \in Senders |-> IF t = Reader THEN <<ConnectPacket>> ELSE <<>>]
      /\ served = {} /\ recon = None /\ stuck = FALSE /\ connected = FALSE
      /\ receiveBuffer = <<>> /\ got = <<>> /\ emitted = 0 /\ called = <<>> /\ mixed = {}
  BY DEF Init, Senders
<1> DEFINE p == ConnectPacket
           c == <<"connect", Reader>>
<1>2. /\ p.type = "connect" /\ p.attachments = 0 /\ p.of = Reader /\ ~p.bin
      /\ IsHeader(p) /\ IsDown(p) /\ Owner(p) = c /\ ~Carries(p) /\ SenderOf(c) = Reader
  BY DEF ConnectPacket, IsHeader, IsDown, Owner, Carries, SenderOf
<1> HIDE DEF p
<1>3. Len(down) = 0 /\ 1 .. Len(down) = {} /\ DOMAIN got = {} /\ DOMAIN receiveBuffer = {}
      /\ DOMAIN called = {} /\ 1 .. emitted = {}
  BY <1>1
<1>4. /\ Reader \in Senders /\ Reader \notin Threads /\ Threads \subseteq Senders
      /\ out[Reader] # <<>> /\ Head(out[Reader]) = p /\ Tail(out[Reader]) = <<>>
      /\ \A u \in Senders \ {Reader} : out[u] = <<>>
  BY <1>1, MessagesAssumption DEF Senders, MessagesAssumption, p
<1>5. \A u \in Senders : ~Outstanding(u) /\ (Waiting(u) <=> u = Reader)
  BY <1>2, <1>4 DEF Outstanding, Waiting
<1>6. OutInv
  <2>1. \A u \in Senders : Leaves(u, out[u])
    BY <1>2, <1>4 DEF Leaves
  <2>2. \A t \in Threads : out[t] = <<>>
    BY <1>4
  <2> QED
    BY <1>1, <1>3, <1>5, <2>1, <2>2 DEF OutInv
<1>7. ChainInv
  <2>1. AtClient = NoMark /\ Dead(NoMark)
    BY <1>1 DEF AtClient, Dead, Collecting
  <2>2. Len(down) + 1 = 1
    BY <1>3
  <2>3. Priors(down, AtClient, Len(down) + 1) = {NoMark}
    BY <2>1, <2>2, PriorsFirst
  <2>4. Ends(NoMark)
    BY <1>5, <2>1 DEF Ends
  <2> QED
    BY <1>3, <2>3, <2>4 DEF ChainInv
<1>8. PlaceInv
  <2>1. \A t \in Threads : pc[t] # "sent"
    BY <1>1
  <2>2. Made = {c}
    BY <1>1, <2>1 DEF Made
  <2>3. AtSender = {c}
    <3>1. {u \in Senders : Waiting(u)} = {Reader}
      BY <1>4, <1>5
    <3> QED
      BY <1>2, <1>4, <3>1 DEF AtSender
  <2>4. OnTheWay = {} /\ Decoding = {} /\ Once(down)
    BY <1>1, <1>3 DEF OnTheWay, Headers, Decoding, Once, Collecting
  <2>5. Decoded = {}
    <3>1. Of(got) = {} /\ Of(receiveBuffer) = {} /\ Of(called) = {}
      BY <1>3 DEF Of
    <3> QED
      BY <1>1, <3>1 DEF Decoded
  <2> QED
    BY <2>2, <2>3, <2>4, <2>5 DEF PlaceInv
<1>9. TellInv
  BY <1>1, <1>3 DEF TellInv, Distinct, Of
<1>10. StuckInv /\ AckNumbers
  BY <1>1, <1>3 DEF StuckInv, AckNumbers
<1>11. ClientInv
  BY <1>1, <1>3 DEF ClientInv, Collecting
<1> QED
  BY <1>6, <1>7, <1>8, <1>9, <1>10, <1>11 DEF DownInv

LEMMA DownInvariant == Spec => [](AckInv /\ UpInv /\ DownInv)
<1>1. Init => AckInv /\ UpInv /\ DownInv
  BY InitType, InitInv, UpInit, DownInit DEF AckInv
<1>2. (AckInv /\ UpInv /\ DownInv) /\ [Next]_vars => (AckInv /\ UpInv /\ DownInv)'
  <2> SUFFICES ASSUME AckInv, UpInv, DownInv, [Next]_vars
               PROVE  AckInv' /\ UpInv' /\ DownInv'
    OBVIOUS
  <2>1. AckInv'
    BY TypeStep, IdStep, FlowStep, CallStep DEF AckInv
  <2>2. UpInv'
    BY UpStep DEF AckInv
  <2>3. /\ TypeInv /\ OutInv /\ ChainInv /\ PlaceInv /\ TellInv /\ StuckInv
        /\ AckNumbers /\ ClientInv
    BY DEF AckInv, DownInv
  <2>4. OutInv' /\ ChainInv' /\ StuckInv'
    BY <2>3, OutStep, ChainStep, StuckStep
  <2>5. PlaceInv' /\ TellInv' /\ AckNumbers'
    BY <2>3, PlaceStep, TellStep
  <2>6. ClientInv'
    BY <2>3, ClientStep
  <2> QED
    BY <2>1, <2>2, <2>4, <2>5, <2>6 DEF DownInv
<1> QED
  BY <1>1, <1>2, PTL DEF Spec

(* The client's listeners and callbacks are told each packet of the server at  *)
(* most once and, unless the sends of two packets with attachments overlapped,  *)
(* with its own streams, however many threads emit and whenever CONNECT comes.  *)
THEOREM DownstreamIntact == Spec => []DownIntact
<1>1. AckInv /\ DownInv => DownIntact
  <2> SUFFICES ASSUME AckInv, DownInv PROVE DownIntact
    OBVIOUS
  <2>1. got \in Seq(ThreadEvents) /\ receiveBuffer \in Seq(ThreadEvents)
    BY DEF AckInv, TypeInv
  <2>2. TellInv /\ ClientInv
    BY DEF DownInv
  <2>3. Distinct(got \o receiveBuffer) /\ Distinct(called)
    BY <2>1, <2>2, ConcatOf DEF TellInv
  <2>4. ASSUME NEW i \in DOMAIN got, Faithful(Args[got[i].of]), <<"event", got[i].of>> \notin mixed
        PROVE  got[i].data = Whole("event", got[i].of, Args[got[i].of])
    BY <2>2, <2>4 DEF ClientInv, Right, DownArgs
  <2>5. ASSUME NEW i \in DOMAIN called, Faithful(ServerAnswers[called[i].of]),
               <<"ack", called[i].of>> \notin mixed
        PROVE  /\ called[i].of = called[i].n + 1
               /\ called[i].data = Whole("ack", called[i].of, ServerAnswers[called[i].of])
    BY <2>2, <2>5 DEF ClientInv, Right, DownArgs
  <2> QED
    BY <2>3, <2>4, <2>5 DEF DownIntact
<1> QED
  BY <1>1, DownInvariant, PTL

(* When nothing is under way, the client was told every event of which the     *)
(* emit did not throw and every answer, but for those of which the sends       *)
(* overlapped: a packet without attachments is not lost in between them.  And  *)
(* it stops polling only where such packets came in between.                   *)
THEOREM AllArrive == Spec => []EachArrives
<1>1. AckInv /\ UpInv /\ DownInv => EachArrives
  <2>10. ASSUME DownInv, stuck PROVE mixed # {}
    BY <2>10 DEF DownInv, StuckInv
  <2> SUFFICES ASSUME AckInv, UpInv, DownInv, open, down = <<>>, \A t \in DOMAIN out : out[t] = <<>>
               PROVE  /\ \A t \in Threads :
                           pc[t] = "sent" => Occurs(t, got) \/ <<"event", t>> \in mixed
                      /\ \A k \in served :
                           Accepted(ServerAnswers[k]) => Occurs(k, called) \/ <<"ack", k>> \in mixed
    BY <2>10 DEF EachArrives
  <2>1. TypeInv /\ OutInv /\ ChainInv /\ PlaceInv /\ TellInv
    BY DEF AckInv, DownInv
  <2>2. \A u \in Senders : out[u] = <<>>
    BY <2>1 DEF TypeInv, Senders
  <2>3. AtSender = {} /\ OnTheWay = {}
    BY <2>2 DEF AtSender, Waiting, OnTheWay, Headers
  <2>4. Decoding \subseteq mixed
    <3>1. CASE ~Collecting
      BY <3>1 DEF Decoding
    <3>2. CASE Collecting
      <4>1. Len(down) + 1 = 1
        OBVIOUS
      <4>2. Priors(down, AtClient, Len(down) + 1) = {AtClient}
        BY <4>1, PriorsFirst
      <4>3. Ends(AtClient)
        BY <2>1, <4>2 DEF ChainInv
      <4>4. Dead(AtClient)
        BY <2>2, <4>3 DEF Ends, Outstanding
      <4> QED
        BY <2>1, <3>2, <4>4, ReconFacts DEF Decoding
    <3> QED
      BY <3>1, <3>2
  <2>5. \A o \in Made : (o \in Owners /\ ~Accepted(DownArgs(o))) \/ o \in Decoded \cup mixed
    BY <2>1, <2>3, <2>4 DEF PlaceInv
  <2>6. receiveBuffer = <<>>
    <3> DEFINE c == <<"connect", Reader>>
    <3>1. c \in Made /\ c \notin Owners /\ c \notin mixed
      BY <2>1 DEF Made, Owners, TypeInv
    <3>2. c \in Decoded
      BY <2>5, <3>1
    <3>3. connected
      BY <3>2 DEF Decoded
    <3> QED
      BY <2>1, <3>3 DEF TellInv
  <2>7. Of(receiveBuffer) = {}
    BY <2>6 DEF Of
  <2>8. ASSUME NEW t \in Threads, pc[t] = "sent"
        PROVE  Occurs(t, got) \/ <<"event", t>> \in mixed
    <3> DEFINE o == <<"event", t>>
    <3>1. o \in Made /\ DownArgs(o) = Args[t] /\ Accepted(Args[t])
      BY <2>1, <2>8 DEF Made, DownArgs, OutInv
    <3>2. o \in Decoded \cup mixed
      BY <2>5, <3>1
    <3>3. o \in Decoded => t \in Of(got)
      BY <2>7 DEF Decoded
    <3> QED
      BY <3>2, <3>3 DEF Of, Occurs
  <2>9. ASSUME NEW k \in served, Accepted(ServerAnswers[k])
        PROVE  Occurs(k, called) \/ <<"ack", k>> \in mixed
    <3> DEFINE o == <<"ack", k>>
    <3>1. o \in Made /\ DownArgs(o) = ServerAnswers[k]
      BY DEF Made, DownArgs
    <3>2. o \in Decoded \cup mixed
      BY <2>5, <2>9, <3>1
    <3>3. o \in Decoded => k \in Of(called)
      BY DEF Decoded
    <3> QED
      BY <3>2, <3>3 DEF Of, Occurs
  <2> QED
    BY <2>8, <2>9
<1> QED
  BY <1>1, DownInvariant, PTL
=============================================================================
