----------------------------- MODULE UpgradeProofs -----------------------------
(***************************************************************************)
(* Proofs about Upgrade, for any number of messages and sessions.          *)
(***************************************************************************)
EXTENDS Upgrade, SequenceTheorems, WellFoundedInduction, TLAPS

-----------------------------------------------------------------------------
(* The numbers of the messages among packets, and their order.              *)
IsMessage(p)  == p.type = "message"
Msgs(ps)      == {ps[i].n : i \in {j \in DOMAIN ps : IsMessage(ps[j])}}
Ascending(ps) == \A i, j \in DOMAIN ps :
                   i < j /\ IsMessage(ps[i]) /\ IsMessage(ps[j]) => ps[i].n < ps[j].n
Strict(ns)    == \A i, j \in DOMAIN ns : i < j => ns[i] < ns[j]
Below(S, T)   == \A a \in S, b \in T : a < b

(* What of the write buffer has not been sent.                              *)
After(ps, k) == SubSeq(ps, k + 1, Len(ps))
Rest(c)      == After(c.writeBuffer, c.prevBufferLen)

(* What the server sends after the handshake.                               *)
Plain == {p \in Packets : p.type \in {"message", "pong", "probe", "noop"}}
IsOpen(ps) == ps = <<Packet("open")>>

(* The shape of the state, beyond its type.                                 *)
ClientShape(c) ==
  /\ c.get.state \in {"none", "sent", "taking", "failed"} => c.get.packets = <<>>
  /\ IsOpen(c.get.packets) \/ c.get.packets \in Seq(Plain)
  /\ c.post.state # "sent" => c.post.packets = <<>>
  /\ c.post.state # "taking"
  /\ c.readyState = "closed" =>
       c.writeBuffer = <<>> /\ c.prevBufferLen = 0 /\ c.get = NoRequest /\ ~Probing(c)
  /\ c.readyState = "open" => c.polling # "opening"
  /\ c.readyState = "opening" => c.polling = "opening"
  /\ c.transport = "polling" =>
       /\ c.writable /\ c.probe # "done"
       /\ \A i \in DOMAIN c.out : c.out[i] = Packet("probe")
  /\ c.transport = "websocket" =>
       /\ c.polling = "paused" /\ c.get = NoRequest /\ c.post = NoRequest
       /\ c.probe = "done"
  /\ c.readyState # "closed" /\ c.polling = "opening" =>
       c.post = NoRequest /\ c.probe = "none" /\ c.prevBufferLen = 0
  /\ c.probe = "none" => c.ws = "none"
  /\ c.probe = "opening" => c.ws = "connecting"
  /\ c.ws = "connecting" => c.probe = "opening"
  /\ c.probe \in {"pinged", "pausing", "done"} => c.ws \in {"open", "closed", "gone"}
  /\ c.ws \in {"none", "connecting"} => c.out = <<>>
  /\ Writable(c) => c.prevBufferLen = 0

(* The two ends together.                                                   *)
Shape(c, s) ==
  /\ s.queue \in Seq(Plain) /\ s.down \in Seq(Plain)
  /\ IsOpen(c.get.packets) =>
       /\ ~Probing(c) /\ c.ws \in {"none", "gone"} /\ c.out = <<>> /\ s.down = <<>>
       /\ s.session \in {"opening", "connected", "closing"}
  /\ c.ws = "connecting" => s.down = <<>>
  /\ s.session = "closed" => c.ws = "gone" /\ c.out = <<>>
  /\ s.session = "opening" => c.ws # "open" /\ c.out = <<>>
  /\ s.session = "none" <=> s.sessions = 0
  /\ s.session = "none" =>
       /\ s.emitted = 0 /\ c.heard = <<>> /\ s.got = <<>> /\ ~s.done
       /\ s.emitter = "none"
       /\ c.get.state \in {"none", "sent", "failed"}
       /\ c.readyState # "closed" => c.polling = "opening"
       /\ c.post = NoRequest /\ c.probe = "none"
  /\ c.readyState # "closed" /\ c.polling = "opening" /\ s.session # "none" =>
       c.get.state = "failed" \/ (c.get.state = "done" /\ IsOpen(c.get.packets))
  /\ c.transport = "polling" =>
       s.active = "polling" /\ s.emitter # "websocket" /\ Msgs(s.down) = {}
  /\ s.emitter # "none" => s.emitted < MaxDown
  /\ s.emitted <= MaxDown + s.sessions
  /\ c.accepted <= MaxUp
  /\ c.get.state = "taking" => s.session # "none"

(* What the client's application wrote: got, then under way, then unsent.   *)
UpOrder(c, s) ==
  /\ Strict(s.got) /\ Range(s.got) \subseteq 1 .. c.accepted
  /\ Ascending(c.writeBuffer) /\ Ascending(c.out) /\ Ascending(c.post.packets)
  /\ Msgs(c.writeBuffer) \subseteq 1 .. c.accepted
  /\ Msgs(c.out) \subseteq 1 .. c.accepted
  /\ Msgs(c.post.packets) \subseteq 1 .. c.accepted
  /\ Below(Range(s.got), Msgs(c.post.packets) \cup Msgs(c.out) \cup Msgs(Rest(c)))
  /\ Below(Msgs(c.post.packets) \cup Msgs(c.out), Msgs(Rest(c)))

(* It has no gap as long as nothing was lost.                               *)
Sending(c) ==
  /\ c.readyState # "closed"
  /\ c.transport = "polling" => c.post.state # "failed"
  /\ c.transport = "websocket" => c.ws = "open"

UpGap(c, s) ==
  /\ s.sessions <= 1 /\ ~s.done => s.got = [i \in 1 .. Len(s.got) |-> i]
  /\ s.sessions <= 1 /\ ~s.done /\ s.session \in {"none", "opening", "connected"} =>
       /\ \A n \in Msgs(c.post.packets) : Len(s.got) + 1 .. n - 1 \subseteq Msgs(c.post.packets)
       /\ \A n \in Msgs(c.out) : Len(s.got) + 1 .. n - 1 \subseteq Msgs(c.out)
       /\ Sending(c) => Len(s.got) + 1 .. c.accepted
                          \subseteq Msgs(c.post.packets) \cup Msgs(c.out) \cup Msgs(Rest(c))

(* What the server's application emitted: heard, then under way, then       *)
(* queued.  Nobody polls the queue after the upgrade.                       *)
DownOrder(c, s) ==
  /\ Strict(c.heard) /\ Range(c.heard) \subseteq 1 .. s.emitted
  /\ Ascending(c.get.packets) /\ Ascending(s.queue) /\ Ascending(s.down)
  /\ Msgs(c.get.packets) \subseteq 1 .. s.emitted
  /\ Msgs(s.queue) \subseteq 1 .. s.emitted
  /\ Msgs(s.down) \subseteq 1 .. s.emitted
  /\ Below(Range(c.heard), Msgs(c.get.packets) \cup Msgs(s.down))
  /\ c.transport = "polling" => Below(Range(c.heard) \cup Msgs(c.get.packets), Msgs(s.queue))

Receiving(c) ==
  /\ c.readyState \in {"opening", "open"} /\ c.get.state # "failed"
  /\ c.transport = "websocket" => c.ws = "open"

DownGap(c, s) ==
  s.sessions = 1 =>
    /\ \A n \in Range(c.heard) : 1 .. n - 1 \subseteq Range(c.heard) \cup Msgs(s.queue)
    /\ Receiving(c) => 1 .. s.emitted \subseteq
         Range(c.heard) \cup Msgs(c.get.packets) \cup Msgs(s.queue) \cup Msgs(s.down)

(* The client's socket does not sit on what it could do: send what it has,  *)
(* and go on with the upgrade.                                              *)
Flushed(c) ==
  c.readyState = "open" /\ ~c.upgrading /\ Writable(c) => c.writeBuffer = <<>>
Resumed(c) ==
  c.readyState # "closed" /\ c.probe = "pausing" => c.get # NoRequest \/ c.post # NoRequest

(* The answer to the probe comes with a NOOP for the GET that waits.        *)
Noop(ps) == \E i \in DOMAIN ps : ps[i].type = "noop"
Woken(c, s) == c.get.state = "failed" \/ Noop(s.queue) \/ Noop(c.get.packets)

Waking(c, s, o) ==
  /\ c.readyState # "closed" /\ c.probe = "pinged" /\ c.ws = "open" =>
       \/ c.out # <<>>
       \/ s.down # <<>>
  /\ c.readyState # "closed" /\ c.probe = "pinged" /\ s.down # <<>> =>
       o \/ Woken(c, s) \/ c.get = NoRequest
  /\ c.readyState # "closed" /\ c.probe = "pausing" =>
       /\ c.polling = "pausing"
       /\ o \/ Woken(c, s) \/ c.get = NoRequest
  /\ c.upgrading /\ c.readyState # "closed" =>
       c.probe \in {"opening", "pinged", "pausing", "failed"}

CType(c) == c \in ClientType /\ c.prevBufferLen <= Len(c.writeBuffer)

Base(c, s, o) ==
  /\ CType(c) /\ s \in ServerType /\ o \in BOOLEAN
  /\ ClientShape(c) /\ Shape(c, s)
  /\ UpOrder(c, s) /\ UpGap(c, s) /\ DownOrder(c, s) /\ DownGap(c, s)
  /\ Waking(c, s, o)

IInv == Base(client, server, overtaken) /\ Flushed(client) /\ Resumed(client)

-----------------------------------------------------------------------------
(* The messages of sequences of packets.                                    *)
LEMMA PacketFields ==
  ASSUME NEW p \in Packets
  PROVE  p.n \in Nat /\ (IsMessage(p) => p.n \in 1 .. MaxUp + MaxDown + MaxSessions)
<1>1. p \in {Packet(t) : t \in {"open", "ping", "pong", "probe", "upgrade", "noop"}} => p.n = 0 /\ p.type # "message"
  BY DEF Packet
<1>2. p \in {Message(n) : n \in 1 .. MaxUp + MaxDown + MaxSessions}
        => p.n \in 1 .. MaxUp + MaxDown + MaxSessions
  BY DEF Message
<1>3. 1 .. MaxUp + MaxDown + MaxSessions \subseteq Nat
  BY UpgradeAssumption
<1> QED
  BY <1>1, <1>2, <1>3 DEF Packets, IsMessage

LEMMA MessageIs ==
  ASSUME NEW p \in Packets, IsMessage(p)
  PROVE  p = Message(p.n)
<1>1. p \notin {Packet(t) : t \in {"open", "ping", "pong", "probe", "upgrade", "noop"}}
  BY DEF Packet, IsMessage
<1> QED
  BY <1>1 DEF Packets, Message

LEMMA MsgsEmpty ==
  Msgs(<<>>) = {} /\ Ascending(<<>>) /\ Strict(<<>>) /\ Range(<<>>) = {}
BY DEF Msgs, Ascending, Strict, Range

LEMMA MsgsOne ==
  ASSUME NEW p \in Packets
  PROVE  /\ Msgs(<<p>>) = IF IsMessage(p) THEN {p.n} ELSE {}
         /\ Ascending(<<p>>)
BY PacketFields DEF Msgs, Ascending, IsMessage

LEMMA MsgsAppend ==
  ASSUME NEW ps \in Seq(Packets), NEW p \in Packets
  PROVE  /\ Msgs(Append(ps, p)) = Msgs(ps) \cup (IF IsMessage(p) THEN {p.n} ELSE {})
         /\ Ascending(ps) /\ (IsMessage(p) => Below(Msgs(ps), {p.n}))
              => Ascending(Append(ps, p))
<1> DEFINE a == Append(ps, p)
<1>1. /\ DOMAIN a = 1 .. Len(ps) + 1 /\ DOMAIN ps = 1 .. Len(ps) /\ Len(ps) \in Nat
      /\ \A i \in 1 .. Len(ps) : a[i] = ps[i]
      /\ a[Len(ps) + 1] = p
  BY AppendProperties, LenProperties
<1> HIDE DEF a
<1>2. Msgs(a) = Msgs(ps) \cup (IF IsMessage(p) THEN {p.n} ELSE {})
  <2>1. ASSUME NEW x \in Msgs(a) PROVE x \in Msgs(ps) \cup (IF IsMessage(p) THEN {p.n} ELSE {})
    BY <1>1, <2>1 DEF Msgs
  <2>2. ASSUME NEW x \in Msgs(ps) PROVE x \in Msgs(a)
    BY <1>1, <2>2 DEF Msgs
  <2>3. IsMessage(p) => p.n \in Msgs(a)
    BY <1>1 DEF Msgs
  <2> QED
    BY <2>1, <2>2, <2>3
<1>3. ASSUME Ascending(ps), IsMessage(p) => Below(Msgs(ps), {p.n}) PROVE Ascending(a)
  <2> SUFFICES ASSUME NEW i \in 1 .. Len(ps) + 1, NEW j \in 1 .. Len(ps) + 1, i < j,
                      IsMessage(a[i]), IsMessage(a[j])
               PROVE  a[i].n < a[j].n
    BY <1>1 DEF Ascending
  <2>1. i \in 1 .. Len(ps)
    BY <1>1
  <2>2. CASE j \in 1 .. Len(ps)
    BY <1>1, <1>3, <2>1, <2>2 DEF Ascending
  <2>3. CASE j = Len(ps) + 1
    <3>1. ps[i].n \in Msgs(ps)
      BY <1>1, <2>1 DEF Msgs
    <3> QED
      BY <1>1, <1>3, <2>1, <2>3, <3>1 DEF Below
  <2> QED
    BY <1>1, <2>2, <2>3
<1> QED
  BY <1>2, <1>3 DEF a

LEMMA MsgsConcat ==
  ASSUME NEW ps \in Seq(Packets), NEW qs \in Seq(Packets)
  PROVE  /\ Msgs(ps \o qs) = Msgs(ps) \cup Msgs(qs)
         /\ Ascending(ps) /\ Ascending(qs) /\ Below(Msgs(ps), Msgs(qs))
              => Ascending(ps \o qs)
<1> DEFINE a == ps \o qs
           m == Len(ps)
           k == Len(qs)
<1>1. /\ DOMAIN a = 1 .. m + k /\ DOMAIN ps = 1 .. m /\ DOMAIN qs = 1 .. k
      /\ m \in Nat /\ k \in Nat
      /\ \A i \in 1 .. m + k : a[i] = IF i <= m THEN ps[i] ELSE qs[i - m]
  BY ConcatProperties, LenProperties
<1> HIDE DEF a, m, k
<1>2. Msgs(a) = Msgs(ps) \cup Msgs(qs)
  <2>1. ASSUME NEW i \in 1 .. m + k, IsMessage(a[i]) PROVE a[i].n \in Msgs(ps) \cup Msgs(qs)
    <3>1. CASE i <= m
      BY <1>1, <2>1, <3>1 DEF Msgs
    <3>2. CASE ~ (i <= m)
      <4>1. i - m \in 1 .. k /\ a[i] = qs[i - m]
        BY <1>1, <3>2
      <4> QED
        BY <1>1, <2>1, <4>1 DEF Msgs
    <3> QED
      BY <3>1, <3>2
  <2>2. ASSUME NEW i \in 1 .. m, IsMessage(ps[i]) PROVE ps[i].n \in Msgs(a)
    <3>1. i \in 1 .. m + k /\ a[i] = ps[i]
      BY <1>1
    <3> QED
      BY <1>1, <2>2, <3>1 DEF Msgs
  <2>3. ASSUME NEW i \in 1 .. k, IsMessage(qs[i]) PROVE qs[i].n \in Msgs(a)
    <3>1. i + m \in 1 .. m + k /\ a[i + m] = qs[i]
      <4>1. i + m \in 1 .. m + k /\ ~ (i + m <= m) /\ (i + m) - m = i
        BY <1>1
      <4> QED
        BY <1>1, <4>1
    <3> QED
      BY <1>1, <2>3, <3>1 DEF Msgs
  <2>4. \A x \in Msgs(a) : x \in Msgs(ps) \cup Msgs(qs)
    BY <1>1, <2>1 DEF Msgs
  <2>5. \A x \in Msgs(ps) : x \in Msgs(a)
    BY <1>1, <2>2 DEF Msgs
  <2>6. \A x \in Msgs(qs) : x \in Msgs(a)
    BY <1>1, <2>3 DEF Msgs
  <2> QED
    BY <2>4, <2>5, <2>6
<1>3. ASSUME Ascending(ps), Ascending(qs), Below(Msgs(ps), Msgs(qs)) PROVE Ascending(a)
  <2> SUFFICES ASSUME NEW i \in 1 .. m + k, NEW j \in 1 .. m + k, i < j,
                      IsMessage(a[i]), IsMessage(a[j])
               PROVE  a[i].n < a[j].n
    BY <1>1 DEF Ascending
  <2>1. CASE j <= m
    BY <1>1, <1>3, <2>1 DEF Ascending
  <2>2. CASE i > m
    <3>1. i - m \in 1 .. k /\ j - m \in 1 .. k /\ i - m < j - m
          /\ a[i] = qs[i - m] /\ a[j] = qs[j - m]
      BY <1>1, <2>2
    <3> QED
      BY <1>1, <1>3, <3>1 DEF Ascending
  <2>3. CASE i <= m /\ j > m
    <3>1. a[i].n \in Msgs(ps)
      BY <1>1, <2>3 DEF Msgs
    <3>2. j - m \in 1 .. k /\ a[j] = qs[j - m]
      BY <1>1, <2>3
    <3>3. a[j].n \in Msgs(qs)
      BY <1>1, <3>2 DEF Msgs
    <3> QED
      BY <1>3, <3>1, <3>3 DEF Below
  <2> QED
    BY <1>1, <2>1, <2>2, <2>3
<1> QED
  BY <1>2, <1>3 DEF a

LEMMA MsgsTail ==
  ASSUME NEW ps \in Seq(Packets), ps # <<>>
  PROVE  /\ Msgs(ps) = (IF IsMessage(Head(ps)) THEN {Head(ps).n} ELSE {}) \cup Msgs(Tail(ps))
         /\ Ascending(ps) => /\ Ascending(Tail(ps))
                             /\ IsMessage(Head(ps)) => Below({Head(ps).n}, Msgs(Tail(ps)))
<1> DEFINE t == Tail(ps)
           k == Len(t)
<1>1. /\ DOMAIN t = 1 .. k /\ DOMAIN ps = 1 .. k + 1 /\ k \in Nat
      /\ \A i \in 1 .. k : t[i] = ps[i + 1]
      /\ Head(ps) = ps[1]
  BY HeadTailProperties, LenProperties, EmptySeq
<1> HIDE DEF t, k
<1>2. ASSUME NEW i \in 1 .. k PROVE i + 1 \in 1 .. k + 1 /\ 1 < i + 1 /\ t[i] = ps[i + 1]
  BY <1>1
<1>3. ASSUME NEW i \in 1 .. k + 1, i # 1 PROVE i - 1 \in 1 .. k /\ t[i - 1] = ps[i]
  <2>1. i - 1 \in 1 .. k /\ (i - 1) + 1 = i
    BY <1>1, <1>3
  <2> QED
    BY <1>1, <2>1
<1>4. \A x \in Msgs(t) : x \in Msgs(ps)
  BY <1>1, <1>2 DEF Msgs
<1>5. \A x \in Msgs(ps) : x \in (IF IsMessage(ps[1]) THEN {ps[1].n} ELSE {}) \cup Msgs(t)
  <2> SUFFICES ASSUME NEW i \in 1 .. k + 1, IsMessage(ps[i])
               PROVE  ps[i].n \in (IF IsMessage(ps[1]) THEN {ps[1].n} ELSE {}) \cup Msgs(t)
    BY <1>1 DEF Msgs
  <2>1. CASE i = 1
    BY <2>1
  <2>2. CASE i # 1
    BY <1>1, <1>3, <2>2 DEF Msgs
  <2> QED
    BY <2>1, <2>2
<1>6. IsMessage(ps[1]) => ps[1].n \in Msgs(ps)
  BY <1>1 DEF Msgs
<1>7. ASSUME Ascending(ps) PROVE Ascending(t)
  <2> SUFFICES ASSUME NEW i \in 1 .. k, NEW j \in 1 .. k, i < j, IsMessage(t[i]), IsMessage(t[j])
               PROVE  t[i].n < t[j].n
    BY <1>1 DEF Ascending
  <2>1. i + 1 \in DOMAIN ps /\ j + 1 \in DOMAIN ps /\ i + 1 < j + 1
        /\ t[i] = ps[i + 1] /\ t[j] = ps[j + 1]
    BY <1>1, <1>2
  <2> QED
    BY <1>7, <2>1 DEF Ascending
<1>8. ASSUME Ascending(ps), IsMessage(ps[1]), NEW x \in Msgs(t) PROVE ps[1].n < x
  <2>1. PICK i \in 1 .. k : IsMessage(t[i]) /\ x = t[i].n
    BY <1>1, <1>8 DEF Msgs
  <2>2. i + 1 \in DOMAIN ps /\ 1 \in DOMAIN ps /\ 1 < i + 1 /\ t[i] = ps[i + 1]
    BY <1>1, <1>2
  <2> QED
    BY <1>8, <2>1, <2>2 DEF Ascending
<1> QED
  BY <1>1, <1>4, <1>5, <1>6, <1>7, <1>8 DEF t, Below

LEMMA StrictAppend ==
  ASSUME NEW ns \in Seq(Nat), NEW n \in Nat
  PROVE  /\ Range(Append(ns, n)) = Range(ns) \cup {n}
         /\ Strict(ns) /\ Below(Range(ns), {n}) => Strict(Append(ns, n))
<1> DEFINE a == Append(ns, n)
<1>1. /\ DOMAIN a = 1 .. Len(ns) + 1 /\ DOMAIN ns = 1 .. Len(ns) /\ Len(ns) \in Nat
      /\ \A i \in 1 .. Len(ns) : a[i] = ns[i]
      /\ a[Len(ns) + 1] = n
  BY AppendProperties, LenProperties
<1> HIDE DEF a
<1>2. Range(a) = Range(ns) \cup {n}
  BY <1>1 DEF Range
<1>3. ASSUME Strict(ns), Below(Range(ns), {n}) PROVE Strict(a)
  <2> SUFFICES ASSUME NEW i \in 1 .. Len(ns) + 1, NEW j \in 1 .. Len(ns) + 1, i < j
               PROVE  a[i] < a[j]
    BY <1>1 DEF Strict
  <2>1. i \in 1 .. Len(ns)
    BY <1>1
  <2>2. CASE j \in 1 .. Len(ns)
    BY <1>1, <1>3, <2>1, <2>2 DEF Strict
  <2>3. CASE j = Len(ns) + 1
    BY <1>1, <1>3, <2>1, <2>3 DEF Below, Range
  <2> QED
    BY <1>1, <2>2, <2>3
<1> QED
  BY <1>2, <1>3 DEF a

LEMMA AfterProperties ==
  ASSUME NEW ps \in Seq(Packets), NEW k \in Nat, k <= Len(ps)
  PROVE  /\ After(ps, k) \in Seq(Packets)
         /\ Len(After(ps, k)) = Len(ps) - k
         /\ \A i \in 1 .. Len(ps) - k : After(ps, k)[i] = ps[i + k]
         /\ Msgs(After(ps, k)) \subseteq Msgs(ps)
         /\ Ascending(ps) => Ascending(After(ps, k))
         /\ k = 0 => After(ps, k) = ps
         /\ k = Len(ps) <=> After(ps, k) = <<>>
<1> DEFINE a == After(ps, k)
           m == Len(ps) - k
<1>1. /\ DOMAIN ps = 1 .. Len(ps) /\ Len(ps) \in Nat
      /\ \A i \in 1 .. Len(ps) : ps[i] \in Packets
  BY LenProperties, ElementOfSeq
<1>2. k + 1 \in Int /\ Len(ps) \in Int /\ \A i \in k + 1 .. Len(ps) : ps[i] \in Packets
  BY <1>1
<1>3. /\ a \in Seq(Packets)
      /\ Len(a) = IF k + 1 <= Len(ps) THEN Len(ps) - (k + 1) + 1 ELSE 0
      /\ \A i \in 1 .. Len(ps) - (k + 1) + 1 : a[i] = ps[(k + 1) + i - 1]
  BY <1>2, SubSeqProperties DEF After
<1>4. Len(a) = m /\ m \in Nat
  <2>1. Len(a) = IF k + 1 <= Len(ps) THEN Len(ps) - (k + 1) + 1 ELSE 0
    BY <1>3
  <2>2. Len(ps) \in Nat
    BY <1>1
  <2> HIDE DEF a
  <2> QED
    BY <2>1, <2>2
<1>5. \A i \in 1 .. m : a[i] = ps[i + k] /\ i + k \in 1 .. Len(ps)
  <2> TAKE i \in 1 .. m
  <2>1. i \in 1 .. Len(ps) - (k + 1) + 1 /\ (k + 1) + i - 1 = i + k /\ i + k \in 1 .. Len(ps)
    BY <1>1
  <2> QED
    BY <1>3, <2>1
<1>6. DOMAIN a = 1 .. m
  BY <1>3, <1>4, LenProperties
<1> HIDE DEF a, m
<1>7. Msgs(a) \subseteq Msgs(ps)
  BY <1>1, <1>5, <1>6 DEF Msgs
<1>8. Ascending(ps) => Ascending(a)
  <2> SUFFICES ASSUME Ascending(ps), NEW i \in 1 .. m, NEW j \in 1 .. m, i < j,
                      IsMessage(a[i]), IsMessage(a[j])
               PROVE  a[i].n < a[j].n
    BY <1>6 DEF Ascending
  <2>1. i + k < j + k /\ i + k \in DOMAIN ps /\ j + k \in DOMAIN ps
    BY <1>1, <1>5
  <2> QED
    BY <1>5, <2>1 DEF Ascending
<1>9. k = 0 => a = ps
  <2> SUFFICES ASSUME k = 0 PROVE a = ps
    OBVIOUS
  <2>1. Len(a) = Len(ps)
    BY <1>1, <1>4 DEF m
  <2>2. \A i \in 1 .. Len(a) : a[i] = ps[i]
    BY <1>1, <1>5, <1>4, <2>1
  <2> QED
    BY <1>3, <2>1, <2>2, SeqEqual
<1>10. k = Len(ps) <=> a = <<>>
  <2>1. Len(a) = 0 <=> a = <<>>
    BY <1>3, <1>4, EmptySeq
  <2>2. Len(ps) \in Nat /\ Len(a) = Len(ps) - k
    BY <1>1, <1>4 DEF m
  <2>3. k = Len(ps) <=> Len(a) = 0
    BY <2>2
  <2> QED
    BY <2>1, <2>3
<1> QED
  BY <1>3, <1>4, <1>5, <1>7, <1>8, <1>9, <1>10 DEF a, m

LEMMA AfterAppend ==
  ASSUME NEW ps \in Seq(Packets), NEW p \in Packets, NEW k \in Nat, k <= Len(ps)
  PROVE  After(Append(ps, p), k) = Append(After(ps, k), p)
<1> DEFINE a == Append(ps, p)
<1>1. /\ a \in Seq(Packets) /\ Len(a) = Len(ps) + 1 /\ Len(ps) \in Nat
      /\ \A i \in 1 .. Len(ps) : a[i] = ps[i]
      /\ a[Len(ps) + 1] = p
  BY AppendProperties, LenProperties
<1> HIDE DEF a
<1> DEFINE s == After(ps, k)
           t == After(a, k)
           u == Append(s, p)
<1>2. /\ s \in Seq(Packets) /\ Len(s) = Len(ps) - k
      /\ \A i \in 1 .. Len(ps) - k : s[i] = ps[i + k]
  BY AfterProperties
<1>3. /\ t \in Seq(Packets) /\ Len(t) = Len(a) - k
      /\ \A i \in 1 .. Len(a) - k : t[i] = a[i + k]
  BY <1>1, AfterProperties
<1>4. /\ u \in Seq(Packets) /\ Len(u) = Len(s) + 1
      /\ \A i \in 1 .. Len(s) : u[i] = s[i]
      /\ u[Len(s) + 1] = p
  BY <1>2, AppendProperties
<1> HIDE DEF s, t, u
<1>5. \A i \in 1 .. Len(t) : t[i] = u[i]
  <2> TAKE i \in 1 .. Len(t)
  <2>1. i \in 1 .. Len(ps) + 1 - k
    BY <1>1, <1>3
  <2>2. CASE i = Len(ps) + 1 - k
    <3>1. t[i] = a[i + k] /\ i + k = Len(ps) + 1
      BY <1>1, <1>3, <2>2
    <3> QED
      BY <1>1, <1>2, <1>4, <2>2, <3>1
  <2>3. CASE i # Len(ps) + 1 - k
    <3>1. i \in 1 .. Len(ps) - k /\ i + k \in 1 .. Len(ps)
      BY <1>1, <2>1, <2>3
    <3>2. t[i] = a[i + k] /\ a[i + k] = ps[i + k] /\ s[i] = ps[i + k] /\ u[i] = s[i]
      BY <1>1, <1>2, <1>3, <1>4, <3>1
    <3> QED
      BY <3>2
  <2> QED
    BY <2>2, <2>3
<1>6. Len(t) = Len(u)
  BY <1>1, <1>2, <1>3, <1>4
<1> QED
  BY <1>3, <1>4, <1>5, <1>6, SeqEqual DEF s, t, u, a

-----------------------------------------------------------------------------
(* Induction: a set of numbers that is not empty has a least one.           *)
LEMMA Least ==
  ASSUME NEW T \in SUBSET Nat, T # {}
  PROVE  \E m \in T : \A k \in T : m <= k
<1> DEFINE R == {ss \in Nat \X Nat : ss[1] < ss[2]}
<1>1. IsWellFoundedOn(R, Nat)
  BY NatLessThanWellFounded, Zenon DEF OpToRel
<1>2. \A x, y \in Nat : ~ (<<y, x>> \in R) => x <= y
  OBVIOUS
<1> HIDE DEF R
<1>3. \E x \in T : \A y \in T : ~ (<<y, x>> \in R)
  BY <1>1, WFMin, Zenon
<1> QED
  BY <1>2, <1>3

LEMMA Induction ==
  ASSUME NEW N \in Nat, NEW S, 0 \in S, \A k \in 0 .. N - 1 : k \in S => k + 1 \in S
  PROVE  \A k \in 0 .. N : k \in S
<1> SUFFICES ASSUME NEW k \in 0 .. N, k \notin S PROVE FALSE
  OBVIOUS
<1> DEFINE T == {j \in 0 .. N : j \notin S}
<1>1. PICK m \in T : \A j \in T : m <= j
  <2>1. T \in SUBSET Nat /\ k \in T
    OBVIOUS
  <2> HIDE DEF T
  <2> QED
    BY <2>1, Least
<1>2. m # 0 /\ m - 1 \in 0 .. N - 1
  OBVIOUS
<1>3. m - 1 \in S
  <2>1. m - 1 \notin T
    BY <1>1, <1>2
  <2>2. m - 1 \in 0 .. N
    OBVIOUS
  <2> QED
    BY <2>1, <2>2
<1>4. (m - 1) + 1 \in S
  BY <1>2, <1>3
<1> QED
  BY <1>4

LEMMA MaxOf ==
  ASSUME NEW n \in Nat, NEW s \in SUBSET (1 .. n), s # {}
  PROVE  /\ Max(s) \in s
         /\ \A y \in s : y <= Max(s)
<1> DEFINE T == {n - y : y \in s}
<1>1. PICK m \in T : \A j \in T : m <= j
  <2>1. T \in SUBSET Nat
    OBVIOUS
  <2>2. PICK y \in s : TRUE
    OBVIOUS
  <2>3. n - y \in T
    OBVIOUS
  <2> HIDE DEF T
  <2> QED
    BY <2>1, <2>3, Least
<1>2. PICK x \in s : m = n - x
  OBVIOUS
<1>3. \A y \in s : x >= y
  <2> TAKE y \in s
  <2>1. n - y \in T
    OBVIOUS
  <2>2. n - x <= n - y
    BY <1>1, <1>2, <2>1
  <2> QED
    BY <2>2
<1>4. \E z \in s : \A y \in s : z >= y
  BY <1>3
<1>5. Max(s) \in s /\ \A y \in s : Max(s) >= y
  <2> DEFINE P(z) == z \in s /\ \A y \in s : z >= y
  <2>1. Max(s) = CHOOSE z : P(z)
    BY Zenon DEF Max
  <2>2. \E z : P(z)
    BY <1>4
  <2> HIDE DEF P
  <2>3. P(Max(s))
    BY <2>1, <2>2, Zenon
  <2> QED
    BY <2>3 DEF P
<1> QED
  BY <1>5

-----------------------------------------------------------------------------
(* The packets of a response, one after the other: the fold is the last of  *)
(* the states that its steps go through.                                    *)
LEMMA OnPacketsSteps ==
  ASSUME NEW c, NEW ps \in Seq(Packets)
  PROVE  \E g : /\ g[0] = c /\ g[Len(ps)] = OnPackets(c, ps)
                /\ \A i \in 1 .. Len(ps) : g[i] = OnPacket(g[i - 1], ps[i])
<1> DEFINE N == Len(ps)
           G(f, s) == IF s = {} THEN c ELSE OnPacket(f[s \ {Max(s)}], ps[Max(s)])
           F(f, D) == f = [s \in SUBSET D |-> G(f, s)]
<1>1. OnPackets(c, ps) = (CHOOSE f : F(f, DOMAIN ps))[DOMAIN ps]
  BY Zenon DEF OnPackets, FoldLeft, MapThenFoldSet
<1>2. N \in Nat /\ DOMAIN ps = 1 .. N
  BY LenProperties
<1> HIDE DEF N
<1>3. \A k \in 0 .. N : \E f : F(f, 1 .. k)
  <2> DEFINE S == {k \in 0 .. N : \E f : F(f, 1 .. k)}
  <2>1. 0 \in S
    <3>1. F([s \in SUBSET (1 .. 0) |-> c], 1 .. 0)
      <4>1. \A s \in SUBSET (1 .. 0) : s = {}
        OBVIOUS
      <4>2. \A f : \A s \in SUBSET (1 .. 0) : G(f, s) = c
        BY <4>1
      <4> HIDE DEF G
      <4> QED
        BY <4>2
    <3> QED
      BY <1>2, <3>1
  <2>2. ASSUME NEW k \in 0 .. N - 1, k \in S PROVE k + 1 \in S
    <3>1. PICK f : F(f, 1 .. k)
      BY <2>2
    <3> DEFINE h == [s \in SUBSET (1 .. k + 1) |->
                       IF k + 1 \in s THEN OnPacket(f[s \ {k + 1}], ps[k + 1]) ELSE f[s]]
    <3>2. \A s \in SUBSET (1 .. k + 1) : h[s] = G(h, s)
      <4> TAKE s \in SUBSET (1 .. k + 1)
      <4>1. CASE k + 1 \in s
        <5>1. Max(s) = k + 1
          <6>1. k + 1 \in Nat /\ s # {}
            BY <1>2, <4>1
          <6>2. Max(s) \in s /\ \A y \in s : y <= Max(s)
            BY <6>1, MaxOf
          <6>3. \A y \in s : y \in Nat /\ y <= k + 1
            BY <1>2
          <6>4. k + 1 <= Max(s) /\ Max(s) <= k + 1 /\ Max(s) \in Nat
            BY <4>1, <6>2, <6>3
          <6> QED
            BY <1>2, <6>4
        <5>2. s \ {k + 1} \in SUBSET (1 .. k) /\ s \ {k + 1} \in SUBSET (1 .. k + 1)
              /\ k + 1 \notin s \ {k + 1}
          BY <1>2
        <5>3. h[s \ {k + 1}] = f[s \ {k + 1}]
          BY <5>2
        <5>4. h[s] = OnPacket(f[s \ {k + 1}], ps[k + 1])
          BY <4>1
        <5> QED
          BY <4>1, <5>1, <5>3, <5>4, Zenon
      <4>2. CASE k + 1 \notin s
        <5>1. s \in SUBSET (1 .. k) /\ s \in SUBSET (1 .. k + 1) /\ k \in Nat
          BY <1>2, <4>2
        <5>2. h[s] = f[s] /\ f[s] = G(f, s)
          BY <3>1, <4>2, <5>1
        <5>3. CASE s = {}
          BY <5>2, <5>3, Zenon
        <5>4. CASE s # {}
          <6>1. s \ {Max(s)} \in SUBSET (1 .. k + 1) /\ k + 1 \notin s \ {Max(s)}
            BY <4>2, <5>1
          <6>2. h[s \ {Max(s)}] = f[s \ {Max(s)}]
            BY <6>1
          <6> QED
            BY <5>2, <6>2, Zenon
        <5> QED
          BY <5>3, <5>4
      <4> QED
        BY <4>1, <4>2
    <3>3. F(h, 1 .. k + 1)
      <4>1. h = [s \in SUBSET (1 .. k + 1) |-> h[s]]
        OBVIOUS
      <4> HIDE DEF h, G
      <4> QED
        BY <3>2, <4>1
    <3> HIDE DEF F
    <3> QED
      BY <1>2, <3>3
  <2> HIDE DEF F
  <2>3. \A k \in 0 .. N : k \in S
    <3> HIDE DEF S
    <3> QED
      BY <1>2, <2>1, <2>2, Induction
  <2> QED
    BY <2>3
<1> DEFINE f == CHOOSE f : F(f, 1 .. N)
<1>4. F(f, 1 .. N)
  <2> HIDE DEF F
  <2>0. N \in 0 .. N
    BY <1>2
  <2>1. \E x : F(x, 1 .. N)
    BY <1>3, <2>0
  <2> QED
    BY <2>1, Zenon
<1>5. OnPackets(c, ps) = f[1 .. N]
  BY <1>1, <1>2, Zenon
<1> HIDE DEF f
<1> DEFINE g == [i \in 0 .. N |-> f[1 .. i]]
<1>6. g[0] = c
  <2>1. {} \in SUBSET (1 .. N) /\ 1 .. 0 = {} /\ g[0] = f[1 .. 0]
    BY <1>2
  <2> QED
    BY <1>4, <2>1
<1>7. g[N] = OnPackets(c, ps)
  BY <1>2, <1>5
<1>8. ASSUME NEW i \in 1 .. N PROVE g[i] = OnPacket(g[i - 1], ps[i])
  <2> HIDE DEF F, g
  <2>1. /\ 1 .. i \in SUBSET (1 .. N) /\ 1 .. i # {} /\ i \in Nat
        /\ (1 .. i) \ {i} = 1 .. i - 1 /\ i - 1 \in 0 .. N /\ i \in 0 .. N
    <3>1. i \in 1 .. i /\ i \in Nat /\ i - 1 \in 0 .. N /\ i \in 0 .. N
      BY <1>2
    <3>2. 1 .. i \in SUBSET (1 .. N)
      BY <1>2
    <3>3. (1 .. i) \ {i} = 1 .. i - 1
      BY <1>2
    <3> QED
      BY <3>1, <3>2, <3>3
  <2>2. Max(1 .. i) = i
    <3>1. Max(1 .. i) \in 1 .. i /\ \A y \in 1 .. i : y <= Max(1 .. i)
      BY <2>1, MaxOf
    <3> QED
      BY <2>1, <3>1
  <2>3. f[1 .. i] = OnPacket(f[(1 .. i) \ {i}], ps[i])
    <3>1. f[1 .. i] = G(f, 1 .. i)
      BY <1>4, <2>1 DEF F
    <3> QED
      BY <2>1, <2>2, <3>1, Zenon
  <2>4. g[i] = f[1 .. i] /\ g[i - 1] = f[1 .. i - 1]
    BY <2>1 DEF g
  <2> QED
    BY <2>1, <2>3, <2>4, Zenon
<1> HIDE DEF g
<1> QED
  BY <1>6, <1>7, <1>8 DEF N

-----------------------------------------------------------------------------
(* The functions of the client, field by field.                             *)
Fields(c) == <<c.readyState, c.transport, c.upgrading, c.closeWhen, c.pinged, c.polling,
               c.get, c.bye, c.probe, c.ws, c.accepted, c.heard>>

LEMMA RequestTypes ==
  /\ NoRequest \in Requests /\ FailedRequest \in Requests
  /\ \A ps \in Seq(Packets) : Request(ps) \in Requests /\ Response(ps) \in Requests
                              /\ Request(ps) # NoRequest
BY EmptySeq DEF NoRequest, FailedRequest, Request, Response, Requests

LEMMA FlushFields ==
  ASSUME NEW c, CType(c)
  PROVE  /\ CType(Flush(c)) /\ Fields(Flush(c)) = Fields(c)
         /\ Flush(c).writeBuffer = c.writeBuffer
         /\ \/ /\ Flush(c) = c
               /\ c.readyState = "closed" \/ ~Writable(c) \/ c.upgrading \/ c.writeBuffer = <<>>
            \/ /\ c.readyState # "closed" /\ Writable(c) /\ ~c.upgrading /\ c.writeBuffer # <<>>
               /\ Flush(c).prevBufferLen = Len(c.writeBuffer)
               /\ IF c.transport = "polling"
                  THEN /\ Flush(c).post = Request(c.writeBuffer)
                       /\ Flush(c).writable = c.writable /\ Flush(c).out = c.out
                  ELSE /\ Flush(c).post = c.post /\ Flush(c).writable = FALSE
                       /\ Flush(c).out = IF c.ws = "open" THEN c.out \o c.writeBuffer ELSE c.out
<1>1. CASE ~ (c.readyState # "closed" /\ Writable(c) /\ ~c.upgrading /\ c.writeBuffer # <<>>)
  <2>1. Flush(c) = c
    BY <1>1 DEF Flush
  <2>2. c.upgrading \in BOOLEAN
    BY DEF CType, ClientType
  <2> QED
    BY <1>1, <2>1, <2>2
<1>2. CASE c.readyState # "closed" /\ Writable(c) /\ ~c.upgrading /\ c.writeBuffer # <<>>
  <2> DEFINE w == Write(c, c.writeBuffer)
  <2>1. Flush(c) = [w EXCEPT !.prevBufferLen = Len(c.writeBuffer)]
    BY <1>2 DEF Flush
  <2>2. c.writeBuffer \in Seq(Packets) /\ Len(c.writeBuffer) \in Nat /\ c.out \in Seq(Packets)
    BY DEF CType, ClientType
  <2>3. CASE c.transport = "polling"
    <3>1. w = [c EXCEPT !.post = Request(c.writeBuffer)]
      BY <2>3 DEF Write
    <3>2. Request(c.writeBuffer) \in Requests
      BY <2>2, RequestTypes
    <3> HIDE DEF w
    <3>3. Flush(c) \in ClientType
      BY <2>1, <2>2, <3>1, <3>2 DEF CType, ClientType
    <3>4. Fields(Flush(c)) = Fields(c)
      BY <2>1, <3>1 DEF CType, ClientType, Fields
    <3>5. /\ Flush(c).writeBuffer = c.writeBuffer /\ Flush(c).prevBufferLen = Len(c.writeBuffer)
          /\ Flush(c).post = Request(c.writeBuffer)
          /\ Flush(c).writable = c.writable /\ Flush(c).out = c.out
      BY <2>1, <3>1 DEF CType, ClientType
    <3> QED
      BY <1>2, <2>2, <2>3, <3>3, <3>4, <3>5 DEF CType
  <2>4. CASE c.transport # "polling"
    <3> DEFINE o == IF c.ws = "open" THEN c.out \o c.writeBuffer ELSE c.out
    <3>1. w = [c EXCEPT !.writable = FALSE, !.out = o]
      BY <2>4 DEF Write
    <3>2. o \in Seq(Packets)
      BY <2>2, ConcatProperties
    <3> HIDE DEF w, o
    <3>3. Flush(c) \in ClientType
      BY <2>1, <2>2, <3>1, <3>2 DEF CType, ClientType
    <3>5. Fields(Flush(c)) = Fields(c)
      BY <2>1, <3>1 DEF CType, ClientType, Fields
    <3>4. /\ Flush(c).writeBuffer = c.writeBuffer /\ Flush(c).prevBufferLen = Len(c.writeBuffer)
          /\ Flush(c).post = c.post /\ Flush(c).writable = FALSE /\ Flush(c).out = o
      BY <2>1, <2>2, <3>1, <3>2 DEF CType, ClientType
    <3> QED
      BY <1>2, <2>2, <2>4, <3>3, <3>4, <3>5 DEF o, CType
  <2> QED
    BY <2>3, <2>4
<1> QED
  BY <1>1, <1>2

LEMMA RequestFields ==
  /\ NoRequest.state = "none" /\ NoRequest.packets = <<>>
  /\ FailedRequest.state = "failed" /\ FailedRequest.packets = <<>>
  /\ \A ps : /\ Request(ps).state = "sent" /\ Request(ps).packets = ps
             /\ Response(ps).state = "done" /\ Response(ps).packets = ps
BY DEF NoRequest, FailedRequest, Request, Response

(* What the types give for the sequences.                                   *)
LEMMA SequenceTypes ==
  ASSUME NEW c, CType(c)
  PROVE  /\ c.writeBuffer \in Seq(Packets) /\ c.out \in Seq(Packets) /\ c.heard \in Seq(Nat)
         /\ c.prevBufferLen \in Nat /\ c.prevBufferLen <= Len(c.writeBuffer)
         /\ Len(c.writeBuffer) \in Nat
         /\ c.post.packets \in Seq(Packets) /\ c.get.packets \in Seq(Packets)
         /\ c.accepted \in Nat /\ c.upgrading \in BOOLEAN
         /\ c.transport = "polling" \/ c.transport = "websocket"
         /\ Rest(c) \in Seq(Packets)
         /\ Msgs(Rest(c)) \subseteq Msgs(c.writeBuffer)
         /\ Ascending(c.writeBuffer) => Ascending(Rest(c))
         /\ c.prevBufferLen = 0 => Rest(c) = c.writeBuffer
         /\ c.prevBufferLen = Len(c.writeBuffer) => Rest(c) = <<>>
<1>1. /\ c.writeBuffer \in Seq(Packets) /\ c.out \in Seq(Packets) /\ c.heard \in Seq(Nat)
      /\ c.prevBufferLen \in Nat /\ c.prevBufferLen <= Len(c.writeBuffer)
      /\ c.post \in Requests /\ c.get \in Requests
      /\ c.accepted \in Nat /\ c.upgrading \in BOOLEAN
      /\ c.transport = "polling" \/ c.transport = "websocket"
  BY DEF CType, ClientType
<1>2. c.post.packets \in Seq(Packets) /\ c.get.packets \in Seq(Packets)
  BY <1>1 DEF Requests
<1>3. Len(c.writeBuffer) \in Nat
  BY <1>1, LenProperties
<1>4. /\ Rest(c) \in Seq(Packets)
      /\ Msgs(Rest(c)) \subseteq Msgs(c.writeBuffer)
      /\ Ascending(c.writeBuffer) => Ascending(Rest(c))
      /\ c.prevBufferLen = 0 => Rest(c) = c.writeBuffer
      /\ c.prevBufferLen = Len(c.writeBuffer) => Rest(c) = <<>>
  BY <1>1, AfterProperties DEF Rest
<1> QED
  BY <1>1, <1>2, <1>3, <1>4

LEMMA BaseFlush ==
  ASSUME NEW c, NEW s, NEW o, Base(c, s, o)
  PROVE  Base(Flush(c), s, o) /\ Flushed(Flush(c))
<1> DEFINE d == Flush(c)
<1>1. /\ CType(c) /\ ClientShape(c) /\ Shape(c, s) /\ UpOrder(c, s) /\ UpGap(c, s)
      /\ DownOrder(c, s) /\ DownGap(c, s) /\ Waking(c, s, o)
  BY DEF Base
<1>2. /\ CType(d)
      /\ d.readyState = c.readyState /\ d.transport = c.transport /\ d.upgrading = c.upgrading
      /\ d.polling = c.polling /\ d.get = c.get /\ d.probe = c.probe /\ d.ws = c.ws
      /\ d.accepted = c.accepted /\ d.heard = c.heard /\ d.writeBuffer = c.writeBuffer
  BY <1>1, FlushFields DEF Fields
<1>3. CASE /\ d = c
           /\ c.readyState = "closed" \/ ~Writable(c) \/ c.upgrading \/ c.writeBuffer = <<>>
  <2>1. Flushed(c)
    BY <1>3 DEF Flushed
  <2> QED
    BY <1>3, <2>1, Zenon
<1>4. CASE /\ c.readyState # "closed" /\ Writable(c) /\ ~c.upgrading /\ c.writeBuffer # <<>>
           /\ d.prevBufferLen = Len(c.writeBuffer)
           /\ IF c.transport = "polling"
              THEN /\ d.post = Request(c.writeBuffer)
                   /\ d.writable = c.writable /\ d.out = c.out
              ELSE /\ d.post = c.post /\ d.writable = FALSE
                   /\ d.out = IF c.ws = "open" THEN c.out \o c.writeBuffer ELSE c.out
  <2> HIDE DEF d
  <2>1. c.prevBufferLen = 0 /\ Rest(c) = c.writeBuffer /\ Rest(d) = <<>>
    BY <1>1, <1>2, <1>4, SequenceTypes DEF ClientShape
  <2>2. DownOrder(d, s)
    BY <1>1, <1>2 DEF DownOrder
  <2>3. DownGap(d, s)
    BY <1>1, <1>2 DEF DownGap, Receiving
  <2>4. CASE c.transport = "polling"
    <3>1. c.post = NoRequest /\ c.polling # "opening"
      BY <1>4, <2>4 DEF Writable
    <3>2. /\ d.post.state = "sent" /\ d.post.packets = c.writeBuffer /\ d.post # NoRequest
          /\ d.out = c.out /\ d.writable = c.writable /\ c.post.packets = <<>> /\ c.post.state = "none"
      BY <1>4, <2>4, <3>1, RequestFields, RequestTypes, SequenceTypes, <1>1
    <3>3. ~Writable(d)
      BY <1>2, <2>4, <3>2 DEF Writable
    <3>4. ClientShape(d)
      BY <1>1, <1>2, <1>4, <2>4, <3>1, <3>2, <3>3 DEF ClientShape, Probing
    <3>5. Shape(d, s)
      BY <1>1, <1>2, <1>4, <2>4, <3>1, <3>2 DEF Shape, Probing
    <3>6. UpOrder(d, s)
      BY <1>1, <1>2, <2>1, <3>2, MsgsEmpty DEF UpOrder, Below
    <3>7. UpGap(d, s)
      <4>1. Sending(c)
        BY <1>1, <1>4, <2>4, <3>2 DEF Sending
      <4>2. Msgs(c.out) = {}
        BY <1>1, <2>4 DEF ClientShape, Msgs, IsMessage, Packet
      <4>3. Msgs(c.post.packets) = {} /\ Msgs(Rest(d)) = {}
        BY <2>1, <3>2, MsgsEmpty
      <4>4. Msgs(c.writeBuffer) \subseteq 1 .. c.accepted /\ c.accepted \in Nat
        BY <1>1, SequenceTypes DEF UpOrder
      <4>5. Len(s.got) \in Nat
        BY LenProperties DEF Base, ServerType
      <4> QED
        BY <1>1, <1>2, <2>1, <3>2, <4>1, <4>2, <4>3, <4>4, <4>5 DEF UpGap
    <3>8. Waking(d, s, o)
      BY <1>1, <1>2, <3>2 DEF Waking, Woken
    <3> QED
      BY <1>2, <2>2, <2>3, <3>3, <3>4, <3>5, <3>6, <3>7, <3>8 DEF Base, Flushed, d
  <2>5. CASE c.transport = "websocket"
    <3>1. /\ d.post = c.post /\ d.writable = FALSE
          /\ d.out = IF c.ws = "open" THEN c.out \o c.writeBuffer ELSE c.out
          /\ c.post = NoRequest
      BY <1>1, <1>4, <2>5 DEF ClientShape
    <3>2. ~Writable(d)
      BY <1>2, <2>5, <3>1 DEF Writable
    <3>3. /\ Msgs(d.out) = IF c.ws = "open" THEN Msgs(c.out) \cup Msgs(c.writeBuffer)
                                          ELSE Msgs(c.out)
          /\ Ascending(d.out)
      BY <1>1, <2>1, <3>1, MsgsConcat, SequenceTypes DEF UpOrder, Below
    <3>4. ClientShape(d)
      BY <1>1, <1>2, <1>4, <2>5, <3>1, <3>2 DEF ClientShape, Probing
    <3>5. Shape(d, s)
      BY <1>1, <1>2, <1>4, <2>5, <3>1 DEF Shape, Probing
    <3>6. UpOrder(d, s)
      BY <1>1, <1>2, <2>1, <3>1, <3>3, MsgsEmpty DEF UpOrder, Below
    <3>7. UpGap(d, s)
      <4>1. Msgs(c.post.packets) = {} /\ Msgs(Rest(d)) = {}
        BY <2>1, <3>1, MsgsEmpty, RequestFields
      <4>2. Msgs(c.writeBuffer) \subseteq 1 .. c.accepted /\ c.accepted \in Nat
        BY <1>1, SequenceTypes DEF UpOrder
      <4>3. Len(s.got) \in Nat
        BY LenProperties DEF Base, ServerType
      <4> QED
        BY <1>1, <1>2, <1>4, <2>1, <2>5, <3>1, <3>3, <4>1, <4>2, <4>3 DEF UpGap, Sending
    <3>8. Waking(d, s, o)
      BY <1>1, <1>2, <2>5, <3>1 DEF Waking, Woken, ClientShape
    <3> QED
      BY <1>2, <2>2, <2>3, <3>2, <3>4, <3>5, <3>6, <3>7, <3>8 DEF Base, Flushed, d
  <2> QED
    BY <1>1, <2>4, <2>5, SequenceTypes
<1> QED
  BY <1>1, <1>3, <1>4, FlushFields

LEMMA NotOpen == ~ IsOpen(<<>>)
BY DEF IsOpen

LEMMA SeqNotOpen ==
  ASSUME NEW ps \in Seq(Plain)
  PROVE  ~ IsOpen(ps)
<1>1. Packet("open") \notin Plain
  BY DEF Plain, Packet
<1>2. ps = <<Packet("open")>> => Len(ps) = 1 /\ ps[1] = Packet("open")
  OBVIOUS
<1> QED
  BY <1>1, <1>2, ElementOfSeq DEF IsOpen

LEMMA SetWs ==
  ASSUME NEW c \in ClientType, NEW w \in {"none", "connecting", "open", "closed", "gone"}
  PROVE  [c EXCEPT !.ws = w] \in ClientType
BY DEF ClientType

LEMMA SetPolling ==
  ASSUME NEW c \in ClientType, NEW p \in {"opening", "open", "pausing", "paused", "closed"}
  PROVE  [c EXCEPT !.polling = p] \in ClientType
BY DEF ClientType

LEMMA SetProbe ==
  ASSUME NEW c \in ClientType,
         NEW p \in {"none", "opening", "pinged", "pausing", "done", "failed"}
  PROVE  [c EXCEPT !.probe = p] \in ClientType
BY DEF ClientType

LEMMA FreezeFields ==
  ASSUME NEW c, CType(c)
  PROVE  /\ CType(Freeze(c))
         /\ Freeze(c).readyState = c.readyState /\ Freeze(c).transport = c.transport
         /\ Freeze(c).upgrading = c.upgrading /\ Freeze(c).writeBuffer = c.writeBuffer
         /\ Freeze(c).prevBufferLen = c.prevBufferLen /\ Freeze(c).closeWhen = c.closeWhen
         /\ Freeze(c).pinged = c.pinged /\ Freeze(c).polling = c.polling
         /\ Freeze(c).get = c.get /\ Freeze(c).post = c.post /\ Freeze(c).bye = c.bye
         /\ Freeze(c).writable = c.writable /\ Freeze(c).out = c.out
         /\ Freeze(c).accepted = c.accepted /\ Freeze(c).heard = c.heard
         /\ Freeze(c).probe = IF Probing(c) THEN "failed" ELSE c.probe
         /\ Freeze(c).ws = IF Probing(c) THEN Hung(c.ws) ELSE c.ws
<1>1. c \in ClientType /\ c.prevBufferLen <= Len(c.writeBuffer)
  BY DEF CType
<1>2. CASE ~Probing(c)
  <2>1. Freeze(c) = c
    BY <1>2 DEF Freeze
  <2> QED
    BY <1>2, <2>1
<1>3. CASE Probing(c)
  <2>1. Freeze(c) = [c EXCEPT !.probe = "failed", !.ws = Hung(@)]
    BY <1>3 DEF Freeze
  <2>2. Hung(c.ws) \in {"none", "connecting", "open", "closed", "gone"}
    BY DEF Hung
  <2>3. Freeze(c) \in ClientType
    <3> DEFINE w == Hung(c.ws)
    <3>1. Freeze(c) = [c EXCEPT !.probe = "failed", !.ws = w]
      BY <2>1, Zenon
    <3> HIDE DEF w
    <3>2. w \in {"none", "connecting", "open", "closed", "gone"}
      BY <2>2 DEF w
    <3> DEFINE e == [c EXCEPT !.probe = "failed"]
    <3>3. e \in ClientType
      BY <1>1, SetProbe
    <3>4. Freeze(c) = [e EXCEPT !.ws = w]
      BY <3>1
    <3> HIDE DEF e
    <3> QED
      BY <3>2, <3>3, <3>4, SetWs
  <2>4. /\ Freeze(c).readyState = c.readyState /\ Freeze(c).transport = c.transport
        /\ Freeze(c).upgrading = c.upgrading /\ Freeze(c).writeBuffer = c.writeBuffer
        /\ Freeze(c).prevBufferLen = c.prevBufferLen /\ Freeze(c).closeWhen = c.closeWhen
        /\ Freeze(c).pinged = c.pinged /\ Freeze(c).polling = c.polling
    BY <1>1, <2>1 DEF ClientType
  <2>5. /\ Freeze(c).get = c.get /\ Freeze(c).post = c.post /\ Freeze(c).bye = c.bye
        /\ Freeze(c).writable = c.writable /\ Freeze(c).out = c.out
        /\ Freeze(c).accepted = c.accepted /\ Freeze(c).heard = c.heard
    BY <1>1, <2>1 DEF ClientType
  <2>6. Freeze(c).probe = "failed" /\ Freeze(c).ws = Hung(c.ws)
    BY <1>1, <2>1 DEF ClientType
  <2> QED
    BY <1>1, <1>3, <2>3, <2>4, <2>5, <2>6 DEF CType
<1> QED
  BY <1>2, <1>3

(* d is c after onClose.                                                    *)
ClosedFrom(d, c) ==
  /\ CType(d) /\ d.readyState = "closed" /\ d.closeWhen = "no"
  /\ d.writeBuffer = <<>> /\ d.prevBufferLen = 0 /\ d.get = NoRequest
  /\ d.transport = c.transport /\ d.post = c.post /\ d.writable = c.writable
  /\ d.out = c.out /\ d.accepted = c.accepted /\ d.heard = c.heard
  /\ c.transport = "websocket" => d.polling = c.polling
  /\ d.probe = IF Probing(c) THEN "failed" ELSE c.probe
  /\ d.ws = IF Probing(c) \/ c.transport # "polling" THEN Hung(c.ws) ELSE c.ws

LEMMA OnCloseFields ==
  ASSUME NEW c, CType(c), c.readyState # "closed"
  PROVE  ClosedFrom(OnClose(c), c)
<1> DEFINE f == Freeze(c)
           d == OnClose(c)
           polls == c.transport = "polling"
<1>1. d = [f EXCEPT
          !.readyState = "closed", !.closeWhen = "no", !.writeBuffer = <<>>,
          !.prevBufferLen = 0, !.get = NoRequest, !.pinged = FALSE,
          !.bye = polls /\ c.polling = "open",
          !.polling = IF polls /\ @ \in {"opening", "open"} THEN "closed" ELSE @,
          !.ws = IF polls THEN @ ELSE Hung(@)]
  BY DEF OnClose
<1>2. f \in ClientType
  BY FreezeFields DEF CType
<1>3. /\ f.polling = c.polling /\ f.transport = c.transport /\ f.post = c.post
      /\ f.writable = c.writable /\ f.out = c.out /\ f.accepted = c.accepted
      /\ f.heard = c.heard
      /\ f.probe = IF Probing(c) THEN "failed" ELSE c.probe
      /\ f.ws = IF Probing(c) THEN Hung(c.ws) ELSE c.ws
  BY FreezeFields
<1>4. Hung(f.ws) \in {"none", "connecting", "open", "closed", "gone"} /\ Hung(Hung(c.ws)) = Hung(c.ws)
  BY DEF Hung
<1>5. NoRequest \in Requests /\ <<>> \in Seq(Packets) /\ Len(<<>>) = 0
  BY RequestTypes, EmptySeq
<1> DEFINE b == polls /\ c.polling = "open"
           q == IF polls /\ f.polling \in {"opening", "open"} THEN "closed" ELSE f.polling
           w == IF polls THEN f.ws ELSE Hung(f.ws)
<1>6. d = [f EXCEPT
          !.readyState = "closed", !.closeWhen = "no", !.writeBuffer = <<>>,
          !.prevBufferLen = 0, !.get = NoRequest, !.pinged = FALSE,
          !.bye = b, !.polling = q, !.ws = w]
  BY <1>1, Zenon
<1>7. b \in BOOLEAN /\ q \in {"opening", "open", "pausing", "paused", "closed"}
      /\ w \in {"none", "connecting", "open", "closed", "gone"}
  BY <1>2, <1>4 DEF ClientType
<1>8. polls => w = IF Probing(c) THEN Hung(c.ws) ELSE c.ws
  BY <1>3
<1>9. ~polls => w = Hung(c.ws) /\ q = c.polling
  BY <1>3, <1>4
<1> HIDE DEF f, d, b, q, w
<1>10. d \in ClientType
  <2> DEFINE e1 == [f EXCEPT !.readyState = "closed", !.closeWhen = "no", !.writeBuffer = <<>>]
             e2 == [e1 EXCEPT !.prevBufferLen = 0, !.get = NoRequest, !.pinged = FALSE]
             e3 == [e2 EXCEPT !.bye = b]
             e4 == [e3 EXCEPT !.polling = q]
  <2>1. e1 \in ClientType
    BY <1>2, <1>5 DEF ClientType
  <2>2. d = [e4 EXCEPT !.ws = w]
    BY <1>6
  <2> HIDE DEF e1
  <2>3. e2 \in ClientType
    BY <1>5, <2>1 DEF ClientType
  <2> HIDE DEF e2
  <2>4. e3 \in ClientType
    BY <1>7, <2>3 DEF ClientType
  <2> HIDE DEF e3
  <2>5. e4 \in ClientType
    BY <1>7, <2>4, SetPolling
  <2> HIDE DEF e4
  <2> QED
    BY <1>7, <2>2, <2>5, SetWs
<1>11. /\ d.readyState = "closed" /\ d.closeWhen = "no" /\ d.writeBuffer = <<>>
       /\ d.prevBufferLen = 0 /\ d.get = NoRequest /\ d.polling = q /\ d.ws = w
  BY <1>2, <1>6 DEF ClientType
<1>12. /\ d.transport = f.transport /\ d.post = f.post /\ d.writable = f.writable
       /\ d.out = f.out /\ d.accepted = f.accepted /\ d.heard = f.heard
       /\ d.probe = f.probe
  BY <1>2, <1>6 DEF ClientType
<1>13. CType(d)
  BY <1>5, <1>10, <1>11 DEF CType
<1> QED
  BY <1>3, <1>8, <1>9, <1>11, <1>12, <1>13 DEF ClosedFrom, d

LEMMA BaseClosed ==
  ASSUME NEW c, NEW d, NEW s, NEW o, Base(c, s, o), ClosedFrom(d, c)
  PROVE  Base(d, s, o) /\ Flushed(d) /\ Resumed(d)
<1>1. /\ CType(c) /\ ClientShape(c) /\ Shape(c, s) /\ UpOrder(c, s) /\ UpGap(c, s)
      /\ DownOrder(c, s) /\ DownGap(c, s) /\ Waking(c, s, o)
  BY DEF Base
<1>2. /\ CType(d) /\ d.readyState = "closed"
      /\ d.writeBuffer = <<>> /\ d.prevBufferLen = 0 /\ d.get = NoRequest
      /\ d.transport = c.transport /\ d.post = c.post /\ d.writable = c.writable
      /\ d.out = c.out /\ d.accepted = c.accepted /\ d.heard = c.heard
      /\ c.transport = "websocket" => d.polling = c.polling
      /\ d.probe = IF Probing(c) THEN "failed" ELSE c.probe
      /\ d.ws = IF Probing(c) \/ c.transport # "polling" THEN Hung(c.ws) ELSE c.ws
  BY DEF ClosedFrom
<1>3. c.transport = "polling" \/ c.transport = "websocket"
  BY <1>1, SequenceTypes
<1>4. d.get.packets = <<>> /\ d.get.state = "none" /\ ~IsOpen(d.get.packets)
  BY <1>2, RequestFields, NotOpen
<1>5. Rest(d) = <<>>
  BY <1>2, SequenceTypes
<1>6. ClientShape(d)
  <2>1. ~Probing(d)
    BY <1>2 DEF Probing
  <2>2. <<>> \in Seq(Plain)
    BY EmptySeq
  <2>3. /\ d.transport = "polling" => d.writable /\ d.probe # "done"
        /\ d.transport = "polling" => \A i \in DOMAIN d.out : d.out[i] = Packet("probe")
    BY <1>1, <1>2 DEF ClientShape
  <2>4. d.transport = "websocket" => d.polling = "paused" /\ d.post = NoRequest /\ d.probe = "done"
    BY <1>1, <1>2 DEF ClientShape, Probing
  <2>5. /\ d.probe = "none" => d.ws = "none"
        /\ d.probe \notin {"opening", "pinged", "pausing"}
        /\ d.ws # "connecting"
        /\ d.ws \in {"none", "connecting"} => d.out = <<>>
    BY <1>1, <1>2, <1>3, <2>4 DEF ClientShape, Probing, Hung
  <2>6. (d.post.state # "sent" => d.post.packets = <<>>) /\ d.post.state # "taking"
    BY <1>1, <1>2 DEF ClientShape
  <2>7. d.probe = "done" => d.ws \in {"open", "closed", "gone"}
    BY <1>1, <1>2 DEF ClientShape, Hung
  <2> QED
    BY <1>2, <1>4, <2>1, <2>2, <2>3, <2>4, <2>5, <2>6, <2>7 DEF ClientShape
<1>7. Shape(d, s)
  <2>1. /\ s.session = "closed" => d.ws = "gone" /\ d.out = <<>>
        /\ s.session = "opening" => d.ws # "open" /\ d.out = <<>>
    BY <1>1, <1>2 DEF Shape, Hung
  <2>2. d.ws # "connecting"
    BY <1>1, <1>2, <1>3 DEF ClientShape, Probing, Hung
  <2>3. s.session = "none" => d.heard = <<>> /\ d.post = NoRequest /\ d.probe = "none"
    BY <1>1, <1>2 DEF Shape, Probing
  <2> QED
    BY <1>1, <1>2, <1>4, <2>1, <2>2, <2>3 DEF Shape
<1>8. UpOrder(d, s)
  BY <1>1, <1>2, <1>5, MsgsEmpty DEF UpOrder, Below
<1>9. UpGap(d, s)
  BY <1>1, <1>2 DEF UpGap, Sending
<1>10. DownOrder(d, s)
  BY <1>1, <1>2, <1>4, MsgsEmpty DEF DownOrder, Below
<1>11. DownGap(d, s)
  BY <1>1, <1>2 DEF DownGap, Receiving
<1>12. Waking(d, s, o) /\ Flushed(d) /\ Resumed(d)
  BY <1>2 DEF Waking, Flushed, Resumed
<1> QED
  BY <1>2, <1>6, <1>7, <1>8, <1>9, <1>10, <1>11, <1>12 DEF Base

LEMMA BaseClose ==
  ASSUME NEW c, NEW s, NEW o, Base(c, s, o)
  PROVE  Base(OnClose(c), s, o) /\ Flushed(OnClose(c)) /\ Resumed(OnClose(c))
<1>1. CASE c.readyState = "closed"
  <2>1. OnClose(c) = c
    BY <1>1 DEF OnClose
  <2>2. Flushed(c) /\ Resumed(c)
    BY <1>1 DEF Flushed, Resumed
  <2> QED
    BY <2>1, <2>2, Zenon
<1>2. CASE c.readyState # "closed"
  <2>1. CType(c)
    BY DEF Base
  <2>2. ClosedFrom(OnClose(c), c)
    BY <1>2, <2>1, OnCloseFields
  <2> QED
    BY <2>2, BaseClosed
<1> QED
  BY <1>1, <1>2

LEMMA BaseFreeze ==
  ASSUME NEW c, NEW s, NEW o, Base(c, s, o), Flushed(c), Resumed(c)
  PROVE  Base(Freeze(c), s, o) /\ Flushed(Freeze(c)) /\ Resumed(Freeze(c))
<1> DEFINE d == Freeze(c)
<1>1. /\ CType(c) /\ ClientShape(c) /\ Shape(c, s) /\ UpOrder(c, s) /\ UpGap(c, s)
      /\ DownOrder(c, s) /\ DownGap(c, s) /\ Waking(c, s, o) /\ Flushed(c) /\ Resumed(c)
  BY DEF Base
<1>2. CASE ~Probing(c)
  <2>1. d = c
    BY <1>2 DEF Freeze
  <2> QED
    BY <2>1, Zenon
<1>3. CASE Probing(c)
  <2>1. /\ CType(d)
        /\ d.readyState = c.readyState /\ d.transport = c.transport
        /\ d.upgrading = c.upgrading /\ d.writeBuffer = c.writeBuffer
        /\ d.prevBufferLen = c.prevBufferLen /\ d.polling = c.polling
        /\ d.get = c.get /\ d.post = c.post /\ d.writable = c.writable /\ d.out = c.out
        /\ d.accepted = c.accepted /\ d.heard = c.heard
        /\ d.probe = "failed" /\ d.ws = Hung(c.ws)
    BY <1>1, <1>3, FreezeFields
  <2> HIDE DEF d
  <2>2. c.transport = "polling" /\ c.readyState # "closed" /\ c.polling # "opening"
    BY <1>1, <1>3, SequenceTypes DEF ClientShape, Probing
  <2>3. d.ws \in {"closed", "gone"} /\ (c.ws = "gone" => d.ws = "gone")
    BY <2>1 DEF Hung
  <2>4. Rest(d) = Rest(c) /\ (Writable(d) <=> Writable(c))
    BY <2>1, <2>2 DEF Rest, Writable
  <2>5. ClientShape(d)
    BY <1>1, <1>3, <2>1, <2>2, <2>3, <2>4 DEF ClientShape, Probing
  <2>6. Shape(d, s)
    BY <1>1, <1>3, <2>1, <2>2, <2>3 DEF Shape, Probing
  <2>7. UpOrder(d, s)
    BY <1>1, <2>1, <2>4 DEF UpOrder
  <2>8. UpGap(d, s)
    BY <1>1, <2>1, <2>2, <2>4 DEF UpGap, Sending
  <2>9. DownOrder(d, s)
    BY <1>1, <2>1 DEF DownOrder
  <2>10. DownGap(d, s)
    BY <1>1, <2>1, <2>2 DEF DownGap, Receiving
  <2>11. Waking(d, s, o) /\ Resumed(d)
    BY <2>1 DEF Waking, Resumed
  <2>12. Flushed(d)
    BY <1>1, <2>1, <2>4 DEF Flushed
  <2>13. s \in ServerType /\ o \in BOOLEAN
    BY DEF Base
  <2> QED
    BY <2>1, <2>5, <2>6, <2>7, <2>8, <2>9, <2>10, <2>11, <2>12, <2>13 DEF Base, d
<1> QED
  BY <1>2, <1>3

LEMMA BaseSame ==
  ASSUME NEW c, NEW d, NEW s, NEW o, Base(c, s, o), CType(d),
         d.readyState = c.readyState, d.transport = c.transport, d.upgrading = c.upgrading,
         d.writeBuffer = c.writeBuffer, d.prevBufferLen = c.prevBufferLen,
         d.polling = c.polling, d.get = c.get, d.post = c.post, d.probe = c.probe,
         d.ws = c.ws, d.writable = c.writable, d.out = c.out,
         d.accepted = c.accepted, d.heard = c.heard
  PROVE  Base(d, s, o) /\ (Flushed(c) => Flushed(d)) /\ (Resumed(c) => Resumed(d))
<1>1. ClientShape(c) /\ Shape(c, s) /\ UpOrder(c, s) /\ UpGap(c, s)
      /\ DownOrder(c, s) /\ DownGap(c, s) /\ Waking(c, s, o) /\ s \in ServerType /\ o \in BOOLEAN
  BY DEF Base
<1>2. ClientShape(d)
  BY <1>1 DEF ClientShape, Probing, Writable
<1>3. Shape(d, s)
  BY <1>1 DEF Shape, Probing
<1>4. UpOrder(d, s) /\ UpGap(d, s)
  BY <1>1 DEF UpOrder, UpGap, Sending, Rest
<1>5. DownOrder(d, s) /\ DownGap(d, s)
  BY <1>1 DEF DownOrder, DownGap, Receiving
<1>6. Waking(d, s, o)
  BY <1>1 DEF Waking, Woken
<1> QED
  BY <1>1, <1>2, <1>3, <1>4, <1>5, <1>6 DEF Base, Flushed, Resumed, Writable

LEMMA BaseAppend ==
  ASSUME NEW c, NEW d, NEW s, NEW o, NEW p \in Packets, Base(c, s, o), CType(d),
         c.readyState \in {"opening", "open"},
         IF IsMessage(p) THEN p.n = c.accepted + 1 /\ d.accepted = c.accepted + 1 /\ c.accepted < MaxUp
                         ELSE d.accepted = c.accepted,
         d.writeBuffer = Append(c.writeBuffer, p),
         d.readyState = c.readyState, d.transport = c.transport, d.upgrading = c.upgrading,
         d.prevBufferLen = c.prevBufferLen,
         d.polling = c.polling, d.get = c.get, d.post = c.post, d.probe = c.probe,
         d.ws = c.ws, d.writable = c.writable, d.out = c.out, d.heard = c.heard
  PROVE  Base(d, s, o) /\ (Resumed(c) => Resumed(d))
<1>1. /\ ClientShape(c) /\ Shape(c, s) /\ UpOrder(c, s) /\ UpGap(c, s)
      /\ DownOrder(c, s) /\ DownGap(c, s) /\ Waking(c, s, o) /\ s \in ServerType /\ o \in BOOLEAN
      /\ CType(c)
  BY DEF Base
<1>2. ClientShape(d)
  BY <1>1 DEF ClientShape, Probing, Writable
<1>3. /\ c.writeBuffer \in Seq(Packets) /\ c.prevBufferLen \in Nat
      /\ c.prevBufferLen <= Len(c.writeBuffer) /\ c.accepted \in Nat
      /\ Rest(c) \in Seq(Packets) /\ Msgs(Rest(c)) \subseteq Msgs(c.writeBuffer)
  BY <1>1, SequenceTypes
<1>4. Shape(d, s)
  <2>1. d.accepted <= MaxUp
    BY <1>1, <1>3, UpgradeAssumption DEF Shape
  <2> QED
    BY <1>1, <2>1 DEF Shape, Probing
<1> DEFINE m == IF IsMessage(p) THEN {p.n} ELSE {}
<1>5. Rest(d) = Append(Rest(c), p)
  BY <1>3, AfterAppend DEF Rest
<1>6. Msgs(Rest(d)) = Msgs(Rest(c)) \cup m
  BY <1>3, <1>5, MsgsAppend
<1>7. /\ Msgs(d.writeBuffer) = Msgs(c.writeBuffer) \cup m
      /\ Ascending(d.writeBuffer)
  <2>1. IsMessage(p) => Below(Msgs(c.writeBuffer), {p.n})
    BY <1>1, <1>3 DEF UpOrder, Below
  <2>2. Ascending(c.writeBuffer)
    BY <1>1 DEF UpOrder
  <2>3. /\ Msgs(Append(c.writeBuffer, p)) = Msgs(c.writeBuffer) \cup m
        /\ Ascending(Append(c.writeBuffer, p))
    BY <1>3, <2>1, <2>2, MsgsAppend, Zenon
  <2> QED
    BY <2>3
<1>8. 1 .. c.accepted \subseteq 1 .. d.accepted /\ m \subseteq 1 .. d.accepted
      /\ \A x \in 1 .. c.accepted : \A y \in m : x < y
  BY <1>3
<1>9. UpOrder(d, s)
  <2> HIDE DEF m
  <2> QED
    BY <1>1, <1>6, <1>7, <1>8 DEF UpOrder, Below
<1>10. UpGap(d, s)
  <2>1. \A k \in Nat : k + 1 .. d.accepted \subseteq (k + 1 .. c.accepted) \cup m
    <3>1. CASE IsMessage(p)
      BY <1>3, <3>1
    <3>2. CASE ~IsMessage(p)
      BY <1>3, <3>2
    <3> QED
      BY <3>1, <3>2
  <2>2. Len(s.got) \in Nat
    BY <1>1, LenProperties DEF ServerType
  <2> HIDE DEF m
  <2> QED
    BY <1>1, <1>6, <2>1, <2>2 DEF UpGap, Sending
<1>11. DownOrder(d, s) /\ DownGap(d, s)
  BY <1>1 DEF DownOrder, DownGap, Receiving
<1>12. Waking(d, s, o)
  BY <1>1 DEF Waking, Woken
<1> QED
  BY <1>1, <1>2, <1>4, <1>9, <1>10, <1>11, <1>12 DEF Base, Resumed

LEMMA ResumedFlush ==
  ASSUME NEW c, CType(c), Resumed(c)
  PROVE  Resumed(Flush(c))
<1>1. /\ Flush(c).readyState = c.readyState /\ Flush(c).probe = c.probe /\ Flush(c).get = c.get
  BY FlushFields DEF Fields
<1>2. c.writeBuffer \in Seq(Packets)
  BY SequenceTypes
<1>3. Flush(c) = c \/ Flush(c).post = c.post \/ Flush(c).post = Request(c.writeBuffer)
  BY FlushFields
<1>4. Request(c.writeBuffer) # NoRequest
  BY <1>2, RequestTypes
<1> QED
  BY <1>1, <1>3, <1>4 DEF Resumed

(* Once what was sent is out, it leaves the buffer.                         *)
LEMMA BaseDrained ==
  ASSUME NEW c, NEW d, NEW s, NEW o, Base(c, s, o), CType(d), c.readyState # "closed",
         \/ /\ c.post.state = "done" /\ d.post = NoRequest /\ d.writable = c.writable
         \/ /\ c.transport = "websocket" /\ d.writable = TRUE /\ d.post = c.post,
         d.writeBuffer = Rest(c), d.prevBufferLen = 0,
         d.readyState = c.readyState, d.transport = c.transport, d.upgrading = c.upgrading,
         d.polling = c.polling, d.get = c.get, d.probe = c.probe,
         d.ws = c.ws, d.out = c.out, d.accepted = c.accepted, d.heard = c.heard
  PROVE  Base(d, s, o)
<1>1. /\ ClientShape(c) /\ Shape(c, s) /\ UpOrder(c, s) /\ UpGap(c, s)
      /\ DownOrder(c, s) /\ DownGap(c, s) /\ Waking(c, s, o) /\ s \in ServerType /\ o \in BOOLEAN
      /\ CType(c)
  BY DEF Base
<1>2. d.post.state = "none" /\ d.post.packets = <<>> /\ c.post.packets = <<>>
      /\ c.post.state # "failed"
  BY <1>1, RequestFields, SequenceTypes DEF ClientShape
<1>3. /\ Rest(d) = d.writeBuffer /\ Rest(c) \in Seq(Packets)
      /\ Msgs(Rest(c)) \subseteq Msgs(c.writeBuffer)
      /\ Ascending(c.writeBuffer) => Ascending(Rest(c))
  BY <1>1, SequenceTypes
<1>4. ClientShape(d)
  BY <1>1, <1>2, RequestFields, SequenceTypes DEF ClientShape, Probing
<1>5. Shape(d, s)
  BY <1>1, RequestFields DEF Shape, Probing
<1>6. UpOrder(d, s)
  <2>1. /\ Rest(d) = Rest(c) /\ d.post.packets = c.post.packets
        /\ Ascending(d.writeBuffer) /\ Msgs(d.writeBuffer) \subseteq 1 .. c.accepted
    <3>1. Ascending(c.writeBuffer) /\ Msgs(c.writeBuffer) \subseteq 1 .. c.accepted
      BY <1>1 DEF UpOrder
    <3>2. Rest(d) = Rest(c) /\ d.post.packets = c.post.packets
      BY <1>2, <1>3
    <3>3. Msgs(Rest(c)) \subseteq 1 .. c.accepted /\ Ascending(Rest(c))
      BY <1>3, <3>1, Zenon
    <3> QED
      BY <3>2, <3>3, Zenon
  <2> QED
    BY <1>1, <2>1 DEF UpOrder
<1>7. UpGap(d, s)
  BY <1>1, <1>2, <1>3, SequenceTypes DEF UpGap, Sending
<1>8. DownOrder(d, s) /\ DownGap(d, s)
  BY <1>1 DEF DownOrder, DownGap, Receiving
<1>9. Waking(d, s, o)
  BY <1>1 DEF Waking, Woken
<1> QED
  BY <1>1, <1>4, <1>5, <1>6, <1>7, <1>8, <1>9 DEF Base

-----------------------------------------------------------------------------
(* What each callback of the client preserves.                              *)
LEMMA BaseSend ==
  ASSUME NEW c, NEW d, NEW s, NEW o, NEW p \in Packets, Base(c, s, o), Resumed(c), Flushed(c),
         CType(d), c.readyState \in {"opening", "open"},
         d.readyState = c.readyState, d.transport = c.transport, d.upgrading = c.upgrading,
         d.writeBuffer = c.writeBuffer, d.prevBufferLen = c.prevBufferLen,
         d.polling = c.polling, d.get = c.get, d.post = c.post, d.probe = c.probe,
         d.ws = c.ws, d.writable = c.writable, d.out = c.out, d.heard = c.heard,
         IF IsMessage(p) THEN p.n = c.accepted + 1 /\ d.accepted = c.accepted + 1 /\ c.accepted < MaxUp
                         ELSE d.accepted = c.accepted
  PROVE  LET e == SendPacket(d, p) IN Base(e, s, o) /\ Flushed(e) /\ Resumed(e)
<1> DEFINE e == [d EXCEPT !.writeBuffer = Append(@, p)]
           b == Append(d.writeBuffer, p)
<1>1. SendPacket(d, p) = Flush(e)
  BY DEF SendPacket
<1>2. b \in Seq(Packets) /\ Len(b) = Len(d.writeBuffer) + 1 /\ d \in ClientType
      /\ d.prevBufferLen <= Len(d.writeBuffer) /\ Len(d.writeBuffer) \in Nat /\ d.prevBufferLen \in Nat
  BY SequenceTypes, AppendProperties DEF CType
<1>3. e = [d EXCEPT !.writeBuffer = b]
  OBVIOUS
<1> HIDE DEF e, b
<1>4. e \in ClientType /\ e.writeBuffer = b /\ e.prevBufferLen = d.prevBufferLen
  BY <1>2, <1>3 DEF ClientType
<1>5. CType(e)
  BY <1>2, <1>4 DEF CType
<1>6. /\ e.readyState = d.readyState /\ e.transport = d.transport /\ e.upgrading = d.upgrading
      /\ e.polling = d.polling /\ e.get = d.get /\ e.post = d.post /\ e.probe = d.probe
      /\ e.ws = d.ws /\ e.writable = d.writable /\ e.out = d.out /\ e.heard = d.heard
      /\ e.accepted = d.accepted
  BY <1>2, <1>3 DEF ClientType
<1>7. e.writeBuffer = Append(c.writeBuffer, p)
  BY <1>4 DEF b
<1>8. Base(e, s, o) /\ Resumed(e)
  BY <1>4, <1>5, <1>6, <1>7, BaseAppend
<1> QED
  BY <1>1, <1>5, <1>8, BaseFlush, ResumedFlush

LEMMA BaseCloseWhen ==
  ASSUME NEW c, NEW s, NEW o, NEW w \in {"no", "drain", "upgrade"}, Base(c, s, o)
  PROVE  LET d == [c EXCEPT !.closeWhen = w] IN
         Base(d, s, o) /\ (Flushed(c) => Flushed(d)) /\ (Resumed(c) => Resumed(d))
<1> DEFINE d == [c EXCEPT !.closeWhen = w]
<1>1. c \in ClientType /\ CType(c)
  BY DEF Base, CType
<1>2. d \in ClientType
  BY <1>1 DEF ClientType
<1>3. /\ d.readyState = c.readyState /\ d.transport = c.transport /\ d.upgrading = c.upgrading
      /\ d.writeBuffer = c.writeBuffer /\ d.prevBufferLen = c.prevBufferLen
      /\ d.polling = c.polling /\ d.get = c.get /\ d.post = c.post /\ d.probe = c.probe
      /\ d.ws = c.ws /\ d.writable = c.writable /\ d.out = c.out
      /\ d.accepted = c.accepted /\ d.heard = c.heard
  BY <1>1 DEF ClientType
<1> HIDE DEF d
<1>4. CType(d)
  BY <1>1, <1>2, <1>3 DEF CType
<1>5. Base(d, s, o) /\ (Flushed(c) => Flushed(d)) /\ (Resumed(c) => Resumed(d))
  BY <1>3, <1>4, BaseSame
<1> QED
  BY <1>5 DEF d

LEMMA BaseDrain ==
  ASSUME NEW c, NEW d, NEW s, NEW o, Base(c, s, o), CType(d), c.readyState # "closed",
         \/ /\ c.post.state = "done" /\ d.post = NoRequest /\ d.writable = c.writable
         \/ /\ c.transport = "websocket" /\ d.writable = TRUE /\ d.post = c.post,
         d.writeBuffer = c.writeBuffer, d.prevBufferLen = c.prevBufferLen,
         d.readyState = c.readyState, d.transport = c.transport, d.upgrading = c.upgrading,
         d.polling = c.polling, d.get = c.get, d.probe = c.probe,
         d.ws = c.ws, d.out = c.out, d.accepted = c.accepted, d.heard = c.heard
  PROVE  Base(OnDrain(d), s, o) /\ Flushed(OnDrain(d)) /\ OnDrain(d).transport = c.transport
<1> DEFINE e == Emptied(d)
           r == Rest(d)
<1>1. e = [d EXCEPT !.prevBufferLen = 0, !.writeBuffer = r]
  BY DEF Emptied, Rest, After
<1>2. r \in Seq(Packets) /\ Len(r) \in Nat /\ d \in ClientType
  BY SequenceTypes, LenProperties DEF CType
<1>3. r = Rest(c)
  BY DEF Rest
<1> HIDE DEF e, r
<1>4. e \in ClientType /\ e.prevBufferLen = 0 /\ e.writeBuffer = r
  BY <1>1, <1>2 DEF ClientType
<1>5. /\ e.readyState = d.readyState /\ e.transport = d.transport /\ e.upgrading = d.upgrading
      /\ e.polling = d.polling /\ e.get = d.get /\ e.post = d.post /\ e.probe = d.probe
      /\ e.ws = d.ws /\ e.writable = d.writable /\ e.out = d.out /\ e.heard = d.heard
      /\ e.accepted = d.accepted /\ e.closeWhen = d.closeWhen
  BY <1>1, <1>2 DEF ClientType
<1>6. CType(e)
  BY <1>2, <1>4 DEF CType
<1>7. Base(e, s, o)
  <2>1. /\ \/ /\ c.post.state = "done" /\ e.post = NoRequest /\ e.writable = c.writable
           \/ /\ c.transport = "websocket" /\ e.writable = TRUE /\ e.post = c.post
        /\ e.writeBuffer = Rest(c) /\ e.prevBufferLen = 0
        /\ e.readyState = c.readyState /\ e.transport = c.transport /\ e.upgrading = c.upgrading
        /\ e.polling = c.polling /\ e.get = c.get /\ e.probe = c.probe
        /\ e.ws = c.ws /\ e.out = c.out /\ e.accepted = c.accepted /\ e.heard = c.heard
    BY <1>3, <1>4, <1>5
  <2> QED
    BY <1>6, <2>1, BaseDrained
<1>8. CASE e.writeBuffer # <<>>
  <2>1. OnDrain(d) = Flush(e)
    BY <1>8 DEF OnDrain, e
  <2>2. Flush(e).transport = e.transport
    BY <1>6, FlushFields DEF Fields
  <2> QED
    BY <1>5, <1>7, <2>1, <2>2, BaseFlush
<1>9. CASE e.writeBuffer = <<>>
  <2>1. Flushed(e)
    BY <1>9 DEF Flushed
  <2>2. \/ OnDrain(d) = [e EXCEPT !.closeWhen = "upgrade"]
        \/ OnDrain(d) = OnClose(e) \/ OnDrain(d) = e
    BY <1>9 DEF OnDrain, e
  <2>3. Base([e EXCEPT !.closeWhen = "upgrade"], s, o) /\ Flushed([e EXCEPT !.closeWhen = "upgrade"])
    BY <1>7, <2>1, BaseCloseWhen
  <2>4. Base(OnClose(e), s, o) /\ Flushed(OnClose(e))
    BY <1>7, BaseClose
  <2>5. [e EXCEPT !.closeWhen = "upgrade"].transport = e.transport
    BY <1>4 DEF ClientType
  <2>6. OnClose(e).transport = e.transport
    BY <1>5, <1>6, OnCloseFields DEF ClosedFrom
  <2> QED
    BY <1>5, <1>7, <2>1, <2>2, <2>3, <2>4, <2>5, <2>6
<1> QED
  BY <1>8, <1>9

(* close(): from now on nothing is sent that was not written before.        *)
LEMMA BaseCloseSocket ==
  ASSUME NEW c, NEW s, NEW o, Base(c, s, o), Resumed(c), c.readyState \in {"opening", "open"}
  PROVE  LET e == CloseSocket(c) IN Base(e, s, o) /\ Flushed(e) /\ Resumed(e)
<1> DEFINE d == [c EXCEPT !.readyState = "closing"]
<1>1. c \in ClientType /\ CType(c) /\ ClientShape(c) /\ Shape(c, s) /\ UpOrder(c, s)
      /\ UpGap(c, s) /\ DownOrder(c, s) /\ DownGap(c, s) /\ Waking(c, s, o)
      /\ s \in ServerType /\ o \in BOOLEAN
  BY DEF Base, CType
<1>2. d \in ClientType
  BY <1>1 DEF ClientType
<1>3. /\ d.readyState = "closing" /\ d.transport = c.transport /\ d.upgrading = c.upgrading
      /\ d.writeBuffer = c.writeBuffer /\ d.prevBufferLen = c.prevBufferLen
      /\ d.polling = c.polling /\ d.get = c.get /\ d.post = c.post /\ d.probe = c.probe
      /\ d.ws = c.ws /\ d.writable = c.writable /\ d.out = c.out
      /\ d.accepted = c.accepted /\ d.heard = c.heard
  BY <1>1 DEF ClientType
<1>4. \/ CloseSocket(c) = [d EXCEPT !.closeWhen = "drain"]
      \/ CloseSocket(c) = [d EXCEPT !.closeWhen = "upgrade"]
      \/ CloseSocket(c) = OnClose(d)
  BY <1>1 DEF CloseSocket, ClientType
<1> HIDE DEF d
<1>5. CType(d)
  BY <1>1, <1>2, <1>3 DEF CType
<1>6. ClientShape(d)
  BY <1>1, <1>3 DEF ClientShape, Probing, Writable
<1>7. Shape(d, s)
  BY <1>1, <1>3 DEF Shape, Probing
<1>8. UpOrder(d, s) /\ UpGap(d, s)
  BY <1>1, <1>3 DEF UpOrder, UpGap, Sending, Rest
<1>9. DownOrder(d, s) /\ DownGap(d, s)
  BY <1>1, <1>3 DEF DownOrder, DownGap, Receiving
<1>10. Waking(d, s, o) /\ Resumed(d) /\ Flushed(d)
  BY <1>1, <1>3 DEF Waking, Woken, Resumed, Flushed
<1>11. Base(d, s, o)
  BY <1>1, <1>5, <1>6, <1>7, <1>8, <1>9, <1>10 DEF Base
<1>12. ASSUME NEW w \in {"no", "drain", "upgrade"}
       PROVE  LET e == [d EXCEPT !.closeWhen = w] IN Base(e, s, o) /\ Flushed(e) /\ Resumed(e)
  BY <1>10, <1>11, BaseCloseWhen
<1>13. Base(OnClose(d), s, o) /\ Flushed(OnClose(d)) /\ Resumed(OnClose(d))
  BY <1>11, BaseClose
<1> QED
  BY <1>4, <1>12, <1>13

(* Only probes and the upgrade have gone out on the WebSocket.              *)
LEMMA NoMessages ==
  ASSUME NEW ps \in Seq(Packets), \A i \in DOMAIN ps : ps[i] = Packet("probe")
  PROVE  /\ Msgs(ps) = {} /\ Ascending(ps)
         /\ Msgs(ps \o <<Packet("upgrade")>>) = {} /\ Ascending(ps \o <<Packet("upgrade")>>)
<1>1. Msgs(ps) = {} /\ Ascending(ps)
  BY DEF Msgs, Ascending, IsMessage, Packet
<1> DEFINE u == Packet("upgrade")
<1>2. u \in Packets /\ ~IsMessage(u)
  BY DEF Packets, IsMessage, Packet
<1>3. <<u>> \in Seq(Packets) /\ Msgs(<<u>>) = {} /\ Ascending(<<u>>)
  <2> HIDE DEF u
  <2>1. Msgs(<<u>>) = (IF IsMessage(u) THEN {u.n} ELSE {}) /\ Ascending(<<u>>)
    BY <1>2, MsgsOne, Zenon
  <2>2. <<u>> \in Seq(Packets)
    BY <1>2
  <2> QED
    BY <1>2, <2>1, <2>2
<1> QED
  BY <1>1, <1>3, MsgsConcat DEF Below

(* The engine has changed its transport: d is the socket then.              *)
LEMMA BaseSwitched ==
  ASSUME NEW c, NEW d, NEW s, NEW o, Base(c, s, o), CType(d),
         c.polling = "pausing", c.get = NoRequest, c.post = NoRequest,
         c.probe = "pausing", c.readyState # "closed",
         d.polling = "paused", d.transport = "websocket", d.probe = "done",
         d.writable = FALSE, d.upgrading = FALSE,
         d.out = IF c.ws = "open" THEN c.out \o <<Packet("upgrade")>> ELSE c.out,
         d.readyState = c.readyState, d.writeBuffer = c.writeBuffer,
         d.prevBufferLen = c.prevBufferLen, d.get = c.get, d.post = c.post,
         d.ws = c.ws, d.accepted = c.accepted, d.heard = c.heard
  PROVE  Base(d, s, o)
<1>1. /\ ClientShape(c) /\ Shape(c, s) /\ UpOrder(c, s) /\ UpGap(c, s)
      /\ DownOrder(c, s) /\ DownGap(c, s) /\ Waking(c, s, o) /\ s \in ServerType /\ o \in BOOLEAN
      /\ CType(c)
  BY DEF Base
<1>2. c.transport = "polling"
  BY <1>1, SequenceTypes DEF ClientShape
<1>3. c.get.packets = <<>> /\ c.get.state = "none" /\ c.post.packets = <<>> /\ c.post.state = "none"
  BY RequestFields
<1>4. /\ c.out \in Seq(Packets) /\ \A i \in DOMAIN c.out : c.out[i] = Packet("probe")
  BY <1>1, <1>2, SequenceTypes DEF ClientShape
<1>5. Msgs(c.out) = {} /\ Msgs(d.out) = {} /\ Ascending(d.out)
  BY <1>4, NoMessages
<1>6. Rest(d) = Rest(c) /\ Msgs(<<>>) = {}
  BY MsgsEmpty DEF Rest
<1>7. ~IsOpen(<<>>) /\ c.ws \in {"open", "closed", "gone"}
  BY <1>1, NotOpen DEF ClientShape
<1>8. ClientShape(d)
  BY <1>1, <1>3, <1>7 DEF ClientShape, Probing, Writable
<1>9. Shape(d, s)
  BY <1>1, <1>2, <1>3, <1>7 DEF Shape
<1>10. UpOrder(d, s)
  BY <1>1, <1>3, <1>5, <1>6 DEF UpOrder
<1>11. UpGap(d, s)
  <2>1. Sending(c)
    BY <1>2, <1>3 DEF Sending
  <2> QED
    BY <1>1, <1>3, <1>5, <1>6, <2>1 DEF UpGap
<1>12. DownOrder(d, s)
  BY <1>1 DEF DownOrder
<1>13. DownGap(d, s)
  BY <1>1, <1>2, <1>3 DEF DownGap, Receiving
<1>14. Waking(d, s, o)
  BY <1>1 DEF Waking
<1> QED
  BY <1>1, <1>8, <1>9, <1>10, <1>11, <1>12, <1>13, <1>14 DEF Base

LEMMA BasePause ==
  ASSUME NEW c, NEW s, NEW o, Base(c, s, o), Flushed(c),
         c.polling = "pausing", c.get = NoRequest, c.post = NoRequest
  PROVE  Base(OnPause(c), s, o) /\ Flushed(OnPause(c)) /\ Resumed(OnPause(c))
         /\ OnPause(c).polling # "open"
<1> DEFINE p == [c EXCEPT !.polling = "paused"]
           u == [p EXCEPT !.transport = "websocket", !.probe = "done"]
           w == Write(u, <<Packet("upgrade")>>)
           e == IF w.closeWhen = "upgrade" THEN OnClose(w) ELSE w
           x == [e EXCEPT !.upgrading = FALSE]
<1>1. /\ c \in ClientType /\ CType(c) /\ ClientShape(c) /\ Shape(c, s) /\ UpOrder(c, s)
      /\ UpGap(c, s) /\ DownOrder(c, s) /\ DownGap(c, s) /\ Waking(c, s, o)
      /\ s \in ServerType /\ o \in BOOLEAN /\ c.out \in Seq(Packets)
  BY SequenceTypes DEF Base, CType
<1>2. p \in ClientType
  BY <1>1 DEF ClientType
<1>3. /\ p.polling = "paused" /\ p.readyState = c.readyState /\ p.transport = c.transport
      /\ p.upgrading = c.upgrading /\ p.closeWhen = c.closeWhen
      /\ p.writeBuffer = c.writeBuffer /\ p.prevBufferLen = c.prevBufferLen
      /\ p.get = c.get /\ p.post = c.post /\ p.probe = c.probe
      /\ p.ws = c.ws /\ p.writable = c.writable /\ p.out = c.out
      /\ p.accepted = c.accepted /\ p.heard = c.heard
  BY <1>1 DEF ClientType
<1>4. CASE c.probe # "pausing" \/ c.readyState = "closed"
  <2>1. OnPause(c) = p
    BY <1>4 DEF OnPause
  <2> HIDE DEF p
  <2>2. CType(p)
    BY <1>1, <1>2, <1>3 DEF CType
  <2>3. ClientShape(p)
    BY <1>1, <1>3, RequestFields, SequenceTypes DEF ClientShape, Probing, Writable
  <2>4. Shape(p, s)
    BY <1>1, <1>3 DEF Shape, Probing
  <2>5. UpOrder(p, s) /\ UpGap(p, s)
    BY <1>1, <1>3 DEF UpOrder, UpGap, Sending, Rest
  <2>6. DownOrder(p, s) /\ DownGap(p, s)
    BY <1>1, <1>3 DEF DownOrder, DownGap, Receiving
  <2>7. Waking(p, s, o) /\ Resumed(p)
    BY <1>1, <1>3, <1>4 DEF Waking, Woken, Resumed
  <2>8. Flushed(p)
    BY <1>3 DEF Flushed, Writable
  <2> QED
    BY <1>1, <1>3, <2>1, <2>2, <2>3, <2>4, <2>5, <2>6, <2>7, <2>8 DEF Base
<1>5. CASE c.probe = "pausing" /\ c.readyState # "closed"
  <2>1. OnPause(c) = Flush(x)
    BY <1>5 DEF OnPause
  <2>2. /\ u \in ClientType /\ u.transport = "websocket" /\ u.probe = "done"
        /\ u.closeWhen = p.closeWhen
    BY <1>2 DEF ClientType
  <2>3. /\ u.polling = p.polling /\ u.readyState = p.readyState
        /\ u.writeBuffer = p.writeBuffer /\ u.prevBufferLen = p.prevBufferLen
        /\ u.get = p.get /\ u.post = p.post
        /\ u.ws = p.ws /\ u.out = p.out
        /\ u.accepted = p.accepted /\ u.heard = p.heard
    BY <1>2 DEF ClientType
  <2> DEFINE out == IF c.ws = "open" THEN c.out \o <<Packet("upgrade")>> ELSE c.out
  <2> HIDE DEF p, u
  <2>4. w = [u EXCEPT !.writable = FALSE, !.out = out]
    BY <1>3, <2>2, <2>3 DEF Write
  <2>5. out \in Seq(Packets)
    <3>1. Packet("upgrade") \in Packets
      BY DEF Packets
    <3> QED
      BY <1>1, <3>1, ConcatProperties
  <2> HIDE DEF w, out
  <2>6. w \in ClientType /\ w.writable = FALSE /\ w.out = out
    BY <2>2, <2>4, <2>5 DEF ClientType
  <2>7. /\ w.polling = u.polling /\ w.readyState = u.readyState
        /\ w.writeBuffer = u.writeBuffer /\ w.prevBufferLen = u.prevBufferLen
        /\ w.get = u.get /\ w.post = u.post /\ w.transport = u.transport
        /\ w.ws = u.ws /\ w.probe = u.probe
        /\ w.accepted = u.accepted /\ w.heard = u.heard
    BY <2>2, <2>4 DEF ClientType
  <2> DEFINE v == [w EXCEPT !.upgrading = FALSE]
  <2>8. v \in ClientType /\ v.upgrading = FALSE
    BY <2>6 DEF ClientType
  <2>9. /\ v.polling = w.polling /\ v.readyState = w.readyState
        /\ v.writeBuffer = w.writeBuffer /\ v.prevBufferLen = w.prevBufferLen
        /\ v.get = w.get /\ v.post = w.post /\ v.transport = w.transport
        /\ v.ws = w.ws /\ v.probe = w.probe /\ v.writable = w.writable /\ v.out = w.out
        /\ v.accepted = w.accepted /\ v.heard = w.heard
    BY <2>6 DEF ClientType
  <2> HIDE DEF v
  <2>10. /\ v.polling = "paused" /\ v.transport = "websocket" /\ v.probe = "done"
         /\ v.writable = FALSE /\ v.upgrading = FALSE /\ v.out = out
         /\ v.readyState = c.readyState /\ v.writeBuffer = c.writeBuffer
         /\ v.prevBufferLen = c.prevBufferLen /\ v.get = c.get /\ v.post = c.post
         /\ v.ws = c.ws /\ v.accepted = c.accepted /\ v.heard = c.heard
    BY <1>3, <2>2, <2>3, <2>6, <2>7, <2>8, <2>9
  <2>11. CType(v)
    BY <1>1, <2>8, <2>10 DEF CType
  <2>12. Base(v, s, o)
    BY <1>5, <2>10, <2>11, BaseSwitched DEF out
  <2>13. Base(x, s, o) /\ Resumed(x) /\ x.polling = "paused"
    <3>1. CASE w.closeWhen # "upgrade"
      <4>1. x = v
        BY <3>1 DEF v
      <4> QED
        BY <2>10, <2>12, <4>1 DEF Resumed
    <3>2. CASE w.closeWhen = "upgrade"
      <4>1. x = [OnClose(w) EXCEPT !.upgrading = FALSE]
        BY <3>2
      <4>2. CType(w) /\ w.readyState # "closed"
        BY <1>5, <2>6, <2>9, <2>10, <2>11 DEF CType
      <4>3. ClosedFrom(OnClose(w), w)
        BY <4>2, OnCloseFields
      <4> DEFINE a == OnClose(w)
      <4> HIDE DEF a, x
      <4>4. a \in ClientType /\ a.prevBufferLen <= Len(a.writeBuffer)
        BY <4>3 DEF ClosedFrom, CType, a
      <4>5. x = [a EXCEPT !.upgrading = FALSE]
        BY <4>1 DEF a
      <4>6. x \in ClientType
        BY <4>4, <4>5 DEF ClientType
      <4>7. /\ x.polling = a.polling /\ x.readyState = a.readyState /\ x.closeWhen = a.closeWhen
            /\ x.writeBuffer = a.writeBuffer /\ x.prevBufferLen = a.prevBufferLen
            /\ x.get = a.get /\ x.post = a.post /\ x.transport = a.transport
            /\ x.ws = a.ws /\ x.probe = a.probe /\ x.writable = a.writable /\ x.out = a.out
            /\ x.accepted = a.accepted /\ x.heard = a.heard
        BY <4>4, <4>5 DEF ClientType
      <4>8. CType(x)
        BY <4>4, <4>6, <4>7 DEF CType
      <4>9. Probing(v) <=> Probing(w)
        BY <2>9 DEF Probing
      <4>10. ClosedFrom(x, v)
        BY <2>9, <4>3, <4>7, <4>8, <4>9 DEF ClosedFrom, a
      <4>11. x.polling = "paused"
        BY <2>10, <4>10 DEF ClosedFrom
      <4> QED
        BY <2>12, <4>10, <4>11, BaseClosed
    <3> QED
      BY <3>1, <3>2
  <2>14. CType(x)
    BY <2>13 DEF Base
  <2> HIDE DEF x
  <2>15. Flush(x).polling = x.polling
    BY <2>14, FlushFields DEF Fields
  <2> QED
    BY <2>1, <2>13, <2>14, <2>15, BaseFlush, ResumedFlush
<1> QED
  BY <1>4, <1>5

LEMMA BasePauseIfIdle ==
  ASSUME NEW c, NEW s, NEW o, Base(c, s, o), Flushed(c)
  PROVE  /\ Base(PauseIfIdle(c), s, o) /\ Flushed(PauseIfIdle(c)) /\ Resumed(PauseIfIdle(c))
         /\ PauseIfIdle(c).polling = "open" => PauseIfIdle(c) = c
<1>1. CASE c.polling = "pausing" /\ c.get = NoRequest /\ c.post = NoRequest
  <2>1. PauseIfIdle(c) = OnPause(c)
    BY <1>1 DEF PauseIfIdle
  <2> QED
    BY <1>1, <2>1, BasePause
<1>2. CASE ~(c.polling = "pausing" /\ c.get = NoRequest /\ c.post = NoRequest)
  <2>1. PauseIfIdle(c) = c
    BY <1>2 DEF PauseIfIdle
  <2>2. c.readyState # "closed" /\ c.probe = "pausing" => c.polling = "pausing"
    BY DEF Base, Waking
  <2>3. Resumed(c)
    BY <1>2, <2>2 DEF Resumed
  <2> QED
    BY <2>1, <2>3, Zenon
<1> QED
  BY <1>1, <1>2

(* The probe fails.                                                         *)
LEMMA BaseProbeError ==
  ASSUME NEW c, NEW s, NEW o, Base(c, s, o), Flushed(c), Resumed(c)
  PROVE  Base(OnProbeError(c), s, o) /\ Flushed(OnProbeError(c)) /\ Resumed(OnProbeError(c))
<1>1. OnProbeError(c) = Freeze(c) \/ OnProbeError(c) = OnClose(Freeze(c))
  BY DEF OnProbeError
<1>2. Base(Freeze(c), s, o) /\ Flushed(Freeze(c)) /\ Resumed(Freeze(c))
  BY BaseFreeze
<1> QED
  BY <1>1, <1>2, BaseClose

(* The packets of a response.                                               *)
Heard(d, c) ==
  /\ d \in ClientType
  /\ d.readyState = c.readyState /\ d.transport = c.transport /\ d.upgrading = c.upgrading
  /\ d.writeBuffer = c.writeBuffer /\ d.prevBufferLen = c.prevBufferLen
  /\ d.polling = c.polling /\ d.get = c.get /\ d.post = c.post /\ d.probe = c.probe
  /\ d.ws = c.ws /\ d.writable = c.writable /\ d.out = c.out /\ d.accepted = c.accepted

(* The messages among the first k packets.                                  *)
First(ps, k) == {ps[i].n : i \in {j \in 1 .. k : IsMessage(ps[j])}}

(* The state after k packets, none of them OPEN.                            *)
HeardFirst(d, c, ps, k) ==
  /\ Heard(d, c) /\ Strict(d.heard)
  /\ IF c.readyState \in {"opening", "open"} THEN Range(d.heard) = Range(c.heard) \cup First(ps, k)
                                            ELSE d.heard = c.heard

LEMMA HeardOne ==
  ASSUME NEW d \in ClientType, NEW p \in Plain
  PROVE  /\ Heard(OnPacket(d, p), d)
         /\ OnPacket(d, p).heard = IF d.readyState \in {"opening", "open"} /\ IsMessage(p)
                                   THEN Append(d.heard, p.n) ELSE d.heard
<1>1. p \in Packets /\ p.type \in {"message", "pong", "probe", "noop"} /\ p.n \in Nat
  BY PacketFields DEF Plain
<1>2. CASE d.readyState \notin {"opening", "open"}
  <2>1. OnPacket(d, p) = d
    BY <1>2 DEF OnPacket
  <2> QED
    BY <1>2, <2>1 DEF Heard
<1>3. CASE d.readyState \in {"opening", "open"} /\ p.type = "message"
  <2> DEFINE h == Append(d.heard, p.n)
  <2>1. OnPacket(d, p) = [d EXCEPT !.heard = h]
    BY <1>3 DEF OnPacket
  <2>2. h \in Seq(Nat)
    BY <1>1, AppendProperties DEF ClientType
  <2> HIDE DEF h
  <2>3. OnPacket(d, p) \in ClientType /\ OnPacket(d, p).heard = h
    BY <2>1, <2>2 DEF ClientType
  <2>4. Heard(OnPacket(d, p), d)
    BY <2>1, <2>3 DEF ClientType, Heard
  <2> QED
    BY <1>3, <2>3, <2>4 DEF h, IsMessage
<1>4. CASE d.readyState \in {"opening", "open"} /\ p.type = "pong"
  <2>1. OnPacket(d, p) = [d EXCEPT !.pinged = FALSE]
    BY <1>4 DEF OnPacket
  <2>2. OnPacket(d, p) \in ClientType /\ OnPacket(d, p).heard = d.heard
    BY <2>1 DEF ClientType
  <2>3. Heard(OnPacket(d, p), d)
    BY <2>1, <2>2 DEF ClientType, Heard
  <2> QED
    BY <1>4, <2>2, <2>3 DEF IsMessage
<1>5. CASE d.readyState \in {"opening", "open"} /\ p.type \in {"probe", "noop"}
  <2>1. OnPacket(d, p) = d
    BY <1>5 DEF OnPacket
  <2> QED
    BY <1>5, <2>1 DEF Heard, IsMessage
<1> QED
  BY <1>1, <1>2, <1>3, <1>4, <1>5

LEMMA HeardAll ==
  ASSUME NEW c, NEW ps \in Seq(Plain), c \in ClientType, Strict(c.heard),
         Ascending(ps), Below(Range(c.heard), Msgs(ps))
  PROVE  HeardFirst(OnPackets(c, ps), c, ps, Len(ps))
<1>1. \A i \in 1 .. Len(ps) : ps[i] \in Plain
  BY ElementOfSeq
<1>2. ps \in Seq(Packets) /\ Len(ps) \in Nat /\ DOMAIN ps = 1 .. Len(ps)
  BY LenProperties DEF Plain
<1>3. PICK g : /\ g[0] = c /\ g[Len(ps)] = OnPackets(c, ps)
               /\ \A i \in 1 .. Len(ps) : g[i] = OnPacket(g[i - 1], ps[i])
  BY <1>2, OnPacketsSteps
<1> DEFINE S == {k \in 0 .. Len(ps) : HeardFirst(g[k], c, ps, k)}
<1>4. 0 \in S
  <2>1. First(ps, 0) = {}
    BY DEF First
  <2>2. Heard(c, c)
    BY DEF Heard
  <2>3. HeardFirst(c, c, ps, 0)
    BY <2>1, <2>2 DEF HeardFirst
  <2> QED
    BY <1>2, <1>3, <2>3
<1>5. ASSUME NEW k \in 0 .. Len(ps) - 1, k \in S PROVE k + 1 \in S
  <2>1. k + 1 \in 1 .. Len(ps) /\ (k + 1) - 1 = k /\ k + 1 \in 0 .. Len(ps)
    BY <1>2
  <2> DEFINE p == ps[k + 1]
             d == g[k]
             e == OnPacket(d, p)
  <2>2. p \in Plain /\ g[k + 1] = e
    BY <1>1, <1>3, <2>1
  <2>3. HeardFirst(d, c, ps, k)
    BY <1>5
  <2> HIDE DEF S, d, e
  <2>4. d \in ClientType
    BY <2>3 DEF HeardFirst, Heard
  <2>5. /\ Heard(e, d)
        /\ e.heard = IF d.readyState \in {"opening", "open"} /\ IsMessage(p)
                     THEN Append(d.heard, p.n) ELSE d.heard
    BY <2>2, <2>4, HeardOne DEF e
  <2>6. Heard(e, c)
    BY <2>3, <2>5 DEF Heard, HeardFirst
  <2>7. d.readyState = c.readyState
    BY <2>3 DEF Heard, HeardFirst
  <2>8. First(ps, k + 1) = First(ps, k) \cup (IF IsMessage(p) THEN {p.n} ELSE {})
    <3>1. 1 .. k + 1 = (1 .. k) \cup {k + 1}
      BY <1>2
    <3> QED
      BY <3>1 DEF First
  <2>9. CASE c.readyState \in {"opening", "open"} /\ IsMessage(p)
    <3>1. Below(First(ps, k), {p.n})
      <4>1. \A i \in 1 .. k : i \in DOMAIN ps /\ i < k + 1
        BY <1>2, <2>1
      <4>2. k + 1 \in DOMAIN ps
        BY <1>2, <2>1
      <4> QED
        BY <2>9, <4>1, <4>2 DEF Below, First, Ascending
    <3>2. p.n \in Msgs(ps)
      BY <1>2, <2>1, <2>9 DEF Msgs
    <3>3. Below(Range(c.heard), {p.n})
      BY <3>2 DEF Below
    <3>4. Range(d.heard) = Range(c.heard) \cup First(ps, k) /\ Strict(d.heard)
      BY <2>3, <2>9 DEF HeardFirst
    <3>5. Below(Range(d.heard), {p.n})
      BY <3>1, <3>3, <3>4 DEF Below
    <3>6. d.heard \in Seq(Nat) /\ p.n \in Nat
      BY <2>2, <2>4, PacketFields DEF ClientType, Plain
    <3>7. e.heard = Append(d.heard, p.n)
      BY <2>5, <2>7, <2>9
    <3> HIDE DEF p
    <3>8. Range(e.heard) = Range(d.heard) \cup {p.n} /\ Strict(e.heard)
      BY <3>4, <3>5, <3>6, <3>7, StrictAppend
    <3>9. HeardFirst(e, c, ps, k + 1)
      BY <2>6, <2>8, <2>9, <3>4, <3>8 DEF HeardFirst
    <3> QED
      BY <2>1, <2>2, <3>9 DEF S
  <2>10. CASE ~(c.readyState \in {"opening", "open"} /\ IsMessage(p))
    <3>1. e.heard = d.heard
      BY <2>5, <2>7, <2>10
    <3>2. HeardFirst(e, c, ps, k + 1)
      BY <2>3, <2>6, <2>8, <2>10, <3>1 DEF HeardFirst
    <3> QED
      BY <2>1, <2>2, <3>2 DEF S
  <2> QED
    BY <2>9, <2>10
<1>6. Len(ps) \in S
  <2> HIDE DEF S
  <2>1. \A k \in 0 .. Len(ps) : k \in S
    BY <1>2, <1>4, <1>5, Induction
  <2> QED
    BY <1>2, <2>1
<1> QED
  BY <1>3, <1>6

(* The response was plain: its packets are heard, and the GET is over.      *)
LEMMA BaseHeard ==
  ASSUME NEW c, NEW d, NEW s, NEW o, Base(c, s, o), Flushed(c),
         c.readyState # "closed", c.get.state = "done", c.get.packets \in Seq(Plain),
         HeardFirst(d, c, c.get.packets, Len(c.get.packets))
  PROVE  LET e == [d EXCEPT !.get = NoRequest] IN Base(e, s, o) /\ Flushed(e)
<1> DEFINE e == [d EXCEPT !.get = NoRequest]
           ps == c.get.packets
<1>1. /\ c \in ClientType /\ CType(c) /\ ClientShape(c) /\ Shape(c, s) /\ UpOrder(c, s)
      /\ UpGap(c, s) /\ DownOrder(c, s) /\ DownGap(c, s) /\ Waking(c, s, o)
      /\ s \in ServerType /\ o \in BOOLEAN
  BY DEF Base, CType
<1>2. d \in ClientType /\ Heard(d, c) /\ Strict(d.heard)
  BY DEF HeardFirst, Heard
<1>3. e \in ClientType /\ e.get = NoRequest
  BY <1>2, RequestTypes DEF ClientType
<1>4. /\ e.readyState = d.readyState /\ e.transport = d.transport /\ e.upgrading = d.upgrading
      /\ e.writeBuffer = d.writeBuffer /\ e.prevBufferLen = d.prevBufferLen
      /\ e.polling = d.polling /\ e.post = d.post /\ e.probe = d.probe
      /\ e.ws = d.ws /\ e.writable = d.writable /\ e.out = d.out /\ e.accepted = d.accepted
      /\ e.heard = d.heard
  BY <1>2 DEF ClientType
<1>5. First(ps, Len(ps)) = Msgs(ps)
  <2>1. DOMAIN ps = 1 .. Len(ps)
    BY LenProperties
  <2> QED
    BY <2>1 DEF First, Msgs
<1> HIDE DEF e
<1>6. /\ e.readyState = c.readyState /\ e.transport = c.transport /\ e.upgrading = c.upgrading
      /\ e.writeBuffer = c.writeBuffer /\ e.prevBufferLen = c.prevBufferLen
      /\ e.polling = c.polling /\ e.post = c.post /\ e.probe = c.probe
      /\ e.ws = c.ws /\ e.writable = c.writable /\ e.out = c.out /\ e.accepted = c.accepted
  BY <1>2, <1>4 DEF Heard
<1>7. /\ Strict(e.heard)
      /\ IF c.readyState \in {"opening", "open"} THEN Range(e.heard) = Range(c.heard) \cup Msgs(ps)
                                                ELSE e.heard = c.heard
  BY <1>4, <1>5 DEF HeardFirst
<1>8. e.get.state = "none" /\ e.get.packets = <<>> /\ ~IsOpen(<<>>) /\ Msgs(<<>>) = {}
      /\ Ascending(<<>>)
  BY <1>3, RequestFields, NotOpen, MsgsEmpty
<1>9. c.transport = "polling" /\ c.get # NoRequest /\ s.session # "none"
  BY <1>1, RequestFields, SequenceTypes DEF ClientShape, Shape
<1>10. c.polling # "opening"
  BY <1>1, <1>9, SeqNotOpen DEF Shape
<1>11. CType(e)
  BY <1>1, <1>3, <1>6 DEF CType
<1>12. ClientShape(e)
  BY <1>1, <1>3, <1>6, <1>8 DEF ClientShape, Probing, Writable
<1>13. Shape(e, s)
  BY <1>1, <1>6, <1>8, <1>9, <1>10 DEF Shape, Probing
<1>14. UpOrder(e, s) /\ UpGap(e, s)
  BY <1>1, <1>6 DEF UpOrder, UpGap, Sending, Rest
<1>15. DownOrder(e, s)
  <2>1. Msgs(s.down) = {}
    BY <1>1, <1>9 DEF Shape
  <2>2. Range(e.heard) \subseteq Range(c.heard) \cup Msgs(ps)
    BY <1>7
  <2> QED
    BY <1>1, <1>6, <1>7, <1>8, <1>9, <2>1, <2>2 DEF DownOrder, Below
<1>16. DownGap(e, s)
  <2>1. Msgs(s.down) = {}
    BY <1>1, <1>9 DEF Shape
  <2>2. CASE c.readyState \in {"opening", "open"}
    <3>1. Receiving(c)
      BY <1>9, <2>2 DEF Receiving
    <3>2. Range(e.heard) = Range(c.heard) \cup Msgs(ps)
      BY <1>7, <2>2
    <3>3. s.sessions = 1 => 1 .. s.emitted \subseteq Range(e.heard) \cup Msgs(s.queue)
      BY <1>1, <2>1, <3>1, <3>2 DEF DownGap
    <3>4. \A n \in Range(e.heard) : n \in 1 .. s.emitted
      BY <1>1, <3>2 DEF DownOrder
    <3>5. s.emitted \in Nat
      BY <1>1 DEF ServerType
    <3>6. \A n \in Range(e.heard) : 1 .. n - 1 \subseteq 1 .. s.emitted
      BY <3>4, <3>5
    <3> QED
      BY <3>3, <3>6 DEF DownGap
  <2>3. CASE c.readyState \notin {"opening", "open"}
    BY <1>1, <1>6, <1>7, <2>3 DEF DownGap, Receiving
  <2> QED
    BY <2>2, <2>3
<1>17. Waking(e, s, o)
  BY <1>1, <1>3, <1>6 DEF Waking, Woken
<1>18. Flushed(e)
  BY <1>6 DEF Flushed, Writable
<1> QED
  BY <1>1, <1>11, <1>12, <1>13, <1>14, <1>15, <1>16, <1>17, <1>18 DEF Base, e

(* The response had the OPEN packet: e is the socket that probes.           *)
LEMMA BaseOpened ==
  ASSUME NEW c, NEW e, NEW s, NEW o, Base(c, s, o), CType(e),
         c.readyState # "closed", c.get.state = "done", IsOpen(c.get.packets),
         e.polling = IF c.polling = "opening" THEN "open" ELSE c.polling, e.get = NoRequest,
         \/ /\ c.readyState = "closing" /\ e.readyState = "closing"
            /\ e.probe = c.probe /\ e.ws = c.ws
         \/ /\ c.readyState \in {"opening", "open"} /\ e.readyState = "open"
            /\ e.probe = "opening" /\ e.ws = "connecting",
         e.transport = c.transport, e.upgrading = c.upgrading,
         e.writeBuffer = c.writeBuffer, e.prevBufferLen = c.prevBufferLen,
         e.post = c.post, e.writable = c.writable, e.out = c.out,
         e.accepted = c.accepted, e.heard = c.heard
  PROVE  Base(e, s, o)
<1>1. /\ CType(c) /\ ClientShape(c) /\ Shape(c, s) /\ UpOrder(c, s)
      /\ UpGap(c, s) /\ DownOrder(c, s) /\ DownGap(c, s) /\ Waking(c, s, o)
      /\ s \in ServerType /\ o \in BOOLEAN
  BY DEF Base, CType
<1>2. /\ c.transport = "polling" /\ s.session \in {"opening", "connected", "closing"} /\ ~Probing(c)
      /\ c.ws \in {"none", "gone"} /\ c.out = <<>> /\ s.down = <<>>
  BY <1>1, RequestFields, SequenceTypes DEF ClientShape, Shape
<1>3. e.get.state = "none" /\ e.get.packets = <<>> /\ ~IsOpen(<<>>) /\ Msgs(<<>>) = {}
      /\ Ascending(<<>>) /\ <<>> \in Seq(Plain)
  BY RequestFields, NotOpen, MsgsEmpty, EmptySeq
<1>4. Msgs(c.get.packets) = {}
  BY DEF IsOpen, Msgs, IsMessage, Packet
<1>5. e.polling # "opening" /\ e.readyState # "closed"
  OBVIOUS
<1>6. ClientShape(e)
  <2>1. Writable(e) => e.prevBufferLen = 0
    BY <1>1, <1>2 DEF ClientShape, Writable
  <2>2. e.transport = "polling" /\ e.writable /\ e.probe # "done"
    BY <1>1, <1>2 DEF ClientShape
  <2>3. \A i \in DOMAIN e.out : e.out[i] = Packet("probe")
    BY <1>1, <1>2 DEF ClientShape
  <2> QED
    BY <1>1, <1>2, <1>3, <1>5, <2>1, <2>2, <2>3 DEF ClientShape, Probing
<1>7. Shape(e, s)
  BY <1>1, <1>2, <1>3, <1>5 DEF Shape, Probing
<1>8. UpOrder(e, s) /\ UpGap(e, s)
  BY <1>1, <1>2 DEF UpOrder, UpGap, Sending, Rest
<1>9. DownOrder(e, s)
  BY <1>1, <1>2, <1>3, <1>4 DEF DownOrder, Below
<1>10. DownGap(e, s)
  BY <1>1, <1>2, <1>3, <1>4 DEF DownGap, Receiving
<1>11. Waking(e, s, o)
  BY <1>1, <1>2 DEF Waking, Probing
<1> QED
  BY <1>1, <1>6, <1>7, <1>8, <1>9, <1>10, <1>11 DEF Base

LEMMA BaseRepoll ==
  ASSUME NEW c, NEW d, NEW s, NEW o, NEW r \in BOOLEAN, Base(c, s, o), o => r, CType(d),
         c.readyState # "closed", c.get = NoRequest, c.polling = "open",
         c.probe = "pinged" /\ s.down # <<>> => r \/ Noop(s.queue),
         d.get = Request(<<>>), d.readyState = c.readyState, d.transport = c.transport,
         d.upgrading = c.upgrading, d.writeBuffer = c.writeBuffer,
         d.prevBufferLen = c.prevBufferLen, d.polling = c.polling, d.post = c.post,
         d.probe = c.probe, d.ws = c.ws, d.writable = c.writable, d.out = c.out,
         d.accepted = c.accepted, d.heard = c.heard
  PROVE  Base(d, s, r) /\ (Flushed(c) => Flushed(d)) /\ Resumed(d)
<1>1. /\ CType(c) /\ ClientShape(c) /\ Shape(c, s) /\ UpOrder(c, s)
      /\ UpGap(c, s) /\ DownOrder(c, s) /\ DownGap(c, s) /\ Waking(c, s, o)
      /\ s \in ServerType
  BY DEF Base
<1>2. /\ d.get.state = "sent" /\ d.get.packets = <<>> /\ ~IsOpen(<<>>) /\ Msgs(<<>>) = {}
      /\ c.get.state = "none" /\ c.get.packets = <<>> /\ Ascending(<<>>) /\ d.get # NoRequest
  BY RequestFields, RequestTypes, NotOpen, MsgsEmpty
<1>3. ClientShape(d)
  BY <1>1, <1>2 DEF ClientShape, Probing, Writable
<1>4. Shape(d, s)
  BY <1>1, <1>2 DEF Shape, Probing
<1>5. UpOrder(d, s) /\ UpGap(d, s)
  BY <1>1 DEF UpOrder, UpGap, Sending, Rest
<1>6. DownOrder(d, s) /\ DownGap(d, s)
  BY <1>1, <1>2 DEF DownOrder, DownGap, Receiving
<1>7. Waking(d, s, r)
  BY <1>1, <1>2 DEF Waking, Woken
<1>8. (Flushed(c) => Flushed(d)) /\ Resumed(d)
  BY <1>2 DEF Flushed, Resumed, Writable
<1> QED
  BY <1>1, <1>3, <1>4, <1>5, <1>6, <1>7, <1>8 DEF Base

LEMMA BaseOvertaken ==
  ASSUME NEW c, NEW s, NEW o, NEW r \in BOOLEAN, Base(c, s, o), o => r
  PROVE  Base(c, s, r)
<1>1. Waking(c, s, o) => Waking(c, s, r)
  BY DEF Waking
<1> QED
  BY <1>1 DEF Base

LEMMA BaseGetDone ==
  ASSUME NEW c, NEW s, NEW o, Base(c, s, o), Flushed(c),
         c.readyState # "closed", c.get.state = "done"
  PROVE  LET e == OnPollData(c)
             r == o \/ /\ c.probe = "pinged"
                       /\ Packet("noop") \in Range(c.get.packets)
         IN Base(e, s, r) /\ Flushed(e) /\ Resumed(e)
<1> DEFINE ps == c.get.packets
           r == o \/ (c.probe = "pinged" /\ Packet("noop") \in Range(ps))
           first == IF c.polling = "opening" THEN [c EXCEPT !.polling = "open"] ELSE c
           d == OnPackets(first, ps)
           i == [d EXCEPT !.get = NoRequest]
           e == PauseIfIdle(i)
           z == IF e.polling = "open" THEN [e EXCEPT !.get = Request(<<>>)] ELSE e
<1>1. /\ c \in ClientType /\ CType(c) /\ ClientShape(c) /\ Shape(c, s) /\ UpOrder(c, s)
      /\ UpGap(c, s) /\ DownOrder(c, s) /\ DownGap(c, s) /\ Waking(c, s, o)
      /\ s \in ServerType /\ o \in BOOLEAN
  BY DEF Base, CType
<1>2. OnPollData(c) = z
  BY DEF OnPollData
<1>3. ps \in Seq(Packets)
  BY <1>1, SequenceTypes
<1>4. /\ first \in ClientType
      /\ first.polling = IF c.polling = "opening" THEN "open" ELSE c.polling
  <2> DEFINE f == [c EXCEPT !.polling = "open"]
  <2>1. f \in ClientType /\ f.polling = "open"
    BY <1>1 DEF ClientType
  <2> HIDE DEF f
  <2>2. first = IF c.polling = "opening" THEN f ELSE c
    BY DEF f
  <2> HIDE DEF first
  <2> QED
    BY <1>1, <2>1, <2>2
<1>5. /\ first.readyState = c.readyState /\ first.transport = c.transport
      /\ first.upgrading = c.upgrading /\ first.closeWhen = c.closeWhen
      /\ first.writeBuffer = c.writeBuffer /\ first.prevBufferLen = c.prevBufferLen
      /\ first.get = c.get /\ first.post = c.post /\ first.probe = c.probe
      /\ first.ws = c.ws /\ first.writable = c.writable /\ first.out = c.out
      /\ first.accepted = c.accepted /\ first.heard = c.heard
  BY <1>1 DEF ClientType
<1>6. /\ Base(i, s, o) /\ Flushed(i) /\ i.get = NoRequest /\ i.readyState # "closed"
      /\ i.probe = c.probe \/ i.probe = "opening"
  <2>1. CASE ps \in Seq(Plain)
    <3>1. c.polling # "opening" /\ c.transport = "polling" /\ ~IsOpen(ps)
      BY <1>1, <2>1, SeqNotOpen, RequestFields, SequenceTypes DEF Shape, ClientShape
    <3>2. first = c
      BY <3>1
    <3>3. HeardFirst(d, c, ps, Len(ps))
      <4>1. Strict(c.heard) /\ Ascending(ps) /\ Below(Range(c.heard), Msgs(ps))
        BY <1>1 DEF DownOrder, Below
      <4>2. HeardFirst(OnPackets(c, ps), c, ps, Len(ps))
        BY <1>1, <2>1, <4>1, HeardAll
      <4> QED
        BY <3>2, <4>2, Zenon
    <3> HIDE DEF d
    <3>4. Base(i, s, o) /\ Flushed(i)
      BY <2>1, <3>3, BaseHeard
    <3>5. d \in ClientType /\ d.readyState = c.readyState /\ d.probe = c.probe
      BY <3>3 DEF HeardFirst, Heard
    <3>6. i.get = NoRequest /\ i.readyState = d.readyState /\ i.probe = d.probe
      BY <3>5 DEF ClientType
    <3> QED
      BY <3>4, <3>5, <3>6
  <2>2. CASE IsOpen(ps)
    <3> DEFINE p == Packet("open")
    <3>1. ps = <<p>> /\ p \in Packets
      BY <2>2 DEF IsOpen, Packets
    <3>2. p.type = "open"
      BY DEF Packet
    <3>3. d = OnPacket(first, p)
      <4> HIDE DEF first, p, ps, d, i, e, z
      <4>1. PICK g : /\ g[0] = first /\ g[Len(ps)] = OnPackets(first, ps)
                     /\ \A k \in 1 .. Len(ps) : g[k] = OnPacket(g[k - 1], ps[k])
        BY <1>3, OnPacketsSteps
      <4>2. Len(ps) = 1 /\ ps[1] = p
        BY <3>1
      <4>3. g[1] = OnPacket(g[0], p)
        BY <4>1, <4>2
      <4> QED
        BY <4>1, <4>2, <4>3, Zenon DEF d
    <3>4. c.transport = "polling"
      BY <1>1, RequestFields, SequenceTypes DEF ClientShape
    <3> HIDE DEF first, p
    <3>5. CASE c.readyState = "closing"
      <4>1. d = first
        BY <1>5, <3>3, <3>5 DEF OnPacket
      <4>2. i = [first EXCEPT !.get = NoRequest]
        BY <4>1
      <4> HIDE DEF i, d
      <4>3. i \in ClientType /\ i.get = NoRequest
        BY <1>4, <4>2, RequestTypes DEF ClientType
      <4>4. /\ i.polling = first.polling
            /\ i.readyState = first.readyState /\ i.transport = first.transport
            /\ i.upgrading = first.upgrading
            /\ i.writeBuffer = first.writeBuffer /\ i.prevBufferLen = first.prevBufferLen
            /\ i.post = first.post /\ i.probe = first.probe
            /\ i.ws = first.ws /\ i.writable = first.writable /\ i.out = first.out
            /\ i.accepted = first.accepted /\ i.heard = first.heard
        BY <1>4, <4>2 DEF ClientType
      <4>5. CType(i)
        BY <1>1, <1>5, <4>3, <4>4 DEF CType
      <4>6. Base(i, s, o)
        BY <1>4, <1>5, <2>2, <3>5, <4>3, <4>4, <4>5, BaseOpened
      <4>7. Flushed(i)
        BY <1>5, <3>5, <4>4 DEF Flushed
      <4> QED
        BY <1>5, <4>3, <4>4, <4>6, <4>7
    <3>6. CASE c.readyState \in {"opening", "open"}
      <4> DEFINE x == [first EXCEPT !.readyState = "open"]
                 y == Flush(x)
                 b == [first EXCEPT !.readyState = "open", !.probe = "opening",
                                    !.ws = "connecting", !.get = NoRequest]
      <4>1. d = [y EXCEPT !.probe = "opening", !.ws = "connecting"]
        BY <1>5, <3>2, <3>3, <3>6 DEF OnPacket, OnOpen
      <4>2. x \in ClientType /\ x.readyState = "open"
        BY <1>4 DEF ClientType
      <4>3. /\ x.polling = first.polling /\ x.transport = first.transport
            /\ x.upgrading = first.upgrading /\ x.prevBufferLen = first.prevBufferLen
            /\ x.writeBuffer = first.writeBuffer
            /\ x.post = first.post /\ x.writable = first.writable /\ x.out = first.out
            /\ x.accepted = first.accepted /\ x.heard = first.heard
        BY <1>4 DEF ClientType
      <4>4. b \in ClientType /\ b.readyState = "open" /\ b.probe = "opening"
            /\ b.ws = "connecting" /\ b.get = NoRequest
        <5>1. b.readyState = "open" /\ b.probe = "opening" /\ b.ws = "connecting"
              /\ b.get = NoRequest
          BY <1>4 DEF ClientType
        <5>2. b = [[[x EXCEPT !.probe = "opening"] EXCEPT !.ws = "connecting"] EXCEPT !.get = NoRequest]
          OBVIOUS
        <5> HIDE DEF x, b
        <5>3. [x EXCEPT !.probe = "opening"] \in ClientType
          BY <4>2, SetProbe
        <5>4. [[x EXCEPT !.probe = "opening"] EXCEPT !.ws = "connecting"] \in ClientType
          BY <5>3, SetWs
        <5> DEFINE v == [[x EXCEPT !.probe = "opening"] EXCEPT !.ws = "connecting"]
        <5>5. b = [v EXCEPT !.get = NoRequest] /\ v \in ClientType
          BY <5>2, <5>4
        <5> HIDE DEF v
        <5>6. b \in ClientType
          BY <5>5, RequestTypes DEF ClientType
        <5> QED
          BY <5>1, <5>6
      <4>5. /\ b.polling = first.polling /\ b.transport = first.transport
            /\ b.upgrading = first.upgrading /\ b.prevBufferLen = first.prevBufferLen
            /\ b.writeBuffer = first.writeBuffer
            /\ b.post = first.post /\ b.writable = first.writable /\ b.out = first.out
            /\ b.accepted = first.accepted /\ b.heard = first.heard
        BY <1>4 DEF ClientType
      <4> HIDE DEF x, b
      <4>6. CType(x) /\ CType(b)
        BY <1>1, <1>5, <4>2, <4>3, <4>4, <4>5 DEF CType
      <4>7. Base(b, s, o)
        BY <1>4, <1>5, <2>2, <3>6, <4>4, <4>5, <4>6, BaseOpened
      <4> DEFINE z1 == Flush(b)
      <4>8. Writable(x) <=> Writable(b)
        BY <4>3, <4>5 DEF Writable
      <4>9. /\ CType(y) /\ Fields(y) = Fields(x) /\ y.writeBuffer = x.writeBuffer
            /\ \/ /\ y = x
                  /\ ~Writable(x) \/ x.upgrading \/ x.writeBuffer = <<>>
               \/ /\ Writable(x) /\ ~x.upgrading /\ x.writeBuffer # <<>>
                  /\ y.prevBufferLen = Len(x.writeBuffer) /\ y.post = Request(x.writeBuffer)
                  /\ y.writable = x.writable /\ y.out = x.out
        BY <1>5, <3>4, <4>2, <4>3, <4>6, FlushFields
      <4>10. /\ CType(z1) /\ Fields(z1) = Fields(b) /\ z1.writeBuffer = b.writeBuffer
             /\ \/ /\ z1 = b
                   /\ ~Writable(b) \/ b.upgrading \/ b.writeBuffer = <<>>
                \/ /\ Writable(b) /\ ~b.upgrading /\ b.writeBuffer # <<>>
                   /\ z1.prevBufferLen = Len(b.writeBuffer) /\ z1.post = Request(b.writeBuffer)
                   /\ z1.writable = b.writable /\ z1.out = b.out
        BY <1>5, <3>4, <4>4, <4>5, <4>6, FlushFields
      <4> HIDE DEF y, z1
      <4>11. i = [d EXCEPT !.get = NoRequest]
        OBVIOUS
      <4> HIDE DEF d, i
      <4>12. y \in ClientType
        BY <4>9 DEF CType
      <4>13. i = [y EXCEPT !.probe = "opening", !.ws = "connecting", !.get = NoRequest]
        BY <4>1, <4>11
      <4>14. i \in ClientType /\ i.probe = "opening" /\ i.ws = "connecting" /\ i.get = NoRequest
        BY <4>12, <4>13, RequestTypes DEF ClientType
      <4>15. /\ i.readyState = y.readyState
             /\ i.polling = y.polling /\ i.transport = y.transport
             /\ i.upgrading = y.upgrading /\ i.prevBufferLen = y.prevBufferLen
             /\ i.writeBuffer = y.writeBuffer
             /\ i.post = y.post /\ i.writable = y.writable /\ i.out = y.out
             /\ i.accepted = y.accepted /\ i.heard = y.heard
        BY <4>12, <4>13 DEF ClientType
      <4>16. CType(i)
        BY <4>9, <4>14, <4>15 DEF CType
      <4>17. /\ y.readyState = "open" /\ z1.readyState = "open"
             /\ y.polling = z1.polling /\ y.transport = z1.transport
             /\ y.upgrading = z1.upgrading /\ y.writeBuffer = z1.writeBuffer
             /\ y.accepted = z1.accepted /\ y.heard = z1.heard
             /\ z1.probe = "opening" /\ z1.ws = "connecting" /\ z1.get = NoRequest
        BY <4>2, <4>3, <4>4, <4>5, <4>9, <4>10 DEF Fields
      <4>18. /\ y.prevBufferLen = z1.prevBufferLen /\ y.post = z1.post
             /\ y.writable = z1.writable /\ y.out = z1.out
        BY <4>3, <4>5, <4>8, <4>9, <4>10
      <4>19. Base(z1, s, o) /\ Flushed(z1)
        BY <4>7, BaseFlush DEF z1
      <4>20. Base(i, s, o) /\ Flushed(i)
        BY <4>14, <4>15, <4>16, <4>17, <4>18, <4>19, BaseSame
      <4> QED
        BY <4>14, <4>15, <4>17, <4>20
    <3> QED
      BY <1>1, <3>5, <3>6 DEF ClientType
  <2> QED
    BY <1>1, <2>1, <2>2 DEF ClientShape
<1> HIDE DEF i
<1>7. /\ Base(e, s, o) /\ Flushed(e) /\ Resumed(e)
      /\ e.polling = "open" => e = i
  BY <1>6, BasePauseIfIdle
<1>8. r \in BOOLEAN /\ (o => r)
  BY <1>1
<1>9. CASE e.polling # "open"
  <2>1. z = e
    BY <1>9
  <2> HIDE DEF e, z, r
  <2>2. Base(z, s, r)
    BY <1>7, <1>8, <2>1, BaseOvertaken
  <2> QED
    BY <1>2, <1>7, <2>1, <2>2 DEF r
<1>10. CASE e.polling = "open"
  <2>1. z = [i EXCEPT !.get = Request(<<>>)] /\ i.polling = "open"
    BY <1>7, <1>10
  <2> HIDE DEF e, z
  <2>2. i \in ClientType /\ CType(i) /\ Request(<<>>) \in Requests
    BY <1>6, RequestTypes, EmptySeq DEF Base, CType
  <2>3. z \in ClientType /\ z.get = Request(<<>>)
    BY <2>1, <2>2 DEF ClientType
  <2>4. /\ z.readyState = i.readyState /\ z.probe = i.probe /\ z.ws = i.ws
        /\ z.polling = i.polling /\ z.transport = i.transport
        /\ z.upgrading = i.upgrading /\ z.prevBufferLen = i.prevBufferLen
        /\ z.writeBuffer = i.writeBuffer
        /\ z.post = i.post /\ z.writable = i.writable /\ z.out = i.out
        /\ z.accepted = i.accepted /\ z.heard = i.heard
    BY <2>1, <2>2 DEF ClientType
  <2>5. CType(z)
    BY <2>2, <2>3, <2>4 DEF CType
  <2>6. i.probe = "pinged" /\ s.down # <<>> => r \/ Noop(s.queue)
    <3> SUFFICES ASSUME i.probe = "pinged", s.down # <<>>, ~Noop(s.queue) PROVE r
      OBVIOUS
    <3>1. c.probe = "pinged"
      BY <1>6
    <3>2. o \/ Noop(ps)
      BY <1>1, <3>1, RequestFields DEF Waking, Woken
    <3>3. Noop(ps) => Packet("noop") \in Range(ps)
      <4> SUFFICES ASSUME NEW k \in DOMAIN ps, ps[k].type = "noop"
                   PROVE  Packet("noop") \in Range(ps)
        BY DEF Noop
      <4>1. ps[k] \in Packets
        BY <1>3, ElementOfSeq, LenProperties
      <4>2. ps[k] = Packet("noop")
        <5> HIDE DEF ps
        <5> QED
          BY <4>1 DEF Packets, Packet, Message
      <4> QED
        BY <4>2 DEF Range
    <3> QED
      BY <3>1, <3>2, <3>3
  <2> HIDE DEF r
  <2>7. Base(z, s, r) /\ (Flushed(i) => Flushed(z)) /\ Resumed(z)
    <3>1. /\ Base(i, s, o) /\ (o => r) /\ r \in BOOLEAN /\ CType(z) /\ i.get = NoRequest
          /\ i.readyState # "closed" /\ i.polling = "open" /\ z.get = Request(<<>>)
      BY <1>6, <1>8, <2>1, <2>3, <2>5
    <3> QED
      BY <2>4, <2>6, <3>1, BaseRepoll
  <2> QED
    BY <1>2, <1>6, <2>7 DEF r
<1> QED
  BY <1>9, <1>10

-----------------------------------------------------------------------------
(* The steps of the client.                                                 *)
LEMMA StepClient ==
  ASSUME NEW d, Base(d, server, overtaken), Flushed(d), Resumed(d), ClientStep(d)
  PROVE  IInv'
BY DEF ClientStep, IInv

LEMMA StepAppWrite ==
  ASSUME IInv, AppWrite
  PROVE  IInv'
<1> DEFINE c == client
           d == [c EXCEPT !.accepted = @ + 1]
           p == Message(c.accepted + 1)
<1>1. /\ Base(c, server, overtaken) /\ Flushed(c) /\ Resumed(c) /\ CType(c) /\ c \in ClientType
      /\ c.accepted \in Nat /\ c.accepted < MaxUp /\ c.readyState \in {"opening", "open"}
  BY SequenceTypes DEF IInv, Base, CType, AppWrite
<1>2. d \in ClientType /\ d.accepted = c.accepted + 1
  <2> DEFINE n == c.accepted + 1
  <2>1. n \in Nat /\ d = [c EXCEPT !.accepted = n]
    BY <1>1
  <2> HIDE DEF n, d
  <2>2. d \in ClientType /\ d.accepted = n
    BY <1>1, <2>1 DEF ClientType
  <2> QED
    BY <2>2 DEF n
<1>3. /\ d.readyState = c.readyState /\ d.transport = c.transport /\ d.upgrading = c.upgrading
      /\ d.writeBuffer = c.writeBuffer /\ d.prevBufferLen = c.prevBufferLen
      /\ d.polling = c.polling /\ d.get = c.get /\ d.post = c.post /\ d.probe = c.probe
      /\ d.ws = c.ws /\ d.writable = c.writable /\ d.out = c.out /\ d.heard = c.heard
  BY <1>1 DEF ClientType
<1>4. CType(d)
  BY <1>1, <1>2, <1>3 DEF CType
<1>5. p \in Packets /\ IsMessage(p) /\ p.n = c.accepted + 1
  <2>1. c.accepted + 1 \in 1 .. MaxUp + MaxDown + MaxSessions
    BY <1>1, UpgradeAssumption
  <2> QED
    BY <2>1 DEF Packets, IsMessage, Message
<1>6. ClientStep(SendPacket(d, p))
  BY DEF AppWrite
<1> HIDE DEF c, d, p
<1>7. LET e == SendPacket(d, p)
      IN  Base(e, server, overtaken) /\ Flushed(e) /\ Resumed(e)
  BY <1>1, <1>2, <1>3, <1>4, <1>5, BaseSend
<1> QED
  BY <1>6, <1>7, StepClient

LEMMA StepPingDue ==
  ASSUME IInv, PingDue
  PROVE  IInv'
<1> DEFINE c == client
           d == [c EXCEPT !.pinged = TRUE]
           p == Packet("ping")
<1>1. /\ Base(c, server, overtaken) /\ Flushed(c) /\ Resumed(c) /\ CType(c) /\ c \in ClientType
      /\ c.readyState \in {"open", "closing"}
  BY DEF IInv, Base, CType, PingDue
<1>2. d \in ClientType
  BY <1>1 DEF ClientType
<1>3. /\ d.readyState = c.readyState /\ d.transport = c.transport /\ d.upgrading = c.upgrading
      /\ d.writeBuffer = c.writeBuffer /\ d.prevBufferLen = c.prevBufferLen
      /\ d.polling = c.polling /\ d.get = c.get /\ d.post = c.post /\ d.probe = c.probe
      /\ d.ws = c.ws /\ d.writable = c.writable /\ d.out = c.out /\ d.heard = c.heard
      /\ d.accepted = c.accepted
  BY <1>1 DEF ClientType
<1>4. CType(d)
  BY <1>1, <1>2, <1>3 DEF CType
<1>5. p \in Packets /\ ~IsMessage(p)
  BY DEF Packets, IsMessage, Packet
<1>6. ClientStep(SendPacket(d, p))
  BY DEF PingDue
<1> HIDE DEF c, d, p
<1>7. CASE c.readyState = "open"
  <2>1. LET e == SendPacket(d, p)
        IN  Base(e, server, overtaken) /\ Flushed(e) /\ Resumed(e)
    BY <1>1, <1>3, <1>4, <1>5, <1>7, BaseSend
  <2> QED
    BY <1>6, <2>1, StepClient
<1>8. CASE c.readyState = "closing"
  <2>1. SendPacket(d, p) = d
    BY <1>3, <1>8 DEF SendPacket
  <2>2. Base(d, server, overtaken) /\ Flushed(d) /\ Resumed(d)
    BY <1>1, <1>3, <1>4, BaseSame
  <2> QED
    BY <1>6, <2>1, <2>2, StepClient
<1> QED
  BY <1>1, <1>7, <1>8

LEMMA StepAppClose ==
  ASSUME IInv, AppClose
  PROVE  IInv'
BY BaseCloseSocket, StepClient DEF IInv, AppClose

LEMMA StepClosing ==
  ASSUME IInv, PingTimeout \/ RequestFailed
  PROVE  IInv'
BY BaseClose, StepClient DEF IInv, PingTimeout, RequestFailed

LEMMA StepGetDone ==
  ASSUME IInv, GetDone
  PROVE  IInv'
BY BaseGetDone DEF IInv, GetDone, Live

LEMMA StepPostDone ==
  ASSUME IInv, PostDone
  PROVE  IInv'
<1> DEFINE c == client
           d == [c EXCEPT !.post = NoRequest]
<1>1. /\ Base(c, server, overtaken) /\ Flushed(c) /\ Resumed(c) /\ CType(c) /\ c \in ClientType
      /\ c.readyState # "closed" /\ c.post.state = "done"
  BY DEF IInv, Base, CType, PostDone, Live
<1>2. d \in ClientType /\ d.post = NoRequest
  BY <1>1, RequestTypes DEF ClientType
<1>3. /\ d.readyState = c.readyState /\ d.transport = c.transport /\ d.upgrading = c.upgrading
      /\ d.writeBuffer = c.writeBuffer /\ d.prevBufferLen = c.prevBufferLen
      /\ d.polling = c.polling /\ d.get = c.get /\ d.probe = c.probe
      /\ d.ws = c.ws /\ d.writable = c.writable /\ d.out = c.out /\ d.heard = c.heard
      /\ d.accepted = c.accepted
  BY <1>1 DEF ClientType
<1>4. CType(d)
  BY <1>1, <1>2, <1>3 DEF CType
<1>5. ClientStep(PauseIfIdle(OnDrain(d)))
  BY DEF PostDone
<1> HIDE DEF c, d
<1>6. Base(OnDrain(d), server, overtaken) /\ Flushed(OnDrain(d))
  BY <1>1, <1>2, <1>3, <1>4, BaseDrain
<1> QED
  BY <1>5, <1>6, BasePauseIfIdle, StepClient

LEMMA StepFramesOut ==
  ASSUME IInv, FramesOut
  PROVE  IInv'
<1> DEFINE c == client
           d == [c EXCEPT !.writable = TRUE]
<1>1. /\ Base(c, server, overtaken) /\ Flushed(c) /\ Resumed(c) /\ CType(c) /\ c \in ClientType
      /\ c.readyState # "closed" /\ ~c.writable
  BY DEF IInv, Base, CType, FramesOut, Live
<1>2. d \in ClientType /\ d.writable = TRUE
  BY <1>1 DEF ClientType
<1>3. /\ d.readyState = c.readyState /\ d.transport = c.transport /\ d.upgrading = c.upgrading
      /\ d.writeBuffer = c.writeBuffer /\ d.prevBufferLen = c.prevBufferLen
      /\ d.polling = c.polling /\ d.get = c.get /\ d.post = c.post /\ d.probe = c.probe
      /\ d.ws = c.ws /\ d.out = c.out /\ d.heard = c.heard /\ d.accepted = c.accepted
  BY <1>1 DEF ClientType
<1>4. CType(d)
  BY <1>1, <1>2, <1>3 DEF CType
<1>5. c.transport = "websocket"
  BY <1>1, SequenceTypes DEF Base, ClientShape
<1>6. ClientStep(OnDrain(d))
  BY <1>3, <1>5 DEF FramesOut
<1> HIDE DEF c, d
<1>8. /\ Base(OnDrain(d), server, overtaken) /\ Flushed(OnDrain(d))
      /\ OnDrain(d).transport = "websocket"
  BY <1>1, <1>2, <1>3, <1>4, <1>5, BaseDrain
<1>9. Resumed(OnDrain(d))
  BY <1>8 DEF Resumed, Base, ClientShape
<1> QED
  BY <1>6, <1>8, <1>9, StepClient

LEMMA StepWebSocketOpen ==
  ASSUME IInv, WebSocketOpen
  PROVE  IInv'
<1> DEFINE c == client
           s == server
           o == overtaken
           d == [c EXCEPT !.ws = "open", !.probe = "pinged", !.out = <<Packet("probe")>>]
<1>1. /\ Base(c, s, o) /\ Flushed(c) /\ Resumed(c) /\ CType(c) /\ c \in ClientType
      /\ c.readyState # "closed" /\ c.ws = "connecting" /\ s.session # "opening"
      /\ ClientShape(c) /\ Shape(c, s) /\ UpOrder(c, s) /\ UpGap(c, s)
      /\ DownOrder(c, s) /\ DownGap(c, s) /\ Waking(c, s, o) /\ s \in ServerType /\ o \in BOOLEAN
  BY DEF IInv, Base, CType, WebSocketOpen, Live
<1> DEFINE w == <<Packet("probe")>>
<1>2. w \in Seq(Packets) /\ w # <<>> /\ \A i \in DOMAIN w : w[i] = Packet("probe")
  BY DEF Packets
<1>3. Msgs(w) = {} /\ Ascending(w)
  <2> HIDE DEF w
  <2> QED
    BY <1>2, NoMessages
<1> HIDE DEF w
<1>4. d = [[[c EXCEPT !.out = w] EXCEPT !.ws = "open"] EXCEPT !.probe = "pinged"]
  BY DEF w
<1>5. d.ws = "open" /\ d.probe = "pinged" /\ d.out = w
  BY <1>1 DEF ClientType, w
<1>6. /\ d.readyState = c.readyState /\ d.transport = c.transport /\ d.upgrading = c.upgrading
      /\ d.writeBuffer = c.writeBuffer /\ d.prevBufferLen = c.prevBufferLen
      /\ d.polling = c.polling /\ d.get = c.get /\ d.post = c.post /\ d.writable = c.writable
      /\ d.heard = c.heard /\ d.accepted = c.accepted
  BY <1>1 DEF ClientType
<1>7. ClientStep(d)
  BY DEF WebSocketOpen
<1> HIDE DEF c, d, s, o
<1>8. d \in ClientType
  <2> DEFINE x == [c EXCEPT !.out = w]
             y == [x EXCEPT !.ws = "open"]
  <2>1. x \in ClientType
    BY <1>1, <1>2 DEF ClientType
  <2> HIDE DEF x
  <2>2. y \in ClientType
    BY <2>1, SetWs
  <2>3. d = [y EXCEPT !.probe = "pinged"]
    BY <1>4 DEF x
  <2> HIDE DEF y
  <2> QED
    BY <2>2, <2>3, SetProbe
<1>9. CType(d)
  BY <1>1, <1>6, <1>8 DEF CType
<1>10. c.transport = "polling" /\ c.probe = "opening" /\ c.out = <<>> /\ s.down = <<>>
       /\ s.session \notin {"none", "opening", "closed"} /\ ~IsOpen(c.get.packets)
       /\ c.polling # "opening"
  BY <1>1, SequenceTypes DEF ClientShape, Shape, Probing
<1>11. ClientShape(d)
  BY <1>1, <1>2, <1>5, <1>6, <1>10 DEF ClientShape, Probing, Writable
<1>12. Shape(d, s)
  BY <1>1, <1>5, <1>6, <1>10 DEF Shape
<1>13. UpOrder(d, s) /\ UpGap(d, s)
  BY <1>1, <1>3, <1>5, <1>6, <1>10, MsgsEmpty DEF UpOrder, UpGap, Sending, Rest
<1>14. DownOrder(d, s) /\ DownGap(d, s)
  BY <1>1, <1>6, <1>10 DEF DownOrder, DownGap, Receiving
<1>15. Waking(d, s, o) /\ Flushed(d) /\ Resumed(d)
  BY <1>1, <1>2, <1>5, <1>6, <1>10 DEF Waking, Woken, Flushed, Resumed, Writable
<1>16. Base(d, s, o)
  BY <1>1, <1>9, <1>11, <1>12, <1>13, <1>14, <1>15 DEF Base
<1> QED
  BY <1>7, <1>15, <1>16, StepClient DEF s, o

LEMMA StepWebSocketRefused ==
  ASSUME IInv, WebSocketRefused
  PROVE  IInv'
BY BaseProbeError, StepClient DEF IInv, WebSocketRefused

LEMMA StepWebSocketLost ==
  ASSUME IInv, WebSocketLost
  PROVE  IInv'
BY BaseProbeError, BaseClose, StepClient DEF IInv, WebSocketLost

-----------------------------------------------------------------------------
(* A frame arrives.                                                         *)
LEMMA DownTail ==
  ASSUME NEW s \in ServerType, s.down # <<>>, s.down \in Seq(Plain)
  PROVE  LET t == [s EXCEPT !.down = Tail(@)] IN
         /\ t \in ServerType /\ t.down \in Seq(Plain) /\ Head(s.down) \in Plain
         /\ t.session = s.session /\ t.active = s.active /\ t.queue = s.queue
         /\ t.done = s.done /\ t.emitter = s.emitter /\ t.emitted = s.emitted
         /\ t.got = s.got /\ t.sessions = s.sessions
         /\ Msgs(s.down) = (IF IsMessage(Head(s.down)) THEN {Head(s.down).n} ELSE {}) \cup Msgs(t.down)
         /\ Ascending(s.down) =>
              /\ Ascending(t.down)
              /\ IsMessage(Head(s.down)) => Below({Head(s.down).n}, Msgs(t.down))
<1> DEFINE b == Tail(s.down)
           t == [s EXCEPT !.down = b]
<1>1. /\ s.down \in Seq(Packets) /\ b \in Seq(Plain) /\ b \in Seq(Packets)
      /\ Head(s.down) \in Plain
  BY HeadTailProperties DEF ServerType, Plain
<1>2. /\ Msgs(s.down) = (IF IsMessage(Head(s.down)) THEN {Head(s.down).n} ELSE {}) \cup Msgs(b)
      /\ Ascending(s.down) =>
              /\ Ascending(b)
              /\ IsMessage(Head(s.down)) => Below({Head(s.down).n}, Msgs(b))
  BY <1>1, MsgsTail
<1> HIDE DEF b
<1>3. t \in ServerType /\ t.down = b
  BY <1>1 DEF ServerType
<1>4. /\ t.session = s.session /\ t.active = s.active /\ t.queue = s.queue
      /\ t.done = s.done /\ t.emitter = s.emitter /\ t.emitted = s.emitted
      /\ t.got = s.got /\ t.sessions = s.sessions
  BY DEF ServerType
<1> QED
  BY <1>1, <1>2, <1>3, <1>4 DEF b

(* The same for a frame that has no message, as it is before the upgrade.   *)
LEMMA BaseFrameLost ==
  ASSUME NEW c, NEW s, NEW t, NEW o, Base(c, s, o), s.down # <<>>, t = [s EXCEPT !.down = Tail(@)],
         c.transport = "polling", c.probe # "pinged"
  PROVE  Base(c, t, o)
<1>1. /\ CType(c) /\ ClientShape(c) /\ Shape(c, s) /\ UpOrder(c, s) /\ UpGap(c, s)
      /\ DownOrder(c, s) /\ DownGap(c, s) /\ Waking(c, s, o) /\ s \in ServerType /\ o \in BOOLEAN
      /\ s.down \in Seq(Plain) /\ Ascending(s.down)
  BY DEF Base, Shape, DownOrder
<1>2. /\ t \in ServerType /\ t.down \in Seq(Plain)
      /\ t.session = s.session /\ t.active = s.active /\ t.queue = s.queue
      /\ t.done = s.done /\ t.emitter = s.emitter /\ t.emitted = s.emitted
      /\ t.got = s.got /\ t.sessions = s.sessions
      /\ Msgs(t.down) \subseteq Msgs(s.down) /\ Ascending(t.down)
  BY <1>1, DownTail
<1>3. Msgs(s.down) = {} /\ Msgs(t.down) = {}
  BY <1>1, <1>2 DEF Shape
<1>4. Shape(c, t)
  BY <1>1, <1>2, <1>3 DEF Shape
<1>5. UpOrder(c, t) /\ UpGap(c, t)
  BY <1>1, <1>2 DEF UpOrder, UpGap
<1>6. DownOrder(c, t) /\ DownGap(c, t)
  BY <1>1, <1>2, <1>3 DEF DownOrder, DownGap
<1>7. Waking(c, t, o)
  BY <1>1, <1>2 DEF Waking, Woken
<1> QED
  BY <1>1, <1>2, <1>4, <1>5, <1>6, <1>7 DEF Base

(* The PONG of the probe.                                                   *)
LEMMA BaseProbePong ==
  ASSUME NEW c, NEW s, NEW t, NEW o, Base(c, s, o), s.down # <<>>, t = [s EXCEPT !.down = Tail(@)],
         c.readyState # "closed", c.probe = "pinged"
  PROVE  LET d == OnProbePong(c) IN Base(d, t, o) /\ Flushed(d) /\ Resumed(d)
<1> DEFINE q == [c EXCEPT !.upgrading = TRUE, !.probe = "pausing", !.polling = "pausing"]
<1>1. /\ CType(c) /\ ClientShape(c) /\ Shape(c, s) /\ UpOrder(c, s) /\ UpGap(c, s)
      /\ DownOrder(c, s) /\ DownGap(c, s) /\ Waking(c, s, o) /\ s \in ServerType /\ o \in BOOLEAN
      /\ s.down \in Seq(Plain) /\ Ascending(s.down) /\ c \in ClientType
  BY DEF Base, Shape, DownOrder, CType
<1>2. /\ t \in ServerType /\ t.down \in Seq(Plain)
      /\ t.session = s.session /\ t.active = s.active /\ t.queue = s.queue
      /\ t.done = s.done /\ t.emitter = s.emitter /\ t.emitted = s.emitted
      /\ t.got = s.got /\ t.sessions = s.sessions
      /\ Msgs(t.down) \subseteq Msgs(s.down) /\ Ascending(t.down)
  BY <1>1, DownTail
<1>3. OnProbePong(c) = PauseIfIdle(q)
  BY DEF OnProbePong
<1>4. q \in ClientType
  <2> DEFINE x == [c EXCEPT !.upgrading = TRUE]
             y == [x EXCEPT !.probe = "pausing"]
  <2>1. x \in ClientType
    BY <1>1 DEF ClientType
  <2>2. q = [y EXCEPT !.polling = "pausing"]
    OBVIOUS
  <2> HIDE DEF x, q
  <2>3. y \in ClientType
    BY <2>1, SetProbe
  <2> HIDE DEF y
  <2> QED
    BY <2>2, <2>3, SetPolling
<1>5. q.upgrading = TRUE /\ q.probe = "pausing" /\ q.polling = "pausing"
  BY <1>1 DEF ClientType
<1>6. /\ q.readyState = c.readyState /\ q.transport = c.transport
      /\ q.writeBuffer = c.writeBuffer /\ q.prevBufferLen = c.prevBufferLen
      /\ q.get = c.get /\ q.post = c.post /\ q.ws = c.ws /\ q.writable = c.writable
      /\ q.out = c.out /\ q.accepted = c.accepted /\ q.heard = c.heard
  BY <1>1 DEF ClientType
<1> HIDE DEF q
<1>7. CType(q)
  BY <1>1, <1>4, <1>6 DEF CType
<1>8. /\ c.transport = "polling" /\ c.polling # "opening" /\ ~IsOpen(c.get.packets)
      /\ c.ws \in {"open", "closed", "gone"} /\ Msgs(s.down) = {} /\ Msgs(t.down) = {}
  BY <1>1, <1>2, SequenceTypes DEF ClientShape, Shape, Probing
<1>9. ClientShape(q)
  BY <1>1, <1>5, <1>6, <1>8, RequestFields DEF ClientShape, Probing, Writable
<1>10. Shape(q, t)
  BY <1>1, <1>2, <1>5, <1>6, <1>8 DEF Shape
<1>11. UpOrder(q, t) /\ UpGap(q, t)
  BY <1>1, <1>2, <1>6, <1>8 DEF UpOrder, UpGap, Sending, Rest
<1>12. DownOrder(q, t) /\ DownGap(q, t)
  BY <1>1, <1>2, <1>6, <1>8 DEF DownOrder, DownGap, Receiving
<1>13. Waking(q, t, o) /\ Flushed(q)
  BY <1>1, <1>2, <1>5, <1>6 DEF Waking, Woken, Flushed
<1>14. Base(q, t, o)
  BY <1>1, <1>2, <1>7, <1>9, <1>10, <1>11, <1>12, <1>13 DEF Base
<1> QED
  BY <1>3, <1>13, <1>14, BasePauseIfIdle

(* A frame for the engine.                                                  *)
LEMMA BaseFrame ==
  ASSUME NEW c, NEW s, NEW t, NEW o, Base(c, s, o), Flushed(c), Resumed(c),
         s.down # <<>>, t = [s EXCEPT !.down = Tail(@)],
         c.readyState # "closed", c.transport = "websocket", c.ws = "open"
  PROVE  LET d == OnPacket(c, Head(s.down)) IN Base(d, t, o) /\ Flushed(d) /\ Resumed(d)
<1> DEFINE p == Head(s.down)
           d == OnPacket(c, p)
<1>1. /\ CType(c) /\ ClientShape(c) /\ Shape(c, s) /\ UpOrder(c, s) /\ UpGap(c, s)
      /\ DownOrder(c, s) /\ DownGap(c, s) /\ Waking(c, s, o) /\ s \in ServerType /\ o \in BOOLEAN
      /\ s.down \in Seq(Plain) /\ Ascending(s.down) /\ c \in ClientType
  BY DEF Base, Shape, DownOrder, CType
<1>2. /\ t \in ServerType /\ t.down \in Seq(Plain) /\ p \in Plain
      /\ t.session = s.session /\ t.active = s.active /\ t.queue = s.queue
      /\ t.done = s.done /\ t.emitter = s.emitter /\ t.emitted = s.emitted
      /\ t.got = s.got /\ t.sessions = s.sessions /\ Ascending(t.down)
      /\ Msgs(s.down) = (IF IsMessage(p) THEN {p.n} ELSE {}) \cup Msgs(t.down)
      /\ IsMessage(p) => Below({p.n}, Msgs(t.down))
  BY <1>1, DownTail
<1>3. /\ Heard(d, c)
      /\ d.heard = IF c.readyState \in {"opening", "open"} /\ IsMessage(p)
                   THEN Append(c.heard, p.n) ELSE c.heard
  BY <1>1, <1>2, HeardOne
<1> HIDE DEF d, p
<1>4. /\ d \in ClientType
      /\ d.readyState = c.readyState /\ d.transport = c.transport /\ d.upgrading = c.upgrading
      /\ d.writeBuffer = c.writeBuffer /\ d.prevBufferLen = c.prevBufferLen
      /\ d.polling = c.polling /\ d.get = c.get /\ d.post = c.post /\ d.probe = c.probe
      /\ d.ws = c.ws /\ d.writable = c.writable /\ d.out = c.out /\ d.accepted = c.accepted
  BY <1>3 DEF Heard
<1>5. CType(d)
  BY <1>1, <1>4 DEF CType
<1>6. c.get = NoRequest /\ c.get.packets = <<>> /\ c.probe = "done" /\ Msgs(<<>>) = {}
      /\ c.get.state = "none"
  BY <1>1, RequestFields, MsgsEmpty DEF ClientShape
<1>7. Strict(c.heard) /\ c.heard \in Seq(Nat) /\ p.n \in Nat /\ s.emitted \in Nat
  BY <1>1, <1>2, SequenceTypes, PacketFields DEF DownOrder, Plain, ServerType
<1>8. ClientShape(d)
  BY <1>1, <1>4 DEF ClientShape, Probing, Writable
<1>9. Shape(d, t)
  <2>1. s.session # "none"
    BY <1>1, <1>6 DEF Shape
  <2> QED
    BY <1>1, <1>2, <1>4, <1>6, <2>1, NotOpen DEF Shape, Probing
<1>10. UpOrder(d, t) /\ UpGap(d, t)
  BY <1>1, <1>2, <1>4 DEF UpOrder, UpGap, Sending, Rest
<1>11. Waking(d, t, o) /\ Flushed(d) /\ Resumed(d)
  BY <1>4, <1>6, <1>1 DEF Waking, Flushed, Resumed, Writable
<1>12. DownOrder(d, t) /\ DownGap(d, t)
  <2>1. CASE c.readyState \in {"opening", "open"} /\ IsMessage(p)
    <3>1. p.n \in Msgs(s.down) /\ p.n \in 1 .. s.emitted /\ Below(Range(c.heard), {p.n})
      BY <1>1, <1>2, <2>1 DEF DownOrder, Below
    <3>2. Range(d.heard) = Range(c.heard) \cup {p.n} /\ Strict(d.heard)
      BY <1>3, <1>7, <2>1, <3>1, StrictAppend
    <3>3. DownOrder(d, t)
      BY <1>1, <1>2, <1>4, <1>6, <2>1, <3>1, <3>2 DEF DownOrder, Below
    <3>4. s.sessions = 1 =>
             1 .. s.emitted \subseteq Range(d.heard) \cup Msgs(s.queue) \cup Msgs(t.down)
      BY <1>1, <1>2, <1>6, <2>1, <3>2 DEF DownGap, Receiving
    <3>5. s.sessions = 1 => 1 .. p.n - 1 \subseteq Range(d.heard) \cup Msgs(s.queue)
      <4> SUFFICES ASSUME s.sessions = 1, NEW k \in 1 .. p.n - 1
                   PROVE  k \in Range(d.heard) \cup Msgs(s.queue)
        OBVIOUS
      <4>1. k \in 1 .. s.emitted /\ ~(p.n < k)
        BY <1>7, <3>1
      <4>2. k \notin Msgs(t.down)
        BY <1>2, <2>1, <4>1 DEF Below
      <4> QED
        BY <3>4, <4>1, <4>2
    <3>6. DownGap(d, t)
      BY <1>1, <1>2, <1>4, <1>6, <3>2, <3>4, <3>5 DEF DownGap
    <3> QED
      BY <3>3, <3>6
  <2>2. CASE ~(c.readyState \in {"opening", "open"} /\ IsMessage(p))
    <3>1. d.heard = c.heard /\ Msgs(t.down) \subseteq Msgs(s.down)
      BY <1>2, <1>3, <2>2
    <3>2. DownOrder(d, t)
      BY <1>1, <1>2, <1>4, <3>1 DEF DownOrder, Below
    <3>3. DownGap(d, t)
      <4>1. IsMessage(p) => ~Receiving(d)
        BY <1>4, <2>2 DEF Receiving
      <4>2. Receiving(d) => Receiving(c) /\ Msgs(t.down) = Msgs(s.down)
        BY <1>2, <1>4, <4>1 DEF Receiving
      <4> QED
        BY <1>1, <1>2, <1>4, <3>1, <4>2 DEF DownGap
    <3> QED
      BY <3>2, <3>3
  <2> QED
    BY <2>1, <2>2
<1>13. Base(d, t, o)
  BY <1>1, <1>2, <1>5, <1>8, <1>9, <1>10, <1>11, <1>12 DEF Base
<1> QED
  BY <1>11, <1>13 DEF d, p

LEMMA StepFrame ==
  ASSUME IInv, Frame
  PROVE  IInv'
<1>1. /\ Base(client, server, overtaken) /\ Flushed(client) /\ Resumed(client)
      /\ client.readyState # "closed" /\ server.down # <<>> /\ client.ws = "open"
      /\ server' = [server EXCEPT !.down = Tail(@)] /\ overtaken' = overtaken
      /\ client' = CASE client.probe = "pinged" -> OnProbePong(client)
                 [] client.transport = "websocket" -> OnPacket(client, Head(server.down))
                 [] OTHER -> client
  BY DEF IInv, Frame, Live
<1>2. CASE client.probe = "pinged"
  <2>1. client.transport = "polling"
    BY <1>1, <1>2, SequenceTypes DEF Base, ClientShape
  <2>2. client' = OnProbePong(client)
    BY <1>1, <1>2, <2>1
  <2> QED
    BY <1>1, <1>2, <2>2, BaseProbePong DEF IInv
<1>3. CASE client.transport = "websocket"
  <2>1. client.probe # "pinged"
    BY <1>1, <1>3 DEF Base, ClientShape
  <2>2. client' = OnPacket(client, Head(server.down))
    BY <1>1, <1>3, <2>1
  <2> QED
    BY <1>1, <1>3, <2>2, BaseFrame DEF IInv
<1>4. CASE client.probe # "pinged" /\ client.transport # "websocket"
  <2>1. client' = client /\ client.transport = "polling"
    BY <1>1, <1>4, SequenceTypes DEF Base
  <2>2. Base(client, server', overtaken)
    BY <1>1, <1>4, <2>1, BaseFrameLost
  <2> QED
    BY <1>1, <2>1, <2>2 DEF IInv
<1> QED
  BY <1>2, <1>3, <1>4

-----------------------------------------------------------------------------
(* The steps of the server.                                                 *)

(* The server sends packets that are no messages: they wake a poll, or are  *)
(* the answer to a probe, which comes with a NOOP for the poll.             *)
LEMMA BaseReply ==
  ASSUME NEW c, NEW s, NEW t, NEW o, Base(c, s, o), t \in ServerType,
         t.session = s.session, t.active = s.active, t.done = s.done, t.emitter = s.emitter,
         t.emitted = s.emitted, t.got = s.got, t.sessions = s.sessions,
         t.queue \in Seq(Plain), Msgs(t.queue) = Msgs(s.queue), Ascending(t.queue),
         Noop(s.queue) => Noop(t.queue),
         t.down \in Seq(Plain), Msgs(t.down) = Msgs(s.down), Ascending(t.down),
         c.ws # "open" => t.down = s.down,
         s.down # <<>> => t.down # <<>>,
         c.probe = "pinged" => t.down = s.down \/ Noop(t.queue)
  PROVE  Base(c, t, o)
<1>1. /\ CType(c) /\ ClientShape(c) /\ Shape(c, s) /\ UpOrder(c, s) /\ UpGap(c, s)
      /\ DownOrder(c, s) /\ DownGap(c, s) /\ Waking(c, s, o) /\ o \in BOOLEAN
  BY DEF Base
<1>2. Shape(c, t)
  BY <1>1 DEF Shape
<1>3. UpOrder(c, t) /\ UpGap(c, t)
  BY <1>1 DEF UpOrder, UpGap
<1>4. DownOrder(c, t) /\ DownGap(c, t)
  BY <1>1 DEF DownOrder, DownGap
<1>5. Waking(c, t, o)
  BY <1>1 DEF Waking, Woken
<1> QED
  BY <1>1, <1>2, <1>3, <1>4, <1>5 DEF Base

LEMMA AppendPlain ==
  ASSUME NEW ps \in Seq(Plain), NEW p \in Plain
  PROVE  /\ Append(ps, p) \in Seq(Plain) /\ Append(ps, p) # <<>>
         /\ Noop(ps) \/ p.type = "noop" => Noop(Append(ps, p))
         /\ ~IsMessage(p) => /\ Msgs(Append(ps, p)) = Msgs(ps)
                             /\ Ascending(ps) => Ascending(Append(ps, p))
         /\ IsMessage(p) => /\ Msgs(Append(ps, p)) = Msgs(ps) \cup {p.n}
                            /\ Ascending(ps) /\ Below(Msgs(ps), {p.n}) => Ascending(Append(ps, p))
<1> DEFINE a == Append(ps, p)
<1>1. /\ a \in Seq(Plain) /\ Len(a) = Len(ps) + 1 /\ Len(ps) \in Nat
      /\ DOMAIN ps = 1 .. Len(ps) /\ DOMAIN a = 1 .. Len(ps) + 1
      /\ \A i \in 1 .. Len(ps) : a[i] = ps[i]
      /\ a[Len(ps) + 1] = p
  BY AppendProperties, LenProperties
<1>2. ps \in Seq(Packets) /\ p \in Packets
  BY DEF Plain
<1>3. /\ Msgs(a) = Msgs(ps) \cup (IF IsMessage(p) THEN {p.n} ELSE {})
      /\ Ascending(ps) /\ (IsMessage(p) => Below(Msgs(ps), {p.n})) => Ascending(a)
  BY <1>2, MsgsAppend
<1> HIDE DEF a
<1>4. a # <<>>
  BY <1>1, EmptySeq
<1>5. Noop(ps) => Noop(a)
  BY <1>1 DEF Noop
<1>6. p.type = "noop" => Noop(a)
  BY <1>1 DEF Noop
<1> QED
  BY <1>1, <1>3, <1>4, <1>5, <1>6 DEF a

(* send(): the packet is queued, or written to a WebSocket that is open.    *)
LEMMA SendOnFields ==
  ASSUME NEW s \in ServerType, NEW x \in {"polling", "websocket"}, NEW p \in Plain,
         s.queue \in Seq(Plain), s.down \in Seq(Plain)
  PROVE  LET t == SendOn(s, x, p) IN
         /\ t \in ServerType
         /\ t.session = s.session /\ t.active = s.active /\ t.done = s.done
         /\ t.emitter = s.emitter /\ t.emitted = s.emitted /\ t.got = s.got
         /\ t.sessions = s.sessions
         /\ t.queue = IF x = "polling" THEN Append(s.queue, p) ELSE s.queue
         /\ t.down = IF x = "websocket" /\ client.ws = "open" THEN Append(s.down, p) ELSE s.down
<1>1. p \in Packets
  BY DEF Plain
<1>2. CASE x = "polling"
  <2> DEFINE q == Append(s.queue, p)
             t == [s EXCEPT !.queue = q]
  <2>1. SendOn(s, x, p) = t
    BY <1>2 DEF SendOn
  <2>2. q \in Seq(Packets)
    BY <1>1, AppendProperties DEF ServerType
  <2> HIDE DEF q
  <2>3. t \in ServerType /\ t.queue = q
    BY <2>2 DEF ServerType
  <2>4. /\ t.session = s.session /\ t.active = s.active /\ t.done = s.done
        /\ t.emitter = s.emitter /\ t.emitted = s.emitted /\ t.got = s.got
        /\ t.sessions = s.sessions /\ t.down = s.down
    BY DEF ServerType
  <2> QED
    BY <1>2, <2>1, <2>3, <2>4 DEF q
<1>3. CASE x = "websocket"
  <2> DEFINE q == IF client.ws = "open" THEN Append(s.down, p) ELSE s.down
             t == [s EXCEPT !.down = q]
  <2>1. SendOn(s, x, p) = t
    BY <1>3 DEF SendOn
  <2>2. q \in Seq(Packets)
    BY <1>1, AppendProperties DEF ServerType
  <2> HIDE DEF q
  <2>3. t \in ServerType /\ t.down = q
    BY <2>2 DEF ServerType
  <2>4. /\ t.session = s.session /\ t.active = s.active /\ t.done = s.done
        /\ t.emitter = s.emitter /\ t.emitted = s.emitted /\ t.got = s.got
        /\ t.sessions = s.sessions /\ t.queue = s.queue
    BY DEF ServerType
  <2> QED
    BY <1>3, <2>1, <2>3, <2>4 DEF q
<1> QED
  BY <1>2, <1>3

LEMMA Control ==
  /\ Packet("pong") \in Plain /\ ~IsMessage(Packet("pong"))
  /\ Packet("probe") \in Plain /\ ~IsMessage(Packet("probe"))
  /\ Packet("noop") \in Plain /\ ~IsMessage(Packet("noop")) /\ Packet("noop").type = "noop"
BY DEF Plain, Packets, Packet, IsMessage

LEMMA BasePing ==
  ASSUME NEW c, NEW s, NEW o, Base(c, s, o), c.ws = client.ws,
         NEW x \in {"polling", "websocket"}, NEW p \in {Packet("pong"), Packet("probe")}
  PROVE  /\ Base(c, OnPing(s, x, p), o)
         /\ x = "websocket" /\ client.ws = "open" => OnPing(s, x, p).down # <<>>
         /\ OnPing(s, x, p).session = s.session /\ OnPing(s, x, p).got = s.got
<1> DEFINE n == Packet("noop")
           a == SendOn(s, x, p)
           b == SendOn(a, s.active, n)
           t == OnPing(s, x, p)
<1>1. /\ s \in ServerType /\ s.queue \in Seq(Plain) /\ s.down \in Seq(Plain)
      /\ s.active \in {"polling", "websocket"} /\ Ascending(s.queue) /\ Ascending(s.down)
      /\ c.probe = "pinged" => s.active = "polling"
  BY SequenceTypes DEF Base, Shape, ServerType, DownOrder, ClientShape
<1>2. p \in Plain /\ ~IsMessage(p) /\ n \in Plain /\ ~IsMessage(n) /\ n.type = "noop"
  BY Control
<1>3. /\ a \in ServerType
      /\ a.session = s.session /\ a.active = s.active /\ a.done = s.done
      /\ a.emitter = s.emitter /\ a.emitted = s.emitted /\ a.got = s.got
      /\ a.sessions = s.sessions
      /\ a.queue = IF x = "polling" THEN Append(s.queue, p) ELSE s.queue
      /\ a.down = IF x = "websocket" /\ client.ws = "open" THEN Append(s.down, p) ELSE s.down
  BY <1>1, <1>2, SendOnFields
<1>4. t = IF x = s.active THEN a ELSE b
  BY DEF OnPing
<1> HIDE DEF n, a, t
<1>5. /\ a.queue \in Seq(Plain) /\ Msgs(a.queue) = Msgs(s.queue) /\ Ascending(a.queue)
      /\ Noop(s.queue) => Noop(a.queue)
      /\ a.down \in Seq(Plain) /\ Msgs(a.down) = Msgs(s.down) /\ Ascending(a.down)
      /\ s.down # <<>> => a.down # <<>>
      /\ x = "websocket" /\ client.ws = "open" => a.down # <<>>
  <2>1. CASE x = "polling"
    <3>1. a.queue = Append(s.queue, p) /\ a.down = s.down
      BY <1>3, <2>1
    <3> QED
      BY <1>1, <1>2, <2>1, <3>1, AppendPlain
  <2>2. CASE x = "websocket" /\ client.ws = "open"
    <3>1. a.queue = s.queue /\ a.down = Append(s.down, p)
      BY <1>3, <2>2
    <3> QED
      BY <1>1, <1>2, <2>2, <3>1, AppendPlain
  <2>3. CASE x = "websocket" /\ client.ws # "open"
    <3>1. a.queue = s.queue /\ a.down = s.down
      BY <1>3, <2>3
    <3> QED
      BY <1>1, <2>3, <3>1
  <2> QED
    BY <2>1, <2>2, <2>3
<1>6. CASE x = s.active
  <2>1. t = a
    BY <1>4, <1>6
  <2>2. c.ws # "open" => a.down = s.down
    BY <1>3
  <2>3. c.probe = "pinged" => a.down = s.down
    BY <1>1, <1>3, <1>6
  <2>4. Base(c, a, o)
    BY <1>3, <1>5, <2>2, <2>3, BaseReply
  <2> QED
    BY <1>3, <1>5, <2>1, <2>4 DEF t
<1>7. CASE x # s.active
  <2>1. t = b
    BY <1>4, <1>7
  <2>2. /\ b \in ServerType
        /\ b.session = a.session /\ b.active = a.active /\ b.done = a.done
        /\ b.emitter = a.emitter /\ b.emitted = a.emitted /\ b.got = a.got
        /\ b.sessions = a.sessions
        /\ b.queue = IF s.active = "polling" THEN Append(a.queue, n) ELSE a.queue
        /\ b.down = IF s.active = "websocket" /\ client.ws = "open" THEN Append(a.down, n) ELSE a.down
    BY <1>1, <1>2, <1>3, <1>5, SendOnFields
  <2> HIDE DEF b
  <2>3. /\ b.queue \in Seq(Plain) /\ Msgs(b.queue) = Msgs(a.queue) /\ Ascending(b.queue)
        /\ Noop(a.queue) \/ s.active = "polling" => Noop(b.queue)
        /\ b.down \in Seq(Plain) /\ Msgs(b.down) = Msgs(a.down) /\ Ascending(b.down)
        /\ a.down # <<>> => b.down # <<>>
    <3>1. CASE s.active = "polling"
      <4>1. b.queue = Append(a.queue, n) /\ b.down = a.down
        BY <2>2, <3>1
      <4> QED
        BY <1>2, <1>5, <3>1, <4>1, AppendPlain
    <3>2. CASE s.active = "websocket" /\ client.ws = "open"
      <4>1. b.queue = a.queue /\ b.down = Append(a.down, n)
        BY <2>2, <3>2
      <4> QED
        BY <1>2, <1>5, <3>2, <4>1, AppendPlain
    <3>3. CASE s.active = "websocket" /\ client.ws # "open"
      <4>1. b.queue = a.queue /\ b.down = a.down
        BY <2>2, <3>3
      <4> QED
        BY <1>5, <3>3, <4>1
    <3> QED
      BY <1>1, <3>1, <3>2, <3>3
  <2>4. c.ws # "open" => b.down = s.down
    BY <1>3, <2>2
  <2>5. c.probe = "pinged" => Noop(b.queue)
    BY <1>1, <2>3
  <2>6. Base(c, b, o)
    <3>1. /\ b.session = s.session /\ b.active = s.active /\ b.done = s.done
          /\ b.emitter = s.emitter /\ b.emitted = s.emitted /\ b.got = s.got
          /\ b.sessions = s.sessions /\ Msgs(b.queue) = Msgs(s.queue)
          /\ Msgs(b.down) = Msgs(s.down) /\ (Noop(s.queue) => Noop(b.queue))
          /\ (s.down # <<>> => b.down # <<>>)
      BY <1>3, <1>5, <2>2, <2>3
    <3> QED
      BY <2>2, <2>3, <2>4, <2>5, <3>1, BaseReply
  <2> QED
    BY <1>3, <1>5, <2>1, <2>2, <2>3, <2>6 DEF t
<1> QED
  BY <1>6, <1>7

(* What an arriving packet changes: what was sent is under way no more, and *)
(* a message counts as got.                                                 *)
Taken(c, d) ==
  /\ CType(d) /\ ClientShape(d)
  /\ d.readyState = c.readyState /\ d.transport = c.transport /\ d.upgrading = c.upgrading
  /\ d.writeBuffer = c.writeBuffer /\ d.prevBufferLen = c.prevBufferLen
  /\ d.polling = c.polling /\ d.get = c.get /\ d.probe = c.probe
  /\ d.ws = c.ws /\ d.writable = c.writable /\ d.accepted = c.accepted /\ d.heard = c.heard
  /\ Ascending(d.post.packets) /\ Ascending(d.out)
  /\ c.post = NoRequest => d.post = NoRequest
  /\ c.out = <<>> => d.out = <<>>
  /\ \A i \in DOMAIN d.out : d.out[i] \in Packets
  /\ Sending(d) => Sending(c)
  /\ d.post.state = c.post.state \/ d.post # NoRequest

(* No message among it.                                                     *)
LEMMA BaseTakenControl ==
  ASSUME NEW c, NEW d, NEW s, NEW o, Base(c, s, o), Taken(c, d),
         Msgs(d.post.packets) = Msgs(c.post.packets), Msgs(d.out) = Msgs(c.out),
         d.probe = "pinged" /\ d.ws = "open" => d.out # <<>> \/ s.down # <<>>
  PROVE  Base(d, s, o)
<1>1. /\ CType(c) /\ ClientShape(c) /\ Shape(c, s) /\ UpOrder(c, s) /\ UpGap(c, s)
      /\ DownOrder(c, s) /\ DownGap(c, s) /\ Waking(c, s, o) /\ s \in ServerType /\ o \in BOOLEAN
  BY DEF Base
<1>2. /\ CType(d) /\ ClientShape(d)
      /\ d.readyState = c.readyState /\ d.transport = c.transport /\ d.upgrading = c.upgrading
      /\ d.writeBuffer = c.writeBuffer /\ d.prevBufferLen = c.prevBufferLen
      /\ d.polling = c.polling /\ d.get = c.get /\ d.probe = c.probe
      /\ d.ws = c.ws /\ d.writable = c.writable /\ d.accepted = c.accepted /\ d.heard = c.heard
      /\ Ascending(d.post.packets) /\ Ascending(d.out)
      /\ c.post = NoRequest => d.post = NoRequest
      /\ c.out = <<>> => d.out = <<>>
      /\ Sending(d) => Sending(c)
  BY DEF Taken
<1>3. Shape(d, s)
  BY <1>1, <1>2 DEF Shape, Probing
<1>4. UpOrder(d, s)
  BY <1>1, <1>2 DEF UpOrder, Rest
<1>5. UpGap(d, s)
  BY <1>1, <1>2 DEF UpGap, Rest
<1>6. DownOrder(d, s) /\ DownGap(d, s)
  BY <1>1, <1>2 DEF DownOrder, DownGap, Receiving
<1>7. Waking(d, s, o)
  BY <1>1, <1>2 DEF Waking, Woken
<1> QED
  BY <1>1, <1>2, <1>3, <1>4, <1>5, <1>6, <1>7 DEF Base

(* A message that a connected session takes.                                *)
LEMMA BaseTakenMessage ==
  ASSUME NEW c, NEW d, NEW s, NEW t, NEW o, Base(c, s, o), Taken(c, d), NEW n \in Nat,
         \/ /\ Msgs(c.out) = {} /\ Msgs(d.out) = {}
            /\ Msgs(c.post.packets) = {n} /\ Msgs(d.post.packets) = {}
         \/ /\ Msgs(c.post.packets) = {} /\ Msgs(d.post.packets) = {}
            /\ Msgs(c.out) = {n} \cup Msgs(d.out) /\ Below({n}, Msgs(d.out)),
         d.probe = "pinged" /\ d.ws = "open" => d.out # <<>> \/ s.down # <<>>,
         s.session = "connected",
         t = [s EXCEPT !.got = Append(@, n)]
  PROVE  Base(d, t, o)
<1>1. /\ CType(c) /\ ClientShape(c) /\ Shape(c, s) /\ UpOrder(c, s) /\ UpGap(c, s)
      /\ DownOrder(c, s) /\ DownGap(c, s) /\ Waking(c, s, o) /\ s \in ServerType /\ o \in BOOLEAN
  BY DEF Base
<1>2. /\ CType(d) /\ ClientShape(d)
      /\ d.readyState = c.readyState /\ d.transport = c.transport /\ d.upgrading = c.upgrading
      /\ d.writeBuffer = c.writeBuffer /\ d.prevBufferLen = c.prevBufferLen
      /\ d.polling = c.polling /\ d.get = c.get /\ d.probe = c.probe
      /\ d.ws = c.ws /\ d.writable = c.writable /\ d.accepted = c.accepted /\ d.heard = c.heard
      /\ Ascending(d.post.packets) /\ Ascending(d.out)
      /\ c.post = NoRequest => d.post = NoRequest
      /\ c.out = <<>> => d.out = <<>>
      /\ Sending(d) => Sending(c)
  BY DEF Taken
<1> DEFINE g == Append(s.got, n)
<1>3. /\ s.got \in Seq(Nat) /\ g \in Seq(Nat) /\ Len(g) = Len(s.got) + 1 /\ Len(s.got) \in Nat
      /\ DOMAIN s.got = 1 .. Len(s.got) /\ DOMAIN g = 1 .. Len(s.got) + 1
      /\ \A i \in 1 .. Len(s.got) : g[i] = s.got[i]
      /\ g[Len(s.got) + 1] = n
  BY <1>1, AppendProperties, LenProperties DEF ServerType
<1>4. /\ n \in Msgs(c.post.packets) \cup Msgs(c.out)
      /\ Below(Range(s.got), {n}) /\ n \in 1 .. c.accepted
      /\ Below({n}, Msgs(d.post.packets) \cup Msgs(d.out) \cup Msgs(Rest(d)))
      /\ Msgs(d.post.packets) \cup Msgs(d.out) \subseteq Msgs(c.post.packets) \cup Msgs(c.out)
      /\ Msgs(d.post.packets) \subseteq Msgs(c.post.packets)
      /\ Msgs(d.out) \subseteq Msgs(c.out) /\ Rest(d) = Rest(c)
  BY <1>1, <1>2 DEF UpOrder, Below, Rest
<1>5. Range(g) = Range(s.got) \cup {n} /\ Strict(g)
  BY <1>1, <1>3, <1>4, StrictAppend DEF UpOrder
<1> HIDE DEF g
<1>6. t \in ServerType /\ t.got = g
  <2>1. t = [s EXCEPT !.got = g]
    BY DEF g
  <2> QED
    BY <1>1, <1>3, <2>1 DEF ServerType
<1>7. /\ t.session = s.session /\ t.active = s.active /\ t.queue = s.queue
      /\ t.done = s.done /\ t.emitter = s.emitter /\ t.emitted = s.emitted
      /\ t.down = s.down /\ t.sessions = s.sessions
  BY <1>1 DEF ServerType
<1>8. Shape(d, t)
  BY <1>1, <1>2, <1>7 DEF Shape, Probing
<1>9. UpOrder(d, t)
  BY <1>1, <1>2, <1>4, <1>5, <1>6 DEF UpOrder, Below
<1>10. UpGap(d, t)
  <2> SUFFICES ASSUME s.sessions <= 1, ~s.done
               PROVE  /\ g = [i \in 1 .. Len(g) |-> i]
                      /\ \A k \in Msgs(d.post.packets) :
                           Len(g) + 1 .. k - 1 \subseteq Msgs(d.post.packets)
                      /\ \A k \in Msgs(d.out) : Len(g) + 1 .. k - 1 \subseteq Msgs(d.out)
                      /\ Sending(d) => Len(g) + 1 .. d.accepted
                           \subseteq Msgs(d.post.packets) \cup Msgs(d.out) \cup Msgs(Rest(d))
    BY <1>6, <1>7 DEF UpGap
  <2>1. /\ s.got = [i \in 1 .. Len(s.got) |-> i]
        /\ \A k \in Msgs(c.post.packets) : Len(s.got) + 1 .. k - 1 \subseteq Msgs(c.post.packets)
        /\ \A k \in Msgs(c.out) : Len(s.got) + 1 .. k - 1 \subseteq Msgs(c.out)
        /\ Sending(c) => Len(s.got) + 1 .. c.accepted
             \subseteq Msgs(c.post.packets) \cup Msgs(c.out) \cup Msgs(Rest(c))
    BY <1>1 DEF UpGap
  <2>2. n = Len(s.got) + 1
    <3>1. Len(s.got) + 1 <= n
      <4>1. CASE Len(s.got) = 0
        BY <1>4, <4>1
      <4>2. CASE Len(s.got) # 0
        <5>1. Len(s.got) \in 1 .. Len(s.got)
          BY <1>3, <4>2
        <5>2. s.got[Len(s.got)] = Len(s.got)
          BY <2>1, <5>1
        <5>3. Len(s.got) \in Range(s.got)
          BY <1>3, <5>1, <5>2 DEF Range
        <5> QED
          BY <1>3, <1>4, <5>3 DEF Below
      <4> QED
        BY <4>1, <4>2
    <3>2. ASSUME Len(s.got) + 1 < n PROVE FALSE
      <4>1. Len(s.got) + 1 \in Len(s.got) + 1 .. n - 1
        BY <1>3, <3>2
      <4>2. Len(s.got) + 1 \in {n} \cup Msgs(d.out)
        BY <2>1, <4>1
      <4> QED
        BY <1>3, <3>2, <4>2 DEF Below
    <3> QED
      BY <1>3, <3>1, <3>2
  <2>3. g = [i \in 1 .. Len(g) |-> i]
    <3>1. \A i \in 1 .. Len(g) : g[i] = i
      <4> TAKE i \in 1 .. Len(g)
      <4>1. CASE i \in 1 .. Len(s.got)
        <5>1. s.got[i] = i
          BY <2>1, <4>1
        <5> QED
          BY <1>3, <4>1, <5>1
      <4>2. CASE i \notin 1 .. Len(s.got)
        <5>1. i = Len(s.got) + 1
          BY <1>3, <4>2
        <5> QED
          BY <1>3, <2>2, <5>1
      <4> QED
        BY <4>1, <4>2
    <3>2. g = [i \in 1 .. Len(g) |-> g[i]]
      BY <1>3
    <3> QED
      BY <3>1, <3>2
  <2>4. \A k : Len(g) + 1 .. k - 1 \subseteq (Len(s.got) + 1 .. k - 1) \ {n}
    <3>1. \A k : \A x \in Len(g) + 1 .. k - 1 : x \in Int /\ Len(g) + 1 <= x /\ x <= k - 1
      OBVIOUS
    <3> QED
      BY <1>3, <2>2, <3>1
  <2>5. /\ \A k \in Msgs(d.post.packets) :
             Len(g) + 1 .. k - 1 \subseteq Msgs(d.post.packets)
        /\ \A k \in Msgs(d.out) : Len(g) + 1 .. k - 1 \subseteq Msgs(d.out)
    BY <1>4, <2>1, <2>4
  <2>6. ASSUME Sending(d) PROVE Len(g) + 1 .. d.accepted
                           \subseteq Msgs(d.post.packets) \cup Msgs(d.out) \cup Msgs(Rest(d))
    <3>1. Len(g) + 1 .. d.accepted \subseteq (Len(s.got) + 1 .. c.accepted) \ {n}
      <4>1. c.accepted \in Nat /\ d.accepted = c.accepted
        BY <1>1, <1>2, SequenceTypes
      <4> QED
        BY <1>3, <2>2, <4>1
    <3> QED
      BY <1>2, <1>4, <2>1, <2>6, <3>1
  <2> QED
    BY <2>3, <2>5, <2>6
<1>11. DownOrder(d, t) /\ DownGap(d, t)
  BY <1>1, <1>2, <1>7 DEF DownOrder, DownGap, Receiving
<1>12. Waking(d, t, o)
  BY <1>1, <1>2, <1>7 DEF Waking, Woken
<1> QED
  BY <1>1, <1>2, <1>6, <1>8, <1>9, <1>10, <1>11, <1>12 DEF Base

LEMMA TakenOut ==
  ASSUME NEW c, NEW d, NEW s, NEW o, Base(c, s, o), c.out # <<>>, d = [c EXCEPT !.out = Tail(@)]
  PROVE  /\ Taken(c, d) /\ d.post = c.post /\ Head(c.out) \in Packets
         /\ Msgs(c.out) = (IF IsMessage(Head(c.out)) THEN {Head(c.out).n} ELSE {}) \cup Msgs(d.out)
         /\ IsMessage(Head(c.out)) => Below({Head(c.out).n}, Msgs(d.out))
<1> DEFINE w == Tail(c.out)
<1>1. /\ c \in ClientType /\ CType(c) /\ ClientShape(c) /\ c.out \in Seq(Packets)
      /\ Ascending(c.out) /\ Ascending(c.post.packets)
  BY SequenceTypes DEF Base, CType, UpOrder
<1>2. /\ w \in Seq(Packets) /\ Head(c.out) \in Packets
      /\ Msgs(c.out) = (IF IsMessage(Head(c.out)) THEN {Head(c.out).n} ELSE {}) \cup Msgs(w)
      /\ Ascending(w) /\ (IsMessage(Head(c.out)) => Below({Head(c.out).n}, Msgs(w)))
  BY <1>1, MsgsTail, HeadTailProperties
<1>3. \A i \in DOMAIN w : w[i] \in Packets /\ \E j \in DOMAIN c.out : w[i] = c.out[j]
  <2>1. /\ \A i \in 1 .. Len(w) : w[i] = c.out[i + 1] /\ Len(w) = Len(c.out) - 1
        /\ DOMAIN w = 1 .. Len(w) /\ DOMAIN c.out = 1 .. Len(c.out) /\ Len(c.out) \in Nat
    BY <1>1, <1>2, HeadTailProperties, LenProperties
  <2> HIDE DEF w
  <2>2. ASSUME NEW i \in DOMAIN w PROVE i + 1 \in DOMAIN c.out /\ w[i] = c.out[i + 1]
    BY <2>1
  <2> QED
    BY <1>2, <2>2, ElementOfSeq, <2>1
<1>4. d = [c EXCEPT !.out = w]
  OBVIOUS
<1> HIDE DEF w
<1>5. d \in ClientType /\ d.out = w
  BY <1>1, <1>2, <1>4 DEF ClientType
<1>6. /\ d.readyState = c.readyState /\ d.transport = c.transport /\ d.upgrading = c.upgrading
      /\ d.writeBuffer = c.writeBuffer /\ d.prevBufferLen = c.prevBufferLen
      /\ d.polling = c.polling /\ d.get = c.get /\ d.probe = c.probe /\ d.post = c.post
      /\ d.ws = c.ws /\ d.writable = c.writable /\ d.accepted = c.accepted /\ d.heard = c.heard
  BY <1>1, <1>4 DEF ClientType
<1>7. CType(d)
  BY <1>1, <1>5, <1>6 DEF CType
<1>8. ClientShape(d)
  <2>1. c.transport = "polling" => \A i \in DOMAIN w : w[i] = Packet("probe")
    BY <1>1, <1>3 DEF ClientShape
  <2> QED
    BY <1>1, <1>5, <1>6, <2>1 DEF ClientShape, Probing, Writable
<1> QED
  BY <1>1, <1>2, <1>3, <1>5, <1>6, <1>7, <1>8 DEF Taken, Sending

LEMMA OnEventFields ==
  ASSUME NEW s, NEW n
  PROVE  IF s.session = "connected" THEN OnEvent(s, n) = [s EXCEPT !.got = Append(@, n)]
                                    ELSE OnEvent(s, n) = s
BY DEF OnEvent

(* What is lost only makes a gap.                                           *)
LEMMA BaseDropped ==
  ASSUME NEW c, NEW d, NEW s, NEW o, Base(c, s, o), Taken(c, d),
         Msgs(d.post.packets) \subseteq Msgs(c.post.packets),
         Msgs(d.out) \subseteq Msgs(c.out),
         \/ s.done \/ s.session \notin {"none", "opening", "connected"} \/ s.sessions > 1
         \/ Msgs(d.post.packets) = {} /\ Msgs(d.out) = Msgs(c.out) /\ ~Sending(d),
         d.probe = "pinged" /\ d.ws = "open" => d.out # <<>> \/ s.down # <<>>
  PROVE  Base(d, s, o)
<1>1. /\ CType(c) /\ ClientShape(c) /\ Shape(c, s) /\ UpOrder(c, s) /\ UpGap(c, s)
      /\ DownOrder(c, s) /\ DownGap(c, s) /\ Waking(c, s, o) /\ s \in ServerType /\ o \in BOOLEAN
  BY DEF Base
<1>2. /\ CType(d) /\ ClientShape(d)
      /\ d.readyState = c.readyState /\ d.transport = c.transport /\ d.upgrading = c.upgrading
      /\ d.writeBuffer = c.writeBuffer /\ d.prevBufferLen = c.prevBufferLen
      /\ d.polling = c.polling /\ d.get = c.get /\ d.probe = c.probe
      /\ d.ws = c.ws /\ d.writable = c.writable /\ d.accepted = c.accepted /\ d.heard = c.heard
      /\ Ascending(d.post.packets) /\ Ascending(d.out)
      /\ c.post = NoRequest => d.post = NoRequest
      /\ c.out = <<>> => d.out = <<>>
  BY DEF Taken
<1>3. Shape(d, s)
  BY <1>1, <1>2 DEF Shape, Probing
<1>4. UpOrder(d, s)
  <2>1. Rest(d) = Rest(c)
    BY <1>2 DEF Rest
  <2> QED
    BY <1>1, <1>2, <2>1 DEF UpOrder, Below
<1>5. UpGap(d, s)
  <2>1. s.sessions > 1 => ~(s.sessions <= 1)
    <3>1. s.sessions \in Nat
      BY <1>1, UpgradeAssumption DEF ServerType
    <3> QED
      BY <3>1
  <2> QED
    BY <1>1, <1>2, <2>1 DEF UpGap
<1>6. DownOrder(d, s) /\ DownGap(d, s)
  BY <1>1, <1>2 DEF DownOrder, DownGap, Receiving
<1>7. Waking(d, s, o)
  BY <1>1, <1>2 DEF Waking, Woken
<1> QED
  BY <1>1, <1>2, <1>3, <1>4, <1>5, <1>6, <1>7 DEF Base

(* The server takes the UPGRADE.                                            *)
LEMMA BaseActive ==
  ASSUME NEW c, NEW s, NEW t, NEW o, Base(c, s, o), c.transport = "websocket",
         t = [s EXCEPT !.active = "websocket"]
  PROVE  Base(c, t, o)
<1>1. /\ CType(c) /\ ClientShape(c) /\ Shape(c, s) /\ UpOrder(c, s) /\ UpGap(c, s)
      /\ DownOrder(c, s) /\ DownGap(c, s) /\ Waking(c, s, o) /\ s \in ServerType /\ o \in BOOLEAN
  BY DEF Base
<1>2. /\ t \in ServerType
      /\ t.session = s.session /\ t.queue = s.queue /\ t.got = s.got
      /\ t.done = s.done /\ t.emitter = s.emitter /\ t.emitted = s.emitted
      /\ t.down = s.down /\ t.sessions = s.sessions
  BY <1>1 DEF ServerType
<1>3. Shape(c, t)
  BY <1>1, <1>2 DEF Shape
<1>4. UpOrder(c, t) /\ UpGap(c, t) /\ DownOrder(c, t) /\ DownGap(c, t) /\ Waking(c, t, o)
  BY <1>1, <1>2 DEF UpOrder, UpGap, DownOrder, DownGap, Waking, Woken
<1> QED
  BY <1>1, <1>2, <1>3, <1>4 DEF Base

LEMMA FlushedTaken ==
  ASSUME NEW c, NEW d, Taken(c, d), Flushed(c), Resumed(c),
         Writable(d) => Writable(c), c.post # NoRequest => d.post # NoRequest
  PROVE  Flushed(d) /\ Resumed(d)
BY DEF Taken, Flushed, Resumed

(* A frame of the client arrives.                                           *)
LEMMA StepFrameArrives ==
  ASSUME IInv, FrameArrives
  PROVE  IInv'
<1> DEFINE c == client
           s == server
           o == overtaken
           d == [c EXCEPT !.out = Tail(@)]
           p == Head(c.out)
           t == OnServerPacket(s, "websocket", p)
<1>1. /\ Base(c, s, o) /\ Flushed(c) /\ Resumed(c)
      /\ CType(c) /\ ClientShape(c) /\ Shape(c, s) /\ Waking(c, s, o) /\ s \in ServerType
      /\ c.out # <<>> /\ s.session # "closed"
      /\ client' = d /\ server' = t /\ overtaken' = o
  BY DEF IInv, Base, FrameArrives
<1>2. /\ Taken(c, d) /\ d.post = c.post /\ p \in Packets
      /\ Msgs(c.out) = (IF IsMessage(p) THEN {p.n} ELSE {}) \cup Msgs(d.out)
      /\ IsMessage(p) => Below({p.n}, Msgs(d.out))
  BY <1>1, TakenOut
<1>3. t = CASE p.type = "message" -> OnEvent(s, p.n)
            [] p.type = "ping"    -> OnPing(s, "websocket", Packet("pong"))
            [] p.type = "probe"   -> OnPing(s, "websocket", Packet("probe"))
            [] p.type = "upgrade" -> [s EXCEPT !.active = "websocket"]
            [] OTHER              -> s
  BY DEF OnServerPacket
<1>4. c.ws = client.ws
  OBVIOUS
<1> HIDE DEF c, s, o, d, p, t
<1>5. d.probe = c.probe /\ d.ws = c.ws /\ (Writable(d) <=> Writable(c)) /\ (Sending(d) => Sending(c))
      /\ d.transport = c.transport
  BY <1>2 DEF Taken, Writable
<1>6. Flushed(d) /\ Resumed(d)
  BY <1>1, <1>2, <1>5, FlushedTaken
<1>7. c.transport = "polling" => p.type = "probe"
  <2>1. 1 \in DOMAIN c.out /\ p = c.out[1]
    <3>1. c.out \in Seq(Packets) /\ Len(c.out) \in Nat /\ DOMAIN c.out = 1 .. Len(c.out)
          /\ Len(c.out) # 0
      BY <1>1, SequenceTypes, LenProperties, EmptySeq
    <3> QED
      BY <1>1, <3>1 DEF p
  <2> QED
    BY <1>1, <2>1 DEF ClientShape, Packet
<1>8. c.probe = "pinged" => c.transport = "polling"
  BY <1>1, SequenceTypes DEF ClientShape
<1>9. CASE p.type = "message"
  <2>1. IsMessage(p) /\ p.n \in Nat /\ c.transport = "websocket" /\ c.probe # "pinged"
    BY <1>1, <1>2, <1>7, <1>8, <1>9, PacketFields, SequenceTypes DEF IsMessage
  <2>2. Msgs(c.post.packets) = {} /\ Msgs(d.post.packets) = {}
    BY <1>1, <1>2, <2>1, RequestFields, MsgsEmpty DEF ClientShape
  <2>3. CASE s.session = "connected"
    <3>1. t = [s EXCEPT !.got = Append(@, p.n)]
      BY <1>3, <1>9, <2>3, OnEventFields
    <3>2. Base(d, t, o)
      BY <1>1, <1>2, <1>5, <2>1, <2>2, <2>3, <3>1, BaseTakenMessage
    <3> QED
      BY <1>1, <1>6, <3>2 DEF IInv
  <2>4. CASE s.session # "connected"
    <3>1. t = s
      BY <1>3, <1>9, <2>4, OnEventFields
    <3>2. s.session \notin {"none", "opening"}
      BY <1>1, <2>1 DEF Shape, ClientShape
    <3>3. s.session \notin {"none", "opening", "connected"} /\ d.probe # "pinged"
          /\ Msgs(d.post.packets) \subseteq Msgs(c.post.packets) /\ Msgs(d.out) \subseteq Msgs(c.out)
      BY <1>2, <1>5, <2>1, <2>2, <2>4, <3>2
    <3>4. Base(d, s, o)
      BY <1>1, <1>2, <3>3, BaseDropped
    <3> QED
      BY <1>1, <1>6, <3>1, <3>4 DEF IInv
  <2> QED
    BY <2>3, <2>4
<1>10. CASE p.type # "message"
  <2>1. Msgs(d.post.packets) = Msgs(c.post.packets) /\ Msgs(d.out) = Msgs(c.out)
    BY <1>2, <1>10 DEF IsMessage
  <2>2. Base(c, t, o) /\ (d.probe = "pinged" /\ d.ws = "open" => t.down # <<>>)
    <3>1. CASE p.type \in {"ping", "probe"}
      <4>1. PICK x \in {Packet("pong"), Packet("probe")} : t = OnPing(s, "websocket", x)
        BY <1>3, <3>1
      <4> QED
        BY <1>1, <1>4, <1>5, <4>1, BasePing
    <3>2. CASE p.type \notin {"ping", "probe"}
      <4>1. c.transport = "websocket" /\ c.probe # "pinged"
        BY <1>1, <1>7, <1>8, <3>2, SequenceTypes
      <4>2. t = [s EXCEPT !.active = "websocket"] \/ t = s
        BY <1>3, <1>10, <3>2
      <4> QED
        BY <1>1, <1>5, <4>1, <4>2, BaseActive
    <3> QED
      BY <3>1, <3>2
  <2>3. Base(d, t, o)
    BY <1>2, <2>1, <2>2, BaseTakenControl
  <2> QED
    BY <1>1, <1>6, <2>3 DEF IInv
<1> QED
  BY <1>9, <1>10

LEMMA TakenPost ==
  ASSUME NEW c, NEW d, NEW s, NEW o, NEW r \in {Response(<<>>), FailedRequest},
         Base(c, s, o), c.post.state \in {"sent", "done"}, d = [c EXCEPT !.post = r]
  PROVE  /\ Taken(c, d) /\ d.post = r /\ d.out = c.out /\ Msgs(d.post.packets) = {}
         /\ d.post # NoRequest /\ (Writable(d) <=> Writable(c))
         /\ c.transport = "polling" /\ Msgs(c.out) = {} /\ c.probe # "done"
         /\ (r = FailedRequest => ~Sending(d))
<1>1. /\ c \in ClientType /\ CType(c) /\ ClientShape(c) /\ c.out \in Seq(Packets)
      /\ Ascending(c.out)
  BY SequenceTypes DEF Base, CType, UpOrder
<1>2. /\ r \in Requests /\ r.packets = <<>> /\ r.state \in {"done", "failed"} /\ r # NoRequest
      /\ c.post # NoRequest /\ (r = FailedRequest => r.state = "failed")
  BY RequestTypes, RequestFields, EmptySeq
<1>3. d \in ClientType /\ d.post = r
  BY <1>1, <1>2 DEF ClientType
<1>4. /\ d.readyState = c.readyState /\ d.transport = c.transport /\ d.upgrading = c.upgrading
      /\ d.writeBuffer = c.writeBuffer /\ d.prevBufferLen = c.prevBufferLen
      /\ d.polling = c.polling /\ d.get = c.get /\ d.probe = c.probe /\ d.out = c.out
      /\ d.ws = c.ws /\ d.writable = c.writable /\ d.accepted = c.accepted /\ d.heard = c.heard
  BY <1>1 DEF ClientType
<1>5. c.transport = "polling" /\ c.probe # "done"
  BY <1>1, <1>2, SequenceTypes DEF ClientShape
<1>6. Msgs(c.out) = {}
  BY <1>1, <1>5, NoMessages DEF ClientShape
<1>7. CType(d)
  BY <1>1, <1>3, <1>4 DEF CType
<1>8. Writable(d) <=> Writable(c)
  BY <1>2, <1>3, <1>4, <1>5 DEF Writable
<1>9. ClientShape(d)
  BY <1>1, <1>2, <1>3, <1>4, <1>5, <1>8 DEF ClientShape, Probing
<1>10. Sending(d) => Sending(c) /\ r.state # "failed"
  BY <1>2, <1>3, <1>4, <1>5 DEF Sending
<1>11. \A i \in DOMAIN d.out : d.out[i] \in Packets
  BY <1>1, <1>4, ElementOfSeq, LenProperties
<1>12. Ascending(d.post.packets) /\ Msgs(d.post.packets) = {}
  BY <1>2, <1>3, MsgsEmpty
<1> HIDE DEF Taken
<1>13. Taken(c, d)
  BY <1>1, <1>2, <1>3, <1>4, <1>7, <1>9, <1>10, <1>11, <1>12 DEF Taken
<1> QED
  BY <1>2, <1>3, <1>4, <1>5, <1>6, <1>8, <1>10, <1>12, <1>13

LEMMA PostFails ==
  ASSUME NEW d, NEW r \in {Response(<<>>), FailedRequest}, IInv,
         client.post.state \in {"sent", "done"}, d = [client EXCEPT !.post = r],
         \/ r = FailedRequest
         \/ server.done \/ server.session \notin {"none", "opening", "connected"}
         \/ server.sessions > 1,
         client' = d, server' = server, overtaken' = overtaken
  PROVE  IInv'
<1> DEFINE c == client
           s == server
           o == overtaken
<1>1. Base(c, s, o) /\ Flushed(c) /\ Resumed(c) /\ Waking(c, s, o)
  BY DEF IInv, Base
<1>2. /\ Taken(c, d) /\ d.out = c.out /\ Msgs(d.post.packets) = {}
      /\ d.post # NoRequest /\ (Writable(d) <=> Writable(c))
      /\ (r = FailedRequest => ~Sending(d))
  BY <1>1, TakenPost
<1>3. d.probe = c.probe /\ d.ws = c.ws /\ d.readyState = c.readyState
  BY <1>2 DEF Taken
<1> HIDE DEF c, s, o
<1>4. d.probe = "pinged" /\ d.ws = "open" => d.out # <<>> \/ s.down # <<>>
  <2>1. c.readyState = "closed" => c.probe # "pinged"
    BY <1>1 DEF Base, ClientShape, Probing
  <2> QED
    BY <1>1, <1>2, <1>3, <2>1 DEF Waking
<1>5. Base(d, s, o)
  BY <1>1, <1>2, <1>4, BaseDropped DEF s
<1>6. Flushed(d) /\ Resumed(d)
  BY <1>1, <1>2, FlushedTaken
<1> QED
  BY <1>5, <1>6 DEF IInv, s, o

(* A POST arrives.                                                          *)
LEMMA StepPostArrives ==
  ASSUME IInv, PostArrives
  PROVE  IInv'
<1> DEFINE c == client
           s == server
           o == overtaken
           ps == c.post.packets
           p == Head(ps)
           polled == s.session = "connected" /\ ~s.done
           ok == /\ s.session # "closing"
                 /\ s.session = "opening" => s.sessions > 1
                 /\ Len(ps) = 1 \/ (s.session = "connected" /\ s.done)
           r == IF ok THEN Response(<<>>) ELSE FailedRequest
           d == [c EXCEPT !.post = r]
           t == OnServerPacket(s, "polling", p)
<1>1. /\ Base(c, s, o) /\ Flushed(c) /\ Resumed(c) /\ Shape(c, s) /\ CType(c)
      /\ s \in ServerType /\ Waking(c, s, o) /\ c.post.state = "sent" /\ ClientShape(c)
  BY DEF IInv, Base, PostArrives
<1>2. /\ client' = d /\ server' = (IF ok /\ polled THEN t ELSE s) /\ overtaken' = o
  BY DEF PostArrives
<1>3. r \in {Response(<<>>), FailedRequest} /\ s.session # "none"
  <2>1. c.post # NoRequest
    BY <1>1, RequestFields
  <2> QED
    BY <1>1, <2>1 DEF Shape
<1>4. CASE ~(ok /\ polled)
  <2>1. \/ r = FailedRequest
        \/ s.done \/ s.session \notin {"none", "opening", "connected"} \/ s.sessions > 1
    BY <1>1, <1>3, <1>4 DEF ServerType
  <2>2. client' = d /\ server' = s
    BY <1>2, <1>4
  <2> HIDE DEF r, ok, polled
  <2> QED
    BY <1>1, <1>2, <1>3, <2>1, <2>2, PostFails
<1>5. CASE ok /\ polled
  <2>1. r = Response(<<>>) /\ server' = t /\ Len(ps) = 1 /\ s.session = "connected"
    BY <1>2, <1>5
  <2>2. /\ Taken(c, d) /\ d.post = r /\ d.out = c.out /\ Msgs(d.post.packets) = {}
        /\ d.post # NoRequest /\ (Writable(d) <=> Writable(c))
        /\ c.transport = "polling" /\ Msgs(c.out) = {} /\ c.probe # "done"
    <3> HIDE DEF r
    <3> QED
      BY <1>1, <1>3, TakenPost
  <2>3. t = CASE p.type = "message" -> OnEvent(s, p.n)
              [] p.type = "ping"    -> OnPing(s, "polling", Packet("pong"))
              [] p.type = "probe"   -> OnPing(s, "polling", Packet("probe"))
              [] p.type = "upgrade" -> [s EXCEPT !.active = "polling"]
              [] OTHER              -> s
    BY DEF OnServerPacket
  <2>4. c.ws = client.ws
    OBVIOUS
  <2>5. ps = <<p>> /\ p \in Packets
    <3>1. ps \in Seq(Packets)
      BY <1>1, SequenceTypes
    <3> QED
      BY <2>1, <3>1
  <2>6. /\ client' = d /\ overtaken' = o
    BY <1>2
  <2> HIDE DEF c, s, o, ps, p, r, d, t, ok, polled
  <2>7. Flushed(d) /\ Resumed(d)
    BY <1>1, <2>2, FlushedTaken
  <2>8. Msgs(c.post.packets) = IF IsMessage(p) THEN {p.n} ELSE {}
    <3>1. Msgs(<<p>>) = IF IsMessage(p) THEN {p.n} ELSE {}
      BY <2>5, MsgsOne, Zenon
    <3> QED
      BY <2>5, <3>1 DEF ps
  <2>9. d.probe = c.probe /\ d.ws = c.ws /\ d.readyState = c.readyState
    BY <2>2 DEF Taken
  <2>10. d.probe = "pinged" /\ d.ws = "open" => d.out # <<>> \/ s.down # <<>>
    <3>1. c.readyState = "closed" => c.probe # "pinged"
      BY <1>1 DEF ClientShape, Probing
    <3> QED
      BY <1>1, <2>2, <2>9, <3>1 DEF Waking
  <2>11. CASE p.type # "message"
    <3>1. /\ Base(c, t, o)
          /\ d.probe = "pinged" /\ d.ws = "open" => d.out # <<>> \/ t.down # <<>>
      <4>1. CASE p.type \in {"ping", "probe"}
        <5>1. PICK x \in {Packet("pong"), Packet("probe")} : t = OnPing(s, "polling", x)
          BY <2>3, <4>1
        <5>2. Base(c, t, o)
          BY <1>1, <2>4, <5>1, BasePing
        <5> QED
          BY <2>2, <2>9, <5>2, <1>1 DEF Base, Waking, Shape, Probing, ClientShape
      <4>2. CASE p.type \notin {"ping", "probe"}
        <5>1. s.active = "polling"
          BY <1>1, <2>2 DEF Shape
        <5>2. [s EXCEPT !.active = "polling"] = s
          BY <1>1, <5>1 DEF ServerType
        <5>3. t = s
          BY <2>3, <2>11, <4>2, <5>2
        <5> QED
          BY <1>1, <2>10, <5>3
      <4> QED
        BY <4>1, <4>2
    <3>2. Msgs(d.post.packets) = Msgs(c.post.packets) /\ Msgs(d.out) = Msgs(c.out)
      BY <2>2, <2>8, <2>11 DEF IsMessage
    <3>3. Base(d, t, o)
      BY <2>2, <3>1, <3>2, BaseTakenControl
    <3> QED
      BY <2>1, <2>6, <2>7, <3>3 DEF IInv
  <2>12. CASE p.type = "message"
    <3>1. IsMessage(p) /\ p.n \in Nat
      BY <2>5, <2>12, PacketFields DEF IsMessage
    <3>2. t = [s EXCEPT !.got = Append(@, p.n)]
      BY <2>1, <2>3, <2>12, OnEventFields
    <3>3. Msgs(c.post.packets) = {p.n} /\ Msgs(d.out) = {}
      BY <2>2, <2>8, <3>1
    <3>4. Base(d, t, o)
      BY <1>1, <2>1, <2>2, <2>10, <3>1, <3>2, <3>3, BaseTakenMessage
    <3> QED
      BY <2>1, <2>6, <2>7, <3>4 DEF IInv
  <2> QED
    BY <2>11, <2>12
<1> QED
  BY <1>4, <1>5

(* The client's GET gets on: what is read off its new state.                *)
LEMMA AnswerFields ==
  ASSUME NEW c, NEW r \in Requests, CType(c)
  PROVE  LET d == [c EXCEPT !.get = r] IN
         /\ CType(d) /\ d.get = r
         /\ d.readyState = c.readyState /\ d.transport = c.transport /\ d.upgrading = c.upgrading
         /\ d.writeBuffer = c.writeBuffer /\ d.prevBufferLen = c.prevBufferLen
         /\ d.polling = c.polling /\ d.probe = c.probe /\ d.post = c.post /\ d.out = c.out
         /\ d.ws = c.ws /\ d.writable = c.writable /\ d.accepted = c.accepted /\ d.heard = c.heard
         /\ (Writable(d) <=> Writable(c)) /\ (Flushed(c) => Flushed(d))
         /\ (r # NoRequest => (Resumed(c) => Resumed(d)))
<1> DEFINE d == [c EXCEPT !.get = r]
<1>1. c \in ClientType /\ c.prevBufferLen <= Len(c.writeBuffer)
  BY DEF CType
<1>2. d \in ClientType /\ d.get = r
  BY <1>1 DEF ClientType
<1>3. /\ d.readyState = c.readyState /\ d.transport = c.transport /\ d.upgrading = c.upgrading
      /\ d.writeBuffer = c.writeBuffer /\ d.prevBufferLen = c.prevBufferLen
      /\ d.polling = c.polling /\ d.probe = c.probe /\ d.post = c.post /\ d.out = c.out
      /\ d.ws = c.ws /\ d.writable = c.writable /\ d.accepted = c.accepted /\ d.heard = c.heard
  BY <1>1 DEF ClientType
<1> HIDE DEF d
<1>4. CType(d)
  BY <1>1, <1>2, <1>3 DEF CType
<1>5. Writable(d) <=> Writable(c)
  BY <1>3 DEF Writable
<1>6. (Flushed(c) => Flushed(d)) /\ (r # NoRequest => (Resumed(c) => Resumed(d)))
  BY <1>2, <1>3, <1>5 DEF Flushed, Resumed
<1> QED
  BY <1>2, <1>3, <1>4, <1>5, <1>6 DEF d

(* A GET that is under way comes to the server, ends with nothing, or fails. *)
LEMMA BaseGet ==
  ASSUME NEW c, NEW s, NEW o, NEW r \in Requests, Base(c, s, o), Flushed(c), Resumed(c),
         c.get.state \in {"sent", "taking", "done"}, r.packets = <<>>, r # NoRequest,
         \/ r.state = "failed"
         \/ r.state = "taking" /\ c.get.packets = <<>> /\ c.get.state = "sent" /\ s.session # "none"
         \/ r.state = "done" /\ c.get.packets = <<>> /\ c.get.state = "taking"
  PROVE  LET d == [c EXCEPT !.get = r] IN Base(d, s, o) /\ Flushed(d) /\ Resumed(d)
<1> DEFINE d == [c EXCEPT !.get = r]
<1>1. /\ CType(c) /\ ClientShape(c) /\ Shape(c, s) /\ UpOrder(c, s) /\ UpGap(c, s)
      /\ DownOrder(c, s) /\ DownGap(c, s) /\ Waking(c, s, o) /\ s \in ServerType /\ o \in BOOLEAN
  BY DEF Base
<1>2. /\ CType(d) /\ d.get = r
      /\ d.readyState = c.readyState /\ d.transport = c.transport /\ d.upgrading = c.upgrading
      /\ d.writeBuffer = c.writeBuffer /\ d.prevBufferLen = c.prevBufferLen
      /\ d.polling = c.polling /\ d.probe = c.probe /\ d.post = c.post /\ d.out = c.out
      /\ d.ws = c.ws /\ d.writable = c.writable /\ d.accepted = c.accepted /\ d.heard = c.heard
      /\ (Writable(d) <=> Writable(c)) /\ Flushed(d) /\ Resumed(d)
  BY <1>1, AnswerFields
<1> HIDE DEF d
<1>3. /\ c.get # NoRequest /\ ~IsOpen(<<>>) /\ <<>> \in Seq(Plain) /\ Msgs(<<>>) = {}
      /\ Ascending(<<>>)
  BY RequestFields, NotOpen, EmptySeq, MsgsEmpty
<1>4. c.transport = "polling" /\ c.readyState # "closed"
  BY <1>1, <1>3, SequenceTypes DEF ClientShape
<1>5. ClientShape(d)
  BY <1>1, <1>2, <1>3, <1>4 DEF ClientShape, Probing
<1>6. Shape(d, s)
  BY <1>1, <1>2, <1>3, <1>4, NotOpen DEF Shape, Probing
<1>7. UpOrder(d, s) /\ UpGap(d, s)
  BY <1>1, <1>2 DEF UpOrder, UpGap, Sending, Rest
<1>8. DownOrder(d, s)
  BY <1>1, <1>2, <1>3 DEF DownOrder, Below
<1>9. DownGap(d, s)
  BY <1>1, <1>2, <1>3 DEF DownGap, Receiving
<1>10. Waking(d, s, o)
  <2>1. c.get.packets = <<>> => ~Noop(c.get.packets)
    BY DEF Noop
  <2> QED
    BY <1>1, <1>2, <1>3, <2>1 DEF Waking, Woken
<1>11. Base(d, s, o)
  BY <1>1, <1>2, <1>5, <1>6, <1>7, <1>8, <1>9, <1>10 DEF Base
<1> QED
  BY <1>2, <1>11 DEF d

LEMMA StepGetArrives ==
  ASSUME IInv, GetArrives
  PROVE  IInv'
<1> DEFINE k == [client.get EXCEPT !.state = "taking"]
           r == IF server.session = "connected" /\ ~server.done THEN k ELSE FailedRequest
<1>1. /\ Base(client, server, overtaken) /\ Flushed(client) /\ Resumed(client)
      /\ ClientShape(client) /\ client.get \in Requests
      /\ server.session \in {"opening", "connected", "closing"} /\ client.get.state = "sent"
      /\ client' = [client EXCEPT !.get = r] /\ server' = server /\ overtaken' = overtaken
  BY DEF IInv, Base, CType, ClientType, GetArrives, Answer
<1>2. client.get.packets = <<>>
  BY <1>1 DEF ClientShape
<1>3. k \in Requests /\ k.state = "taking" /\ k.packets = <<>>
  BY <1>1, <1>2 DEF Requests
<1> HIDE DEF k
<1>4. /\ r \in Requests /\ r.packets = <<>> /\ r # NoRequest
      /\ r.state = "failed" \/ r.state = "taking"
  BY <1>3, RequestTypes, RequestFields
<1> HIDE DEF r
<1> QED
  BY <1>1, <1>2, <1>4, BaseGet DEF IInv

LEMMA StepGetAnswered ==
  ASSUME IInv, GetAnswered
  PROVE  IInv'
<1> DEFINE c == client
           s == server
           o == overtaken
<1>1. /\ Base(c, s, o) /\ Flushed(c) /\ Resumed(c) /\ c.get.state = "taking" /\ o' = o
      /\ CType(c) /\ ClientShape(c) /\ Shape(c, s) /\ UpOrder(c, s) /\ UpGap(c, s)
      /\ DownOrder(c, s) /\ DownGap(c, s) /\ Waking(c, s, o) /\ s \in ServerType /\ o \in BOOLEAN
  BY DEF IInv, Base, GetAnswered
<1>2. CASE s.done /\ Answer(Response(<<>>)) /\ UNCHANGED s
  <2>1. client' = [c EXCEPT !.get = Response(<<>>)] /\ s' = s
    BY <1>2 DEF Answer
  <2>2. /\ Response(<<>>) \in Requests /\ Response(<<>>).state = "done"
        /\ Response(<<>>).packets = <<>> /\ Response(<<>>) # NoRequest
    BY RequestTypes, RequestFields, EmptySeq
  <2>3. c.get.packets = <<>>
    BY <1>1 DEF ClientShape
  <2> QED
    BY <1>1, <2>1, <2>2, <2>3, BaseGet DEF IInv
<1>3. CASE /\ ~s.done /\ s.queue # <<>>
           /\ Answer(Response(s.queue))
           /\ s' = [s EXCEPT !.queue = <<>>]
  <2> DEFINE r == Response(s.queue)
             d == [c EXCEPT !.get = r]
             t == [s EXCEPT !.queue = <<>>]
  <2>1. client' = d /\ server' = t /\ overtaken' = o
    BY <1>1, <1>3 DEF Answer
  <2>2. s.queue \in Seq(Packets) /\ s.queue \in Seq(Plain) /\ c.get.packets = <<>>
        /\ c.get # NoRequest
    BY <1>1, RequestFields DEF ServerType, Shape, ClientShape
  <2>3. r \in Requests /\ r.state = "done" /\ r.packets = s.queue /\ r # NoRequest
    BY <2>2, RequestTypes, RequestFields
  <2> HIDE DEF r
  <2>4. /\ CType(d) /\ d.get = r
        /\ d.readyState = c.readyState /\ d.transport = c.transport /\ d.upgrading = c.upgrading
        /\ d.writeBuffer = c.writeBuffer /\ d.prevBufferLen = c.prevBufferLen
        /\ d.polling = c.polling /\ d.probe = c.probe /\ d.post = c.post /\ d.out = c.out
        /\ d.ws = c.ws /\ d.writable = c.writable /\ d.accepted = c.accepted /\ d.heard = c.heard
        /\ (Writable(d) <=> Writable(c)) /\ Flushed(d) /\ Resumed(d)
    BY <1>1, <2>3, AnswerFields
  <2>5. /\ t \in ServerType /\ t.queue = <<>>
        /\ t.session = s.session /\ t.active = s.active
        /\ t.done = s.done /\ t.emitter = s.emitter /\ t.emitted = s.emitted
        /\ t.got = s.got /\ t.sessions = s.sessions /\ t.down = s.down
    BY <1>1, EmptySeq DEF ServerType
  <2> HIDE DEF c, s, o, d, t
  <2>6. ~IsOpen(s.queue) /\ ~IsOpen(<<>>) /\ <<>> \in Seq(Plain) /\ Msgs(<<>>) = {} /\ Ascending(<<>>)
    BY <2>2, SeqNotOpen, NotOpen, EmptySeq, MsgsEmpty
  <2>7. c.transport = "polling" /\ c.readyState # "closed" /\ Msgs(s.down) = {}
        /\ s.session # "none" /\ c.polling # "opening"
    BY <1>1, <2>2, SequenceTypes DEF ClientShape, Shape
  <2>8. ClientShape(d)
    BY <1>1, <2>2, <2>3, <2>4, <2>7 DEF ClientShape, Probing
  <2>9. Shape(d, t)
    BY <1>1, <2>3, <2>4, <2>5, <2>6, <2>7 DEF Shape, Probing
  <2>10. UpOrder(d, t) /\ UpGap(d, t)
    BY <1>1, <2>4, <2>5 DEF UpOrder, UpGap, Sending, Rest
  <2>11. DownOrder(d, t)
    BY <1>1, <2>2, <2>3, <2>4, <2>5, <2>6, <2>7 DEF DownOrder, Below
  <2>12. DownGap(d, t)
    <3>1. \A n \in Range(c.heard) : n \in Nat /\ \A k \in 1 .. n - 1 : k \notin Msgs(s.queue)
      <4> SUFFICES ASSUME NEW n \in Range(c.heard), NEW k \in 1 .. n - 1, k \in Msgs(s.queue)
                   PROVE  FALSE
        <5>1. \A n \in Range(c.heard) : n \in Nat
          BY <1>1 DEF DownOrder, ServerType
        <5> QED
          BY <5>1
      <4>1. n < k /\ n \in Nat
        BY <1>1, <2>7 DEF DownOrder, Below, ServerType
      <4> QED
        BY <4>1
    <3> QED
      BY <1>1, <2>2, <2>3, <2>4, <2>5, <2>6, <3>1 DEF DownGap, Receiving
  <2>13. Waking(d, t, o)
    <3>1. ~Noop(<<>>)
      BY DEF Noop
    <3> QED
      BY <1>1, <2>2, <2>3, <2>4, <2>5, <3>1 DEF Waking, Woken
  <2>14. Base(d, t, o)
    BY <1>1, <2>4, <2>5, <2>8, <2>9, <2>10, <2>11, <2>12, <2>13 DEF Base
  <2> QED
    BY <2>1, <2>4, <2>14 DEF IInv
<1> QED
  BY <1>2, <1>3 DEF GetAnswered

LEMMA StepRequestLost ==
  ASSUME IInv, RequestLost
  PROVE  IInv'
<1>1. /\ Base(client, server, overtaken) /\ Flushed(client) /\ Resumed(client)
      /\ server' = server /\ overtaken' = overtaken
  BY DEF IInv, RequestLost
<1>2. CASE /\ client.get.state \in {"sent", "taking", "done"}
           /\ client' = [client EXCEPT !.get = FailedRequest]
  <2>1. /\ FailedRequest \in Requests /\ FailedRequest.packets = <<>>
        /\ FailedRequest.state = "failed" /\ FailedRequest # NoRequest
    BY RequestTypes, RequestFields
  <2> QED
    BY <1>1, <1>2, <2>1, BaseGet DEF IInv
<1>3. CASE /\ client.post.state \in {"sent", "done"}
           /\ client' = [client EXCEPT !.post = FailedRequest]
  BY <1>1, <1>3, PostFails
<1> QED
  BY <1>2, <1>3 DEF RequestLost

(* The session has its active connection.                                  *)
LEMMA StepOnConnect ==
  ASSUME IInv, OnConnect
  PROVE  IInv'
<1> DEFINE c == client
           s == server
           o == overtaken
           t == [s EXCEPT !.session = "connected"]
<1>1. /\ Base(c, s, o) /\ Flushed(c) /\ Resumed(c) /\ CType(c) /\ ClientShape(c) /\ Shape(c, s)
      /\ UpOrder(c, s) /\ UpGap(c, s) /\ DownOrder(c, s) /\ DownGap(c, s) /\ Waking(c, s, o)
      /\ s \in ServerType /\ o \in BOOLEAN /\ s.session = "opening"
  BY DEF IInv, Base, OnConnect
<1>2. server' = t /\ client' = c /\ overtaken' = o
  BY DEF OnConnect
<1>3. /\ t \in ServerType /\ t.session = "connected" /\ t.done = s.done
      /\ t.queue = s.queue /\ t.got = s.got /\ t.active = s.active
      /\ t.emitter = s.emitter /\ t.emitted = s.emitted
      /\ t.down = s.down /\ t.sessions = s.sessions
  BY <1>1 DEF ServerType
<1> HIDE DEF c, s, o, t
<1>4. Shape(c, t)
  BY <1>1, <1>3 DEF Shape
<1>5. UpOrder(c, t) /\ UpGap(c, t)
  BY <1>1, <1>3 DEF UpOrder, UpGap
<1>6. DownOrder(c, t) /\ DownGap(c, t)
  BY <1>1, <1>3 DEF DownOrder, DownGap
<1>7. Waking(c, t, o)
  BY <1>1, <1>3 DEF Waking, Woken
<1>8. Base(c, t, o)
  BY <1>1, <1>3, <1>4, <1>5, <1>6, <1>7 DEF Base
<1> QED
  BY <1>1, <1>2, <1>8 DEF IInv, c, s, o

(* The handshake gives the client a session.                                *)
LEMMA StepHandshake ==
  ASSUME IInv, Handshake
  PROVE  IInv'
<1> DEFINE c == client
           s == server
           o == overtaken
           n == s.emitted + 1
           r == Response(<<Packet("open")>>)
           q == <<Message(n)>>
           d == [c EXCEPT !.get = r]
           t == [s EXCEPT !.session = "opening", !.emitted = n,
                          !.active = "polling", !.done = FALSE,
                          !.queue = q, !.down = <<>>,
                          !.emitter = "none", !.sessions = @ + 1]
<1>1. /\ Base(c, s, o) /\ Flushed(c) /\ Resumed(c) /\ c.get.state = "sent"
      /\ CType(c) /\ ClientShape(c) /\ Shape(c, s) /\ UpOrder(c, s) /\ UpGap(c, s)
      /\ DownOrder(c, s) /\ DownGap(c, s) /\ Waking(c, s, o) /\ s \in ServerType /\ o \in BOOLEAN
      /\ s.session \in {"none", "closed"} /\ s.sessions < MaxSessions /\ ~Probing(c)
  BY DEF IInv, Base, Handshake
<1>2. client' = d /\ server' = t /\ overtaken' = o
  BY DEF Handshake, Answer
<1>3. s.emitted \in Nat /\ s.sessions \in Nat /\ n \in Nat /\ n \in 1 .. MaxUp + MaxDown + MaxSessions
      /\ s.sessions + 1 \in 0 .. MaxSessions /\ n <= MaxDown + (s.sessions + 1)
  BY <1>1, UpgradeAssumption DEF ServerType, Shape
<1>4. Message(n) \in Plain /\ Message(n) \in Packets /\ IsMessage(Message(n)) /\ Message(n).n = n
  BY <1>3 DEF Plain, Packets, IsMessage, Message
<1> DEFINE p == Message(n)
<1>5. q \in Seq(Plain) /\ q \in Seq(Packets) /\ Msgs(q) = {n} /\ Ascending(q)
  <2>1. p \in Plain /\ p \in Packets /\ IsMessage(p) /\ p.n = n /\ q = <<p>>
    BY <1>4
  <2> HIDE DEF p, n, q
  <2>2. Msgs(<<p>>) = (IF IsMessage(p) THEN {p.n} ELSE {}) /\ Ascending(<<p>>)
    BY <2>1, MsgsOne, Zenon
  <2> QED
    BY <2>1, <2>2
<1>6. /\ r \in Requests /\ r.state = "done" /\ r.packets = <<Packet("open")>> /\ r # NoRequest
      /\ IsOpen(r.packets) /\ Msgs(r.packets) = {} /\ Ascending(r.packets)
  <2>1. Packet("open") \in Packets
    BY DEF Packets
  <2>2. <<Packet("open")>> \in Seq(Packets)
    BY <2>1
  <2> DEFINE b == Packet("open")
  <2>3. ~IsMessage(b)
    BY DEF IsMessage, Packet
  <2>4. IsOpen(<<b>>)
    BY DEF IsOpen
  <2>5. b \in Packets /\ <<b>> \in Seq(Packets) /\ r = Response(<<b>>)
    BY <2>1, <2>2
  <2> HIDE DEF b, r
  <2>6. Msgs(<<b>>) = (IF IsMessage(b) THEN {b.n} ELSE {}) /\ Ascending(<<b>>)
    BY <2>5, MsgsOne, Zenon
  <2> DEFINE w == <<b>>
  <2>7. w \in Seq(Packets) /\ IsOpen(w) /\ Msgs(w) = {} /\ Ascending(w) /\ r = Response(w)
    BY <2>3, <2>4, <2>5, <2>6
  <2>8. w = <<Packet("open")>>
    BY DEF b
  <2> HIDE DEF w
  <2>9. r \in Requests /\ r.state = "done" /\ r.packets = w /\ r # NoRequest
    BY <2>7, RequestTypes, RequestFields DEF Response, NoRequest
  <2> QED
    BY <2>7, <2>8, <2>9
<1> HIDE DEF r, q, p
<1>7. /\ CType(d) /\ d.get = r
      /\ d.readyState = c.readyState /\ d.transport = c.transport /\ d.upgrading = c.upgrading
      /\ d.writeBuffer = c.writeBuffer /\ d.prevBufferLen = c.prevBufferLen
      /\ d.polling = c.polling /\ d.probe = c.probe /\ d.post = c.post /\ d.out = c.out
      /\ d.ws = c.ws /\ d.writable = c.writable /\ d.accepted = c.accepted /\ d.heard = c.heard
      /\ (Writable(d) <=> Writable(c)) /\ Flushed(d) /\ Resumed(d)
  BY <1>1, <1>6, AnswerFields
<1> DEFINE m == s.sessions + 1
<1>8. t = [s EXCEPT !.session = "opening", !.emitted = n,
                    !.active = "polling", !.done = FALSE,
                    !.queue = q, !.down = <<>>,
                    !.emitter = "none", !.sessions = m]
  OBVIOUS
<1> HIDE DEF n, m, t
<1>9. /\ t.session = "opening" /\ t.emitted = n /\ t.active = "polling" /\ t.done = FALSE
      /\ t.queue = q /\ t.down = <<>> /\ t.emitter = "none" /\ t.sessions = m /\ t.got = s.got
  BY <1>1, <1>8 DEF ServerType
<1>10. t \in ServerType
  <2> DEFINE x == [s EXCEPT !.session = "opening", !.emitted = n, !.active = "polling", !.done = FALSE]
             y == [x EXCEPT !.queue = q, !.down = <<>>]
  <2>1. t = [y EXCEPT !.emitter = "none", !.sessions = m]
    BY <1>8
  <2>2. x \in ServerType
    BY <1>1, <1>3 DEF ServerType
  <2> HIDE DEF x
  <2>3. y \in ServerType
    BY <1>5, <2>2, EmptySeq DEF ServerType
  <2> HIDE DEF y
  <2> QED
    BY <1>3, <2>1, <2>3 DEF ServerType, m
<1> HIDE DEF c, s, o, d
<1>11. /\ c.transport = "polling" /\ c.readyState # "closed" /\ c.ws \in {"none", "gone"}
       /\ c.out = <<>> /\ c.get.packets = <<>> /\ Msgs(<<>>) = {} /\ Ascending(<<>>)
       /\ <<>> \in Seq(Plain)
  BY <1>1, RequestFields, MsgsEmpty, EmptySeq, SequenceTypes DEF ClientShape, Shape
<1>12. ClientShape(d)
  BY <1>1, <1>6, <1>7, <1>11 DEF ClientShape, Probing
<1>13. Shape(d, t)
  <2>1. m # 0 /\ n <= MaxDown + m
    BY <1>3 DEF m
  <2> QED
    BY <1>1, <1>5, <1>6, <1>7, <1>9, <1>11, <2>1 DEF Shape, Probing
<1>14. UpOrder(d, t)
  BY <1>1, <1>7, <1>9 DEF UpOrder, Rest
<1>15. UpGap(d, t)
  <2>1. m <= 1 => s.sessions = 0
    BY <1>3 DEF m
  <2>2. s.sessions = 0 => s.session = "none" /\ ~s.done
    BY <1>1 DEF Shape
  <2>3. Rest(d) = Rest(c) /\ (Sending(d) => Sending(c))
    BY <1>7 DEF Rest, Sending
  <2>4. s.sessions = 0 => s.sessions <= 1
    OBVIOUS
  <2> QED
    BY <1>1, <1>7, <1>9, <2>1, <2>2, <2>3, <2>4 DEF UpGap
<1>16. DownOrder(d, t)
  <2>1. 1 .. s.emitted \subseteq 1 .. n /\ \A x \in 1 .. s.emitted : x < n
    BY <1>3 DEF n
  <2>2. n \in 1 .. n
    BY <1>3 DEF n
  <2> QED
    BY <1>1, <1>5, <1>6, <1>7, <1>9, <1>11, <2>1, <2>2 DEF DownOrder, Below
<1>17. DownGap(d, t)
  <2> SUFFICES ASSUME m = 1
               PROVE  /\ \A x \in Range(d.heard) : 1 .. x - 1 \subseteq Range(d.heard) \cup Msgs(t.queue)
                      /\ 1 .. n \subseteq Msgs(t.queue)
    BY <1>9 DEF DownGap
  <2>1. s.session = "none" /\ s.emitted = 0 /\ c.heard = <<>>
    BY <1>1, <1>3 DEF Shape, m
  <2>2. n = 1 /\ Range(d.heard) = {}
    BY <1>7, <2>1, MsgsEmpty DEF n
  <2> QED
    BY <1>5, <1>9, <2>2
<1>18. Waking(d, t, o)
  BY <1>1, <1>7, <1>9 DEF Waking, Probing
<1>19. Base(d, t, o)
  BY <1>1, <1>7, <1>10, <1>12, <1>13, <1>14, <1>15, <1>16, <1>17, <1>18 DEF Base
<1> QED
  BY <1>2, <1>7, <1>19 DEF IInv

LEMMA StepByeArrives ==
  ASSUME IInv, ByeArrives
  PROVE  IInv'
<1> DEFINE c == client
           s == server
           o == overtaken
           d == [c EXCEPT !.bye = FALSE]
           t == IF s.session = "connected" THEN [s EXCEPT !.done = TRUE] ELSE s
<1>1. /\ Base(c, s, o) /\ Flushed(c) /\ Resumed(c) /\ c \in ClientType /\ CType(c)
      /\ s \in ServerType /\ client' = d /\ server' = t /\ overtaken' = o
  BY DEF IInv, Base, CType, ByeArrives
<1>2. d \in ClientType
  BY <1>1 DEF ClientType
<1>3. /\ d.readyState = c.readyState /\ d.transport = c.transport /\ d.upgrading = c.upgrading
      /\ d.writeBuffer = c.writeBuffer /\ d.prevBufferLen = c.prevBufferLen
      /\ d.polling = c.polling /\ d.get = c.get /\ d.post = c.post /\ d.probe = c.probe
      /\ d.ws = c.ws /\ d.writable = c.writable /\ d.out = c.out
      /\ d.accepted = c.accepted /\ d.heard = c.heard
  BY <1>1 DEF ClientType
<1> HIDE DEF d
<1>4. CType(d)
  BY <1>1, <1>2, <1>3 DEF CType
<1>5. Base(d, s, o) /\ Flushed(d) /\ Resumed(d)
  BY <1>1, <1>3, <1>4, BaseSame
<1>6. CASE s.session # "connected"
  BY <1>1, <1>5, <1>6 DEF IInv
<1>7. CASE s.session = "connected"
  <2>1. t = [s EXCEPT !.done = TRUE]
    BY <1>7
  <2> HIDE DEF t
  <2>2. /\ t \in ServerType /\ t.done = TRUE
        /\ t.session = s.session /\ t.queue = s.queue /\ t.got = s.got /\ t.active = s.active
        /\ t.emitter = s.emitter /\ t.emitted = s.emitted
        /\ t.down = s.down /\ t.sessions = s.sessions
    BY <1>1, <2>1 DEF ServerType
  <2>3. /\ ClientShape(d) /\ Shape(d, s) /\ UpOrder(d, s) /\ UpGap(d, s) /\ DownOrder(d, s)
        /\ DownGap(d, s) /\ Waking(d, s, o) /\ o \in BOOLEAN
    BY <1>5 DEF Base
  <2>4. Shape(d, t)
    BY <1>7, <2>2, <2>3 DEF Shape
  <2>5. UpOrder(d, t) /\ UpGap(d, t) /\ DownOrder(d, t) /\ DownGap(d, t) /\ Waking(d, t, o)
    BY <2>2, <2>3 DEF UpOrder, UpGap, DownOrder, DownGap, Waking, Woken
  <2>6. Base(d, t, o)
    BY <1>4, <2>2, <2>3, <2>4, <2>5 DEF Base
  <2> QED
    BY <1>1, <1>5, <2>6 DEF IInv
<1> QED
  BY <1>6, <1>7

(* Setting the WebSocket's state and what went out on it.                   *)
Gave(c, w, out) == [c EXCEPT !.ws = w, !.out = out]
WsStates == {"none", "connecting", "open", "closed", "gone"}

LEMMA HungFields ==
  ASSUME NEW c, CType(c), NEW w \in WsStates,
         NEW out \in Seq(Packets), NEW f, f = Gave(c, w, out)
  PROVE  /\ CType(f) /\ f.ws = w /\ f.out = out
         /\ f.readyState = c.readyState /\ f.transport = c.transport /\ f.upgrading = c.upgrading
         /\ f.writeBuffer = c.writeBuffer /\ f.prevBufferLen = c.prevBufferLen
         /\ f.polling = c.polling /\ f.get = c.get /\ f.post = c.post /\ f.probe = c.probe
         /\ f.writable = c.writable /\ f.accepted = c.accepted /\ f.heard = c.heard
         /\ (Writable(f) <=> Writable(c)) /\ (Flushed(c) => Flushed(f)) /\ (Resumed(c) => Resumed(f))
<1> DEFINE e == [c EXCEPT !.ws = w]
           d == [e EXCEPT !.out = out]
<1>1. c \in ClientType /\ c.prevBufferLen <= Len(c.writeBuffer)
  BY DEF CType
<1>2. e \in ClientType
  BY <1>1, SetWs DEF WsStates
<1>3. d.ws = w /\ d.out = out
  BY <1>1 DEF ClientType
<1>4. /\ d.readyState = c.readyState /\ d.transport = c.transport /\ d.upgrading = c.upgrading
      /\ d.writeBuffer = c.writeBuffer /\ d.prevBufferLen = c.prevBufferLen
      /\ d.polling = c.polling /\ d.get = c.get /\ d.post = c.post /\ d.probe = c.probe
      /\ d.writable = c.writable /\ d.accepted = c.accepted /\ d.heard = c.heard
  BY <1>1 DEF ClientType
<1>5. d = f
  BY DEF Gave
<1> HIDE DEF e
<1>6. d \in ClientType
  BY <1>2 DEF ClientType
<1> HIDE DEF d
<1>7. CType(d)
  BY <1>1, <1>4, <1>6 DEF CType
<1>8. /\ Writable(d) <=> Writable(c)
      /\ (Flushed(c) => Flushed(d)) /\ (Resumed(c) => Resumed(d))
  BY <1>4 DEF Writable, Flushed, Resumed
<1>9. /\ CType(d) /\ d.ws = w /\ d.out = out
      /\ d.readyState = c.readyState /\ d.transport = c.transport /\ d.upgrading = c.upgrading
      /\ d.writeBuffer = c.writeBuffer /\ d.prevBufferLen = c.prevBufferLen
      /\ d.polling = c.polling /\ d.get = c.get /\ d.post = c.post /\ d.probe = c.probe
      /\ d.writable = c.writable /\ d.accepted = c.accepted /\ d.heard = c.heard
      /\ (Writable(d) <=> Writable(c)) /\ (Flushed(c) => Flushed(d)) /\ (Resumed(c) => Resumed(d))
  BY <1>3, <1>4, <1>7, <1>8
<1> QED
  BY <1>5, <1>9

(* The server learns that the WebSocket is closed, and ends the session.    *)
LEMMA StepWebSocketClosed ==
  ASSUME IInv, WebSocketClosed
  PROVE  IInv'
<1> DEFINE c == client
           s == server
           o == overtaken
           d == [c EXCEPT !.ws = "gone", !.out = <<>>]
           t == [s EXCEPT !.session = "closed", !.down = <<>>]
<1>1. /\ Base(c, s, o) /\ Flushed(c) /\ Resumed(c) /\ CType(c) /\ ClientShape(c) /\ Shape(c, s)
      /\ UpOrder(c, s) /\ UpGap(c, s) /\ DownOrder(c, s) /\ DownGap(c, s) /\ Waking(c, s, o)
      /\ s \in ServerType /\ o \in BOOLEAN
      /\ c.ws = "closed" /\ s.session \in {"connected", "closing"}
      /\ client' = d /\ server' = t /\ overtaken' = o
  BY DEF IInv, Base, WebSocketClosed
<1>2. <<>> \in Seq(Packets) /\ <<>> \in Seq(Plain) /\ Msgs(<<>>) = {} /\ Ascending(<<>>)
  BY EmptySeq, MsgsEmpty
<1>3. /\ CType(d) /\ d.ws = "gone" /\ d.out = <<>>
      /\ d.readyState = c.readyState /\ d.transport = c.transport /\ d.upgrading = c.upgrading
      /\ d.writeBuffer = c.writeBuffer /\ d.prevBufferLen = c.prevBufferLen
      /\ d.polling = c.polling /\ d.get = c.get /\ d.post = c.post /\ d.probe = c.probe
      /\ d.writable = c.writable /\ d.accepted = c.accepted /\ d.heard = c.heard
      /\ (Writable(d) <=> Writable(c)) /\ Flushed(d) /\ Resumed(d)
  <2> DEFINE w == "gone"
             out == <<>>
  <2>1. d = Gave(c, w, out)
    BY DEF Gave
  <2>2. w \in WsStates
    BY DEF WsStates
  <2>3. CType(c) /\ Flushed(c) /\ Resumed(c) /\ out \in Seq(Packets)
    BY <1>1, <1>2
  <2>4. w = "gone" /\ out = <<>>
    OBVIOUS
  <2> HIDE DEF c, d, s, o, t, w, out
  <2>5. /\ CType(d) /\ d.ws = w /\ d.out = out
        /\ d.readyState = c.readyState /\ d.transport = c.transport /\ d.upgrading = c.upgrading
        /\ d.writeBuffer = c.writeBuffer /\ d.prevBufferLen = c.prevBufferLen
        /\ d.polling = c.polling /\ d.get = c.get /\ d.post = c.post /\ d.probe = c.probe
        /\ d.writable = c.writable /\ d.accepted = c.accepted /\ d.heard = c.heard
        /\ (Writable(d) <=> Writable(c)) /\ Flushed(d) /\ Resumed(d)
    BY <2>1, <2>2, <2>3, HungFields
  <2> QED
    BY <2>4, <2>5
<1>4. /\ t \in ServerType /\ t.session = "closed" /\ t.down = <<>> /\ t.queue = s.queue
      /\ t.active = s.active /\ t.done = s.done /\ t.emitter = s.emitter
      /\ t.emitted = s.emitted /\ t.got = s.got /\ t.sessions = s.sessions
  BY <1>1, <1>2 DEF ServerType
<1> HIDE DEF c, s, o, d, t
<1>5. ~IsOpen(c.get.packets) /\ c.probe # "none" /\ s.sessions # 0
  BY <1>1 DEF Shape, ClientShape
<1>6. ClientShape(d)
  BY <1>1, <1>3, <1>5 DEF ClientShape, Probing
<1>7. Shape(d, t)
  BY <1>1, <1>2, <1>3, <1>4, <1>5 DEF Shape, Probing
<1>8. UpOrder(d, t)
  BY <1>1, <1>2, <1>3, <1>4 DEF UpOrder, Below, Rest
<1>9. UpGap(d, t)
  BY <1>1, <1>4 DEF UpGap
<1>10. DownOrder(d, t)
  BY <1>1, <1>2, <1>3, <1>4 DEF DownOrder, Below
<1>11. DownGap(d, t)
  <2>1. Receiving(d) => Receiving(c) /\ Msgs(s.down) = {}
    BY <1>1, <1>3, SequenceTypes DEF Receiving, Shape
  <2> QED
    BY <1>1, <1>3, <1>4, <2>1 DEF DownGap
<1>12. Waking(d, t, o)
  BY <1>1, <1>3, <1>4 DEF Waking, Woken
<1>13. Base(d, t, o)
  BY <1>1, <1>3, <1>4, <1>6, <1>7, <1>8, <1>9, <1>10, <1>11, <1>12 DEF Base
<1> QED
  BY <1>1, <1>3, <1>13 DEF IInv, c, s, o

LEMMA StepEmitRead ==
  ASSUME IInv, EmitRead
  PROVE  IInv'
<1> DEFINE c == client
           s == server
           o == overtaken
           t == [s EXCEPT !.emitter = s.active]
<1>1. /\ Flushed(c) /\ Resumed(c) /\ CType(c) /\ ClientShape(c) /\ Shape(c, s)
      /\ UpOrder(c, s) /\ UpGap(c, s) /\ DownOrder(c, s) /\ DownGap(c, s) /\ Waking(c, s, o)
      /\ s \in ServerType /\ o \in BOOLEAN
      /\ s.emitted < MaxDown /\ s.session = "connected"
      /\ client' = c /\ server' = t /\ overtaken' = o
  BY DEF IInv, Base, EmitRead
<1>2. /\ t \in ServerType /\ t.emitter = s.active /\ t.session = s.session
      /\ t.queue = s.queue /\ t.got = s.got /\ t.active = s.active
      /\ t.done = s.done /\ t.emitted = s.emitted /\ t.down = s.down /\ t.sessions = s.sessions
      /\ s.active \in {"polling", "websocket"}
  BY <1>1 DEF ServerType
<1> HIDE DEF t
<1>3. Shape(c, t)
  BY <1>1, <1>2 DEF Shape
<1>4. UpOrder(c, t) /\ UpGap(c, t) /\ DownOrder(c, t) /\ DownGap(c, t) /\ Waking(c, t, o)
  BY <1>1, <1>2 DEF UpOrder, UpGap, DownOrder, DownGap, Waking, Woken
<1> QED
  BY <1>1, <1>2, <1>3, <1>4 DEF IInv, Base

(* A message is emitted on the connection that was read before.             *)
LEMMA StepEmitSend ==
  ASSUME IInv, EmitSend
  PROVE  IInv'
<1> DEFINE c == client
           s == server
           o == overtaken
           n == s.emitted + 1
           p == Message(n)
           x == s.emitter
           a == SendOn(s, x, p)
           t == [a EXCEPT !.emitter = "none", !.emitted = n]
<1>1. /\ Flushed(c) /\ Resumed(c) /\ CType(c) /\ ClientShape(c) /\ Shape(c, s)
      /\ UpOrder(c, s) /\ UpGap(c, s) /\ DownOrder(c, s) /\ DownGap(c, s) /\ Waking(c, s, o)
      /\ s \in ServerType /\ o \in BOOLEAN /\ s.emitter # "none"
      /\ client' = c /\ server' = t /\ overtaken' = o
  BY DEF IInv, Base, EmitSend
<1>2. /\ s.emitted \in Nat /\ n \in Nat /\ n <= MaxDown /\ n \in 1 .. MaxUp + MaxDown + MaxSessions
      /\ s.sessions \in Nat /\ n <= MaxDown + s.sessions
  BY <1>1, UpgradeAssumption DEF ServerType, Shape
<1>3. p \in Plain /\ IsMessage(p) /\ p.n = n /\ p.type # "noop"
  BY <1>2 DEF Plain, Packets, IsMessage, Message
<1>4. /\ x \in {"polling", "websocket"} /\ s.queue \in Seq(Plain) /\ s.down \in Seq(Plain)
      /\ (x = "websocket" => c.transport = "websocket")
  BY <1>1, SequenceTypes DEF ServerType, Shape
<1>5. client.ws = c.ws
  OBVIOUS
<1> HIDE DEF p, x, n
<1>6. /\ a \in ServerType
      /\ a.session = s.session /\ a.active = s.active /\ a.done = s.done
      /\ a.got = s.got /\ a.sessions = s.sessions
      /\ a.queue = IF x = "polling" THEN Append(s.queue, p) ELSE s.queue
      /\ a.down = IF x = "websocket" /\ c.ws = "open" THEN Append(s.down, p) ELSE s.down
  BY <1>1, <1>3, <1>4, SendOnFields
<1> HIDE DEF a
<1>7. /\ t \in ServerType /\ t.emitter = "none" /\ t.emitted = n
      /\ t.session = s.session /\ t.active = s.active /\ t.done = s.done
      /\ t.got = s.got /\ t.sessions = s.sessions
      /\ t.queue = a.queue /\ t.down = a.down
  BY <1>2, <1>6 DEF ServerType
<1> HIDE DEF c, s, o, t
<1>8. s.session # "none"
  BY <1>1 DEF Shape
<1>9. /\ 1 .. s.emitted \subseteq 1 .. n /\ n \in 1 .. n /\ (\A y \in 1 .. s.emitted : y < n)
      /\ 1 .. n = (1 .. s.emitted) \cup {n}
  BY <1>2 DEF n
<1>10. /\ Msgs(s.queue) \subseteq 1 .. s.emitted /\ Ascending(s.queue)
       /\ Msgs(s.down) \subseteq 1 .. s.emitted /\ Ascending(s.down)
       /\ Below(Msgs(s.queue), {n}) /\ Below(Msgs(s.down), {n})
  BY <1>1, <1>9 DEF DownOrder, Below
<1>11. /\ t.queue \in Seq(Plain) /\ Ascending(t.queue)
       /\ (Noop(s.queue) => Noop(t.queue))
       /\ Msgs(t.queue) = Msgs(s.queue) \cup (IF x = "polling" THEN {n} ELSE {})
  <2>1. CASE x = "polling"
    <3>1. t.queue = Append(s.queue, p)
      BY <1>6, <1>7, <2>1
    <3> QED
      BY <1>3, <1>4, <1>10, <2>1, <3>1, AppendPlain
  <2>2. CASE x # "polling"
    BY <1>4, <1>6, <1>7, <1>10, <2>2
  <2> QED
    BY <2>1, <2>2
<1>12. /\ t.down \in Seq(Plain) /\ Ascending(t.down)
       /\ Msgs(t.down) = Msgs(s.down) \cup (IF x = "websocket" /\ c.ws = "open" THEN {n} ELSE {})
       /\ ((x = "websocket" /\ c.ws = "open") \/ t.down = s.down)
  <2>1. CASE x = "websocket" /\ c.ws = "open"
    <3>1. t.down = Append(s.down, p)
      BY <1>6, <1>7, <2>1
    <3> QED
      BY <1>3, <1>4, <1>10, <2>1, <3>1, AppendPlain
  <2>2. CASE ~(x = "websocket" /\ c.ws = "open")
    BY <1>4, <1>6, <1>7, <1>10, <2>2
  <2> QED
    BY <2>1, <2>2
<1>13. Shape(c, t)
  BY <1>1, <1>2, <1>4, <1>7, <1>8, <1>11, <1>12, NotOpen, RequestFields DEF Shape, ClientShape
<1>14. UpOrder(c, t) /\ UpGap(c, t)
  BY <1>1, <1>7 DEF UpOrder, UpGap
<1>15. DownOrder(c, t)
  <2>1. Msgs(t.queue) \subseteq 1 .. n /\ Msgs(t.down) \subseteq 1 .. n
    BY <1>9, <1>10, <1>11, <1>12
  <2>2. Below(Range(c.heard), Msgs(c.get.packets) \cup Msgs(t.down))
    BY <1>1, <1>9, <1>12 DEF DownOrder, Below
  <2>3. c.transport = "polling" => Below(Range(c.heard) \cup Msgs(c.get.packets), Msgs(t.queue))
    BY <1>1, <1>9, <1>11 DEF DownOrder, Below
  <2> QED
    BY <1>1, <1>7, <1>9, <1>11, <1>12, <2>1, <2>2, <2>3 DEF DownOrder
<1>16. DownGap(c, t)
  <2>1. Receiving(c) /\ x = "websocket" => c.ws = "open"
    BY <1>4 DEF Receiving
  <2> QED
    BY <1>1, <1>4, <1>7, <1>9, <1>11, <1>12, <2>1 DEF DownGap
<1>17. Waking(c, t, o)
  <2>1. x = "websocket" => c.probe = "done"
    BY <1>1, <1>4 DEF ClientShape
  <2> QED
    BY <1>1, <1>7, <1>11, <1>12, <2>1 DEF Waking, Woken
<1>18. Base(c, t, o)
  BY <1>1, <1>7, <1>13, <1>14, <1>15, <1>16, <1>17 DEF Base
<1> QED
  BY <1>1, <1>18 DEF IInv

(* The active connection is aborted.                                        *)
LEMMA StepAbort ==
  ASSUME IInv, Abort
  PROVE  IInv'
<1> DEFINE c == client
           s == server
           o == overtaken
<1>1. /\ Base(c, s, o) /\ Flushed(c) /\ Resumed(c) /\ CType(c) /\ ClientShape(c) /\ Shape(c, s)
      /\ UpOrder(c, s) /\ UpGap(c, s) /\ DownOrder(c, s) /\ DownGap(c, s) /\ Waking(c, s, o)
      /\ s \in ServerType /\ o \in BOOLEAN /\ s.session = "connected" /\ o' = o
  BY DEF IInv, Base, Abort
<1>2. PICK state \in {"connected", "closing"} :
       IF s.active = "polling"
       THEN /\ s' = [s EXCEPT !.session = state, !.done = TRUE]
            /\ c' = c
       ELSE /\ s' = [s EXCEPT !.session = state]
            /\ c' = [c EXCEPT !.ws = Hung(@)]
  BY DEF Abort
<1>3. CASE s.active = "polling"
  <2> DEFINE t == [s EXCEPT !.session = state, !.done = TRUE]
  <2>1. /\ t \in ServerType /\ t.session = state /\ t.done = TRUE
        /\ t.queue = s.queue /\ t.got = s.got /\ t.active = s.active
        /\ t.emitter = s.emitter /\ t.emitted = s.emitted
        /\ t.down = s.down /\ t.sessions = s.sessions
    BY <1>1 DEF ServerType
  <2>2. server' = t /\ client' = c
    BY <1>2, <1>3
  <2> HIDE DEF t
  <2>3. Shape(c, t)
    BY <1>1, <2>1 DEF Shape
  <2>4. UpOrder(c, t) /\ UpGap(c, t) /\ DownOrder(c, t) /\ DownGap(c, t) /\ Waking(c, t, o)
    BY <1>1, <2>1 DEF UpOrder, UpGap, DownOrder, DownGap, Waking, Woken
  <2>5. Base(c, t, o)
    BY <1>1, <2>1, <2>3, <2>4 DEF Base
  <2> QED
    BY <1>1, <2>2, <2>5 DEF IInv
<1>4. CASE s.active # "polling"
  <2> DEFINE t == [s EXCEPT !.session = state]
             w == Hung(c.ws)
             d == [c EXCEPT !.ws = w, !.out = c.out]
  <2>1. /\ t \in ServerType /\ t.session = state /\ t.done = s.done
        /\ t.queue = s.queue /\ t.got = s.got /\ t.active = s.active
        /\ t.emitter = s.emitter /\ t.emitted = s.emitted
        /\ t.down = s.down /\ t.sessions = s.sessions
    BY <1>1 DEF ServerType
  <2>2. server' = t /\ client' = [c EXCEPT !.ws = w]
    BY <1>2, <1>4
  <2>3. w \in {"closed", "gone"} /\ c.out \in Seq(Packets) /\ c \in ClientType
    BY <1>1, SequenceTypes DEF Hung, CType
  <2> HIDE DEF w
  <2>4. [c EXCEPT !.ws = w] = d
    BY <2>3 DEF ClientType
  <2> HIDE DEF t
  <2>5. /\ CType(d) /\ d.ws = w /\ d.out = c.out
        /\ d.readyState = c.readyState /\ d.transport = c.transport /\ d.upgrading = c.upgrading
        /\ d.writeBuffer = c.writeBuffer /\ d.prevBufferLen = c.prevBufferLen
        /\ d.polling = c.polling /\ d.get = c.get /\ d.post = c.post /\ d.probe = c.probe
        /\ d.writable = c.writable /\ d.accepted = c.accepted /\ d.heard = c.heard
        /\ (Writable(d) <=> Writable(c)) /\ Flushed(d) /\ Resumed(d)
    <3>1. d = Gave(c, w, c.out)
      BY DEF Gave
    <3>2. w \in WsStates
      BY <2>3 DEF WsStates
    <3>3. CType(c) /\ Flushed(c) /\ Resumed(c) /\ c.out \in Seq(Packets)
      BY <1>1, <2>3
    <3> HIDE DEF c, d, s, o
    <3> QED
      BY <3>1, <3>2, <3>3, HungFields
  <2>6. client' = d
    BY <2>2, <2>4
  <2> HIDE DEF c, s, o, d
  <2>7. c.transport = "websocket" /\ c.get = NoRequest /\ c.post = NoRequest /\ c.probe = "done"
        /\ c.polling = "paused" /\ ~IsOpen(c.get.packets)
    BY <1>1, <1>4, SequenceTypes, RequestFields, NotOpen DEF Shape, ClientShape
  <2>8. ClientShape(d)
    BY <1>1, <2>3, <2>5, <2>7 DEF ClientShape, Probing
  <2>9. Shape(d, t)
    BY <1>1, <2>1, <2>3, <2>5, <2>7 DEF Shape, Probing
  <2>10. UpOrder(d, t)
    BY <1>1, <2>1, <2>5 DEF UpOrder, Rest
  <2>11. UpGap(d, t)
    BY <1>1, <2>1, <2>3, <2>5, <2>7 DEF UpGap, Sending
  <2>12. DownOrder(d, t)
    BY <1>1, <2>1, <2>5 DEF DownOrder
  <2>13. DownGap(d, t)
    BY <1>1, <2>1, <2>3, <2>5, <2>7 DEF DownGap, Receiving
  <2>14. Waking(d, t, o)
    BY <1>1, <2>1, <2>5, <2>7 DEF Waking
  <2>15. Base(d, t, o)
    BY <1>1, <2>1, <2>5, <2>8, <2>9, <2>10, <2>11, <2>12, <2>13, <2>14 DEF Base
  <2> QED
    BY <1>1, <2>2, <2>5, <2>6, <2>15 DEF IInv, o
<1> QED
  BY <1>3, <1>4

(***************************************************************************)
(* The theorems.                                                           *)
(***************************************************************************)
LEMMA InitIInv ==
  Init => IInv
<1> SUFFICES ASSUME Init PROVE IInv
  OBVIOUS
<1> DEFINE c == client
           s == server
           o == overtaken
<1>1. /\ c = [readyState |-> "opening", transport |-> "polling",
              upgrading |-> FALSE, writeBuffer |-> <<>>, prevBufferLen |-> 0,
              closeWhen |-> "no", pinged |-> FALSE, polling |-> "opening",
              get |-> Request(<<>>), post |-> NoRequest, bye |-> FALSE,
              probe |-> "none", ws |-> "none", writable |-> TRUE,
              out |-> <<>>, accepted |-> 0, heard |-> <<>>]
      /\ s = [session |-> "none", active |-> "polling", queue |-> <<>>,
              done |-> FALSE, down |-> <<>>, emitter |-> "none",
              emitted |-> 0, got |-> <<>>, sessions |-> 0]
      /\ o = FALSE
  BY DEF Init
<1>2. /\ <<>> \in Seq(Packets) /\ <<>> \in Seq(Plain) /\ <<>> \in Seq(Nat) /\ Len(<<>>) = 0
      /\ Msgs(<<>>) = {} /\ Ascending(<<>>) /\ Strict(<<>>) /\ Range(<<>>) = {}
      /\ ~IsOpen(<<>>) /\ DOMAIN <<>> = {} /\ After(<<>>, 0) = <<>>
  BY EmptySeq, MsgsEmpty DEF IsOpen, After
<1>3. /\ Request(<<>>) \in Requests /\ NoRequest \in Requests
      /\ Request(<<>>).state = "sent" /\ Request(<<>>).packets = <<>>
      /\ NoRequest.packets = <<>> /\ NoRequest.state = "none"
  BY <1>2, RequestTypes, RequestFields
<1> HIDE DEF c, s, o
<1>4. /\ c.readyState = "opening" /\ c.transport = "polling" /\ c.upgrading = FALSE
      /\ c.writeBuffer = <<>> /\ c.prevBufferLen = 0 /\ c.polling = "opening"
      /\ c.get = Request(<<>>) /\ c.post = NoRequest /\ c.probe = "none" /\ c.ws = "none"
      /\ c.writable = TRUE /\ c.out = <<>> /\ c.accepted = 0 /\ c.heard = <<>>
  BY <1>1
<1>5. /\ s.session = "none" /\ s.active = "polling" /\ s.queue = <<>> /\ s.done = FALSE
      /\ s.down = <<>> /\ s.emitter = "none" /\ s.emitted = 0 /\ s.got = <<>> /\ s.sessions = 0
  BY <1>1
<1>6. CType(c) /\ s \in ServerType /\ o \in BOOLEAN
  <2>1. 0 \in 0 .. MaxSessions /\ 0 \in Nat
    BY UpgradeAssumption
  <2>2. c \in ClientType
    BY <1>1, <1>2, <1>3 DEF ClientType
  <2>3. s \in ServerType
    BY <1>1, <1>2, <2>1 DEF ServerType
  <2>4. c.prevBufferLen <= Len(c.writeBuffer)
    <3>1. Len(c.writeBuffer) = 0 /\ c.prevBufferLen = 0
      BY <1>2, <1>4
    <3> QED
      BY <3>1
  <2>5. o \in BOOLEAN
    BY <1>1
  <2> QED
    BY <2>2, <2>3, <2>4, <2>5 DEF CType
<1>7. ClientShape(c)
  BY <1>2, <1>3, <1>4 DEF ClientShape, Probing
<1>8. Shape(c, s)
  <2>1. 0 <= MaxDown + 0 /\ 0 <= MaxUp
    BY UpgradeAssumption
  <2> QED
    BY <1>2, <1>3, <1>4, <1>5, <2>1 DEF Shape
<1>9. Rest(c) = <<>> /\ 1 .. 0 = {}
  BY <1>2, <1>4 DEF Rest
<1>10. UpOrder(c, s)
  BY <1>2, <1>3, <1>4, <1>5, <1>9 DEF UpOrder, Below
<1>11. UpGap(c, s)
  <2>1. <<>> = [i \in 1 .. Len(<<>>) |-> i]
    BY <1>2, <1>9
  <2>2. Len(<<>>) + 1 .. 0 = {}
    BY <1>2
  <2> QED
    BY <1>2, <1>3, <1>4, <1>5, <2>1, <2>2 DEF UpGap
<1>12. DownOrder(c, s)
  BY <1>2, <1>3, <1>4, <1>5, <1>9 DEF DownOrder, Below
<1>13. DownGap(c, s)
  BY <1>5 DEF DownGap
<1>14. Waking(c, s, o) /\ Flushed(c) /\ Resumed(c)
  BY <1>4 DEF Waking, Flushed, Resumed
<1> QED
  BY <1>6, <1>7, <1>8, <1>10, <1>11, <1>12, <1>13, <1>14 DEF IInv, Base, c, s, o

LEMMA NextIInv ==
  IInv /\ [Next]_vars => IInv'
<1> SUFFICES ASSUME IInv, [Next]_vars PROVE IInv'
  OBVIOUS
<1>1. CASE App
  BY <1>1, StepAppWrite, StepAppClose, StepEmitRead, StepAbort DEF App
<1>2. CASE Faults
  BY <1>2, StepRequestLost, StepWebSocketRefused, StepWebSocketLost DEF Faults
<1>3. CASE Timers
  BY <1>3, StepPingDue, StepClosing DEF Timers
<1>4. CASE Reaction
  BY <1>4, StepGetDone, StepPostDone, StepClosing, StepWebSocketOpen, StepFrame, StepFramesOut
     DEF Reaction
<1>5. CASE Service
  BY <1>5, StepHandshake, StepOnConnect, StepGetArrives, StepGetAnswered, StepPostArrives, StepByeArrives,
     StepFrameArrives, StepWebSocketClosed, StepEmitSend DEF Service
<1>6. CASE UNCHANGED vars
  BY <1>6 DEF IInv, vars
<1> QED
  BY <1>1, <1>2, <1>3, <1>4, <1>5, <1>6 DEF Next

(* The strengthened invariant holds in every state.                         *)
THEOREM Inductive ==
  Spec => []IInv
BY InitIInv, NextIInv, PTL DEF Spec

(* The records of both ends keep their types: what onDrain removes from the *)
(* write buffer was there when the last flush counted it.                   *)
THEOREM TypeCorrect ==
  Spec => []TypeOK
<1>1. IInv => TypeOK
  BY DEF IInv, Base, CType, TypeOK
<1> QED
  BY <1>1, Inductive, PTL

(* What the client's application writes reaches the server in order and     *)
(* once, and without a gap in the first session until the polling           *)
(* connection is done: posts of the polling transport, and the frames that  *)
(* follow them after the upgrade, never overtake one another.               *)
THEOREM UpInOrder ==
  Spec => []OrderUp
<1>1. IInv => OrderUp
  <2> SUFFICES ASSUME IInv PROVE OrderUp
    OBVIOUS
  <2>1. /\ UpOrder(client, server) /\ UpGap(client, server) /\ server \in ServerType
    BY DEF IInv, Base
  <2>2. server.sessions = 1 => server.sessions <= 1
    OBVIOUS
  <2> QED
    BY <2>1, <2>2 DEF UpOrder, UpGap, Strict, OrderUp
<1> QED
  BY <1>1, Inductive, PTL

(* What the server's application emits reaches the client in order and      *)
(* once.  What the client missed in its first session still lies on the     *)
(* queue of the polling connection, which the upgrade leaves behind.        *)
THEOREM DownInOrder ==
  Spec => []OrderDown
<1>1. IInv => OrderDown
  <2> SUFFICES ASSUME IInv PROVE OrderDown
    OBVIOUS
  <2> DEFINE c == client
             s == server
  <2>1. DownOrder(c, s) /\ DownGap(c, s) /\ s.queue \in Seq(Plain)
    BY DEF IInv, Base, Shape
  <2>2. ASSUME NEW k \in Msgs(s.queue)
        PROVE  Message(k) \in Range(s.queue)
    <3>1. PICK i \in DOMAIN s.queue : IsMessage(s.queue[i]) /\ s.queue[i].n = k
      BY DEF Msgs
    <3>2. s.queue[i] \in Packets
      BY <2>1, ElementOfSeq DEF Plain
    <3>3. s.queue[i] = Message(k)
      BY <3>1, <3>2, MessageIs
    <3> QED
      BY <3>1, <3>3 DEF Range
  <2>3. \A i, j \in DOMAIN c.heard : i < j => c.heard[i] < c.heard[j]
    BY <2>1 DEF DownOrder, Strict
  <2>4. ASSUME s.sessions = 1, NEW j \in Range(c.heard), NEW k \in 1 .. j - 1
        PROVE  k \in Range(c.heard) \/ Message(k) \in Range(s.queue)
    BY <2>1, <2>2, <2>4 DEF DownGap
  <2> QED
    BY <2>3, <2>4 DEF OrderDown
<1> QED
  BY <1>1, Inductive, PTL

(* An upgrade that waits for ever is due to a NOOP of forcePollingCycle     *)
(* that overtook the probe's PONG, or to a probe that failed after it.      *)
THEOREM UpgradeWaits ==
  Spec => []UpgradeStalls
<1>1. IInv => UpgradeStalls
  <2> SUFFICES ASSUME IInv, Live, client.upgrading, Still, client.probe # "failed"
               PROVE  overtaken
    BY DEF UpgradeStalls
  <2> DEFINE c == client
             s == server
             o == overtaken
  <2>1. Waking(c, s, o) /\ ClientShape(c) /\ CType(c) /\ Resumed(c) /\ o \in BOOLEAN
    BY DEF IInv, Base
  <2>2. /\ c.get.state \in {"none", "taking"} /\ c.post = NoRequest
        /\ c.get.state = "taking" => s.queue = <<>>
        /\ c.out = <<>> /\ s.down = <<>> /\ c.ws # "connecting"
        /\ c.ws \in {"closed", "gone"} => ~Probing(c)
        /\ c.readyState # "closed" /\ c.upgrading /\ c.probe # "failed"
    BY DEF Still, Live
  <2> HIDE DEF c, s, o
  <2>3. c.probe \in {"opening", "pinged", "pausing"}
    BY <2>1, <2>2 DEF Waking
  <2>4. c.probe # "opening"
    BY <2>1, <2>2 DEF ClientShape
  <2>5. c.ws = "open"
    BY <2>1, <2>2, <2>3, <2>4 DEF ClientShape, Probing
  <2>6. c.probe = "pausing"
    BY <2>1, <2>2, <2>3, <2>4, <2>5 DEF Waking
  <2>7. o \/ Woken(c, s)
    BY <2>1, <2>2, <2>6 DEF Waking, Resumed
  <2>8. c.get # NoRequest
    BY <2>1, <2>2, <2>6 DEF Resumed
  <2>9. c.get.packets = <<>> /\ c.get.state = "taking"
    <3>1. c.get.packets = <<>>
      BY <2>1, <2>2 DEF ClientShape
    <3>2. c.get \in Requests
      BY <2>1 DEF CType, ClientType
    <3>3. c.get = [state |-> c.get.state, packets |-> c.get.packets]
      BY <3>2 DEF Requests
    <3> QED
      BY <2>2, <2>8, <3>1, <3>3 DEF NoRequest
  <2>10. ~Woken(c, s)
    BY <2>2, <2>9 DEF Woken, Noop
  <2> QED
    BY <2>7, <2>10 DEF o
<1> QED
  BY <1>1, Inductive, PTL

(* When nothing is under way in the first session, the client's socket      *)
(* holds nothing back: all that was written has reached the server.         *)
THEOREM AllDelivered ==
  Spec => []NothingStranded
<1>1. IInv => NothingStranded
  <2> SUFFICES ASSUME IInv, Still, client.readyState = "open", ~client.upgrading,
                      server.session = "connected", server.sessions = 1, ~server.done
               PROVE  client.writeBuffer = <<>> /\ Len(server.got) = client.accepted
    BY DEF NothingStranded
  <2> DEFINE c == client
             s == server
  <2>1. /\ ClientShape(c) /\ CType(c) /\ Flushed(c) /\ UpGap(c, s) /\ UpOrder(c, s)
        /\ s \in ServerType
    BY DEF IInv, Base
  <2>2. /\ c.post = NoRequest /\ c.out = <<>> /\ c.writable /\ c.ws # "connecting"
        /\ c.ws \in {"closed", "gone"} => c.transport = "polling"
        /\ c.readyState = "open" /\ ~c.upgrading
        /\ s.session = "connected" /\ s.sessions <= 1 /\ ~s.done
    BY DEF Still
  <2> HIDE DEF c, s
  <2>3. /\ c.accepted \in Nat /\ Len(s.got) \in Nat /\ s.got \in Seq(Nat)
        /\ c.transport \in {"polling", "websocket"}
    BY <2>1, SequenceTypes, LenProperties DEF ServerType
  <2>4. Writable(c)
    BY <2>1, <2>2, <2>3 DEF ClientShape, Writable
  <2>5. c.writeBuffer = <<>> /\ c.prevBufferLen = 0
    BY <2>1, <2>2, <2>4 DEF Flushed, ClientShape
  <2>6. Msgs(Rest(c)) = {} /\ Msgs(c.post.packets) = {} /\ Msgs(c.out) = {}
    <3>1. After(<<>>, 0) = <<>>
      BY DEF After
    <3>2. Rest(c) = <<>>
      BY <2>5, <3>1 DEF Rest
    <3> QED
      BY <2>2, <3>2, MsgsEmpty, RequestFields
  <2>7. Sending(c)
    BY <2>1, <2>2, RequestFields DEF Sending, ClientShape
  <2>8. Len(s.got) + 1 .. c.accepted = {}
    BY <2>1, <2>2, <2>6, <2>7 DEF UpGap
  <2>9. c.accepted <= Len(s.got)
    BY <2>3, <2>8
  <2>10. Len(s.got) <= c.accepted
    <3>1. CASE Len(s.got) = 0
      BY <2>3, <3>1
    <3>2. CASE Len(s.got) # 0
      <4>1. Len(s.got) \in 1 .. Len(s.got) /\ DOMAIN s.got = 1 .. Len(s.got)
        BY <2>3, <3>2
      <4>2. s.got[Len(s.got)] = Len(s.got)
        BY <2>1, <2>2, <4>1 DEF UpGap
      <4>3. Len(s.got) \in Range(s.got)
        BY <4>1, <4>2 DEF Range
      <4> QED
        BY <2>1, <2>3, <4>3 DEF UpOrder
    <3> QED
      BY <3>1, <3>2
  <2>11. c.writeBuffer = <<>> /\ Len(s.got) = c.accepted
    BY <2>3, <2>5, <2>9, <2>10
  <2> QED
    BY <2>11 DEF c, s
<1> QED
  BY <1>1, Inductive, PTL
=============================================================================
