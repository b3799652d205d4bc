--------------------------- MODULE ClientManagerProofs ---------------------------
(***************************************************************************)
(* Proofs about ClientManager, for any finite set of namespaces and any    *)
(* number of attempts and events.                                          *)
(***************************************************************************)
EXTENDS ClientManager, FiniteSetTheorems, SequenceTheorems, WellFoundedInduction, TLAPS

-----------------------------------------------------------------------------
(* What the Manager listens to, and what it waits for.  A reconnection that *)
(* is due and that no connect() interfered with has its timer running or    *)
(* its engine opening.                                                      *)
Openers  == {"first", "retry"}
Opening  == {"opening", "open"}
Interfered(m) == "interfered" \in m.history

Listening(m) ==
  /\ m.readyState = "closed" => m.subs \subseteq {<<m.engine, "events">>}
  /\ m.readyState = "opening" =>
       \E k \in Openers : /\ <<m.engine, k>> \in m.subs
                          /\ m.subs \subseteq {<<m.engine, k>>, <<Other(m.engine), "events">>}
  /\ m.readyState = "open" => m.subs = {<<m.engine, "events">>}
  /\ <<m.engine, "retry">> \in m.subs => m.subs = {<<m.engine, "retry">>}

Trying(m) ==
  /\ m.readyState # "closed" => ~m.skipReconnect
  /\ m.readyState = "closed" /\ ~m.skipReconnect =>
       m.subs = {} /\ (m.timer \/ m.history \cap {"failed", "interfered"} # {})
  /\ m.attempts # 0 => m.reconnecting
  /\ m.reconnecting =>
       /\ ~m.skipReconnect
       /\ \/ Interfered(m)
          \/ m.timer /\ m.readyState = "closed"
          \/ m.subs = {<<m.engine, "retry">>}

(* Nobody opened a second engine while the Manager listened to one.         *)
Alone(m) ==
  "reopened" \notin m.history =>
    /\ m.state[Other(m.engine)] \notin Opening
    /\ <<Other(m.engine), "events">> \notin m.subs
Quiet(m) ==
  "reopened" \notin m.history /\ m.readyState = "closed" => m.state[m.engine] \notin Opening

Control(m) == Listening(m) /\ Trying(m) /\ Alone(m) /\ Quiet(m)

-----------------------------------------------------------------------------
(* The order of the events: of those written, those being encoded, those    *)
(* that wait for it, those in S that are about to be written, and those that *)
(* wait for their Socket to be connected.  clean: nothing has happened for  *)
(* which InOrder makes an exception.                                        *)
Ev(p)        == p.kind = "event"
Evs(ps)      == {ps[i] : i \in {j \in DOMAIN ps : Ev(ps[j])}}
Clean(m)     == m.history \cap {"cutIn", "stale"} = {}
Queued(m)    == UNION {Evs(m.sendBuffer[s]) : s \in Sockets}

Before(clean, p, q) ==
  /\ p.n # q.n
  /\ clean /\ p.socket = q.socket => p.n < q.n
AllBefore(clean, P, Q) == \A p \in P, q \in Q : Before(clean, p, q)
Sorted(clean, ps) ==
  \A i, j \in DOMAIN ps : i < j /\ Ev(ps[i]) /\ Ev(ps[j]) => Before(clean, ps[i], ps[j])

Proper(ps) == \A i \in DOMAIN ps : Ev(ps[i]) \/ ps[i].n \notin Blobs

Ordered(clean, m, S) ==
  /\ \A p \in Evs(m.sent) \cup m.jobs \cup Evs(m.packetBuffer) \cup S \cup Queued(m) :
       p.n \in 1 .. m.accepted
  /\ \A p \in m.jobs : Ev(p)
  /\ \A i \in DOMAIN m.sent : Ev(m.sent[i])
  /\ Sorted(clean, m.sent) /\ Sorted(clean, m.packetBuffer)
  /\ \A s \in Sockets : Sorted(clean, m.sendBuffer[s])
  /\ \A p, q \in m.jobs : p # q => p.n # q.n /\ ~clean
  /\ AllBefore(clean, Evs(m.sent), m.jobs \cup Evs(m.packetBuffer) \cup S \cup Queued(m))
  /\ AllBefore(clean, m.jobs, Evs(m.packetBuffer) \cup S \cup Queued(m))
  /\ AllBefore(clean, Evs(m.packetBuffer), S \cup Queued(m))
  /\ AllBefore(clean, S, Queued(m))
  /\ \A s, t \in Sockets : s # t =>
       AllBefore(FALSE, Evs(m.sendBuffer[s]), Evs(m.sendBuffer[t]))
  /\ \A s \in Sockets : \A p \in Evs(m.sendBuffer[s]) : p.socket = s
  /\ Proper(m.packetBuffer) /\ \A s \in Sockets : Proper(m.sendBuffer[s])
  /\ ~m.encoding => m.packetBuffer = <<>>
  /\ clean /\ ~m.encoding => m.jobs = {}

Unbuffered(m) == \A s \in m.connected : m.sendBuffer[s] = <<>>

Inv(m) ==
  /\ m \in ClientType /\ Control(m)
  /\ Ordered(Clean(m), m, {}) /\ Unbuffered(m)

IInv == Inv(c)
-----------------------------------------------------------------------------
(* Induction: a set of numbers that is not empty has a least one.           *)
LEMMA Least ==
  ASSUME NEW T \in SUBSET Nat, T # {}
  PROVE  \E m \in T : \A k \in T : m <= k
<1> DEFINE R == {ss \in Nat \X Nat : ss[1] < ss[2]}
<1>1. IsWellFoundedOn(R, Nat)
  BY NatLessThanWellFounded, Zenon DEF OpToRel
<1>2. \A x, y \in Nat : ~ (<<y, x>> \in R) => x <= y
  OBVIOUS
<1> HIDE DEF R
<1>3. \E x \in T : \A y \in T : ~ (<<y, x>> \in R)
  BY <1>1, WFMin, Zenon
<1> QED
  BY <1>2, <1>3

LEMMA Induction ==
  ASSUME NEW N \in Nat, NEW S, 0 \in S, \A k \in 0 .. N - 1 : k \in S => k + 1 \in S
  PROVE  \A k \in 0 .. N : k \in S
<1> SUFFICES ASSUME NEW k \in 0 .. N, k \notin S PROVE FALSE
  OBVIOUS
<1> DEFINE T == {j \in 0 .. N : j \notin S}
<1>1. PICK m \in T : \A j \in T : m <= j
  <2>1. T \in SUBSET Nat /\ k \in T
    OBVIOUS
  <2> HIDE DEF T
  <2> QED
    BY <2>1, Least
<1>2. m # 0 /\ m - 1 \in 0 .. N - 1
  OBVIOUS
<1>3. m - 1 \in S
  <2>1. m - 1 \notin T
    BY <1>1, <1>2
  <2>2. m - 1 \in 0 .. N
    OBVIOUS
  <2> QED
    BY <2>1, <2>2
<1>4. (m - 1) + 1 \in S
  BY <1>2, <1>3
<1> QED
  BY <1>4

LEMMA MaxOf ==
  ASSUME NEW n \in Nat, NEW s \in SUBSET (1 .. n), s # {}
  PROVE  /\ Max(s) \in s
         /\ \A y \in s : y <= Max(s)
<1> DEFINE T == {n - y : y \in s}
<1>1. PICK m \in T : \A j \in T : m <= j
  <2>1. T \in SUBSET Nat
    OBVIOUS
  <2>2. PICK y \in s : TRUE
    OBVIOUS
  <2>3. n - y \in T
    OBVIOUS
  <2> HIDE DEF T
  <2> QED
    BY <2>1, <2>3, Least
<1>2. PICK x \in s : m = n - x
  OBVIOUS
<1>3. \A y \in s : x >= y
  <2> TAKE y \in s
  <2>1. n - y \in T
    OBVIOUS
  <2>2. n - x <= n - y
    BY <1>1, <1>2, <2>1
  <2> QED
    BY <2>2
<1>4. \E z \in s : \A y \in s : z >= y
  BY <1>3
<1>5. Max(s) \in s /\ \A y \in s : Max(s) >= y
  <2> DEFINE P(z) == z \in s /\ \A y \in s : z >= y
  <2>1. Max(s) = CHOOSE z : P(z)
    BY Zenon DEF Max
  <2>2. \E z : P(z)
    BY <1>4
  <2> HIDE DEF P
  <2>3. P(Max(s))
    BY <2>1, <2>2, Zenon
  <2> QED
    BY <2>3 DEF P
<1> QED
  BY <1>5


-----------------------------------------------------------------------------
(* Packets are written one after the other: the fold is the last of *)
(* the states that its steps go through.                                    *)
LEMMA WriteAllSteps ==
  ASSUME NEW m, NEW ps \in Seq(Packets)
  PROVE  \E g : /\ g[0] = m /\ g[Len(ps)] = WriteAll(m, ps)
                /\ \A i \in 1 .. Len(ps) : g[i] = WritePacket(g[i - 1], ps[i])
<1> DEFINE N == Len(ps)
           G(f, s) == IF s = {} THEN m ELSE WritePacket(f[s \ {Max(s)}], ps[Max(s)])
           F(f, D) == f = [s \in SUBSET D |-> G(f, s)]
<1>1. WriteAll(m, ps) = (CHOOSE f : F(f, DOMAIN ps))[DOMAIN ps]
  BY Zenon DEF WriteAll, FoldLeft, MapThenFoldSet
<1>2. N \in Nat /\ DOMAIN ps = 1 .. N
  BY LenProperties
<1> HIDE DEF N
<1>3. \A k \in 0 .. N : \E f : F(f, 1 .. k)
  <2> DEFINE S == {k \in 0 .. N : \E f : F(f, 1 .. k)}
  <2>1. 0 \in S
    <3>1. F([s \in SUBSET (1 .. 0) |-> m], 1 .. 0)
      <4>1. \A s \in SUBSET (1 .. 0) : s = {}
        OBVIOUS
      <4>2. \A f : \A s \in SUBSET (1 .. 0) : G(f, s) = m
        BY <4>1
      <4> HIDE DEF G
      <4> QED
        BY <4>2
    <3> QED
      BY <1>2, <3>1
  <2>2. ASSUME NEW k \in 0 .. N - 1, k \in S PROVE k + 1 \in S
    <3>1. PICK f : F(f, 1 .. k)
      BY <2>2
    <3> DEFINE h == [s \in SUBSET (1 .. k + 1) |->
                       IF k + 1 \in s THEN WritePacket(f[s \ {k + 1}], ps[k + 1]) ELSE f[s]]
    <3>2. \A s \in SUBSET (1 .. k + 1) : h[s] = G(h, s)
      <4> TAKE s \in SUBSET (1 .. k + 1)
      <4>1. CASE k + 1 \in s
        <5>1. Max(s) = k + 1
          <6>1. k + 1 \in Nat /\ s # {}
            BY <1>2, <4>1
          <6>2. Max(s) \in s /\ \A y \in s : y <= Max(s)
            BY <6>1, MaxOf
          <6>3. \A y \in s : y \in Nat /\ y <= k + 1
            BY <1>2
          <6>4. k + 1 <= Max(s) /\ Max(s) <= k + 1 /\ Max(s) \in Nat
            BY <4>1, <6>2, <6>3
          <6> QED
            BY <1>2, <6>4
        <5>2. s \ {k + 1} \in SUBSET (1 .. k) /\ s \ {k + 1} \in SUBSET (1 .. k + 1)
              /\ k + 1 \notin s \ {k + 1}
          BY <1>2
        <5>3. h[s \ {k + 1}] = f[s \ {k + 1}]
          BY <5>2
        <5>4. h[s] = WritePacket(f[s \ {k + 1}], ps[k + 1])
          BY <4>1
        <5> QED
          BY <4>1, <5>1, <5>3, <5>4, Zenon
      <4>2. CASE k + 1 \notin s
        <5>1. s \in SUBSET (1 .. k) /\ s \in SUBSET (1 .. k + 1) /\ k \in Nat
          BY <1>2, <4>2
        <5>2. h[s] = f[s] /\ f[s] = G(f, s)
          BY <3>1, <4>2, <5>1
        <5>3. CASE s = {}
          BY <5>2, <5>3, Zenon
        <5>4. CASE s # {}
          <6>1. s \ {Max(s)} \in SUBSET (1 .. k + 1) /\ k + 1 \notin s \ {Max(s)}
            BY <4>2, <5>1
          <6>2. h[s \ {Max(s)}] = f[s \ {Max(s)}]
            BY <6>1
          <6> QED
            BY <5>2, <6>2, Zenon
        <5> QED
          BY <5>3, <5>4
      <4> QED
        BY <4>1, <4>2
    <3>3. F(h, 1 .. k + 1)
      <4>1. h = [s \in SUBSET (1 .. k + 1) |-> h[s]]
        OBVIOUS
      <4> HIDE DEF h, G
      <4> QED
        BY <3>2, <4>1
    <3> HIDE DEF F
    <3> QED
      BY <1>2, <3>3
  <2> HIDE DEF F
  <2>3. \A k \in 0 .. N : k \in S
    <3> HIDE DEF S
    <3> QED
      BY <1>2, <2>1, <2>2, Induction
  <2> QED
    BY <2>3
<1> DEFINE f == CHOOSE f : F(f, 1 .. N)
<1>4. F(f, 1 .. N)
  <2> HIDE DEF F
  <2>0. N \in 0 .. N
    BY <1>2
  <2>1. \E x : F(x, 1 .. N)
    BY <1>3, <2>0
  <2> QED
    BY <2>1, Zenon
<1>5. WriteAll(m, ps) = f[1 .. N]
  BY <1>1, <1>2, Zenon
<1> HIDE DEF f
<1> DEFINE g == [i \in 0 .. N |-> f[1 .. i]]
<1>6. g[0] = m
  <2>1. {} \in SUBSET (1 .. N) /\ 1 .. 0 = {} /\ g[0] = f[1 .. 0]
    BY <1>2
  <2> QED
    BY <1>4, <2>1
<1>7. g[N] = WriteAll(m, ps)
  BY <1>2, <1>5
<1>8. ASSUME NEW i \in 1 .. N PROVE g[i] = WritePacket(g[i - 1], ps[i])
  <2> HIDE DEF F, g
  <2>1. /\ 1 .. i \in SUBSET (1 .. N) /\ 1 .. i # {} /\ i \in Nat
        /\ (1 .. i) \ {i} = 1 .. i - 1 /\ i - 1 \in 0 .. N /\ i \in 0 .. N
    <3>1. i \in 1 .. i /\ i \in Nat /\ i - 1 \in 0 .. N /\ i \in 0 .. N
      BY <1>2
    <3>2. 1 .. i \in SUBSET (1 .. N)
      BY <1>2
    <3>3. (1 .. i) \ {i} = 1 .. i - 1
      BY <1>2
    <3> QED
      BY <3>1, <3>2, <3>3
  <2>2. Max(1 .. i) = i
    <3>1. Max(1 .. i) \in 1 .. i /\ \A y \in 1 .. i : y <= Max(1 .. i)
      BY <2>1, MaxOf
    <3> QED
      BY <2>1, <3>1
  <2>3. f[1 .. i] = WritePacket(f[(1 .. i) \ {i}], ps[i])
    <3>1. f[1 .. i] = G(f, 1 .. i)
      BY <1>4, <2>1 DEF F
    <3> QED
      BY <2>1, <2>2, <3>1, Zenon
  <2>4. g[i] = f[1 .. i] /\ g[i - 1] = f[1 .. i - 1]
    BY <2>1 DEF g
  <2> QED
    BY <2>1, <2>3, <2>4, Zenon
<1> HIDE DEF g
<1> QED
  BY <1>6, <1>7, <1>8 DEF N
-----------------------------------------------------------------------------
(* The events of sequences of packets.                                      *)
One(p) == IF Ev(p) THEN {p} ELSE {}

LEMMA EvsEmpty ==
  /\ Evs(<<>>) = {} /\ Proper(<<>>)
  /\ \A clean : Sorted(clean, <<>>)
BY DEF Evs, Sorted, Proper

LEMMA EvsAppend ==
  ASSUME NEW ps \in Seq(Packets), NEW p \in Packets
  PROVE  /\ Evs(Append(ps, p)) = Evs(ps) \cup One(p)
         /\ Proper(ps) /\ (Ev(p) \/ p.n \notin Blobs) => Proper(Append(ps, p))
         /\ \A clean : Sorted(clean, ps) /\ AllBefore(clean, Evs(ps), One(p))
                         => Sorted(clean, Append(ps, p))
         /\ (\A i \in DOMAIN ps : Ev(ps[i])) /\ Ev(p)
              => \A i \in DOMAIN Append(ps, p) : Ev(Append(ps, p)[i])
<1> DEFINE a == Append(ps, p)
<1>1. /\ DOMAIN a = 1 .. Len(ps) + 1 /\ DOMAIN ps = 1 .. Len(ps) /\ Len(ps) \in Nat
      /\ \A i \in 1 .. Len(ps) : a[i] = ps[i]
      /\ a[Len(ps) + 1] = p
  BY AppendProperties, LenProperties
<1> HIDE DEF a
<1>2. Evs(a) = Evs(ps) \cup One(p)
  <2>1. ASSUME NEW x \in Evs(a) PROVE x \in Evs(ps) \cup One(p)
    BY <1>1, <2>1 DEF Evs, One
  <2>2. ASSUME NEW x \in Evs(ps) PROVE x \in Evs(a)
    BY <1>1, <2>2 DEF Evs
  <2>3. ASSUME NEW x \in One(p) PROVE x \in Evs(a)
    BY <1>1, <2>3 DEF Evs, One
  <2> QED
    BY <2>1, <2>2, <2>3
<1>3. Proper(ps) /\ (Ev(p) \/ p.n \notin Blobs) => Proper(a)
  BY <1>1 DEF Proper
<1>4. ASSUME NEW clean, Sorted(clean, ps), AllBefore(clean, Evs(ps), One(p))
      PROVE  Sorted(clean, a)
  <2> SUFFICES ASSUME NEW i \in 1 .. Len(ps) + 1, NEW j \in 1 .. Len(ps) + 1, i < j,
                      Ev(a[i]), Ev(a[j])
               PROVE  Before(clean, a[i], a[j])
    BY <1>1 DEF Sorted
  <2>1. i \in 1 .. Len(ps)
    BY <1>1
  <2>2. CASE j \in 1 .. Len(ps)
    BY <1>1, <1>4, <2>1, <2>2 DEF Sorted
  <2>3. CASE j = Len(ps) + 1
    <3>1. a[i] \in Evs(ps) /\ a[j] \in One(p)
      BY <1>1, <2>1, <2>3 DEF Evs, One
    <3> QED
      BY <1>4, <3>1 DEF AllBefore
  <2> QED
    BY <1>1, <2>2, <2>3
<1>5. (\A i \in DOMAIN ps : Ev(ps[i])) /\ Ev(p) => \A i \in DOMAIN a : Ev(a[i])
  BY <1>1
<1> QED
  BY <1>2, <1>3, <1>4, <1>5 DEF a

(* The events from the next on.                                             *)
Left(ps, k) == {ps[i] : i \in {j \in k + 1 .. Len(ps) : Ev(ps[j])}}

LEMMA LeftSteps ==
  ASSUME NEW ps \in Seq(Packets)
  PROVE  /\ Left(ps, 0) = Evs(ps) /\ Left(ps, Len(ps)) = {}
         /\ \A k \in 1 .. Len(ps) :
              /\ Left(ps, k - 1) = Left(ps, k) \cup One(ps[k])
              /\ \A clean : Sorted(clean, ps) => AllBefore(clean, One(ps[k]), Left(ps, k))
<1>1. DOMAIN ps = 1 .. Len(ps) /\ Len(ps) \in Nat
  BY LenProperties
<1>2. Left(ps, 0) = Evs(ps)
  BY <1>1 DEF Left, Evs
<1>3. Left(ps, Len(ps)) = {}
  <2>1. Len(ps) + 1 .. Len(ps) = {}
    BY <1>1
  <2> QED
    BY <2>1 DEF Left
<1>4. ASSUME NEW k \in 1 .. Len(ps)
      PROVE  Left(ps, k - 1) = Left(ps, k) \cup One(ps[k])
  <2>1. (k - 1) + 1 .. Len(ps) = (k + 1 .. Len(ps)) \cup {k}
    BY <1>1
  <2> QED
    BY <2>1 DEF Left, One
<1>5. ASSUME NEW k \in 1 .. Len(ps), NEW clean, Sorted(clean, ps)
      PROVE  AllBefore(clean, One(ps[k]), Left(ps, k))
  BY <1>1, <1>5 DEF Sorted, AllBefore, One, Left
<1> QED
  BY <1>2, <1>3, <1>4, <1>5

-----------------------------------------------------------------------------
(* What writing packets leaves alone.                                       *)
Wrote(m, d) ==
  /\ d \in ClientType
  /\ d.readyState = m.readyState /\ d.engine = m.engine
  /\ d.skipReconnect = m.skipReconnect /\ d.reconnecting = m.reconnecting
  /\ d.timer = m.timer /\ d.attempts = m.attempts /\ d.subs = m.subs
  /\ d.connecting = m.connecting /\ d.connected = m.connected
  /\ d.sendBuffer = m.sendBuffer /\ d.accepted = m.accepted
  /\ d.state = m.state /\ d.history = m.history

LEMMA WriteEngineFields ==
  ASSUME NEW m \in ClientType, NEW p \in Packets, NEW d, d = WriteEngine(m, p)
  PROVE  /\ Wrote(m, d) /\ d.encoding = m.encoding /\ d.jobs = m.jobs
         /\ d.packetBuffer = m.packetBuffer
         /\ d.sent = m.sent \/ (Ev(p) /\ d.sent = Append(m.sent, p))
<1> DEFINE x == [m EXCEPT !.unsent = TRUE]
           sent == IF p.kind = "event" THEN Append(m.sent, p) ELSE m.sent
           answers == IF p.kind = "connect" THEN m.answers \cup {p.socket} ELSE m.answers
           y == [x EXCEPT !.sent = sent]
           z == [y EXCEPT !.answers = answers]
<1>1. CASE m.state[m.engine] \notin {"opening", "open"}
  <2>1. d = m
    BY <1>1 DEF WriteEngine
  <2> QED
    BY <2>1 DEF Wrote
<1>2. CASE m.state[m.engine] \in {"opening", "open"}
  <2>1. d = [m EXCEPT !.unsent = TRUE, !.sent = sent, !.answers = answers]
    BY <1>2 DEF WriteEngine
  <2>2. m.sent \in Seq(Packets) /\ p.socket \in Sockets /\ m.answers \in SUBSET Sockets
    BY DEF ClientType, Packets
  <2>3. sent \in Seq(Packets) /\ answers \in SUBSET Sockets
    BY <2>2, AppendProperties
  <2>4. sent = m.sent \/ (Ev(p) /\ sent = Append(m.sent, p))
    BY DEF Ev
  <2> HIDE DEF sent, answers
  <2>5. d = z
    BY <2>1 DEF ClientType
  <2>6. x \in ClientType /\ y \in ClientType /\ z \in ClientType
    <3>1. x \in ClientType
      BY DEF ClientType
    <3> HIDE DEF x
    <3>2. y \in ClientType
      BY <2>3, <3>1 DEF ClientType
    <3> HIDE DEF y
    <3>3. z \in ClientType
      BY <2>3, <3>2 DEF ClientType
    <3> QED
      BY <3>1, <3>2, <3>3
  <2>7. /\ z.readyState = m.readyState /\ z.engine = m.engine
        /\ z.skipReconnect = m.skipReconnect /\ z.reconnecting = m.reconnecting
        /\ z.timer = m.timer /\ z.attempts = m.attempts /\ z.subs = m.subs
        /\ z.connecting = m.connecting /\ z.connected = m.connected
        /\ z.sendBuffer = m.sendBuffer /\ z.accepted = m.accepted
        /\ z.state = m.state /\ z.history = m.history
        /\ z.encoding = m.encoding /\ z.jobs = m.jobs
        /\ z.packetBuffer = m.packetBuffer /\ z.sent = sent
    BY DEF ClientType
  <2> HIDE DEF z
  <2> QED
    BY <2>4, <2>5, <2>6, <2>7 DEF Wrote
<1> QED
  BY <1>1, <1>2

LEMMA WritePacketFields ==
  ASSUME NEW m \in ClientType, NEW p \in Packets, NEW d, d = WritePacket(m, p)
  PROVE  /\ Wrote(m, d)
         /\ \/ /\ m.encoding /\ d.encoding /\ d.packetBuffer = Append(m.packetBuffer, p)
               /\ d.jobs = m.jobs /\ d.sent = m.sent
            \/ /\ ~m.encoding /\ p.n \in Blobs /\ d.encoding /\ d.jobs = m.jobs \cup {p}
               /\ d.packetBuffer = m.packetBuffer /\ d.sent = m.sent
            \/ /\ ~m.encoding /\ d.encoding = m.encoding /\ d.jobs = m.jobs
               /\ d.packetBuffer = m.packetBuffer
               /\ d.sent = m.sent \/ (Ev(p) /\ d.sent = Append(m.sent, p))
<1>1. CASE m.encoding
  <2> DEFINE q == Append(m.packetBuffer, p)
             x == [m EXCEPT !.packetBuffer = q]
  <2>1. d = x
    BY <1>1 DEF WritePacket, ClientType
  <2>2. q \in Seq(Packets)
    BY AppendProperties DEF ClientType
  <2> HIDE DEF q
  <2>3. /\ Wrote(m, x) /\ x.encoding = m.encoding /\ x.packetBuffer = q
        /\ x.jobs = m.jobs /\ x.sent = m.sent
    BY <2>2 DEF ClientType, Wrote
  <2> HIDE DEF x
  <2> QED
    BY <1>1, <2>1, <2>3 DEF q
<1>2. CASE ~m.encoding /\ p.n \in Blobs
  <2> DEFINE y == [m EXCEPT !.encoding = TRUE]
             x == [y EXCEPT !.jobs = m.jobs \cup {p}]
  <2>1. d = x
    BY <1>2 DEF WritePacket, ClientType
  <2>2. y \in ClientType /\ y.jobs \in SUBSET Packets /\ y.jobs = m.jobs
    BY DEF ClientType
  <2>3. x \in ClientType
    <3> HIDE DEF y
    <3> QED
      BY <2>2 DEF ClientType
  <2>4. /\ x.readyState = m.readyState /\ x.engine = m.engine
        /\ x.skipReconnect = m.skipReconnect /\ x.reconnecting = m.reconnecting
        /\ x.timer = m.timer /\ x.attempts = m.attempts /\ x.subs = m.subs
        /\ x.connecting = m.connecting /\ x.connected = m.connected
        /\ x.sendBuffer = m.sendBuffer /\ x.accepted = m.accepted
        /\ x.state = m.state /\ x.history = m.history
        /\ x.encoding = TRUE /\ x.jobs = m.jobs \cup {p}
        /\ x.packetBuffer = m.packetBuffer /\ x.sent = m.sent
    BY DEF ClientType
  <2> HIDE DEF x
  <2> QED
    BY <1>2, <2>1, <2>3, <2>4 DEF Wrote
<1>3. CASE ~m.encoding /\ p.n \notin Blobs
  <2>1. d = WriteEngine(m, p)
    BY <1>3 DEF WritePacket
  <2> QED
    BY <1>3, <2>1, WriteEngineFields
<1> QED
  BY <1>1, <1>2, <1>3

(* The order of the events does not change with the fields it is not about. *)
LEMMA OrderedSame ==
  ASSUME NEW clean, NEW m, NEW d, NEW S, Ordered(clean, m, S),
         d.sent = m.sent, d.jobs = m.jobs, d.packetBuffer = m.packetBuffer,
         d.encoding = m.encoding, d.sendBuffer = m.sendBuffer, d.accepted = m.accepted
  PROVE  Ordered(clean, d, S)
BY DEF Ordered, Queued

(* An event less to write is no harm.                                       *)
LEMMA OrderedLess ==
  ASSUME NEW clean, NEW m, NEW S, NEW T \in SUBSET S, Ordered(clean, m, S)
  PROVE  Ordered(clean, m, T)
BY DEF Ordered, AllBefore

LEMMA OrderedWrite ==
  ASSUME NEW clean \in BOOLEAN, NEW m \in ClientType, NEW p \in Packets, NEW S,
         Ordered(clean, m, S \cup One(p)), AllBefore(clean, One(p), S),
         Ev(p) \/ p.n \notin Blobs, NEW d, d = WritePacket(m, p)
  PROVE  Ordered(clean, d, S)
<1> DEFINE T == S \cup One(p)
<1>1. /\ m.sent \in Seq(Packets) /\ m.packetBuffer \in Seq(Packets)
      /\ m.jobs \subseteq Packets
  BY DEF ClientType
<1>2. d.sendBuffer = m.sendBuffer /\ d.accepted = m.accepted /\ Queued(d) = Queued(m)
  BY WritePacketFields DEF Wrote, Queued
<1>3. Ordered(clean, m, T)
  OBVIOUS
<1>4. S \subseteq T
  OBVIOUS
<1>5. CASE /\ m.encoding /\ d.encoding /\ d.packetBuffer = Append(m.packetBuffer, p)
           /\ d.jobs = m.jobs /\ d.sent = m.sent
  <2> HIDE DEF T
  <2>1. /\ Evs(d.packetBuffer) = Evs(m.packetBuffer) \cup One(p)
        /\ Proper(d.packetBuffer)
    BY <1>1, <1>3, <1>5, EvsAppend DEF Ordered
  <2>2. Sorted(clean, d.packetBuffer)
    <3>1. AllBefore(clean, Evs(m.packetBuffer), One(p))
      BY <1>3 DEF Ordered, AllBefore, T
    <3>2. Sorted(clean, m.packetBuffer)
      BY <1>3 DEF Ordered
    <3> QED
      BY <1>1, <1>5, <3>1, <3>2, EvsAppend
  <2>3. \A x \in Evs(d.sent) \cup d.jobs \cup Evs(d.packetBuffer) \cup S \cup Queued(d) :
          x.n \in 1 .. d.accepted
    BY <1>2, <1>3, <1>5, <2>1 DEF Ordered, T
  <2>4. /\ AllBefore(clean, Evs(d.sent), d.jobs \cup Evs(d.packetBuffer) \cup S \cup Queued(d))
        /\ AllBefore(clean, d.jobs, Evs(d.packetBuffer) \cup S \cup Queued(d))
        /\ AllBefore(clean, Evs(d.packetBuffer), S \cup Queued(d))
        /\ AllBefore(clean, S, Queued(d))
    BY <1>2, <1>3, <1>5, <2>1 DEF Ordered, T, AllBefore
  <2> QED
    BY <1>2, <1>3, <1>5, <2>1, <2>2, <2>3, <2>4 DEF Ordered
<1>6. CASE /\ ~m.encoding /\ p.n \in Blobs /\ d.encoding /\ d.jobs = m.jobs \cup {p}
           /\ d.packetBuffer = m.packetBuffer /\ d.sent = m.sent
  <2> HIDE DEF T
  <2>1. Ev(p) /\ One(p) = {p} /\ p \in T
    BY <1>6 DEF One, T
  <2>2. Evs(m.packetBuffer) = {}
    BY <1>3, <1>6, EvsEmpty DEF Ordered
  <2>3. \A x, y \in d.jobs : x # y => x.n # y.n /\ ~clean
    <3>1. clean => m.jobs = {}
      BY <1>3, <1>6 DEF Ordered
    <3>2. \A x \in m.jobs : x.n # p.n
      BY <1>3, <2>1 DEF Ordered, AllBefore, Before
    <3> QED
      BY <1>3, <1>6, <3>1, <3>2 DEF Ordered
  <2>4. \A x \in Evs(d.sent) \cup d.jobs \cup Evs(d.packetBuffer) \cup S \cup Queued(d) :
          x.n \in 1 .. d.accepted
    BY <1>2, <1>3, <1>6, <2>1 DEF Ordered, T
  <2>5. /\ AllBefore(clean, Evs(d.sent), d.jobs \cup Evs(d.packetBuffer) \cup S \cup Queued(d))
        /\ AllBefore(clean, d.jobs, Evs(d.packetBuffer) \cup S \cup Queued(d))
        /\ AllBefore(clean, Evs(d.packetBuffer), S \cup Queued(d))
        /\ AllBefore(clean, S, Queued(d))
    BY <1>2, <1>3, <1>6, <2>1, <2>2 DEF Ordered, T, AllBefore
  <2> QED
    BY <1>2, <1>3, <1>6, <2>1, <2>3, <2>4, <2>5 DEF Ordered
<1>7. CASE /\ ~m.encoding /\ d.encoding = m.encoding /\ d.jobs = m.jobs
           /\ d.packetBuffer = m.packetBuffer /\ d.sent = m.sent
  <2> HIDE DEF T
  <2>1. Ordered(clean, d, T)
    BY <1>2, <1>3, <1>7, OrderedSame
  <2> QED
    BY <1>4, <2>1, OrderedLess
<1>8. CASE /\ ~m.encoding /\ d.encoding = m.encoding /\ d.jobs = m.jobs
           /\ d.packetBuffer = m.packetBuffer /\ Ev(p) /\ d.sent = Append(m.sent, p)
  <2> HIDE DEF T
  <2>1. One(p) = {p} /\ p \in T
    BY <1>8 DEF One, T
  <2>2. Evs(m.packetBuffer) = {}
    BY <1>3, <1>8, EvsEmpty DEF Ordered
  <2>3. /\ Evs(d.sent) = Evs(m.sent) \cup {p}
        /\ \A i \in DOMAIN d.sent : Ev(d.sent[i])
    <3>1. \A i \in DOMAIN m.sent : Ev(m.sent[i])
      BY <1>3 DEF Ordered
    <3> QED
      BY <1>1, <1>8, <2>1, <3>1, EvsAppend
  <2>4. Sorted(clean, d.sent)
    <3>1. AllBefore(clean, Evs(m.sent), One(p))
      BY <1>3 DEF Ordered, AllBefore, T
    <3>2. Sorted(clean, m.sent)
      BY <1>3 DEF Ordered
    <3> QED
      BY <1>1, <1>8, <3>1, <3>2, EvsAppend
  <2>5. AllBefore(clean, {p}, m.jobs)
    <3>1. clean => m.jobs = {}
      BY <1>3, <1>8 DEF Ordered
    <3>2. \A x \in m.jobs : x.n # p.n
      BY <1>3, <2>1 DEF Ordered, AllBefore, Before
    <3> QED
      BY <3>1, <3>2 DEF AllBefore, Before
  <2>6. \A x \in Evs(d.sent) \cup d.jobs \cup Evs(d.packetBuffer) \cup S \cup Queued(d) :
          x.n \in 1 .. d.accepted
    BY <1>2, <1>3, <1>8, <2>1, <2>3 DEF Ordered, T
  <2>7. /\ AllBefore(clean, Evs(d.sent), d.jobs \cup Evs(d.packetBuffer) \cup S \cup Queued(d))
        /\ AllBefore(clean, d.jobs, Evs(d.packetBuffer) \cup S \cup Queued(d))
        /\ AllBefore(clean, Evs(d.packetBuffer), S \cup Queued(d))
        /\ AllBefore(clean, S, Queued(d))
    BY <1>2, <1>3, <1>8, <2>1, <2>2, <2>3, <2>5 DEF Ordered, T, AllBefore
  <2> QED
    BY <1>2, <1>3, <1>8, <2>3, <2>4, <2>6, <2>7 DEF Ordered
<1>9. \/ /\ m.encoding /\ d.encoding /\ d.packetBuffer = Append(m.packetBuffer, p)
         /\ d.jobs = m.jobs /\ d.sent = m.sent
      \/ /\ ~m.encoding /\ p.n \in Blobs /\ d.encoding /\ d.jobs = m.jobs \cup {p}
         /\ d.packetBuffer = m.packetBuffer /\ d.sent = m.sent
      \/ /\ ~m.encoding /\ d.encoding = m.encoding /\ d.jobs = m.jobs
         /\ d.packetBuffer = m.packetBuffer
         /\ d.sent = m.sent \/ (Ev(p) /\ d.sent = Append(m.sent, p))
  BY WritePacketFields
<1> QED
  BY <1>5, <1>6, <1>7, <1>8, <1>9

(* Writing several packets in order.                                        *)
LEMMA WriteAllOrdered ==
  ASSUME NEW m \in ClientType, NEW ps \in Seq(Packets), NEW d, d = WriteAll(m, ps)
  PROVE  /\ Wrote(m, d)
         /\ \A clean \in BOOLEAN :
              Ordered(clean, m, Evs(ps)) /\ Sorted(clean, ps) /\ Proper(ps)
                => Ordered(clean, d, {})
<1> DEFINE N == Len(ps)
<1>1. PICK g : /\ g[0] = m /\ g[N] = d
               /\ \A i \in 1 .. N : g[i] = WritePacket(g[i - 1], ps[i])
  BY WriteAllSteps
<1>2. N \in Nat /\ DOMAIN ps = 1 .. N /\ \A i \in 1 .. N : ps[i] \in Packets
  BY LenProperties, ElementOfSeq
<1> HIDE DEF N
<1>3. \A k \in 0 .. N : Wrote(m, g[k])
  <2> DEFINE S == {k \in 0 .. N : Wrote(m, g[k])}
  <2>1. 0 \in S
    BY <1>1, <1>2 DEF Wrote
  <2>2. ASSUME NEW k \in 0 .. N - 1, k \in S PROVE k + 1 \in S
    <3>1. k + 1 \in 1 .. N /\ k + 1 \in 0 .. N /\ (k + 1) - 1 = k
      BY <1>2
    <3>2. Wrote(m, g[k])
      BY <2>2
    <3>3. g[k] \in ClientType /\ ps[k + 1] \in Packets /\ g[k + 1] = WritePacket(g[k], ps[k + 1])
      BY <1>1, <1>2, <3>1, <3>2 DEF Wrote
    <3>4. Wrote(g[k], g[k + 1])
      BY <3>3, WritePacketFields
    <3>5. Wrote(m, g[k + 1])
      BY <3>2, <3>4 DEF Wrote
    <3> QED
      BY <3>1, <3>5
  <2> HIDE DEF S
  <2>3. \A k \in 0 .. N : k \in S
    BY <1>2, <2>1, <2>2, Induction
  <2> QED
    BY <2>3 DEF S
<1>4. ASSUME NEW clean \in BOOLEAN, Ordered(clean, m, Evs(ps)), Sorted(clean, ps), Proper(ps)
      PROVE  Ordered(clean, d, {})
  <2> DEFINE S == {k \in 0 .. N : Ordered(clean, g[k], Left(ps, k))}
  <2>1. 0 \in S
    BY <1>1, <1>2, <1>4, LeftSteps
  <2>2. ASSUME NEW k \in 0 .. N - 1, k \in S PROVE k + 1 \in S
    <3>1. k + 1 \in 1 .. N /\ k + 1 \in 0 .. N /\ (k + 1) - 1 = k
      BY <1>2
    <3> DEFINE p == ps[k + 1]
               T == Left(ps, k + 1)
               a == g[k]
               b == g[k + 1]
    <3>2. a \in ClientType /\ p \in Packets /\ b = WritePacket(a, p)
      BY <1>1, <1>2, <1>3, <3>1 DEF Wrote
    <3>3. Left(ps, k) = T \cup One(p) /\ AllBefore(clean, One(p), T)
      <4>1. k + 1 \in 1 .. Len(ps)
        BY <3>1 DEF N
      <4> QED
        BY <1>4, <3>1, <4>1, LeftSteps
    <3>4. Ev(p) \/ p.n \notin Blobs
      BY <1>2, <1>4, <3>1 DEF Proper
    <3>5. Ordered(clean, a, T \cup One(p))
      BY <2>2, <3>3
    <3> HIDE DEF a, b, p, T
    <3>6. Ordered(clean, b, T)
      BY <3>2, <3>3, <3>4, <3>5, OrderedWrite
    <3> QED
      BY <3>1, <3>6 DEF b, T
  <2> HIDE DEF S
  <2>3. \A k \in 0 .. N : k \in S
    BY <1>2, <2>1, <2>2, Induction
  <2>4. Ordered(clean, g[N], Left(ps, N))
    BY <1>2, <2>3 DEF S
  <2> QED
    BY <1>1, <2>4, LeftSteps DEF N
<1>5. Wrote(m, d)
  BY <1>1, <1>2, <1>3
<1> QED
  BY <1>4, <1>5

(* The CONNECT packets of the Sockets.                                      *)
LEMMA ConnectPackets ==
  ASSUME NEW S \in SUBSET Sockets
  PROVE  LET ps == SetToSeq({Packet("connect", s) : s \in S \ {Root}}) IN
         ps \in Seq(Packets) /\ Evs(ps) = {} /\ Proper(ps) /\ \A clean : Sorted(clean, ps)
<1> DEFINE Op(s) == Packet("connect", s)
           P == S \ {Root}
           T == {Op(s) : s \in P}
           q == SetToSeq(T)
           n == Cardinality(T)
<1>1. IsFiniteSet(P)
  BY FS_Subset, ManagerAssumption
<1>2. IsFiniteSet(T)
  <2> DEFINE f == [s \in P |-> Op(s)]
  <2>1. f \in Surjection(P, T)
    BY DEF Surjection
  <2> HIDE DEF P, T, f
  <2> QED
    BY <1>1, <2>1, FS_Surjection DEF ExistsSurjection
<1>3. \A p \in T : p \in Packets /\ ~Ev(p) /\ p.n = 0
  BY ManagerAssumption DEF Packet, Packets, Kinds, Ev
<1> HIDE DEF T
<1>4. n \in Nat /\ \E f \in [1 .. n -> T] : IsInjective(f)
  BY <1>2, FS_CardinalityType DEF ExistsBijection, Bijection, Injection, IsInjective
<1>5. q \in [1 .. n -> T]
  BY <1>4, Zenon DEF SetToSeq
<1> HIDE DEF n, q
<1>6. q \in Seq(Packets) /\ DOMAIN q = 1 .. n /\ \A i \in 1 .. n : q[i] \in T
  BY <1>3, <1>4, <1>5
<1>7. 0 \notin Blobs
  BY ManagerAssumption
<1>8. Evs(q) = {} /\ Proper(q) /\ \A clean : Sorted(clean, q)
  BY <1>3, <1>6, <1>7 DEF Evs, Proper, Sorted
<1> QED
  BY <1>6, <1>8 DEF q, T

LEMMA SocketsOpenOrdered ==
  ASSUME NEW m \in ClientType, NEW S \in SUBSET Sockets, NEW d, d = SocketsOpen(m, S)
  PROVE  /\ Wrote(m, d)
         /\ \A clean \in BOOLEAN : Ordered(clean, m, {}) => Ordered(clean, d, {})
<1> DEFINE ps == SetToSeq({Packet("connect", s) : s \in S \ {Root}})
<1>1. d = WriteAll(m, ps)
  BY Zenon DEF SocketsOpen
<1>2. ps \in Seq(Packets) /\ Evs(ps) = {} /\ Proper(ps) /\ \A clean : Sorted(clean, ps)
  BY ConnectPackets, Zenon
<1> HIDE DEF ps
<1> QED
  BY <1>1, <1>2, WriteAllOrdered

-----------------------------------------------------------------------------
(* The fields of the state that each function changes.                      *)
LEMMA Others ==
  \A e \in Engines : /\ Other(e) \in Engines /\ Other(e) # e
                     /\ \A f \in Engines : f = e \/ f = Other(e)
BY DEF Engines, Other

LEMMA CleanupFields ==
  ASSUME NEW m \in ClientType, NEW d, d = Cleanup(m)
  PROVE  /\ d \in ClientType
         /\ d.subs = {} /\ d.timer = FALSE /\ d.packetBuffer = <<>> /\ d.encoding = FALSE
         /\ d.history = IF m.jobs = {} THEN m.history ELSE m.history \cup {"stale"}
         /\ d.readyState = m.readyState /\ d.engine = m.engine
         /\ d.skipReconnect = m.skipReconnect /\ d.reconnecting = m.reconnecting
         /\ d.attempts = m.attempts /\ d.connecting = m.connecting
         /\ d.connected = m.connected /\ d.sendBuffer = m.sendBuffer /\ d.jobs = m.jobs
         /\ d.accepted = m.accepted /\ d.sent = m.sent /\ d.state = m.state
<1> DEFINE h == IF m.jobs = {} THEN m.history ELSE m.history \cup {"stale"}
           x == [m EXCEPT !.subs = {}, !.timer = FALSE]
           y == [x EXCEPT !.packetBuffer = <<>>, !.encoding = FALSE]
           z == [y EXCEPT !.history = h]
<1>1. h \in SUBSET {"interfered", "failed", "reopened", "stale", "cutIn"}
  BY DEF ClientType
<1>2. d = [m EXCEPT !.subs = {}, !.timer = FALSE, !.packetBuffer = <<>>, !.encoding = FALSE,
                    !.history = h]
  BY DEF Cleanup
<1> HIDE DEF h
<1>3. x \in ClientType
  BY DEF ClientType
<1>4. y \in ClientType
  <2> HIDE DEF x
  <2> QED
    BY <1>3, EmptySeq DEF ClientType
<1>5. z \in ClientType
  <2> HIDE DEF y
  <2> QED
    BY <1>1, <1>4 DEF ClientType
<1>6. d = z
  BY <1>2 DEF ClientType
<1>7. /\ z.subs = {} /\ z.timer = FALSE /\ z.packetBuffer = <<>> /\ z.encoding = FALSE
      /\ z.history = h
      /\ z.readyState = m.readyState /\ z.engine = m.engine
      /\ z.skipReconnect = m.skipReconnect /\ z.reconnecting = m.reconnecting
      /\ z.attempts = m.attempts /\ z.connecting = m.connecting
      /\ z.connected = m.connected /\ z.sendBuffer = m.sendBuffer /\ z.jobs = m.jobs
      /\ z.accepted = m.accepted /\ z.sent = m.sent /\ z.state = m.state
  BY DEF ClientType
<1> HIDE DEF z
<1> QED
  BY <1>5, <1>6, <1>7 DEF h

(* reconnect(): what it may do.                                             *)
LEMMA ReconnectFields ==
  ASSUME NEW m \in ClientType, NEW d, d = Reconnect(m)
  PROVE  /\ d \in ClientType
         /\ d.readyState = m.readyState /\ d.engine = m.engine
         /\ d.skipReconnect = m.skipReconnect /\ d.subs = m.subs
         /\ d.connecting = m.connecting /\ d.connected = m.connected
         /\ d.sendBuffer = m.sendBuffer /\ d.jobs = m.jobs /\ d.accepted = m.accepted
         /\ d.sent = m.sent /\ d.state = m.state
         /\ d.packetBuffer = m.packetBuffer /\ d.encoding = m.encoding
         /\ d.history \in {m.history, m.history \cup {"failed"}}
         /\ \/ /\ m.reconnecting \/ m.skipReconnect
               /\ d.reconnecting = m.reconnecting /\ d.timer = m.timer
               /\ d.attempts = m.attempts /\ d.history = m.history
            \/ /\ ~m.reconnecting /\ ~m.skipReconnect /\ m.attempts # 0
               /\ d.reconnecting = m.reconnecting /\ d.timer = m.timer
               /\ d.attempts = 0 /\ d.history = m.history \cup {"failed"}
            \/ /\ ~m.reconnecting /\ ~m.skipReconnect
               /\ d.reconnecting = TRUE /\ d.timer = TRUE
               /\ d.history = m.history
<1>1. MaxAttempts \in Nat \ {0} /\ m.attempts \in 0 .. MaxAttempts
  BY ManagerAssumption DEF ClientType
<1>2. CASE m.reconnecting \/ m.skipReconnect
  <2>1. d = m
    BY <1>2 DEF Reconnect, ClientType
  <2> QED
    BY <1>2, <2>1
<1>3. CASE ~m.reconnecting /\ ~m.skipReconnect /\ m.attempts >= MaxAttempts
  <2> DEFINE h == m.history \cup {"failed"}
             x == [m EXCEPT !.attempts = 0]
             y == [x EXCEPT !.history = h]
  <2>1. d = [m EXCEPT !.attempts = 0, !.history = h]
    BY <1>3 DEF Reconnect, ClientType
  <2>2. h \in SUBSET {"interfered", "failed", "reopened", "stale", "cutIn"}
    BY DEF ClientType
  <2>3. x \in ClientType
    <3>1. 0 \in 0 .. MaxAttempts
      BY <1>1
    <3> QED
      BY <3>1 DEF ClientType
  <2> HIDE DEF h
  <2>4. y \in ClientType
    <3> HIDE DEF x
    <3> QED
      BY <2>2, <2>3 DEF ClientType
  <2>5. d = y
    BY <2>1 DEF ClientType
  <2>6. /\ y.readyState = m.readyState /\ y.engine = m.engine
        /\ y.skipReconnect = m.skipReconnect /\ y.subs = m.subs
        /\ y.connecting = m.connecting /\ y.connected = m.connected
        /\ y.sendBuffer = m.sendBuffer /\ y.jobs = m.jobs /\ y.accepted = m.accepted
        /\ y.sent = m.sent /\ y.state = m.state
        /\ y.packetBuffer = m.packetBuffer /\ y.encoding = m.encoding
        /\ y.reconnecting = m.reconnecting /\ y.timer = m.timer
        /\ y.attempts = 0 /\ y.history = h
    BY DEF ClientType
  <2>7. m.attempts # 0
    BY <1>1, <1>3
  <2> HIDE DEF y
  <2> QED
    BY <1>3, <2>4, <2>5, <2>6, <2>7 DEF h
<1>4. CASE ~m.reconnecting /\ ~m.skipReconnect /\ ~ (m.attempts >= MaxAttempts)
  <2> DEFINE n == m.attempts + 1
             x == [m EXCEPT !.attempts = n]
             y == [x EXCEPT !.reconnecting = TRUE, !.timer = TRUE]
  <2>1. d = [m EXCEPT !.attempts = n, !.reconnecting = TRUE, !.timer = TRUE]
    BY <1>4 DEF Reconnect, ClientType
  <2>2. n \in 0 .. MaxAttempts
    BY <1>1, <1>4
  <2> HIDE DEF n
  <2>3. x \in ClientType
    BY <2>2 DEF ClientType
  <2>4. y \in ClientType
    <3> HIDE DEF x
    <3> QED
      BY <2>3 DEF ClientType
  <2>5. d = y
    BY <2>1 DEF ClientType
  <2>6. /\ y.readyState = m.readyState /\ y.engine = m.engine
        /\ y.skipReconnect = m.skipReconnect /\ y.subs = m.subs
        /\ y.connecting = m.connecting /\ y.connected = m.connected
        /\ y.sendBuffer = m.sendBuffer /\ y.jobs = m.jobs /\ y.accepted = m.accepted
        /\ y.sent = m.sent /\ y.state = m.state
        /\ y.packetBuffer = m.packetBuffer /\ y.encoding = m.encoding
        /\ y.reconnecting = TRUE /\ y.timer = TRUE /\ y.history = m.history
    BY DEF ClientType
  <2> HIDE DEF y
  <2> QED
    BY <1>4, <2>4, <2>5, <2>6
<1> QED
  BY <1>2, <1>3, <1>4

(* What the functions that open and close leave of the events: nothing      *)
(* written or waiting for its Socket changes.                               *)
Kept(m, d) ==
  /\ d.sent = m.sent /\ d.jobs = m.jobs /\ d.sendBuffer = m.sendBuffer
  /\ d.accepted = m.accepted /\ d.connected \subseteq m.connected
  /\ Clean(d) => Clean(m)
  /\ \/ d.encoding = m.encoding /\ d.packetBuffer = m.packetBuffer
     \/ /\ ~d.encoding /\ d.packetBuffer = <<>>
        /\ Clean(d) => d.jobs = {}

LEMMA KeptTwice ==
  ASSUME NEW m, NEW x, NEW d, Kept(m, x), Kept(x, d)
  PROVE  Kept(m, d)
BY DEF Kept

LEMMA Weaker ==
  ASSUME NEW clean \in BOOLEAN, NEW weak \in BOOLEAN, weak => clean
  PROVE  /\ \A P, Q : AllBefore(clean, P, Q) => AllBefore(weak, P, Q)
         /\ \A ps : Sorted(clean, ps) => Sorted(weak, ps)
BY DEF AllBefore, Sorted, Before

LEMMA OrderedWeaker ==
  ASSUME NEW clean \in BOOLEAN, NEW weak \in BOOLEAN, weak => clean,
         NEW m, NEW S, Ordered(clean, m, S)
  PROVE  Ordered(weak, m, S)
BY Weaker DEF Ordered

LEMMA OrderedKept ==
  ASSUME NEW m, NEW d, Kept(m, d), Ordered(Clean(m), m, {}), Unbuffered(m)
  PROVE  Ordered(Clean(d), d, {}) /\ Unbuffered(d)
<1>1. Clean(m) \in BOOLEAN /\ Clean(d) \in BOOLEAN /\ (Clean(d) => Clean(m))
  BY DEF Clean, Kept
<1>2. Ordered(Clean(d), m, {})
  BY <1>1, OrderedWeaker
<1>3. Unbuffered(d)
  BY DEF Unbuffered, Kept
<1> DEFINE b == Clean(d)
<1>4. Ordered(b, d, {})
  <2>1. CASE d.encoding = m.encoding /\ d.packetBuffer = m.packetBuffer
    <3>1. Ordered(b, m, {})
      BY <1>2
    <3> HIDE DEF b
    <3> QED
      BY <2>1, <3>1, OrderedSame DEF Kept
  <2>2. CASE /\ ~d.encoding /\ d.packetBuffer = <<>>
             /\ b => d.jobs = {}
    <3>1. Ordered(b, m, {})
      BY <1>2
    <3>2. d.sent = m.sent /\ d.jobs = m.jobs /\ d.sendBuffer = m.sendBuffer /\ d.accepted = m.accepted
      BY DEF Kept
    <3>3. Queued(d) = Queued(m) /\ Evs(d.packetBuffer) = {} /\ Evs(d.packetBuffer) \subseteq Evs(m.packetBuffer)
      BY <2>2, <3>2, EvsEmpty DEF Queued
    <3>4. Sorted(b, d.packetBuffer) /\ Proper(d.packetBuffer)
      BY <2>2, EvsEmpty
    <3> HIDE DEF b
    <3>5. /\ AllBefore(b, Evs(d.sent), d.jobs \cup Evs(d.packetBuffer) \cup {} \cup Queued(d))
          /\ AllBefore(b, d.jobs, Evs(d.packetBuffer) \cup {} \cup Queued(d))
          /\ AllBefore(b, Evs(d.packetBuffer), {} \cup Queued(d))
          /\ AllBefore(b, {}, Queued(d))
      BY <3>1, <3>2, <3>3 DEF Ordered, AllBefore
    <3>6. \A p \in Evs(d.sent) \cup d.jobs \cup Evs(d.packetBuffer) \cup {} \cup Queued(d) :
            p.n \in 1 .. d.accepted
      BY <3>1, <3>2, <3>3 DEF Ordered
    <3> QED
      BY <2>2, <3>1, <3>2, <3>4, <3>5, <3>6 DEF Ordered
  <2> QED
    BY <2>1, <2>2 DEF Kept
<1> QED
  BY <1>3, <1>4

LEMMA CleanupKept ==
  ASSUME NEW m \in ClientType, NEW d, d = Cleanup(m)
  PROVE  Kept(m, d)
<1>1. /\ d.subs = {} /\ d.packetBuffer = <<>> /\ d.encoding = FALSE
      /\ d.history = IF m.jobs = {} THEN m.history ELSE m.history \cup {"stale"}
      /\ d.connected = m.connected /\ d.sendBuffer = m.sendBuffer /\ d.jobs = m.jobs
      /\ d.accepted = m.accepted /\ d.sent = m.sent
  BY CleanupFields
<1> QED
  BY <1>1 DEF Kept, Clean

LEMMA ReconnectKept ==
  ASSUME NEW m \in ClientType, NEW d, d = Reconnect(m)
  PROVE  Kept(m, d)
<1>1. /\ d.packetBuffer = m.packetBuffer /\ d.encoding = m.encoding
      /\ d.history \in {m.history, m.history \cup {"failed"}}
      /\ d.connected = m.connected /\ d.sendBuffer = m.sendBuffer /\ d.jobs = m.jobs
      /\ d.accepted = m.accepted /\ d.sent = m.sent
  BY ReconnectFields
<1> QED
  BY <1>1 DEF Kept, Clean

SameControl(m, d) ==
  /\ d.readyState = m.readyState /\ d.engine = m.engine
  /\ d.skipReconnect = m.skipReconnect /\ d.reconnecting = m.reconnecting
  /\ d.timer = m.timer /\ d.attempts = m.attempts /\ d.subs = m.subs

LEMMA ControlSame ==
  ASSUME NEW m \in ClientType, NEW d \in ClientType, SameControl(m, d),
         \A h \in {"interfered", "failed", "reopened"} : h \in d.history <=> h \in m.history
  PROVE  /\ Listening(m) => Listening(d)
         /\ Trying(m) => Trying(d)
         /\ (\A f \in Engines : d.state[f] = m.state[f] \/ d.state[f] \notin Opening) /\ Alone(m)
              => Alone(d)
         /\ (\A f \in Engines : d.state[f] = m.state[f] \/ d.state[f] \notin Opening) /\ Quiet(m)
              => Quiet(d)
<1>1. Listening(m) => Listening(d)
  BY DEF Listening, SameControl
<1>2. Trying(m) => Trying(d)
  <2>1. Interfered(m) <=> Interfered(d)
    BY DEF Interfered
  <2>2. m.history \cap {"failed", "interfered"} # {} <=> d.history \cap {"failed", "interfered"} # {}
    OBVIOUS
  <2> QED
    BY <2>1, <2>2 DEF Trying, SameControl
<1>3. m.engine \in Engines /\ d.engine = m.engine /\ Other(m.engine) \in Engines
  BY Others DEF ClientType, SameControl
<1>4. (\A f \in Engines : d.state[f] = m.state[f] \/ d.state[f] \notin Opening) /\ Alone(m) => Alone(d)
  BY <1>3 DEF Alone, SameControl
<1>5. (\A f \in Engines : d.state[f] = m.state[f] \/ d.state[f] \notin Opening) /\ Quiet(m) => Quiet(d)
  BY <1>3 DEF Quiet, SameControl
<1> QED
  BY <1>1, <1>2, <1>4, <1>5

LEMMA WroteControl ==
  ASSUME NEW m \in ClientType, NEW d, Wrote(m, d), Control(m)
  PROVE  Control(d)
<1>1. d \in ClientType /\ SameControl(m, d) /\ d.history = m.history /\ d.state = m.state
  BY DEF Wrote, SameControl
<1> QED
  BY <1>1, ControlSame DEF Control

(* An engine is closed, before anybody hears of it.                         *)
Down(m, e) ==
  [m EXCEPT !.state[e] = "closed", !.unsent = @ /\ e # m.engine,
            !.answers = IF e = m.engine THEN {} ELSE @]

LEMMA DownFields ==
  ASSUME NEW m \in ClientType, NEW e \in Engines, NEW d, d = Down(m, e)
  PROVE  /\ d \in ClientType /\ SameControl(m, d) /\ d.history = m.history /\ Kept(m, d)
         /\ d.state[e] = "closed" /\ \A f \in Engines : f # e => d.state[f] = m.state[f]
         /\ d.connecting = m.connecting
<1> DEFINE st == [m.state EXCEPT ![e] = "closed"]
           un == m.unsent /\ e # m.engine
           an == IF e = m.engine THEN {} ELSE m.answers
           x == [m EXCEPT !.state = st]
           z == [x EXCEPT !.unsent = un, !.answers = an]
<1>1. /\ m.state \in [Engines -> {"closed", "opening", "open", "closing", "stuck"}]
      /\ m.unsent \in BOOLEAN /\ m.answers \in SUBSET Sockets
  BY DEF ClientType
<1>2. /\ st \in [Engines -> {"closed", "opening", "open", "closing", "stuck"}]
      /\ st[e] = "closed" /\ \A f \in Engines : f # e => st[f] = m.state[f]
  BY <1>1
<1>3. un \in BOOLEAN /\ an \in SUBSET Sockets
  BY <1>1
<1>4. d = [m EXCEPT !.state = st, !.unsent = un, !.answers = an]
  BY DEF Down
<1> HIDE DEF st, un, an
<1>5. x \in ClientType
  BY <1>2 DEF ClientType
<1>6. z \in ClientType
  <2> HIDE DEF x
  <2> QED
    BY <1>3, <1>5 DEF ClientType
<1>7. d = z
  BY <1>4 DEF ClientType
<1>8. /\ SameControl(m, z) /\ z.history = m.history /\ z.state = st /\ z.connecting = m.connecting
      /\ z.sent = m.sent /\ z.jobs = m.jobs /\ z.sendBuffer = m.sendBuffer
      /\ z.accepted = m.accepted /\ z.connected = m.connected
      /\ z.encoding = m.encoding /\ z.packetBuffer = m.packetBuffer
  BY DEF ClientType, SameControl
<1> HIDE DEF z
<1> QED
  BY <1>2, <1>6, <1>7, <1>8 DEF Kept, Clean

LEMMA DownControl ==
  ASSUME NEW m \in ClientType, NEW e \in Engines, NEW d, d = Down(m, e),
         Listening(m), Trying(m), Alone(m)
  PROVE  /\ Listening(d) /\ Trying(d) /\ Alone(d)
         /\ Quiet(m) \/ e = m.engine => Quiet(d)
<1>1. /\ d \in ClientType /\ SameControl(m, d) /\ d.history = m.history
      /\ d.state[e] = "closed" /\ \A f \in Engines : f # e => d.state[f] = m.state[f]
  BY DownFields
<1>2. \A f \in Engines : d.state[f] = m.state[f] \/ d.state[f] \notin Opening
  BY <1>1 DEF Opening
<1>3. e = m.engine => Quiet(d)
  BY <1>1 DEF Quiet, SameControl, Opening
<1> QED
  BY <1>1, <1>2, <1>3, ControlSame

(* The Manager hears that an engine is closed.                              *)
LEMMA OnCloseControl ==
  ASSUME NEW m \in ClientType, NEW e \in Engines, NEW d, d = OnClose(m),
         Listening(m), Trying(m), Alone(m), m.state[e] = "closed", <<e, "events">> \in m.subs
  PROVE  /\ d \in ClientType /\ Listening(d) /\ Trying(d) /\ Alone(d) /\ Quiet(d)
         /\ d.engine = m.engine /\ d.state = m.state /\ Kept(m, d)
         /\ d.connecting = m.connecting
<1> DEFINE u == Cleanup(m)
           cn == u.connected \ m.connecting
           x == [u EXCEPT !.attempts = 0, !.readyState = "closed"]
           y == [x EXCEPT !.connected = cn]
<1>1. d = Reconnect([u EXCEPT !.attempts = 0, !.readyState = "closed", !.connected = cn])
  BY DEF OnClose
<1>2. /\ u \in ClientType /\ Kept(m, u)
      /\ u.subs = {} /\ u.timer = FALSE
      /\ u.history = IF m.jobs = {} THEN m.history ELSE m.history \cup {"stale"}
      /\ u.engine = m.engine /\ u.skipReconnect = m.skipReconnect
      /\ u.reconnecting = m.reconnecting /\ u.connecting = m.connecting /\ u.state = m.state
  BY CleanupFields, CleanupKept
<1> HIDE DEF u
<1>3. cn \subseteq u.connected /\ u.connected \in SUBSET Sockets
  BY <1>2 DEF ClientType
<1> HIDE DEF cn
<1>4. x \in ClientType
  <2>1. 0 \in 0 .. MaxAttempts
    BY ManagerAssumption
  <2> QED
    BY <1>2, <2>1 DEF ClientType
<1>5. y \in ClientType
  <2>1. cn \in SUBSET Sockets
    BY <1>3
  <2> HIDE DEF x
  <2> QED
    BY <1>4, <2>1 DEF ClientType
<1>6. d = Reconnect(y)
  BY <1>1, <1>2 DEF ClientType
<1>7. /\ y.attempts = 0 /\ y.readyState = "closed" /\ y.connected = cn
      /\ y.subs = u.subs /\ y.timer = u.timer /\ y.history = u.history /\ y.engine = u.engine
      /\ y.skipReconnect = u.skipReconnect /\ y.reconnecting = u.reconnecting
      /\ y.connecting = u.connecting /\ y.state = u.state
      /\ y.sent = u.sent /\ y.jobs = u.jobs /\ y.sendBuffer = u.sendBuffer
      /\ y.accepted = u.accepted /\ y.encoding = u.encoding /\ y.packetBuffer = u.packetBuffer
  BY <1>2 DEF ClientType
<1> HIDE DEF y
<1>8. Kept(u, y)
  BY <1>3, <1>7 DEF Kept, Clean
<1>9. Kept(m, d)
  BY <1>2, <1>5, <1>6, <1>8, ReconnectKept, KeptTwice
<1>10. /\ d \in ClientType /\ d.readyState = "closed" /\ d.engine = m.engine /\ d.subs = {}
       /\ d.skipReconnect = m.skipReconnect /\ d.connecting = m.connecting /\ d.state = m.state
       /\ \/ /\ m.reconnecting \/ m.skipReconnect
             /\ d.reconnecting = m.reconnecting /\ d.attempts = 0 /\ d.history = u.history
          \/ /\ ~m.reconnecting /\ ~m.skipReconnect
             /\ d.reconnecting = TRUE /\ d.timer = TRUE /\ d.history = u.history
  <2>1. /\ d \in ClientType
        /\ d.readyState = y.readyState /\ d.engine = y.engine
        /\ d.skipReconnect = y.skipReconnect /\ d.subs = y.subs
        /\ d.connecting = y.connecting /\ d.state = y.state
    BY <1>5, <1>6, ReconnectFields
  <2>2. \/ /\ y.reconnecting \/ y.skipReconnect
           /\ d.reconnecting = y.reconnecting /\ d.timer = y.timer
           /\ d.attempts = y.attempts /\ d.history = y.history
        \/ /\ ~y.reconnecting /\ ~y.skipReconnect /\ y.attempts # 0
           /\ d.reconnecting = y.reconnecting /\ d.timer = y.timer
           /\ d.attempts = 0 /\ d.history = y.history \cup {"failed"}
        \/ /\ ~y.reconnecting /\ ~y.skipReconnect
           /\ d.reconnecting = TRUE /\ d.timer = TRUE
           /\ d.history = y.history
    BY <1>5, <1>6, ReconnectFields, Zenon
  <2> QED
    BY <1>2, <1>7, <2>1, <2>2
<1>11. \A h \in {"interfered", "failed", "reopened"} : h \in d.history <=> h \in m.history
  BY <1>2, <1>10
<1>12. Listening(d)
  BY <1>10 DEF Listening
<1>13. m.reconnecting => Interfered(m)
  <2> SUFFICES ASSUME m.reconnecting, ~Interfered(m) PROVE FALSE
    OBVIOUS
  <2>1. ~m.skipReconnect /\ (m.readyState = "closed" \/ m.subs = {<<m.engine, "retry">>})
    BY DEF Trying
  <2>2. m.readyState # "closed"
    BY <2>1 DEF Trying
  <2>3. <<e, "events">> # <<m.engine, "retry">>
    OBVIOUS
  <2> QED
    BY <2>1, <2>2, <2>3
<1>14. Trying(d)
  <2>1. m.reconnecting => ~m.skipReconnect
    BY DEF Trying
  <2>2. Interfered(m) => Interfered(d) /\ d.history \cap {"failed", "interfered"} # {}
    BY <1>11 DEF Interfered
  <2>3. CASE m.reconnecting \/ m.skipReconnect
    BY <1>10, <1>13, <2>1, <2>2, <2>3 DEF Trying
  <2>4. CASE ~(m.reconnecting \/ m.skipReconnect)
    BY <1>10, <2>4 DEF Trying
  <2> QED
    BY <2>3, <2>4
<1>15. m.engine \in Engines
  BY DEF ClientType
<1>16. Alone(d)
  BY <1>10, <1>11 DEF Alone
<1>17. Quiet(d)
  <2> SUFFICES ASSUME "reopened" \notin m.history PROVE m.state[m.engine] \notin Opening
    BY <1>10, <1>11 DEF Quiet
  <2>1. e # Other(m.engine)
    BY DEF Alone
  <2>2. e = m.engine
    BY <1>15, <2>1, Others
  <2> QED
    BY <2>2 DEF Opening
<1> QED
  BY <1>9, <1>10, <1>12, <1>14, <1>16, <1>17

LEMMA EngineClosedControl ==
  ASSUME NEW m \in ClientType, NEW e \in Engines, NEW d, d = EngineClosed(m, e),
         Listening(m), Trying(m), Alone(m)
  PROVE  /\ d \in ClientType /\ Listening(d) /\ Trying(d) /\ Alone(d)
         /\ Quiet(m) \/ e = m.engine => Quiet(d)
         /\ d.engine = m.engine /\ d.state[e] = "closed" /\ Kept(m, d)
         /\ d.connecting = m.connecting
         /\ <<e, "events">> \notin m.subs => SameControl(m, d) /\ d.history = m.history
<1> DEFINE x == Down(m, e)
<1>1. d = IF <<e, "events">> \in m.subs THEN OnClose(x) ELSE x
  BY Zenon DEF EngineClosed, Down
<1>2. /\ x \in ClientType /\ SameControl(m, x) /\ x.history = m.history /\ Kept(m, x)
      /\ x.state[e] = "closed" /\ x.connecting = m.connecting
  BY DownFields
<1>3. /\ Listening(x) /\ Trying(x) /\ Alone(x)
      /\ Quiet(m) \/ e = m.engine => Quiet(x)
  BY DownControl
<1> HIDE DEF x
<1>4. x.engine = m.engine /\ x.subs = m.subs
  BY <1>2 DEF SameControl
<1>5. CASE <<e, "events">> \in m.subs
  <2>1. d = OnClose(x)
    BY <1>1, <1>5
  <2>2. /\ d \in ClientType /\ Listening(d) /\ Trying(d) /\ Alone(d) /\ Quiet(d)
        /\ d.engine = x.engine /\ d.state = x.state /\ Kept(x, d)
        /\ d.connecting = x.connecting
    BY <1>2, <1>3, <1>4, <1>5, <2>1, OnCloseControl
  <2> QED
    BY <1>2, <1>4, <1>5, <2>2, KeptTwice
<1>6. CASE <<e, "events">> \notin m.subs
  <2>1. d = x
    BY <1>1, <1>6
  <2> QED
    BY <1>2, <1>3, <1>4, <2>1
<1> QED
  BY <1>5, <1>6

LEMMA EngineCloseControl ==
  ASSUME NEW m \in ClientType, NEW d, d = EngineClose(m), Listening(m), Trying(m), Alone(m)
  PROVE  /\ d \in ClientType /\ Listening(d) /\ Trying(d) /\ Alone(d) /\ Quiet(d)
         /\ d.engine = m.engine /\ d.state[m.engine] \notin Opening /\ Kept(m, d)
         /\ d.connecting = m.connecting
         /\ <<m.engine, "events">> \notin m.subs => SameControl(m, d) /\ d.history = m.history
<1> DEFINE e == m.engine
<1>1. e \in Engines /\ m.state \in [Engines -> {"closed", "opening", "open", "closing", "stuck"}]
  BY DEF ClientType
<1>2. ASSUME NEW w \in {"stuck", "closing"}, d = [m EXCEPT !.state[e] = w]
      PROVE  /\ d \in ClientType /\ SameControl(m, d) /\ d.history = m.history /\ Kept(m, d)
             /\ d.state[e] = w /\ (\A f \in Engines : f # e => d.state[f] = m.state[f])
             /\ d.connecting = m.connecting
  <2> DEFINE st == [m.state EXCEPT ![e] = w]
             z == [m EXCEPT !.state = st]
  <2>1. /\ st \in [Engines -> {"closed", "opening", "open", "closing", "stuck"}]
        /\ st[e] = w /\ \A f \in Engines : f # e => st[f] = m.state[f]
    BY <1>1
  <2>2. d = z
    BY <1>2
  <2> HIDE DEF st
  <2>3. z \in ClientType
    BY <2>1 DEF ClientType
  <2>4. /\ SameControl(m, z) /\ z.history = m.history /\ z.state = st /\ z.connecting = m.connecting
        /\ z.sent = m.sent /\ z.jobs = m.jobs /\ z.sendBuffer = m.sendBuffer
        /\ z.accepted = m.accepted /\ z.connected = m.connected
        /\ z.encoding = m.encoding /\ z.packetBuffer = m.packetBuffer
    BY DEF ClientType, SameControl
  <2> HIDE DEF z
  <2> QED
    BY <2>1, <2>2, <2>3, <2>4 DEF Kept, Clean
<1>3. CASE d = m /\ m.state[e] \notin Opening
  <2>1. Quiet(m) /\ Kept(m, m) /\ SameControl(m, m)
    BY <1>3 DEF Quiet, Kept, SameControl
  <2> QED
    BY <1>3, <2>1
<1>4. CASE d = EngineClosed(m, e)
  <2> HIDE DEF e
  <2>1. /\ d \in ClientType /\ Listening(d) /\ Trying(d) /\ Alone(d)
        /\ Quiet(m) \/ e = m.engine => Quiet(d)
        /\ d.engine = m.engine /\ d.state[e] = "closed" /\ Kept(m, d)
        /\ d.connecting = m.connecting
        /\ <<e, "events">> \notin m.subs => SameControl(m, d) /\ d.history = m.history
    BY <1>1, <1>4, EngineClosedControl
  <2> QED
    BY <2>1 DEF e, Opening
<1>5. ASSUME NEW w \in {"stuck", "closing"}, d = [m EXCEPT !.state[e] = w]
      PROVE  /\ d \in ClientType /\ Listening(d) /\ Trying(d) /\ Alone(d) /\ Quiet(d)
             /\ d.engine = m.engine /\ d.state[m.engine] \notin Opening /\ Kept(m, d)
             /\ d.connecting = m.connecting
             /\ SameControl(m, d) /\ d.history = m.history
  <2>1. /\ d \in ClientType /\ SameControl(m, d) /\ d.history = m.history /\ Kept(m, d)
        /\ d.state[e] = w /\ (\A f \in Engines : f # e => d.state[f] = m.state[f])
        /\ d.connecting = m.connecting
    BY <1>2, <1>5
  <2>2. d.state[e] \notin Opening /\ \A f \in Engines : d.state[f] = m.state[f] \/ d.state[f] \notin Opening
    BY <2>1 DEF Opening
  <2>3. d.engine = e
    BY <2>1 DEF SameControl
  <2>4. Quiet(d)
    BY <2>2, <2>3 DEF Quiet
  <2>5. Listening(d) /\ Trying(d) /\ Alone(d)
    BY <2>1, <2>2, ControlSame
  <2> QED
    BY <2>1, <2>2, <2>3, <2>4, <2>5
<1>6. \/ d = m /\ m.state[e] \notin Opening
      \/ d = EngineClosed(m, e)
      \/ \E w \in {"stuck", "closing"} : d = [m EXCEPT !.state[e] = w]
  <2>1. CASE m.state[e] = "opening" /\ m.unsent
    <3>1. d = [m EXCEPT !.state[e] = "stuck"]
      BY <2>1 DEF EngineClose
    <3> QED
      BY <3>1
  <2>2. CASE m.state[e] = "open" /\ m.unsent
    <3>1. d = [m EXCEPT !.state[e] = "closing"]
      BY <2>2 DEF EngineClose
    <3> QED
      BY <3>1
  <2>3. CASE m.state[e] \in {"opening", "open"} /\ ~m.unsent
    <3>1. d = EngineClosed(m, e)
      BY <2>3 DEF EngineClose
    <3> QED
      BY <3>1
  <2>4. CASE m.state[e] \notin {"opening", "open"}
    <3>1. d = m
      BY <2>4 DEF EngineClose
    <3> QED
      BY <2>4, <3>1 DEF Opening
  <2> QED
    BY <2>1, <2>2, <2>3, <2>4
<1> QED
  <2> HIDE DEF e
  <2>1. CASE \E w \in {"stuck", "closing"} : d = [m EXCEPT !.state[e] = w]
    BY <1>5, <2>1
  <2> QED
    BY <1>3, <1>4, <1>6, <2>1

(* close().                                                                 *)
LEMMA CloseControl ==
  ASSUME NEW m \in ClientType, NEW d, d = Close(m), Control(m)
  PROVE  d \in ClientType /\ Control(d) /\ Kept(m, d)
<1> DEFINE u == IF m.readyState = "opening" THEN Cleanup(m) ELSE m
           h == u.history \ {"interfered"}
           x == [u EXCEPT !.skipReconnect = TRUE, !.reconnecting = FALSE]
           y == [x EXCEPT !.attempts = 0, !.readyState = "closed"]
           z == [y EXCEPT !.history = h]
<1>1. d = EngineClose([u EXCEPT !.skipReconnect = TRUE, !.reconnecting = FALSE, !.attempts = 0,
                                !.readyState = "closed", !.history = h])
  BY DEF Close
<1>2. /\ u \in ClientType /\ Kept(m, u)
      /\ u.engine = m.engine /\ u.state = m.state
      /\ u.subs \subseteq m.subs /\ (m.readyState = "opening" => u.subs = {})
      /\ "reopened" \in m.history => "reopened" \in u.history
  <2>1. CASE m.readyState = "opening"
    <3>1. u = Cleanup(m)
      BY <2>1
    <3> HIDE DEF u
    <3>2. /\ u.subs = {} /\ u.history = (IF m.jobs = {} THEN m.history ELSE m.history \cup {"stale"})
          /\ u \in ClientType /\ u.engine = m.engine /\ u.state = m.state
      BY <3>1, CleanupFields
    <3> QED
      BY <3>1, <3>2, CleanupKept
  <2>2. CASE m.readyState # "opening"
    BY <2>2 DEF Kept
  <2> QED
    BY <2>1, <2>2
<1> HIDE DEF u
<1>3. h \in SUBSET {"interfered", "failed", "reopened", "stale", "cutIn"}
  BY <1>2 DEF ClientType
<1>4. h = u.history \ {"interfered"}
  OBVIOUS
<1> HIDE DEF h
<1>5. x \in ClientType
  BY <1>2 DEF ClientType
<1>6. y \in ClientType
  <2>1. 0 \in 0 .. MaxAttempts
    BY ManagerAssumption
  <2> HIDE DEF x
  <2> QED
    BY <1>5, <2>1 DEF ClientType
<1>7. z \in ClientType
  <2> HIDE DEF y
  <2> QED
    BY <1>3, <1>6 DEF ClientType
<1>8. d = EngineClose(z)
  BY <1>1, <1>2 DEF ClientType
<1>9. /\ z.skipReconnect = TRUE /\ z.reconnecting = FALSE /\ z.attempts = 0
      /\ z.readyState = "closed" /\ z.history = h
      /\ z.engine = u.engine /\ z.state = u.state /\ z.subs = u.subs
      /\ z.sent = u.sent /\ z.jobs = u.jobs /\ z.sendBuffer = u.sendBuffer
      /\ z.accepted = u.accepted /\ z.connected = u.connected
      /\ z.encoding = u.encoding /\ z.packetBuffer = u.packetBuffer
  BY <1>2 DEF ClientType
<1> HIDE DEF z
<1>10. Kept(u, z)
  BY <1>4, <1>9 DEF Kept, Clean
<1>11. Listening(z)
  <2>1. m.readyState \in {"closed", "opening", "open"}
    BY DEF ClientType
  <2>2. m.readyState # "opening" => m.subs \subseteq {<<m.engine, "events">>}
    BY <2>1 DEF Control, Listening
  <2>3. z.subs \subseteq {<<z.engine, "events">>}
    BY <1>2, <1>9, <2>2
  <2>4. <<z.engine, "retry">> # <<z.engine, "events">>
    OBVIOUS
  <2> QED
    BY <1>9, <2>3, <2>4 DEF Listening
<1>12. Trying(z)
  BY <1>9 DEF Trying
<1>13. Alone(z)
  BY <1>2, <1>4, <1>9 DEF Control, Alone
<1>14. d \in ClientType /\ Control(d) /\ Kept(z, d)
  BY <1>7, <1>8, <1>11, <1>12, <1>13, EngineCloseControl DEF Control
<1> QED
  BY <1>2, <1>10, <1>14, KeptTwice

LEMMA DestroyControl ==
  ASSUME NEW m \in ClientType, NEW s \in Sockets, NEW d, d = Destroy(m, s), Control(m)
  PROVE  d \in ClientType /\ Control(d) /\ Kept(m, d)
<1> DEFINE x == [m EXCEPT !.connecting = @ \ {s}]
<1>1. x \in ClientType
  BY DEF ClientType
<1>2. /\ SameControl(m, x) /\ x.history = m.history /\ x.state = m.state
      /\ x.sent = m.sent /\ x.jobs = m.jobs /\ x.sendBuffer = m.sendBuffer
      /\ x.accepted = m.accepted /\ x.connected = m.connected
      /\ x.encoding = m.encoding /\ x.packetBuffer = m.packetBuffer
  BY DEF ClientType, SameControl
<1>3. d = IF x.connecting = {} THEN Close(x) ELSE x
  BY DEF Destroy
<1> HIDE DEF x
<1>4. Kept(m, x)
  BY <1>2 DEF Kept, Clean
<1>5. Control(x)
  BY <1>1, <1>2, ControlSame DEF Control
<1>6. CASE x.connecting = {}
  <2>1. d = Close(x)
    BY <1>3, <1>6
  <2>2. d \in ClientType /\ Control(d) /\ Kept(x, d)
    BY <1>1, <1>5, <2>1, CloseControl
  <2> QED
    BY <1>4, <2>2, KeptTwice
<1>7. CASE x.connecting # {}
  BY <1>1, <1>3, <1>4, <1>5, <1>7
<1> QED
  BY <1>6, <1>7

LEMMA InterferedFirst ==
  ASSUME NEW m \in ClientType, NEW k \in Openers, Listening(m), Trying(m), <<m.engine, k>> \in m.subs
  PROVE  /\ m.readyState = "opening" /\ ~m.skipReconnect
         /\ k = "first" /\ m.reconnecting => Interfered(m)
<1>1. <<m.engine, k>> # <<m.engine, "events">>
  BY DEF Openers
<1>2. m.readyState = "opening"
  BY <1>1 DEF Listening, ClientType
<1>3. k = "first" => m.subs # {<<m.engine, "retry">>}
  <2>1. k = "first" => <<m.engine, k>> # <<m.engine, "retry">>
    OBVIOUS
  <2> QED
    BY <2>1
<1> QED
  BY <1>2, <1>3 DEF Trying

(* The engine that open() waits for fails.                                  *)
LEMMA ConnectErrorControl ==
  ASSUME NEW m \in ClientType, NEW k \in Openers, NEW d, d = ConnectError(m, k),
         Listening(m), Trying(m), Alone(m), <<m.engine, k>> \in m.subs
  PROVE  /\ d \in ClientType /\ Listening(d) /\ Trying(d) /\ Alone(d)
         /\ m.state[m.engine] \notin Opening => Quiet(d)
         /\ d.engine = m.engine /\ d.state = m.state /\ Kept(m, d)
<1> DEFINE u == Cleanup(m)
           x == [u EXCEPT !.readyState = "closed"]
           h == x.history \ {"interfered"}
           y == [x EXCEPT !.reconnecting = FALSE, !.history = h]
<1>1. /\ u \in ClientType /\ Kept(m, u) /\ u.subs = {}
      /\ u.history = (IF m.jobs = {} THEN m.history ELSE m.history \cup {"stale"})
      /\ u.engine = m.engine /\ u.skipReconnect = m.skipReconnect
      /\ u.reconnecting = m.reconnecting /\ u.attempts = m.attempts /\ u.state = m.state
  BY CleanupFields, CleanupKept
<1>2. m.readyState = "opening" /\ ~m.skipReconnect
  BY InterferedFirst
<1>3. k = "first" /\ m.reconnecting => Interfered(m)
  BY InterferedFirst
<1>4. m.attempts # 0 => m.reconnecting
  BY DEF Trying
<1>5. d = CASE k = "retry" -> Reconnect(y)
            [] k = "first" /\ x.attempts = 0 -> Reconnect(x)
            [] OTHER -> x
  BY Zenon DEF ConnectError
<1> HIDE DEF u
<1>6. /\ x \in ClientType /\ x.readyState = "closed" /\ x.subs = {} /\ x.history = u.history
      /\ x.engine = m.engine /\ x.skipReconnect = m.skipReconnect
      /\ x.reconnecting = m.reconnecting /\ x.attempts = m.attempts /\ x.state = m.state
      /\ x.sent = u.sent /\ x.jobs = u.jobs /\ x.sendBuffer = u.sendBuffer
      /\ x.accepted = u.accepted /\ x.connected = u.connected
      /\ x.encoding = u.encoding /\ x.packetBuffer = u.packetBuffer
  BY <1>1 DEF ClientType
<1> HIDE DEF x
<1>7. Kept(m, x)
  <2>1. Kept(u, x)
    BY <1>6 DEF Kept, Clean
  <2> QED
    BY <1>1, <2>1, KeptTwice
<1>8. /\ h \in SUBSET {"interfered", "failed", "reopened", "stale", "cutIn"}
      /\ ("reopened" \in h <=> "reopened" \in m.history)
      /\ ("reopened" \in x.history <=> "reopened" \in m.history)
      /\ (Interfered(m) => Interfered(x))
  BY <1>1, <1>6 DEF ClientType, Interfered
<1>9. h = x.history \ {"interfered"}
  OBVIOUS
<1> HIDE DEF h
<1>10. /\ y \in ClientType /\ y.readyState = "closed" /\ y.subs = {} /\ y.history = h
       /\ y.engine = m.engine /\ y.skipReconnect = m.skipReconnect
       /\ y.reconnecting = FALSE /\ y.state = m.state
       /\ y.sent = x.sent /\ y.jobs = x.jobs /\ y.sendBuffer = x.sendBuffer
       /\ y.accepted = x.accepted /\ y.connected = x.connected
       /\ y.encoding = x.encoding /\ y.packetBuffer = x.packetBuffer
  BY <1>6, <1>8 DEF ClientType
<1> HIDE DEF y
<1>11. Kept(m, y)
  <2>1. Kept(x, y)
    BY <1>9, <1>10 DEF Kept, Clean
  <2> QED
    BY <1>7, <2>1, KeptTwice
<1>12. ASSUME NEW z \in ClientType, z.readyState = "closed", z.subs = {}, z.engine = m.engine,
              z.state = m.state, Kept(m, z), z.skipReconnect = m.skipReconnect,
              "reopened" \in z.history <=> "reopened" \in m.history, Trying(z)
       PROVE  /\ Listening(z) /\ Alone(z)
              /\ m.state[m.engine] \notin Opening => Quiet(z)
  BY <1>12 DEF Listening, Alone, Quiet
<1>13. CASE k = "retry"
  <2>1. d = Reconnect(y)
    BY <1>5, <1>13
  <2>2. /\ d \in ClientType
        /\ d.readyState = y.readyState /\ d.engine = y.engine
        /\ d.skipReconnect = y.skipReconnect /\ d.subs = y.subs /\ d.state = y.state
        /\ d.history \in {y.history, y.history \cup {"failed"}}
    BY <1>10, <2>1, ReconnectFields
  <2>3. \/ /\ y.reconnecting \/ y.skipReconnect
           /\ d.reconnecting = y.reconnecting /\ d.timer = y.timer
           /\ d.attempts = y.attempts /\ d.history = y.history
        \/ /\ ~y.reconnecting /\ ~y.skipReconnect /\ y.attempts # 0
           /\ d.reconnecting = y.reconnecting /\ d.timer = y.timer
           /\ d.attempts = 0 /\ d.history = y.history \cup {"failed"}
        \/ /\ ~y.reconnecting /\ ~y.skipReconnect
           /\ d.reconnecting = TRUE /\ d.timer = TRUE
           /\ d.history = y.history
    BY <1>10, <2>1, ReconnectFields, Zenon
  <2>4. Kept(m, d)
    BY <1>10, <1>11, <2>1, ReconnectKept, KeptTwice
  <2>5. Trying(d)
    <3>1. d.readyState = "closed" /\ d.subs = {} /\ ~d.skipReconnect
      BY <1>2, <1>10, <2>2
    <3>2. \/ d.reconnecting = FALSE /\ d.attempts = 0 /\ "failed" \in d.history
          \/ d.reconnecting = TRUE /\ d.timer = TRUE
      BY <1>2, <1>10, <2>3
    <3> QED
      BY <3>1, <3>2 DEF Trying
  <2>6. "reopened" \in d.history <=> "reopened" \in m.history
    BY <1>8, <1>10, <2>2
  <2> QED
    BY <1>10, <1>12, <2>2, <2>4, <2>5, <2>6
<1>14. CASE k = "first" /\ x.attempts = 0
  <2>1. d = Reconnect(x)
    BY <1>5, <1>14
  <2>2. /\ d \in ClientType
        /\ d.readyState = x.readyState /\ d.engine = x.engine
        /\ d.skipReconnect = x.skipReconnect /\ d.subs = x.subs /\ d.state = x.state
        /\ d.history \in {x.history, x.history \cup {"failed"}}
    BY <1>6, <2>1, ReconnectFields
  <2>3. \/ /\ x.reconnecting \/ x.skipReconnect
           /\ d.reconnecting = x.reconnecting /\ d.timer = x.timer
           /\ d.attempts = x.attempts /\ d.history = x.history
        \/ /\ ~x.reconnecting /\ ~x.skipReconnect /\ x.attempts # 0
           /\ d.reconnecting = x.reconnecting /\ d.timer = x.timer
           /\ d.attempts = 0 /\ d.history = x.history \cup {"failed"}
        \/ /\ ~x.reconnecting /\ ~x.skipReconnect
           /\ d.reconnecting = TRUE /\ d.timer = TRUE
           /\ d.history = x.history
    BY <1>6, <2>1, ReconnectFields, Zenon
  <2>4. Kept(m, d)
    BY <1>6, <1>7, <2>1, ReconnectKept, KeptTwice
  <2>5. Trying(d)
    <3>1. d.readyState = "closed" /\ d.subs = {} /\ ~d.skipReconnect
      BY <1>2, <1>6, <2>2
    <3>2. \/ d.reconnecting = TRUE /\ d.attempts = 0 /\ Interfered(d)
          \/ d.reconnecting = TRUE /\ d.timer = TRUE
      <4>1. m.reconnecting \in BOOLEAN
        BY DEF ClientType
      <4> QED
        BY <1>2, <1>3, <1>6, <1>8, <1>14, <2>3, <4>1 DEF Interfered
    <3> QED
      BY <3>1, <3>2 DEF Trying, Interfered
  <2>6. "reopened" \in d.history <=> "reopened" \in m.history
    BY <1>8, <2>2
  <2> QED
    BY <1>6, <1>12, <2>2, <2>4, <2>5, <2>6
<1>15. CASE k = "first" /\ x.attempts # 0
  <2>1. d = x
    BY <1>5, <1>15
  <2>2. Interfered(x)
    BY <1>3, <1>4, <1>6, <1>8, <1>15
  <2>3. Trying(x)
    BY <1>2, <1>4, <1>6, <1>15, <2>2 DEF Trying, Interfered
  <2> QED
    BY <1>6, <1>7, <1>8, <1>12, <2>1, <2>3
<1> QED
  BY <1>13, <1>14, <1>15 DEF Openers

(* open() of a Manager that is closed.                                      *)
LEMMA OpenControl ==
  ASSUME NEW m \in ClientType, NEW k \in Openers, NEW d, d = Open(m, k),
         m.readyState = "closed", Listening(m), Alone(m), Quiet(m),
         m.attempts # 0 => m.reconnecting, k = "retry" => m.subs = {}
  PROVE  d \in ClientType /\ Control(d) /\ Kept(m, d)
<1> DEFINE e == Other(m.engine)
           st == [m.state EXCEPT ![e] = "opening"]
           sb == m.subs \cup {<<e, k>>}
           h == (m.history \ {"failed"})
                  \cup (IF m.reconnecting /\ k = "first" THEN {"interfered"} ELSE {})
                  \cup (IF m.subs # {} THEN {"reopened"} ELSE {})
           x == [m EXCEPT !.engine = e, !.readyState = "opening", !.skipReconnect = FALSE]
           y == [x EXCEPT !.state = st]
           z == [y EXCEPT !.unsent = FALSE, !.answers = {}]
           w == [z EXCEPT !.subs = sb, !.history = h]
<1>1. d = [m EXCEPT !.engine = e, !.readyState = "opening", !.skipReconnect = FALSE,
                    !.state = st, !.unsent = FALSE, !.answers = {}, !.subs = sb, !.history = h]
  BY DEF Open
<1>2. /\ m.engine \in Engines /\ e \in Engines /\ e # m.engine /\ Other(e) = m.engine
      /\ m.state \in [Engines -> {"closed", "opening", "open", "closing", "stuck"}]
      /\ m.subs \in SUBSET Subs
      /\ m.history \in SUBSET {"interfered", "failed", "reopened", "stale", "cutIn"}
  BY Others DEF ClientType
<1>3. /\ st \in [Engines -> {"closed", "opening", "open", "closing", "stuck"}]
      /\ st[e] = "opening" /\ st[m.engine] = m.state[m.engine]
  BY <1>2
<1>4. sb \in SUBSET Subs /\ h \in SUBSET {"interfered", "failed", "reopened", "stale", "cutIn"}
  BY <1>2 DEF Subs, Openers
<1>5. /\ m.reconnecting /\ k = "first" => "interfered" \in h
      /\ "reopened" \notin h => m.subs = {} /\ "reopened" \notin m.history
      /\ h \cap {"cutIn", "stale"} = m.history \cap {"cutIn", "stale"}
  OBVIOUS
<1>6. sb = m.subs \cup {<<e, k>>}
  OBVIOUS
<1> HIDE DEF st, sb, h, e
<1>7. x \in ClientType
  BY <1>2 DEF ClientType
<1>8. y \in ClientType
  <2> HIDE DEF x
  <2> QED
    BY <1>3, <1>7 DEF ClientType
<1>9. z \in ClientType
  <2> HIDE DEF y
  <2> QED
    BY <1>8 DEF ClientType
<1>10. w \in ClientType
  <2> HIDE DEF z
  <2> QED
    BY <1>4, <1>9 DEF ClientType
<1>11. d = w
  BY <1>1 DEF ClientType
<1>12. /\ w.engine = e /\ w.readyState = "opening" /\ w.skipReconnect = FALSE
       /\ w.state = st /\ w.subs = sb /\ w.history = h
       /\ w.reconnecting = m.reconnecting /\ w.attempts = m.attempts
       /\ w.sent = m.sent /\ w.jobs = m.jobs /\ w.sendBuffer = m.sendBuffer
       /\ w.accepted = m.accepted /\ w.connected = m.connected
       /\ w.encoding = m.encoding /\ w.packetBuffer = m.packetBuffer
  BY DEF ClientType
<1> HIDE DEF w
<1>13. Kept(m, w)
  BY <1>5, <1>12 DEF Kept, Clean
<1>14. m.subs \subseteq {<<m.engine, "events">>}
  BY DEF Listening
<1>15. Listening(w)
  <2>1. <<e, k>> \in sb /\ sb \subseteq {<<e, k>>, <<Other(e), "events">>}
    BY <1>2, <1>6, <1>14
  <2>2. <<e, "retry">> \in sb => k = "retry"
    BY <1>2, <1>6, <1>14 DEF Openers
  <2>3. k = "retry" => sb = {<<e, "retry">>}
    BY <1>6
  <2> QED
    BY <1>12, <2>1, <2>2, <2>3 DEF Listening
<1>16. Trying(w)
  <2>1. k = "retry" => sb = {<<e, "retry">>}
    BY <1>6
  <2>2. m.reconnecting => "interfered" \in h \/ sb = {<<e, "retry">>}
    BY <1>5, <2>1 DEF Openers
  <2> QED
    BY <1>12, <2>2 DEF Trying, Interfered
<1>17. Alone(w)
  <2> SUFFICES ASSUME "reopened" \notin h
               PROVE  st[Other(e)] \notin Opening /\ <<Other(e), "events">> \notin sb
    BY <1>12 DEF Alone
  <2>1. m.subs = {} /\ "reopened" \notin m.history
    BY <1>5
  <2>2. m.state[m.engine] \notin Opening
    BY <2>1 DEF Quiet
  <2> QED
    BY <1>2, <1>3, <1>6, <2>1, <2>2 DEF Openers
<1>18. Quiet(w)
  BY <1>12 DEF Quiet
<1> QED
  BY <1>10, <1>11, <1>13, <1>15, <1>16, <1>17, <1>18 DEF Control

-----------------------------------------------------------------------------
(* The steps.                                                               *)
LEMMA InvKept ==
  ASSUME NEW m, NEW d \in ClientType, Inv(m), Control(d), Kept(m, d)
  PROVE  Inv(d)
BY OrderedKept DEF Inv

LEMMA InvWrote ==
  ASSUME NEW m, NEW d, Inv(m), Wrote(m, d),
         \A clean \in BOOLEAN : Ordered(clean, m, {}) => Ordered(clean, d, {})
  PROVE  Inv(d)
<1>1. m \in ClientType /\ Control(m) /\ Ordered(Clean(m), m, {}) /\ Unbuffered(m)
  BY DEF Inv
<1>2. Control(d) /\ d \in ClientType
  BY <1>1, WroteControl DEF Wrote
<1>3. Clean(d) = Clean(m) /\ Unbuffered(d) /\ Clean(m) \in BOOLEAN
  BY <1>1 DEF Clean, Unbuffered, Wrote
<1>4. Ordered(Clean(m), d, {})
  BY <1>1, <1>3
<1> QED
  BY <1>1, <1>2, <1>3, <1>4 DEF Inv

LEMMA StepConnect ==
  ASSUME IInv, NEW s \in Sockets, Connect(s)
  PROVE  IInv'
<1> DEFINE u == Open(c, "first")
           o == [u EXCEPT !.connecting = @ \cup {s}]
<1>1. Inv(c) /\ c \in ClientType /\ Control(c)
  BY DEF IInv, Inv
<1>2. c' = IF o.readyState = "open" THEN SocketsOpen(o, {s}) ELSE o
  BY DEF Connect
<1>3. u \in ClientType /\ Control(u) /\ Kept(c, u)
  <2>1. CASE c.readyState # "closed"
    <3>1. u = c
      BY <2>1 DEF Open
    <3> QED
      BY <1>1, <3>1 DEF Kept
  <2>2. CASE c.readyState = "closed"
    <3>1. c.attempts # 0 => c.reconnecting
      BY <1>1 DEF Control, Trying
    <3>2. "first" \in Openers /\ "first" # "retry"
      BY DEF Openers
    <3> QED
      BY <1>1, <2>2, <3>1, <3>2, OpenControl DEF Control
  <2> QED
    BY <2>1, <2>2
<1> HIDE DEF u
<1>4. o \in ClientType
  BY <1>3 DEF ClientType
<1>5. /\ SameControl(u, o) /\ o.history = u.history /\ o.state = u.state
      /\ o.sent = u.sent /\ o.jobs = u.jobs /\ o.sendBuffer = u.sendBuffer
      /\ o.accepted = u.accepted /\ o.connected = u.connected
      /\ o.encoding = u.encoding /\ o.packetBuffer = u.packetBuffer
  BY <1>3 DEF ClientType, SameControl
<1> HIDE DEF o
<1>6. Control(o)
  BY <1>3, <1>4, <1>5, ControlSame DEF Control
<1>7. Kept(c, o)
  <2>1. Kept(u, o)
    BY <1>5 DEF Kept, Clean
  <2> QED
    BY <1>3, <2>1, KeptTwice
<1>8. Inv(o)
  BY <1>1, <1>4, <1>6, <1>7, InvKept
<1>9. CASE o.readyState = "open"
  <2>1. c' = SocketsOpen(o, {s}) /\ {s} \in SUBSET Sockets
    BY <1>2, <1>9
  <2>2. /\ Wrote(o, c')
        /\ \A clean \in BOOLEAN : Ordered(clean, o, {}) => Ordered(clean, c', {})
    BY <1>4, <2>1, SocketsOpenOrdered
  <2> QED
    BY <1>8, <2>2, InvWrote DEF IInv
<1>10. CASE o.readyState # "open"
  <2>1. c' = o
    BY <1>2, <1>10
  <2> QED
    BY <1>8, <2>1 DEF IInv
<1> QED
  BY <1>9, <1>10

LEMMA PacketTypes ==
  ASSUME NEW s \in Sockets
  PROVE  /\ Packet("disconnect", s) \in Packets /\ ~Ev(Packet("disconnect", s))
         /\ Packet("disconnect", s).n \notin Blobs
         /\ \A n \in 1 .. MaxEvents :
              /\ Event(s, n) \in Packets /\ Ev(Event(s, n)) /\ Event(s, n).n = n
              /\ Event(s, n).socket = s
BY ManagerAssumption DEF Packet, Packets, Kinds, Ev, Event

(* A packet that carries no event changes the order of none.                *)
LEMMA StepDisconnect ==
  ASSUME IInv, NEW s \in Sockets, Disconnect(s)
  PROVE  IInv'
<1> DEFINE p == Packet("disconnect", s)
           x == IF s \in c.connected THEN WritePacket(c, p) ELSE c
           y == Destroy(x, s)
           z == [y EXCEPT !.connected = @ \ {s}]
<1>1. Inv(c) /\ c \in ClientType /\ Control(c)
  BY DEF IInv, Inv
<1>2. c' = z
  BY DEF Disconnect
<1>3. p \in Packets /\ p.n \notin Blobs /\ One(p) = {}
  BY PacketTypes DEF One
<1>4. Inv(x)
  <2>1. CASE s \in c.connected
    <3>1. x = WritePacket(c, p)
      BY <2>1
    <3> HIDE DEF x, p
    <3>2. Wrote(c, x)
      BY <1>1, <1>3, <3>1, WritePacketFields
    <3>3. ASSUME NEW clean \in BOOLEAN, Ordered(clean, c, {}) PROVE Ordered(clean, x, {})
      <4>1. Ordered(clean, c, {} \cup One(p)) /\ AllBefore(clean, One(p), {})
        BY <1>3, <3>3 DEF AllBefore
      <4> QED
        BY <1>1, <1>3, <3>1, <4>1, OrderedWrite
    <3> QED
      BY <1>1, <3>2, <3>3, InvWrote
  <2>2. CASE s \notin c.connected
    BY <1>1, <2>2
  <2> QED
    BY <2>1, <2>2
<1> HIDE DEF x
<1>5. x \in ClientType /\ Control(x)
  BY <1>4 DEF Inv
<1>6. y \in ClientType /\ Control(y) /\ Kept(x, y)
  BY <1>5, DestroyControl
<1> HIDE DEF y
<1>7. z \in ClientType
  BY <1>6 DEF ClientType
<1>8. /\ SameControl(y, z) /\ z.history = y.history /\ z.state = y.state
      /\ z.sent = y.sent /\ z.jobs = y.jobs /\ z.sendBuffer = y.sendBuffer
      /\ z.accepted = y.accepted /\ z.connected = y.connected \ {s}
      /\ z.encoding = y.encoding /\ z.packetBuffer = y.packetBuffer
  BY <1>6 DEF ClientType, SameControl
<1> HIDE DEF z
<1>9. Control(z)
  BY <1>6, <1>7, <1>8, ControlSame DEF Control
<1>10. Kept(x, z)
  <2>1. Kept(y, z)
    BY <1>8 DEF Kept, Clean
  <2> QED
    BY <1>6, <2>1, KeptTwice
<1> QED
  BY <1>2, <1>4, <1>7, <1>9, <1>10, InvKept DEF IInv

(* Socket.emit: the event is later than all before it.  A Socket that is    *)
(* connected has buffered none, unless its "connect" listener emits.        *)
LEMMA EmitOrdered ==
  ASSUME NEW m \in ClientType, NEW s \in Sockets, NEW d, d = EmitOn(m, s),
         m.accepted < MaxEvents, NEW clean \in BOOLEAN, Ordered(clean, m, {}),
         clean /\ s \in m.connected => m.sendBuffer[s] = <<>>
  PROVE  /\ d \in ClientType /\ Ordered(clean, d, {})
         /\ SameControl(m, d) /\ d.history = m.history /\ d.state = m.state
         /\ d.connected = m.connected
         /\ \A t \in Sockets : t \in m.connected => d.sendBuffer[t] = m.sendBuffer[t]
<1> DEFINE n == m.accepted + 1
           p == Event(s, n)
           a == [m EXCEPT !.accepted = n]
<1>1. /\ m.accepted \in Nat /\ n \in 0 .. MaxEvents /\ n \in 1 .. MaxEvents /\ n \in 1 .. n
      /\ 1 .. m.accepted \subseteq 1 .. n /\ \A i \in 1 .. m.accepted : i < n /\ i # n
  BY ManagerAssumption DEF ClientType
<1>2. p \in Packets /\ Ev(p) /\ p.n = n /\ p.socket = s /\ One(p) = {p}
  BY <1>1, PacketTypes DEF One
<1>3. d = IF s \in m.connected THEN WritePacket(a, p)
          ELSE [a EXCEPT !.sendBuffer[s] = Append(@, p)]
  BY DEF EmitOn
<1> HIDE DEF p, n
<1>4. a \in ClientType
  BY <1>1 DEF ClientType
<1>5. /\ SameControl(m, a) /\ a.history = m.history /\ a.state = m.state
      /\ a.sent = m.sent /\ a.jobs = m.jobs /\ a.sendBuffer = m.sendBuffer
      /\ a.accepted = n /\ a.connected = m.connected
      /\ a.encoding = m.encoding /\ a.packetBuffer = m.packetBuffer
  BY DEF ClientType, SameControl
<1> HIDE DEF a
<1>6. Queued(a) = Queued(m)
  BY <1>5 DEF Queued
<1>7. \A q \in Evs(a.sent) \cup a.jobs \cup Evs(a.packetBuffer) \cup Queued(a) : q.n \in 1 .. m.accepted
  BY <1>5, <1>6 DEF Ordered
<1>8. \A P : P \subseteq Evs(a.sent) \cup a.jobs \cup Evs(a.packetBuffer) \cup Queued(a)
               => AllBefore(clean, P, {p})
  BY <1>1, <1>2, <1>7 DEF AllBefore, Before
<1>9. CASE s \in m.connected
  <2>1. d = WritePacket(a, p)
    BY <1>3, <1>9
  <2>2. AllBefore(clean, {p}, Queued(a))
    <3> SUFFICES ASSUME NEW t \in Sockets, NEW q \in Evs(m.sendBuffer[t])
                 PROVE  Before(clean, p, q)
      BY <1>6 DEF AllBefore, Queued
    <3>1. q \in Queued(a)
      BY <1>6 DEF Queued
    <3>2. q.n # n
      BY <1>1, <1>7, <3>1
    <3>3. q.socket = t
      BY DEF Ordered
    <3>4. clean => t # s
      BY <1>9, EvsEmpty
    <3> QED
      BY <1>2, <3>2, <3>3, <3>4 DEF Before
  <2>3. Ordered(clean, a, {p})
    <3>1. \A q \in Evs(a.sent) \cup a.jobs \cup Evs(a.packetBuffer) \cup {p} \cup Queued(a) :
            q.n \in 1 .. a.accepted
      BY <1>1, <1>2, <1>5, <1>7
    <3>2. /\ AllBefore(clean, Evs(a.sent), {p}) /\ AllBefore(clean, a.jobs, {p})
          /\ AllBefore(clean, Evs(a.packetBuffer), {p})
      BY <1>8
    <3>3. /\ AllBefore(clean, Evs(a.sent), a.jobs \cup Evs(a.packetBuffer) \cup {p} \cup Queued(a))
          /\ AllBefore(clean, a.jobs, Evs(a.packetBuffer) \cup {p} \cup Queued(a))
          /\ AllBefore(clean, Evs(a.packetBuffer), {p} \cup Queued(a))
      BY <1>5, <1>6, <3>2 DEF Ordered, AllBefore
    <3> QED
      BY <1>5, <1>6, <2>2, <3>1, <3>3 DEF Ordered
  <2>4. Ordered(clean, a, {} \cup One(p)) /\ AllBefore(clean, One(p), {})
    BY <1>2, <2>3 DEF AllBefore
  <2>5. Ordered(clean, d, {})
    BY <1>2, <1>4, <2>1, <2>4, OrderedWrite
  <2>6. Wrote(a, d)
    BY <1>2, <1>4, <2>1, WritePacketFields
  <2> QED
    BY <1>5, <2>5, <2>6 DEF Wrote, SameControl
<1>10. CASE s \notin m.connected
  <2> DEFINE sb == [m.sendBuffer EXCEPT ![s] = Append(@, p)]
             z == [a EXCEPT !.sendBuffer = sb]
  <2>1. m.sendBuffer \in [Sockets -> Seq(Packets)] /\ m.sendBuffer[s] \in Seq(Packets)
    BY DEF ClientType
  <2>2. /\ sb \in [Sockets -> Seq(Packets)] /\ sb[s] = Append(m.sendBuffer[s], p)
        /\ \A t \in Sockets : t # s => sb[t] = m.sendBuffer[t]
    BY <1>2, <2>1, AppendProperties
  <2>3. d = z
    BY <1>3, <1>5, <1>10
  <2> HIDE DEF sb
  <2>4. z \in ClientType
    BY <1>4, <2>2 DEF ClientType
  <2>5. /\ SameControl(a, z) /\ z.history = a.history /\ z.state = a.state
        /\ z.sent = a.sent /\ z.jobs = a.jobs /\ z.sendBuffer = sb
        /\ z.accepted = n /\ z.connected = a.connected
        /\ z.encoding = a.encoding /\ z.packetBuffer = a.packetBuffer
    BY <1>4, <1>5 DEF ClientType, SameControl
  <2> HIDE DEF z
  <2>6. Evs(sb[s]) = Evs(m.sendBuffer[s]) \cup {p} /\ Proper(sb[s])
    <3>1. Proper(m.sendBuffer[s])
      BY DEF Ordered
    <3> QED
      BY <1>2, <2>1, <2>2, <3>1, EvsAppend
  <2>7. Queued(z) = Queued(m) \cup {p}
    <3>1. \A q \in Queued(z) : q \in Queued(m) \cup {p}
      BY <2>2, <2>5, <2>6 DEF Queued
    <3>2. \A q \in Queued(m) \cup {p} : q \in Queued(z)
      BY <2>2, <2>5, <2>6 DEF Queued
    <3> QED
      BY <3>1, <3>2
  <2>8. Evs(m.sendBuffer[s]) \subseteq Queued(a)
    BY <1>6 DEF Queued
  <2>9. Sorted(clean, sb[s])
    <3>1. Sorted(clean, m.sendBuffer[s])
      BY DEF Ordered
    <3>2. AllBefore(clean, Evs(m.sendBuffer[s]), One(p))
      BY <1>2, <1>8, <2>8
    <3> QED
      BY <1>2, <2>1, <2>2, <3>1, <3>2, EvsAppend
  <2>10. \A q \in Evs(z.sent) \cup z.jobs \cup Evs(z.packetBuffer) \cup {} \cup Queued(z) :
            q.n \in 1 .. z.accepted
    BY <1>1, <1>2, <1>5, <1>6, <1>7, <2>5, <2>7
  <2>11. /\ AllBefore(clean, Evs(z.sent), z.jobs \cup Evs(z.packetBuffer) \cup {} \cup Queued(z))
         /\ AllBefore(clean, z.jobs, Evs(z.packetBuffer) \cup {} \cup Queued(z))
         /\ AllBefore(clean, Evs(z.packetBuffer), {} \cup Queued(z))
         /\ AllBefore(clean, {}, Queued(z))
    <3>1. /\ AllBefore(clean, Evs(a.sent), {p}) /\ AllBefore(clean, a.jobs, {p})
          /\ AllBefore(clean, Evs(a.packetBuffer), {p})
      BY <1>8
    <3> QED
      BY <1>5, <2>5, <2>7, <3>1 DEF Ordered, AllBefore
  <2>12. \A t, u \in Sockets : t # u =>
           AllBefore(FALSE, Evs(z.sendBuffer[t]), Evs(z.sendBuffer[u]))
    <3>1. \A t \in Sockets : /\ AllBefore(FALSE, Evs(m.sendBuffer[t]), {p})
                             /\ AllBefore(FALSE, {p}, Evs(m.sendBuffer[t]))
      <4> SUFFICES ASSUME NEW t \in Sockets, NEW q \in Evs(m.sendBuffer[t])
                   PROVE  q.n # n
        BY <1>2 DEF AllBefore, Before
      <4>1. q \in Queued(a)
        BY <1>6 DEF Queued
      <4> QED
        BY <1>1, <1>7, <4>1
    <3> SUFFICES ASSUME NEW t \in Sockets, NEW u \in Sockets, t # u
                 PROVE  AllBefore(FALSE, Evs(sb[t]), Evs(sb[u]))
      BY <2>5
    <3>2. AllBefore(FALSE, Evs(m.sendBuffer[t]), Evs(m.sendBuffer[u]))
      BY DEF Ordered
    <3>3. CASE t = s
      BY <2>2, <2>6, <3>1, <3>2, <3>3 DEF AllBefore
    <3>4. CASE u = s
      BY <2>2, <2>6, <3>1, <3>2, <3>4 DEF AllBefore
    <3>5. CASE t # s /\ u # s
      BY <2>2, <3>2, <3>5
    <3> QED
      BY <3>3, <3>4, <3>5
  <2>13. /\ \A t \in Sockets : Sorted(clean, z.sendBuffer[t]) /\ Proper(z.sendBuffer[t])
         /\ \A t \in Sockets : \A q \in Evs(z.sendBuffer[t]) : q.socket = t
    <3>1. /\ \A t \in Sockets : Sorted(clean, m.sendBuffer[t]) /\ Proper(m.sendBuffer[t])
          /\ \A t \in Sockets : \A q \in Evs(m.sendBuffer[t]) : q.socket = t
      BY DEF Ordered
    <3> QED
      BY <1>2, <2>2, <2>5, <2>6, <2>9, <3>1
  <2>14. Ordered(clean, z, {})
    BY <1>5, <2>5, <2>10, <2>11, <2>12, <2>13 DEF Ordered
  <2>15. SameControl(m, z)
    BY <1>5, <2>5 DEF SameControl
  <2> QED
    BY <1>5, <1>10, <2>2, <2>3, <2>4, <2>5, <2>14, <2>15
<1> QED
  BY <1>9, <1>10

LEMMA StepEmit ==
  ASSUME IInv, NEW s \in Sockets, Emit(s)
  PROVE  IInv'
<1> DEFINE d == EmitOn(c, s)
           b == Clean(c)
<1>1. /\ c \in ClientType /\ Control(c) /\ Ordered(b, c, {}) /\ Unbuffered(c) /\ b \in BOOLEAN
      /\ c.accepted < MaxEvents /\ c' = d
  BY DEF IInv, Inv, Emit, Clean
<1>2. s \in c.connected => c.sendBuffer[s] = <<>>
  BY <1>1 DEF Unbuffered
<1>3. b = Clean(c)
  OBVIOUS
<1> HIDE DEF b
<1>4. /\ d \in ClientType /\ Ordered(b, d, {})
      /\ SameControl(c, d) /\ d.history = c.history /\ d.state = c.state
      /\ d.connected = c.connected
      /\ \A t \in Sockets : t \in c.connected => d.sendBuffer[t] = c.sendBuffer[t]
  BY <1>1, <1>2, EmitOrdered
<1> HIDE DEF d
<1>5. Control(d)
  BY <1>1, <1>4, ControlSame DEF Control
<1>6. Unbuffered(d)
  BY <1>1, <1>4 DEF Unbuffered, ClientType
<1>7. Clean(d) = b
  BY <1>3, <1>4 DEF Clean
<1>8. Inv(d)
  BY <1>4, <1>5, <1>6, <1>7 DEF Inv
<1> QED
  BY <1>1, <1>8 DEF IInv

(* The timer of reconnect() opens the next engine.                          *)
LEMMA StepReconnectTimer ==
  ASSUME IInv, ReconnectTimer
  PROVE  IInv'
<1> DEFINE d == [c EXCEPT !.timer = FALSE]
<1>1. Inv(c) /\ c \in ClientType /\ Control(c)
  BY DEF IInv, Inv
<1>2. c' = IF d.skipReconnect THEN d ELSE Open(d, "retry")
  BY DEF ReconnectTimer
<1>3. d \in ClientType
  BY <1>1 DEF ClientType
<1>4. /\ d.readyState = c.readyState /\ d.engine = c.engine /\ d.subs = c.subs
      /\ d.skipReconnect = c.skipReconnect /\ d.reconnecting = c.reconnecting
      /\ d.attempts = c.attempts /\ d.history = c.history /\ d.state = c.state
      /\ d.sent = c.sent /\ d.jobs = c.jobs /\ d.sendBuffer = c.sendBuffer
      /\ d.accepted = c.accepted /\ d.connected = c.connected
      /\ d.encoding = c.encoding /\ d.packetBuffer = c.packetBuffer
  BY <1>1 DEF ClientType
<1> HIDE DEF d
<1>5. Kept(c, d)
  BY <1>4 DEF Kept, Clean
<1>6. Listening(d) /\ Alone(d) /\ Quiet(d)
  BY <1>1, <1>4 DEF Control, Listening, Alone, Quiet
<1>7. c.skipReconnect => c.readyState = "closed" /\ ~c.reconnecting
  BY <1>1 DEF Control, Trying
<1>8. c.attempts # 0 => c.reconnecting
  BY <1>1 DEF Control, Trying
<1>9. CASE d.skipReconnect
  <2>1. Trying(d)
    BY <1>4, <1>7, <1>8, <1>9 DEF Trying
  <2>2. c' = d
    BY <1>2, <1>9
  <2> QED
    BY <1>1, <1>3, <1>5, <1>6, <2>1, <2>2, InvKept DEF IInv, Control
<1>10. CASE ~d.skipReconnect /\ d.readyState = "closed"
  <2>1. c' = Open(d, "retry")
    BY <1>2, <1>10
  <2>2. d.subs = {}
    BY <1>1, <1>4, <1>10 DEF Control, Trying
  <2>3. "retry" \in Openers
    BY DEF Openers
  <2>4. c' \in ClientType /\ Control(c') /\ Kept(d, c')
    BY <1>3, <1>4, <1>6, <1>8, <1>10, <2>1, <2>2, <2>3, OpenControl
  <2> QED
    BY <1>1, <1>5, <2>4, KeptTwice, InvKept DEF IInv
<1>11. CASE ~d.skipReconnect /\ d.readyState # "closed"
  <2>1. c' = d
    BY <1>2, <1>11 DEF Open
  <2>2. c.reconnecting => Interfered(c) \/ c.subs = {<<c.engine, "retry">>}
    BY <1>1, <1>4, <1>11 DEF Control, Trying
  <2>3. Trying(d)
    BY <1>4, <1>8, <1>11, <2>2 DEF Trying, Interfered
  <2> QED
    BY <1>1, <1>3, <1>5, <1>6, <2>1, <2>3, InvKept DEF IInv, Control
<1> QED
  BY <1>9, <1>10, <1>11

(* Only the current engine is being opened.                                 *)
LEMMA OpenerEngine ==
  ASSUME NEW m \in ClientType, NEW e \in Engines, NEW k \in Openers,
         Listening(m), <<e, k>> \in m.subs
  PROVE  e = m.engine
<1>1. m.readyState \in {"closed", "opening", "open"}
  BY DEF ClientType
<1>2. \A f \in Engines : <<e, k>> # <<f, "events">>
  BY DEF Openers
<1>3. m.engine \in Engines /\ Other(m.engine) \in Engines
  BY Others DEF ClientType
<1>4. m.readyState = "opening"
  BY <1>1, <1>2, <1>3 DEF Listening
<1>5. PICK j \in Openers : m.subs \subseteq {<<m.engine, j>>, <<Other(m.engine), "events">>}
  BY <1>4 DEF Listening
<1>6. <<e, k>> = <<m.engine, j>>
  BY <1>2, <1>3, <1>5
<1> QED
  BY <1>6

(* The timer of open() closes the engine it waited for.                     *)
LEMMA StepConnectTimeout ==
  ASSUME IInv, ConnectTimeout
  PROVE  IInv'
<1>1. Inv(c) /\ c \in ClientType /\ Control(c)
  BY DEF IInv, Inv
<1>2. PICK k \in Openers : <<c.engine, k>> \in c.subs /\ c' = ConnectError(EngineClose(c), k)
  BY DEF ConnectTimeout, Openers
<1> DEFINE d == EngineClose(c)
<1>3. /\ d \in ClientType /\ Listening(d) /\ Trying(d) /\ Alone(d) /\ Quiet(d)
      /\ d.engine = c.engine /\ d.state[c.engine] \notin Opening /\ Kept(c, d)
      /\ <<c.engine, "events">> \notin c.subs => SameControl(c, d) /\ d.history = c.history
  BY <1>1, EngineCloseControl DEF Control
<1> HIDE DEF d
<1>4. c.readyState = "opening"
  BY <1>1, <1>2, InterferedFirst DEF Control
<1>5. c.engine \in Engines /\ Other(c.engine) # c.engine
  BY <1>1, Others DEF ClientType
<1>6. PICK j \in Openers : c.subs \subseteq {<<c.engine, j>>, <<Other(c.engine), "events">>}
  BY <1>1, <1>4 DEF Control, Listening
<1>7. <<c.engine, "events">> # <<c.engine, j>>
  BY DEF Openers
<1>8. <<c.engine, "events">> \notin c.subs
  BY <1>5, <1>6, <1>7
<1>9. <<d.engine, k>> \in d.subs
  BY <1>2, <1>3, <1>8 DEF SameControl
<1>10. c' = ConnectError(d, k)
  BY <1>2 DEF d
<1>11. /\ c' \in ClientType /\ Listening(c') /\ Trying(c') /\ Alone(c')
       /\ d.state[d.engine] \notin Opening => Quiet(c')
       /\ Kept(d, c')
  BY <1>3, <1>9, <1>10, ConnectErrorControl
<1> QED
  BY <1>1, <1>3, <1>11, KeptTwice, InvKept DEF IInv, Control

(* An engine fails.                                                         *)
LEMMA StepEngineFails ==
  ASSUME IInv, NEW e \in Engines, EngineFails(e)
  PROVE  IInv'
<1> DEFINE Asked == \E k \in Openers : <<e, k>> \in c.subs
           k == CHOOSE j \in Openers : <<e, j>> \in c.subs
<1>1. Inv(c) /\ c \in ClientType /\ Control(c)
  BY DEF IInv, Inv
<1>2. c' = EngineClosed(IF Asked THEN ConnectError(c, k) ELSE c, e)
  BY DEF EngineFails, Openers
<1>3. CASE Asked
  <2> DEFINE d == ConnectError(c, k)
  <2>1. k \in Openers /\ <<e, k>> \in c.subs
    BY <1>3
  <2> HIDE DEF k
  <2>2. e = c.engine
    BY <1>1, <2>1, OpenerEngine DEF Control
  <2>3. /\ d \in ClientType /\ Listening(d) /\ Trying(d) /\ Alone(d)
        /\ d.engine = c.engine /\ Kept(c, d)
    BY <1>1, <2>1, <2>2, ConnectErrorControl DEF Control
  <2>4. c' = EngineClosed(d, e)
    BY <1>2, <1>3
  <2> HIDE DEF d
  <2>5. /\ c' \in ClientType /\ Listening(c') /\ Trying(c') /\ Alone(c')
        /\ Quiet(d) \/ e = d.engine => Quiet(c')
        /\ Kept(d, c')
    BY <2>3, <2>4, EngineClosedControl
  <2> QED
    BY <1>1, <2>2, <2>3, <2>5, KeptTwice, InvKept DEF IInv, Control
<1>4. CASE ~Asked
  <2>1. c' = EngineClosed(c, e)
    BY <1>2, <1>4
  <2>2. /\ c' \in ClientType /\ Listening(c') /\ Trying(c') /\ Alone(c')
        /\ Quiet(c) \/ e = c.engine => Quiet(c')
        /\ Kept(c, c')
    BY <1>1, <2>1, EngineClosedControl DEF Control
  <2> QED
    BY <1>1, <2>2, InvKept DEF IInv, Control
<1> QED
  BY <1>3, <1>4

(* The write buffer of an engine is drained.                                *)
LEMMA StepDrained ==
  ASSUME IInv, NEW e \in Engines, Drained(e)
  PROVE  IInv'
<1>1. Inv(c) /\ c \in ClientType /\ Control(c)
  BY DEF IInv, Inv
<1>2. CASE c.state[e] = "closing"
  <2>1. c' = EngineClosed(c, e)
    BY <1>2 DEF Drained
  <2>2. /\ c' \in ClientType /\ Listening(c') /\ Trying(c') /\ Alone(c')
        /\ Quiet(c) \/ e = c.engine => Quiet(c')
        /\ Kept(c, c')
    BY <1>1, <2>1, EngineClosedControl DEF Control
  <2> QED
    BY <1>1, <2>2, InvKept DEF IInv, Control
<1>3. CASE c.state[e] # "closing"
  <2> DEFINE d == [c EXCEPT !.unsent = FALSE]
  <2>1. c' = d
    BY <1>3 DEF Drained
  <2>2. d \in ClientType
    BY <1>1 DEF ClientType
  <2>3. /\ SameControl(c, d) /\ d.history = c.history /\ d.state = c.state
        /\ d.sent = c.sent /\ d.jobs = c.jobs /\ d.sendBuffer = c.sendBuffer
        /\ d.accepted = c.accepted /\ d.connected = c.connected
        /\ d.encoding = c.encoding /\ d.packetBuffer = c.packetBuffer
    BY <1>1 DEF ClientType, SameControl
  <2> HIDE DEF d
  <2>4. Kept(c, d) /\ Control(d)
    BY <1>1, <2>2, <2>3, ControlSame DEF Kept, Clean, Control
  <2> QED
    BY <1>1, <2>1, <2>2, <2>4, InvKept DEF IInv
<1> QED
  BY <1>2, <1>3

(* The server disconnects a Socket.                                         *)
LEMMA StepServerDisconnects ==
  ASSUME IInv, NEW s \in Sockets, ServerDisconnects(s)
  PROVE  IInv'
<1> DEFINE y == Destroy(c, s)
           z == [y EXCEPT !.connected = @ \ {s}]
<1>1. Inv(c) /\ c \in ClientType /\ Control(c)
  BY DEF IInv, Inv
<1>2. c' = z
  BY DEF ServerDisconnects
<1>3. y \in ClientType /\ Control(y) /\ Kept(c, y)
  BY <1>1, DestroyControl
<1> HIDE DEF y
<1>4. z \in ClientType
  BY <1>3 DEF ClientType
<1>5. /\ SameControl(y, z) /\ z.history = y.history /\ z.state = y.state
      /\ z.sent = y.sent /\ z.jobs = y.jobs /\ z.sendBuffer = y.sendBuffer
      /\ z.accepted = y.accepted /\ z.connected = y.connected \ {s}
      /\ z.encoding = y.encoding /\ z.packetBuffer = y.packetBuffer
  BY <1>3 DEF ClientType, SameControl
<1> HIDE DEF z
<1>6. Control(z)
  BY <1>3, <1>4, <1>5, ControlSame DEF Control
<1>7. Kept(c, z)
  <2>1. Kept(y, z)
    BY <1>5 DEF Kept, Clean
  <2> QED
    BY <1>3, <2>1, KeptTwice
<1> QED
  BY <1>1, <1>2, <1>4, <1>6, <1>7, InvKept DEF IInv

(* An engine opens: open() of the Manager is done.                          *)
LEMMA OnOpenInv ==
  ASSUME NEW m \in ClientType, NEW k \in Openers, NEW d, d = OnOpen(m, k),
         Listening(m), Trying(m), Alone(m), <<m.engine, k>> \in m.subs,
         Ordered(Clean(m), m, {}), Unbuffered(m)
  PROVE  Inv(d)
<1> DEFINE u == Cleanup(m)
           x == [u EXCEPT !.readyState = "open"]
           w == SocketsOpen(x, m.connecting)
           sb == {<<w.engine, "events">>}
           h == w.history \ {"interfered"}
           y == [w EXCEPT !.subs = sb]
           z == [y EXCEPT !.reconnecting = FALSE, !.attempts = 0, !.history = h]
<1>1. d = IF k = "retry" THEN z ELSE y
  BY DEF OnOpen
<1>2. /\ u \in ClientType /\ Kept(m, u)
      /\ u.history = (IF m.jobs = {} THEN m.history ELSE m.history \cup {"stale"})
      /\ u.engine = m.engine /\ u.skipReconnect = m.skipReconnect
      /\ u.reconnecting = m.reconnecting /\ u.attempts = m.attempts /\ u.state = m.state
  BY CleanupFields, CleanupKept
<1> HIDE DEF u
<1>3. /\ x \in ClientType /\ x.readyState = "open" /\ x.history = u.history
      /\ x.engine = m.engine /\ x.skipReconnect = m.skipReconnect
      /\ x.reconnecting = m.reconnecting /\ x.attempts = m.attempts /\ x.state = m.state
      /\ x.sent = u.sent /\ x.jobs = u.jobs /\ x.sendBuffer = u.sendBuffer
      /\ x.accepted = u.accepted /\ x.connected = u.connected
      /\ x.encoding = u.encoding /\ x.packetBuffer = u.packetBuffer
  BY <1>2 DEF ClientType
<1> HIDE DEF x
<1>4. Ordered(Clean(x), x, {}) /\ Unbuffered(x)
  <2>1. Kept(u, x)
    BY <1>3 DEF Kept, Clean
  <2>2. Kept(m, x)
    BY <1>2, <2>1, KeptTwice
  <2> QED
    BY <2>2, OrderedKept
<1>5. Wrote(x, w) /\ Ordered(Clean(x), w, {})
  <2>1. m.connecting \in SUBSET Sockets /\ Clean(x) \in BOOLEAN
    BY DEF ClientType, Clean
  <2>2. /\ Wrote(x, w)
        /\ \A clean \in BOOLEAN : Ordered(clean, x, {}) => Ordered(clean, w, {})
    BY <1>3, <2>1, SocketsOpenOrdered
  <2> QED
    BY <1>4, <2>1, <2>2
<1> HIDE DEF w
<1>6. Ordered(Clean(w), w, {}) /\ Unbuffered(w)
  <2>1. Clean(w) = Clean(x)
    BY <1>5 DEF Wrote, Clean
  <2> QED
    BY <1>4, <1>5, <2>1 DEF Wrote, Unbuffered
<1>7. /\ w \in ClientType /\ w.readyState = "open" /\ w.history = u.history
      /\ w.engine = m.engine /\ w.skipReconnect = m.skipReconnect
      /\ w.reconnecting = m.reconnecting /\ w.attempts = m.attempts /\ w.state = m.state
  BY <1>3, <1>5 DEF Wrote
<1>8. /\ sb \in SUBSET Subs /\ sb = {<<m.engine, "events">>}
      /\ h \in SUBSET {"interfered", "failed", "reopened", "stale", "cutIn"}
      /\ h = w.history \ {"interfered"}
  BY <1>7 DEF ClientType, Subs
<1> HIDE DEF sb, h
<1>9. y \in ClientType
  BY <1>7, <1>8 DEF ClientType
<1>10. z \in ClientType
  <2>1. 0 \in 0 .. MaxAttempts
    BY ManagerAssumption
  <2> HIDE DEF y
  <2> QED
    BY <1>8, <1>9, <2>1 DEF ClientType
<1>11. /\ y.readyState = "open" /\ y.subs = sb /\ y.history = w.history
       /\ y.engine = m.engine /\ y.skipReconnect = m.skipReconnect
       /\ y.reconnecting = m.reconnecting /\ y.attempts = m.attempts /\ y.state = m.state
       /\ y.sent = w.sent /\ y.jobs = w.jobs /\ y.sendBuffer = w.sendBuffer
       /\ y.accepted = w.accepted /\ y.connected = w.connected
       /\ y.encoding = w.encoding /\ y.packetBuffer = w.packetBuffer
  BY <1>7 DEF ClientType
<1>12. /\ z.readyState = "open" /\ z.subs = sb /\ z.history = h
       /\ z.engine = m.engine /\ z.skipReconnect = m.skipReconnect
       /\ z.reconnecting = FALSE /\ z.attempts = 0 /\ z.state = m.state
       /\ z.sent = w.sent /\ z.jobs = w.jobs /\ z.sendBuffer = w.sendBuffer
       /\ z.accepted = w.accepted /\ z.connected = w.connected
       /\ z.encoding = w.encoding /\ z.packetBuffer = w.packetBuffer
  BY <1>7 DEF ClientType
<1> HIDE DEF y, z
<1>13. Kept(w, y) /\ Kept(w, z)
  BY <1>8, <1>11, <1>12 DEF Kept, Clean
<1>14. m.readyState = "opening" /\ ~m.skipReconnect /\ (k = "first" /\ m.reconnecting => Interfered(m))
  BY InterferedFirst
<1>15. ASSUME NEW f \in ClientType, f.readyState = "open", f.subs = sb, f.engine = m.engine,
              f.skipReconnect = m.skipReconnect, f.state = m.state,
              "reopened" \in m.history => "reopened" \in f.history,
              f.reconnecting => Interfered(f), f.attempts # 0 => f.reconnecting
       PROVE  Control(f)
  <2>1. m.engine \in Engines /\ Other(m.engine) # m.engine
    BY Others DEF ClientType
  <2>2. <<m.engine, "retry">> \notin sb /\ <<Other(m.engine), "events">> \notin sb
    BY <1>8, <2>1
  <2>3. Listening(f)
    BY <1>8, <1>15, <2>2 DEF Listening
  <2>4. Trying(f)
    BY <1>14, <1>15 DEF Trying
  <2>5. Alone(f)
    BY <1>15, <2>2 DEF Alone
  <2>6. Quiet(f)
    BY <1>15 DEF Quiet
  <2> QED
    BY <2>3, <2>4, <2>5, <2>6 DEF Control
<1>16. CASE k = "retry"
  <2>1. d = z /\ ("reopened" \in m.history => "reopened" \in h)
    BY <1>1, <1>2, <1>7, <1>8, <1>16
  <2>2. Control(z)
    BY <1>10, <1>12, <1>15, <2>1
  <2>3. Ordered(Clean(z), z, {}) /\ Unbuffered(z)
    BY <1>6, <1>13, OrderedKept
  <2> QED
    BY <1>10, <2>1, <2>2, <2>3 DEF Inv
<1>17. CASE k = "first"
  <2>1. d = y /\ ("reopened" \in m.history => "reopened" \in y.history)
    BY <1>1, <1>2, <1>7, <1>11, <1>17
  <2>2. y.reconnecting => Interfered(y)
    BY <1>2, <1>7, <1>11, <1>14, <1>17 DEF Interfered
  <2>3. y.attempts # 0 => y.reconnecting
    BY <1>11 DEF Trying
  <2>4. Control(y)
    BY <1>9, <1>11, <1>15, <2>1, <2>2, <2>3
  <2>5. Ordered(Clean(y), y, {}) /\ Unbuffered(y)
    BY <1>6, <1>13, OrderedKept
  <2> QED
    BY <1>9, <2>1, <2>4, <2>5 DEF Inv
<1> QED
  BY <1>16, <1>17 DEF Openers

LEMMA StepEngineOpens ==
  ASSUME IInv, NEW e \in Engines, EngineOpens(e)
  PROVE  IInv'
<1> DEFINE Asked == \E k \in Openers : <<e, k>> \in c.subs
           k == CHOOSE j \in Openers : <<e, j>> \in c.subs
           st == [c.state EXCEPT ![e] = "open"]
           an == IF e = c.engine THEN {Root} ELSE c.answers
           o == [c EXCEPT !.state = st, !.answers = an]
<1>1. Inv(c) /\ c \in ClientType /\ Control(c) /\ Ordered(Clean(c), c, {}) /\ Unbuffered(c)
  BY DEF IInv, Inv
<1>2. c' = (IF Asked THEN OnOpen(o, k) ELSE o) /\ c.state[e] = "opening"
  BY DEF EngineOpens, Openers
<1>3. /\ st \in [Engines -> {"closed", "opening", "open", "closing", "stuck"}]
      /\ \A f \in Engines : f # e => st[f] = c.state[f]
  BY <1>1 DEF ClientType
<1>4. an \in SUBSET Sockets
  BY <1>1, ManagerAssumption DEF ClientType
<1> HIDE DEF st, an
<1>5. o \in ClientType
  BY <1>1, <1>3, <1>4 DEF ClientType
<1>6. /\ SameControl(c, o) /\ o.history = c.history /\ o.state = st
      /\ o.sent = c.sent /\ o.jobs = c.jobs /\ o.sendBuffer = c.sendBuffer
      /\ o.accepted = c.accepted /\ o.connected = c.connected
      /\ o.encoding = c.encoding /\ o.packetBuffer = c.packetBuffer
  BY <1>1 DEF ClientType, SameControl
<1> HIDE DEF o
<1>7. Kept(c, o)
  BY <1>6 DEF Kept, Clean
<1>8. Listening(o) /\ Trying(o)
  BY <1>1, <1>5, <1>6, ControlSame DEF Control
<1>9. c.engine \in Engines /\ Other(c.engine) \in Engines
  BY <1>1, Others DEF ClientType
<1>10. Alone(o)
  <2> SUFFICES ASSUME "reopened" \notin c.history
               PROVE  /\ st[Other(c.engine)] \notin Opening
                      /\ <<Other(c.engine), "events">> \notin c.subs
    BY <1>6 DEF Alone, SameControl
  <2>1. c.state[Other(c.engine)] \notin Opening /\ <<Other(c.engine), "events">> \notin c.subs
    BY <1>1 DEF Control, Alone
  <2>2. Other(c.engine) # e
    BY <1>2, <2>1 DEF Opening
  <2> QED
    BY <1>3, <1>9, <2>1, <2>2
<1>11. Quiet(o)
  <2> SUFFICES ASSUME "reopened" \notin c.history, c.readyState = "closed"
               PROVE  st[c.engine] \notin Opening
    BY <1>6 DEF Quiet, SameControl
  <2>1. c.state[c.engine] \notin Opening
    BY <1>1 DEF Control, Quiet
  <2>2. c.engine # e
    BY <1>2, <2>1 DEF Opening
  <2> QED
    BY <1>3, <1>9, <2>1, <2>2
<1>12. CASE Asked
  <2>1. k \in Openers /\ <<e, k>> \in c.subs
    BY <1>12
  <2>2. c' = OnOpen(o, k)
    BY <1>2, <1>12
  <2> HIDE DEF k
  <2>3. <<o.engine, k>> \in o.subs
    BY <1>1, <1>6, <2>1, OpenerEngine DEF Control, SameControl
  <2>4. Ordered(Clean(o), o, {}) /\ Unbuffered(o)
    BY <1>1, <1>7, OrderedKept
  <2> QED
    BY <1>5, <1>8, <1>10, <2>1, <2>2, <2>3, <2>4, OnOpenInv DEF IInv
<1>13. CASE ~Asked
  <2>1. c' = o
    BY <1>2, <1>13
  <2> QED
    BY <1>1, <1>5, <1>7, <1>8, <1>10, <1>11, <2>1, InvKept DEF IInv, Control
<1> QED
  BY <1>12, <1>13

(* A Socket is connected: what it buffered is written.                      *)
LEMMA OnConnectInv ==
  ASSUME NEW m \in ClientType, NEW s \in Sockets, NEW d, d = OnConnect(m, s),
         Control(m), Ordered(Clean(m), m, {}),
         \A t \in m.connected : t # s => m.sendBuffer[t] = <<>>
  PROVE  Inv(d)
<1> DEFINE ps == m.sendBuffer[s]
           sb == [m.sendBuffer EXCEPT ![s] = <<>>]
           z == [m EXCEPT !.sendBuffer = sb]
           b == Clean(m)
<1>1. d = WriteAll(z, ps)
  BY DEF OnConnect
<1>2. m.sendBuffer \in [Sockets -> Seq(Packets)] /\ ps \in Seq(Packets) /\ b \in BOOLEAN
  BY DEF ClientType, Clean
<1>3. /\ sb \in [Sockets -> Seq(Packets)] /\ sb[s] = <<>>
      /\ \A t \in Sockets : t # s => sb[t] = m.sendBuffer[t]
  BY <1>2, EmptySeq
<1> HIDE DEF sb
<1>4. z \in ClientType
  BY <1>3 DEF ClientType
<1>5. /\ SameControl(m, z) /\ z.history = m.history /\ z.state = m.state
      /\ z.sent = m.sent /\ z.jobs = m.jobs /\ z.sendBuffer = sb
      /\ z.accepted = m.accepted /\ z.connected = m.connected
      /\ z.encoding = m.encoding /\ z.packetBuffer = m.packetBuffer
  BY DEF ClientType, SameControl
<1> HIDE DEF z
<1>6. ps = m.sendBuffer[s] /\ b = Clean(m)
  OBVIOUS
<1> HIDE DEF ps, b
<1>7. \A t \in Sockets : Evs(sb[t]) \subseteq Evs(m.sendBuffer[t])
  BY <1>3, EvsEmpty
<1>8. Evs(ps) \subseteq Queued(m) /\ Queued(z) \subseteq Queued(m)
  <2>1. Evs(ps) \subseteq Queued(m)
    BY <1>6 DEF Queued
  <2>2. Queued(z) \subseteq Queued(m)
    BY <1>5, <1>7 DEF Queued
  <2> QED
    BY <2>1, <2>2
<1>9. AllBefore(b, Evs(ps), Queued(z))
  <2> SUFFICES ASSUME NEW p \in Evs(ps), NEW t \in Sockets, NEW q \in Evs(sb[t])
               PROVE  Before(b, p, q)
    BY <1>5 DEF AllBefore, Queued
  <2>1. t # s
    BY <1>3, EvsEmpty
  <2>2. AllBefore(FALSE, Evs(m.sendBuffer[s]), Evs(m.sendBuffer[t]))
    BY <2>1 DEF Ordered
  <2>3. p \in Evs(m.sendBuffer[s]) /\ q \in Evs(m.sendBuffer[t])
    BY <1>6, <1>7
  <2>4. p.n # q.n
    BY <2>2, <2>3 DEF AllBefore, Before
  <2>5. p.socket = s /\ q.socket = t
    BY <2>3 DEF Ordered
  <2> QED
    BY <2>1, <2>4, <2>5 DEF Before
<1>10. Ordered(b, m, {})
  BY <1>6
<1>11. Ordered(b, z, Evs(ps))
  <2>1. \A p \in Evs(z.sent) \cup z.jobs \cup Evs(z.packetBuffer) \cup Evs(ps) \cup Queued(z) :
          p.n \in 1 .. z.accepted
    BY <1>5, <1>8, <1>10 DEF Ordered
  <2>2. /\ AllBefore(b, Evs(z.sent), z.jobs \cup Evs(z.packetBuffer) \cup Evs(ps) \cup Queued(z))
        /\ AllBefore(b, z.jobs, Evs(z.packetBuffer) \cup Evs(ps) \cup Queued(z))
        /\ AllBefore(b, Evs(z.packetBuffer), Evs(ps) \cup Queued(z))
    <3>1. /\ AllBefore(b, Evs(m.sent), m.jobs \cup Evs(m.packetBuffer) \cup Queued(m))
          /\ AllBefore(b, m.jobs, Evs(m.packetBuffer) \cup Queued(m))
          /\ AllBefore(b, Evs(m.packetBuffer), Queued(m))
      BY <1>10 DEF Ordered, AllBefore
    <3> QED
      BY <1>5, <1>8, <3>1 DEF AllBefore
  <2>3. \A t, u \in Sockets : t # u => AllBefore(FALSE, Evs(sb[t]), Evs(sb[u]))
    <3>1. \A t, u \in Sockets : t # u =>
            AllBefore(FALSE, Evs(m.sendBuffer[t]), Evs(m.sendBuffer[u]))
      BY <1>10 DEF Ordered
    <3> QED
      BY <1>7, <3>1 DEF AllBefore
  <2>4. /\ \A t \in Sockets : Sorted(b, sb[t]) /\ Proper(sb[t])
        /\ \A t \in Sockets : \A p \in Evs(sb[t]) : p.socket = t
    <3>1. /\ \A t \in Sockets : Sorted(b, m.sendBuffer[t]) /\ Proper(m.sendBuffer[t])
          /\ \A t \in Sockets : \A p \in Evs(m.sendBuffer[t]) : p.socket = t
      BY <1>10 DEF Ordered
    <3>2. Sorted(b, sb[s]) /\ Proper(sb[s])
      BY <1>3, EvsEmpty
    <3>3. ASSUME NEW t \in Sockets PROVE Sorted(b, sb[t]) /\ Proper(sb[t])
      BY <1>3, <3>1, <3>2
    <3> QED
      BY <1>7, <3>1, <3>3
  <2> QED
    BY <1>5, <1>9, <1>10, <2>1, <2>2, <2>3, <2>4 DEF Ordered
<1>12. Sorted(b, ps) /\ Proper(ps)
  BY <1>6, <1>10 DEF Ordered
<1>13. Wrote(z, d) /\ Ordered(b, d, {})
  BY <1>1, <1>2, <1>4, <1>6, <1>11, <1>12, WriteAllOrdered
<1>14. Control(z)
  BY <1>4, <1>5, ControlSame DEF Control
<1>15. d \in ClientType /\ Control(d)
  BY <1>4, <1>13, <1>14, WroteControl DEF Wrote
<1>16. Clean(d) = b
  BY <1>5, <1>6, <1>13 DEF Clean, Wrote
<1>17. Unbuffered(d)
  <2>1. d.connected = m.connected /\ d.sendBuffer = sb /\ m.connected \in SUBSET Sockets
    BY <1>5, <1>13 DEF Wrote, ClientType
  <2> QED
    BY <1>3, <2>1 DEF Unbuffered
<1> QED
  BY <1>13, <1>15, <1>16, <1>17 DEF Inv

LEMMA StepServerConnects ==
  ASSUME IInv, NEW s \in Sockets, ServerConnects(s)
  PROVE  IInv'
<1> DEFINE d == [c EXCEPT !.answers = @ \ {s}]
           o == [d EXCEPT !.connected = @ \cup {s}]
           e == EmitOn(o, s)
           h == IF c.sendBuffer[s] = <<>> THEN e.history ELSE e.history \cup {"cutIn"}
           a == [e EXCEPT !.history = h]
<1>1. Inv(c) /\ c \in ClientType /\ Control(c) /\ Ordered(Clean(c), c, {}) /\ Unbuffered(c)
  BY DEF IInv, Inv
<1>2. \/ c' = d
      \/ c' = OnConnect(o, s)
      \/ c.accepted < MaxEvents /\ c' = OnConnect(a, s)
  BY DEF ServerConnects
<1>3. d \in ClientType
  BY <1>1 DEF ClientType
<1>4. /\ SameControl(c, d) /\ d.history = c.history /\ d.state = c.state
      /\ d.sent = c.sent /\ d.jobs = c.jobs /\ d.sendBuffer = c.sendBuffer
      /\ d.accepted = c.accepted /\ d.connected = c.connected
      /\ d.encoding = c.encoding /\ d.packetBuffer = c.packetBuffer
  BY <1>1 DEF ClientType, SameControl
<1> HIDE DEF d
<1>5. o \in ClientType
  BY <1>3 DEF ClientType
<1>6. /\ SameControl(c, o) /\ o.history = c.history /\ o.state = c.state
      /\ o.sent = c.sent /\ o.jobs = c.jobs /\ o.sendBuffer = c.sendBuffer
      /\ o.accepted = c.accepted /\ o.connected = c.connected \cup {s}
      /\ o.encoding = c.encoding /\ o.packetBuffer = c.packetBuffer
  BY <1>3, <1>4 DEF ClientType, SameControl
<1> HIDE DEF o
<1>7. Clean(o) = Clean(c) /\ Clean(c) \in BOOLEAN
  BY <1>6 DEF Clean
<1>8. Ordered(Clean(c), o, {})
  BY <1>1, <1>6, OrderedSame
<1>9. Control(o)
  BY <1>1, <1>5, <1>6, ControlSame DEF Control
<1>10. \A t \in o.connected : t # s => t \in c.connected /\ o.sendBuffer[t] = <<>>
  BY <1>1, <1>6 DEF Unbuffered
<1>11. CASE c' = d
  <2>1. Kept(c, d) /\ Control(d)
    BY <1>1, <1>3, <1>4, ControlSame DEF Kept, Clean, Control
  <2> QED
    BY <1>1, <1>3, <1>11, <2>1, InvKept DEF IInv
<1>12. CASE c' = OnConnect(o, s)
  BY <1>5, <1>7, <1>8, <1>9, <1>10, <1>12, OnConnectInv DEF IInv
<1>13. CASE c.accepted < MaxEvents /\ c' = OnConnect(a, s)
  <2> DEFINE b == Clean(c) /\ c.sendBuffer[s] = <<>>
  <2>1. b \in BOOLEAN /\ (b => Clean(c)) /\ (b => c.sendBuffer[s] = <<>>)
    OBVIOUS
  <2>2. Ordered(b, o, {})
    BY <1>7, <1>8, <2>1, OrderedWeaker
  <2>3. b /\ s \in o.connected => o.sendBuffer[s] = <<>>
    BY <1>6
  <2>4. b <=> Clean(c) /\ c.sendBuffer[s] = <<>>
    OBVIOUS
  <2> HIDE DEF b
  <2>5. o.accepted < MaxEvents
    BY <1>6, <1>13
  <2>6. /\ e \in ClientType /\ Ordered(b, e, {})
        /\ SameControl(o, e) /\ e.history = o.history /\ e.state = o.state
        /\ e.connected = o.connected
        /\ \A t \in Sockets : t \in o.connected => e.sendBuffer[t] = o.sendBuffer[t]
    BY <1>5, <2>1, <2>2, <2>3, <2>5, EmitOrdered
  <2> HIDE DEF e
  <2>7. /\ h \in SUBSET {"interfered", "failed", "reopened", "stale", "cutIn"}
        /\ h \in {e.history, e.history \cup {"cutIn"}}
        /\ c.sendBuffer[s] # <<>> => "cutIn" \in h
    BY <2>6 DEF ClientType
  <2>8. c.sendBuffer[s] = <<>> => h = e.history
    OBVIOUS
  <2> HIDE DEF h
  <2>9. a \in ClientType
    BY <2>6, <2>7 DEF ClientType
  <2>10. /\ SameControl(e, a) /\ a.history = h /\ a.state = e.state
         /\ a.sent = e.sent /\ a.jobs = e.jobs /\ a.sendBuffer = e.sendBuffer
         /\ a.accepted = e.accepted /\ a.connected = e.connected
         /\ a.encoding = e.encoding /\ a.packetBuffer = e.packetBuffer
    BY <2>6 DEF ClientType, SameControl
  <2> HIDE DEF a
  <2>11. Clean(a) <=> b
    BY <1>6, <2>4, <2>6, <2>7, <2>8, <2>10 DEF Clean
  <2>12. Clean(a) = b
    BY <2>1, <2>11 DEF Clean
  <2>13. Ordered(Clean(a), a, {})
    BY <2>6, <2>10, <2>12, OrderedSame
  <2>14. Control(e)
    BY <1>5, <1>9, <2>6, ControlSame DEF Control
  <2>15. \A x \in {"interfered", "failed", "reopened"} : x \in a.history <=> x \in e.history
    BY <2>7, <2>10
  <2>16. Control(a)
    BY <2>6, <2>9, <2>10, <2>14, <2>15, ControlSame DEF Control
  <2>17. \A t \in a.connected : t # s => a.sendBuffer[t] = <<>>
    BY <1>5, <1>10, <2>6, <2>10 DEF ClientType
  <2> QED
    BY <1>13, <2>9, <2>13, <2>16, <2>17, OnConnectInv DEF IInv
<1> QED
  BY <1>2, <1>11, <1>12, <1>13

(* A Blob has been read: its packet is written, then those that waited.     *)
LEMMA StepEncoded ==
  ASSUME IInv, Encoded
  PROVE  IInv'
<1>1. Inv(c) /\ c \in ClientType /\ Control(c) /\ Ordered(Clean(c), c, {}) /\ Unbuffered(c)
  BY DEF IInv, Inv
<1>2. PICK p \in c.jobs :
        c' = ProcessPacketQueue([WriteEngine(c, p) EXCEPT !.jobs = @ \ {p}, !.encoding = FALSE])
  BY DEF Encoded
<1> DEFINE x == WriteEngine(c, p)
           jb == x.jobs \ {p}
           y == [x EXCEPT !.jobs = jb, !.encoding = FALSE]
           z == [y EXCEPT !.packetBuffer = <<>>]
           ps == c.packetBuffer
           b == Clean(c)
<1>3. c' = WriteAll(z, y.packetBuffer)
  BY <1>2 DEF ProcessPacketQueue
<1>4. p \in Packets /\ ps \in Seq(Packets) /\ c.sent \in Seq(Packets) /\ b \in BOOLEAN
  BY <1>1 DEF ClientType, Clean
<1>5. Ev(p)
  BY <1>1 DEF Ordered
<1>6. /\ Wrote(c, x) /\ x.encoding = c.encoding /\ x.jobs = c.jobs
      /\ x.packetBuffer = c.packetBuffer
      /\ x.sent = c.sent \/ x.sent = Append(c.sent, p)
  BY <1>1, <1>4, WriteEngineFields
<1>7. x \in ClientType /\ Control(x)
  BY <1>1, <1>6, WroteControl DEF Wrote
<1> HIDE DEF x
<1>8. jb \in SUBSET Packets /\ jb = c.jobs \ {p}
  BY <1>6, <1>7 DEF ClientType
<1> HIDE DEF jb
<1>9. y \in ClientType
  BY <1>7, <1>8 DEF ClientType
<1>10. /\ SameControl(x, y) /\ y.history = x.history /\ y.state = x.state
       /\ y.sent = x.sent /\ y.jobs = jb /\ y.sendBuffer = x.sendBuffer
       /\ y.accepted = x.accepted /\ y.connected = x.connected
       /\ y.encoding = FALSE /\ y.packetBuffer = x.packetBuffer
  BY <1>7 DEF ClientType, SameControl
<1> HIDE DEF y
<1>11. z \in ClientType
  BY <1>9, EmptySeq DEF ClientType
<1>12. /\ SameControl(y, z) /\ z.history = y.history /\ z.state = y.state
       /\ z.sent = y.sent /\ z.jobs = y.jobs /\ z.sendBuffer = y.sendBuffer
       /\ z.accepted = y.accepted /\ z.connected = y.connected
       /\ z.encoding = y.encoding /\ z.packetBuffer = <<>>
  BY <1>9 DEF ClientType, SameControl
<1> HIDE DEF z
<1>13. /\ z.history = c.history /\ z.jobs = jb /\ z.sendBuffer = c.sendBuffer
       /\ z.accepted = c.accepted /\ z.connected = c.connected /\ z.encoding = FALSE
       /\ z.sent = x.sent /\ y.packetBuffer = ps
  BY <1>6, <1>10, <1>12 DEF Wrote
<1>14. ps = c.packetBuffer /\ b = Clean(c)
  OBVIOUS
<1> HIDE DEF ps, b
<1>15. Control(z)
  BY <1>7, <1>9, <1>10, <1>11, <1>12, ControlSame DEF Control
<1>16. Queued(z) = Queued(c)
  BY <1>13 DEF Queued
<1>17. Ordered(b, c, {})
  BY <1>1, <1>14
<1>18. /\ AllBefore(b, Evs(c.sent), c.jobs \cup Evs(ps) \cup Queued(c))
       /\ AllBefore(b, c.jobs, Evs(ps) \cup Queued(c))
       /\ AllBefore(b, Evs(ps), Queued(c))
  BY <1>14, <1>17 DEF Ordered, AllBefore
<1>19. AllBefore(b, {p}, jb \cup Evs(ps) \cup Queued(c))
  <2>1. AllBefore(b, {p}, jb)
    <3>1. \A q \in jb : p.n # q.n /\ ~b
      BY <1>2, <1>8, <1>17 DEF Ordered
    <3> QED
      BY <3>1 DEF AllBefore, Before
  <2> QED
    BY <1>2, <1>18, <2>1 DEF AllBefore
<1>20. /\ Evs(z.sent) \subseteq Evs(c.sent) \cup {p} /\ Sorted(b, z.sent)
       /\ \A i \in DOMAIN z.sent : Ev(z.sent[i])
  <2>1. Sorted(b, c.sent) /\ \A i \in DOMAIN c.sent : Ev(c.sent[i])
    BY <1>17 DEF Ordered
  <2>2. CASE x.sent = c.sent
    BY <1>13, <2>1, <2>2
  <2>3. CASE x.sent = Append(c.sent, p)
    <3>1. One(p) = {p}
      BY <1>5 DEF One
    <3>2. AllBefore(b, Evs(c.sent), One(p))
      BY <1>2, <1>18, <3>1 DEF AllBefore
    <3>3. Evs(Append(c.sent, p)) = Evs(c.sent) \cup {p} /\ Sorted(b, Append(c.sent, p))
      BY <1>4, <2>1, <3>1, <3>2, EvsAppend
    <3>4. \A i \in DOMAIN Append(c.sent, p) : Ev(Append(c.sent, p)[i])
      BY <1>4, <1>5, <2>1, EvsAppend
    <3> QED
      BY <1>13, <2>3, <3>3, <3>4
  <2> QED
    BY <1>6, <2>2, <2>3
<1>21. Ordered(b, z, Evs(ps))
  <2>1. \A q \in Evs(z.sent) \cup z.jobs \cup Evs(z.packetBuffer) \cup Evs(ps) \cup Queued(z) :
          q.n \in 1 .. z.accepted
    <3>1. \A q \in Evs(c.sent) \cup c.jobs \cup Evs(ps) \cup Queued(c) : q.n \in 1 .. c.accepted
      BY <1>14, <1>17 DEF Ordered
    <3>2. Evs(z.packetBuffer) = {}
      BY <1>12, EvsEmpty
    <3> QED
      BY <1>2, <1>8, <1>13, <1>16, <1>20, <3>1, <3>2
  <2>2. Evs(z.packetBuffer) = {} /\ Sorted(b, z.packetBuffer) /\ Proper(z.packetBuffer)
    BY <1>12, EvsEmpty
  <2>3. /\ AllBefore(b, Evs(z.sent), z.jobs \cup Evs(z.packetBuffer) \cup Evs(ps) \cup Queued(z))
        /\ AllBefore(b, z.jobs, Evs(z.packetBuffer) \cup Evs(ps) \cup Queued(z))
        /\ AllBefore(b, Evs(z.packetBuffer), Evs(ps) \cup Queued(z))
        /\ AllBefore(b, Evs(ps), Queued(z))
    <3>1. z.jobs \subseteq c.jobs
      BY <1>8, <1>13
    <3>2. AllBefore(b, Evs(z.sent), z.jobs \cup Evs(ps) \cup Queued(z))
      BY <1>8, <1>13, <1>16, <1>18, <1>19, <1>20, <3>1 DEF AllBefore
    <3> QED
      BY <1>16, <1>18, <2>2, <3>1, <3>2 DEF AllBefore
  <2>4. /\ \A q \in z.jobs : Ev(q)
        /\ \A q, r \in z.jobs : q # r => q.n # r.n /\ ~b
        /\ b => z.jobs = {}
    <3>1. /\ \A q \in c.jobs : Ev(q)
          /\ \A q, r \in c.jobs : q # r => q.n # r.n /\ ~b
      BY <1>17 DEF Ordered
    <3> QED
      BY <1>2, <1>8, <1>13, <3>1
  <2>5. /\ \A s \in Sockets : Sorted(b, z.sendBuffer[s]) /\ Proper(z.sendBuffer[s])
        /\ \A s, t \in Sockets : s # t =>
             AllBefore(FALSE, Evs(z.sendBuffer[s]), Evs(z.sendBuffer[t]))
        /\ \A s \in Sockets : \A q \in Evs(z.sendBuffer[s]) : q.socket = s
    BY <1>13, <1>17 DEF Ordered
  <2>6. z.packetBuffer = <<>>
    BY <1>12
  <2> QED
    BY <1>20, <2>1, <2>2, <2>3, <2>4, <2>5, <2>6 DEF Ordered
<1>22. Sorted(b, ps) /\ Proper(ps)
  BY <1>14, <1>17 DEF Ordered
<1>23. c' = WriteAll(z, ps)
  BY <1>3, <1>13
<1>24. Wrote(z, c') /\ Ordered(b, c', {})
  BY <1>4, <1>11, <1>21, <1>22, <1>23, WriteAllOrdered
<1>25. c' \in ClientType /\ Control(c')
  BY <1>11, <1>15, <1>24, WroteControl DEF Wrote
<1>26. Clean(c') = b /\ Unbuffered(c')
  BY <1>1, <1>13, <1>14, <1>24 DEF Clean, Wrote, Unbuffered
<1> QED
  BY <1>24, <1>25, <1>26 DEF IInv, Inv

-----------------------------------------------------------------------------
(* The theorems.                                                            *)
LEMMA InitIInv ==
  ASSUME Init
  PROVE  IInv
<1>1. /\ c.readyState = "opening" /\ c.engine = 1 /\ c.skipReconnect = FALSE
      /\ c.reconnecting = FALSE /\ c.timer = FALSE /\ c.attempts = 0
      /\ c.subs = {<<1, "first">>} /\ c.connecting = Sockets /\ c.connected = {}
      /\ c.sendBuffer = [s \in Sockets |-> <<>>] /\ c.encoding = FALSE /\ c.jobs = {}
      /\ c.packetBuffer = <<>> /\ c.accepted = 0 /\ c.sent = <<>>
      /\ c.state = [e \in Engines |-> IF e = 1 THEN "opening" ELSE "closed"]
      /\ c.unsent = FALSE /\ c.answers = {} /\ c.history = {}
  BY DEF Init
<1>2. 0 \in 0 .. MaxAttempts /\ 0 \in 0 .. MaxEvents
  BY ManagerAssumption
<1>3. 1 \in Engines /\ Other(1) = 2 /\ 2 \in Engines
  BY DEF Engines, Other
<1>4. c \in ClientType
  <2>1. /\ {<<1, "first">>} \in SUBSET Subs
        /\ [s \in Sockets |-> <<>>] \in [Sockets -> Seq(Packets)]
        /\ [e \in Engines |-> IF e = 1 THEN "opening" ELSE "closed"]
             \in [Engines -> {"closed", "opening", "open", "closing", "stuck"}]
        /\ <<>> \in Seq(Packets)
    BY <1>3, EmptySeq DEF Subs
  <2> QED
    BY <1>2, <1>3, <2>1 DEF Init, ClientType
<1>5. Listening(c)
  BY <1>1 DEF Listening, Openers
<1>6. Trying(c)
  BY <1>1 DEF Trying
<1>7. Alone(c) /\ Quiet(c)
  BY <1>1, <1>3 DEF Alone, Quiet, Opening
<1>8. \A s \in Sockets : c.sendBuffer[s] = <<>>
  BY <1>1
<1>9. Queued(c) = {}
  BY <1>8, EvsEmpty DEF Queued
<1>10. Ordered(Clean(c), c, {})
  <2>1. Evs(c.sent) = {} /\ Evs(c.packetBuffer) = {} /\ c.jobs = {}
    BY <1>1, EvsEmpty
  <2>2. /\ Sorted(Clean(c), c.sent) /\ Sorted(Clean(c), c.packetBuffer) /\ Proper(c.packetBuffer)
        /\ \A i \in DOMAIN c.sent : Ev(c.sent[i])
    BY <1>1, EvsEmpty
  <2>3. \A s \in Sockets : /\ Sorted(Clean(c), c.sendBuffer[s]) /\ Proper(c.sendBuffer[s])
                           /\ Evs(c.sendBuffer[s]) = {}
    BY <1>8, EvsEmpty
  <2>4. c.packetBuffer = <<>>
    BY <1>1
  <2> QED
    BY <1>9, <2>1, <2>2, <2>3, <2>4 DEF Ordered, AllBefore
<1>11. Unbuffered(c)
  BY <1>1 DEF Unbuffered
<1> QED
  BY <1>4, <1>5, <1>6, <1>7, <1>10, <1>11 DEF IInv, Inv, Control

LEMMA NextIInv ==
  ASSUME IInv, [Next]_c
  PROVE  IInv'
<1>1. CASE Application
  BY <1>1, StepConnect, StepDisconnect, StepEmit DEF Application
<1>2. CASE Timers
  BY <1>2, StepReconnectTimer, StepConnectTimeout DEF Timers
<1>3. CASE Network
  <2>1. CASE \E e \in Engines : EngineOpens(e) \/ EngineFails(e) \/ Drained(e)
    BY <2>1, StepEngineOpens, StepEngineFails, StepDrained
  <2>2. CASE \E s \in Sockets : ServerConnects(s) \/ ServerDisconnects(s)
    BY <2>2, StepServerConnects, StepServerDisconnects
  <2> QED
    BY <1>3, <2>1, <2>2 DEF Network
<1>4. CASE Encoded
  BY <1>4, StepEncoded
<1>5. CASE UNCHANGED c
  BY <1>5 DEF IInv
<1> QED
  BY <1>1, <1>2, <1>3, <1>4, <1>5 DEF Next

(* The invariant that the others follow from: the listeners of the Manager, *)
(* its timer and the engines agree with its readyState after every call,    *)
(* timer and event, and so do its queues.                                   *)
THEOREM Inductive == Spec => []IInv
<1>1. Init => IInv
  BY InitIInv
<1>2. IInv /\ [Next]_c => IInv'
  BY NextIInv
<1> QED
  BY <1>1, <1>2, PTL DEF Spec

(* Every field of the Manager keeps its type: reconnect() never counts more *)
(* than reconnectionAttempts, whatever calls and failures come between.     *)
THEOREM TypeCorrect == Spec => []TypeOK
<1>1. IInv => TypeOK
  BY DEF IInv, Inv, TypeOK
<1> QED
  BY <1>1, Inductive, PTL

(* A Manager that lost its connection and was not closed has the timer of   *)
(* reconnect() running or has said that it failed, and one that is opening  *)
(* or open listens to its engine: no order of onclose(), of errors, of the  *)
(* timeout of open() and of calls makes it forget, but a connect() while    *)
(* the reconnection is due.                                                 *)
THEOREM TriesOn == Spec => []KeepsTrying
<1>1. IInv => KeepsTrying
  <2> SUFFICES ASSUME IInv PROVE KeepsTrying
    OBVIOUS
  <2>1. Listening(c) /\ Trying(c) /\ c.readyState \in {"closed", "opening", "open"}
    BY DEF IInv, Inv, Control, ClientType
  <2>2. c.readyState = "closed" /\ ~c.skipReconnect =>
          c.timer \/ c.history \cap {"failed", "interfered"} # {}
    BY <2>1 DEF Trying
  <2>3. c.readyState # "closed" => \E k \in {"first", "retry", "events"} : <<c.engine, k>> \in c.subs
    BY <2>1 DEF Listening, Openers
  <2> QED
    BY <2>2, <2>3 DEF KeepsTrying
<1> QED
  BY <1>1, Inductive, PTL

(* close(), the timeout of open() and a failure leave no engine that is     *)
(* open or will be: the only one is that of a Manager that is not closed.   *)
THEOREM NoneOrphaned == Spec => []NoOrphan
<1>1. IInv => NoOrphan
  <2> SUFFICES ASSUME IInv, NEW e \in Engines, c.state[e] \in Opening, "reopened" \notin c.history
               PROVE  e = c.engine /\ c.readyState # "closed"
    BY DEF NoOrphan, Opening
  <2>1. c \in ClientType /\ Alone(c) /\ Quiet(c)
    BY DEF IInv, Inv, Control
  <2>2. e = c.engine
    <3>1. c.engine \in Engines
      BY <2>1 DEF ClientType
    <3> QED
      BY <2>1, <3>1, Others DEF Alone
  <2> QED
    BY <2>1, <2>2 DEF Quiet
<1> QED
  BY <1>1, Inductive, PTL

(* packet() and processPacketQueue(), with the buffer of a Socket that is   *)
(* not connected, write each event once and those of a Socket in the order  *)
(* they were emitted, through disconnections, asynchronous encodings and    *)
(* any number of Sockets, but for the two cases that InOrder names.         *)
THEOREM EventsInOrder == Spec => []InOrder
<1>1. IInv => InOrder
  <2> SUFFICES ASSUME IInv PROVE InOrder
    OBVIOUS
  <2>1. Sorted(Clean(c), c.sent) /\ \A i \in DOMAIN c.sent : Ev(c.sent[i])
    BY DEF IInv, Inv, Ordered
  <2>2. \A i, j \in DOMAIN c.sent : i < j => Before(Clean(c), c.sent[i], c.sent[j])
    BY <2>1 DEF Sorted
  <2>3. c.sent \in Seq(Packets)
    BY DEF IInv, Inv, ClientType
  <2>4. DOMAIN c.sent \subseteq Nat
    BY <2>3, LenProperties
  <2>5. \A i, j \in DOMAIN c.sent : i # j => c.sent[i].n # c.sent[j].n
    <3> SUFFICES ASSUME NEW i \in DOMAIN c.sent, NEW j \in DOMAIN c.sent, i # j
                 PROVE  c.sent[i].n # c.sent[j].n
      OBVIOUS
    <3>1. i < j \/ j < i
      BY <2>4
    <3> QED
      BY <2>2, <3>1 DEF Before
  <2>6. c.history \cap {"cutIn", "stale"} = {} =>
          \A i, j \in DOMAIN c.sent :
            i < j /\ c.sent[i].socket = c.sent[j].socket => c.sent[i].n < c.sent[j].n
    BY <2>2 DEF Before, Clean
  <2> QED
    BY <2>5, <2>6 DEF InOrder
<1> QED
  BY <1>1, Inductive, PTL
=============================================================================
