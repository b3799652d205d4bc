-------------------------- MODULE PollingConnection --------------------------
(***************************************************************************)
(* A polling connection: XHRTransportConnection and its Tomcat subclass.   *)
(*                                                                         *)
(* send() appends Engine.IO packets to a LinkedBlockingDeque.  A GET       *)
(* request takes the first packet, waiting for one if need be, then        *)
(* whatever else is there, and flushes all of it as one response.  abort() *)
(* sets a flag that every loop turn tests, and wakes a waiting GET by      *)
(* adding a NOOP packet.  Senders, GET requests and abort() run on         *)
(* threads of their own.                                                   *)
(*                                                                         *)
(* The queue is the log of all packets ever added with the number already  *)
(* taken, so that a packet is named by its position in the log.  The       *)
(* packets of one response are in the order they were taken; only their    *)
(* set is kept.  Abstracted: packet contents, response headers, POST       *)
(* requests (SessionLifecycle has what their packets do).                  *)
(***************************************************************************)
EXTENDS Naturals, Sequences

CONSTANTS
  Messages,      \* Socket.IO packets that are sent, each by a thread of its own
  Attachments,   \* Messages -> Nat: binary attachments of a message
  Noop,          \* the packet that abort() adds
  Pollers,       \* threads that run GET requests
  Aborters,      \* threads that call abort() once
  Refusing,      \* those that close a refused connection: the Error comes first
  Error,         \* the packet that tells the client why it was refused
  WakesPoller    \* TRUE for XHRTransportConnection, FALSE for the Tomcat one

ASSUME PollingAssumption ==
  /\ Attachments \in [Messages -> Nat]
  /\ Noop \notin Messages \cup {Error} /\ Error \notin Messages
  /\ Refusing \subseteq Aborters
  /\ WakesPoller \in BOOLEAN

Packets == [msg : Messages \cup {Noop, Error}, part : Nat]

VARIABLES
  open,        \* is the session CONNECTED, so that GETs reach the connection?
  done,        \* XHRTransportConnection.done
  added,       \* every packet ever added to XHRTransportConnection.packets
  taken,       \* how many of them were taken from it
  sent,        \* how many packets of each message its thread has added
  aborter,     \* where each abort() call is
  pc,          \* where each GET request is
  hand,        \* packet a GET has just taken (0 if none)
  buf,         \* packets in the response of a GET
  delivered,   \* history: packets of responses that reached the client
  lost,        \* history: packets taken but never to be delivered
  faults       \* history: has a response been "cut" off, did two GETs "overlap"?

queue == <<added, taken>>
fates == <<delivered, lost, faults>>
vars  == <<open, done, queue, sent, aborter, pc, hand, buf, fates>>

Positions == 1 .. Len(added)
Taken     == 1 .. taken
Held(p)   == buf[p] \cup (IF hand[p] = 0 THEN {} ELSE {hand[p]})

TypeOK ==
  /\ open \in BOOLEAN
  /\ done \in BOOLEAN
  /\ added \in Seq(Packets)
  /\ taken \in 0 .. Len(added)
  /\ sent \in [Messages -> Nat]
  /\ aborter \in [Aborters -> {"uncalled", "refused", "noop", "returned"}]
  /\ pc \in [Pollers -> {"idle", "handle", "take", "check", "poll", "flush"}]
  /\ hand \in [Pollers -> Nat]
  /\ buf \in [Pollers -> SUBSET Nat]
  /\ delivered \subseteq Nat
  /\ lost \subseteq Nat
  /\ faults \subseteq {"cut", "overlap"}

Init ==
  /\ open = TRUE
  /\ done = FALSE
  /\ added = <<>>
  /\ taken = 0
  /\ sent = [m \in Messages |-> 0]
  /\ aborter = [a \in Aborters |-> "uncalled"]
  /\ pc = [p \in Pollers |-> "idle"]
  /\ hand = [p \in Pollers |-> 0]
  /\ buf = [p \in Pollers |-> {}]
  /\ delivered = {}
  /\ lost = {}
  /\ faults = {}

-----------------------------------------------------------------------------
\* BlockingQueue: add, and the removal that take and poll share.

Add(m, k) == added' = Append(added, [msg |-> m, part |-> k]) /\ UNCHANGED taken

Peek(p)   == taken' = taken /\ hand' = [hand EXCEPT ![p] = taken + 1]
Remove(p) == taken' = taken + 1 /\ hand' = [hand EXCEPT ![p] = taken + 1]

\* send(SocketIOPacket): the packet itself, then its attachments one by one.
Send(m) ==
  /\ sent[m] <= Attachments[m]
  /\ Add(m, sent[m])
  /\ sent' = [sent EXCEPT ![m] = @ + 1]
  /\ UNCHANGED <<open, done, aborter, pc, hand, buf, fates>>

\* The session leaves CONNECTED, for whatever reason.
LeaveConnected ==
  /\ open
  /\ open' = FALSE
  /\ UNCHANGED <<done, queue, sent, aborter, pc, hand, buf, fates>>

-----------------------------------------------------------------------------
\* Session.onConnect refuses a connection: the error packet, then abort().
SendError(a) ==
  /\ a \in Refusing /\ aborter[a] = "uncalled"
  /\ Add(Error, 0)
  /\ aborter' = [aborter EXCEPT ![a] = "refused"]
  /\ UNCHANGED <<open, done, sent, pc, hand, buf, fates>>

AbortWakesFirst(a) ==
  /\ \/ /\ aborter[a] = "uncalled"
        /\ Add(Noop, 0)
        /\ aborter' = [aborter EXCEPT ![a] = "refused"]
        /\ UNCHANGED done
     \/ /\ aborter[a] = "refused"
        /\ done' = TRUE
        /\ aborter' = [aborter EXCEPT ![a] = "returned"]
        /\ UNCHANGED queue
  /\ UNCHANGED <<open, sent, pc, hand, buf, fates>>

\* abort(): the Tomcat connection only sets the flag.
Abort(a) ==
  /\ aborter[a] = IF a \in Refusing THEN "refused" ELSE "uncalled"
  /\ done' = TRUE
  /\ aborter' = [aborter EXCEPT ![a] = IF WakesPoller THEN "noop" ELSE "returned"]
  /\ UNCHANGED <<open, queue, sent, pc, hand, buf, fates>>

AddNoop(a) ==
  /\ aborter[a] = "noop"
  /\ Add(Noop, 0)
  /\ aborter' = [aborter EXCEPT ![a] = "returned"]
  /\ UNCHANGED <<open, done, sent, pc, hand, buf, fates>>

-----------------------------------------------------------------------------
\* A GET request.

Goto(p, l) == pc' = [pc EXCEPT ![p] = l]

\* AbstractHttpTransport.handle passes it on if the session is CONNECTED (the
\* request that carries the handshake gets here before that, in the same way).
Get(p) ==
  /\ pc[p] = "idle" /\ open
  /\ Goto(p, "handle")
  /\ faults' = IF \A q \in Pollers : pc[q] = "idle" THEN faults
               ELSE faults \cup {"overlap"}
  /\ UNCHANGED <<open, done, queue, sent, aborter, hand, buf, delivered, lost>>

\* handle returns at once when the connection is done.
Handle(p) ==
  /\ pc[p] = "handle"
  /\ Goto(p, IF done THEN "idle" ELSE "take")
  /\ UNCHANGED <<open, done, queue, sent, aborter, hand, buf, fates>>

\* processOutbound: take() waits for a packet.
Take(p) ==
  /\ pc[p] = "take" /\ taken < Len(added)
  /\ Remove(p)
  /\ Goto(p, "check")
  /\ UNCHANGED <<open, done, added, sent, aborter, buf, fates>>

\* The loop body: leave the loop when done, else write the packet.
Write(p) ==
  /\ buf' = [buf EXCEPT ![p] = @ \cup {hand[p]}]
  /\ hand' = [hand EXCEPT ![p] = 0]
  /\ Goto(p, "poll")

CheckOpen(p) ==
  /\ pc[p] = "check"
  /\ IF ~open THEN Goto(p, "flush") /\ UNCHANGED <<hand, buf>>
              ELSE Write(p)
  /\ UNCHANGED <<open, done, queue, sent, aborter, fates>>

CheckDone(p) ==
  /\ pc[p] = "check"
  /\ IF done THEN Goto(p, "flush") /\ UNCHANGED <<hand, buf>>
             ELSE Write(p)
  /\ UNCHANGED <<open, done, queue, sent, aborter, fates>>

PollUntested(p) ==
  /\ pc[p] = "poll"
  /\ Remove(p) /\ Goto(p, "check")
  /\ UNCHANGED <<open, done, added, sent, aborter, buf, fates>>

PollWaits(p) ==
  /\ pc[p] = "poll"
  /\ taken < Len(added) /\ Remove(p) /\ Goto(p, "check")
  /\ UNCHANGED <<open, done, added, sent, aborter, buf, fates>>

\* poll() does not wait.
Poll(p) ==
  /\ pc[p] = "poll"
  /\ \/ taken < Len(added) /\ Remove(p) /\ Goto(p, "check")
     \/ taken = Len(added) /\ Goto(p, "flush") /\ UNCHANGED <<taken, hand>>
  /\ UNCHANGED <<open, done, added, sent, aborter, buf, fates>>

\* The response ends: what it holds reaches the client; a packet that was
\* taken and not written, because the connection was done, is dropped.
Respond(p, arrived) ==
  /\ delivered' = delivered \cup arrived
  /\ lost' = lost \cup (Held(p) \ arrived)
  /\ hand' = [hand EXCEPT ![p] = 0]
  /\ buf' = [buf EXCEPT ![p] = {}]
  /\ Goto(p, "idle")
  /\ UNCHANGED <<open, done, queue, sent, aborter>>

ResetFlush(p) ==
  /\ pc[p] = "flush"
  /\ Respond(p, IF done THEN {i \in buf[p] : i = taken} ELSE buf[p])
  /\ UNCHANGED faults

Flush(p) == pc[p] = "flush" /\ Respond(p, buf[p]) /\ UNCHANGED faults

\* An IOException of binaryEncode or flushBuffer ends the request; the client
\* has no use for a response that was cut off.
Fail(p) ==
  /\ \/ pc[p] = "flush"
     \/ pc[p] = "check" /\ ~done
  /\ Respond(p, {})
  /\ faults' = faults \cup {"cut"}

-----------------------------------------------------------------------------
PollerStep(p) == Handle(p) \/ Take(p) \/ CheckDone(p) \/ Poll(p)
                 \/ Flush(p) \/ Fail(p)

Next ==
  \/ \E m \in Messages : Send(m)
  \/ LeaveConnected
  \/ \E a \in Aborters : SendError(a) \/ Abort(a) \/ AddNoop(a)
  \/ \E p \in Pollers : Get(p) \/ PollerStep(p)

Spec == Init /\ [][Next]_vars

\* A request that runs goes on unless it waits in take(), an abort() that was
\* called returns, a message that is being sent is sent to its end, and the
\* client polls again when it has its response.
FairSpec ==
  /\ Spec
  /\ \A p \in Pollers : WF_vars(PollerStep(p)) /\ WF_vars(Get(p))
  /\ \A a \in Aborters : WF_vars(aborter[a] # "uncalled" /\ (Abort(a) \/ AddNoop(a)))
  /\ \A m \in Messages : WF_vars(sent[m] > 0 /\ Send(m))

-----------------------------------------------------------------------------
\* Properties.

\* A packet that left the queue is in the hands of one GET, or was delivered,
\* or was lost: never in two places, never in none.
OneFate ==
  /\ delivered \cap lost = {}
  /\ delivered \cup lost \subseteq Taken
  /\ \A i \in Taken \ (delivered \cup lost) : \E p \in Pollers : i \in Held(p)
  /\ \A p \in Pollers : Held(p) \subseteq Taken \ (delivered \cup lost)
  /\ \A p, q \in Pollers : p # q => Held(p) \cap Held(q) = {}

\* A packet is lost by a response that fails, or after abort() was called; no
\* other way, whichever requests and senders overlap.
LostOnlyAfterAbort == "cut" \notin faults /\ ~done => lost = {}

\* A client that has one GET at a time, and whose responses do not fail, has
\* got a prefix of the packets at any time, even when abort() cuts in while a
\* response is being written.
PrefixDelivered ==
  faults = {} => \A i \in delivered : 1 .. i \subseteq delivered

\* abort() "tears down the connection": it ends every GET, one that waits in
\* take() too.  One NOOP wakes one GET: of two that overlap the other waits on.
AbortEndsGet ==
  \A p \in Pollers : done ~> pc[p] = "idle" \/ "overlap" \in faults

\* A client that keeps polling a live connection gets every packet.
EverythingArrives ==
  <>[](done \/ ~open \/ lost # {} \/ delivered = Positions)
=============================================================================
