------------------------ MODULE SessionLifecycleProofs ------------------------
(***************************************************************************)
(* Theorems about SessionLifecycle, for any connections, sockets,          *)
(* namespaces and threads.                                                 *)
(***************************************************************************)
EXTENDS SessionLifecycle, TLAPS

-----------------------------------------------------------------------------
\* Abbreviations of single expressions are always expanded.
USE DEF Stored, FromCloseCode, AlreadyClosed, Forget, AllTold, Unregister,
        Replaced

\* The control-flow helpers leave the threads well typed.

LEMMA NoCallType == NoCall \in Calls
BY DEF NoCall, Calls, Reasons

LEMMA GotoType ==
  ASSUME TypeOK, NEW t \in Threads, NEW l \in Labels, Goto(t, l)
  PROVE  pc' \in [Threads -> Labels] /\ call' \in [Threads -> Calls]
BY NoCallType DEF TypeOK, Goto

LEMMA StartType ==
  ASSUME TypeOK, NEW w \in Threads, NEW c \in Conns \cup {NoConn},
         NEW l \in Labels, NEW d \in Conns \cup {NoConn}, NEW r \in Reasons,
         Start(w, c, l, d, r)
  PROVE  pc' \in [Threads -> Labels] /\ call' \in [Threads -> Calls]
BY DEF TypeOK, Start, Calls

LEMMA SetReasonType ==
  ASSUME TypeOK, NEW t \in Threads, NEW r \in Reasons,
         NEW l \in {"idle", "abort", "shutdown"}, SetReason(t, r, l)
  PROVE  pc' \in [Threads -> Labels] /\ call' \in [Threads -> Calls]
BY DEF TypeOK, SetReason, Calls, Labels

LEMMA CloseConnType ==
  ASSUME TypeOK, NEW t \in Threads, NEW r \in Reasons,
         NEW c \in Conns \cup {NoConn}, CloseConn(t, r, c)
  PROVE  pc' \in [Threads -> Labels] /\ call' \in [Threads -> Calls]
BY DEF TypeOK, CloseConn, Calls, Labels

LEMMA CallDisconnectType ==
  ASSUME TypeOK, NEW t \in Threads, NEW l \in {"idle", "abort", "shutdown"},
         CallDisconnect(t, l)
  PROVE  pc' \in [Threads -> Labels] /\ call' \in [Threads -> Calls]
BY DEF TypeOK, CallDisconnect, Calls, Labels

LEMMA CallType ==
  ASSUME TypeOK, NEW t \in Threads
  PROVE  /\ Conn(t) \in Conns \cup {NoConn}
         /\ call[t].why \in Reasons
         /\ call[t].ret \in {"idle", "abort", "shutdown"}
         /\ call[t].after \in {"idle", "noop"}
BY DEF TypeOK, Calls, Conn

LEMMA ConnectFailedType ==
  ASSUME TypeOK, NEW w \in Threads, ConnectFailed(w)
  PROVE  pc' \in [Threads -> Labels] /\ call' \in [Threads -> Calls]
BY GotoType, SetReasonType DEF ConnectFailed, Reasons, Labels

LEMMA SendType ==
  ASSUME TypeOK, NEW c, SendOk(c) \/ SendFail(c) \/ SendNull(c)
  PROVE  endpoint' \in [Conns -> {"none", "open", "broken", "null"}]
BY DEF TypeOK, SendOk, SendFail, SendNull

LEMMA MakeSocketType ==
  ASSUME TypeOK, NEW w \in Workers, NEW ns, MakeSocket(w, ns)
  PROVE  members' \subseteq Sockets /\ created' \in [Workers -> SUBSET Sockets]
BY DEF TypeOK, MakeSocket

LEMMA PutSocketType ==
  ASSUME TypeOK, NEW w \in Workers, PutSocket(w)
  PROVE  /\ sockets' \subseteq Sockets
         /\ \A s, x \in sockets' : NsOf[s] = NsOf[x] => s = x
         /\ strays' \subseteq Sockets
         /\ created' \in [Workers -> SUBSET Sockets]
<1>1. PICK s \in created[w] :
        /\ sockets' = (sockets \ Replaced(s)) \cup {s}
        /\ strays' = strays \cup Replaced(s)
                            \cup IF Passing # {} \/ ~registered THEN {s} ELSE {}
        /\ created' = [created EXCEPT ![w] = @ \ {s}]
  BY DEF PutSocket
<1>2. s \in Sockets
  BY DEF TypeOK
<1> QED BY <1>1, <1>2 DEF TypeOK

-----------------------------------------------------------------------------
\* Every variable of the session keeps its type, on every thread's step.
THEOREM TypeCorrect == Spec => []TypeOK
<1>1. Init => TypeOK
  <2> SUFFICES ASSUME Init PROVE TypeOK
    OBVIOUS
  <2>2. pc \in [Threads -> Labels] /\ call \in [Threads -> Calls]
    BY NoCallType DEF Init, Labels
  <2> QED BY <2>2 DEF Init, TypeOK, States, Reasons
<1>2. TypeOK /\ [Next]_vars => TypeOK'
  <2> SUFFICES ASSUME TypeOK, [Next]_vars PROVE TypeOK'
    OBVIOUS
  <2> USE DEF session, wire, held, notices
  <2> Workers \subseteq Threads /\ Conns \subseteq Threads
    BY DEF Threads
  <2>1. ASSUME NEW t \in Threads, Step(t) PROVE TypeOK'
    <3>1. CASE WriteClosing(t)
      BY <3>1, GotoType DEF WriteClosing, TypeOK, Labels, States
    <3>2. CASE WriteReason(t)
      <4>1. call[t].ret \in Labels /\ call[t].why \in Reasons
        BY CallType DEF Labels
      <4> QED BY <4>1, <3>2, GotoType DEF WriteReason, TypeOK
    <3>3. CASE OnShutdown(t)
      <4> DEFINE r == IF state = "CLOSING" THEN reason ELSE "ERROR"
      <4>1. r \in Reasons
        BY DEF TypeOK, Reasons
      <4>2. call' = [call EXCEPT ![t] = [@ EXCEPT !.why = r]]
        BY <3>3 DEF OnShutdown
      <4> HIDE DEF r
      <4>3. call' \in [Threads -> Calls]
        BY <4>1, <4>2 DEF TypeOK, Calls
      <4> QED BY <3>3, <4>3 DEF OnShutdown, TypeOK, Labels
    <3>4. CASE CheckClosed(t)
      <4>1. (IF state = "CLOSED" THEN AfterShutdown(t) ELSE "mark") \in Labels
        BY DEF AfterShutdown, Labels
      <4> QED BY <4>1, <3>4, GotoType DEF CheckClosed, TypeOK
    <3>5. CASE MarkClosed(t)
      BY <3>5, GotoType DEF MarkClosed, TypeOK, Labels, States
    <3>6. CASE Notify(t)
      <4>1. PICK s \in todo[t] :
              /\ told' = [told EXCEPT ![s] = @ + 1]
              /\ members' = members \ {s}
              /\ sockets' = {x \in sockets : NsOf[x] # NsOf[s]}
              /\ \/ /\ todo' = [todo EXCEPT ![t] = @ \ {s}]
                    /\ UNCHANGED <<threads, strays>>
                 \/ /\ ListenersThrow
                    /\ todo' = [todo EXCEPT ![t] = {}]
                    /\ strays' = strays \cup (todo[t] \ {s})
                    /\ Goto(t, "idle")
        BY <3>6 DEF Notify
      <4>4. told' \in [Sockets -> Nat]
        BY <4>1 DEF TypeOK
      <4>5. todo' \in [Threads -> SUBSET Sockets] /\ strays' \subseteq Sockets
        BY <4>1 DEF TypeOK
      <4>6. pc' \in [Threads -> Labels] /\ call' \in [Threads -> Calls]
        BY <4>1, GotoType DEF TypeOK, Labels, threads
      <4> QED BY <3>6, <4>1, <4>4, <4>5, <4>6 DEF Notify, TypeOK
    <3>7. CASE DeleteSession(t)
      <4>1. AfterShutdown(t) \in Labels
        BY DEF AfterShutdown, Labels
      <4> QED BY <4>1, <3>7, GotoType DEF DeleteSession, TypeOK
    <3> QED BY <2>1, <3>1, <3>2, <3>3, <3>4, <3>5, <3>6, <3>7 DEF Step
  <2>2. ASSUME NEW w \in Workers, WorkerStep(w) PROVE TypeOK'
    <3>1. CASE Handshake(w)
      BY <3>1, GotoType, ConnectFailedType, SendType DEF Handshake, TypeOK, Labels
    <3>2. CASE ConnectCas(w)
      BY <3>2, GotoType, ConnectFailedType, CallType DEF ConnectCas, TypeOK, Labels
    <3>3. CASE ConnectCreate(w)
      BY <3>3, GotoType, MakeSocketType DEF ConnectCreate, TypeOK, Labels
    <3>4. CASE ConnectPut(w)
      BY <3>4, GotoType, PutSocketType DEF ConnectPut, TypeOK, Labels
    <3>5. CASE ConnectSend(w)
      BY <3>5, GotoType, ConnectFailedType, SendType
      DEF ConnectSend, SendCrash, TypeOK, Labels
    <3>6. CASE ConnectReady(w)
      BY <3>6, GotoType DEF ConnectReady, TypeOK, Labels, States
    <3>7. CASE ConnectListen(w)
      BY <3>7, GotoType DEF ConnectListen, TypeOK, Labels
    <3>8. CASE ConnectReject(w)
      BY <3>8, GotoType, ConnectFailedType, CloseConnType, CallType, SendType
      DEF ConnectReject, SendCrash, TypeOK, Labels, Reasons
    <3>9. CASE NsInvalid(w)
      BY <3>9, GotoType, CloseConnType, SendType
      DEF NsInvalid, SendCrash, TypeOK, Labels, Reasons
    <3>10. CASE NsConnect(w)
      BY <3>10, GotoType, MakeSocketType DEF NsConnect, TypeOK, Labels
    <3>11. CASE NsPut(w)
      BY <3>11, GotoType, PutSocketType DEF NsPut, TypeOK, Labels
    <3>12. CASE NsSend(w)
      <4>1. endpoint' \in [Conns -> {"none", "open", "broken", "null"}]
        BY <3>12, SendType DEF NsSend, SendCrash
      <4>2. pc' \in [Threads -> Labels] /\ call' \in [Threads -> Calls]
        BY <3>12, GotoType, CloseConnType DEF NsSend, SendCrash, TypeOK, Labels, Reasons
      <4>3. given' \in BOOLEAN
        BY <3>12 DEF NsSend, TypeOK
      <4> QED BY <3>12, <4>1, <4>2, <4>3 DEF NsSend, TypeOK
    <3>13. CASE NsListen(w)
      BY <3>13, GotoType DEF NsListen, TypeOK, Labels
    <3>14. CASE NsReject(w)
      <4>1. endpoint' \in [Conns -> {"none", "open", "broken", "null"}]
        BY <3>14, SendType DEF NsReject, SendCrash
      <4>2. pc' \in [Threads -> Labels] /\ call' \in [Threads -> Calls]
        BY <3>14, GotoType, CloseConnType, CallDisconnectType
        DEF NsReject, SendCrash, TypeOK, Labels, Reasons
      <4> QED BY <3>14, <4>1, <4>2 DEF NsReject, TypeOK
    <3>15. CASE RemoteClose(w)
      <4>1. PICK d \in {Conn(w), active} : CloseConn(w, "CLOSED_REMOTELY", d)
        BY <3>15 DEF RemoteClose
      <4>2. d \in Conns \cup {NoConn}
        BY CallType DEF TypeOK
      <4> QED BY <3>15, <4>1, <4>2, CloseConnType DEF RemoteClose, TypeOK, Reasons
    <3>16. CASE UpgradePacket(w)
      BY <3>16, GotoType, CallType DEF UpgradePacket, TypeOK, Labels
    <3>17. CASE OtherPacket(w)
      BY <3>17, GotoType, SendType DEF OtherPacket, TypeOK, Labels
    <3>18. CASE Ping(w)
      <4>0. call \in [Threads -> Calls]
        BY DEF TypeOK
      <4> DEFINE d == [call[w] EXCEPT !.after = "noop"]
      <4>2. d \in Calls
        BY <4>0 DEF Calls
      <4>3. call' = [call EXCEPT ![w] = d]
        BY <3>18 DEF Ping
      <4> HIDE DEF d
      <4>1. call' \in [Threads -> Calls]
        BY <4>0, <4>2, <4>3
      <4> QED BY <3>18, <4>1 DEF Ping, TypeOK, Labels
    <3>19. CASE Pong(w)
      BY <3>19, GotoType, CloseConnType, CallType, SendType
      DEF Pong, SendCrash, TypeOK, Labels, Reasons
    <3>20. CASE Noop(w)
      BY <3>20, GotoType, SendType DEF Noop, TypeOK, Labels
    <3>21. CASE Disconnect(w)
      BY <3>21, GotoType, SetReasonType, CallType, SendType
      DEF Disconnect, SendCrash, TypeOK, Labels, Reasons
    <3>22. CASE CloseConnection(w)
      <4>1. pc' \in [Threads -> Labels] /\ call' \in [Threads -> Calls]
        BY <3>22, GotoType, SetReasonType, CallType DEF CloseConnection, Labels
      <4> QED BY <3>22, <4>1, CallType DEF CloseConnection, TypeOK
    <3>23. CASE AbortXHR(w)
      BY <3>23, GotoType DEF AbortXHR, TypeOK, Labels
    <3>24. CASE AbortTomcat(w)
      BY <3>24, GotoType DEF AbortTomcat, TypeOK, Labels
    <3>25. CASE AbortWebSocket(w)
      <4>1. call[w].after \in Labels
        BY CallType DEF Labels
      <4> QED BY <3>25, <4>1, GotoType DEF AbortWebSocket, TypeOK
    <3>26. CASE SetDone(w)
      BY <3>26, GotoType DEF SetDone, TypeOK, Labels
    <3> QED
      BY <2>2, <3>1, <3>2, <3>3, <3>4, <3>5, <3>6, <3>7, <3>8, <3>9, <3>10,
         <3>11, <3>12, <3>13, <3>14, <3>15, <3>16, <3>17, <3>18, <3>19,
         <3>20, <3>21, <3>22, <3>23, <3>24, <3>25, <3>26 DEF WorkerStep
  <2>3. ASSUME NEW w \in Workers, NEW c \in Conns, Request(w, c) PROVE TypeOK'
    <3>1. CASE OpenFirst(w, c)
      BY <3>1, StartType DEF OpenFirst, TypeOK, Labels, Reasons
    <3>2. CASE OpenUpgrade(w, c)
      BY <3>2, StartType DEF OpenUpgrade, TypeOK, Labels, Reasons, threads
    <3>3. CASE Receive(w, c)
      BY <3>3, StartType DEF Receive, TypeOK, Labels, Reasons
    <3> QED BY <2>3, <3>1, <3>2, <3>3 DEF Request
  <2>4. ASSUME NEW w \in Workers, OnTimeout(w) PROVE TypeOK'
    BY <2>4, StartType DEF OnTimeout, TypeOK, Labels, Reasons
  <2>5. ASSUME NEW w \in Workers, NEW b \in BOOLEAN, AppDisconnect(w, b)
        PROVE  TypeOK'
    BY <2>5, CallDisconnectType DEF AppDisconnect, TypeOK
  <2>6. ASSUME NEW c \in Conns, WebSocketClosed(c) PROVE TypeOK'
    <3>1. pc' \in [Threads -> Labels] /\ call' \in [Threads -> Calls]
      BY <2>6, GotoType, SetReasonType DEF WebSocketClosed, Labels, Reasons
    <3> QED BY <2>6, <3>1 DEF WebSocketClosed, TypeOK
  <2>7. CASE AppEmit
    BY <2>7, SendType DEF AppEmit, TypeOK, threads
  <2>8. CASE UNCHANGED vars
    BY <2>8 DEF vars, TypeOK, threads
  <2> QED BY <2>1, <2>2, <2>3, <2>4, <2>5, <2>6, <2>7, <2>8 DEF Next
<1> QED BY <1>1, <1>2, PTL DEF Spec

-----------------------------------------------------------------------------
\* What a step may do to the sockets: nothing, make one, put one into the
\* session's map, or be a step of onDisconnect.

Quiet ==
  /\ UNCHANGED <<sockets, members, registered, created, todo, told, strays, together>>
  /\ Passing' = Passing

Makes ==
  /\ \E w \in Workers, ns \in Namespaces : MakeSocket(w, ns)
  /\ Passing' = Passing
  /\ UNCHANGED <<sockets, registered, todo, told, strays, together>>

Puts ==
  /\ \E w \in Workers : PutSocket(w)
  /\ Passing' = Passing
  /\ UNCHANGED <<members, registered, todo, told, together>>

LEMMA GotoPassing ==
  ASSUME TypeOK, NEW t \in Threads, NEW l \in Labels, l # "notify",
         pc[t] # "notify", pc' = [pc EXCEPT ![t] = l]
  PROVE  Passing' = Passing
BY DEF Passing, TypeOK

LEMMA ConnectFailedPassing ==
  ASSUME TypeOK, NEW w \in Threads, pc[w] # "notify", ConnectFailed(w)
  PROVE  Passing' = Passing
BY GotoPassing DEF ConnectFailed, SetReason, Goto, Labels

LEMMA StepKinds ==
  ASSUME TypeOK, [Next]_vars
  PROVE  \/ Quiet \/ Makes \/ Puts
         \/ \E t \in Threads : MarkClosed(t) \/ Notify(t) \/ DeleteSession(t)
<1> USE DEF session, wire, held, notices
<1> Workers \subseteq Threads /\ Conns \subseteq Threads
  BY DEF Threads
<1>1. ASSUME NEW t \in Threads, Step(t)
      PROVE  Quiet \/ MarkClosed(t) \/ Notify(t) \/ DeleteSession(t)
  <2>1. CASE WriteClosing(t)
    BY <2>1, GotoPassing DEF WriteClosing, Goto, Quiet, Labels
  <2>2. CASE WriteReason(t)
    <3>1. call[t].ret \in Labels \ {"notify"}
      BY CallType DEF Labels
    <3> QED BY <3>1, <2>2, GotoPassing DEF WriteReason, Goto, Quiet
  <2>3. CASE OnShutdown(t)
    BY <2>3, GotoPassing DEF OnShutdown, Quiet, Labels
  <2>4. CASE CheckClosed(t)
    <3>1. (IF state = "CLOSED" THEN AfterShutdown(t) ELSE "mark") \in Labels \ {"notify"}
      BY DEF AfterShutdown, Labels
    <3> QED BY <3>1, <2>4, GotoPassing DEF CheckClosed, Goto, Quiet
  <2> QED BY <1>1, <2>1, <2>2, <2>3, <2>4 DEF Step
<1>2. ASSUME NEW w \in Workers, WorkerStep(w) PROVE Quiet \/ Makes \/ Puts
  <2> w \in Threads
    OBVIOUS
  <2>1. CASE Handshake(w)
    BY <2>1, GotoPassing, ConnectFailedPassing DEF Handshake, Goto, Quiet, Labels
  <2>2. CASE ConnectCas(w)
    BY <2>2, GotoPassing, ConnectFailedPassing DEF ConnectCas, Goto, Quiet, Labels
  <2>3. CASE ConnectCreate(w)
    BY <2>3, GotoPassing DEF ConnectCreate, Goto, Makes, Labels, Namespaces
  <2>4. CASE ConnectPut(w)
    BY <2>4, GotoPassing DEF ConnectPut, Goto, Puts, Labels
  <2>5. CASE ConnectSend(w)
    BY <2>5, GotoPassing, ConnectFailedPassing
    DEF ConnectSend, SendCrash, Goto, Quiet, Labels
  <2>6. CASE ConnectReady(w)
    BY <2>6, GotoPassing DEF ConnectReady, Goto, Quiet, Labels
  <2>7. CASE ConnectListen(w)
    BY <2>7, GotoPassing DEF ConnectListen, Goto, Quiet, Labels
  <2>8. CASE ConnectReject(w)
    BY <2>8, GotoPassing, ConnectFailedPassing
    DEF ConnectReject, SendCrash, CloseConn, Goto, Quiet, Labels
  <2>9. CASE NsInvalid(w)
    BY <2>9, GotoPassing DEF NsInvalid, SendCrash, CloseConn, Goto, Quiet, Labels
  <2>10. CASE NsConnect(w)
    BY <2>10, GotoPassing DEF NsConnect, Goto, Makes, Labels
  <2>11. CASE NsPut(w)
    BY <2>11, GotoPassing DEF NsPut, Goto, Puts, Labels
  <2>12. CASE NsSend(w)
    BY <2>12, GotoPassing DEF NsSend, SendCrash, CloseConn, Goto, Quiet, Labels
  <2>13. CASE NsListen(w)
    BY <2>13, GotoPassing DEF NsListen, Goto, Quiet, Labels
  <2>14. CASE NsReject(w)
    BY <2>14, GotoPassing
    DEF NsReject, SendCrash, CloseConn, CallDisconnect, Goto, Quiet, Labels
  <2>15. CASE RemoteClose(w)
    BY <2>15, GotoPassing DEF RemoteClose, CloseConn, Quiet, Labels
  <2>16. CASE UpgradePacket(w)
    BY <2>16, GotoPassing DEF UpgradePacket, Goto, Quiet, Labels
  <2>17. CASE OtherPacket(w)
    BY <2>17, GotoPassing DEF OtherPacket, Goto, Quiet, Labels
  <2>18. CASE Ping(w)
    BY <2>18, GotoPassing DEF Ping, Quiet, Labels
  <2>19. CASE Pong(w)
    BY <2>19, GotoPassing DEF Pong, SendCrash, CloseConn, Goto, Quiet, Labels
  <2>20. CASE Noop(w)
    BY <2>20, GotoPassing DEF Noop, Goto, Quiet, Labels
  <2>21. CASE Disconnect(w)
    BY <2>21, GotoPassing DEF Disconnect, SendCrash, SetReason, Goto, Quiet, Labels
  <2>22. CASE CloseConnection(w)
    BY <2>22, GotoPassing DEF CloseConnection, SetReason, Goto, Quiet, Labels
  <2>23. CASE AbortXHR(w)
    BY <2>23, GotoPassing DEF AbortXHR, Goto, Quiet, Labels
  <2>24. CASE AbortTomcat(w)
    BY <2>24, GotoPassing DEF AbortTomcat, Goto, Quiet, Labels
  <2>25. CASE AbortWebSocket(w)
    <3>1. call[w].after \in Labels \ {"notify"}
      BY CallType DEF Labels
    <3> QED BY <3>1, <2>25, GotoPassing DEF AbortWebSocket, Goto, Quiet
  <2>26. CASE SetDone(w)
    BY <2>26, GotoPassing DEF SetDone, Goto, Quiet, Labels
  <2> QED
    BY <1>2, <2>1, <2>2, <2>3, <2>4, <2>5, <2>6, <2>7, <2>8, <2>9, <2>10,
       <2>11, <2>12, <2>13, <2>14, <2>15, <2>16, <2>17, <2>18, <2>19, <2>20,
       <2>21, <2>22, <2>23, <2>24, <2>25, <2>26 DEF WorkerStep
<1>3. ASSUME NEW w \in Workers, NEW c \in Conns, Request(w, c) PROVE Quiet
  <2>1. CASE OpenFirst(w, c)
    BY <2>1, GotoPassing DEF OpenFirst, Start, Quiet, Labels
  <2>2. CASE OpenUpgrade(w, c)
    BY <2>2, GotoPassing DEF OpenUpgrade, Start, Quiet, Labels, threads, Passing
  <2>3. CASE Receive(w, c)
    BY <2>3, GotoPassing DEF Receive, Start, Quiet, Labels
  <2> QED BY <1>3, <2>1, <2>2, <2>3 DEF Request
<1>4. ASSUME NEW w \in Workers, OnTimeout(w) PROVE Quiet
  BY <1>4, GotoPassing DEF OnTimeout, Start, Quiet, Labels
<1>5. ASSUME NEW w \in Workers, NEW b \in BOOLEAN, AppDisconnect(w, b) PROVE Quiet
  BY <1>5, GotoPassing DEF AppDisconnect, CallDisconnect, Quiet, Labels
<1>6. ASSUME NEW c \in Conns, WebSocketClosed(c) PROVE Quiet
  BY <1>6, GotoPassing DEF WebSocketClosed, SetReason, Goto, Quiet, Labels
<1>7. CASE AppEmit \/ UNCHANGED vars
  BY <1>7 DEF AppEmit, vars, Quiet, threads, Passing
<1> QED BY <1>1, <1>2, <1>3, <1>4, <1>5, <1>6, <1>7 DEF Next

-----------------------------------------------------------------------------
\* NoSilentLeak is not inductive: a pass of onDisconnect has to reach whatever
\* the session still holds, and a deleted session holds nothing but strays.

LeakInv ==
  /\ members \subseteq sockets \cup Owed \cup Making \cup strays
  /\ \A t \in Passing : sockets \subseteq todo[t] \cup strays
  /\ ~registered => sockets \subseteq strays

LEMMA MakesLeakInv ==
  ASSUME TypeOK, LeakInv, Makes PROVE LeakInv'
<1>1. PICK w \in Workers, ns \in Namespaces : MakeSocket(w, ns)
  BY DEF Makes
<1>2. PICK s \in Sockets :
        /\ members' = members \cup {s}
        /\ created' = [created EXCEPT ![w] = @ \cup {s}]
  BY <1>1 DEF MakeSocket
<1>3. Making \cup {s} \subseteq Making'
  BY <1>2 DEF Making, TypeOK
<1>4. Owed' = Owed
  BY DEF Makes, Owed
<1> QED BY <1>2, <1>3, <1>4 DEF LeakInv, Makes

LEMMA PutsLeakInv ==
  ASSUME TypeOK, LeakInv, Puts PROVE LeakInv'
<1>1. PICK w \in Workers : PutSocket(w)
  BY DEF Puts
<1>2. PICK s \in created[w] :
        /\ sockets' = (sockets \ Replaced(s)) \cup {s}
        /\ strays' = strays \cup Replaced(s)
                            \cup IF Passing # {} \/ ~registered THEN {s} ELSE {}
        /\ created' = [created EXCEPT ![w] = @ \ {s}]
  BY <1>1 DEF PutSocket
<1>3. Making \ {s} \subseteq Making'
  BY <1>2 DEF Making, TypeOK
<1>4. Owed' = Owed
  BY DEF Puts, Owed
<1>5. sockets \subseteq sockets' \cup strays' /\ strays \subseteq strays' /\ s \in sockets'
  BY <1>2
<1>6. members' \subseteq sockets' \cup Owed' \cup Making' \cup strays'
  BY <1>3, <1>4, <1>5 DEF LeakInv, Puts
<1>7. Passing # {} \/ ~registered => s \in strays'
  BY <1>2
<1>8. sockets' \subseteq sockets \cup {s}
  BY <1>2
<1> QED BY <1>5, <1>6, <1>7, <1>8 DEF LeakInv, Puts

LEMMA MarkClosedLeakInv ==
  ASSUME TypeOK, LeakInv, NEW t \in Threads, MarkClosed(t) PROVE LeakInv'
<1>1. Passing' = Passing \cup {t} /\ t \notin Passing
  BY DEF TypeOK, MarkClosed, Goto, Passing
<1>2. todo'[t] = sockets /\ \A u \in Threads \ {t} : todo'[u] = todo[u]
  BY DEF TypeOK, MarkClosed
<1>3. Owed \subseteq Owed'
  BY <1>1, <1>2 DEF Owed, Passing
<1>4. Making' = Making
  BY DEF MarkClosed, held, Making
<1> QED BY <1>1, <1>2, <1>3, <1>4 DEF LeakInv, MarkClosed, Passing

LEMMA NotifyLeakInv ==
  ASSUME TypeOK, LeakInv, NEW t \in Threads, Notify(t) PROVE LeakInv'
<1>1. PICK s \in todo[t] :
        /\ members' = members \ {s}
        /\ sockets' = {x \in sockets : NsOf[x] # NsOf[s]}
        /\ \/ /\ todo' = [todo EXCEPT ![t] = @ \ {s}]
              /\ UNCHANGED <<threads, strays>>
           \/ /\ todo' = [todo EXCEPT ![t] = {}]
              /\ strays' = strays \cup (todo[t] \ {s})
              /\ Goto(t, "idle")
  BY DEF Notify
<1>2. t \in Passing /\ registered' = registered /\ Making' = Making
  BY DEF Notify, Passing, held, Making
<1>3. \A u \in Threads \ {t} : todo'[u] = todo[u]
  BY <1>1 DEF TypeOK
<1>4. \A u \in Threads \ {t} : u \in Passing' <=> u \in Passing
  BY <1>1 DEF TypeOK, Passing, Goto, threads
<1>5. CASE todo' = [todo EXCEPT ![t] = @ \ {s}] /\ UNCHANGED <<threads, strays>>
  <2>1. Passing' = Passing /\ todo'[t] = todo[t] \ {s}
    BY <1>5 DEF Passing, threads, TypeOK
  <2>2. Owed \ {s} \subseteq Owed'
    BY <1>2, <1>3, <2>1 DEF Owed, Passing
  <2>3. members' \subseteq sockets' \cup Owed' \cup Making' \cup strays'
    <3> SUFFICES ASSUME NEW x \in members, x # s, x \notin strays \cup Making
                 PROVE  x \in sockets' \cup Owed'
      BY <1>1, <1>2, <1>5
    <3>1. CASE x \in Owed
      BY <3>1, <2>2
    <3>2. CASE x \in sockets
      BY <3>2, <1>2, <2>1, <2>2 DEF LeakInv, Owed
    <3> QED BY <3>1, <3>2 DEF LeakInv
  <2>4. \A u \in Passing' : sockets' \subseteq todo'[u] \cup strays'
    BY <1>1, <1>3, <1>5, <2>1 DEF LeakInv, Passing
  <2> QED BY <1>1, <1>2, <1>5, <2>3, <2>4 DEF LeakInv
<1>6. CASE /\ todo' = [todo EXCEPT ![t] = {}]
           /\ strays' = strays \cup (todo[t] \ {s})
           /\ Goto(t, "idle")
  <2>1. Passing' = Passing \ {t}
    BY <1>6 DEF TypeOK, Passing, Goto
  <2>2. Owed \ {s} \subseteq Owed' \cup strays'
    BY <1>2, <1>3, <1>6, <2>1 DEF Owed, Passing
  <2>3. sockets' \subseteq strays'
    BY <1>1, <1>2, <1>6 DEF LeakInv
  <2>4. members' \subseteq sockets' \cup Owed' \cup Making' \cup strays'
    <3> SUFFICES ASSUME NEW x \in members, x # s, x \notin strays' \cup Making
                 PROVE  x \in Owed'
      BY <1>1, <1>2
    <3>1. x \notin sockets /\ x \notin strays
      BY <1>2, <1>6 DEF LeakInv
    <3> QED BY <3>1, <2>2 DEF LeakInv
  <2> QED BY <2>3, <2>4 DEF LeakInv
<1> QED BY <1>1, <1>5, <1>6

LEMMA DeleteSessionLeakInv ==
  ASSUME TypeOK, LeakInv, NEW t \in Threads, DeleteSession(t) PROVE LeakInv'
<1>1. t \in Passing /\ todo[t] = {}
  BY DEF DeleteSession, Passing
<1>2. Passing' = Passing \ {t}
  BY DEF DeleteSession, Goto, AfterShutdown, Passing, TypeOK
<1>3. UNCHANGED <<sockets, members, strays, todo>> /\ Making' = Making
  BY DEF DeleteSession, notices, held, Making
<1>4. Owed' = Owed
  BY <1>1, <1>2, <1>3 DEF Owed
<1>5. sockets \subseteq strays
  BY <1>1 DEF LeakInv
<1> QED BY <1>2, <1>3, <1>4, <1>5 DEF LeakInv

\* A session that is gone leaves in its namespaces only the sockets that were
\* replaced, put too late, or skipped because a listener threw, whatever CONNECT
\* packets run beside onDisconnect.
THEOREM NothingLeaksSilently == Spec => []NoSilentLeak
<1>1. Init => LeakInv
  BY DEF Init, LeakInv, Passing
<1>2. TypeOK /\ LeakInv /\ [Next]_vars => LeakInv'
  <2> SUFFICES ASSUME TypeOK, LeakInv, [Next]_vars PROVE LeakInv'
    OBVIOUS
  <2>1. CASE Quiet
    <3>1. Owed' = Owed /\ Making' = Making
      BY <2>1 DEF Quiet, Owed, Making
    <3> QED BY <2>1, <3>1 DEF Quiet, LeakInv
  <2> QED
    BY <2>1, StepKinds, MakesLeakInv, PutsLeakInv, MarkClosedLeakInv,
       NotifyLeakInv, DeleteSessionLeakInv
<1>3. LeakInv => NoSilentLeak
  BY DEF LeakInv, NoSilentLeak, Owed
<1> QED BY <1>1, <1>2, <1>3, TypeCorrect, PTL DEF Spec

-----------------------------------------------------------------------------
\* A socket that was told is held by nobody but a pass that had copied it
\* before, and there is no such pass unless two were under way together.

Fresh == {s \in Sockets : told[s] = 0}

HoldsFresh ==
  /\ sockets \subseteq Fresh \cap members
  /\ \A t \in Threads : todo[t] \cap Fresh \subseteq members

CreatedAside ==
  /\ \A w \in Workers : created[w] \subseteq (Fresh \cap members) \ sockets
  /\ \A w, v \in Workers : w # v => created[w] \cap created[v] = {}
  /\ \A w \in Workers, t \in Threads : created[w] \cap todo[t] = {}

OnePass ==
  /\ \A t, u \in Passing : t = u
  /\ \A t \in Passing : todo[t] \subseteq Fresh
  /\ NotifiedOnce

TwiceInv ==
  /\ HoldsFresh
  /\ CreatedAside
  /\ together \/ OnePass

LEMMA QuietTwiceInv ==
  ASSUME TwiceInv, Quiet PROVE TwiceInv'
BY DEF TwiceInv, Quiet, HoldsFresh, CreatedAside, OnePass, NotifiedOnce, Fresh

LEMMA MakesTwiceInv ==
  ASSUME TypeOK, TwiceInv, Makes PROVE TwiceInv'
<1>1. PICK w \in Workers, ns \in Namespaces : MakeSocket(w, ns)
  BY DEF Makes
<1>2. PICK s \in Sockets :
        /\ s \notin members /\ told[s] = 0
        /\ members' = members \cup {s}
        /\ created' = [created EXCEPT ![w] = @ \cup {s}]
  BY <1>1 DEF MakeSocket
<1>3. /\ UNCHANGED <<sockets, todo, told, together>>
      /\ Fresh' = Fresh /\ Passing' = Passing /\ s \in Fresh
  BY <1>2 DEF Makes, Fresh
<1>4. s \notin sockets /\ \A t \in Threads : s \notin todo[t]
  BY <1>2, <1>3 DEF TwiceInv, HoldsFresh
<1>5. HoldsFresh'
  BY <1>2, <1>3 DEF TwiceInv, HoldsFresh
<1>6. created'[w] = created[w] \cup {s} /\ \A v \in Workers \ {w} : created'[v] = created[v]
  BY <1>2 DEF TypeOK
<1>7. \A v \in Workers : s \notin created[v]
  BY <1>2 DEF TwiceInv, CreatedAside
<1>8. CreatedAside'
  <2>1. \A v \in Workers : created'[v] \subseteq (Fresh' \cap members') \ sockets'
    BY <1>2, <1>3, <1>4, <1>6 DEF TwiceInv, CreatedAside
  <2>2. \A v, u \in Workers : v # u => created'[v] \cap created'[u] = {}
    BY <1>6, <1>7 DEF TwiceInv, CreatedAside
  <2>3. \A v \in Workers, t \in Threads : created'[v] \cap todo'[t] = {}
    BY <1>3, <1>4, <1>6 DEF TwiceInv, CreatedAside
  <2> QED BY <2>1, <2>2, <2>3 DEF CreatedAside
<1>9. (together \/ OnePass)'
  BY <1>3 DEF TwiceInv, OnePass, NotifiedOnce
<1> QED BY <1>5, <1>8, <1>9 DEF TwiceInv

LEMMA PutsTwiceInv ==
  ASSUME TypeOK, TwiceInv, Puts PROVE TwiceInv'
<1>1. PICK w \in Workers : PutSocket(w)
  BY DEF Puts
<1>2. PICK s \in created[w] :
        /\ sockets' = (sockets \ Replaced(s)) \cup {s}
        /\ created' = [created EXCEPT ![w] = @ \ {s}]
  BY <1>1 DEF PutSocket
<1>3. /\ UNCHANGED <<members, todo, told, together>>
      /\ Fresh' = Fresh /\ Passing' = Passing
  BY DEF Puts, Fresh
<1>4. s \in Fresh \cap members
  BY DEF TwiceInv, CreatedAside
<1>5. sockets' \subseteq sockets \cup {s}
  BY <1>2
<1>6. created'[w] = created[w] \ {s} /\ \A v \in Workers \ {w} : created'[v] = created[v]
  BY <1>2 DEF TypeOK
<1>7. HoldsFresh'
  BY <1>3, <1>4, <1>5 DEF TwiceInv, HoldsFresh
<1>8. CreatedAside'
  <2>1. \A v \in Workers : created'[v] \subseteq created[v] \ {s}
    BY <1>2, <1>6 DEF TwiceInv, CreatedAside
  <2> QED BY <1>3, <1>5, <2>1 DEF TwiceInv, CreatedAside
<1>9. (together \/ OnePass)'
  BY <1>3 DEF TwiceInv, OnePass, NotifiedOnce
<1> QED BY <1>7, <1>8, <1>9 DEF TwiceInv

LEMMA MarkClosedTwiceInv ==
  ASSUME TypeOK, TwiceInv, NEW t \in Threads, MarkClosed(t) PROVE TwiceInv'
<1>1. /\ UNCHANGED <<sockets, members, created, told>> /\ Fresh' = Fresh
      /\ together' = (together \/ \E u \in Threads \ {t} : pc[u] \in {"mark", "notify"})
  BY DEF MarkClosed, held, Fresh
<1>2. todo'[t] = sockets /\ \A u \in Threads \ {t} : todo'[u] = todo[u]
  BY DEF TypeOK, MarkClosed
<1>3. Passing' = Passing \cup {t}
  BY DEF TypeOK, MarkClosed, Goto, Passing
<1>4. HoldsFresh'
  BY <1>1, <1>2 DEF TwiceInv, HoldsFresh
<1>5. CreatedAside'
  BY <1>1, <1>2 DEF TwiceInv, CreatedAside
<1>6. ASSUME ~together' PROVE OnePass'
  <2>1. Passing' = {t}
    BY <1>1, <1>3, <1>6 DEF Passing
  <2>2. todo'[t] \subseteq Fresh'
    BY <1>1, <1>2 DEF TwiceInv, HoldsFresh
  <2>3. NotifiedOnce'
    BY <1>1, <1>6 DEF TwiceInv, OnePass, NotifiedOnce
  <2> QED BY <2>1, <2>2, <2>3 DEF OnePass
<1> QED BY <1>4, <1>5, <1>6 DEF TwiceInv

LEMMA NotifyTwiceInv ==
  ASSUME TypeOK, TwiceInv, NEW t \in Threads, Notify(t) PROVE TwiceInv'
<1>1. PICK s \in todo[t] :
        /\ told' = [told EXCEPT ![s] = @ + 1]
        /\ members' = members \ {s}
        /\ sockets' = {x \in sockets : NsOf[x] # NsOf[s]}
        /\ \/ todo' = [todo EXCEPT ![t] = @ \ {s}] /\ UNCHANGED threads
           \/ todo' = [todo EXCEPT ![t] = {}] /\ Goto(t, "idle")
  BY DEF Notify
<1>2. s \in Sockets /\ t \in Passing
  BY CallType DEF TypeOK, Notify, Passing
<1>3. told'[s] # 0 /\ \A x \in Sockets \ {s} : told'[x] = told[x]
  BY <1>1, <1>2 DEF TypeOK
<1>4. Fresh' = Fresh \ {s}
  BY <1>2, <1>3 DEF Fresh
<1>5. /\ todo'[t] \subseteq todo[t] \ {s}
      /\ \A u \in Threads \ {t} : todo'[u] = todo[u]
  BY <1>1 DEF TypeOK
<1>6. created' = created /\ together' = together
  BY DEF Notify, held
<1>7. Passing' \subseteq Passing
  BY <1>1 DEF TypeOK, Passing, Goto, threads
<1>8. s \notin sockets' /\ sockets' \subseteq sockets
  BY <1>1
<1>9. HoldsFresh'
  BY <1>1, <1>4, <1>5, <1>8 DEF TwiceInv, HoldsFresh
<1>10. CreatedAside'
  <2>1. \A w \in Workers : s \notin created[w]
    BY <1>1 DEF TwiceInv, CreatedAside
  <2> QED BY <1>1, <1>4, <1>5, <1>6, <1>8, <2>1 DEF TwiceInv, CreatedAside
<1>11. ASSUME ~together PROVE OnePass'
  <2>1. OnePass
    BY <1>11 DEF TwiceInv
  <2>2. \A u \in Passing' : u = t /\ todo'[u] \subseteq Fresh'
    BY <1>2, <1>4, <1>5, <1>7, <2>1 DEF OnePass
  <2>3. told[s] = 0
    BY <1>2, <2>1 DEF OnePass, Fresh
  <2>4. told'[s] = 1
    BY <1>1, <1>2, <2>3 DEF TypeOK
  <2>5. \A x \in Sockets \ {s} : told'[x] <= 1
    BY <1>3, <2>1 DEF OnePass, NotifiedOnce
  <2>6. told'[s] <= 1
    BY <2>4
  <2>7. NotifiedOnce'
    BY <2>5, <2>6, Zenon DEF NotifiedOnce
  <2> QED BY <2>2, <2>7 DEF OnePass
<1> QED BY <1>6, <1>9, <1>10, <1>11 DEF TwiceInv

LEMMA DeleteSessionTwiceInv ==
  ASSUME TypeOK, TwiceInv, NEW t \in Threads, DeleteSession(t) PROVE TwiceInv'
<1>1. UNCHANGED <<sockets, members, created, todo, told, together>> /\ Fresh' = Fresh
  BY DEF DeleteSession, held, notices, Fresh
<1>2. Passing' \subseteq Passing
  BY DEF DeleteSession, Goto, AfterShutdown, Passing, TypeOK
<1> QED BY <1>1, <1>2 DEF TwiceInv, HoldsFresh, CreatedAside, OnePass, NotifiedOnce

\* For any number of threads, connections of any transport and sockets: the
\* listeners of a socket are called again only if two threads have been in
\* onDisconnect together.
THEOREM SecondNotificationNeedsTwoPasses == Spec => []ToldAgainOnlyTogether
<1>1. Init => TwiceInv
  <2> SUFFICES ASSUME Init PROVE TwiceInv
    OBVIOUS
  <2>1. Passing = {}
    BY DEF Init, Passing
  <2>2. NotifiedOnce
    BY DEF Init, NotifiedOnce
  <2> QED BY <2>1, <2>2 DEF Init, TwiceInv, HoldsFresh, CreatedAside, OnePass
<1>2. TypeOK /\ TwiceInv /\ [Next]_vars => TwiceInv'
  BY StepKinds, QuietTwiceInv, MakesTwiceInv, PutsTwiceInv, MarkClosedTwiceInv,
     NotifyTwiceInv, DeleteSessionTwiceInv
<1>3. TwiceInv => ToldAgainOnlyTogether
  BY DEF TwiceInv, OnePass, ToldAgainOnlyTogether
<1> QED BY <1>1, <1>2, <1>3, TypeCorrect, PTL DEF Spec

-----------------------------------------------------------------------------
\* A closing session without a reason has a thread that is about to write one.

WindowInv ==
  /\ state = "CLOSING" => reason # "UNKNOWN" \/ \E u \in Threads : pc[u] = "reason2"
  /\ \A t \in Threads :
       pc[t] \in {"close", "reason1", "reason2"} => call[t].why # "UNKNOWN"

\* Only thread t moves, and it carries a reason if it is going to write one.
Moves(t) ==
  /\ \A u \in Threads \ {t} : pc'[u] = pc[u] /\ call'[u] = call[u]
  /\ pc'[t] \in {"close", "reason1", "reason2"} => call'[t].why # "UNKNOWN"

LEMMA GotoMoves ==
  ASSUME TypeOK, NEW t \in Threads, NEW l, Goto(t, l),
         l \notin {"close", "reason1", "reason2"}
  PROVE  Moves(t)
BY DEF TypeOK, Goto, Moves

LEMMA StartMoves ==
  ASSUME TypeOK, NEW t \in Threads, NEW c, NEW l, NEW d, NEW r, Start(t, c, l, d, r),
         r = "UNKNOWN" => l \notin {"close", "reason1", "reason2"}
  PROVE  Moves(t)
BY DEF TypeOK, Start, Moves

LEMMA CallMoves ==
  ASSUME TypeOK, NEW t \in Threads, NEW r, r # "UNKNOWN", NEW x,
         \/ SetReason(t, r, x)
         \/ CloseConn(t, r, x)
         \/ CallDisconnect(t, x)
  PROVE  Moves(t)
<1>1. pc \in [Threads -> Labels] /\ call \in [Threads -> Calls]
  BY DEF TypeOK
<1>2. CASE SetReason(t, r, x)
  BY <1>1, <1>2 DEF SetReason, Moves, Calls
<1>3. CASE CloseConn(t, r, x)
  BY <1>1, <1>3 DEF CloseConn, Moves, Calls
<1>4. CASE CallDisconnect(t, x)
  BY <1>1, <1>4 DEF CallDisconnect, Moves
<1> QED BY <1>2, <1>3, <1>4

LEMMA ConnectFailedMoves ==
  ASSUME TypeOK, NEW t \in Threads, ConnectFailed(t) PROVE Moves(t)
BY GotoMoves, CallMoves DEF ConnectFailed

LEMMA MovesWindowInv ==
  ASSUME WindowInv, NEW t \in Threads, Moves(t), pc[t] # "reason2",
         reason' = reason, state' = "CLOSING" => state = "CLOSING"
  PROVE  WindowInv'
BY DEF WindowInv, Moves

LEMMA WindowInvStep ==
  ASSUME TypeOK, WindowInv, [Next]_vars PROVE WindowInv'
<1> USE DEF session
<1> Workers \subseteq Threads /\ Conns \subseteq Threads
  BY DEF Threads
<1>1. ASSUME NEW t \in Threads, Step(t) PROVE WindowInv'
  <2>1. CASE WriteClosing(t)
    <3>1. pc'[t] = "reason2" /\ call' = call
      BY <2>1 DEF WriteClosing, Goto, TypeOK
    <3>2. \A u \in Threads \ {t} : pc'[u] = pc[u]
      BY <2>1 DEF WriteClosing, Goto, TypeOK
    <3> QED BY <2>1, <3>1, <3>2 DEF WindowInv, WriteClosing
  <2>2. CASE WriteReason(t)
    <3>1. reason' # "UNKNOWN"
      BY <2>2 DEF WriteReason, WindowInv
    <3>2. Moves(t)
      BY <2>2, CallType, GotoMoves DEF WriteReason
    <3> QED BY <3>1, <3>2 DEF Moves, WindowInv
  <2>3. CASE OnShutdown(t)
    <3>1. Moves(t)
      BY <2>3 DEF OnShutdown, Moves, TypeOK
    <3> QED BY <2>3, <3>1, MovesWindowInv DEF OnShutdown
  <2>4. CASE CheckClosed(t)
    BY <2>4, GotoMoves, MovesWindowInv DEF CheckClosed, AfterShutdown
  <2>5. CASE MarkClosed(t)
    BY <2>5, GotoMoves, MovesWindowInv DEF MarkClosed
  <2>6. CASE Notify(t)
    <3>1. Moves(t)
      BY <2>6, GotoMoves DEF Notify, threads, Moves
    <3> QED BY <2>6, <3>1, MovesWindowInv DEF Notify
  <2>7. CASE DeleteSession(t)
    BY <2>7, GotoMoves, MovesWindowInv DEF DeleteSession, AfterShutdown
  <2> QED BY <1>1, <2>1, <2>2, <2>3, <2>4, <2>5, <2>6, <2>7 DEF Step
<1>2. ASSUME NEW w \in Workers, WorkerStep(w) PROVE WindowInv'
  <2>1. Moves(w)
    <3>1. CASE Handshake(w)
      BY <3>1, GotoMoves, ConnectFailedMoves DEF Handshake
    <3>2. CASE ConnectCas(w)
      BY <3>2, GotoMoves, ConnectFailedMoves DEF ConnectCas
    <3>3. CASE ConnectCreate(w)
      BY <3>3, GotoMoves DEF ConnectCreate
    <3>4. CASE ConnectPut(w)
      BY <3>4, GotoMoves DEF ConnectPut
    <3>5. CASE ConnectSend(w)
      BY <3>5, GotoMoves, ConnectFailedMoves DEF ConnectSend, SendCrash
    <3>6. CASE ConnectReady(w)
      BY <3>6, GotoMoves DEF ConnectReady
    <3>7. CASE ConnectListen(w)
      BY <3>7, GotoMoves DEF ConnectListen
    <3>8. CASE ConnectReject(w)
      BY <3>8, GotoMoves, CallMoves, ConnectFailedMoves DEF ConnectReject, SendCrash
    <3>9. CASE NsInvalid(w)
      BY <3>9, GotoMoves, CallMoves DEF NsInvalid, SendCrash
    <3>10. CASE NsConnect(w)
      BY <3>10, GotoMoves DEF NsConnect
    <3>11. CASE NsPut(w)
      BY <3>11, GotoMoves DEF NsPut
    <3>12. CASE NsSend(w)
      BY <3>12, GotoMoves, CallMoves DEF NsSend, SendCrash
    <3>13. CASE NsListen(w)
      BY <3>13, GotoMoves DEF NsListen
    <3>14. CASE NsReject(w)
      BY <3>14, GotoMoves, CallMoves DEF NsReject, SendCrash
    <3>15. CASE RemoteClose(w)
      BY <3>15, CallMoves DEF RemoteClose
    <3>16. CASE UpgradePacket(w)
      BY <3>16, GotoMoves DEF UpgradePacket
    <3>17. CASE OtherPacket(w)
      BY <3>17, GotoMoves DEF OtherPacket
    <3>18. CASE Ping(w)
      BY <3>18 DEF Ping, Moves, TypeOK
    <3>19. CASE Pong(w)
      BY <3>19, GotoMoves, CallMoves DEF Pong, SendCrash
    <3>20. CASE Noop(w)
      BY <3>20, GotoMoves DEF Noop
    <3>21. CASE Disconnect(w)
      BY <3>21, GotoMoves, CallMoves DEF Disconnect, SendCrash
    <3>22. CASE CloseConnection(w)
      BY <3>22, GotoMoves, CallMoves DEF CloseConnection, WindowInv
    <3>23. CASE AbortXHR(w)
      BY <3>23, GotoMoves DEF AbortXHR
    <3>24. CASE AbortTomcat(w)
      BY <3>24, GotoMoves DEF AbortTomcat
    <3>25. CASE AbortWebSocket(w)
      BY <3>25, GotoMoves, CallType DEF AbortWebSocket
    <3>26. CASE SetDone(w)
      BY <3>26, GotoMoves DEF SetDone
    <3> QED
      BY <1>2, <3>1, <3>2, <3>3, <3>4, <3>5, <3>6, <3>7, <3>8, <3>9, <3>10,
         <3>11, <3>12, <3>13, <3>14, <3>15, <3>16, <3>17, <3>18, <3>19,
         <3>20, <3>21, <3>22, <3>23, <3>24, <3>25, <3>26 DEF WorkerStep
  <2>2. pc[w] # "reason2" /\ reason' = reason /\ state' \in {state, "CONNECTED"}
    BY <1>2
    DEF WorkerStep, Handshake, ConnectCas, ConnectCreate, ConnectPut, ConnectSend,
        ConnectReady, ConnectListen, ConnectReject, NsInvalid, NsConnect,
        NsPut, NsSend, NsListen, NsReject, RemoteClose, UpgradePacket,
        OtherPacket, Ping, Pong, Noop, Disconnect, CloseConnection,
        AbortXHR, AbortTomcat, AbortWebSocket, SetDone
  <2> QED BY <2>1, <2>2, MovesWindowInv
<1>3. ASSUME NEW w \in Workers, NEW c \in Conns, Request(w, c) PROVE WindowInv'
  <2>1. Moves(w) \/ UNCHANGED threads
    BY <1>3, StartMoves DEF Request, OpenFirst, OpenUpgrade, Receive
  <2>2. pc[w] # "reason2" /\ reason' = reason /\ state' = state
    BY <1>3 DEF Request, OpenFirst, OpenUpgrade, Receive, Start
  <2> QED BY <2>1, <2>2, MovesWindowInv DEF threads, WindowInv
<1>4. ASSUME NEW w \in Workers, OnTimeout(w) PROVE WindowInv'
  BY <1>4, StartMoves, MovesWindowInv DEF OnTimeout, Start
<1>5. ASSUME NEW w \in Workers, NEW b \in BOOLEAN, AppDisconnect(w, b)
      PROVE  WindowInv'
  <2>1. Moves(w)
    BY <1>5, CallMoves DEF AppDisconnect
  <2> QED BY <1>5, <2>1, MovesWindowInv DEF AppDisconnect
<1>6. ASSUME NEW c \in Conns, WebSocketClosed(c) PROVE WindowInv'
  <2>1. Moves(c)
    BY <1>6, GotoMoves, CallMoves DEF WebSocketClosed
  <2> QED BY <1>6, <2>1, MovesWindowInv DEF WebSocketClosed
<1>7. CASE AppEmit \/ UNCHANGED vars
  BY <1>7 DEF AppEmit, vars, threads, WindowInv
<1> QED BY <1>1, <1>2, <1>3, <1>4, <1>5, <1>6, <1>7 DEF Next

LEMMA OnlyOnShutdown ==
  ASSUME TypeOK, [Next]_vars, NEW t \in Threads,
         pc[t] = "shutdown", pc'[t] = "check"
  PROVE  OnShutdown(t)
<1> Workers \subseteq Threads /\ Conns \subseteq Threads
  BY DEF Threads
<1>1. ASSUME NEW u \in Threads, Step(u) PROVE OnShutdown(t)
  BY <1>1
  DEF Step, WriteClosing, WriteReason, OnShutdown, CheckClosed, MarkClosed,
      Notify, DeleteSession, Goto, TypeOK, threads
<1>2. ASSUME NEW w \in Workers, WorkerStep(w) PROVE FALSE
  <2>1. pc[w] # "shutdown" /\ \A u \in Threads \ {w} : pc'[u] = pc[u]
    BY <1>2, CallType
    DEF WorkerStep, Handshake, ConnectCas, ConnectCreate, ConnectPut, ConnectSend,
        ConnectReady, ConnectListen, ConnectReject, NsInvalid, NsConnect,
        NsPut, NsSend, NsListen, NsReject, RemoteClose, UpgradePacket,
        OtherPacket, Ping, Pong, Noop, Disconnect, CloseConnection,
        AbortXHR, AbortTomcat, AbortWebSocket, SetDone, ConnectFailed,
        SendCrash, SetReason, CloseConn, CallDisconnect, Goto, TypeOK
  <2> QED BY <2>1
<1>3. ASSUME NEW w \in Workers, NEW c \in Conns, Request(w, c) PROVE FALSE
  BY <1>3
  DEF Request, OpenFirst, OpenUpgrade, Receive, Start, threads, TypeOK
<1>4. ASSUME NEW w \in Workers, OnTimeout(w) PROVE FALSE
  BY <1>4 DEF OnTimeout, Start, TypeOK
<1>5. ASSUME NEW w \in Workers, NEW b \in BOOLEAN, AppDisconnect(w, b) PROVE FALSE
  BY <1>5 DEF AppDisconnect, CallDisconnect, TypeOK
<1>6. ASSUME NEW c \in Conns, WebSocketClosed(c) PROVE FALSE
  BY <1>6 DEF WebSocketClosed, SetReason, Goto, TypeOK
<1>7. CASE AppEmit \/ UNCHANGED vars
  BY <1>7 DEF AppEmit, vars, threads
<1> QED BY <1>1, <1>2, <1>3, <1>4, <1>5, <1>6, <1>7 DEF Next

\* The initial reason reaches onDisconnect only through the gap between the
\* two writes of setDisconnectReason.
THEOREM UnknownNeedsTheWindow == Spec => UnknownOnlyInWindow
<1>1. Init => WindowInv
  BY DEF Init, WindowInv
<1>2. TypeOK /\ WindowInv /\ [Next]_vars => WindowInv'
  BY WindowInvStep
<1> DEFINE Explained ==
      \A t \in Threads :
        pc[t] = "shutdown" /\ pc'[t] = "check" /\ call'[t].why = "UNKNOWN"
          => \E u \in Threads \ {t} : pc[u] = "reason2"
<1>3. TypeOK /\ WindowInv /\ [Next]_vars => [Explained]_vars
  <2> SUFFICES ASSUME TypeOK, WindowInv, [Next]_vars, NEW t \in Threads,
                      pc[t] = "shutdown", pc'[t] = "check",
                      call'[t].why = "UNKNOWN"
               PROVE  \E u \in Threads \ {t} : pc[u] = "reason2"
    OBVIOUS
  <2>1. OnShutdown(t)
    BY OnlyOnShutdown
  <2>2. call'[t].why = IF state = "CLOSING" THEN reason ELSE "ERROR"
    BY <2>1 DEF OnShutdown, TypeOK, Calls
  <2> QED BY <2>2 DEF WindowInv
<1> QED BY <1>1, <1>2, <1>3, TypeCorrect, PTL DEF Spec, UnknownOnlyInWindow

-----------------------------------------------------------------------------
\* With a single onWebSocketClose() call no worker ever runs onShutdown, and
\* the connection's thread runs it once, from start to end.

ShutdownLabels == {"shutdown", "check", "mark", "notify", "done"}
ActiveLabels   == {"packet", "ns_put", "ns_send", "ns_listen", "ns_reject", "pong",
                   "noop"}

WorkerRole(w) ==
  /\ pc[w] \notin ShutdownLabels
  /\ call[w].ret # "shutdown"
  /\ pc[w] # "idle" => call[w].conn \in Conns
  /\ pc[w] \in ActiveLabels \/ call[w].after = "noop" => active \in Conns

ConnRole(c) ==
  /\ pc[c] \in {"uncalled", "reason1", "reason2", "shutdown", "check", "mark",
               "notify", "idle"}
  /\ pc[c] \in {"reason1", "reason2"} => call[c].ret = "shutdown"
  /\ Transport[c] # "ws" => pc[c] = "uncalled"

Roles == (\A w \in Workers : WorkerRole(w)) /\ (\A c \in Conns : ConnRole(c))

\* No connection's thread has come to the listeners.
Before == \A c \in Conns : pc[c] \notin {"notify", "idle"}

ContractInv ==
  /\ Roles
  /\ NotifiedOnce
  /\ Before => /\ registered /\ state # "CLOSED"
               /\ \A s \in Sockets : told[s] = 0
  /\ \A c \in Conns : pc[c] = "notify" =>
       registered /\ \A s \in todo[c] : told[s] = 0

\* Only worker w moves, in its role.
WorkerMoves(w) ==
  /\ \A u \in Threads \ {w} : pc'[u] = pc[u] /\ call'[u] = call[u]
  /\ WorkerRole(w)'
  /\ active \in Conns => active' \in Conns

LEMMA WorkerMovesRoles ==
  ASSUME Roles, NEW w \in Workers, WorkerMoves(w)
  PROVE  Roles' /\ \A c \in Conns : pc'[c] = pc[c]
<1>1. \A c \in Conns : c \in Threads \ {w}
  BY ConnAssumption DEF Threads
<1>2. \A c \in Conns : ConnRole(c)'
  BY <1>1 DEF Roles, WorkerMoves, ConnRole
<1>3. \A u \in Workers : WorkerRole(u)'
  BY DEF Roles, WorkerMoves, WorkerRole, Threads
<1> QED BY <1>1, <1>2, <1>3 DEF Roles, WorkerMoves

LEMMA GotoRole ==
  ASSUME TypeOK, Roles, NEW w \in Workers, NEW l, Goto(w, l), pc[w] # "idle",
         l \notin ShutdownLabels, l \in ActiveLabels => active \in Conns,
         UNCHANGED active
  PROVE  WorkerMoves(w)
BY DEF TypeOK, Roles, WorkerRole, WorkerMoves, Goto, NoCall, Threads

LEMMA StartRole ==
  ASSUME TypeOK, NEW w \in Workers, NEW c, NEW l, NEW d \in Conns, NEW r,
         Start(w, c, l, d, r), l \notin ShutdownLabels,
         l \in ActiveLabels => active \in Conns, UNCHANGED active
  PROVE  WorkerMoves(w)
BY DEF TypeOK, WorkerRole, WorkerMoves, Start, Threads

LEMMA SetReasonRole ==
  ASSUME TypeOK, Roles, NEW w \in Workers, NEW r, NEW l \in {"idle", "abort"},
         SetReason(w, r, l), pc[w] # "idle", UNCHANGED active
  PROVE  WorkerMoves(w)
BY DEF TypeOK, Roles, WorkerRole, WorkerMoves, SetReason, Threads, Calls,
       ShutdownLabels, ActiveLabels

LEMMA CloseConnRole ==
  ASSUME TypeOK, Roles, NEW w \in Workers, NEW r, NEW c \in Conns,
         CloseConn(w, r, c), UNCHANGED active
  PROVE  WorkerMoves(w)
BY DEF TypeOK, Roles, WorkerRole, WorkerMoves, CloseConn, Threads, Calls,
       ShutdownLabels, ActiveLabels

LEMMA CallDisconnectRole ==
  ASSUME TypeOK, NEW w \in Workers, NEW l \in {"idle", "abort"},
         CallDisconnect(w, l), active \in Conns, UNCHANGED active
  PROVE  WorkerMoves(w)
BY DEF TypeOK, WorkerRole, WorkerMoves, CallDisconnect, Threads, Calls,
       ShutdownLabels, ActiveLabels

LEMMA ConnectFailedRole ==
  ASSUME TypeOK, Roles, NEW w \in Workers, ConnectFailed(w), pc[w] # "idle",
         UNCHANGED active
  PROVE  WorkerMoves(w)
BY GotoRole, SetReasonRole DEF ConnectFailed, ShutdownLabels, ActiveLabels

LEMMA WorkerStepRole ==
  ASSUME SingleCallback, TypeOK, Roles, NEW w \in Workers, WorkerStep(w)
  PROVE  WorkerMoves(w)
<1> USE DEF session, ShutdownLabels, ActiveLabels
<1>0. /\ pc[w] # "idle" => Conn(w) \in Conns
      /\ pc[w] \in ActiveLabels \/ call[w].after = "noop" => active \in Conns
      /\ call[w].ret \in {"idle", "abort"}
  BY DEF Roles, WorkerRole, Conn, TypeOK, Calls, Threads
<1>1. CASE ConnectCas(w)
  <2>1. CASE active = NoConn
    <3>1. active' \in Conns
      BY <1>0, <1>1, <2>1 DEF ConnectCas
    <3> QED BY <1>1, <2>1, <3>1
            DEF ConnectCas, TypeOK, Roles, WorkerRole, WorkerMoves, Goto, Threads
  <2>2. CASE active # NoConn
    BY <1>1, <2>2, ConnectFailedRole DEF ConnectCas
  <2> QED BY <2>1, <2>2
<1>2. CASE Handshake(w)
  BY <1>0, <1>2, GotoRole, ConnectFailedRole DEF Handshake
<1>3. CASE ConnectCreate(w)
  BY <1>3, GotoRole DEF ConnectCreate
<1>4. CASE ConnectPut(w)
  BY <1>4, GotoRole DEF ConnectPut
<1>5. CASE ConnectSend(w)
  BY <1>5, GotoRole, ConnectFailedRole DEF ConnectSend, SendCrash
<1>6. CASE ConnectReady(w)
  BY <1>6, GotoRole DEF ConnectReady
<1>7. CASE ConnectListen(w)
  BY <1>7, GotoRole DEF ConnectListen
<1>8. CASE ConnectReject(w)
  BY <1>0, <1>8, GotoRole, CloseConnRole, ConnectFailedRole
  DEF ConnectReject, SendCrash
<1>9. CASE NsInvalid(w)
  BY <1>0, <1>9, GotoRole, CloseConnRole DEF NsInvalid, SendCrash
<1>10. CASE NsConnect(w)
  BY <1>0, <1>10, GotoRole DEF NsConnect
<1>11. CASE NsPut(w)
  BY <1>0, <1>11, GotoRole DEF NsPut
<1>12. CASE NsSend(w)
  BY <1>0, <1>12, GotoRole, CloseConnRole DEF NsSend, SendCrash
<1>13. CASE NsListen(w)
  BY <1>0, <1>13, GotoRole DEF NsListen
<1>14. CASE NsReject(w)
  BY <1>0, <1>14, GotoRole, CloseConnRole, CallDisconnectRole DEF NsReject, SendCrash
<1>15. CASE RemoteClose(w)
  BY <1>0, <1>15, CloseConnRole DEF RemoteClose
<1>16. CASE UpgradePacket(w)
  <2>1. active' \in Conns
    BY <1>0, <1>16 DEF UpgradePacket
  <2> QED BY <1>16, <2>1
          DEF UpgradePacket, TypeOK, Roles, WorkerRole, WorkerMoves, Goto, NoCall,
              Threads
<1>17. CASE OtherPacket(w)
  BY <1>17, GotoRole DEF OtherPacket
<1>18. CASE Ping(w)
  BY <1>0, <1>18
  DEF Ping, TypeOK, Roles, WorkerRole, WorkerMoves, Threads, Calls, Conn
<1>19. CASE Pong(w)
  BY <1>0, <1>19, GotoRole, CloseConnRole DEF Pong, SendCrash
<1>20. CASE Noop(w)
  BY <1>20, GotoRole DEF Noop
<1>21. CASE Disconnect(w)
  BY <1>0, <1>21, GotoRole, SetReasonRole DEF Disconnect, SendCrash
<1>22. CASE CloseConnection(w)
  BY <1>22, GotoRole, SetReasonRole DEF CloseConnection
<1>23. CASE AbortXHR(w)
  BY <1>23, GotoRole DEF AbortXHR
<1>24. CASE AbortTomcat(w)
  BY <1>0, <1>24 DEF AbortTomcat, SingleCallback
<1>25. CASE AbortWebSocket(w)
  <2>1. call[w].after \in {"idle", "noop"}
    BY CallType DEF Threads
  <2>2. call[w].after = "noop" => active \in Conns
    BY <1>0
  <2> QED BY <1>25, <2>1, <2>2, GotoRole DEF AbortWebSocket
<1>26. CASE SetDone(w)
  BY <1>26, GotoRole DEF SetDone
<1> QED
  BY <1>1, <1>2, <1>3, <1>4, <1>5, <1>6, <1>7, <1>8, <1>9, <1>10, <1>11,
     <1>12, <1>13, <1>14, <1>15, <1>16, <1>17, <1>18, <1>19, <1>20, <1>21,
     <1>22, <1>23, <1>24, <1>25, <1>26 DEF WorkerStep

LEMMA RequestRole ==
  ASSUME TypeOK, Roles, NEW w \in Workers,
         \/ \E c \in Conns : Request(w, c)
         \/ OnTimeout(w)
         \/ \E b \in BOOLEAN : AppDisconnect(w, b)
  PROVE  WorkerMoves(w)
<1> USE DEF session, ShutdownLabels, ActiveLabels
<1>1. ASSUME NEW c \in Conns, Request(w, c) PROVE WorkerMoves(w)
  <2>1. CASE OpenFirst(w, c)
    BY <2>1, StartRole DEF OpenFirst
  <2>2. CASE OpenUpgrade(w, c)
    BY <2>2, StartRole DEF OpenUpgrade, threads, WorkerMoves, Roles, WorkerRole
  <2>3. CASE Receive(w, c)
    <3>1. active \in Conns
      BY <2>3 DEF Receive, CanReceive, TypeOK
    <3> QED BY <2>3, <3>1, StartRole DEF Receive
  <2> QED BY <1>1, <2>1, <2>2, <2>3 DEF Request
<1>2. CASE OnTimeout(w)
  BY <1>2, StartRole DEF OnTimeout, TypeOK
<1>3. ASSUME NEW b \in BOOLEAN, AppDisconnect(w, b) PROVE WorkerMoves(w)
  BY <1>3, CallDisconnectRole DEF AppDisconnect, TypeOK
<1> QED BY <1>1, <1>2, <1>3

\* A step of setDisconnectReason or onShutdown, outside the listeners: the
\* connection's thread neither comes to the listeners nor ends.
LEMMA StepRole ==
  ASSUME SingleCallback, TypeOK, Roles, Before => state # "CLOSED", NEW t \in Threads,
         Step(t), ~MarkClosed(t), ~Notify(t), ~DeleteSession(t)
  PROVE  Roles' /\ (state' = "CLOSED" => state = "CLOSED")
                /\ \A c \in Conns : pc'[c] = "idle" <=> pc[c] = "idle"
<1> USE DEF session, ShutdownLabels, ActiveLabels
<1>1. CASE t \in Workers
  <2>1. WriteClosing(t) \/ WriteReason(t)
    BY <1>1 DEF Step, Roles, WorkerRole, OnShutdown, CheckClosed
  <2>2. call[t].ret \in {"idle", "abort"}
    BY <1>1, CallType DEF Roles, WorkerRole
  <2>3. WorkerMoves(t)
    BY <1>1, <2>1, <2>2, GotoRole DEF WriteClosing, WriteReason
  <2> QED BY <1>1, <2>1, <2>3, WorkerMovesRoles DEF WriteClosing, WriteReason
<1>2. CASE t \in Conns
  <2>1. t \notin Workers /\ ConnRole(t) /\ active' = active
    BY <1>2, ConnAssumption
    DEF Roles, Step, WriteClosing, WriteReason, OnShutdown, CheckClosed
  <2>2. \A u \in Threads \ {t} : pc'[u] = pc[u] /\ call'[u] = call[u]
    BY DEF Step, WriteClosing, WriteReason, OnShutdown, CheckClosed, Goto, TypeOK
  <2>3. /\ pc'[t] \in {"reason2", "shutdown", "check", "mark"}
        /\ pc[t] \notin {"idle", "uncalled"}
        /\ pc'[t] = "reason2" => call'[t].ret = "shutdown"
    <3>1. CASE WriteClosing(t)
      BY <2>1, <3>1 DEF WriteClosing, ConnRole, Goto, TypeOK
    <3>2. CASE WriteReason(t)
      BY <2>1, <3>2 DEF WriteReason, ConnRole, Goto, TypeOK
    <3>3. CASE OnShutdown(t)
      BY <3>3 DEF OnShutdown, TypeOK
    <3>4. CASE CheckClosed(t)
      <4>1. state # "CLOSED"
        BY <1>2, <3>4 DEF CheckClosed, Before, Roles, ConnRole, SingleCallback
      <4> QED BY <3>4, <4>1 DEF CheckClosed, Goto, TypeOK
    <3> QED BY <3>1, <3>2, <3>3, <3>4 DEF Step
  <2>4. Roles'
    <3>1. \A w \in Workers : WorkerRole(w)'
      BY <1>2, <2>1, <2>2 DEF Roles, WorkerRole, Threads
    <3>2. \A c \in Conns \ {t} : ConnRole(c)'
      BY <2>2 DEF Roles, ConnRole, Threads
    <3>3. ConnRole(t)'
      BY <2>1, <2>3 DEF ConnRole
    <3> QED BY <3>1, <3>2, <3>3 DEF Roles
  <2>5. state' = "CLOSED" => state = "CLOSED"
    BY DEF Step, WriteClosing, WriteReason, OnShutdown, CheckClosed
  <2> QED BY <2>2, <2>3, <2>4, <2>5 DEF Threads
<1> QED BY <1>1, <1>2 DEF Threads

LEMMA WebSocketClosedRole ==
  ASSUME TypeOK, Roles, NEW c \in Conns, WebSocketClosed(c)
  PROVE  Roles' /\ state' = state
                /\ \A d \in Conns : pc'[d] = "idle" <=> pc[d] = "idle"
<1> USE DEF session
<1>1. c \in Threads /\ c \notin Workers
  BY ConnAssumption DEF Threads
<1>2. \A u \in Threads \ {c} : pc'[u] = pc[u] /\ call'[u] = call[u]
  BY <1>1 DEF WebSocketClosed, SetReason, Goto, TypeOK
<1>3. /\ pc'[c] \in {"reason1", "shutdown"}
      /\ pc'[c] = "reason1" => call'[c].ret = "shutdown"
  <2>1. CASE \E r : SetReason(c, r, "shutdown")
    <3>1. call[c] \in Calls
      BY <1>1 DEF TypeOK
    <3>2. PICK r : call' = [call EXCEPT ![c] = [@ EXCEPT !.why = r, !.ret = "shutdown"]]
      BY <2>1 DEF SetReason
    <3>3. call'[c].ret = "shutdown"
      BY <1>1, <3>1, <3>2 DEF TypeOK, Calls
    <3> QED BY <1>1, <2>1, <3>3 DEF SetReason, TypeOK
  <2>2. CASE Goto(c, "shutdown")
    BY <1>1, <2>2 DEF Goto, TypeOK
  <2> QED BY <2>1, <2>2 DEF WebSocketClosed
<1>4. \A w \in Workers : WorkerRole(w)'
  BY <1>1, <1>2 DEF Roles, WorkerRole, Threads, WebSocketClosed
<1>5. \A d \in Conns \ {c} : ConnRole(d)'
  BY <1>2 DEF Roles, ConnRole, Threads
<1>6. ConnRole(c)'
  BY <1>3 DEF ConnRole, WebSocketClosed
<1> QED BY <1>2, <1>3, <1>4, <1>5, <1>6 DEF Roles, Threads, WebSocketClosed

\* What happens outside the listeners, seen from the contract.
LEMMA OutsideStep ==
  ASSUME SingleCallback, TypeOK, ContractInv, [Next]_vars,
         ~(\E t \in Threads : MarkClosed(t) \/ Notify(t) \/ DeleteSession(t))
  PROVE  /\ Roles' /\ (state' = "CLOSED" => state = "CLOSED")
         /\ \A c \in Conns : pc'[c] = "idle" <=> pc[c] = "idle"
         /\ UNCHANGED <<registered, told, todo>> /\ Passing' = Passing
<1>1. UNCHANGED <<registered, told, todo>> /\ Passing' = Passing
  BY StepKinds DEF Quiet, Makes, Puts
<1>2. ASSUME NEW t \in Threads, Step(t)
      PROVE  /\ Roles' /\ (state' = "CLOSED" => state = "CLOSED")
             /\ \A c \in Conns : pc'[c] = "idle" <=> pc[c] = "idle"
  BY <1>2, StepRole DEF ContractInv
<1>3. ASSUME NEW w \in Workers, WorkerStep(w)
      PROVE  /\ Roles' /\ (state' = "CLOSED" => state = "CLOSED")
             /\ \A c \in Conns : pc'[c] = "idle" <=> pc[c] = "idle"
  <2>1. state' \in {state, "CONNECTED"}
    BY <1>3
    DEF WorkerStep, Handshake, ConnectCas, ConnectCreate, ConnectPut, ConnectSend,
        ConnectReady, ConnectListen, ConnectReject, NsInvalid, NsConnect,
        NsPut, NsSend, NsListen, NsReject, RemoteClose, UpgradePacket,
        OtherPacket, Ping, Pong, Noop, Disconnect, CloseConnection,
        AbortXHR, AbortTomcat, AbortWebSocket, SetDone, session
  <2> QED BY <1>3, <2>1, WorkerStepRole, WorkerMovesRoles DEF ContractInv
<1>4. ASSUME NEW w \in Workers,
             \/ \E c \in Conns : Request(w, c)
             \/ OnTimeout(w)
             \/ \E b \in BOOLEAN : AppDisconnect(w, b)
      PROVE  /\ Roles' /\ (state' = "CLOSED" => state = "CLOSED")
             /\ \A c \in Conns : pc'[c] = "idle" <=> pc[c] = "idle"
  <2>1. state' = state
    BY <1>4
    DEF Request, OpenFirst, OpenUpgrade, Receive, OnTimeout, AppDisconnect, session
  <2> QED BY <1>4, <2>1, RequestRole, WorkerMovesRoles DEF ContractInv
<1>5. ASSUME NEW c \in Conns, WebSocketClosed(c)
      PROVE  /\ Roles' /\ (state' = "CLOSED" => state = "CLOSED")
             /\ \A d \in Conns : pc'[d] = "idle" <=> pc[d] = "idle"
  BY <1>5, WebSocketClosedRole DEF ContractInv
<1>6. CASE AppEmit \/ UNCHANGED vars
  <2>1. pc' = pc /\ call' = call /\ active' = active /\ state' = state
    BY <1>6 DEF AppEmit, vars, session, threads
  <2>2. Roles
    BY DEF ContractInv
  <2>3. Roles'
    BY <2>1, <2>2 DEF Roles, WorkerRole, ConnRole
  <2> QED BY <1>1, <2>1, <2>3
<1> QED BY <1>1, <1>2, <1>3, <1>4, <1>5, <1>6 DEF Next

\* In a step of onDisconnect the thread is the one of the WebSocket, all the
\* other connections' threads are yet uncalled, and no worker is in a pass.
LEMMA TheOnlyPass ==
  ASSUME SingleCallback, TypeOK, Roles, NEW t \in Threads,
         pc[t] \in {"mark", "notify"}
  PROVE  /\ t \in Conns
         /\ \A c \in Conns \ {t} : pc[c] = "uncalled"
         /\ Passing \subseteq {t}
<1>1. t \in Conns
  BY DEF Threads, Roles, WorkerRole, ShutdownLabels
<1>2. \A c \in Conns \ {t} : pc[c] = "uncalled"
  BY <1>1 DEF Roles, ConnRole, SingleCallback
<1>3. Passing \subseteq {t}
  BY <1>1, <1>2 DEF Passing, Threads, Roles, WorkerRole, ShutdownLabels
<1> QED BY <1>1, <1>2, <1>3

\* How the thread moves in such a step.
LEMMA PassMoves ==
  ASSUME SingleCallback, TypeOK, Roles, NEW t \in Threads,
         MarkClosed(t) \/ Notify(t) \/ DeleteSession(t)
  PROVE  /\ \A u \in Threads \ {t} : pc'[u] = pc[u] /\ call'[u] = call[u]
         /\ MarkClosed(t) => pc'[t] = "notify"
         /\ Notify(t) => pc'[t] \in {"notify", "idle"}
         /\ DeleteSession(t) => pc'[t] = "idle"
         /\ active' = active
<1>1. t \notin Workers
  BY TheOnlyPass, ConnAssumption DEF MarkClosed, Notify, DeleteSession
<1>2. CASE MarkClosed(t)
  BY <1>2 DEF MarkClosed, Goto, TypeOK, DeleteSession, Notify
<1>3. CASE Notify(t)
  BY <1>3 DEF Notify, Goto, TypeOK, threads, DeleteSession, MarkClosed
<1>4. CASE DeleteSession(t)
  BY <1>1, <1>4 DEF DeleteSession, AfterShutdown, Goto, TypeOK, MarkClosed, Notify
<1> QED BY <1>2, <1>3, <1>4

LEMMA PassRoles ==
  ASSUME SingleCallback, TypeOK, Roles, NEW t \in Threads,
         MarkClosed(t) \/ Notify(t) \/ DeleteSession(t)
  PROVE  Roles' /\ ~Before'
<1>1. t \in Conns /\ t \notin Workers /\ ConnRole(t)
  BY TheOnlyPass, ConnAssumption DEF MarkClosed, Notify, DeleteSession, Roles
<1>2. pc'[t] \in {"notify", "idle"} /\ pc[t] # "uncalled"
  BY PassMoves DEF MarkClosed, Notify, DeleteSession
<1>3. \A w \in Workers : WorkerRole(w)'
  BY <1>1, PassMoves DEF Roles, WorkerRole, Threads
<1>4. \A c \in Conns \ {t} : ConnRole(c)'
  BY PassMoves DEF Roles, ConnRole, Threads
<1>5. ConnRole(t)'
  BY <1>1, <1>2 DEF ConnRole
<1> QED BY <1>1, <1>2, <1>3, <1>4, <1>5 DEF Roles, Before

LEMMA ContractInvStep ==
  ASSUME SingleCallback, TypeOK, ContractInv, [Next]_vars
  PROVE  ContractInv'
<1>1. ASSUME NEW t \in Threads, MarkClosed(t) PROVE ContractInv'
  <2>1. pc[t] = "mark" /\ Roles
    BY <1>1 DEF MarkClosed, ContractInv
  <2>2. t \in Conns /\ \A c \in Conns \ {t} : pc[c] = "uncalled"
    BY <2>1, TheOnlyPass
  <2>3. registered /\ \A s \in Sockets : told[s] = 0
    BY <2>1, <2>2 DEF ContractInv, Before
  <2>4. registered' = registered /\ told' = told
    BY <1>1 DEF MarkClosed
  <2>5. \A c \in Conns : todo'[c] \subseteq Sockets
    BY <1>1 DEF MarkClosed, TypeOK, Threads
  <2> QED BY <1>1, <2>1, <2>3, <2>4, <2>5, PassRoles DEF ContractInv, NotifiedOnce
<1>2. ASSUME NEW t \in Threads, Notify(t) PROVE ContractInv'
  <2>1. pc[t] = "notify" /\ Roles
    BY <1>2 DEF Notify, ContractInv
  <2>2. t \in Conns /\ \A c \in Conns \ {t} : pc[c] = "uncalled"
    BY <2>1, TheOnlyPass
  <2>3. registered /\ \A s \in todo[t] : told[s] = 0
    BY <2>1, <2>2 DEF ContractInv
  <2>4. PICK s \in todo[t] :
          /\ told' = [told EXCEPT ![s] = @ + 1]
          /\ todo' \in {[todo EXCEPT ![t] = @ \ {s}], [todo EXCEPT ![t] = {}]}
    BY <1>2 DEF Notify
  <2>5. s \in Sockets /\ told[s] = 0
    BY <2>3, CallType DEF TypeOK
  <2>6. told'[s] = 1
    BY <2>4, <2>5 DEF TypeOK
  <2>7. \A x \in Sockets \ {s} : told'[x] = told[x]
    BY <2>4 DEF TypeOK
  <2>8. NotifiedOnce'
    <3>1. told'[s] <= 1
      BY <2>6
    <3>2. \A x \in Sockets \ {s} : told'[x] <= 1
      BY <2>7 DEF ContractInv, NotifiedOnce
    <3> QED BY <3>1, <3>2, Zenon DEF NotifiedOnce
  <2>9. todo'[t] \subseteq todo[t] \ {s} /\ todo'[t] \subseteq Sockets
    BY <2>4 DEF TypeOK
  <2>10. \A x \in todo'[t] : told'[x] = 0
    BY <2>3, <2>7, <2>9
  <2>11. \A c \in Conns \ {t} : pc'[c] = "uncalled"
    BY <1>2, <2>1, <2>2, PassMoves DEF Threads
  <2>12. registered'
    BY <1>2, <2>3 DEF Notify
  <2> QED BY <1>2, <2>1, <2>8, <2>10, <2>11, <2>12, PassRoles DEF ContractInv
<1>3. ASSUME NEW t \in Threads, DeleteSession(t) PROVE ContractInv'
  <2>1. pc[t] = "notify" /\ Roles /\ told' = told
    BY <1>3 DEF DeleteSession, ContractInv, notices
  <2>2. \A c \in Conns : pc'[c] # "notify"
    BY <1>3, <2>1, TheOnlyPass, PassMoves DEF Threads
  <2> QED BY <1>3, <2>1, <2>2, PassRoles DEF ContractInv, NotifiedOnce
<1>4. CASE ~(\E t \in Threads : MarkClosed(t) \/ Notify(t) \/ DeleteSession(t))
  <2>1. /\ Roles' /\ (state' = "CLOSED" => state = "CLOSED")
        /\ \A c \in Conns : pc'[c] = "idle" <=> pc[c] = "idle"
        /\ UNCHANGED <<registered, told, todo>> /\ Passing' = Passing
    BY <1>4, OutsideStep
  <2>2. \A c \in Conns : pc'[c] = "notify" <=> pc[c] = "notify"
    BY <2>1 DEF Passing, Threads
  <2>3. Before' => Before
    BY <2>1, <2>2 DEF Before
  <2> QED BY <2>1, <2>2, <2>3 DEF ContractInv, NotifiedOnce
<1> QED BY <1>1, <1>2, <1>3, <1>4

LEMMA InitContractInv == Init => ContractInv
<1> SUFFICES ASSUME Init PROVE ContractInv
  OBVIOUS
<1>1. \A w \in Workers : WorkerRole(w)
  BY ConnAssumption DEF Init, WorkerRole, Threads, NoCall, ShutdownLabels, ActiveLabels
<1>2. \A c \in Conns : ConnRole(c)
  BY DEF Init, ConnRole, Threads
<1>3. \A s \in Sockets : told[s] = 0
  BY DEF Init
<1> QED BY <1>1, <1>2, <1>3 DEF Init, ContractInv, Roles, NotifiedOnce, Threads

THEOREM ContractInvariant == ASSUME SingleCallback
                             PROVE  Spec => [](TypeOK /\ ContractInv)
<1>1. TypeOK /\ ContractInv /\ [Next]_vars => ContractInv'
  BY ContractInvStep
<1> QED BY <1>1, InitContractInv, TypeCorrect, PTL DEF Spec

-----------------------------------------------------------------------------
\* The session implements DisconnectContract: MarkClosed is Close, Notify is
\* Tell, DeleteSession is Delete, and nothing else shows.

LEMMA OpenMeansBefore ==
  ASSUME SingleCallback, TypeOK, ContractInv, NEW t \in Threads, pc[t] = "mark"
  PROVE  phase = "open" /\ Passing = {} /\ Owed = {}
<1>1. t \in Conns /\ \A c \in Conns \ {t} : pc[c] = "uncalled"
  BY TheOnlyPass DEF ContractInv
<1>2. Passing = {}
  BY TheOnlyPass DEF ContractInv, Passing
<1>3. registered
  BY <1>1 DEF ContractInv, Before
<1> QED BY <1>1, <1>2, <1>3 DEF phase, Owed

LEMMA ClosingMeansNotify ==
  ASSUME SingleCallback, TypeOK, ContractInv, NEW t \in Threads, pc[t] = "notify"
  PROVE  phase = "closing" /\ Passing = {t} /\ Owed = todo[t]
<1>1. t \in Conns /\ Passing = {t}
  BY TheOnlyPass DEF ContractInv, Passing
<1>2. registered
  BY <1>1 DEF ContractInv
<1> QED BY <1>1, <1>2 DEF phase, Owed

LEMMA MarkClosedIsClose ==
  ASSUME SingleCallback, TypeOK, ContractInv, NEW t \in Threads, MarkClosed(t)
  PROVE  Contract!Close
<1>1. pc[t] = "mark" /\ Roles
  BY DEF MarkClosed, ContractInv
<1>2. phase = "open" /\ Passing = {}
  BY <1>1, OpenMeansBefore
<1>3. Passing' = {t}
  BY <1>1, <1>2, PassMoves DEF Passing
<1>4. registered /\ registered' = registered /\ told' = told
  BY <1>1, <1>2 DEF MarkClosed, phase
<1>5. phase' = "closing"
  BY <1>3, <1>4 DEF phase
<1>6. Owed' = sockets
  BY <1>3 DEF MarkClosed, Owed, TypeOK
<1> QED BY <1>2, <1>4, <1>5, <1>6 DEF Contract!Close, TypeOK

LEMMA NotifyIsTell ==
  ASSUME SingleCallback, TypeOK, ContractInv, NEW t \in Threads, Notify(t)
  PROVE  \E s \in Sockets : Contract!Tell(s)
<1>1. pc[t] = "notify" /\ Roles
  BY DEF Notify, ContractInv
<1>2. phase = "closing" /\ Passing = {t} /\ Owed = todo[t]
  BY <1>1, ClosingMeansNotify
<1>3. t \in Conns /\ registered /\ registered' /\ \A s \in todo[t] : told[s] = 0
  BY <1>1, TheOnlyPass DEF ContractInv, Notify
<1>4. PICK s \in todo[t] :
        /\ told' = [told EXCEPT ![s] = @ + 1]
        /\ \/ /\ todo' = [todo EXCEPT ![t] = @ \ {s}]
              /\ UNCHANGED <<threads, strays>>
           \/ /\ ListenersThrow
              /\ todo' = [todo EXCEPT ![t] = {}]
              /\ Goto(t, "idle")
  BY DEF Notify
<1>5. s \in Sockets /\ told[s] = 0
  BY <1>3, CallType DEF TypeOK
<1>6. told[s] = 0 /\ told'[s] = 1
  BY <1>4, <1>5 DEF TypeOK
<1>7. \A x \in Sockets \ {s} : told'[x] = told[x]
  BY <1>4 DEF TypeOK
<1>8. told' = [told EXCEPT ![s] = 1]
  BY <1>4, <1>6
<1>9. CASE todo' = [todo EXCEPT ![t] = @ \ {s}] /\ UNCHANGED threads
  <2>1. Passing' = {t} /\ todo'[t] = todo[t] \ {s}
    BY <1>2, <1>9 DEF Passing, threads, TypeOK
  <2>2. Owed' = Owed \ {s}
    BY <1>2, <2>1 DEF Owed
  <2>3. phase' = phase
    BY <1>2, <1>3, <2>1 DEF phase
  <2> QED BY <1>2, <1>5, <1>6, <1>8, <2>2, <2>3 DEF Contract!Tell
<1>10. CASE ListenersThrow /\ Goto(t, "idle")
  <2>1. Passing' = {} /\ pc'[t] = "idle"
    BY <1>2, <1>10 DEF Passing, Goto, TypeOK
  <2>2. Owed' = {}
    BY <2>1 DEF Owed
  <2>3. phase' = "stuck"
    BY <1>3, <2>1 DEF phase
  <2> QED BY <1>2, <1>5, <1>6, <1>8, <1>10, <2>2, <2>3 DEF Contract!Tell
<1> QED BY <1>4, <1>9, <1>10 DEF threads

LEMMA DeleteSessionIsDelete ==
  ASSUME SingleCallback, TypeOK, ContractInv, NEW t \in Threads, DeleteSession(t)
  PROVE  Contract!Delete
<1>1. pc[t] = "notify" /\ todo[t] = {} /\ Roles
  BY DEF DeleteSession, ContractInv
<1>2. phase = "closing" /\ Passing = {t} /\ Owed = {}
  BY <1>1, ClosingMeansNotify
<1>3. Passing' = {}
  BY <1>1, <1>2, PassMoves DEF Passing
<1>4. Owed' = {} /\ phase' = "gone" /\ told' = told
  BY <1>3 DEF Owed, DeleteSession, phase, notices
<1> QED BY <1>2, <1>4 DEF Contract!Delete

LEMMA OutsideIsStutter ==
  ASSUME SingleCallback, TypeOK, ContractInv, [Next]_vars,
         ~(\E t \in Threads : MarkClosed(t) \/ Notify(t) \/ DeleteSession(t))
  PROVE  UNCHANGED <<phase, Owed, told>>
<1>1. /\ \A c \in Conns : pc'[c] = "idle" <=> pc[c] = "idle"
      /\ UNCHANGED <<registered, told, todo>> /\ Passing' = Passing
  BY OutsideStep
<1> QED BY <1>1 DEF phase, Owed

\* The sockets a closing session has are told once each, and the session is
\* removed from the manager only after the last of them.
THEOREM SessionKeepsContract == ASSUME SingleCallback
                                PROVE  Spec => KeepsContract
<1>1. Init => Contract!Init
  <2> SUFFICES ASSUME Init PROVE Contract!Init
    OBVIOUS
  <2>1. Passing = {}
    BY DEF Init, Passing
  <2>2. ~(\E c \in Conns : pc[c] = "idle")
    BY DEF Init, Threads
  <2>3. phase = "open" /\ Owed = {}
    BY <2>1, <2>2 DEF Init, phase, Owed
  <2>4. told = [s \in Sockets |-> 0]
    BY DEF Init
  <2> QED BY <2>3, <2>4 DEF Contract!Init
<1>2. TypeOK /\ ContractInv /\ [Next]_vars => [Contract!Next]_(Contract!contract)
  BY MarkClosedIsClose, NotifyIsTell, DeleteSessionIsDelete, OutsideIsStutter
  DEF Contract!Next, Contract!contract
<1>3. Spec => [](TypeOK /\ ContractInv)
  BY ContractInvariant
<1> QED BY <1>1, <1>2, <1>3, PTL DEF Spec, KeepsContract, Contract!Spec
=============================================================================
