------------------------- MODULE NamespaceRoomsProofs -------------------------
(***************************************************************************)
(* Theorems about NamespaceRooms, for any sockets, rooms and threads.      *)
(***************************************************************************)
EXTENDS NamespaceRooms, TLAPS

USE RoomsAssumption
USE DEF sessions, loop, thread, history, Goto, NoLongerOwed

-----------------------------------------------------------------------------
(***************************************************************************)
(* Types.  CallInv relates where a thread is to the method it runs.        *)
(***************************************************************************)
RoomCall(c) ==
  \/ c.op \in {"join", "leave", "broadcast"} /\ c.socket \in Sockets /\ c.id \in RoomIds
  \/ c.op = "emit" /\ c.id \in RoomIds

LeaveCall(c) == c.op \in {"leaveAll", "disconnect"} /\ c.socket \in Sockets

CallInv ==
  \A t \in Threads :
    /\ pc[t] \in {"find", "create"} => RoomCall(call[t])
    /\ pc[t] = "use" => RoomCall(call[t]) \/ call[t].op = "emit"
    /\ pc[t] \in {"leaveAll", "remove"} => LeaveCall(call[t])
    /\ pc[t] = "remove" => call[t].op = "disconnect" /\ call[t].socket \in leaving
    /\ pc[t] = "leaveAll" /\ call[t].op = "disconnect" => call[t].socket \in leaving
    /\ pc[t] = "leaveAll" => \A r \in toLeave[t] : rooms[r] # NoRoom

TypeInv == TypeOK /\ CallInv

LEMMA CallKinds ==
  ASSUME NEW c \in Calls
  PROVE  /\ c.op \in {"join", "leave", "broadcast"} => RoomCall(c)
         /\ c.op \in {"leaveAll", "disconnect"} => LeaveCall(c)
         /\ c.op = "emit" /\ c.id # All => RoomCall(c)
<1>1. CASE c \in [op : {"join", "leave", "broadcast"}, socket : Sockets, id : RoomIds]
  BY <1>1 DEF RoomCall, LeaveCall
<1>2. CASE c \in [op : {"leaveAll", "disconnect"}, socket : Sockets]
  BY <1>2 DEF RoomCall, LeaveCall
<1>3. CASE c \in [op : {"emit"}, id : RoomIds \cup {All}]
  BY <1>3 DEF RoomCall, LeaveCall
<1> QED
  BY <1>1, <1>2, <1>3 DEF Calls

LEMMA AddType ==
  ASSUME TypeOK, NEW x \in Sets, NEW s \in Sockets, AddTo(x, s)
  PROVE  /\ members' \in [Sets -> SUBSET Sockets]
         /\ toVisit' \in [Threads -> SUBSET Sockets]
BY DEF TypeOK, AddTo

LEMMA RemoveType ==
  ASSUME TypeOK, NEW x \in Sets, NEW s \in Sockets, RemoveFrom(x, s)
  PROVE  /\ members' \in [Sets -> SUBSET Sockets]
         /\ toVisit' \in [Threads -> SUBSET Sockets]
         /\ owed' \in [Threads -> SUBSET Sockets]
BY DEF TypeOK, RemoveFrom

LEMMA TypeInvInductive == TypeInv /\ [Next]_vars => TypeInv'
<1> SUFFICES ASSUME TypeInv, [Next]_vars
             PROVE  TypeInv'
  OBVIOUS
<1> USE DEF TypeInv
<1>1. ASSUME NEW s \in Sockets, SessionStep(s)
      PROVE  TypeInv'
  <2>1. CASE CreateSocket(s)
    BY <2>1, AddType DEF CreateSocket, TypeOK, CallInv, Sets
  <2>2. CASE Connected(s)
    BY <2>2 DEF Connected, TypeOK, CallInv
  <2>3. CASE Close(s)
    BY <2>3 DEF Close, TypeOK, CallInv
  <2>4. ASSUME NEW e \in {"broken", "null"}, LoseEndpoint(s, e)
        PROVE  TypeInv'
    BY <2>4 DEF LoseEndpoint, TypeOK, CallInv
  <2> QED
    BY <1>1, <2>1, <2>2, <2>3, <2>4 DEF SessionStep
<1>2. ASSUME NEW t \in Threads, NEW c \in Calls, CallStep(t, c)
      PROVE  TypeInv'
  <2>1. CASE UseRoom(t, c)
    <3>1. RoomCall(c)
      BY <2>1, CallKinds DEF UseRoom
    <3> QED
      BY <2>1, <3>1 DEF UseRoom, Begin, TypeOK, CallInv
  <2>2. CASE UseNamespace(t, c)
    BY <2>2 DEF UseNamespace, Begin, TypeOK, CallInv
  <2>3. CASE LeaveAll(t, c)
    <3>1. LeaveCall(c) /\ c.op # "disconnect"
      BY <2>3, CallKinds DEF LeaveAll
    <3> QED
      BY <2>3, <3>1 DEF LeaveAll, StartLeaveAll, Begin, TypeOK, CallInv
  <2>4. CASE OnDisconnect(t, c)
    <3>1. LeaveCall(c)
      BY <2>4, CallKinds DEF OnDisconnect
    <3>2. c.socket \in leaving' /\ leaving \subseteq leaving' /\ leaving' \subseteq Sockets
      BY <2>4, <3>1 DEF OnDisconnect, LeaveCall, TypeOK
    <3> QED
      BY <2>4, <3>1, <3>2 DEF OnDisconnect, StartLeaveAll, Begin, TypeOK, CallInv
  <2> QED
    BY <1>2, <2>1, <2>2, <2>3, <2>4 DEF CallStep
<1>3. ASSUME NEW t \in Threads, Step(t)
      PROVE  TypeInv'
  <2>1. CASE Find(t)
    <3>1. call[t].id \in RoomIds
      BY <2>1 DEF Find, CallInv, RoomCall
    <3>2. room' \in [Threads -> Sets]
      BY <2>1, <3>1 DEF Find, TypeOK, Sets, RoomObjects
    <3> QED
      BY <2>1, <3>2 DEF Find, TypeOK, CallInv
  <2>2. CASE Create(t)
    <3>1. call[t].id \in RoomIds
      BY <2>2 DEF Create, CallInv, RoomCall
    <3>2. /\ room' \in [Threads -> Sets]
          /\ rooms' \in [RoomIds -> Threads \cup {NoRoom}]
          /\ \A r \in RoomIds : rooms[r] # NoRoom => rooms'[r] # NoRoom
          /\ rooms'[call[t].id] # NoRoom
      BY <2>2, <3>1 DEF Create, PutIfAbsent, OwnOrPrevious, TypeOK, Sets, RoomObjects
    <3>3. /\ toLeave' \in [Threads -> SUBSET RoomIds]
          /\ \A u \in Threads : toLeave'[u] \subseteq toLeave[u] \cup {call[t].id}
      BY <2>2, <3>1 DEF Create, TypeOK
    <3>4. TypeOK'
      BY <2>2, <3>2, <3>3 DEF Create, TypeOK
    <3>5. CallInv'
      BY <2>2, <3>2, <3>3 DEF Create, TypeOK, CallInv
    <3> QED
      BY <3>4, <3>5
  <2>3. CASE Join(t)
    <3>1. call[t].socket \in Sockets /\ room[t] \in Sets
      BY <2>3 DEF Join, CallInv, RoomCall, TypeOK
    <3> QED
      BY <2>3, <3>1, AddType DEF Join, TypeOK, CallInv
  <2>4. CASE Leave(t)
    <3>1. call[t].socket \in Sockets /\ room[t] \in Sets
      BY <2>4 DEF Leave, CallInv, RoomCall, TypeOK
    <3> QED
      BY <2>4, <3>1, RemoveType DEF Leave, TypeOK, CallInv
  <2>5. CASE RoomsLeft(t)
    BY <2>5 DEF RoomsLeft, TypeOK, CallInv
  <2>6. CASE Remove(t)
    <3>1. call[t].socket \in leaving /\ call[t].socket \in Sockets /\ All \in Sets
      BY <2>6 DEF Remove, CallInv, TypeOK, Sets
    <3> QED
      BY <2>6, <3>1, RemoveType DEF Remove, TypeOK, CallInv
  <2>7. CASE StartLoop(t)
    BY <2>7 DEF StartLoop, TypeOK, CallInv
  <2>8. CASE EndLoop(t)
    BY <2>8 DEF EndLoop, TypeOK, CallInv
  <2>9. CASE Return(t)
    BY <2>9 DEF Return, TypeOK, CallInv, Sets
  <2> QED
    BY <1>3, <2>1, <2>2, <2>3, <2>4, <2>5, <2>6, <2>7, <2>8, <2>9 DEF Step
<1>4. ASSUME NEW t \in Threads, NEW r \in RoomIds, LeaveRoom(t, r)
      PROVE  TypeInv'
  <2>1. call[t].socket \in Sockets /\ <<r, rooms[r]>> \in Sets
    BY <1>4 DEF LeaveRoom, CallInv, LeaveCall, TypeOK, Sets, RoomObjects
  <2> QED
    BY <1>4, <2>1, RemoveType DEF LeaveRoom, TypeOK, CallInv
<1>5. ASSUME NEW t \in Threads, NEW s \in Sockets, LoopStep(t, s)
      PROVE  TypeInv'
  BY <1>5 DEF LoopStep, SkipSender, Emit, EmitClosed, EmitFails, EmitNull,
              Visit, CatchOrThrow, TypeOK, CallInv
<1>6. CASE UNCHANGED vars
  BY <1>6 DEF vars, TypeOK, CallInv
<1> QED
  BY <1>1, <1>2, <1>3, <1>4, <1>5, <1>6 DEF Next

LEMMA TypeInvAlways == Spec => []TypeInv
<1>1. Init => TypeInv
  BY DEF Init, TypeInv, TypeOK, CallInv, Sets
<1> QED
  BY <1>1, TypeInvInductive, PTL DEF Spec

(***************************************************************************)
(* The variables keep their types.                                         *)
(***************************************************************************)
THEOREM TypeCorrect == Spec => []TypeOK
BY TypeInvAlways, PTL DEF TypeInv

-----------------------------------------------------------------------------
(***************************************************************************)
(* A room is never replaced, so whoever looked it up or created it works   *)
(* on the room that all others find.                                       *)
(***************************************************************************)
LEMMA RoomsStay ==
  ASSUME TypeInv, [Next]_vars, NEW r \in RoomIds, rooms[r] # NoRoom
  PROVE  rooms'[r] = rooms[r]
<1>1. CASE \E t \in Threads : Create(t)
  BY <1>1 DEF Create, PutIfAbsent
<1>2. CASE ~\E t \in Threads : Create(t)
  <2>1. rooms' = rooms
    BY <1>2 DEF Next, vars, SessionStep, CreateSocket, Connected, Close,
                LoseEndpoint, CallStep, UseRoom, UseNamespace, LeaveAll,
                OnDisconnect, StartLeaveAll, Begin, Step, Find, Join, Leave,
                RoomsLeft, Remove, StartLoop, EndLoop, Return, LeaveRoom,
                LoopStep, SkipSender, Emit, EmitClosed, EmitFails, EmitNull,
                Visit
  <2> QED
    BY <2>1
<1> QED
  BY <1>1, <1>2

Found(t, r) == rooms[r] # NoRoom /\ room[t] = <<r, rooms[r]>>

THEOREM OneRoomForAll == Spec => []OneRoom
<1>1. Init => OneRoom
  BY DEF Init, OneRoom
<1>2. TypeInv /\ OneRoom /\ [Next]_vars => OneRoom'
  <2> SUFFICES ASSUME TypeInv, OneRoom, [Next]_vars,
                      NEW t \in Threads, room'[t] # All
               PROVE  \E r \in RoomIds : Found(t, r)'
    BY DEF OneRoom, Found
  <2>1. CASE room'[t] = room[t]
    BY <2>1, RoomsStay DEF OneRoom, Found
  <2>2. CASE room'[t] # room[t]
    <3>1. Find(t) \/ Create(t) \/ Return(t)
      <4>1. ~(room' = room)
        BY <2>2
      <4>2. \E u \in Threads : Find(u) \/ Create(u) \/ Return(u)
        BY <4>1 DEF Next, vars, SessionStep, CreateSocket, Connected, Close,
                    LoseEndpoint, CallStep, UseRoom, UseNamespace, LeaveAll,
                    OnDisconnect, StartLeaveAll, Begin, Step, Join, Leave,
                    RoomsLeft, Remove, StartLoop, EndLoop, LeaveRoom,
                    LoopStep, SkipSender, Emit, EmitClosed, EmitFails,
                    EmitNull, Visit
      <4>3. PICK u \in Threads : Find(u) \/ Create(u) \/ Return(u)
        BY <4>2
      <4>4. u = t
        BY <2>2, <4>3 DEF Find, Create, Return, TypeInv, TypeOK
      <4> QED
        BY <4>3, <4>4
    <3>2. pc[t] \in {"find", "create"} => call[t].id \in RoomIds
      BY DEF TypeInv, CallInv, RoomCall
    <3>3. CASE Find(t)
      BY <2>2, <3>2, <3>3 DEF Find, Found, TypeInv, TypeOK
    <3>4. CASE Create(t)
      BY <3>2, <3>4 DEF Create, PutIfAbsent, OwnOrPrevious, Found, TypeInv,
                        TypeOK
    <3>5. CASE Return(t)
      BY <3>5 DEF Return, TypeInv, TypeOK
    <3> QED
      BY <3>1, <3>3, <3>4, <3>5
  <2> QED
    BY <2>1, <2>2
<1> QED
  BY <1>1, <1>2, TypeInvAlways, PTL DEF Spec

-----------------------------------------------------------------------------
(***************************************************************************)
(* What an emit has still to reach it has still to visit, and can reach.   *)
(***************************************************************************)
EmitInv ==
  \A t \in Threads :
    /\ owed[t] # {} => pc[t] \in {"emit", "thrown", "npe"}
    /\ pc[t] = "emit" =>
         /\ owed[t] \subseteq toVisit[t]
         /\ call[t].op \in {"emit", "broadcast"}
         /\ \A s \in owed[t] : Reachable(s) /\ s \notin Spared(t)
    /\ pc[t] = "thrown" => call[t].op = "broadcast"

LEMMA AddKeepsEmitInv ==
  ASSUME TypeInv, EmitInv, NEW x \in Sets, NEW s \in Sockets, AddTo(x, s),
         NEW t \in Threads
  PROVE  toVisit[t] \subseteq toVisit'[t]
BY DEF AddTo, TypeInv, TypeOK

LEMMA RemoveKeepsEmitInv ==
  ASSUME TypeInv, EmitInv, NEW x \in Sets, NEW s \in Sockets,
         RemoveFrom(x, s), NEW t \in Threads
  PROVE  /\ owed'[t] \subseteq owed[t]
         /\ pc[t] = "emit" => owed'[t] \subseteq toVisit'[t]
BY DEF RemoveFrom, TypeInv, TypeOK, EmitInv

THEOREM EmitCovers == Spec => []EmitReachesAll
<1>1. Init => EmitInv
  BY DEF Init, EmitInv
<1>2. TypeInv /\ EmitInv /\ [Next]_vars => EmitInv'
  <2> SUFFICES ASSUME TypeInv, EmitInv, [Next]_vars
               PROVE  EmitInv'
    OBVIOUS
  <2> USE DEF TypeInv
  <2>1. ASSUME NEW s \in Sockets, SessionStep(s)
        PROVE  EmitInv'
    <3>1. CASE CreateSocket(s)
      <4>1. \A t \in Threads : toVisit[t] \subseteq toVisit'[t]
        BY <3>1, AddKeepsEmitInv DEF CreateSocket, Sets
      <4>2. \A u \in Sockets : Reachable(u) => Reachable(u)'
        BY <3>1 DEF CreateSocket, Reachable, TypeOK
      <4> QED
        BY <3>1, <4>1, <4>2 DEF CreateSocket, EmitInv, TypeOK, Spared
    <3>2. CASE Connected(s)
      BY <3>2 DEF Connected, EmitInv, TypeOK, Reachable, Spared
    <3>3. CASE Close(s)
      BY <3>3 DEF Close, EmitInv, TypeOK, Reachable, Spared
    <3>4. ASSUME NEW e \in {"broken", "null"}, LoseEndpoint(s, e)
          PROVE  EmitInv'
      BY <3>4 DEF LoseEndpoint, EmitInv, TypeOK, Reachable, Spared
    <3> QED
      BY <2>1, <3>1, <3>2, <3>3, <3>4 DEF SessionStep
  <2>2. ASSUME NEW t \in Threads, NEW c \in Calls, CallStep(t, c)
        PROVE  EmitInv'
    BY <2>2 DEF CallStep, UseRoom, UseNamespace, LeaveAll, OnDisconnect,
                StartLeaveAll, Begin, EmitInv, TypeOK, Reachable, Spared
  <2>3. ASSUME NEW t \in Threads, Step(t)
        PROVE  EmitInv'
    <3>1. CASE Find(t)
      BY <3>1 DEF Find, EmitInv, TypeOK, Reachable, Spared
    <3>2. CASE Create(t)
      BY <3>2 DEF Create, EmitInv, TypeOK, Reachable, Spared
    <3>3. CASE Join(t)
      <4>1. call[t].socket \in Sockets /\ room[t] \in Sets
        BY <3>3 DEF Join, CallInv, RoomCall, TypeOK
      <4>2. \A u \in Threads : toVisit[u] \subseteq toVisit'[u]
        BY <3>3, <4>1, AddKeepsEmitInv DEF Join
      <4> QED
        BY <3>3, <4>2 DEF Join, EmitInv, TypeOK, Reachable, Spared
    <3>4. CASE Leave(t)
      <4>1. call[t].socket \in Sockets /\ room[t] \in Sets
        BY <3>4 DEF Leave, CallInv, RoomCall, TypeOK
      <4>2. \A u \in Threads : /\ owed'[u] \subseteq owed[u]
                               /\ pc[u] = "emit" => owed'[u] \subseteq toVisit'[u]
        BY <3>4, <4>1, RemoveKeepsEmitInv DEF Leave
      <4> QED
        BY <3>4, <4>2 DEF Leave, EmitInv, TypeOK, Reachable, Spared
    <3>5. CASE RoomsLeft(t)
      BY <3>5 DEF RoomsLeft, EmitInv, TypeOK, Reachable, Spared
    <3>6. CASE Remove(t)
      <4>1. call[t].socket \in Sockets /\ All \in Sets
        BY <3>6 DEF Remove, CallInv, LeaveCall, Sets
      <4>2. \A u \in Threads : /\ owed'[u] \subseteq owed[u]
                               /\ pc[u] = "emit" => owed'[u] \subseteq toVisit'[u]
        BY <3>6, <4>1, RemoveKeepsEmitInv DEF Remove
      <4> QED
        BY <3>6, <4>2 DEF Remove, EmitInv, TypeOK, Reachable, Spared
    <3>7. CASE StartLoop(t)
      BY <3>7 DEF StartLoop, EmitInv, TypeOK, Reachable, Spared
    <3>8. CASE EndLoop(t)
      BY <3>8 DEF EndLoop, EmitInv, TypeOK, Reachable, Spared
    <3>9. CASE Return(t)
      BY <3>9 DEF Return, EmitInv, TypeOK, Reachable, Spared
    <3> QED
      BY <2>3, <3>1, <3>2, <3>3, <3>4, <3>5, <3>6, <3>7, <3>8, <3>9 DEF Step
  <2>4. ASSUME NEW t \in Threads, NEW r \in RoomIds, LeaveRoom(t, r)
        PROVE  EmitInv'
    <3>1. call[t].socket \in Sockets /\ <<r, rooms[r]>> \in Sets
      BY <2>4 DEF LeaveRoom, CallInv, LeaveCall, TypeOK, Sets, RoomObjects
    <3>2. \A u \in Threads : /\ owed'[u] \subseteq owed[u]
                             /\ pc[u] = "emit" => owed'[u] \subseteq toVisit'[u]
      BY <2>4, <3>1, RemoveKeepsEmitInv DEF LeaveRoom
    <3> QED
      BY <2>4, <3>2 DEF LeaveRoom, EmitInv, TypeOK, Reachable, Spared
  <2>5. ASSUME NEW t \in Threads, NEW s \in Sockets, LoopStep(t, s)
        PROVE  EmitInv'
    <3>1. CASE SkipSender(t, s)
      BY <3>1 DEF SkipSender, Visit, EmitInv, TypeOK, Reachable, Spared
    <3>2. CASE Emit(t, s)
      BY <3>2 DEF Emit, Visit, EmitInv, TypeOK, Reachable, Spared
    <3>3. CASE EmitClosed(t, s)
      BY <3>3 DEF EmitClosed, Visit, CatchOrThrow, EmitInv, TypeOK, Reachable, Spared
    <3>4. CASE EmitFails(t, s)
      BY <3>4 DEF EmitFails, Visit, CatchOrThrow, EmitInv, TypeOK, Reachable, Spared
    <3>5. CASE EmitNull(t, s)
      BY <3>5 DEF EmitNull, Visit, EmitInv, TypeOK, Reachable, Spared
    <3> QED
      BY <2>5, <3>1, <3>2, <3>3, <3>4, <3>5 DEF LoopStep
  <2>6. CASE UNCHANGED vars
    BY <2>6 DEF vars, EmitInv, Reachable, Spared
  <2> QED
    BY <2>1, <2>2, <2>3, <2>4, <2>5, <2>6 DEF Next
<1>3. EmitInv => EmitReachesAll
  BY DEF EmitInv, EmitReachesAll
<1> QED
  BY <1>1, <1>2, <1>3, TypeInvAlways, PTL DEF Spec

-----------------------------------------------------------------------------
(***************************************************************************)
(* A thread in onDisconnect has still to leave every room that its socket  *)
(* is in.  Only rooms that can be found have members, and no socket is     *)
(* created anew once it is leaving.                                        *)
(***************************************************************************)
Disconnecting(t, s) == call[t].op = "disconnect" /\ call[t].socket = s

GoneInv ==
  /\ \A s \in leaving : state[s] = "closed"
  /\ \A x \in RoomObjects : members[x] # {} => rooms[x[1]] = x[2]
  /\ \A s \in gone \ strays, x \in Sets : s \notin members[x]
  /\ \A t \in Threads, s \in Sockets \ strays, x \in RoomObjects :
       Disconnecting(t, s) /\ s \in members[x] =>
         /\ pc[t] = "leaveAll" => x[1] \in toLeave[t]
         /\ pc[t] # "remove"

\* Steps that add nobody to a set and start no disconnect.
LEMMA NothingJoins ==
  ASSUME TypeInv, GoneInv, UNCHANGED <<leaving, gone, strays, toLeave>>,
         [Next]_vars,
         \A s \in leaving : state'[s] = state[s],
         \A x \in Sets : members'[x] \subseteq members[x],
         \A t \in Threads, s \in Sockets : Disconnecting(t, s)' =>
           /\ Disconnecting(t, s)
           /\ pc'[t] = pc[t] \/ pc'[t] \notin {"leaveAll", "remove"}
  PROVE  GoneInv'
<1>1. \A x \in RoomObjects : x \in Sets /\ x[1] \in RoomIds /\ x[2] \in Threads
  BY DEF RoomObjects, Sets
<1>2. \A x \in RoomObjects : members'[x] # {} => rooms'[x[1]] = x[2]
  BY <1>1, RoomsStay DEF GoneInv
<1>3. \A s \in leaving' : state'[s] = "closed"
  BY DEF GoneInv
<1>4. \A s \in gone' \ strays', x \in Sets : s \notin members'[x]
  BY DEF GoneInv
<1>5. \A t \in Threads, s \in Sockets \ strays', x \in RoomObjects :
        Disconnecting(t, s)' /\ s \in members'[x] =>
          /\ pc'[t] = "leaveAll" => x[1] \in toLeave'[t]
          /\ pc'[t] # "remove"
  BY <1>1 DEF GoneInv
<1> QED
  BY <1>2, <1>3, <1>4, <1>5 DEF GoneInv

LEMMA GoneInvInductive == TypeInv /\ OneRoom /\ GoneInv /\ [Next]_vars => GoneInv'
<1> SUFFICES ASSUME TypeInv, OneRoom, GoneInv, [Next]_vars
             PROVE  GoneInv'
  OBVIOUS
<1> USE DEF TypeInv
<1>1. ASSUME NEW s \in Sockets, SessionStep(s)
      PROVE  GoneInv'
  <2>1. CASE CreateSocket(s)
    <3>1. s \notin leaving
      BY <2>1 DEF CreateSocket, GoneInv
    <3>2. \A x \in RoomObjects : members'[x] = members[x]
      BY <2>1 DEF CreateSocket, AddTo, TypeOK, Sets, RoomObjects
    <3>3. \A x \in Sets : members'[x] \subseteq members[x] \cup {s}
      BY <2>1 DEF CreateSocket, AddTo, TypeOK
    <3>4. gone \subseteq leaving /\ \A u \in leaving : state'[u] = state[u]
      BY <2>1, <3>1 DEF CreateSocket, TypeOK
    <3> QED
      BY <2>1, <3>1, <3>2, <3>3, <3>4 DEF CreateSocket, GoneInv, Disconnecting
  <2>2. CASE Connected(s)
    BY <2>2, NothingJoins DEF Connected, GoneInv, TypeOK, Disconnecting
  <2>3. CASE Close(s)
    BY <2>3, NothingJoins DEF Close, GoneInv, TypeOK, Disconnecting
  <2>4. ASSUME NEW e \in {"broken", "null"}, LoseEndpoint(s, e)
        PROVE  GoneInv'
    BY <2>4, NothingJoins DEF LoseEndpoint, Disconnecting
  <2> QED
    BY <1>1, <2>1, <2>2, <2>3, <2>4 DEF SessionStep
<1>2. ASSUME NEW t \in Threads, NEW c \in Calls, CallStep(t, c)
      PROVE  GoneInv'
  <2>1. CASE UseRoom(t, c) \/ UseNamespace(t, c)
    <3>1. c.op # "disconnect"
      BY <2>1 DEF UseRoom, UseNamespace
    <3> QED
      BY <2>1, <3>1, NothingJoins
         DEF UseRoom, UseNamespace, Begin, TypeOK, Disconnecting
  <2>2. CASE LeaveAll(t, c)
    <3>1. /\ UNCHANGED <<members, rooms, state, history>>
          /\ \A u \in Threads, s \in Sockets : Disconnecting(u, s)' =>
               /\ Disconnecting(u, s)
               /\ pc'[u] = pc[u] /\ toLeave'[u] = toLeave[u]
      BY <2>2 DEF LeaveAll, StartLeaveAll, Begin, TypeOK, Disconnecting
    <3> QED
      BY <3>1 DEF GoneInv
  <2>3. CASE OnDisconnect(t, c)
    <3>1. /\ UNCHANGED <<members, rooms, state, gone, strays>>
          /\ \A u \in Threads \ {t}, s \in Sockets :
               /\ Disconnecting(u, s)' <=> Disconnecting(u, s)
               /\ pc'[u] = pc[u] /\ toLeave'[u] = toLeave[u]
          /\ pc'[t] = "leaveAll"
          /\ toLeave'[t] = {r \in RoomIds : rooms[r] # NoRoom}
          /\ leaving' = leaving \cup {c.socket} /\ state[c.socket] = "closed"
      BY <2>3 DEF OnDisconnect, StartLeaveAll, Begin, TypeOK, Disconnecting
    <3>2. \A x \in RoomObjects : members[x] # {} => x[1] \in toLeave'[t]
      BY <3>1 DEF GoneInv, RoomObjects
    <3> QED
      BY <3>1, <3>2 DEF GoneInv
  <2> QED
    BY <1>2, <2>1, <2>2, <2>3 DEF CallStep
<1>3. ASSUME NEW t \in Threads, Step(t)
      PROVE  GoneInv'
  <2>1. CASE Find(t)
    BY <2>1, NothingJoins DEF Find, TypeOK, Disconnecting
  <2>2. CASE Create(t)
    <3>1. /\ UNCHANGED <<members, state, history, call>>
          /\ \A u \in Threads : /\ pc'[u] = pc[u] \/ pc'[u] = "use"
                                /\ toLeave[u] \subseteq toLeave'[u]
      BY <2>2 DEF Create, TypeOK
    <3>2. \A x \in RoomObjects : members'[x] # {} => rooms'[x[1]] = x[2]
      BY <3>1, RoomsStay DEF GoneInv, RoomObjects
    <3> QED
      BY <3>1, <3>2 DEF GoneInv, Disconnecting
  <2>3. CASE Join(t)
    <3> DEFINE j == call[t].socket
    <3>1. /\ j \in Sockets /\ RoomCall(call[t]) /\ call[t].op = "join"
      BY <2>3 DEF Join, CallInv, RoomCall
    <3>2. /\ members' = [members EXCEPT ![room[t]] = @ \cup {j}]
          /\ strays' = strays \cup ({j} \cap leaving)
          /\ UNCHANGED <<rooms, state, call, toLeave, leaving, gone>>
          /\ pc' = [pc EXCEPT ![t] = "returned"]
      BY <2>3 DEF Join, AddTo
    <3>3. \A x \in Sets : members'[x] \subseteq members[x] \cup {j}
      BY <3>2 DEF TypeOK
    <3>4. \A s \in leaving \ strays' : s # j
      BY <3>2
    <3>5. \A u \in Threads, s \in Sockets : Disconnecting(u, s) =>
            (pc'[u] \in {"leaveAll", "remove"} =>
               pc[u] = pc'[u] /\ s \in leaving)
      BY <3>1, <3>2 DEF TypeOK, CallInv, Disconnecting
    <3>6. \A x \in RoomObjects : members'[x] # {} => rooms'[x[1]] = x[2]
      <4> SUFFICES ASSUME NEW x \in RoomObjects, members'[x] # {}
                   PROVE  rooms[x[1]] = x[2]
        BY <3>2
      <4>1. CASE room[t] = x
        <5>1. x # All
          BY DEF RoomObjects
        <5> QED
          BY <4>1, <5>1 DEF OneRoom, RoomObjects
      <4>2. CASE room[t] # x
        BY <3>2, <4>2 DEF GoneInv, TypeOK, Sets
      <4> QED
        BY <4>1, <4>2
    <3>7. \A s \in gone' \ strays', x \in Sets : s \notin members'[x]
      BY <3>2, <3>3, <3>4 DEF GoneInv, TypeOK
    <3>8. \A u \in Threads, s \in Sockets \ strays', x \in RoomObjects :
            Disconnecting(u, s)' /\ s \in members'[x] =>
              /\ pc'[u] = "leaveAll" => x[1] \in toLeave'[u]
              /\ pc'[u] # "remove"
      BY <3>2, <3>3, <3>4, <3>5 DEF GoneInv, Disconnecting, Sets
    <3> QED
      BY <3>2, <3>6, <3>7, <3>8 DEF GoneInv
  <2>4. CASE Leave(t)
    BY <2>4, NothingJoins DEF Leave, RemoveFrom, TypeOK, Disconnecting
  <2>5. CASE RoomsLeft(t)
    <3>1. /\ UNCHANGED <<members, rooms, state, call, toLeave, history>>
          /\ \A u \in Threads \ {t} : pc'[u] = pc[u]
          /\ pc[t] = "leaveAll" /\ toLeave[t] = {}
      BY <2>5 DEF RoomsLeft, TypeOK
    <3> QED
      BY <3>1 DEF GoneInv, Disconnecting
  <2>6. CASE Remove(t)
    <3> DEFINE j == call[t].socket
    <3>1. j \in Sockets /\ Disconnecting(t, j) /\ pc[t] = "remove"
      BY <2>6 DEF Remove, CallInv, LeaveCall, Disconnecting
    <3>2. /\ members' = [members EXCEPT ![All] = @ \ {j}]
          /\ gone' = gone \cup {j}
          /\ pc' = [pc EXCEPT ![t] = "returned"]
          /\ UNCHANGED <<rooms, state, call, toLeave, leaving, strays>>
      BY <2>6 DEF Remove, RemoveFrom
    <3>3. \A x \in Sets : members'[x] \subseteq members[x]
      BY <3>2 DEF TypeOK
    <3>4. j \notin strays => \A x \in Sets : j \notin members'[x]
      BY <3>1, <3>2 DEF TypeOK, GoneInv, Sets
    <3>5. \A x \in RoomObjects : members'[x] # {} => rooms'[x[1]] = x[2]
      BY <3>2, <3>3 DEF GoneInv, Sets
    <3>6. \A s \in gone' \ strays', x \in Sets : s \notin members'[x]
      BY <3>2, <3>3, <3>4 DEF GoneInv
    <3>7. \A u \in Threads : pc'[u] = pc[u] \/ pc'[u] = "returned"
      BY <3>2 DEF TypeOK
    <3>8. \A u \in Threads, s \in Sockets \ strays', x \in RoomObjects :
            Disconnecting(u, s)' /\ s \in members'[x] =>
              /\ pc'[u] = "leaveAll" => x[1] \in toLeave'[u]
              /\ pc'[u] # "remove"
      BY <3>2, <3>3, <3>7 DEF GoneInv, Disconnecting, Sets
    <3> QED
      BY <3>2, <3>5, <3>6, <3>8 DEF GoneInv
  <2>7. CASE StartLoop(t)
    BY <2>7, NothingJoins DEF StartLoop, TypeOK, Disconnecting
  <2>8. CASE EndLoop(t)
    BY <2>8, NothingJoins DEF EndLoop, TypeOK, Disconnecting
  <2>9. CASE Return(t)
    BY <2>9, NothingJoins DEF Return, TypeOK, Disconnecting, NoCall
  <2> QED
    BY <1>3, <2>1, <2>2, <2>3, <2>4, <2>5, <2>6, <2>7, <2>8, <2>9 DEF Step
<1>4. ASSUME NEW t \in Threads, NEW r \in RoomIds, LeaveRoom(t, r)
      PROVE  GoneInv'
  <2> DEFINE j == call[t].socket
             o == <<r, rooms[r]>>
  <2>1. j \in Sockets /\ o \in RoomObjects
    BY <1>4 DEF LeaveRoom, CallInv, LeaveCall, TypeOK, RoomObjects
  <2>2. /\ members' = [members EXCEPT ![o] = @ \ {j}]
        /\ toLeave' = [toLeave EXCEPT ![t] = @ \ {r}]
        /\ UNCHANGED <<rooms, state, pc, call, history>>
    BY <1>4 DEF LeaveRoom, RemoveFrom
  <2>3. \A x \in Sets : members'[x] \subseteq members[x]
    BY <2>2 DEF TypeOK
  <2>4. j \notin members'[o]
    BY <2>1, <2>2 DEF TypeOK, Sets
  <2>5. \A x \in RoomObjects : members'[x] # {} => rooms'[x[1]] = x[2]
    BY <2>2, <2>3 DEF GoneInv, Sets
  <2>6. \A x \in RoomObjects : x[1] = r /\ members'[x] # {} => x = o
    BY <2>2, <2>5 DEF RoomObjects
  <2>7. \A u \in Threads, s \in Sockets \ strays, x \in RoomObjects :
          Disconnecting(u, s) /\ s \in members'[x] =>
            /\ pc[u] = "leaveAll" => x[1] \in toLeave'[u]
            /\ pc[u] # "remove"
    <3> SUFFICES ASSUME NEW u \in Threads, NEW s \in Sockets \ strays,
                        NEW x \in RoomObjects,
                        Disconnecting(u, s), s \in members'[x]
                 PROVE  /\ pc[u] = "leaveAll" => x[1] \in toLeave'[u]
                        /\ pc[u] # "remove"
      OBVIOUS
    <3>1. /\ pc[u] = "leaveAll" => x[1] \in toLeave[u]
          /\ pc[u] # "remove"
      BY <2>3 DEF GoneInv, Sets
    <3>2. u = t => x[1] # r
      BY <2>4, <2>6 DEF Disconnecting
    <3> QED
      BY <2>2, <3>1, <3>2 DEF TypeOK
  <2> QED
    BY <2>2, <2>3, <2>5, <2>7 DEF GoneInv, Disconnecting
<1>5. ASSUME NEW t \in Threads, NEW s \in Sockets, LoopStep(t, s)
      PROVE  GoneInv'
  BY <1>5, NothingJoins
     DEF LoopStep, SkipSender, Emit, EmitClosed, EmitFails, EmitNull, Visit,
         CatchOrThrow, TypeOK, Disconnecting
<1>6. CASE UNCHANGED vars
  BY <1>6, NothingJoins DEF vars, Disconnecting
<1> QED
  BY <1>1, <1>2, <1>3, <1>4, <1>5, <1>6 DEF Next

(***************************************************************************)
(* A disconnected socket stays in no room and not in the namespace, unless *)
(* it joined a room while or after it was taken out.                       *)
(***************************************************************************)
THEOREM GoneForGood == Spec => []DisconnectedIsGone
<1>1. Init => GoneInv
  BY DEF Init, GoneInv, Disconnecting, NoCall, Sets
<1>2. GoneInv => DisconnectedIsGone
  BY DEF GoneInv, DisconnectedIsGone
<1> QED
  BY <1>1, <1>2, GoneInvInductive, TypeInvAlways, OneRoomForAll, PTL DEF Spec
=============================================================================
