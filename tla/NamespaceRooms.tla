---------------------------- MODULE NamespaceRooms ----------------------------
(***************************************************************************)
(* One namespace with its rooms: Namespace, Room and the part of Socket    *)
(* that uses them.                                                         *)
(*                                                                         *)
(* The sockets of the namespace and of a room, and the rooms, are kept in  *)
(* ConcurrentHashMaps.  Threads look rooms up and create them, let sockets *)
(* join and leave, emit to all members and take a closed socket out, while *)
(* sessions open, break and close.  A loop over a concurrent set visits    *)
(* what stays in the set from beginning to end, and may or may not visit   *)
(* what is added meanwhile.                                                *)
(*                                                                         *)
(* A Room object is named by its id and the thread that created it.        *)
(* Abstracted: events, acknowledgements, what a session does to get closed *)
(* (SessionLifecycle).                                                     *)
(***************************************************************************)
CONSTANTS
  Sockets,   \* sockets of the namespace, each of a session of its own
  Polling,   \* those whose connection is a polling one
  RoomIds,   \* names of rooms
  Threads,
  NoRoom,    \* null
  All        \* names the set of all sockets of the namespace

ASSUME RoomsAssumption ==
  /\ Polling \subseteq Sockets
  /\ NoRoom \notin Threads
  /\ All \notin RoomIds \cup RoomIds \X Threads

RoomObjects == RoomIds \X Threads
Sets        == {All} \cup RoomObjects

VARIABLES
  members,   \* Namespace.sockets and Room.sockets
  rooms,     \* Namespace.rooms: who created the room of that id
  state,     \* state of the session of each socket
  endpoint,  \* its WebSocket endpoint
  pc,        \* where each thread is
  call,      \* which method it runs
  room,      \* the set of sockets that it works on
  toVisit,   \* sockets that its loop in emit or broadcast has still to visit
  toLeave,   \* rooms that its loop in leaveAll has still to visit
  owed,      \* history: sockets that its emit has to reach
  leaving,   \* history: sockets whose onDisconnect has begun
  gone,      \* history: those whose onDisconnect has returned
  strays     \* history: sockets that joined a room while or after leaving

sessions == <<state, endpoint>>
loop     == <<toVisit, toLeave>>
thread   == <<pc, call, room>>
history  == <<leaving, gone, strays>>
vars     == <<members, rooms, sessions, thread, loop, owed, history>>

Calls ==
  [op : {"join", "leave", "broadcast"}, socket : Sockets, id : RoomIds]
    \cup [op : {"leaveAll", "disconnect"}, socket : Sockets]
    \cup [op : {"emit"}, id : RoomIds \cup {All}]

NoCall == [op |-> "none"]

TypeOK ==
  /\ members \in [Sets -> SUBSET Sockets]
  /\ rooms \in [RoomIds -> Threads \cup {NoRoom}]
  /\ state \in [Sockets -> {"none", "connecting", "connected", "closed"}]
  /\ endpoint \in [Sockets -> {"open", "broken", "null"}]
  /\ pc \in [Threads -> {"idle", "find", "create", "use", "leaveAll", "remove",
                         "emit", "returned", "thrown", "npe"}]
  /\ call \in [Threads -> Calls \cup {NoCall}]
  /\ room \in [Threads -> Sets]
  /\ toVisit \in [Threads -> SUBSET Sockets]
  /\ toLeave \in [Threads -> SUBSET RoomIds]
  /\ owed \in [Threads -> SUBSET Sockets]
  /\ leaving \subseteq Sockets /\ gone \subseteq leaving
  /\ strays \subseteq leaving

Init ==
  /\ members = [x \in Sets |-> {}]
  /\ rooms = [r \in RoomIds |-> NoRoom]
  /\ state = [s \in Sockets |-> "none"]
  /\ endpoint = [s \in Sockets |-> "open"]
  /\ pc = [t \in Threads |-> "idle"]
  /\ call = [t \in Threads |-> NoCall]
  /\ room = [t \in Threads |-> All]
  /\ toVisit = [t \in Threads |-> {}]
  /\ toLeave = [t \in Threads |-> {}]
  /\ owed = [t \in Threads |-> {}]
  /\ leaving = {} /\ gone = {} /\ strays = {}

-----------------------------------------------------------------------------
Goto(t, l) == pc' = [pc EXCEPT ![t] = l]

\* The emits that loop over the set x.
LoopsOver(x) == {t \in Threads : pc[t] = "emit" /\ room[t] = x}

\* Some of the loops over x will come across the new member.
AddTo(x, s) ==
  /\ members' = [members EXCEPT ![x] = @ \cup {s}]
  /\ \E seers \in SUBSET LoopsOver(x) :
       toVisit' = [t \in Threads |->
         IF t \in seers /\ s \notin members[x] THEN toVisit[t] \cup {s}
                                               ELSE toVisit[t]]

RemoveFrom(x, s) ==
  LET Without(f) == [t \in Threads |->
        IF t \in LoopsOver(x) THEN f[t] \ {s} ELSE f[t]]
  IN /\ members' = [members EXCEPT ![x] = @ \ {s}]
     /\ toVisit' = Without(toVisit)
     /\ owed' = Without(owed)

\* Does an emit reach the socket?
Reachable(s) == state[s] = "connected" /\ (s \in Polling \/ endpoint[s] = "open")

-----------------------------------------------------------------------------
\* Sessions.

\* createSocket() of the session and of the namespace.
CreateSocket(s) ==
  /\ state[s] = "none"
  /\ state' = [state EXCEPT ![s] = "connecting"]
  /\ AddTo(All, s)
  /\ UNCHANGED <<rooms, endpoint, thread, toLeave, owed, history>>

Connected(s) ==
  /\ state[s] = "connecting"
  /\ state' = [state EXCEPT ![s] = "connected"]
  /\ UNCHANGED <<members, rooms, endpoint, thread, loop, owed, history>>

NoLongerOwed(s) == owed' = [t \in Threads |-> owed[t] \ {s}]

\* The session leaves CONNECTED: CLOSING or CLOSED.
Close(s) ==
  /\ state[s] \in {"connecting", "connected"}
  /\ state' = [state EXCEPT ![s] = "closed"]
  /\ NoLongerOwed(s)
  /\ UNCHANGED <<members, rooms, endpoint, thread, loop, history>>

\* The client is gone, or abort() disconnects the endpoint and drops it.
LoseEndpoint(s, e) ==
  /\ s \notin Polling /\ state[s] # "none" /\ endpoint[s] # "null"
  /\ endpoint' = [endpoint EXCEPT ![s] = e]
  /\ NoLongerOwed(s)
  /\ UNCHANGED <<members, rooms, state, thread, loop, history>>

-----------------------------------------------------------------------------
\* Namespace.room(): finds or creates a room.

Begin(t, c, l) ==
  /\ pc[t] = "idle"
  /\ call' = [call EXCEPT ![t] = c]
  /\ Goto(t, l)
  /\ UNCHANGED <<members, rooms, sessions, room, toVisit, owed>>

\* join, leave and broadcast of a socket, and emit to a room.
UseRoom(t, c) ==
  /\ \/ c.op \in {"join", "leave", "broadcast"} /\ state[c.socket] # "none"
     \/ c.op = "emit" /\ c.id # All
  /\ Begin(t, c, "find")
  /\ UNCHANGED <<toLeave, history>>

UseNamespace(t, c) ==
  /\ c.op = "emit" /\ c.id = All
  /\ Begin(t, c, "use")
  /\ UNCHANGED <<toLeave, history>>

Find(t) ==
  LET r == call[t].id
  IN /\ pc[t] = "find"
     /\ IF rooms[r] = NoRoom
        THEN Goto(t, "create") /\ UNCHANGED room
        ELSE Goto(t, "use") /\ room' = [room EXCEPT ![t] = <<r, rooms[r]>>]
     /\ UNCHANGED <<members, rooms, sessions, call, loop, owed, history>>

\* put() instead of putIfAbsent().
PutRoom(t, r) == rooms' = [rooms EXCEPT ![r] = t]

PutIfAbsent(t, r) ==
  rooms' = IF rooms[r] = NoRoom THEN [rooms EXCEPT ![r] = t] ELSE rooms

OwnOrPrevious(t, r) == IF rooms[r] = NoRoom THEN t ELSE rooms[r]

\* Some of the leaveAll() that are running will come across a new room.
Create(t) ==
  LET r == call[t].id
  IN /\ pc[t] = "create"
     /\ PutIfAbsent(t, r)
     /\ room' = [room EXCEPT ![t] = <<r, OwnOrPrevious(t, r)>>]
     /\ \E seers \in SUBSET {u \in Threads : pc[u] = "leaveAll"} :
          toLeave' = [u \in Threads |->
            IF u \in seers /\ rooms[r] = NoRoom THEN toLeave[u] \cup {r}
                                                ELSE toLeave[u]]
     /\ Goto(t, "use")
     /\ UNCHANGED <<members, sessions, call, toVisit, owed, history>>

-----------------------------------------------------------------------------
\* What a socket does with the room.

Join(t) ==
  LET s == call[t].socket
  IN /\ pc[t] = "use" /\ call[t].op = "join"
     /\ AddTo(room[t], s)
     /\ strays' = strays \cup ({s} \cap leaving)
     /\ Goto(t, "returned")
     /\ UNCHANGED <<rooms, sessions, call, room, toLeave, owed, leaving, gone>>

Leave(t) ==
  /\ pc[t] = "use" /\ call[t].op = "leave"
  /\ RemoveFrom(room[t], call[t].socket)
  /\ Goto(t, "returned")
  /\ UNCHANGED <<rooms, sessions, call, room, toLeave, history>>

-----------------------------------------------------------------------------
\* leaveAll() of the application, and onDisconnect(), which begins with it.

StartLeaveAll(t, c) ==
  /\ Begin(t, c, "leaveAll")
  /\ toLeave' = [toLeave EXCEPT ![t] = {r \in RoomIds : rooms[r] # NoRoom}]

LeaveAll(t, c) ==
  /\ c.op = "leaveAll" /\ state[c.socket] # "none"
  /\ StartLeaveAll(t, c)
  /\ UNCHANGED history

OnDisconnect(t, c) ==
  /\ c.op = "disconnect" /\ state[c.socket] = "closed"
  /\ StartLeaveAll(t, c)
  /\ leaving' = leaving \cup {c.socket}
  /\ UNCHANGED <<gone, strays>>

\* A filter that keeps the rooms which do not contain the socket.
LeaveOthers(t, r) ==
  /\ pc[t] = "leaveAll" /\ r \in toLeave[t]
  /\ toLeave' = [toLeave EXCEPT ![t] = @ \ {r}]
  /\ UNCHANGED <<members, toVisit, owed, rooms, sessions, thread, history>>

\* contains() and leave() have the effect of one removal.
LeaveRoom(t, r) ==
  /\ pc[t] = "leaveAll" /\ r \in toLeave[t]
  /\ RemoveFrom(<<r, rooms[r]>>, call[t].socket)
  /\ toLeave' = [toLeave EXCEPT ![t] = @ \ {r}]
  /\ UNCHANGED <<rooms, sessions, thread, history>>

RoomsLeft(t) ==
  /\ pc[t] = "leaveAll" /\ toLeave[t] = {}
  /\ Goto(t, IF call[t].op = "disconnect" THEN "remove" ELSE "returned")
  /\ UNCHANGED <<members, rooms, sessions, call, room, loop, owed, history>>

\* The end of Namespace.onDisconnect().
Remove(t) ==
  LET s == call[t].socket
  IN /\ pc[t] = "remove"
     /\ RemoveFrom(All, s)
     /\ gone' = gone \cup {s}
     /\ Goto(t, "returned")
     /\ UNCHANGED <<rooms, sessions, call, room, toLeave, leaving, strays>>

-----------------------------------------------------------------------------
\* emit() of the namespace and of a room, and broadcast() of a room.

\* A broadcast leaves its sender out.
Spared(t) == IF call[t].op = "broadcast" THEN {call[t].socket} ELSE {}

StartLoop(t) ==
  /\ pc[t] = "use" /\ call[t].op \in {"emit", "broadcast"}
  /\ toVisit' = [toVisit EXCEPT ![t] = members[room[t]]]
  /\ owed' = [owed EXCEPT ![t] =
                {s \in members[room[t]] : Reachable(s)} \ Spared(t)]
  /\ Goto(t, "emit")
  /\ UNCHANGED <<members, rooms, sessions, call, room, toLeave, history>>

Visit(t, s) ==
  /\ pc[t] = "emit" /\ s \in toVisit[t]
  /\ toVisit' = [toVisit EXCEPT ![t] = @ \ {s}]
  /\ UNCHANGED <<members, rooms, state, call, room, toLeave, history>>

SkipSender(t, s) ==
  /\ Visit(t, s)
  /\ s \in Spared(t)
  /\ UNCHANGED <<pc, endpoint, owed>>

Emit(t, s) ==
  /\ Visit(t, s)
  /\ s \notin Spared(t)
  /\ Reachable(s)
  /\ owed' = [owed EXCEPT ![t] = @ \ {s}]
  /\ UNCHANGED <<pc, endpoint>>

\* emit() without the catch of SocketIOException.
ThrowAlways(t) == Goto(t, "thrown")

\* emit() logs a SocketIOException and goes on, broadcast() throws it.
CatchOrThrow(t) ==
  IF call[t].op = "broadcast" THEN Goto(t, "thrown") ELSE UNCHANGED pc

\* The session is not CONNECTED, or the endpoint is not open.
EmitClosed(t, s) ==
  /\ Visit(t, s)
  /\ s \notin Spared(t)
  /\ ~Reachable(s) /\ (state[s] = "connected" => endpoint[s] = "broken")
  /\ CatchOrThrow(t)
  /\ UNCHANGED <<endpoint, owed>>

\* The write fails: the endpoint is disconnected.
EmitFails(t, s) ==
  /\ Visit(t, s)
  /\ s \notin Spared(t) \cup Polling
  /\ Reachable(s)
  /\ endpoint' = [endpoint EXCEPT ![s] = "broken"]
  /\ NoLongerOwed(s)
  /\ CatchOrThrow(t)

\* The endpoint is null after abort(): nobody catches the
\* NullPointerException, and the rest of the members get nothing.
EmitNull(t, s) ==
  /\ Visit(t, s)
  /\ s \notin Spared(t)
  /\ state[s] = "connected" /\ endpoint[s] = "null"
  /\ Goto(t, "npe")
  /\ UNCHANGED <<endpoint, owed>>

EndLoop(t) ==
  /\ pc[t] = "emit" /\ toVisit[t] = {}
  /\ Goto(t, "returned")
  /\ UNCHANGED <<members, rooms, sessions, call, room, loop, owed, history>>

Return(t) ==
  /\ pc[t] \in {"returned", "thrown", "npe"}
  /\ Goto(t, "idle")
  /\ call' = [call EXCEPT ![t] = NoCall]
  /\ room' = [room EXCEPT ![t] = All]
  /\ toVisit' = [toVisit EXCEPT ![t] = {}]
  /\ owed' = [owed EXCEPT ![t] = {}]
  /\ UNCHANGED <<members, rooms, sessions, toLeave, history>>

-----------------------------------------------------------------------------
SessionStep(s) ==
  \/ CreateSocket(s) \/ Connected(s) \/ Close(s)
  \/ \E e \in {"broken", "null"} : LoseEndpoint(s, e)

CallStep(t, c) ==
  UseRoom(t, c) \/ UseNamespace(t, c) \/ LeaveAll(t, c) \/ OnDisconnect(t, c)

LoopStep(t, s) ==
  SkipSender(t, s) \/ Emit(t, s) \/ EmitClosed(t, s) \/ EmitFails(t, s)
    \/ EmitNull(t, s)

Step(t) ==
  \/ Find(t) \/ Create(t) \/ Join(t) \/ Leave(t)
  \/ RoomsLeft(t) \/ Remove(t) \/ StartLoop(t) \/ EndLoop(t) \/ Return(t)

Next ==
  \/ \E s \in Sockets : SessionStep(s)
  \/ \E t \in Threads, c \in Calls : CallStep(t, c)
  \/ \E t \in Threads : Step(t)
  \/ \E t \in Threads, r \in RoomIds : LeaveRoom(t, r)
  \/ \E t \in Threads, s \in Sockets : LoopStep(t, s)

Spec == Init /\ [][Next]_vars

-----------------------------------------------------------------------------
\* Properties.

\* An emit that returns, or throws what it promises to log, has reached every
\* socket that was a member and reachable from its beginning to its end.
EmitReachesAll ==
  \A t \in Threads :
    \/ pc[t] = "returned"
    \/ pc[t] = "thrown" /\ call[t].op = "emit"
    => owed[t] = {}

\* Whoever calls room() works on the room that everybody else finds.
OneRoom ==
  \A t \in Threads : room[t] # All =>
    \E r \in RoomIds : rooms[r] # NoRoom /\ room[t] = <<r, rooms[r]>>

\* A socket whose onDisconnect has returned is in no room and not in the
\* namespace, whatever ran beside it, unless it joined a room meanwhile: the
\* listeners of the application that are called next do not meet it.
DisconnectedIsGone ==
  \A s \in gone \ strays, x \in Sets : s \notin members[x]
=============================================================================
