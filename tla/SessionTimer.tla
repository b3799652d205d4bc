----------------------------- MODULE SessionTimer -----------------------------
(***************************************************************************)
(* The timeout of a session: Session.resetTimeout, clearTimeout and        *)
(* onTimeout.                                                              *)
(*                                                                         *)
(* Every packet resets the timeout: the task in timeoutTask is cancelled   *)
(* and a new one is scheduled.  Closing clears it.  Packets arrive on      *)
(* several threads (POST requests, WebSocket callbacks), tasks run on a    *)
(* pool of threads, and no step is synchronised with another.              *)
(*                                                                         *)
(* A call of resetTimeout is named by an element of Resets, and so is the  *)
(* task it schedules; each call is made at most once.  Abstracted: delays  *)
(* (a scheduled task may run at any time) and what closing does.           *)
(***************************************************************************)
EXTENDS Naturals

CONSTANTS
  Resets,   \* calls of resetTimeout(), one for each packet
  Clears,   \* calls of clearTimeout() by abort() and onDisconnect()
  NoTask    \* null

ASSUME TimerAssumption ==
  /\ Resets \cap Clears = {}
  /\ NoTask \notin Resets

Calls == Resets \cup Clears

VARIABLES
  timeout,      \* was Session.timeout set to something else than 0?
  timeoutTask,  \* Session.timeoutTask
  timedOut,     \* Session.timedOut
  pc,           \* where each call is
  seen,         \* the task that clearTimeout() has read
  task,         \* state of the task that a resetTimeout() scheduled
  latest,       \* history: the task that was scheduled last
  overlapped    \* history: has a call begun while another was under way?

fields  == <<timeout, timeoutTask, timedOut>>
history == <<latest, overlapped>>
vars    == <<fields, pc, seen, task, history>>

TypeOK ==
  /\ timeout \in BOOLEAN
  /\ timeoutTask \in Resets \cup {NoTask}
  /\ timedOut \in BOOLEAN
  /\ pc \in [Calls -> {"uncalled", "get", "cancel", "null", "test",
                       "schedule", "set", "returned"}]
  /\ seen \in [Calls -> Resets \cup {NoTask}]
  /\ task \in [Resets -> {"none", "scheduled", "cancelled", "running",
                          "expired", "done"}]
  /\ latest \in Resets \cup {NoTask}
  /\ overlapped \in BOOLEAN

Init ==
  /\ timeout = FALSE
  /\ timeoutTask = NoTask
  /\ timedOut = FALSE
  /\ pc = [c \in Calls |-> "uncalled"]
  /\ seen = [c \in Calls |-> NoTask]
  /\ task = [r \in Resets |-> "none"]
  /\ latest = NoTask
  /\ overlapped = FALSE

-----------------------------------------------------------------------------
UnderWay == {c \in Calls : pc[c] \notin {"uncalled", "returned"}}

Goto(c, l) == pc' = [pc EXCEPT ![c] = l]

\* A polling connection is initialised: AbstractTransportConnection.init.
SetTimeout ==
  /\ timeout' = TRUE
  /\ UNCHANGED <<timeoutTask, timedOut, pc, seen, task, history>>

\* resetTimeout() or clearTimeout() is called; the former begins with the latter.
Call(c) ==
  /\ pc[c] = "uncalled"
  /\ Goto(c, "get")
  /\ overlapped' = (overlapped \/ UnderWay # {})
  /\ UNCHANGED <<fields, seen, task, latest>>

GetTask(c) ==
  /\ pc[c] = "get"
  /\ seen' = [seen EXCEPT ![c] = timeoutTask]
  /\ Goto(c, IF timeoutTask = NoTask THEN "null" ELSE "cancel")
  /\ UNCHANGED <<fields, task, history>>

\* clearTimeout() without the cancel.
NoCancel(c) ==
  /\ pc[c] = "cancel"
  /\ Goto(c, "null")
  /\ UNCHANGED <<fields, seen, task, history>>

\* cancel(false) does not stop a task that runs already.
Cancel(c) ==
  /\ pc[c] = "cancel"
  /\ task' = IF task[seen[c]] = "scheduled"
             THEN [task EXCEPT ![seen[c]] = "cancelled"] ELSE task
  /\ Goto(c, "null")
  /\ UNCHANGED <<fields, seen, history>>

SetNull(c) ==
  /\ pc[c] = "null"
  /\ timeoutTask' = NoTask
  /\ Goto(c, IF c \in Resets THEN "test" ELSE "returned")
  /\ UNCHANGED <<timeout, timedOut, seen, task, history>>

\* resetTimeout() that leaves a cancelled task in its place.
KeepTask(c) ==
  /\ pc[c] = "test"
  /\ Goto(c, IF timedOut \/ ~timeout \/ seen[c] # NoTask
             THEN "returned" ELSE "schedule")
  /\ UNCHANGED <<fields, seen, task, history>>

\* The rest of resetTimeout().
Test(c) ==
  /\ pc[c] = "test"
  /\ Goto(c, IF timedOut \/ ~timeout THEN "returned" ELSE "schedule")
  /\ UNCHANGED <<fields, seen, task, history>>

Schedule(c) ==
  /\ pc[c] = "schedule"
  /\ task' = [task EXCEPT ![c] = "scheduled"]
  /\ latest' = c
  /\ Goto(c, "set")
  /\ UNCHANGED <<fields, seen, overlapped>>

\* The reference is written after the task was scheduled.
SetTask(c) ==
  /\ pc[c] = "set"
  /\ timeoutTask' = c
  /\ Goto(c, "returned")
  /\ UNCHANGED <<timeout, timedOut, seen, task, history>>

-----------------------------------------------------------------------------
\* onTimeout() on a thread of the executor.

TaskStep(r, from, to) ==
  /\ task[r] = from
  /\ task' = [task EXCEPT ![r] = to]
  /\ UNCHANGED <<timeout, timeoutTask, pc, seen, history>>

Fire(r)      == TaskStep(r, "scheduled", "running") /\ UNCHANGED timedOut
Ignore(r)    == TaskStep(r, "running", "done") /\ timedOut /\ UNCHANGED timedOut
SeeNotYet(r) == TaskStep(r, "running", "expired") /\ ~timedOut /\ UNCHANGED timedOut

\* onTimeout() that forgets to set the flag.
Unmarked(r) == TaskStep(r, "expired", "done") /\ UNCHANGED timedOut

\* timedOut is set, and the session's connection is closed.
TimeOut(r)   == TaskStep(r, "expired", "done") /\ timedOut' = TRUE

-----------------------------------------------------------------------------
CallStep(c) ==
  \/ GetTask(c) \/ Cancel(c) \/ SetNull(c)
  \/ c \in Resets /\ (Test(c) \/ Schedule(c) \/ SetTask(c))

ExecutorStep(r) == Fire(r) \/ Ignore(r) \/ SeeNotYet(r) \/ TimeOut(r)

Next ==
  \/ SetTimeout
  \/ \E c \in Calls : Call(c) \/ CallStep(c)
  \/ \E r \in Resets : ExecutorStep(r)

Spec == Init /\ [][Next]_vars

\* A call that began goes on, and the executor runs what is due.
FairSpec ==
  /\ Spec
  /\ \A c \in Calls : WF_vars(CallStep(c))
  /\ \A r \in Resets : WF_vars(ExecutorStep(r))

-----------------------------------------------------------------------------
\* Properties.

\* While the calls come one after the other, every pending task can still be
\* cancelled by the next one: an active session is not timed out by a task
\* that was forgotten.
NoOrphan ==
  ~overlapped =>
    \A r \in Resets : task[r] = "scheduled" =>
      \/ timeoutTask = r
      \/ pc[r] = "set"
      \/ \E c \in Calls : pc[c] = "cancel" /\ seen[c] = r

\* However calls overlap, the task that was scheduled last survives them when
\* all have returned, unless the session was closed or has timed out.
Closing == \E c \in Clears : pc[c] # "uncalled"

LatestSurvives ==
  UnderWay = {} /\ ~Closing /\ ~timedOut /\ latest # NoTask
    => task[latest] # "cancelled"

\* A session with a timeout that gets a packet and then no more is timed out.
SilentSessionTimesOut ==
  \A r \in Resets : pc[r] = "schedule" ~> timedOut \/ Closing
=============================================================================
