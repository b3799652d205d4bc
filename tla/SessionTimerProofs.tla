-------------------------- MODULE SessionTimerProofs --------------------------
(***************************************************************************)
(* Theorems about SessionTimer, for any calls.                             *)
(***************************************************************************)
EXTENDS SessionTimer, TLAPS

USE TimerAssumption DEF Calls

-----------------------------------------------------------------------------
(***************************************************************************)
(* The variables keep their types.                                         *)
(***************************************************************************)
THEOREM TypeCorrect == Spec => []TypeOK
<1>1. Init => TypeOK
  BY DEF Init, TypeOK
<1>2. TypeOK /\ [Next]_vars => TypeOK'
  <2> SUFFICES ASSUME TypeOK, [Next]_vars
               PROVE  TypeOK'
    OBVIOUS
  <2>1. CASE SetTimeout
    BY <2>1 DEF TypeOK, SetTimeout, history
  <2>2. ASSUME NEW c \in Calls, Call(c)
        PROVE  TypeOK'
    BY <2>2 DEF TypeOK, Call, Goto, fields
  <2>3. ASSUME NEW c \in Calls, CallStep(c)
        PROVE  TypeOK'
    <3>1. CASE GetTask(c)
      BY <3>1 DEF TypeOK, GetTask, Goto, fields, history
    <3>2. CASE Cancel(c)
      BY <3>2 DEF TypeOK, Cancel, Goto, fields, history
    <3>3. CASE SetNull(c)
      BY <3>3 DEF TypeOK, SetNull, Goto, history
    <3>4. CASE c \in Resets /\ Test(c)
      BY <3>4 DEF TypeOK, Test, Goto, fields, history
    <3>5. CASE c \in Resets /\ Schedule(c)
      BY <3>5 DEF TypeOK, Schedule, Goto, fields
    <3>6. CASE c \in Resets /\ SetTask(c)
      BY <3>6 DEF TypeOK, SetTask, Goto, history
    <3> QED
      BY <2>3, <3>1, <3>2, <3>3, <3>4, <3>5, <3>6 DEF CallStep
  <2>4. ASSUME NEW r \in Resets, ExecutorStep(r)
        PROVE  TypeOK'
    BY <2>4 DEF TypeOK, ExecutorStep, Fire, Ignore, SeeNotYet, TimeOut,
                TaskStep, history
  <2>5. CASE UNCHANGED vars
    BY <2>5 DEF TypeOK, vars, fields, history
  <2> QED
    BY <2>1, <2>2, <2>3, <2>4, <2>5 DEF Next
<1> QED
  BY <1>1, <1>2, PTL DEF Spec

-----------------------------------------------------------------------------
(***************************************************************************)
(* While calls do not overlap no pending task is forgotten.  Where the one *)
(* call under way is says which tasks may be pending.                      *)
(***************************************************************************)
Pending(r) == task[r] = "scheduled"

OneCall == \A c, d \in UnderWay : c = d

\* What may be pending when no call is under way or the one has just begun.
AtRest == \A r \in Resets : Pending(r) => timeoutTask = r

AtCall(c) ==
  /\ pc[c] = "get" => AtRest
  /\ pc[c] = "cancel" => seen[c] = timeoutTask /\ AtRest /\ seen[c] # NoTask
  /\ pc[c] \in {"null", "test", "schedule"} => \A r \in Resets : ~Pending(r)
  /\ pc[c] = "set" => \A r \in Resets : Pending(r) => r = c

OrphanInv ==
  ~overlapped =>
    /\ OneCall
    /\ UnderWay = {} => AtRest
    /\ \A c \in Calls : AtCall(c)

\* One step of the only call under way.
LEMMA CallKeepsOrphanInv ==
  ASSUME TypeOK, OrphanInv, ~overlapped', NEW c \in Calls, CallStep(c)
  PROVE  OrphanInv'
<1>1. ~overlapped /\ OneCall /\ \A d \in Calls : AtCall(d)
  BY DEF OrphanInv, CallStep, GetTask, Cancel, SetNull, Test, Schedule,
         SetTask, history
<1>2. c \in UnderWay /\ \A d \in UnderWay : d = c
  BY <1>1 DEF OneCall, UnderWay, CallStep, GetTask, Cancel, SetNull, Test,
              Schedule, SetTask
<1>3. \A d \in Calls : d # c => pc[d] \in {"uncalled", "returned"}
  BY <1>2 DEF UnderWay
<1>4. \A d \in Calls : d # c => pc'[d] = pc[d]
  BY DEF TypeOK, CallStep, GetTask, Cancel, SetNull, Test, Schedule, SetTask,
         Goto
<1>5. OneCall'
  BY <1>3, <1>4 DEF OneCall, UnderWay
<1>6. \A d \in Calls : d # c => AtCall(d)'
  BY <1>3, <1>4 DEF AtCall
<1>7. AtCall(c)' /\ (pc'[c] = "returned" => AtRest')
  <2>1. CASE GetTask(c)
    BY <1>1, <2>1 DEF GetTask, Goto, AtCall, AtRest, Pending, TypeOK, fields
  <2>2. CASE Cancel(c)
    BY <1>1, <2>2 DEF Cancel, Goto, AtCall, AtRest, Pending, TypeOK, fields
  <2>3. CASE SetNull(c)
    BY <1>1, <2>3 DEF SetNull, Goto, AtCall, AtRest, Pending, TypeOK
  <2>4. CASE c \in Resets /\ Test(c)
    BY <1>1, <2>4 DEF Test, Goto, AtCall, AtRest, Pending, TypeOK, fields
  <2>5. CASE c \in Resets /\ Schedule(c)
    BY <1>1, <2>5 DEF Schedule, Goto, AtCall, AtRest, Pending, TypeOK, fields
  <2>6. CASE c \in Resets /\ SetTask(c)
    BY <1>1, <2>6 DEF SetTask, Goto, AtCall, AtRest, Pending, TypeOK
  <2> QED
    BY <2>1, <2>2, <2>3, <2>4, <2>5, <2>6 DEF CallStep
<1>8. UnderWay' = {} => AtRest'
  <2>1. pc'[c] # "uncalled"
    BY DEF TypeOK, CallStep, GetTask, Cancel, SetNull, Test, Schedule,
           SetTask, Goto
  <2> QED
    BY <1>7, <2>1 DEF UnderWay
<1> QED
  BY <1>5, <1>6, <1>7, <1>8 DEF OrphanInv

\* A task that leaves "scheduled" takes nothing away from the invariant.
LEMMA ExecutorKeepsOrphanInv ==
  ASSUME TypeOK, OrphanInv, NEW r \in Resets, ExecutorStep(r)
  PROVE  OrphanInv'
<1>1. UNCHANGED <<timeoutTask, pc, seen, overlapped>>
  BY DEF ExecutorStep, Fire, Ignore, SeeNotYet, TimeOut, TaskStep, history
<1>2. \A s \in Resets : Pending(s)' => Pending(s)
  BY DEF TypeOK, Pending, ExecutorStep, Fire, Ignore, SeeNotYet, TimeOut,
         TaskStep
<1>3. AtRest => AtRest'
  BY <1>1, <1>2 DEF AtRest
<1>4. \A c \in Calls : AtCall(c) => AtCall(c)'
  BY <1>1, <1>2, <1>3 DEF AtCall
<1> QED
  BY <1>1, <1>3, <1>4 DEF OrphanInv, OneCall, UnderWay

(***************************************************************************)
(* resetTimeout() leaves no orphan as long as calls do not overlap: the    *)
(* next call can cancel every pending task.                                *)
(***************************************************************************)
THEOREM NoOrphanInTurn == Spec => []NoOrphan
<1>1. Init => OrphanInv
  BY DEF Init, OrphanInv, OneCall, UnderWay, AtRest, AtCall, Pending
<1>2. TypeOK /\ OrphanInv /\ [Next]_vars => OrphanInv'
  <2> SUFFICES ASSUME TypeOK, OrphanInv, [Next]_vars, ~overlapped'
               PROVE  OrphanInv'
    BY DEF OrphanInv
  <2>1. CASE SetTimeout
    BY <2>1 DEF SetTimeout, OrphanInv, OneCall, UnderWay, AtRest, AtCall,
                Pending, history
  <2>2. ASSUME NEW c \in Calls, Call(c)
        PROVE  OrphanInv'
    <3>1. ~overlapped /\ UnderWay = {} /\ AtRest
      BY <2>2 DEF Call, OrphanInv
    <3>2. \A d \in Calls : pc'[d] = IF d = c THEN "get" ELSE pc[d]
      BY <2>2 DEF Call, Goto, TypeOK
    <3>3. \A d \in Calls : d # c => pc[d] \in {"uncalled", "returned"}
      BY <3>1 DEF UnderWay
    <3>4. AtRest'
      BY <2>2, <3>1 DEF Call, AtRest, Pending, fields
    <3> QED
      BY <3>2, <3>3, <3>4 DEF OrphanInv, OneCall, UnderWay, AtCall
  <2>3. ASSUME NEW c \in Calls, CallStep(c)
        PROVE  OrphanInv'
    BY <2>3, CallKeepsOrphanInv
  <2>4. ASSUME NEW r \in Resets, ExecutorStep(r)
        PROVE  OrphanInv'
    BY <2>4, ExecutorKeepsOrphanInv
  <2>5. CASE UNCHANGED vars
    BY <2>5 DEF vars, fields, history, OrphanInv, OneCall, UnderWay, AtRest,
                AtCall, Pending
  <2> QED
    BY <2>1, <2>2, <2>3, <2>4, <2>5 DEF Next
<1>3. TypeOK /\ OrphanInv => NoOrphan
  <2> SUFFICES ASSUME TypeOK, OrphanInv, ~overlapped,
                      NEW r \in Resets, task[r] = "scheduled"
               PROVE  \/ timeoutTask = r
                      \/ pc[r] = "set"
                      \/ \E c \in Calls : pc[c] = "cancel" /\ seen[c] = r
    BY DEF NoOrphan
  <2>1. CASE UnderWay = {}
    BY <2>1 DEF OrphanInv, AtRest, Pending
  <2>2. ASSUME NEW c \in UnderWay
        PROVE  timeoutTask = r \/ pc[r] = "set"
    BY <2>2 DEF OrphanInv, UnderWay, AtCall, AtRest, Pending, TypeOK
  <2> QED
    BY <2>1, <2>2
<1> QED
  BY <1>1, <1>2, <1>3, TypeCorrect, PTL DEF Spec

-----------------------------------------------------------------------------
(***************************************************************************)
(* The task scheduled last survives.  If it is cancelled, the call that    *)
(* did so belongs to a reset that has not come to schedule its own task.   *)
(***************************************************************************)
Replacing ==
  \E c \in Resets : pc[c] \in {"null", "test", "schedule"}

Armed == \A c \in Resets : pc[c] = "schedule" => timeout

LatestInv ==
  latest # NoTask =>
    /\ timeout
    /\ task[latest] = "cancelled" => Closing \/ timedOut \/ Replacing

LEMMA ArmedAlways == Spec => []Armed
<1>1. Init => Armed
  BY DEF Init, Armed
<1>2. TypeOK /\ Armed /\ [Next]_vars => Armed'
  BY DEF TypeOK, Armed, Next, vars, fields, history, SetTimeout, Call, Goto,
         CallStep, GetTask, Cancel, SetNull, Test, Schedule, SetTask,
         ExecutorStep, Fire, Ignore, SeeNotYet, TimeOut, TaskStep
<1> QED
  BY <1>1, <1>2, TypeCorrect, PTL DEF Spec

(***************************************************************************)
(* However many calls of resetTimeout() overlap, the session keeps a task  *)
(* that will time it out, unless it is closed or has timed out.            *)
(***************************************************************************)
THEOREM OneTaskSurvives == Spec => []LatestSurvives
<1>1. Init => LatestInv
  BY DEF Init, LatestInv
<1>2. TypeOK /\ Armed /\ LatestInv /\ [Next]_vars => LatestInv'
  <2> SUFFICES ASSUME TypeOK, Armed, LatestInv, [Next]_vars
               PROVE  LatestInv'
    OBVIOUS
  <2>1. CASE SetTimeout
    BY <2>1 DEF SetTimeout, LatestInv, Closing, Replacing, history
  <2>2. ASSUME NEW c \in Calls, Call(c)
        PROVE  LatestInv'
    <3>1. /\ UNCHANGED <<timeout, timedOut, task, latest>>
          /\ Closing => Closing'
          /\ Replacing => Replacing'
      BY <2>2 DEF Call, Goto, TypeOK, fields, Closing, Replacing
    <3> QED
      BY <3>1 DEF LatestInv
  <2>3. ASSUME NEW c \in Calls, CallStep(c)
        PROVE  LatestInv'
    <3>1. Closing => Closing'
      BY <2>3 DEF CallStep, GetTask, Cancel, SetNull, Test, Schedule,
                  SetTask, Goto, TypeOK, Closing
    <3>2. CASE GetTask(c)
      BY <3>1, <3>2 DEF GetTask, Goto, TypeOK, fields, history, LatestInv,
                        Replacing
    <3>3. CASE Cancel(c)
      <4>1. c \in Resets => Replacing'
        BY <3>3 DEF Cancel, Goto, TypeOK, Replacing
      <4>2. c \in Clears => Closing'
        BY <3>3 DEF Cancel, Goto, TypeOK, Closing
      <4> QED
        BY <3>3, <4>1, <4>2 DEF Cancel, fields, history, LatestInv
    <3>4. CASE SetNull(c)
      <4>1. Replacing => Replacing' \/ Closing'
        BY <3>4 DEF SetNull, Goto, TypeOK, Replacing, Closing
      <4> QED
        BY <3>1, <3>4, <4>1 DEF SetNull, history, LatestInv
    <3>5. CASE c \in Resets /\ Test(c)
      <4>1. CASE timedOut \/ ~timeout
        BY <3>5, <4>1 DEF Test, fields, history, LatestInv
      <4>2. CASE ~(timedOut \/ ~timeout)
        <5>1. Replacing'
          BY <3>5, <4>2 DEF Test, Goto, TypeOK, Replacing
        <5> QED
          BY <3>5, <4>2, <5>1 DEF Test, fields, history, LatestInv
      <4> QED
        BY <4>1, <4>2
    <3>6. CASE c \in Resets /\ Schedule(c)
      BY <3>6 DEF Armed, Schedule, fields, TypeOK, LatestInv
    <3>7. CASE c \in Resets /\ SetTask(c)
      <4>1. Replacing => Replacing'
        BY <3>7 DEF SetTask, Goto, TypeOK, Replacing
      <4> QED
        BY <3>1, <3>7, <4>1 DEF SetTask, history, LatestInv
    <3> QED
      BY <2>3, <3>2, <3>3, <3>4, <3>5, <3>6, <3>7 DEF CallStep
  <2>4. ASSUME NEW r \in Resets, ExecutorStep(r)
        PROVE  LatestInv'
    <3>1. /\ UNCHANGED <<timeout, pc, latest>>
          /\ timedOut => timedOut'
          /\ \A s \in Resets : task'[s] = "cancelled" => task[s] = "cancelled"
      BY <2>4 DEF ExecutorStep, Fire, Ignore, SeeNotYet, TimeOut, TaskStep,
                  TypeOK, history
    <3> QED
      BY <3>1 DEF LatestInv, Closing, Replacing, TypeOK
  <2>5. CASE UNCHANGED vars
    BY <2>5 DEF vars, fields, history, LatestInv, Closing, Replacing
  <2> QED
    BY <2>1, <2>2, <2>3, <2>4, <2>5 DEF Next
<1>3. LatestInv => LatestSurvives
  BY DEF LatestInv, LatestSurvives, Replacing, UnderWay
<1> QED
  BY <1>1, <1>2, <1>3, TypeCorrect, ArmedAlways, PTL DEF Spec
=============================================================================
