----------------------- MODULE PollingConnectionProofs -----------------------
(***************************************************************************)
(* Theorems of PollingConnection, for any number of senders, GET requests  *)
(* and abort() calls:                                                      *)
(*   TypeCorrect       the variables keep their types;                     *)
(*   OneFateForEach    a packet taken from the queue has one fate;         *)
(*   LossNeedsAbort    without failing responses only abort() loses one;   *)
(*   PrefixForOneGet   a client with one GET at a time has got a prefix.   *)
(*                                                                         *)
(* HandInv says what a GET holds at each label; the three safety theorems  *)
(* are inductive together with it.                                         *)
(***************************************************************************)
EXTENDS PollingConnection, SequenceTheorems, TLAPS

USE DEF CheckDone, Poll, Write, Remove, Send, Abort

-----------------------------------------------------------------------------
(* What a GET holds: a packet in its hand only between taking and writing  *)
(* it, or when it leaves the loop because the connection is done; a buffer *)
(* only in the loop and after it.                                          *)
HandInv ==
  \A p \in Pollers :
    /\ hand[p] # 0 => pc[p] \in {"check", "flush"}
    /\ pc[p] = "check" => hand[p] # 0
    /\ pc[p] = "flush" /\ ~done => hand[p] = 0
    /\ buf[p] # {} => pc[p] \in {"check", "poll", "flush"}

(* The steps of senders, of abort() and of a GET before it takes a packet  *)
(* change nothing that a packet's fate depends on.                         *)
Outside == UNCHANGED <<taken, hand, buf, delivered, lost>>

-----------------------------------------------------------------------------
LEMMA Positive ==
  ASSUME TypeOK
  PROVE  /\ taken \in Nat /\ Len(added) \in Nat
         /\ \A x \in Packets : Append(added, x) \in Seq(Packets)
                              /\ Len(Append(added, x)) = Len(added) + 1
<1>1. added \in Seq(Packets) /\ taken \in 0 .. Len(added)
  BY DEF TypeOK
<1>2. Len(added) \in Nat
  BY <1>1, LenProperties
<1>3. \A x \in Packets : Append(added, x) \in Seq(Packets)
                        /\ Len(Append(added, x)) = Len(added) + 1
  BY <1>1, AppendProperties
<1> QED
  BY <1>1, <1>2, <1>3

(* The variables keep their types; in particular no GET takes a packet from *)
(* an empty queue.                                                          *)
THEOREM TypeCorrect == Spec => []TypeOK
<1>1. Init => TypeOK
  <2> SUFFICES ASSUME Init PROVE TypeOK
    OBVIOUS
  <2>1. added \in Seq(Packets) /\ Len(added) = 0
    BY EmptySeq DEF Init
  <2>2. taken \in 0 .. Len(added)
    BY <2>1 DEF Init
  <2>3. delivered \subseteq Nat /\ lost \subseteq Nat
    BY DEF Init
  <2>4. sent \in [Messages -> Nat] /\ hand \in [Pollers -> Nat] /\ buf \in [Pollers -> SUBSET Nat]
    BY DEF Init
  <2> QED
    BY <2>1, <2>2, <2>3, <2>4 DEF Init, TypeOK
<1>2. TypeOK /\ [Next]_vars => TypeOK'
  <2> SUFFICES ASSUME TypeOK, [Next]_vars PROVE TypeOK'
    OBVIOUS
  <2> USE PollingAssumption, Positive DEF TypeOK
  <2>1. ASSUME NEW m \in Messages, Send(m) PROVE TypeOK'
    BY <2>1 DEF Add, Packets, fates
  <2>2. CASE LeaveConnected
    BY <2>2 DEF LeaveConnected, queue, fates
  <2>3. ASSUME NEW a \in Aborters, SendError(a) PROVE TypeOK'
    BY <2>3 DEF SendError, Add, Packets, fates
  <2>4. ASSUME NEW a \in Aborters, Abort(a) PROVE TypeOK'
    BY <2>4 DEF queue, fates
  <2>5. ASSUME NEW a \in Aborters, AddNoop(a) PROVE TypeOK'
    BY <2>5 DEF AddNoop, Add, Packets, fates
  <2>6. ASSUME NEW p \in Pollers, Get(p) \/ Handle(p) PROVE TypeOK'
    BY <2>6 DEF Get, Handle, Goto, queue, fates
  <2>7. ASSUME NEW p \in Pollers, Take(p) \/ Poll(p) PROVE TypeOK'
    <3>1. /\ UNCHANGED <<open, done, added, sent, aborter, buf, delivered, lost, faults>>
          /\ taken' \in 0 .. Len(added)
          /\ hand' = hand \/ hand' = [hand EXCEPT ![p] = taken + 1]
          /\ pc' = [pc EXCEPT ![p] = "check"] \/ pc' = [pc EXCEPT ![p] = "flush"]
      BY <2>7 DEF Take, Goto, fates
    <3>2. taken + 1 \in Nat
      OBVIOUS
    <3>3. hand' \in [Pollers -> Nat]
      BY <3>1, <3>2
    <3>4. pc' \in [Pollers -> {"idle", "handle", "take", "check", "poll", "flush"}]
      BY <3>1
    <3> QED
      BY <3>1, <3>3, <3>4
  <2>8. ASSUME NEW p \in Pollers, CheckDone(p) PROVE TypeOK'
    <3>1. hand[p] \in Nat /\ buf[p] \in SUBSET Nat
      OBVIOUS
    <3>2. /\ UNCHANGED <<open, done, added, taken, sent, aborter, delivered, lost, faults>>
          /\ hand' = hand \/ hand' = [hand EXCEPT ![p] = 0]
          /\ buf' = buf \/ buf' = [buf EXCEPT ![p] = buf[p] \cup {hand[p]}]
          /\ pc' = [pc EXCEPT ![p] = "flush"] \/ pc' = [pc EXCEPT ![p] = "poll"]
      BY <2>8 DEF Goto, queue, fates
    <3>3. hand' \in [Pollers -> Nat]
      BY <3>2
    <3>4. buf' \in [Pollers -> SUBSET Nat]
      <4>1. buf[p] \cup {hand[p]} \in SUBSET Nat
        BY <3>1
      <4> QED
        BY <3>2, <4>1
    <3>5. pc' \in [Pollers -> {"idle", "handle", "take", "check", "poll", "flush"}]
      BY <3>2
    <3> QED
      BY <3>2, <3>3, <3>4, <3>5
  <2>9. ASSUME NEW p \in Pollers, Flush(p) \/ Fail(p) PROVE TypeOK'
    <3>1. Held(p) \subseteq Nat /\ buf[p] \subseteq Nat
      BY DEF Held
    <3>2. PICK arrived \in SUBSET buf[p] : Respond(p, arrived)
      BY <2>9 DEF Flush, Fail
    <3>3. delivered' \subseteq Nat /\ lost' \subseteq Nat
      BY <3>1, <3>2 DEF Respond
    <3>4. faults' \subseteq {"cut", "overlap"}
      BY <2>9 DEF Flush, Fail
    <3> QED
      BY <3>2, <3>3, <3>4 DEF Respond, Goto, queue
  <2>10. CASE UNCHANGED vars
    BY <2>10 DEF vars, queue, fates
  <2> QED
    BY <2>1, <2>2, <2>3, <2>4, <2>5, <2>6, <2>7, <2>8, <2>9, <2>10
    DEF Next, PollerStep
<1> QED
  BY <1>1, <1>2, PTL DEF Spec

-----------------------------------------------------------------------------
(* Every step leaves the fates alone and moves no GET past "handle", lets a *)
(* GET that passed handle() go on to take(), or is a step of one GET.       *)
LEMMA StepKinds ==
  ASSUME TypeOK, [Next]_vars
  PROVE  \/ Outside /\ UNCHANGED <<pc, faults>> /\ (done => done')
         \/ \E p \in Pollers : Outside /\ UNCHANGED done /\ (Get(p) \/ Handle(p))
         \/ \E p \in Pollers : Take(p) \/ CheckDone(p) \/ Poll(p) \/ Flush(p) \/ Fail(p)
<1>1. ASSUME NEW m \in Messages, Send(m) PROVE Outside /\ UNCHANGED <<pc, done, faults>>
  BY <1>1 DEF Add, Outside, fates
<1>2. CASE LeaveConnected
  BY <1>2 DEF LeaveConnected, Outside, queue, fates
<1>3. ASSUME NEW a \in Aborters, SendError(a) \/ AddNoop(a)
      PROVE  Outside /\ UNCHANGED <<pc, done, faults>>
  BY <1>3 DEF SendError, AddNoop, Add, Outside, fates
<1>4. ASSUME NEW a \in Aborters, Abort(a)
      PROVE  Outside /\ UNCHANGED <<pc, faults>> /\ done'
  BY <1>4 DEF Outside, queue, fates
<1>5. ASSUME NEW p \in Pollers, Get(p) \/ Handle(p) PROVE Outside /\ UNCHANGED done
  BY <1>5 DEF Get, Handle, Outside, queue, fates
<1>6. CASE UNCHANGED vars
  BY <1>6 DEF vars, Outside, queue, fates
<1> QED
  BY <1>1, <1>2, <1>3, <1>4, <1>5, <1>6 DEF Next, PollerStep, LeaveConnected, Outside, queue, fates

LEMMA HandStep ==
  ASSUME TypeOK, HandInv, [Next]_vars
  PROVE  HandInv'
<1> USE DEF TypeOK, HandInv
<1>1. CASE Outside /\ UNCHANGED <<pc, faults>> /\ (done => done')
  BY <1>1 DEF Outside
<1>2. ASSUME NEW p \in Pollers, Outside, UNCHANGED done, Get(p) \/ Handle(p)
      PROVE  HandInv'
  <2>1. /\ pc[p] \in {"idle", "handle"} /\ UNCHANGED <<hand, buf, done>>
        /\ \/ pc' = [pc EXCEPT ![p] = "handle"]
           \/ pc' = [pc EXCEPT ![p] = IF done THEN "idle" ELSE "take"]
    BY <1>2 DEF Outside, Get, Handle, Goto
  <2>2. pc'[p] \in {"idle", "handle", "take"} /\ \A q \in Pollers : q # p => pc'[q] = pc[q]
    BY <2>1
  <2> QED
    BY <2>1, <2>2
<1>3. ASSUME NEW p \in Pollers, Take(p) \/ Poll(p) PROVE HandInv'
  <2>1. /\ pc[p] \in {"take", "poll"} /\ UNCHANGED <<buf, done>>
        /\ \/ pc' = [pc EXCEPT ![p] = "check"] /\ hand' = [hand EXCEPT ![p] = taken + 1]
           \/ pc' = [pc EXCEPT ![p] = "flush"] /\ hand' = hand
    BY <1>3 DEF Take, Goto
  <2>2. taken + 1 # 0
    BY Positive
  <2> QED
    BY <2>1, <2>2
<1>4. ASSUME NEW p \in Pollers, CheckDone(p) PROVE HandInv'
  BY <1>4 DEF Goto
<1>5. ASSUME NEW p \in Pollers, Flush(p) \/ Fail(p) PROVE HandInv'
  BY <1>5 DEF Flush, Fail, Respond, Goto
<1> QED
  BY StepKinds, <1>1, <1>2, <1>3, <1>4, <1>5

LEMMA HandInvariant == Spec => []HandInv
<1>1. Init => HandInv
  BY DEF Init, HandInv
<1> QED
  BY <1>1, HandStep, TypeCorrect, PTL DEF Spec

-----------------------------------------------------------------------------
(* The packets a step hands on are the one it takes, those it writes into  *)
(* the response and those whose response ends; the others stay with their  *)
(* GET.                                                                    *)
LEMMA OneFateStep ==
  ASSUME TypeOK, HandInv, OneFate, [Next]_vars
  PROVE  OneFate'
<1>1. CASE Outside
  <2>1. UNCHANGED <<taken, hand, buf, delivered, lost>>
    BY <1>1 DEF Outside
  <2> QED
    BY <2>1 DEF OneFate, Held, Taken
<1>2. ASSUME NEW p \in Pollers, Take(p) \/ Poll(p) PROVE OneFate'
  <2>1. UNCHANGED <<buf, delivered, lost>>
    BY <1>2 DEF Take, fates
  <2>2. CASE UNCHANGED <<taken, hand>>
    BY <2>1, <2>2 DEF OneFate, Held, Taken
  <2>3. CASE taken' = taken + 1 /\ hand' = [hand EXCEPT ![p] = taken + 1]
    <3>1. hand[p] = 0 /\ hand \in [Pollers -> Nat] /\ taken \in Nat
      BY <1>2, Positive DEF HandInv, Take, TypeOK
    <3>2. /\ taken + 1 \notin Taken /\ taken + 1 # 0
          /\ Taken' = Taken \cup {taken + 1}
      BY <2>3, <3>1 DEF Taken
    <3>3. Held(p)' = Held(p) \cup {taken + 1}
      BY <2>1, <2>3, <3>1, <3>2 DEF Held
    <3>4. \A q \in Pollers : q # p => Held(q)' = Held(q)
      BY <2>1, <2>3, <3>1 DEF Held
    <3> QED
      BY <2>1, <3>2, <3>3, <3>4 DEF OneFate
  <2> QED
    BY <1>2, <2>2, <2>3 DEF Take
<1>3. ASSUME NEW p \in Pollers, CheckDone(p) PROVE OneFate'
  <2>1. hand[p] # 0 /\ hand \in [Pollers -> Nat] /\ buf \in [Pollers -> SUBSET Nat]
    BY <1>3 DEF HandInv, TypeOK
  <2>2. UNCHANGED <<taken, delivered, lost>>
    BY <1>3 DEF queue, fates
  <2>3. \A q \in Pollers : Held(q)' = Held(q)
    <3>1. CASE UNCHANGED <<hand, buf>>
      BY <3>1 DEF Held
    <3>2. CASE Write(p)
      BY <3>2, <2>1 DEF Held
    <3> QED
      BY <1>3, <3>1, <3>2
  <2> QED
    BY <2>2, <2>3 DEF OneFate, Taken
<1>4. ASSUME NEW p \in Pollers, NEW arrived \in SUBSET buf[p], Respond(p, arrived)
      PROVE  OneFate'
  <2>1. /\ UNCHANGED taken
        /\ delivered' = delivered \cup arrived
        /\ lost' = lost \cup (Held(p) \ arrived)
    BY <1>4 DEF Respond, queue
  <2>2. arrived \subseteq Held(p)
    BY DEF Held
  <2>3. Held(p)' = {}
    BY <1>4 DEF Respond, Held, TypeOK
  <2>4. \A q \in Pollers : q # p => Held(q)' = Held(q)
    BY <1>4 DEF Respond, Held, TypeOK
  <2>5. Taken' = Taken
    BY <2>1 DEF Taken
  <2>6. delivered' \cup lost' = delivered \cup lost \cup Held(p)
    BY <2>1, <2>2
  <2>7. delivered' \cap lost' = {}
    BY <2>1, <2>2 DEF OneFate
  <2>8. \A q, r \in Pollers : q # r => Held(q)' \cap Held(r)' = {}
    BY <2>3, <2>4 DEF OneFate
  <2>9. \A q \in Pollers : Held(q)' \subseteq Taken \ (delivered' \cup lost')
    BY <2>3, <2>4, <2>6 DEF OneFate
  <2>10. \A i \in Taken \ (delivered' \cup lost') : \E q \in Pollers : i \in Held(q)'
    BY <2>4, <2>6 DEF OneFate
  <2>11. delivered' \cup lost' \subseteq Taken
    BY <2>6 DEF OneFate
  <2> QED
    BY <2>5, <2>7, <2>8, <2>9, <2>10, <2>11 DEF OneFate
<1>5. ASSUME NEW p \in Pollers, Flush(p) \/ Fail(p) PROVE OneFate'
  BY <1>4, <1>5 DEF Flush, Fail
<1> QED
  BY StepKinds, <1>1, <1>2, <1>3, <1>5

(* A packet that was taken is held by one GET, delivered or lost.          *)
THEOREM OneFateForEach == Spec => []OneFate
<1>1. Init => OneFate
  BY DEF Init, OneFate, Held, Taken
<1> QED
  BY <1>1, OneFateStep, TypeCorrect, HandInvariant, PTL DEF Spec

-----------------------------------------------------------------------------
(* A GET that ends before abort() holds nothing that it did not write.     *)
LEMMA LossStep ==
  ASSUME TypeOK, HandInv, LostOnlyAfterAbort, [Next]_vars
  PROVE  LostOnlyAfterAbort'
<1> USE DEF LostOnlyAfterAbort
<1>1. CASE Outside /\ (done => done') /\ ("cut" \in faults => "cut" \in faults')
  BY <1>1 DEF Outside
<1>4. ASSUME NEW p \in Pollers, Get(p) \/ Handle(p) PROVE "cut" \in faults => "cut" \in faults'
  BY <1>4 DEF Get, Handle, fates
<1>2. ASSUME NEW p \in Pollers, Take(p) \/ Poll(p) \/ CheckDone(p)
      PROVE  LostOnlyAfterAbort'
  BY <1>2 DEF Take, fates
<1>3. ASSUME NEW p \in Pollers, Flush(p) \/ Fail(p) PROVE LostOnlyAfterAbort'
  BY <1>3 DEF Flush, Fail, Respond, Held, HandInv
<1> QED
  BY StepKinds, <1>1, <1>2, <1>3, <1>4

(* No packet is lost before abort() is called, unless a response fails.    *)
THEOREM LossNeedsAbort == Spec => []LostOnlyAfterAbort
<1>1. Init => LostOnlyAfterAbort
  BY DEF Init, LostOnlyAfterAbort
<1> QED
  BY <1>1, LossStep, TypeCorrect, HandInvariant, PTL DEF Spec

-----------------------------------------------------------------------------
(* As long as no two GETs overlap and no response fails, the GET that runs *)
(* holds the last packet that was taken, and once a packet was lost no GET *)
(* takes another.                                                          *)
PrefixInv ==
  /\ \A p, q \in Pollers : pc[p] # "idle" /\ pc[q] # "idle" => p = q
  /\ \A i \in delivered : 1 .. i \subseteq delivered
  /\ \A p \in Pollers : hand[p] # 0 => hand[p] = taken
  /\ lost # {} => done /\ \A p \in Pollers : pc[p] \in {"idle", "handle"}

LEMMA PrefixStep ==
  ASSUME TypeOK, HandInv, OneFate, faults' = {}, faults = {} => PrefixInv, [Next]_vars
  PROVE  PrefixInv'
<1> USE DEF TypeOK, PrefixInv
<1>0. faults = {}
  <2>1. faults \subseteq faults'
    <3>1. ASSUME NEW p \in Pollers, Take(p) \/ CheckDone(p) \/ Poll(p) \/ Flush(p) \/ Fail(p)
          PROVE  faults \subseteq faults'
      BY <3>1 DEF Take, Flush, Fail, fates
    <3>2. ASSUME NEW p \in Pollers, Get(p) \/ Handle(p) PROVE faults \subseteq faults'
      BY <3>2 DEF Get, Handle, fates
    <3> QED
      BY <3>1, <3>2, StepKinds
  <2> QED
    BY <2>1
<1> USE <1>0
<1>1. CASE Outside /\ UNCHANGED <<pc, faults>> /\ (done => done')
  BY <1>1 DEF Outside
<1>2. ASSUME NEW p \in Pollers, Outside, UNCHANGED done, Get(p) \/ Handle(p)
      PROVE  PrefixInv'
  <2>1. UNCHANGED <<taken, hand, buf, delivered, lost, done>>
    BY <1>2 DEF Outside
  <2>2. CASE Get(p)
    <3>1. \A q \in Pollers : pc[q] = "idle"
      BY <2>2 DEF Get
    <3>2. pc' = [pc EXCEPT ![p] = "handle"]
      BY <2>2 DEF Get, Goto
    <3> QED
      BY <2>1, <3>1, <3>2
  <2>3. CASE Handle(p)
    <3>1. pc[p] = "handle" /\ pc' = [pc EXCEPT ![p] = IF done THEN "idle" ELSE "take"]
      BY <2>3 DEF Handle, Goto
    <3> QED
      BY <2>1, <3>1
  <2> QED
    BY <1>2, <2>2, <2>3
<1>3. ASSUME NEW p \in Pollers, Take(p) \/ Poll(p) PROVE PrefixInv'
  <2>1. pc[p] \in {"take", "poll"} /\ lost = {} /\ UNCHANGED <<delivered, lost, done>>
    BY <1>3 DEF Take, fates
  <2>2. \A q \in Pollers : q # p => pc[q] = "idle" /\ hand[q] = 0
    BY <2>1 DEF HandInv
  <2>3. \/ UNCHANGED <<taken, hand>>
        \/ taken' = taken + 1 /\ hand' = [hand EXCEPT ![p] = taken + 1]
    BY <1>3 DEF Take
  <2>4. pc' = [pc EXCEPT ![p] = "check"] \/ pc' = [pc EXCEPT ![p] = "flush"]
    BY <1>3 DEF Take, Goto
  <2> QED
    BY <2>1, <2>2, <2>3, <2>4
<1>4. ASSUME NEW p \in Pollers, CheckDone(p) PROVE PrefixInv'
  BY <1>4 DEF Goto, queue, fates
<1>5. ASSUME NEW p \in Pollers, Flush(p) PROVE PrefixInv'
  <2>1. pc[p] = "flush" /\ lost = {} /\ \A q \in Pollers : q # p => pc[q] = "idle"
    BY <1>5 DEF Flush
  <2>0. \A q \in Pollers : q # p => Held(q) = {}
    BY <2>1 DEF Held, HandInv
  <2>2. /\ delivered' = delivered \cup buf[p]
        /\ lost' = Held(p) \ buf[p]
        /\ hand' = [hand EXCEPT ![p] = 0]
        /\ pc' = [pc EXCEPT ![p] = "idle"]
        /\ UNCHANGED <<taken, done>>
    BY <1>5, <2>1 DEF Flush, Respond, Goto, queue
  <2>4. delivered \cup Held(p) = 1 .. taken
    <3>1. Held(p) \subseteq Taken /\ delivered \subseteq Taken
      BY DEF OneFate
    <3>2. \A i \in Taken \ delivered : i \in Held(p)
      BY <2>0, <2>1 DEF OneFate
    <3> QED
      BY <3>1, <3>2 DEF Taken
  <2>5. Held(p) = buf[p] \cup (IF hand[p] = 0 THEN {} ELSE {taken})
    BY DEF Held
  <2>6. Held(p) \cap delivered = {}
    BY DEF OneFate
  <2>7. \A i \in delivered' : 1 .. i \subseteq delivered'
    <3>1. CASE delivered' = 1 .. taken
      BY <3>1
    <3>2. CASE delivered' # 1 .. taken
      <4>1. hand[p] # 0 /\ taken \notin buf[p] /\ taken \in Held(p)
        BY <3>2, <2>2, <2>4, <2>5
      <4>2. delivered' = (1 .. taken) \ {taken}
        BY <4>1, <2>2, <2>4, <2>5, <2>6
      <4> QED
        BY <4>2
    <3> QED
      BY <3>1, <3>2
  <2>8. lost' # {} => done'
    <3>1. lost' # {} => hand[p] # 0
      BY <2>2, <2>5
    <3> QED
      BY <3>1, <2>1, <2>2 DEF HandInv
  <2> QED
    BY <2>1, <2>2, <2>7, <2>8
<1>6. ASSUME NEW p \in Pollers, Fail(p) PROVE FALSE
  BY <1>6 DEF Fail
<1> QED
  BY StepKinds, <1>1, <1>2, <1>3, <1>4, <1>5, <1>6

(* A client whose GETs did not overlap and whose responses did not fail has *)
(* got a prefix of what was added.                                          *)
THEOREM PrefixForOneGet == Spec => []PrefixDelivered
<1>1. Init => (faults = {} => PrefixInv)
  BY DEF Init, PrefixInv
<1>2. /\ TypeOK /\ HandInv /\ OneFate /\ (faults = {} => PrefixInv) /\ [Next]_vars
      => (faults = {} => PrefixInv)'
  BY PrefixStep
<1>3. (faults = {} => PrefixInv) => PrefixDelivered
  BY DEF PrefixInv, PrefixDelivered
<1> QED
  BY <1>1, <1>2, <1>3, TypeCorrect, HandInvariant, OneFateForEach, PTL DEF Spec
=============================================================================
