-------------------------- MODULE DisconnectContract --------------------------
(***************************************************************************)
(* What an application may rely on when a session ends (DisconnectListener *)
(* and Session.onDisconnect): the sockets the session has at that moment   *)
(* are told, each of them once, and only then does the session disappear.  *)
(* A listener that throws leaves the session stuck half way.               *)
(***************************************************************************)
EXTENDS Naturals

CONSTANTS
  Sockets,
  ListenersThrow

VARIABLES
  phase,     \* "open", "closing", "gone" or "stuck"
  owed,      \* sockets of the closing session that were not told yet
  times      \* how often the listeners of a socket were called

contract == <<phase, owed, times>>

Init ==
  /\ phase = "open"
  /\ owed = {}
  /\ times = [s \in Sockets |-> 0]

Close ==
  /\ phase = "open"
  /\ phase' = "closing"
  /\ owed' \in SUBSET Sockets
  /\ UNCHANGED times

Tell(s) ==
  /\ phase = "closing" /\ s \in owed /\ times[s] = 0
  /\ times' = [times EXCEPT ![s] = 1]
  /\ \/ owed' = owed \ {s} /\ UNCHANGED phase
     \/ ListenersThrow /\ owed' = {} /\ phase' = "stuck"

Delete ==
  /\ phase = "closing" /\ owed = {}
  /\ phase' = "gone"
  /\ UNCHANGED <<owed, times>>

Next == Close \/ (\E s \in Sockets : Tell(s)) \/ Delete

Spec == Init /\ [][Next]_contract
=============================================================================
