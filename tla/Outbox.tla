-------------------------------- MODULE Outbox --------------------------------
(***************************************************************************)
(* What the outbound queue promises, whatever crashes, restarts, lost      *)
(* answers and failed writes lie between: a hand-off that was accepted is  *)
(* owed until the room has its words or has refused it, and neither of     *)
(* these is ever taken back.  Delivery may happen more than once and may   *)
(* be late: this is the at-least-once of spool/entry.go.                   *)
(***************************************************************************)
CONSTANTS
  Handoff,
  Words     \* the words of each hand-off

VARIABLES
  status,   \* what the sender's machine says of each hand-off
  inRoom    \* the words the room has

vars == <<status, inRoom>>

Init ==
  /\ status = [h \in Handoff |-> "absent"]
  /\ inRoom = {}

Accept(h) ==
  /\ status[h] = "absent"
  /\ status' = [status EXCEPT ![h] = "owed"]
  /\ UNCHANGED inRoom

Deliver(h) ==
  /\ status[h] # "absent"
  /\ inRoom' = inRoom \cup {Words[h]}
  /\ UNCHANGED status

Confirm(h) ==
  /\ status[h] = "owed"
  /\ Words[h] \in inRoom
  /\ status' = [status EXCEPT ![h] = "published"]
  /\ UNCHANGED inRoom

Refuse(h) ==
  /\ status[h] = "owed"
  /\ status' = [status EXCEPT ![h] = "refused"]
  /\ UNCHANGED inRoom

Next == \E h \in Handoff : Accept(h) \/ Deliver(h) \/ Confirm(h) \/ Refuse(h)

Spec == Init /\ [][Next]_vars
=============================================================================
