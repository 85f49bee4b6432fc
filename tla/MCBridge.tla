------------------------------ MODULE MCBridge ------------------------------
(* Instances of Bridge for TLC: model values and the functions a cfg cannot  *)
(* write down.                                                               *)
EXTENDS Bridge

CONSTANTS q1, q2, i1, i2, r1, r2, p1, p2, w1, w2, w3

\* One incident, or a second one for the last hand-off.
OneRoom == [e \in Entry |-> q1]
TwoRooms == [e \in Entry |-> IF e = MaxEntries THEN q2 ELSE q1]

\* Runs of one serve process, or of two in the same checkout, each with the
\* seat of its own harness.
OneProcess == [r \in Run |-> p1]
TwoProcesses == [r \in Run |-> IF r = r1 THEN p1 ELSE p2]
OneSeat == [r \in Run |-> i1]
TwoSeats == [r \in Run |-> IF r = r1 THEN i1 ELSE i2]

\* All words differ.
Distinct == [e \in Entry |-> CASE e = 1 -> w1 [] e = 2 -> w2 [] OTHER -> w3]
=============================================================================
