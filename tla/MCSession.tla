----------------------------- MODULE MCSession ------------------------------
(***************************************************************************)
(* The queue of a session and its snapshots, checked side by side: a       *)
(* behaviour runs one of the two, and the other keeps its initial state.   *)
(***************************************************************************)
EXTENDS Session, Snapshot, TLC

CONSTANTS q1, q2, c1, c2, i1, i2

VARIABLE half

queueVars == <<posted, wire, live, queue, call, hook, ghosts, faults>>
snapVars == <<version, arrived, joining, snap, callers>>

TwoRooms == {q1, q2}
Symmetry == Permutations(TwoRooms) \cup Permutations({c1, c2}) \cup Permutations({i1, i2})

InitBoth == half \in {"queue", "snapshot"} /\ Init /\ InitSession

NextBoth ==
  \/ half = "queue" /\ NextSession /\ UNCHANGED <<half, snapVars>>
  \/ half = "snapshot" /\ Next /\ UNCHANGED <<half, queueVars>>

SpecBoth == InitBoth /\ [][NextBoth]_<<half, client, snapVars, queueVars>>

SessionTypesOK == QueueTypeOK /\ SnapTypeOK
=============================================================================
