------------------------------ MODULE MCDaemon ------------------------------
(***************************************************************************)
(* The parts of the room daemon, checked side by side: the seats of a      *)
(* room, a share link's claims, one front end, and the daemon as           *)
(* processes.  A behaviour runs one of them; the others keep their         *)
(* initial state.                                                          *)
(***************************************************************************)
EXTENDS Lifecycle, Links, FrontEnd, TLC

CONSTANTS a, b, f1, f2, f3, r1, r2, k1, k2

VARIABLES
  part,
  room, seats, seating, primary, idle, roomIdle, watched, front, beating, present,
  leaving, seatJoins, seatFaults, orphans, overtaken, stray

seatVars == <<room, seats, seating, primary, idle, roomIdle, watched, front, beating,
              present, leaving, seatJoins, seatFaults, orphans, overtaken, stray>>

TwoRooms == {r1, r2}
TwoClients == {k1, k2}
ThreeFronts == {f1, f2, f3}
Labels == (f1 :> a) @@ (f2 :> a) @@ (f3 :> b)
AnyStartup == TwoRooms \cup {None}

Symmetry ==
  Permutations({f1, f2}) \cup Permutations({r1, r2}) \cup Permutations({k1, k2})

S == INSTANCE Seats WITH Label <- {a, b}, LabelOf <- Labels, Terminal <- {},
       MaxJoins <- 3, joins <- seatJoins, faults <- seatFaults

Parts == {"seats", "links", "front", "life"}

(* The parts that do not run are pinned to one initial state. *)
Init4 ==
  /\ part \in Parts
  /\ S!Init /\ InitLinks
  /\ InitFront /\ (part # "front" => link = None)
  /\ Init /\ (part # "life" => ~old /\ file = {})

Next4 ==
  /\ UNCHANGED part
  /\ \/ part = "seats" /\ S!Next /\ UNCHANGED <<lvars, fvars, pvars>>
     \/ part = "links" /\ NextLinks /\ UNCHANGED <<seatVars, fvars, pvars>>
     \/ part = "front" /\ NextFront /\ UNCHANGED <<seatVars, lvars, pvars>>
     \/ part = "life" /\ Next /\ UNCHANGED <<seatVars, lvars, fvars>>

SpecDaemon == Init4 /\ [][Next4]_<<part, seatVars, lvars, fvars, pvars>>

(* What Seats says is a property of MCSeats, and is looked at here with     *)
(* more joins.                                                             *)
DaemonTypesOK ==
  CASE part = "seats" -> S!SeatsTypeOK /\ S!SeatsAreKept
    [] part = "links" -> LinksTypeOK
    [] part = "front" -> FrontEndTypeOK
    [] part = "life" -> LifecycleTypeOK
=============================================================================
