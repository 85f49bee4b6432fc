------------------------------- MODULE MCView -------------------------------
(***************************************************************************)
(* What reaches a screen from the room, checked side by side: the client's *)
(* pauses, the views that the daemon caches for its readers, the wall, and *)
(* what the status line says of Beacon.  A behaviour runs one of them; the *)
(* others keep their initial state.                                        *)
(***************************************************************************)
EXTENDS Glance, Governor, Beacon, Wall, TLC

CONSTANTS a, b, p

VARIABLE part

Symmetry == Permutations({a, b})

Parts == {"governor", "glance", "wall", "beacon"}

(* The parts that do not run are pinned to one initial state. *)
InitView ==
  /\ part \in Parts
  /\ Init /\ InitGovernor /\ InitBeacon
  /\ InitWall /\ (part # "wall" => wallTimeline = <<>>)

NextView ==
  /\ UNCHANGED part
  /\ \/ part = "governor" /\ NextGovernor /\ UNCHANGED <<glanceVars, wallVars, beaconVars>>
     \/ part = "glance" /\ Next /\ UNCHANGED <<governorVars, wallVars, beaconVars>>
     \/ part = "wall" /\ NextWall /\ UNCHANGED <<governorVars, glanceVars, beaconVars>>
     \/ part = "beacon" /\ NextBeacon /\ UNCHANGED <<governorVars, glanceVars, wallVars>>

SpecView ==
  InitView
  /\ [][NextView]_<<part, governorVars, glanceVars, wallVars, beaconVars>>

(* The types of the parts, under one name. *)
ViewTypesOK ==
  CASE part = "governor" -> GovernorTypeOK
    [] part = "glance" -> GlanceTypeOK
    [] part = "wall" -> WallTypeOK
    [] part = "beacon" -> BeaconTypeOK
=============================================================================
