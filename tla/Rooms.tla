-------------------------------- MODULE Rooms --------------------------------
(***************************************************************************)
(* The war rooms that the daemon's processes and a front end's ways into   *)
(* one are about, and what stands for no room, daemon or lock holder.      *)
(***************************************************************************)
CONSTANTS Room, None

ASSUME NoneIsNoRoom == None \notin Room
=============================================================================
