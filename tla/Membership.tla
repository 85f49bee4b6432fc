----------------------------- MODULE Membership ------------------------------
(***************************************************************************)
(* The room one `landfall serve` process is in: what the session's queue   *)
(* (Session) and its snapshots (Snapshot) both look at, and a join swaps   *)
(* under both.                                                             *)
(***************************************************************************)
CONSTANTS Room, NoRoom

ASSUME NoRoomIsNoRoom == NoRoom \notin Room

VARIABLE client  \* session.client, as the room it was joined for, or NoRoom
=============================================================================
