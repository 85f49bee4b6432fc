------------------------------ MODULE MCHold ------------------------------
(* Instances of Hold for TLC, over those of Bridge.                          *)
EXTENDS Hold, MCBridge
=============================================================================
