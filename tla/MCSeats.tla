------------------------------ MODULE MCSeats -------------------------------
(* An instance of Seats for TLC: two harnesses, one with two front ends.   *)
EXTENDS Seats, TLC

CONSTANTS a, b, f1, f2, f3

TwoLabels == {a, b}
ThreeFronts == {f1, f2, f3}
Labels == (f1 :> a) @@ (f2 :> a) @@ (f3 :> b)
=============================================================================
