----------------------------- MODULE MCDelivery -----------------------------
(* Delivery in one checkout, in one of three arrangements (fleet) that the *)
(* initial state picks: one fallback serve with two hooks at a time; a     *)
(* serve, the daemon and a front end under two hosts, one hook at a time;  *)
(* two serves, one hook at a time.                                         *)
EXTENDS Delivery, TLC

CONSTANTS claude, codex, s1, s2, f1, h1, h2, Fleets
VARIABLE fleet

Hosts == (s1 :> claude) @@ (s2 :> claude) @@ (f1 :> claude)

InFleet(part) ==
  CASE part = "overlap" -> {s1, claude, h1, h2}
    [] part = "hosts"   -> {s1, f1, Daemon, claude, codex, h1}
    [] part = "serves"  -> {s1, s2, claude, h1}

EventsIn(part) == IF part = "overlap" \/ Fleets = {part} THEN Last ELSE 1

(* Who is not in the arrangement does nothing. *)
OnlyTheFleet ==
  /\ \A p \in Key \ InFleet(fleet) : life[p] = "new"
  /\ \A q \in Queue : arrived[q] <= EventsIn(fleet)
  /\ \A h \in Hook : h \in InFleet(fleet) \/ hook[h] = Idle
  /\ \A h \in Hook : hook[h].host \in InFleet(fleet) \cup {"none"}

MCInit ==
  /\ Init /\ fleet \in Fleets
  /\ life = [p \in Key |-> IF p \in InFleet(fleet) \ {s2, f1} THEN "up" ELSE "new"]
MCNext == Next /\ UNCHANGED fleet /\ OnlyTheFleet'
MCSpec == MCInit /\ [][MCNext]_<<dvars, fleet>>
=============================================================================
