---------------------------- MODULE MCServeLive -----------------------------
(***************************************************************************)
(* What a serve process must get done in the end: its worker publishes the *)
(* hand-offs (Bridge), its front end gets an idle session into the room on *)
(* offer (FrontEnd).  A behaviour runs one of the two, under its own       *)
(* fairness; the other keeps its initial state.                            *)
(***************************************************************************)
EXTENDS MCBridge

CONSTANT None

VARIABLES
  part,
  reachable, conn, offer, announced, feRoom, attached, sess, link, pending, startup, tool,
  toolRoom, watch, wake, watchRoom, mu, rejoin, over, joins, misses, switched, late, lapsed

F == INSTANCE FrontEnd WITH Startup <- {q1, q2, None}, MaxJoins <- 2, MaxMishaps <- 1,
       Room <- {q1, q2}, up <- reachable, mishaps <- misses

frontVars == <<reachable, conn, offer, announced, feRoom, attached, sess, link, pending,
               startup, tool, toolRoom, watch, wake, watchRoom, mu, rejoin, over, joins,
               misses, switched, late, lapsed>>
serveVars == <<part, vars, frontVars>>

InitServe ==
  /\ part \in {"bridge", "front"} /\ Init /\ F!InitFront
  /\ part # "front" => link = None

InBridge(A) == part = "bridge" /\ UNCHANGED <<part, frontVars>> /\ A
InFront(A) == part = "front" /\ UNCHANGED <<part, vars>> /\ A

NextServe == InBridge(Next) \/ InFront(F!NextFront)

FairBridge ==
  \A r \in Run :
    /\ WF_serveVars(InBridge(Reconcile(r) \/ Sweep(r)))
    /\ WF_serveVars(InBridge(RoomAnswers(r)))
    /\ WF_serveVars(InBridge(\E q \in Room, i \in Instance : Join(r, q, i)))
    /\ WF_serveVars(InBridge(~up[r] /\ Stop(r)))

FairFront ==
  /\ WF_serveVars(InFront(F!Handshake)) /\ WF_serveVars(InFront(F!Announce))
  /\ WF_serveVars(InFront(F!OthersRespawn \/ F!Ensure))
  /\ WF_serveVars(InFront(F!WatchGoesOn)) /\ WF_serveVars(InFront(F!ToolGoesOn))
  /\ SF_serveVars(InFront(F!WatchLocks)) /\ SF_serveVars(InFront(F!AdoptionAttaches))

SpecServe == InitServe /\ [][NextServe]_serveVars /\ FairBridge /\ FairFront

(* What serve accepted it settles, and what its folder is offered it takes: *)
(* neither a room that never answers one hand-off nor a daemon that stops   *)
(* and joins that overlap leave the person waiting for good.                *)
ServeGetsThere == EventuallySettled /\ F!OfferIsTaken
=============================================================================
