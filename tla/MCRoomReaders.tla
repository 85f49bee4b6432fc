----------------------------- MODULE MCRoomReaders -----------------------------
(* Instances of RoomReaders for TLC.                                           *)
EXTENDS RoomReaders

CONSTANTS a1, p1, h1, q1

\* One checkout with one harness: its front end, its person, their hooks and
\* the agent's pulls; or an agent whose front end names no workspace.
OneHarness == [a \in Agent |-> p1]
NoPerson == [a \in {} |-> p1]
HooksOfOne == [h \in Hook |-> p1]
PullsOfOne == [q \in Pull |-> a1]

\* Every event is news.
AllNews == Event
=============================================================================
