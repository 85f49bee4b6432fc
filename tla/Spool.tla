-------------------------------- MODULE Spool --------------------------------
(***************************************************************************)
(* The durable outbound queue of one workspace (internal/spool): what the  *)
(* file says of every hand-off, and the state changes the package offers.  *)
(*                                                                         *)
(* A file is a log of whole records and the last record of an id wins, so  *)
(* its content is a function from hand-offs to records; SpoolFile models   *)
(* the log itself and what a torn write does to it.  Hand-offs are         *)
(* numbered in the order of their first record, which is the order load    *)
(* returns them in.  Attempts, LastError, the timestamps, the refusal's    *)
(* words and whether the agent was told of it are read by no decision of   *)
(* the queue or its worker, and are left out.                              *)
(***************************************************************************)
EXTENDS Naturals, FiniteSets

CONSTANTS
  MaxEntries,  \* hand-offs an execution makes (a bound of the model)
  Max,         \* spool.Max: hand-offs owed to one room at a time
  Room,        \* incidents this workspace has files for
  RoomOf,      \* the incident a hand-off was made for
  Instance,    \* agent instance ids the server may issue
  Nobody       \* the owner of a hand-off not made yet

Entry == 1..MaxEntries

ASSUME SpoolAssumption ==
  /\ MaxEntries \in Nat \ {0}
  /\ Max \in Nat \ {0}
  /\ RoomOf \in [Entry -> Room]
  /\ Instance # {}
  /\ Nobody \notin Instance

EntryState ==
  {"absent", "queued", "publishing", "published", "abandoned", "refused", "held"}

EntryRecord ==
  [state    : EntryState,
   owner    : Instance \cup {Nobody},
   expired  : BOOLEAN]     \* SessionExpired

Absent ==
  [state |-> "absent", owner |-> Nobody, expired |-> FALSE]

-----------------------------------------------------------------------------
(* Reading a file s.                                                       *)

EntriesIn(s, q, states) == {e \in Entry : RoomOf[e] = q /\ s[e].state \in states}

\* What counts against Max, what AwaitingSession counts, what Pending lists.
OwedTo(s, q) == EntriesIn(s, q, {"queued", "publishing"})

\* Pending, of which drain attempts only those still queued in its snapshot.
Sendable(s, q) == {e \in OwedTo(s, q) : s[e].state = "queued"}

\* Entries whose outcome a dead process took with it.
Recovered(s, q) == EntriesIn(s, q, {"publishing"})

\* The oldest of a non-empty set of hand-offs.
Oldest(es) == CHOOSE e \in es : \A f \in es : e <= f

-----------------------------------------------------------------------------
(* Writing: each operator is the file after one appended record.  mark     *)
(* looks an entry up by id alone, so none of these depends on the state    *)
(* the entry is in.                                                        *)

\* A full queue refuses the new hand-off rather than drop the oldest.
HasSpace(s, q) == Cardinality(OwedTo(s, q)) < Max

Accepted(s, e, by) ==
  [s EXCEPT ![e] = [Absent EXCEPT !.state = "queued", !.owner = by]]

\* (Mutant: the claim is not written before the network call.)
ClaimNotWritten(s, e) == s
Claimed(s, e) == [s EXCEPT ![e].state = "publishing"]

Acked(s, e)   == [s EXCEPT ![e].state = "published"]

\* (Mutant: a failed entry gets a state of its own, which nothing lists.)
FailedApart(s, e) == [s EXCEPT ![e].state = "failed"]
Failed(s, e)  == [s EXCEPT ![e].state = "queued", ![e].expired = FALSE]
Expired(s, e) == [s EXCEPT ![e].state = "queued", ![e].expired = TRUE]
Refused(s, e) == [s EXCEPT ![e].state = "refused", ![e].expired = FALSE]

Held(s, e)     == [s EXCEPT ![e].state = "held"]
Released(s, e) == [s EXCEPT ![e].state = "queued"]
Dropped(s, e)  == [s EXCEPT ![e].state = "abandoned"]
=============================================================================
