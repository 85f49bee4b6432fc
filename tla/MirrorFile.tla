------------------------------ MODULE MirrorFile ------------------------------
(***************************************************************************)
(* The file under the local mirror of one room (internal/mirror), and the  *)
(* worker's absorb around it: read the cursor, ask the room for what is    *)
(* behind it, record what came back.  The cursor is not kept anywhere; it  *)
(* is the highest seq the file shows.  It stands beside SpoolFile, the     *)
(* other journal of a room, and ends with what is required of the two.     *)
(***************************************************************************)
EXTENDS SpoolFile, FiniteSetsExt

CONSTANTS
  Absorber,   \* runs that share the file: one, and the one cancelled before it
  MaxSeq      \* events the room's timeline gets (a bound of the model)

ASSUME MirrorFileAssumption == Absorber # {} /\ MaxSeq \in Nat

VARIABLES
  posted,       \* the room's timeline is 1..posted
  mirror,       \* the .jsonl file
  pc,           \* where each absorb is
  since,        \* the cursor it read
  fetched,      \* the events it was answered
  mirrorTears   \* writes that ended early

mirrorVars == <<posted, mirror, pc, since, fetched, mirrorTears>>

MirrorFileTypeOK ==
  /\ posted \in 0..MaxSeq
  /\ \A n \in Readable(mirror) : Rec(mirror, n) \in 1..posted
  /\ pc \in [Absorber -> {"idle", "asking", "answered"}]
  /\ since \in [Absorber -> 0..posted]
  /\ fetched \in [Absorber -> Seq(1..posted)]
  /\ mirrorTears \in 0..MaxTears

InitMirror ==
  /\ posted = 0
  /\ mirror = Empty
  /\ pc = [a \in Absorber |-> "idle"]
  /\ since = [a \in Absorber |-> 0]
  /\ fetched = [a \in Absorber |-> <<>>]
  /\ mirrorTears = 0

Seen(j) == {Rec(j, n) : n \in Readable(j)}

\* The cursor: the highest seq of a line that parses.
LastSeq(j) == Max(Seen(j) \cup {0})

Post ==
  /\ posted < MaxSeq
  /\ posted' = posted + 1
  /\ UNCHANGED <<mirror, pc, since, fetched, mirrorTears>>

\* (Mutant: the cursor is taken for the first event to ask for.)
ReadCursorPastLast(a) ==
  /\ pc[a] = "idle"
  /\ since' = [since EXCEPT ![a] = LastSeq(mirror) + 1]
  /\ pc' = [pc EXCEPT ![a] = "asking"]
  /\ UNCHANGED <<posted, mirror, fetched, mirrorTears>>

ReadCursor(a) ==
  /\ pc[a] = "idle"
  /\ since' = [since EXCEPT ![a] = LastSeq(mirror)]
  /\ pc' = [pc EXCEPT ![a] = "asking"]
  /\ UNCHANGED <<posted, mirror, fetched, mirrorTears>>

\* GetUpdates: the room answers with every event behind the cursor...
Answered(a) ==
  /\ pc[a] = "asking"
  /\ fetched' = [fetched EXCEPT ![a] = [n \in 1..(posted - since[a]) |-> since[a] + n]]
  /\ pc' = [pc EXCEPT ![a] = "answered"]
  /\ UNCHANGED <<posted, mirror, since, mirrorTears>>

\* ... or does not, and absorb returns.
Unanswered(a) ==
  /\ pc[a] = "asking"
  /\ pc' = [pc EXCEPT ![a] = "idle"]
  /\ UNCHANGED <<posted, mirror, since, fetched, mirrorTears>>

\* What Record writes: the events it has no line for.
Fresh(a) == Kept(fetched[a], (1..posted) \ Seen(mirror))

Done(a) ==
  /\ pc' = [pc EXCEPT ![a] = "idle"]
  /\ fetched' = [fetched EXCEPT ![a] = <<>>]

Record(a) ==
  /\ pc[a] = "answered"
  /\ mirror' = Written(mirror, Fresh(a))
  /\ Done(a)
  /\ UNCHANGED <<posted, since, mirrorTears>>

\* The process dies, or the disk fills up, somewhere in Record's one write.
RecordTorn(a) ==
  /\ pc[a] = "answered"
  /\ mirrorTears < MaxTears
  /\ mirror' \in CutShort(mirror, Fresh(a))
  /\ mirrorTears' = mirrorTears + 1
  /\ Done(a)
  /\ UNCHANGED <<posted, since>>

NextMirror ==
  \/ Post
  \/ \E a \in Absorber : \/ ReadCursor(a) \/ Answered(a) \/ Unanswered(a)
                         \/ Record(a) \/ RecordTorn(a)

SpecMirror == InitMirror /\ [][NextMirror]_mirrorVars

-----------------------------------------------------------------------------
(* Properties.                                                             *)

\* Events behind the cursor the mirror does not have: nobody asks for them
\* again, and FindOwn will never see them.
Gaps == (1..LastSeq(mirror)) \ Seen(mirror)

\* A write that ends early costs at most the two events that end up in one
\* line, however the absorbs of two runs overlap; with none there is no gap.
TwoGapsPerTear == Cardinality(Gaps) <= 2 * mirrorTears

\* "A torn trailing line is a write that never completed.  Dropping it is
\* right" (mirror.go): what it held is asked for again, so nothing is missing.
NoGaps == Gaps = {}

\* What a journal loses: of the queue at most one accepted hand-off for each
\* write cut short and none by compacting, of the mirror at most two events for
\* each write cut short.
JournalsLose == OneLossPerTear /\ CompactKeepsUnfinished /\ TwoGapsPerTear
=============================================================================
