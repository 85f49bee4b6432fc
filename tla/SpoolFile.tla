------------------------------ MODULE SpoolFile ------------------------------
(***************************************************************************)
(* The file under one room's queue (internal/spool): every change of an    *)
(* entry is an append of the whole entry, load folds the lines it can      *)
(* parse, the last record of an id winning, and Compact rewrites the file  *)
(* through a temporary one.  Bridge takes the file for a function from     *)
(* entries to records; here is what that rests on.                         *)
(***************************************************************************)
EXTENDS Journal, FiniteSets

CONSTANTS
  Id,         \* entries
  MaxLines,   \* appends of an execution (a bound of the model)
  MaxTears    \* writes that end early (a bound of the model)

ASSUME SpoolFileAssumption ==
  /\ IsFiniteSet(Id) /\ Id # {}
  /\ MaxLines \in Nat
  /\ MaxTears \in Nat

VARIABLES
  spool,       \* the .jsonl file
  tmp,         \* the .tmp beside it, while Compact is between write and rename
  acked,       \* what the last append of each id that returned without error said
  spoolTears   \* writes that ended early

spoolVars == <<spool, tmp, acked, spoolTears>>

\* The states that matter to the file: owed, finished, and finished but kept.
State == {"queued", "publishing", "published", "refused"}
NoState == "none"
Entries == [id : Id, state : State]
NoTmp == [lines |-> <<>>, open |-> TRUE]

SpoolFileTypeOK ==
  /\ \A n \in Readable(spool) : Rec(spool, n) \in Entries
  /\ tmp = NoTmp \/ ~tmp.open
  /\ acked \in [Id -> State \cup {NoState}]
  /\ spoolTears \in 0..MaxTears

InitSpool ==
  /\ spool = Empty
  /\ tmp = NoTmp
  /\ acked = [i \in Id |-> NoState]
  /\ spoolTears = 0

\* load: later records for the same id win.
Load(j) ==
  [i \in Id |->
     LET at == {n \in Readable(j) : Rec(j, n).id = i} IN
     IF at = {} THEN NoState ELSE Rec(j, CHOOSE n \in at : \A m \in at : m <= n).state]

\* AcceptKind for an id not seen before, mark for one that load finds.
Appends(i, s) ==
  /\ Len(spool.lines) < MaxLines
  /\ Load(spool)[i] = NoState => s = "queued"
  /\ tmp = NoTmp      \* Compact holds the package's lock throughout

\* appendSync returns nil.
AppendSync(i, s) ==
  /\ Appends(i, s)
  /\ spool' = Written(spool, <<[id |-> i, state |-> s]>>)
  /\ acked' = [acked EXCEPT ![i] = s]
  /\ UNCHANGED <<tmp, spoolTears>>

\* appendSync dies, or meets a full disk, somewhere in its write.
AppendTorn(i, s) ==
  /\ Appends(i, s)
  /\ spoolTears < MaxTears
  /\ spoolTears' = spoolTears + 1
  /\ spool' \in CutShort(spool, <<[id |-> i, state |-> s]>>)
  /\ UNCHANGED <<tmp, acked>>

\* Compact, first half: what is not finished, into the temporary file.
Unfinished == {"queued", "publishing", "refused"}

Remaining(j) == {i \in Id : Load(j)[i] \in Unfinished}

\* (Mutant: the last line has no newline.)
CompactedOpen(j, ids) ==
  [Written(Empty, [n \in DOMAIN ids |-> [id |-> ids[n], state |-> Load(j)[ids[n]]]])
     EXCEPT !.open = TRUE]

Compacted(j, ids) ==
  Written(Empty, [n \in DOMAIN ids |-> [id |-> ids[n], state |-> Load(j)[ids[n]]]])

\* Their order, that of their first records, is left open: nothing here tells it.
Orders(S) ==
  {ids \in [1..Cardinality(S) -> S] : \A i \in S : \E n \in DOMAIN ids : ids[n] = i}

CompactWrite ==
  /\ tmp = NoTmp
  /\ \E ids \in Orders(Remaining(spool)) : tmp' = Compacted(spool, ids)
  /\ UNCHANGED <<spool, acked, spoolTears>>

\* Compact, second half: the rename puts it in the file's place.
CompactRename ==
  /\ tmp # NoTmp
  /\ spool' = tmp
  /\ tmp' = NoTmp
  /\ UNCHANGED <<acked, spoolTears>>

\* The process dies between the two, or the temporary file cannot be written:
\* the next Compact starts it afresh.
CompactDies ==
  /\ tmp # NoTmp
  /\ tmp' = NoTmp
  /\ UNCHANGED <<spool, acked, spoolTears>>

NextSpool ==
  \/ \E i \in Id, s \in State : AppendSync(i, s) \/ AppendTorn(i, s)
  \/ CompactWrite \/ CompactRename \/ CompactDies

SpecSpool == InitSpool /\ [][NextSpool]_spoolVars

-----------------------------------------------------------------------------
(* Properties.                                                             *)

\* Accepted hand-offs, not finished, of which load finds nothing at all.
Lost == {i \in Id : acked[i] \in Unfinished /\ Load(spool)[i] = NoState}

\* A write that ends early costs at most one hand-off already accepted, also
\* across compactions: the one whose first record is put behind what it left.
OneLossPerTear == Cardinality(Lost) <= spoolTears

\* "an append that is torn by a crash loses only that line" (spool.go): what
\* was accepted before, or is accepted after, stays.
TornLosesOnlyThatLine == Lost = {}

\* Compact drops what is finished and nothing else: whenever the rename comes,
\* no unfinished entry changes its state or disappears by it.
CompactKeepsUnfinished ==
  tmp # NoTmp =>
    \A i \in Id : Load(spool)[i] \in Unfinished => Load(tmp)[i] = Load(spool)[i]
=============================================================================
