------------------------------- MODULE Journal -------------------------------
(***************************************************************************)
(* The append-only JSON-lines file under the spool and the mirror: one     *)
(* write per append, each record followed by a newline, and a reader that  *)
(* drops every line it cannot parse.  A write can end early (the process   *)
(* dies, the disk fills up); what it put in the file stays there, and the  *)
(* next append starts where it stopped.                                    *)
(***************************************************************************)
EXTENDS Filter

\* A line is what stands between two newlines: the pieces successive writes
\* put there, each a record that is whole or cut short.
Whole(rec) == [rec |-> rec, whole |-> TRUE]
Cut(rec)   == [rec |-> rec, whole |-> FALSE]

\* open: the last line has no newline yet.
Empty == [lines |-> <<>>, open |-> FALSE]

\* Bytes put at the end of the file.
Put(j, piece, newline) ==
  [lines |-> IF j.open THEN [j.lines EXCEPT ![Len(j.lines)] = Append(@, piece)]
                       ELSE Append(j.lines, <<piece>>),
   open  |-> ~newline]

\* A write of the records recs that reaches its end: the first continues the
\* line it finds, the others have lines of their own.
Written(j, recs) ==
  IF recs = <<>> THEN j
  ELSE [lines |-> Put(j, Whole(recs[1]), TRUE).lines
                  \o [n \in 1..(Len(recs) - 1) |-> <<Whole(recs[n + 1])>>],
        open  |-> FALSE]

\* What a write of recs can leave behind when it does not: the first n records
\* with their newlines, then nothing, part of the next record, or all of it
\* but its newline.
CutShort(j, recs) ==
  UNION {LET k == Written(j, SubSeq(recs, 1, n)) IN
           {k, Put(k, Cut(recs[n + 1]), FALSE), Put(k, Whole(recs[n + 1]), FALSE)}
         : n \in 0..(Len(recs) - 1)}

\* What a reader makes of the file: a line parses when it is one whole record.
Parses(line) == Len(line) = 1 /\ line[1].whole

Readable(j) == {n \in DOMAIN j.lines : Parses(j.lines[n])}
Rec(j, n)   == j.lines[n][1].rec
=============================================================================
