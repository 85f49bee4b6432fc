------------------------------- MODULE Beacon -------------------------------
(***************************************************************************)
(* What a status line says of Beacon's run and what a dashboard says of a  *)
(* person's claim: folds of the room's events.  The daemon folds the ring, *)
(* which holds the newest of what it heard since it came; the wall folds   *)
(* the whole timeline; the server folds the claims.                        *)
(*                                                                         *)
(* Beacon writes its rows inside a run; the socket delivers in order and   *)
(* may lose an event.                                                      *)
(***************************************************************************)
EXTENDS Integers, Sequences, FiniteSetsExt

CONSTANTS Human, RingMax, MaxRows, MaxLosses

ASSUME BeaconAssumption ==
  RingMax \in Nat \ {0} /\ {MaxRows, MaxLosses} \subseteq Nat

VARIABLES
  timeline,   \* the events of the room; an event's seq is its place
  from,       \* the daemon heard nothing up to here
  caught,     \* how far it has heard since
  quiet,      \* history: what it read from there to here rang nothing
  kept,       \* the conclusion it keeps: the run's end, and the row that says it
  losses,
  missed      \* the events the socket lost

beaconVars == <<timeline, from, caught, quiet, kept, losses, missed>>

Ends == {"concluded", "gave up"}
RunRows == {"started"} \cup Ends
Answers == <<"hypothesis", "finding">>
beaconWork == {"step", "hypothesis", "finding"}
Moves == {"admitted", "demoted", "withdrawn", "corroborate", "contest"}
BeaconEvent ==
  [kind : {"started", "gave up"} \cup beaconWork] \cup [kind : {"concluded"}, says : BOOLEAN]
    \cup [kind : {"staged"}, who : Human] \cup [kind : Moves, who : Human, claim : 1..MaxRows]

Of(S, K) == {n \in S : timeline[n].kind \in K}
Newest(S) == IF S = {} THEN 0 ELSE Max(S)

(* The newest RingMax of the events heard. *)
RingAt(h) ==
  LET all == ((from + 1)..h) \ missed
  IN  {n \in all : Cardinality({k \in all : k >= n}) <= RingMax}
Ring == RingAt(caught)

-----------------------------------------------------------------------------
(* The newest run row wins; with none, Beacon's work says a run is on. *)
BeaconState(S) ==
  LET n == Newest(Of(S, RunRows))
  IN  IF n > 0 THEN (IF timeline[n].kind \in Ends THEN timeline[n].kind ELSE "investigating")
      ELSE IF Of(S, beaconWork) = {} THEN "" ELSE "investigating"

(* runSeq, on a step's payload: the row that started its run. *)
RunOf(n) == Newest({k \in Of(DOMAIN timeline, {"started"}) : k <= n})

BeaconStepOf(S) ==
  LET n == Newest(Of(S, {"step"}))
  IN  [run |-> IF n = 0 THEN 0 ELSE RunOf(n),
       step |-> Cardinality({k \in Of(S, {"step"}) : RunOf(k) = RunOf(n)})]

(* The newest concluded run: its own words, else its newest hypothesis,    *)
(* else its newest finding.                                                *)
BeaconConclusionOf(S) ==
  LET end == Newest(Of(S, {"concluded"}))
      start == Newest({k \in Of(S, RunRows) : k < end})
      Row(i) == Newest({k \in Of(S, {Answers[i]}) : start < k /\ k < end})
  IN  [seq |-> end,
       row |-> IF end = 0 THEN 0 ELSE IF timeline[end].says THEN end
               ELSE IF Row(1) # 0 THEN Row(1) ELSE Row(2)]

(* (Mutant: the conclusion goes with the rows that said it.) *)
WhileInRing(was, S) == BeaconConclusionOf(S)
keepConclusion(was, S) ==
  LET c == BeaconConclusionOf(S)
  IN  IF c.row # 0 /\ c.seq >= was.seq THEN c ELSE was

-----------------------------------------------------------------------------
(* The claims projection, as the server gives it: where a claim stands and *)
(* the position of each who took one.                                      *)
Live(n, k) ==   \* a move of the claim n, before a withdrawal ended it
  /\ timeline[k].kind \in Moves /\ timeline[k].claim = n
  /\ ~\E w \in Of(DOMAIN timeline, {"withdrawn"}) : timeline[w].claim = n /\ w < k

ClaimView(n) ==
  LET gate == Newest({k \in Of(DOMAIN timeline, {"admitted", "demoted", "withdrawn"}) : Live(n, k)})
      Last(h) == Newest({k \in Of(DOMAIN timeline, {"corroborate", "contest"}) :
                           Live(n, k) /\ timeline[k].who = h})
  IN  [author |-> timeline[n].who,
       state |-> IF gate = 0 \/ timeline[gate].kind = "demoted" THEN "staged"
                 ELSE timeline[gate].kind,
       positions |-> {[who |-> h, position |-> timeline[Last(h)].kind] :
                        h \in {h \in Human : Last(h) # 0}}]

(* The status line's words for a claim of the projection. *)
claimState(c) ==
  LET counted == {p.position : p \in {p \in c.positions : p.who # c.author}}
  IN  CASE c.state # "staged" -> c.state
        [] c.state = "staged" /\ "contest" \in counted -> "contested"
        [] c.state = "staged" /\ counted = {"corroborate"} -> "corroborated"
        [] OTHER -> "staged"

(* The dashboard's fold of the events themselves, one at a time. *)
NewClaim(n) == [author |-> timeline[n].who, state |-> "staged", positions |-> [h \in {} |-> ""]]
Counts(c, who) == who # c.author
Fold(c, e) ==
  CASE c.state = "withdrawn" -> c
    [] c.state # "withdrawn" /\ e.kind = "demoted" -> [c EXCEPT !.state = "staged"]
    [] c.state # "withdrawn" /\ e.kind \in {"admitted", "withdrawn"} ->
         [c EXCEPT !.state = e.kind]
    [] c.state # "withdrawn" /\ e.kind \in {"corroborate", "contest"} ->
         IF ~Counts(c, e.who) THEN c
         ELSE [c EXCEPT !.positions =
                 [h \in {e.who} \cup DOMAIN @ |-> IF h = e.who THEN e.kind ELSE @[h]]]

Folding(n) ==
  LET f[k \in n..Len(timeline)] ==
        IF k = n THEN NewClaim(n)
        ELSE IF timeline[k].kind \in Moves /\ timeline[k].claim = n
             THEN Fold(f[k - 1], timeline[k]) ELSE f[k - 1]
  IN  f

claimStates(n) ==
  LET c == Folding(n)[Len(timeline)]
      P == {c.positions[h] : h \in DOMAIN c.positions}
  IN  IF c.state # "staged" THEN c.state
      ELSE IF "contest" \in P THEN "contested"
      ELSE IF "corroborate" \in P THEN "corroborated" ELSE "staged"

-----------------------------------------------------------------------------
RunIsOn == BeaconState(DOMAIN timeline) = "investigating"

InitBeacon ==
  /\ timeline = <<>> /\ from = 0 /\ caught = 0 /\ quiet = 0
  /\ kept = [seq |-> 0, row |-> 0]
  /\ losses = 0 /\ missed = {}

(* A bound: a timeline is of runs, which the daemon hears, or of claims,   *)
(* which it asks the server for; no fold looks at both.                    *)
OfClaims(e) == e.kind \in {"staged"} \cup Moves
PostRow(e) ==
  /\ Len(timeline) < MaxRows
  /\ timeline # <<>> => OfClaims(e) = OfClaims(timeline[1])
  /\ CASE e.kind = "started" -> ~RunIsOn
       [] e.kind \in beaconWork \cup Ends -> RunIsOn
       [] e.kind = "staged" -> TRUE
       [] e.kind \in Moves -> e.claim \in Of(DOMAIN timeline, {"staged"})
  /\ timeline' = Append(timeline, e)
  /\ UNCHANGED <<from, caught, quiet, kept, losses, missed>>

(* markPersonLocked: an end that is heard is kept at once. *)
Hear ==
  /\ caught < Len(timeline) /\ ~OfClaims(timeline[1])
  /\ caught' = caught + 1
  /\ \/ /\ kept' = IF timeline[caught + 1].kind = "concluded"
                   THEN keepConclusion(kept, RingAt(caught + 1)) ELSE kept
        /\ UNCHANGED <<losses, missed>>
     \/ /\ losses < MaxLosses /\ losses' = losses + 1
        /\ missed' = missed \cup {caught + 1} /\ UNCHANGED kept
  /\ UNCHANGED <<timeline, from, quiet>>

StatusOfBeacon ==
  /\ kept' = keepConclusion(kept, Ring)
  /\ UNCHANGED <<timeline, from, caught, quiet, losses, missed>>

(* The daemon starts again: it remembers nothing, and reads what came      *)
(* after the cursor of a reader, what the socket lost of it included, if   *)
(* it can, without ringing.                                                *)
Restart ==
  /\ timeline # <<>> => ~OfClaims(timeline[1])
  /\ losses < MaxLosses /\ losses' = losses + 1
  /\ from' \in (0..caught) \cup {Len(timeline)}
  /\ caught' = Len(timeline) /\ quiet' = Len(timeline)
  /\ missed' = missed \ ((from' + 1)..Len(timeline))
  /\ kept' = [seq |-> 0, row |-> 0]
  /\ UNCHANGED timeline

NextBeacon == Hear \/ StatusOfBeacon \/ Restart \/ \E e \in BeaconEvent : PostRow(e)

SpecBeacon == InitBeacon /\ [][NextBeacon]_beaconVars

-----------------------------------------------------------------------------
BeaconTypeOK ==
  /\ timeline \in Seq(BeaconEvent) /\ {from, quiet} \subseteq 0..caught /\ caught \in 0..Len(timeline)
  /\ {kept.seq, kept.row} \subseteq 0..caught /\ kept.row <= kept.seq
  /\ losses \in 0..MaxLosses /\ missed \subseteq 1..Len(timeline)

(* What the status line says of Beacon is what the whole room says as far  *)
(* as it was heard, or nothing when the ring no longer holds a run.        *)
StateIsTrue == missed = {} => BeaconState(Ring) \in {"", BeaconState(1..caught)}

(* The answer of a run that was heard, from the row that gives it to its   *)
(* end, is kept however much the ring lets go of afterwards, until a later *)
(* run gives one; and what is kept is a row of the run it is said of, when *)
(* none of the rows from the one to the other was lost.                    *)
ConclusionIsKept ==
  LET c == BeaconConclusionOf(1..caught)
  IN  /\ c.row > from /\ c.seq > quiet /\ c.seq - c.row < RingMax /\ missed \cap (c.row..c.seq) = {} =>
           kept.seq = c.seq
      /\ kept.seq # 0 =>
           /\ kept.row # 0 /\ timeline[kept.seq].kind = "concluded"
           /\ missed \cap (kept.row..kept.seq) = {} => Of(kept.row..(kept.seq - 1), RunRows) = {}

(* "what the newest concluded run in the ring settled on" (people.go): also *)
(* of a run whose start, with the end of the one before, the socket lost.  *)
AnswerIsOfItsRun == kept.seq # 0 => Of(kept.row..(kept.seq - 1), RunRows) = {}

(* The dashboard and the status line give a claim the same state: one      *)
(* folds the events, the other the positions the server lists.             *)
StatesAgree ==
  \A n \in Of(DOMAIN timeline, {"staged"}) : claimStates(n) = claimState(ClaimView(n))

SaysOfBeacon == StateIsTrue /\ ConclusionIsKept /\ StatesAgree

(* The answer that is kept does not change while the ring moves on. *)
AnswerStands ==
  [][kept'.seq = kept.seq => kept' = kept]_beaconVars

(* The step shown while a run is on is a step of that run, by its number. *)
StepIsOfTheRun ==
  LET s == BeaconStepOf(Ring)
  IN  missed = {} /\ BeaconState(Ring) = "investigating" /\ s.run # 0 =>
        s.run = RunOf(caught)
=============================================================================
