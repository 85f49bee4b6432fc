-------------------------- MODULE RoomReadersProofs --------------------------
(***************************************************************************)
(* Theorems about RoomReaders, for any number of readers, hooks, pulls and *)
(* events and any faults.                                                  *)
(***************************************************************************)
EXTENDS RoomReaders, FiniteSetTheorems, WellFoundedInduction, TLAPS

\* The part of the type invariant the argument needs; every position in the
\* room's order is one the room has reached.
RoomPositions ==
  /\ posted \in 0..Last
  /\ wire \subseteq 1..posted /\ ring \subseteq 1..posted /\ frame \in 0..posted
  /\ missed \subseteq 1..posted
  /\ known \subseteq Reader
  /\ entering \subseteq DOMAIN PersonOf /\ entering \subseteq Agent
  /\ phase = "filling" => known # {}

ReaderPositions ==
  /\ cursor \in [Reader -> 0..posted] /\ start \in [Reader -> 0..posted]
  /\ file \in [known : SUBSET Reader, cursor : [Reader -> 0..posted]]

HookPositions ==
  hook \in [Hook -> [pc : {"idle", "peeked", "ready", "shown"},
                     tell : SUBSET News, saw : SUBSET (1..posted), upTo : 0..posted]]

PullPositions ==
  /\ pull \in [Pull -> [pc : {"idle", "asked", "fetched", "moved"}, since : 0..Last, to : 0..Last]]
  /\ \A q \in Pull : pull[q].pc \in {"fetched", "moved"} => pull[q].to <= posted

HistoryPositions ==
  /\ told \in [Reader -> SUBSET Event] /\ over \in [Reader -> SUBSET Event]

Positions ==
  RoomPositions /\ ReaderPositions /\ HookPositions /\ PullPositions /\ HistoryPositions

\* No cursor is past a piece of news its reader cannot account for ...
CursorsInv ==
  \A r \in known : \A e \in Owed(r) : e <= cursor[r] => e \in Accounted(r)

\* ... nor is any cursor the next daemon would start from.
FileInv ==
  \A r \in file.known : \A e \in Owed(r) : e <= file.cursor[r] => e \in Accounted(r)

\* What the peek of a hook read is in what the hook shows, or accounted for.
HookInv ==
  \A h \in Hook : \A e \in Owed(HookOf[h]) \cap hook[h].saw :
    /\ hook[h].pc \in {"peeked", "ready"} => e \in hook[h].tell \cup Accounted(HookOf[h])
    /\ hook[h].pc = "shown" => e \in Accounted(HookOf[h])

\* Every event is in the ring, on its way there or known to be lost, or no
\* reader will ask for it again.
RingInv ==
  phase = "on" =>
    \A e \in 1..posted :
      \/ e \in ring \cup wire \cup missed
      \/ \A r \in known : e <= cursor[r] \/ e <= start[r]

IInv == Positions /\ CursorsInv /\ FileInv /\ HookInv /\ RingInv

-----------------------------------------------------------------------------
\* A nonempty set of naturals up to n has a least and a greatest element.
LEMMA BoundedExtrema ==
  ASSUME NEW n \in Nat, NEW S \in SUBSET (0..n), S # {}
  PROVE  /\ Max(S) \in S
         /\ Min(S) \in S
         /\ \A y \in S : Min(S) <= y
PROOF
<1>1. \E x \in S : \A y \in S : x <= y
  <2>1. S \subseteq Nat
    BY SMT
  <2>2. PICK x \in S : \A y \in S : <<y, x>> \notin OpToRel(<, Nat)
    BY <2>1, WFMin, NatLessThanWellFounded, Zenon
  <2>3. \A y \in S : ~(y < x)
    BY <2>1, <2>2, Zenon DEF OpToRel
  <2> QED
    BY <2>1, <2>3, SMT
<1>2. \E x \in S : \A y \in S : x >= y
  <2> DEFINE T == {n - x : x \in S}
  <2>1. T \subseteq Nat /\ T # {}
    <3>1. \A x \in S : n - x \in Nat
      BY SMT
    <3> QED
      BY <3>1, Zenon
  <2>2. PICK t \in T : \A y \in T : <<y, t>> \notin OpToRel(<, Nat)
    BY <2>1, WFMin, NatLessThanWellFounded, Zenon
  <2>3. \A y \in T : ~(y < t)
    BY <2>1, <2>2, Zenon DEF OpToRel
  <2>4. PICK x \in S : t = n - x
    OBVIOUS
  <2>5. \A y \in S : n - y \in T
    OBVIOUS
  <2>6. \A y \in S : ~(n - y < n - x)
    BY <2>3, <2>4, <2>5, Zenon
  <2> QED
    BY <2>6, SMT
<1> QED
  BY <1>1, <1>2, Zenon DEF Max, Min

\* The newest seq of the room is one the room has.
LEMMA MaxSeqReached ==
  ASSUME Positions
  PROVE  MaxSeq \in 0..posted
PROOF
<1>1. posted \in Nat
  BY ReadersAssumption DEF Positions, RoomPositions
<1>2. (ring \cup {frame, 0}) \in SUBSET (0..posted)
  BY <1>1 DEF Positions, RoomPositions
<1>3. Max(ring \cup {frame, 0}) \in ring \cup {frame, 0}
  BY <1>1, <1>2, BoundedExtrema
<1> QED
  BY <1>2, <1>3 DEF MaxSeq

-----------------------------------------------------------------------------
(* Positions, part by part.                                                 *)

\* A backfill asks from a position every reader the room has has reached.
LEMMA LowestReached ==
  ASSUME Positions, known # {}
  PROVE  /\ Lowest \in Nat
         /\ \A r \in known : Lowest <= cursor[r]
PROOF
<1> DEFINE S == {cursor[r] : r \in known}
<1>1. posted \in Nat
  BY ReadersAssumption DEF Positions, RoomPositions
<1>2. S \in SUBSET (0..posted) /\ S # {}
  BY DEF Positions, RoomPositions, ReaderPositions
<1>3. Min(S) \in S /\ \A y \in S : Min(S) <= y
  BY <1>1, <1>2, BoundedExtrema, Zenon
<1>4. \A y \in S : y \in Nat
  BY <1>1, <1>2
<1> QED
  BY <1>3, <1>4, Zenon DEF S, Lowest

\* Events come to the room in order, and nothing in it is ahead of it.
LEMMA RoomPositionsStep ==
  ASSUME Positions, [Next]_vars
  PROVE  RoomPositions' /\ posted <= posted'
PROOF
<1> USE ReadersAssumption DEF Positions, RoomPositions, vars, net, room, readers, clients
<1>0. posted \in Nat
  OBVIOUS
<1>1. CASE UNCHANGED vars
  BY <1>1
<1>2. CASE Post
  BY <1>2 DEF Post
<1>3. CASE Subscribe \/ Outage
  <2>1. CASE Subscribe
    BY <2>1 DEF Subscribe
  <2>2. CASE Outage
    <3>1. missed' \subseteq 1..posted /\ wire' \subseteq 1..posted
      BY <2>2 DEF Outage
    <3> QED
      BY <2>2, <3>1 DEF Outage
  <2> QED
    BY <1>3, <2>1, <2>2
<1>4. CASE Deliver
  <2>1. Min(wire) \in wire
    <3>1. wire \in SUBSET (0..posted) /\ wire # {}
      BY <1>4 DEF Deliver
    <3> QED
      BY <1>0, <3>1, BoundedExtrema
  <2> QED
    <3>1. Newest(ring \cup {Min(wire)}) \subseteq 1..posted
      BY <2>1 DEF Newest
    <3>2. /\ ring' \subseteq 1..posted /\ wire' \subseteq 1..posted
          /\ missed' \subseteq 1..posted
      BY <1>4, <2>1, <3>1 DEF Deliver
    <3> QED
      BY <1>4, <3>2 DEF Deliver
<1>5. CASE FrameLands
  BY <1>5 DEF FrameLands
<1>6. CASE Open \/ Restore \/ RejoinFails
  <2>1. CASE Open
    BY <2>1 DEF Open
  <2>2. CASE Restore
    BY <2>2 DEF Restore
  <2>3. CASE RejoinFails
    BY <2>3 DEF RejoinFails
  <2> QED
    BY <1>6, <2>1, <2>2, <2>3
<1>7. CASE Backfill
  <2>1. Lowest \in Nat
    BY <1>7, LowestReached DEF Backfill
  <2> QED
    <3> DEFINE fetched == (Lowest + 1)..posted
    <3>1. ring \cup fetched \subseteq 1..posted
      BY <2>1
    <3>2. ring' \subseteq 1..posted /\ missed' \subseteq 1..posted
      BY <1>7, <3>1 DEF Backfill, Newest
    <3> QED
      BY <1>7, <3>2 DEF Backfill
<1>8. CASE BackfillFails
  BY <1>8 DEF BackfillFails
<1>9. CASE Crash \/ Stop \/ IdleExit
  BY <1>9 DEF Crash, Stop, IdleExit, Down, ReaderPositions
<1>10. ASSUME NEW a \in Agent, AttachAgent(a) PROVE RoomPositions' /\ posted <= posted'
  BY <1>10 DEF AttachAgent, Enter, Save, vars, Reader
<1>11. ASSUME NEW a \in Agent, AttachPersonOf(a) PROVE RoomPositions' /\ posted <= posted'
  BY <1>11 DEF AttachPersonOf, Enter, Reader
<1>12. ASSUME NEW a \in Agent, Detach(a) PROVE RoomPositions' /\ posted <= posted'
  BY <1>12 DEF Detach
<1>13. ASSUME NEW p \in Person, AttachPerson(p) PROVE RoomPositions' /\ posted <= posted'
  BY <1>13 DEF AttachPerson, Enter, Reader
<1>14. ASSUME NEW r \in Reader, Forget(r) PROVE RoomPositions' /\ posted <= posted'
  BY <1>14 DEF Forget
<1>15. ASSUME NEW h \in Hook, HookStep(h) \/ HookDies(h) PROVE RoomPositions' /\ posted <= posted'
  BY <1>15 DEF HookStep, HookDies, PeekUntold, PeekMax, Emit, Consume, ConsumeRefused
<1>16. ASSUME NEW q \in Pull, PullStep(q) PROVE RoomPositions' /\ posted <= posted'
  BY <1>16 DEF PullStep, Ask, Fetch, FetchFails, Move, Answer, AnswerLate
<1> QED
  BY <1>1, <1>2, <1>3, <1>4, <1>5, <1>6, <1>7, <1>8, <1>9, <1>10, <1>11, <1>12, <1>13, <1>14, <1>15, <1>16 DEF Next

\* Which steps leave the readers' positions alone.
LEMMA ReadersUntouched ==
  ASSUME \/ UNCHANGED vars
         \/ Post \/ Subscribe \/ Outage \/ Deliver \/ FrameLands
         \/ Open \/ Restore \/ RejoinFails \/ Backfill \/ BackfillFails
         \/ \E r \in Reader : Forget(r)
         \/ \E h \in Hook : PeekUntold(h) \/ PeekMax(h) \/ Emit(h) \/ ConsumeRefused(h) \/ HookDies(h)
         \/ \E q \in Pull : Ask(q) \/ Fetch(q) \/ FetchFails(q) \/ Answer(q) \/ AnswerLate(q)
  PROVE  /\ cursor' = cursor /\ start' = start /\ file' = file
         /\ known' = known \/ known' = {} \/ \E r \in Reader : known' = known \ {r}
PROOF
<1> USE DEF vars, net, room, readers, clients
<1>1. CASE UNCHANGED vars
  BY <1>1
<1>2. CASE Post \/ Subscribe \/ Outage \/ Deliver \/ FrameLands
  BY <1>2 DEF Post, Subscribe, Outage, Deliver, FrameLands
<1>3. CASE Open \/ Restore \/ RejoinFails \/ Backfill \/ BackfillFails
  BY <1>3 DEF Open, Restore, RejoinFails, Backfill, BackfillFails
<1>4. CASE \E r \in Reader : Forget(r)
  BY <1>4 DEF Forget
<1>5. CASE \E h \in Hook : PeekUntold(h) \/ PeekMax(h) \/ Emit(h) \/ ConsumeRefused(h) \/ HookDies(h)
  BY <1>5 DEF PeekUntold, PeekMax, Emit, ConsumeRefused, HookDies
<1>6. CASE \E q \in Pull : Ask(q) \/ Fetch(q) \/ FetchFails(q) \/ Answer(q) \/ AnswerLate(q)
  BY <1>6 DEF Ask, Fetch, FetchFails, Answer, AnswerLate
<1> QED
  BY <1>1, <1>2, <1>3, <1>4, <1>5, <1>6

\* A cursor is only ever set to a position the room had: its newest seq, the end
\* of a peek or the version of a delta, or what the file kept of these.
LEMMA ReaderPositionsStep ==
  ASSUME Positions, [Next]_vars
  PROVE  ReaderPositions'
PROOF
<1> USE ReadersAssumption DEF Positions, RoomPositions, ReaderPositions
<1>0. posted \in Nat /\ posted' \in Nat /\ posted <= posted' /\ known' \subseteq Reader
  BY RoomPositionsStep DEF RoomPositions
<1>1. ASSUME cursor' = cursor, start' = start, file' = file PROVE ReaderPositions'
  <2>1. 0..posted \subseteq 0..posted'
    BY <1>0
  <2>2. cursor \in [Reader -> 0..posted'] /\ start \in [Reader -> 0..posted']
    BY <2>1
  <2>3. file \in [known : SUBSET Reader, cursor : [Reader -> 0..posted']]
    BY <2>1
  <2> QED
    BY <1>1, <2>2, <2>3
<1>2. ASSUME Save, posted' = posted, cursor' \in [Reader -> 0..posted], start' \in [Reader -> 0..posted]
      PROVE  ReaderPositions'
  <2>1. CASE file' = [known |-> known', cursor |-> cursor']
    BY <1>0, <1>2, <2>1
  <2>2. CASE file' = file
    BY <1>2, <2>2
  <2> QED
    BY <1>2, <2>1, <2>2 DEF Save
<1>3. ASSUME NEW r \in Reader, Enter(r), posted' = posted
      PROVE  cursor' \in [Reader -> 0..posted] /\ start' \in [Reader -> 0..posted]
  BY <1>0, <1>3, MaxSeqReached DEF Enter
<1>4. ASSUME NEW r \in Reader, NEW n \in 0..posted, Raise(r, n)
      PROVE  cursor' \in [Reader -> 0..posted]
  BY <1>4 DEF Raise
<1>5. CASE Crash \/ Stop \/ IdleExit
  <2>1. /\ posted' = posted /\ start' = start /\ cursor' = file'.cursor
        /\ \/ file' = file
           \/ file' = [known |-> known, cursor |-> cursor]
           \/ file' = [known |-> {}, cursor |-> cursor]
    BY <1>5 DEF Crash, Stop, IdleExit, Down
  <2> QED
    BY <2>1
<1>6. ASSUME NEW a \in Agent, AttachAgent(a) PROVE ReaderPositions'
  <2>1. Enter(a) /\ posted' = posted /\ a \in Reader
    BY <1>6 DEF AttachAgent, net, Reader
  <2>2. cursor' \in [Reader -> 0..posted] /\ start' \in [Reader -> 0..posted]
    BY <1>3, <2>1
  <2>3. CASE file' = file
    BY <2>1, <2>2, <2>3
  <2> QED
    BY <1>2, <1>6, <2>1, <2>2, <2>3 DEF AttachAgent
<1>7. ASSUME NEW a \in Agent, AttachPersonOf(a) PROVE ReaderPositions'
  <2>1. Enter(PersonOf[a]) /\ posted' = posted /\ Save
    BY <1>7 DEF AttachPersonOf, net
  <2>2. PersonOf[a] \in Reader
    BY <1>7 DEF AttachPersonOf, Reader
  <2> QED
    BY <1>2, <1>3, <2>1, <2>2
<1>8. ASSUME NEW p \in Person, AttachPerson(p) PROVE ReaderPositions'
  <2>1. Enter(p) /\ posted' = posted /\ Save /\ p \in Reader
    BY <1>8 DEF AttachPerson, net, Reader
  <2> QED
    BY <1>2, <1>3, <2>1
<1>9. ASSUME NEW a \in Agent, Detach(a) PROVE ReaderPositions'
  <2>1. cursor' = cursor /\ start' = start /\ posted' = posted /\ Save
    BY <1>9 DEF Detach, net
  <2> QED
    BY <1>2, <2>1
<1>10. ASSUME NEW h \in Hook, Consume(h) PROVE ReaderPositions'
  <2>1. start' = start /\ posted' = posted /\ Save /\ Raise(HookOf[h], hook[h].upTo)
    BY <1>10 DEF Consume, net
  <2>2. HookOf[h] \in Reader /\ hook[h].upTo \in 0..posted
    BY DEF Reader, HookPositions
  <2> QED
    BY <1>2, <1>4, <2>1, <2>2
<1>11. ASSUME NEW q \in Pull, Move(q) PROVE ReaderPositions'
  <2>1. start' = start /\ posted' = posted /\ Save
    BY <1>11 DEF Move, net
  <2>2. PullOf[q] \in Reader /\ ToVersion(q) \in 0..posted
    BY <1>11 DEF Move, Reader, PullPositions, ToVersion
  <2>3. cursor' \in [Reader -> 0..posted]
    BY <1>4, <1>11, <2>2 DEF Move
  <2> QED
    BY <1>2, <2>1, <2>3
<1> QED
  BY <1>1, <1>5, <1>6, <1>7, <1>8, <1>9, <1>10, <1>11, ReadersUntouched DEF Next, HookStep, PullStep

\* A peek answers with positions the room has.
LEMMA HookPositionsStep ==
  ASSUME Positions, [Next]_vars
  PROVE  HookPositions'
PROOF
<1> USE ReadersAssumption DEF Positions, RoomPositions, HookPositions
<1>0. posted \in Nat /\ posted' \in Nat /\ posted <= posted'
  BY RoomPositionsStep DEF RoomPositions
<1>1. ASSUME NEW h \in Hook,
             NEW x \in [pc : {"idle", "peeked", "ready", "shown"},
                        tell : SUBSET News, saw : SUBSET (1..posted), upTo : 0..posted],
             hook' = [hook EXCEPT ![h] = x], posted' = posted
      PROVE  HookPositions'
  BY <1>1
<1>2. Idle \in [pc : {"idle", "peeked", "ready", "shown"},
                tell : SUBSET News, saw : SUBSET (1..posted), upTo : 0..posted]
  BY <1>0 DEF Idle
<1>3. ASSUME NEW h \in Hook, HookStep(h) \/ HookDies(h) PROVE HookPositions'
  <2>0. posted' = posted
    BY <1>3 DEF HookStep, HookDies, PeekUntold, PeekMax, Emit, Consume, ConsumeRefused, net
  <2>1. CASE PeekUntold(h)
    BY <1>0, <2>1, <2>0 DEF PeekUntold, Untold
  <2>2. CASE PeekMax(h)
    <3>1. hook' = [hook EXCEPT ![h] = [hook[h] EXCEPT !.pc = "ready", !.upTo = MaxSeq]]
      BY <2>2 DEF PeekMax
    <3>2. [hook[h] EXCEPT !.pc = "ready", !.upTo = MaxSeq]
            \in [pc : {"idle", "peeked", "ready", "shown"},
                 tell : SUBSET News, saw : SUBSET (1..posted), upTo : 0..posted]
      BY MaxSeqReached
    <3> QED
      BY <1>1, <2>0, <3>1, <3>2
  <2>3. CASE Emit(h)
    BY <2>3, <2>0 DEF Emit
  <2>4. CASE Consume(h) \/ ConsumeRefused(h) \/ HookDies(h)
    <3>1. hook' = [hook EXCEPT ![h] = Idle]
      BY <2>4 DEF Consume, ConsumeRefused, HookDies
    <3> QED
      BY <1>1, <1>2, <2>0, <3>1
  <2> QED
    BY <1>3, <2>1, <2>2, <2>3, <2>4 DEF HookStep
<1>4. CASE Crash \/ Stop \/ IdleExit
  <2>1. /\ hook' = [h \in Hook |-> IF hook[h].pc = "peeked" THEN Idle ELSE hook[h]]
        /\ posted' = posted
    BY <1>4 DEF Crash, Stop, IdleExit, Down
  <2> QED
    BY <1>2, <2>1
<1>5. ASSUME hook' = hook PROVE HookPositions'
  <2>1. 0..posted \subseteq 0..posted' /\ 1..posted \subseteq 1..posted'
    BY <1>0
  <2>2. hook \in [Hook -> [pc : {"idle", "peeked", "ready", "shown"},
                           tell : SUBSET News, saw : SUBSET (1..posted'), upTo : 0..posted']]
    BY <2>1
  <2> QED
    BY <1>5, <2>2
<1>6. CASE UNCHANGED vars
  BY <1>5, <1>6 DEF vars, clients
<1>7. CASE Post \/ Subscribe \/ Outage \/ Deliver \/ FrameLands
  BY <1>5, <1>7 DEF Post, Subscribe, Outage, Deliver, FrameLands, clients
<1>8. CASE Open \/ Restore \/ RejoinFails \/ Backfill \/ BackfillFails
  BY <1>5, <1>8 DEF Open, Restore, RejoinFails, Backfill, BackfillFails, clients
<1>9. CASE \E a \in Agent : AttachAgent(a) \/ AttachPersonOf(a) \/ Detach(a)
  BY <1>5, <1>9 DEF AttachAgent, AttachPersonOf, Detach, clients
<1>10. CASE (\E p \in Person : AttachPerson(p)) \/ (\E r \in Reader : Forget(r))
  BY <1>5, <1>10 DEF AttachPerson, Forget, clients
<1>11. CASE \E q \in Pull : PullStep(q)
  BY <1>5, <1>11 DEF PullStep, Ask, Fetch, FetchFails, Move, Answer, AnswerLate
<1> QED
  BY <1>3, <1>4, <1>6, <1>7, <1>8, <1>9, <1>10, <1>11 DEF Next

\* A delta goes up to a version the room has.
LEMMA PullPositionsStep ==
  ASSUME Positions, [Next]_vars
  PROVE  PullPositions'
PROOF
<1> USE ReadersAssumption DEF Positions, RoomPositions, PullPositions
<1>0. posted \in 0..Last /\ posted' \in 0..Last /\ posted <= posted' /\ Last \in Nat
  BY RoomPositionsStep DEF RoomPositions
<1>1. ASSUME NEW q \in Pull, PullStep(q) PROVE PullPositions'
  <2>0. posted' = posted
    BY <1>1 DEF PullStep, Ask, Fetch, FetchFails, Move, Answer, AnswerLate, net
  <2>1. CASE Ask(q)
    <3>1. PICK since \in {cursor[PullOf[q]]} \cup AskFrom :
             pull' = [pull EXCEPT ![q] = [pc |-> "asked", since |-> since, to |-> since]]
      BY <2>1 DEF Ask
    <3>2. PullOf[q] \in Reader
      BY DEF Reader
    <3>3. cursor[PullOf[q]] \in 0..posted
      BY <3>2 DEF ReaderPositions
    <3>4. since \in 0..Last
      <4>1. 0..posted \subseteq 0..Last
        BY <1>0
      <4>2. AskFrom \subseteq 0..Last
        OBVIOUS
      <4> QED
        BY <3>1, <3>3, <4>1, <4>2, Zenon
    <3> QED
      BY <2>0, <3>1, <3>4
  <2>2. CASE Fetch(q)
    BY <1>0, <2>0, <2>2 DEF Fetch
  <2>3. CASE FetchFails(q) \/ Answer(q) \/ AnswerLate(q)
    <3>1. pull' = [pull EXCEPT ![q] = NoPull]
      BY <2>3 DEF FetchFails, Answer, AnswerLate
    <3> QED
      BY <1>0, <2>0, <3>1 DEF NoPull
  <2>4. CASE Move(q)
    BY <2>0, <2>4 DEF Move
  <2> QED
    BY <1>1, <2>1, <2>2, <2>3, <2>4 DEF PullStep
<1>2. CASE Crash \/ Stop \/ IdleExit
  <2>1. pull' = [q \in Pull |-> NoPull]
    BY <1>2 DEF Crash, Stop, IdleExit, Down
  <2> QED
    BY <1>0, <2>1 DEF NoPull
<1>3. ASSUME pull' = pull PROVE PullPositions'
  BY <1>0, <1>3
<1>4. CASE UNCHANGED vars
  BY <1>3, <1>4 DEF vars, clients
<1>5. CASE Post \/ Subscribe \/ Outage \/ Deliver \/ FrameLands
  BY <1>3, <1>5 DEF Post, Subscribe, Outage, Deliver, FrameLands, clients
<1>6. CASE Open \/ Restore \/ RejoinFails \/ Backfill \/ BackfillFails
  BY <1>3, <1>6 DEF Open, Restore, RejoinFails, Backfill, BackfillFails, clients
<1>7. CASE \E a \in Agent : AttachAgent(a) \/ AttachPersonOf(a) \/ Detach(a)
  BY <1>3, <1>7 DEF AttachAgent, AttachPersonOf, Detach, clients
<1>8. CASE (\E p \in Person : AttachPerson(p)) \/ (\E r \in Reader : Forget(r))
  BY <1>3, <1>8 DEF AttachPerson, Forget, clients
<1>9. CASE \E h \in Hook : HookStep(h) \/ HookDies(h)
  BY <1>3, <1>9 DEF HookStep, HookDies, PeekUntold, PeekMax, Emit, Consume, ConsumeRefused
<1> QED
  BY <1>1, <1>2, <1>4, <1>5, <1>6, <1>7, <1>8, <1>9 DEF Next

\* What a pull holds, and which steps leave all of that alone.
LEMMA InHandEvents ==
  ASSUME Positions
  PROVE  /\ \A q \in Pull : InHand(q) \subseteq Event
         /\ \A r : InHandOf(r) \subseteq Event
PROOF
<1> USE ReadersAssumption DEF Positions
<1>1. ASSUME NEW q \in Pull PROVE InHand(q) \subseteq Event
  BY DEF PullPositions, InHand, Event
<1> QED
  BY <1>1, Zenon DEF InHandOf

\* Which steps change nothing of what readers can account for.
LEMMA HistoryUntouched ==
  ASSUME \/ UNCHANGED vars
         \/ Post \/ Subscribe \/ Outage \/ Deliver \/ FrameLands
         \/ Open \/ Restore \/ RejoinFails \/ Backfill \/ BackfillFails
         \/ \E a \in Agent : AttachAgent(a) \/ AttachPersonOf(a) \/ Detach(a)
         \/ \E p \in Person : AttachPerson(p)
         \/ \E r \in Reader : Forget(r)
         \/ \E h \in Hook : PeekUntold(h) \/ PeekMax(h) \/ ConsumeRefused(h) \/ HookDies(h)
  PROVE  told' = told /\ over' = over /\ pull' = pull
PROOF
<1> USE DEF vars, clients
<1>1. CASE UNCHANGED vars
  BY <1>1
<1>2. CASE Post \/ Subscribe \/ Outage \/ Deliver \/ FrameLands
  BY <1>2 DEF Post, Subscribe, Outage, Deliver, FrameLands
<1>3. CASE Open \/ Restore \/ RejoinFails \/ Backfill \/ BackfillFails
  BY <1>3 DEF Open, Restore, RejoinFails, Backfill, BackfillFails
<1>4. CASE \E a \in Agent : AttachAgent(a) \/ AttachPersonOf(a) \/ Detach(a)
  BY <1>4 DEF AttachAgent, AttachPersonOf, Detach
<1>5. CASE (\E p \in Person : AttachPerson(p)) \/ (\E r \in Reader : Forget(r))
  BY <1>5 DEF AttachPerson, Forget
<1>6. CASE \E h \in Hook : PeekUntold(h) \/ PeekMax(h) \/ ConsumeRefused(h) \/ HookDies(h)
  BY <1>6 DEF PeekUntold, PeekMax, ConsumeRefused, HookDies
<1> QED
  BY <1>1, <1>2, <1>3, <1>4, <1>5, <1>6

\* What readers can account for are events.
LEMMA HistoryPositionsStep ==
  ASSUME Positions, [Next]_vars
  PROVE  HistoryPositions'
PROOF
<1> USE ReadersAssumption DEF Positions, RoomPositions, HistoryPositions
<1>1. ASSUME NEW r \in Reader, NEW s \in SUBSET Event,
             \/ told' = [told EXCEPT ![r] = @ \cup s] /\ over' = over
             \/ over' = [over EXCEPT ![r] = @ \cup s] /\ told' = told
      PROVE  HistoryPositions'
  BY <1>1
<1>2. ASSUME NEW h \in Hook, Emit(h) PROVE HistoryPositions'
  <2>1. HookOf[h] \in Reader /\ hook[h].tell \in SUBSET Event
    BY DEF Reader, HookPositions
  <2> QED
    BY <1>1, <1>2, <2>1 DEF Emit
<1>3. ASSUME NEW h \in Hook, Consume(h) PROVE HistoryPositions'
  <2> DEFINE s == {e \in Overtaken(h) : e > cursor[HookOf[h]] /\ e \notin told[HookOf[h]]}
  <2>1. HookOf[h] \in Reader
    BY DEF Reader
  <2>2. s \in SUBSET Event
    BY DEF Overtaken, HookPositions, Event
  <2>3. over' = [over EXCEPT ![HookOf[h]] = @ \cup s] /\ told' = told
    BY <1>3 DEF Consume
  <2> QED
    BY <1>1, <2>1, <2>2, <2>3
<1>4. ASSUME NEW q \in Pull, Move(q) PROVE HistoryPositions'
  <2> DEFINE s == (cursor[PullOf[q]] + 1)..pull[q].since
  <2>1. PullOf[q] \in Reader
    BY DEF Reader
  <2>2. s \in SUBSET Event
    BY <2>1 DEF ReaderPositions, PullPositions, Event
  <2>3. told' = told /\ (over' = over \/ over' = [over EXCEPT ![PullOf[q]] = @ \cup s])
    BY <1>4 DEF Move
  <2> QED
    BY <1>1, <2>1, <2>2, <2>3
<1>5. ASSUME NEW q \in Pull, Answer(q) \/ AnswerLate(q) PROVE HistoryPositions'
  <2>1. PullOf[q] \in Reader /\ InHand(q) \in SUBSET Event
    BY InHandEvents DEF Reader
  <2>2. \/ told' = [told EXCEPT ![PullOf[q]] = @ \cup InHand(q)] /\ over' = over
        \/ over' = [over EXCEPT ![PullOf[q]] = @ \cup InHand(q)] /\ told' = told
    BY <1>5 DEF Answer, AnswerLate
  <2> QED
    BY <1>1, <2>1, <2>2
<1>6. ASSUME NEW q \in Pull, Ask(q) \/ Fetch(q) \/ FetchFails(q) PROVE HistoryPositions'
  BY <1>6 DEF Ask, Fetch, FetchFails
<1>7. CASE Crash \/ Stop \/ IdleExit
  <2>1. /\ over' = [r \in Reader |-> IF r \in Agent THEN over[r] \cup InHandOf(r) ELSE over[r]]
        /\ told' = told
    BY <1>7 DEF Crash, Stop, IdleExit, Down
  <2>2. \A r : InHandOf(r) \subseteq Event
    BY InHandEvents
  <2> QED
    BY <2>1, <2>2
<1> QED
  BY <1>2, <1>3, <1>4, <1>5, <1>6, <1>7, HistoryUntouched DEF Next, HookStep, PullStep

\* No step takes a position past the room.
LEMMA PositionsStep ==
  ASSUME Positions, [Next]_vars
  PROVE  Positions'
BY RoomPositionsStep, ReaderPositionsStep, HookPositionsStep, PullPositionsStep, HistoryPositionsStep
   DEF Positions

-----------------------------------------------------------------------------
\* What no step takes back: the room's order, where a reader came in, and what
\* it can account for.
Grows ==
  /\ posted <= posted'
  /\ \A r \in Reader : start[r] <= start'[r] /\ Accounted(r) \subseteq Accounted(r)'

\* No step takes back what a reader can account for: what a pull has in hand is
\* handed over, or given up for a reason, before its hand is empty.
LEMMA StepGrows ==
  ASSUME Positions, [Next]_vars
  PROVE  Grows
PROOF
<1> USE ReadersAssumption
<1>0. posted <= posted'
  BY RoomPositionsStep
<1>1. ASSUME NEW r \in Reader PROVE start[r] <= start'[r]
  <2>0. start \in [Reader -> 0..posted] /\ posted \in Nat
    BY DEF Positions, RoomPositions, ReaderPositions
  <2>1. ASSUME NEW x \in Reader, Enter(x) PROVE start[r] <= start'[r]
    BY <2>0, <2>1 DEF Enter
  <2>2. ASSUME start' = start PROVE start[r] <= start'[r]
    BY <2>0, <2>2
  <2>3. CASE \E a \in Agent : AttachAgent(a) \/ AttachPersonOf(a)
    <3>1. PICK x \in Reader : Enter(x)
      BY <2>3 DEF AttachAgent, AttachPersonOf, Reader, Positions, RoomPositions
    <3> QED
      BY <2>1, <3>1
  <2>4. CASE \E p \in Person : AttachPerson(p)
    <3>1. PICK x \in Reader : Enter(x)
      BY <2>4 DEF AttachPerson, Reader
    <3> QED
      BY <2>1, <3>1
  <2>5. CASE \E a \in Agent : Detach(a)
    BY <2>2, <2>5 DEF Detach
  <2>6. CASE Crash \/ Stop \/ IdleExit
    BY <2>2, <2>6 DEF Crash, Stop, IdleExit, Down
  <2>7. CASE \E h \in Hook : Consume(h)
    BY <2>2, <2>7 DEF Consume
  <2>8. CASE \E q \in Pull : Move(q)
    BY <2>2, <2>8 DEF Move
  <2> QED
    BY <2>2, <2>3, <2>4, <2>5, <2>6, <2>7, <2>8, ReadersUntouched DEF Next, HookStep, PullStep
<1>2. ASSUME NEW r \in Reader PROVE Accounted(r) \subseteq Accounted(r)'
  <2>0. told \in [Reader -> SUBSET Event] /\ over \in [Reader -> SUBSET Event]
    BY DEF Positions, HistoryPositions
  <2>1. ASSUME told' = told, over' = over, pull' = pull PROVE Accounted(r) \subseteq Accounted(r)'
    BY <2>1 DEF Accounted, InHandOf, InHand
  <2>2. ASSUME pull' = pull, told[r] \cup over[r] \subseteq told'[r] \cup over'[r]
        PROVE  Accounted(r) \subseteq Accounted(r)'
    <3>1. InHandOf(r)' = InHandOf(r)
      BY <2>2 DEF InHandOf, InHand
    <3> QED
      BY <2>2, <3>1 DEF Accounted
  <2>3. ASSUME NEW h \in Hook, Emit(h) \/ Consume(h) PROVE Accounted(r) \subseteq Accounted(r)'
    <3>1. told[r] \cup over[r] \subseteq told'[r] \cup over'[r] /\ pull' = pull
      BY <2>0, <2>3 DEF Emit, Consume
    <3> QED
      BY <2>2, <3>1
  <2>4. CASE Crash \/ Stop \/ IdleExit
    <3>1. /\ over' = [x \in Reader |-> IF x \in Agent THEN over[x] \cup InHandOf(x) ELSE over[x]]
          /\ told' = told
      BY <2>4 DEF Crash, Stop, IdleExit, Down
    <3>2. r \notin Agent => InHandOf(r) = {}
      BY DEF InHandOf
    <3> QED
      BY <3>1, <3>2 DEF Accounted
  <2>5. ASSUME NEW q \in Pull, pull[q].pc # "moved", \A p \in Pull \ {q} : pull'[p] = pull[p],
               told[r] \cup over[r] \subseteq told'[r] \cup over'[r]
        PROVE  Accounted(r) \subseteq Accounted(r)'
    <3>1. \A p \in Pull : InHand(p) \subseteq InHand(p)'
      BY <2>5 DEF InHand
    <3>2. InHandOf(r) \subseteq InHandOf(r)'
      BY <3>1, Zenon DEF InHandOf
    <3> QED
      BY <2>5, <3>2 DEF Accounted
  <2>6. ASSUME NEW q \in Pull, Ask(q) \/ Fetch(q) \/ FetchFails(q) \/ Move(q)
        PROVE  Accounted(r) \subseteq Accounted(r)'
    <3>1. pull[q].pc # "moved"
      BY <2>6 DEF Ask, Fetch, FetchFails, Move
    <3>2. \A p \in Pull \ {q} : pull'[p] = pull[p]
      BY <2>6 DEF Ask, Fetch, FetchFails, Move, Positions, PullPositions
    <3>3. told[r] \cup over[r] \subseteq told'[r] \cup over'[r]
      BY <2>0, <2>6 DEF Ask, Fetch, FetchFails, Move
    <3> QED
      BY <2>5, <3>1, <3>2, <3>3
  <2>7. ASSUME NEW q \in Pull, Answer(q) \/ AnswerLate(q)
        PROVE  Accounted(r) \subseteq Accounted(r)'
    <3>1. \A p \in Pull \ {q} : InHand(p) \subseteq InHand(p)'
      BY <2>7 DEF Answer, AnswerLate, InHand, Positions, PullPositions
    <3>2. /\ told[r] \cup over[r] \subseteq told'[r] \cup over'[r]
          /\ PullOf[q] = r => InHand(q) \subseteq told'[r] \cup over'[r]
      BY <2>0, <2>7 DEF Answer, AnswerLate
    <3>3. \A e \in InHandOf(r) : \E p \in Pull : PullOf[p] = r /\ e \in InHand(p)
      BY Zenon DEF InHandOf
    <3>4. \A p \in Pull : PullOf[p] = r => InHand(p)' \subseteq InHandOf(r)'
      BY Zenon DEF InHandOf
    <3>5. \A e \in InHandOf(r) : e \in InHandOf(r)' \/ e \in told'[r] \cup over'[r]
      BY <3>1, <3>2, <3>3, <3>4
    <3> QED
      BY <3>2, <3>5 DEF Accounted
  <2> QED
    BY <2>1, <2>3, <2>4, <2>6, <2>7, HistoryUntouched DEF Next, HookStep, PullStep
<1> QED
  BY <1>0, <1>1, <1>2 DEF Grows

-----------------------------------------------------------------------------
(* What every reader can account for.                                       *)

\* Nothing new is owed at or below a position the room already had.
LEMMA OwedShrinks ==
  ASSUME Grows, NEW r \in Reader, NEW e \in Owed(r)', e <= posted,
         Positions, Positions'
  PROVE  e \in Owed(r)
BY ReadersAssumption DEF Grows, Owed, Positions, RoomPositions, ReaderPositions, Event

\* A reader whose cursor stays is accounted for as before.
LEMMA CursorKept ==
  ASSUME Positions, Positions', Grows, CursorsInv,
         NEW r \in known, cursor'[r] = cursor[r], NEW e \in Owed(r)', e <= cursor'[r]
  PROVE  e \in Accounted(r)'
PROOF
<1>1. r \in Reader /\ cursor[r] \in 0..posted /\ posted \in Nat /\ e \in Int
  BY ReadersAssumption DEF Positions, RoomPositions, ReaderPositions, Owed, Event
<1>2. e \in Owed(r)
  BY <1>1, OwedShrinks
<1> QED
  BY <1>1, <1>2 DEF CursorsInv, Grows

\* A file that is not written stays as good as it was.
LEMMA FileKept ==
  ASSUME Positions, Positions', Grows, FileInv, file' = file
  PROVE  FileInv'
PROOF
<1> SUFFICES ASSUME NEW r \in file.known, NEW e \in Owed(r)', e <= file.cursor[r]
             PROVE  e \in Accounted(r)'
  BY DEF FileInv
<1>1. r \in Reader /\ file.cursor[r] \in 0..posted /\ posted \in Nat /\ e \in Int
  BY ReadersAssumption DEF Positions, RoomPositions, ReaderPositions, Owed, Event
<1>2. e \in Owed(r)
  BY <1>1, OwedShrinks
<1> QED
  BY <1>1, <1>2 DEF FileInv, Grows

\* A hook that does not step stays as good as it was.
LEMMA HookKept ==
  ASSUME Positions, Positions', Grows, HookInv, NEW h \in Hook,
         hook'[h] = hook[h] \/ hook'[h] = Idle,
         NEW e \in Owed(HookOf[h])' \cap hook'[h].saw
  PROVE  /\ hook'[h].pc \in {"peeked", "ready"} => e \in hook'[h].tell \cup Accounted(HookOf[h])'
         /\ hook'[h].pc = "shown" => e \in Accounted(HookOf[h])'
PROOF
<1>1. hook'[h] = hook[h]
  BY DEF Idle
<1>2. HookOf[h] \in Reader /\ posted \in Nat /\ e \in 1..posted
  BY <1>1, ReadersAssumption DEF Positions, RoomPositions, HookPositions, Reader
<1>3. e \in Owed(HookOf[h])
  BY <1>2, OwedShrinks
<1> QED
  BY <1>1, <1>2, <1>3 DEF HookInv, Grows

\* A save writes what holds of the cursors, or writes nothing.
LEMMA Saved ==
  ASSUME Positions, Positions', Grows, FileInv, CursorsInv', Save
  PROVE  FileInv'
PROOF
<1>1. CASE file' = [known |-> known', cursor |-> cursor']
  BY <1>1 DEF FileInv, CursorsInv, Owed, Accounted
<1>2. CASE file' = file
  BY <1>2, FileKept
<1> QED
  BY <1>1, <1>2 DEF Save

\* The hooks, step by step.
LEMMA HookInvStep ==
  ASSUME Positions, Positions', Grows, CursorsInv, HookInv, [Next]_vars
  PROVE  HookInv'
PROOF
<1> USE ReadersAssumption
<1>1. ASSUME \A h \in Hook : hook'[h] = hook[h] \/ hook'[h] = Idle
      PROVE  HookInv'
  BY <1>1, HookKept DEF HookInv
<1>2. ASSUME NEW h \in Hook, PeekUntold(h) \/ PeekMax(h) \/ Emit(h)
      PROVE  HookInv'
  <2>0. hook \in [Hook -> [pc : {"idle", "peeked", "ready", "shown"},
                          tell : SUBSET News, saw : SUBSET (1..posted), upTo : 0..posted]]
    BY DEF Positions, HookPositions
  <2>1. \A x \in Hook \ {h} : hook'[x] = hook[x]
    BY <1>2, <2>0 DEF PeekUntold, PeekMax, Emit
  <2>2. posted' = posted /\ start' = start /\ cursor' = cursor
    BY <1>2 DEF PeekUntold, PeekMax, Emit, net, readers
  <2>3. HookOf[h] \in Reader /\ Owed(HookOf[h])' = Owed(HookOf[h])
    BY <2>2 DEF Owed, Reader
  <2>4. Accounted(HookOf[h]) \subseteq Accounted(HookOf[h])'
    BY <2>3 DEF Grows
  <2>5. ASSUME NEW e \in Owed(HookOf[h])' \cap hook'[h].saw
        PROVE  /\ hook'[h].pc \in {"peeked", "ready"} => e \in hook'[h].tell \cup Accounted(HookOf[h])'
               /\ hook'[h].pc = "shown" => e \in Accounted(HookOf[h])'
    <3>1. e \in Owed(HookOf[h])
      BY <2>3, <2>5
    <3>2. CASE PeekUntold(h)
      <4>1. /\ hook'[h].pc = "peeked" /\ hook'[h].tell = Untold(HookOf[h]) /\ hook'[h].saw = ring
            /\ HookOf[h] \in known
        BY <2>0, <3>2 DEF PeekUntold
      <4>2. e \in ring /\ e \in News /\ e \in Int /\ cursor[HookOf[h]] \in Int
        BY <2>3, <2>5, <3>1, <4>1 DEF Owed, Event, Positions, RoomPositions, ReaderPositions
      <4>3. CASE e <= cursor[HookOf[h]]
        BY <2>4, <3>1, <4>1, <4>3 DEF CursorsInv
      <4>4. CASE e > cursor[HookOf[h]]
        BY <4>1, <4>2, <4>4 DEF Untold
      <4> QED
        BY <4>1, <4>2, <4>3, <4>4
    <3>3. CASE PeekMax(h)
      <4>1. /\ hook'[h].pc = "ready" /\ hook'[h].tell = hook[h].tell /\ hook'[h].saw = hook[h].saw
            /\ hook[h].pc = "peeked"
        BY <2>0, <3>3 DEF PeekMax
      <4> QED
        BY <2>4, <2>5, <3>1, <4>1 DEF HookInv
    <3>4. CASE Emit(h)
      <4>1. /\ hook'[h].pc = "shown" /\ hook'[h].saw = hook[h].saw
            /\ hook[h].pc = "ready"
        BY <2>0, <3>4 DEF Emit
      <4>2. hook[h].tell \subseteq told'[HookOf[h]]
        BY <2>3, <3>4 DEF Emit, Positions, HistoryPositions
      <4> QED
        BY <2>4, <2>5, <3>1, <4>1, <4>2 DEF HookInv, Accounted
    <3> QED
      BY <1>2, <3>2, <3>3, <3>4
  <2> SUFFICES ASSUME NEW x \in Hook, NEW e \in Owed(HookOf[x])' \cap hook'[x].saw
               PROVE  /\ hook'[x].pc \in {"peeked", "ready"} => e \in hook'[x].tell \cup Accounted(HookOf[x])'
                      /\ hook'[x].pc = "shown" => e \in Accounted(HookOf[x])'
    BY DEF HookInv
  <2>6. CASE x = h
    BY <2>5, <2>6
  <2>7. CASE x # h
    BY <2>1, <2>7, HookKept
  <2> QED
    BY <2>6, <2>7
<1>3. ASSUME NEW h \in Hook, Consume(h) \/ ConsumeRefused(h) \/ HookDies(h) PROVE HookInv'
  <2>1. hook' = [hook EXCEPT ![h] = Idle]
    BY <1>3 DEF Consume, ConsumeRefused, HookDies
  <2> QED
    BY <1>1, <2>1 DEF Positions, HookPositions
<1>4. CASE Crash \/ Stop \/ IdleExit
  <2>1. hook' = [h \in Hook |-> IF hook[h].pc = "peeked" THEN Idle ELSE hook[h]]
    BY <1>4 DEF Crash, Stop, IdleExit, Down
  <2> QED
    BY <1>1, <2>1
<1>5. CASE UNCHANGED vars
  BY <1>1, <1>5 DEF vars, clients
<1>6. CASE Post \/ Subscribe \/ Outage \/ Deliver \/ FrameLands
  BY <1>1, <1>6 DEF Post, Subscribe, Outage, Deliver, FrameLands, clients
<1>7. CASE Open \/ Restore \/ RejoinFails \/ Backfill \/ BackfillFails
  BY <1>1, <1>7 DEF Open, Restore, RejoinFails, Backfill, BackfillFails, clients
<1>8. CASE \E a \in Agent : AttachAgent(a) \/ AttachPersonOf(a) \/ Detach(a)
  BY <1>1, <1>8 DEF AttachAgent, AttachPersonOf, Detach, clients
<1>9. CASE (\E p \in Person : AttachPerson(p)) \/ (\E r \in Reader : Forget(r))
  BY <1>1, <1>9 DEF AttachPerson, Forget, clients
<1>10. CASE \E q \in Pull : PullStep(q)
  BY <1>1, <1>10 DEF PullStep, Ask, Fetch, FetchFails, Move, Answer, AnswerLate
<1> QED
  BY <1>2, <1>3, <1>4, <1>5, <1>6, <1>7, <1>8, <1>9, <1>10 DEF Next, HookStep

\* The cursors and the file, step by step.
LEMMA CursorsStep ==
  ASSUME Positions, Positions', Grows, CursorsInv, FileInv, HookInv, [Next]_vars
  PROVE  CursorsInv' /\ FileInv'
PROOF
<1> USE ReadersAssumption
<1>0. /\ posted \in Nat /\ posted' \in Nat /\ known \subseteq Reader /\ known' \subseteq Reader
      /\ cursor \in [Reader -> 0..posted] /\ cursor' \in [Reader -> 0..posted']
      /\ told \in [Reader -> SUBSET Event] /\ over \in [Reader -> SUBSET Event]
  BY DEF Positions, RoomPositions, ReaderPositions, HistoryPositions
<1>1. ASSUME cursor' = cursor, known' \subseteq known PROVE CursorsInv'
  BY <1>1, CursorKept DEF CursorsInv
<1>2. ASSUME cursor' = cursor, known' \subseteq known, file' = file PROVE CursorsInv' /\ FileInv'
  BY <1>1, <1>2, FileKept
\* A reader that comes in is owed nothing yet.
<1>3. ASSUME NEW r \in Reader, Enter(r), posted' = posted PROVE CursorsInv'
  <2> SUFFICES ASSUME NEW x \in known', NEW e \in Owed(x)', e <= cursor'[x]
               PROVE  e \in Accounted(x)'
    BY DEF CursorsInv
  <2>1. CASE x \in known
    <3>1. cursor'[x] = cursor[x]
      BY <1>0, <1>3, <2>1 DEF Enter
    <3> QED
      BY <2>1, <3>1, CursorKept
  <2>2. CASE x \notin known
    <3>1. x = r /\ start'[x] = posted
      BY <1>0, <1>3, <2>2 DEF Enter, Positions, ReaderPositions
    <3>2. start'[x] < e /\ e <= posted'
      BY DEF Owed
    <3>3. e \in Int
      BY DEF Owed, Event
    <3> QED
      BY <1>0, <1>3, <3>1, <3>2, <3>3
  <2> QED
    BY <2>1, <2>2
<1>4. CASE Crash \/ Stop \/ IdleExit
  <2>1. known' = file'.known /\ cursor' = file'.cursor
    BY <1>4 DEF Crash, Stop, IdleExit, Down
  <2>2. /\ \/ file' = file
           \/ file' = [known |-> known, cursor |-> cursor]
           \/ file' = [known |-> {}, cursor |-> cursor]
    BY <1>4 DEF Crash, Stop, IdleExit
  <2>3. CASE file' = file
    <3>1. FileInv'
      BY <2>3, FileKept
    <3> QED
      BY <2>1, <3>1 DEF FileInv, CursorsInv, Owed, Accounted
  <2>4. CASE file' = [known |-> known, cursor |-> cursor]
    <3>1. cursor' = cursor /\ known' = known
      BY <2>1, <2>4
    <3>2. CursorsInv'
      BY <1>1, <3>1
    <3> QED
      BY <2>1, <3>2 DEF FileInv, CursorsInv, Owed, Accounted
  <2>5. CASE file' = [known |-> {}, cursor |-> cursor]
    BY <2>1, <2>5 DEF FileInv, CursorsInv
  <2> QED
    BY <2>2, <2>3, <2>4, <2>5
<1>5. ASSUME NEW a \in Agent, AttachAgent(a) PROVE CursorsInv' /\ FileInv'
  <2>1. Enter(a) /\ posted' = posted /\ a \in Reader
    BY <1>5 DEF AttachAgent, net, Reader
  <2>2. CursorsInv'
    BY <1>3, <2>1
  <2>3. file' = file \/ Save
    BY <1>5 DEF AttachAgent
  <2> QED
    BY <2>2, <2>3, Saved, FileKept
<1>6. ASSUME NEW a \in Agent, AttachPersonOf(a) PROVE CursorsInv' /\ FileInv'
  <2>1. Enter(PersonOf[a]) /\ posted' = posted /\ Save
    BY <1>6 DEF AttachPersonOf, net
  <2>2. PersonOf[a] \in Reader
    BY <1>6 DEF AttachPersonOf, Reader, Positions, RoomPositions
  <2> QED
    BY <1>3, <2>1, <2>2, Saved
<1>7. ASSUME NEW p \in Person, AttachPerson(p) PROVE CursorsInv' /\ FileInv'
  <2>1. Enter(p) /\ posted' = posted /\ Save /\ p \in Reader
    BY <1>7 DEF AttachPerson, net, Reader
  <2> QED
    BY <1>3, <2>1, Saved
<1>8. ASSUME NEW a \in Agent, Detach(a) PROVE CursorsInv' /\ FileInv'
  <2>1. cursor' = cursor /\ known' = known /\ Save
    BY <1>8 DEF Detach
  <2> QED
    BY <1>1, <2>1, Saved
\* The hook's cursor passes what its peek read, which it has shown, and what
\* had overtaken the peek.
<1>9. ASSUME NEW h \in Hook, Consume(h) PROVE CursorsInv' /\ FileInv'
  <2> DEFINE p == HookOf[h]
  <2>1. /\ p \in known /\ known' = known /\ posted' = posted /\ start' = start /\ Save
        /\ hook[h].pc = "shown" /\ Raise(p, hook[h].upTo)
        /\ told' = told /\ pull' = pull
    BY <1>9 DEF Consume, net
  <2>2. \A e \in Overtaken(h) : e > cursor[p] /\ e \notin told[p] => e \in over'[p]
    BY <1>0, <1>9, <2>1 DEF Consume
  <2>3. \A x \in known \ {p} : cursor'[x] = cursor[x]
    BY <1>0, <2>1 DEF Raise
  <2>4. cursor'[p] = cursor[p] \/ cursor'[p] = hook[h].upTo
    BY <1>0, <2>1 DEF Raise
  <2>5. CursorsInv'
    <3> SUFFICES ASSUME NEW x \in known', NEW e \in Owed(x)', e <= cursor'[x]
                 PROVE  e \in Accounted(x)'
      BY DEF CursorsInv
    <3>1. CASE cursor'[x] = cursor[x]
      BY <2>1, <3>1, CursorKept
    <3>2. CASE x = p /\ cursor'[p] = hook[h].upTo
      <4>1. e \in Owed(p) /\ e \in Event /\ p \in Reader /\ cursor[p] \in Int /\ hook[h].upTo \in Int
        BY <1>0, <2>1, <3>2 DEF Owed, Positions, HookPositions
      <4>2. Accounted(p) \subseteq Accounted(p)'
        BY <4>1 DEF Grows
      <4>3. CASE e \in hook[h].saw
        BY <2>1, <3>2, <4>1, <4>2, <4>3 DEF HookInv
      <4>4. CASE e <= cursor[p]
        BY <2>1, <3>2, <4>1, <4>2, <4>4 DEF CursorsInv
      <4>5. CASE e \notin hook[h].saw /\ e > cursor[p]
        <5>1. e \in Overtaken(h)
          BY <3>2, <4>1, <4>5 DEF Overtaken, Event
        <5>2. e \in told[p] \/ e \in over'[p]
          BY <2>2, <4>5, <5>1
        <5> QED
          BY <2>1, <3>2, <5>2 DEF Accounted
      <4> QED
        BY <4>1, <4>3, <4>4, <4>5 DEF Event
    <3> QED
      BY <2>1, <2>3, <2>4, <3>1, <3>2
  <2> QED
    BY <2>1, <2>5, Saved
\* The agent's cursor passes what its pull fetched, now in hand, and what it
\* had asked past.
<1>10. ASSUME NEW q \in Pull, Move(q) PROVE CursorsInv' /\ FileInv'
  <2> DEFINE a == PullOf[q]
  <2>1. /\ known' = known /\ posted' = posted /\ start' = start /\ Save /\ told' = told
        /\ pull[q].pc = "fetched" /\ pull' = [pull EXCEPT ![q].pc = "moved"]
        /\ a \in known => /\ Raise(a, pull[q].to)
                         /\ over' = [over EXCEPT ![a] = @ \cup ((cursor[a] + 1)..pull[q].since)]
        /\ a \notin known => cursor' = cursor
    BY <1>10 DEF Move, ToVersion, net
  <2>2. \A x \in known \ {a} : cursor'[x] = cursor[x]
    BY <1>0, <2>1 DEF Raise
  <2>3. a \in known => cursor'[a] = cursor[a] \/ cursor'[a] = pull[q].to
    BY <1>0, <2>1 DEF Raise
  <2>4. InHand(q)' = (pull[q].since + 1)..pull[q].to
    BY <2>1 DEF InHand, Positions, PullPositions
  <2>5. InHand(q)' \subseteq InHandOf(a)'
    BY Zenon DEF InHandOf
  <2>6. CursorsInv'
    <3> SUFFICES ASSUME NEW x \in known', NEW e \in Owed(x)', e <= cursor'[x]
                 PROVE  e \in Accounted(x)'
      BY DEF CursorsInv
    <3>1. CASE cursor'[x] = cursor[x]
      BY <2>1, <3>1, CursorKept
    <3>2. CASE x = a /\ a \in known /\ cursor'[a] = pull[q].to
      <4>1. /\ e \in Owed(a) /\ e \in Int /\ a \in Reader /\ cursor[a] \in Int
            /\ pull[q].since \in Int /\ pull[q].to \in Int
        BY <1>0, <2>1, <3>2 DEF Owed, Event, Positions, PullPositions
      <4>2. Accounted(a) \subseteq Accounted(a)'
        BY <4>1 DEF Grows
      <4>3. CASE e <= cursor[a]
        BY <3>2, <4>1, <4>2, <4>3 DEF CursorsInv
      <4>4. CASE e > cursor[a] /\ e <= pull[q].since
        <5>1. e \in over'[a]
          BY <1>0, <2>1, <3>2, <4>1, <4>4
        <5> QED
          BY <3>2, <5>1 DEF Accounted
      <4>5. CASE e > pull[q].since
        <5>1. e \in InHand(q)'
          BY <2>4, <3>2, <4>1, <4>5
        <5> QED
          BY <2>5, <3>2, <5>1 DEF Accounted
      <4> QED
        BY <4>1, <4>3, <4>4, <4>5
    <3> QED
      BY <2>1, <2>2, <2>3, <3>1, <3>2
  <2> QED
    BY <2>1, <2>6, Saved
<1> QED
  BY <1>2, <1>4, <1>5, <1>6, <1>7, <1>8, <1>9, <1>10, ReadersUntouched DEF Next, HookStep, PullStep

-----------------------------------------------------------------------------
(* The ring.                                                                *)

\* The part of a step the ring's invariant is about: nothing leaves the ring
\* or the wire but into missed, and a reader only goes forward, or is new.
LEMMA RingKept ==
  ASSUME Positions, RingInv, phase = "on", posted' = posted,
         (ring \cup wire \cup missed) \subseteq (ring \cup wire \cup missed)',
         \A r \in known' :
           \/ r \in known /\ cursor[r] <= cursor'[r] /\ start'[r] = start[r]
           \/ start'[r] = posted,
         Positions'
  PROVE  RingInv'
PROOF
<1> SUFFICES ASSUME NEW e \in 1..posted, e \notin (ring \cup wire \cup missed)',
                    NEW r \in known'
             PROVE  e <= cursor'[r] \/ e <= start'[r]
  BY DEF RingInv
<1>1. /\ posted \in Nat /\ r \in Reader
      /\ cursor \in [Reader -> 0..posted] /\ cursor' \in [Reader -> 0..posted']
  BY ReadersAssumption DEF Positions, RoomPositions, ReaderPositions
<1>2. CASE r \in known /\ cursor[r] <= cursor'[r] /\ start'[r] = start[r]
  <2>1. e <= cursor[r] \/ e <= start[r]
    BY <1>2 DEF RingInv
  <2>2. cursor[r] \in Int /\ cursor'[r] \in Int /\ e \in Int
    BY <1>1
  <2> QED
    BY <1>2, <2>1, <2>2
<1>3. CASE start'[r] = posted
  BY <1>1, <1>3
<1> QED
  BY <1>2, <1>3

\* The ring, step by step.
LEMMA RingStep ==
  ASSUME Positions, Positions', RingInv, [Next]_vars
  PROVE  RingInv'
PROOF
<1> USE ReadersAssumption
<1>0. /\ posted \in Nat /\ posted' \in Nat /\ known \subseteq Reader /\ known' \subseteq Reader
      /\ cursor \in [Reader -> 0..posted] /\ start \in [Reader -> 0..posted]
  BY DEF Positions, RoomPositions, ReaderPositions
<1>1. ASSUME posted' = posted, phase' = phase, cursor' = cursor, start' = start, known' \subseteq known,
             (ring \cup wire \cup missed) \subseteq (ring \cup wire \cup missed)'
      PROVE  RingInv'
  <2>1. \A r \in known : cursor[r] <= cursor'[r]
    BY <1>0, <1>1
  <2> QED
    BY <1>1, <2>1, RingKept DEF RingInv
<1>2. ASSUME NEW r \in Reader, Enter(r), posted' = posted, phase' = phase,
             ring' = ring, wire' = wire, missed' = missed
      PROVE  RingInv'
  <2>1. \A x \in known' :
          \/ x \in known /\ cursor[x] <= cursor'[x] /\ start'[x] = start[x]
          \/ start'[x] = posted
    BY <1>0, <1>2 DEF Enter
  <2> QED
    BY <1>2, <2>1, RingKept DEF RingInv
<1>3. ASSUME NEW r \in Reader, NEW n \in Nat, Raise(r, n), posted' = posted, phase' = phase, known' = known,
             ring' = ring, wire' = wire, missed' = missed, start' = start
      PROVE  RingInv'
  <2>1. \A x \in known : cursor[x] <= cursor'[x]
    BY <1>0, <1>3 DEF Raise
  <2> QED
    BY <1>3, <2>1, RingKept DEF RingInv
<1>4. CASE UNCHANGED vars
  BY <1>1, <1>4 DEF vars, net, room, readers
<1>5. CASE Post
  <2>1. /\ posted' = posted + 1 /\ ring' = ring /\ cursor' = cursor /\ start' = start /\ known' = known
        /\ phase' = phase /\ wire \subseteq wire' /\ missed \subseteq missed'
        /\ phase = "on" => posted + 1 \in wire' \cup missed'
    BY <1>5 DEF Post, room, readers
  <2>2. \A e \in 1..(posted + 1) : e \in 1..posted \/ e = posted + 1
    BY <1>0
  <2> QED
    BY <2>1, <2>2 DEF RingInv
<1>6. CASE Subscribe
  BY <1>1, <1>6 DEF Subscribe, room, readers
<1>7. CASE Outage
  <2>1. CASE phase = "on"
    BY <1>1, <1>7, <2>1 DEF Outage, room, readers
  <2>2. CASE phase # "on"
    BY <1>7, <2>2 DEF Outage, room, RingInv
  <2> QED
    BY <2>1, <2>2
<1>8. CASE Deliver
  BY <1>1, <1>8 DEF Deliver, readers
<1>9. CASE FrameLands
  BY <1>1, <1>9 DEF FrameLands, net, readers
<1>10. CASE Open
  BY <1>10 DEF Open, net, RingInv
<1>11. CASE Restore \/ RejoinFails
  BY <1>11 DEF Restore, RejoinFails, room, RingInv
<1>12. CASE Backfill
  <2>1. /\ posted' = posted /\ cursor' = cursor /\ known' = known
        /\ missed' = (missed \cup ring \cup ((Lowest + 1)..posted)) \ ring'
    BY <1>12 DEF Backfill, net, readers
  <2>2. Lowest \in Nat /\ \A r \in known : Lowest <= cursor[r]
    BY <1>12, LowestReached DEF Backfill, Positions, RoomPositions
  <2>3. \A e \in 1..posted, r \in known : e \in (Lowest + 1)..posted \/ e <= cursor[r]
    BY <1>0, <2>2
  <2> QED
    BY <2>1, <2>3 DEF RingInv
<1>13. CASE BackfillFails
  BY <1>13 DEF BackfillFails, net, readers, RingInv
<1>14. CASE Crash \/ Stop \/ IdleExit
  BY <1>14 DEF Crash, Stop, IdleExit, Down, RingInv
<1>15. CASE \E a \in Agent : AttachAgent(a) \/ AttachPersonOf(a)
  <2>1. PICK x \in Reader : Enter(x)
    BY <1>15 DEF AttachAgent, AttachPersonOf, Reader, Positions, RoomPositions
  <2> QED
    BY <1>2, <1>15, <2>1 DEF AttachAgent, AttachPersonOf, net, room
<1>16. CASE \E p \in Person : AttachPerson(p)
  <2>1. PICK x \in Reader : Enter(x)
    BY <1>16 DEF AttachPerson, Reader
  <2> QED
    BY <1>2, <1>16, <2>1 DEF AttachPerson, net, room
<1>17. CASE \E a \in Agent : Detach(a)
  BY <1>1, <1>17 DEF Detach, net, room
<1>18. CASE \E r \in Reader : Forget(r)
  BY <1>1, <1>18 DEF Forget, net, room
<1>19. ASSUME NEW h \in Hook, Consume(h) PROVE RingInv'
  <2>1. HookOf[h] \in Reader /\ hook[h].upTo \in Nat
    BY <1>0 DEF Reader, Positions, HookPositions
  <2> QED
    BY <1>3, <1>19, <2>1 DEF Consume, net, room
<1>20. ASSUME NEW h \in Hook, PeekUntold(h) \/ PeekMax(h) \/ Emit(h) \/ ConsumeRefused(h) \/ HookDies(h)
       PROVE RingInv'
  BY <1>1, <1>20 DEF PeekUntold, PeekMax, Emit, ConsumeRefused, HookDies, net, room, readers
<1>21. ASSUME NEW q \in Pull, Move(q) PROVE RingInv'
  <2>1. PullOf[q] \in Reader /\ ToVersion(q) \in Nat
    BY DEF Reader, Positions, PullPositions, ToVersion
  <2>2. /\ posted' = posted /\ phase' = phase /\ ring' = ring /\ wire' = wire /\ missed' = missed
        /\ start' = start /\ known' = known
        /\ cursor' = cursor \/ Raise(PullOf[q], ToVersion(q))
    BY <1>21 DEF Move, net, room
  <2> QED
    BY <1>1, <1>3, <2>1, <2>2
<1>22. ASSUME NEW q \in Pull, Ask(q) \/ Fetch(q) \/ FetchFails(q) \/ Answer(q) \/ AnswerLate(q)
       PROVE RingInv'
  BY <1>1, <1>22 DEF Ask, Fetch, FetchFails, Answer, AnswerLate, net, room, readers
<1> QED
  BY <1>4, <1>5, <1>6, <1>7, <1>8, <1>9, <1>10, <1>11, <1>12, <1>13, <1>14, <1>15, <1>16,
     <1>17, <1>18, <1>19, <1>20, <1>21, <1>22 DEF Next, HookStep, PullStep

-----------------------------------------------------------------------------
(* The ring at its limit, and who is in the room.                           *)

\* Of any events, the newest that are kept are no more than the ring holds: all
\* but the oldest of them come after it, and fewer than RingMax events do.
LEMMA NewestFits ==
  ASSUME NEW n \in Nat, NEW S \in SUBSET (1..n)
  PROVE  Newest(S) \subseteq S /\ Cardinality(Newest(S)) <= RingMax
PROOF
<1> DEFINE N == Newest(S)
           After(m) == {d \in S : d > m}
<1>1. N \subseteq S
  BY DEF Newest
<1>2. IsFiniteSet(S)
  <2>1. IsFiniteSet(1..n)
    BY FS_Interval
  <2> QED
    BY <2>1, FS_Subset
<1>3. IsFiniteSet(N)
  BY <1>1, <1>2, FS_Subset
<1>4. CASE N = {}
  BY <1>1, <1>4, FS_EmptySet, ReadersAssumption
<1>5. CASE N # {}
  <2>1. N \in SUBSET (0..n)
    <3>1. 1..n \subseteq 0..n
      OBVIOUS
    <3> HIDE DEF N
    <3> QED
      BY <1>1, <3>1, Zenon
  <2> DEFINE m == Min(N)
  <2>2. m \in N /\ \A d \in N : m <= d
    BY <1>5, <2>1, BoundedExtrema
  <2>3. Cardinality(After(m)) < RingMax
    BY <2>2 DEF Newest
  <2>4. N \ {m} \subseteq After(m)
    BY <1>1, <2>1, <2>2
  <2>5. IsFiniteSet(After(m))
    BY <1>2, FS_Subset
  <2>6. Cardinality(N \ {m}) <= Cardinality(After(m))
    BY <2>4, <2>5, FS_Subset
  <2>7. Cardinality(N \ {m}) = Cardinality(N) - 1 /\ Cardinality(N) \in Nat
    BY <1>3, <2>2, FS_RemoveElement, FS_CardinalityType
  <2>8. Cardinality(After(m)) \in Nat
    BY <2>5, FS_CardinalityType
  <2> HIDE DEF N, m, After
  <2>9. Cardinality(N) <= RingMax
    BY <2>3, <2>6, <2>7, <2>8, ReadersAssumption
  <2> QED
    BY <1>1, <2>9 DEF N
<1> QED
  BY <1>4, <1>5

\* The ring holds no more than it may.
RingFits == Cardinality(ring) <= RingMax

\* Whatever enters the ring, by push or by backfill, what it cannot hold leaves
\* it in the same step.
LEMMA RingFitsStep ==
  ASSUME Positions, RingFits, [Next]_vars
  PROVE  RingFits'
PROOF
<1>1. posted \in Nat /\ ring \subseteq 1..posted /\ wire \subseteq 1..posted
  BY ReadersAssumption DEF Positions, RoomPositions
<1>2. ASSUME NEW S \in SUBSET (1..posted), ring' = Newest(S) PROVE RingFits'
  BY <1>1, <1>2, NewestFits DEF RingFits
<1>3. CASE Deliver
  <2> DEFINE S == ring \cup {Min(wire)}
  <2>1. ring' = Newest(S) /\ wire # {}
    BY <1>3 DEF Deliver
  <2>2. wire \in SUBSET (0..posted)
    BY <1>1
  <2>3. Min(wire) \in wire
    BY <1>1, <2>1, <2>2, BoundedExtrema
  <2>4. S \in SUBSET (1..posted)
    BY <1>1, <2>3
  <2> QED
    BY <1>2, <2>1, <2>4
<1>4. CASE Backfill
  <2> DEFINE S == ring \cup ((Lowest + 1)..posted)
  <2>1. ring' = Newest(S) /\ phase = "filling"
    BY <1>4 DEF Backfill
  <2>2. Lowest \in Nat
    BY <2>1, LowestReached DEF Positions, RoomPositions
  <2>3. S \in SUBSET (1..posted)
    BY <1>1, <2>2
  <2> QED
    BY <1>2, <2>1, <2>3
<1>5. CASE Crash \/ Stop \/ IdleExit
  <2>1. ring' = {}
    BY <1>5 DEF Crash, Stop, IdleExit, Down
  <2> QED
    BY <2>1, FS_EmptySet, ReadersAssumption DEF RingFits
<1>6. CASE UNCHANGED ring
  BY <1>6 DEF RingFits
<1>7. Deliver \/ Backfill \/ Crash \/ Stop \/ IdleExit \/ UNCHANGED ring
  <2>1. ASSUME Post \/ Subscribe \/ Outage \/ FrameLands \/ Open \/ Restore
                \/ RejoinFails \/ BackfillFails \/ UNCHANGED vars
        PROVE  UNCHANGED ring
    BY <2>1 DEF Post, Subscribe, Outage, FrameLands, Open, Restore, RejoinFails,
                BackfillFails, vars, room
  <2>2. ASSUME \/ \E a \in Agent : AttachAgent(a) \/ AttachPersonOf(a) \/ Detach(a)
               \/ \E p \in Person : AttachPerson(p)
               \/ \E r \in Reader : Forget(r)
        PROVE  UNCHANGED ring
    BY <2>2 DEF AttachAgent, AttachPersonOf, Detach, AttachPerson, Forget, room
  <2>3. ASSUME NEW h \in Hook, HookStep(h) \/ HookDies(h) PROVE UNCHANGED ring
    BY <2>3 DEF HookStep, HookDies, PeekUntold, PeekMax, Emit, Consume, ConsumeRefused, room
  <2>4. ASSUME NEW q \in Pull, PullStep(q) PROVE UNCHANGED ring
    BY <2>4 DEF PullStep, Ask, Fetch, FetchFails, Move, Answer, AnswerLate, room
  <2> QED
    BY <2>1, <2>2, <2>3, <2>4 DEF Next
<1> QED
  BY <1>3, <1>4, <1>5, <1>6, <1>7

\* Who is connected is a reader the room has, and only a running daemon has
\* anyone connected: a rejoin that fails may therefore forget every reader.
Presence ==
  /\ subscribed \in BOOLEAN
  /\ phase \in {"off", "filling", "on"}
  /\ connected \subseteq known
  /\ entering \subseteq connected
  /\ phase # "on" => connected = {}

(* Who is connected is a reader the room has, of a daemon that runs. *)
LEMMA PresenceStep ==
  ASSUME Presence, [Next]_vars
  PROVE  Presence'
PROOF
<1> USE DEF Presence, net, room, readers, clients, vars
<1>1. CASE UNCHANGED vars
  BY <1>1
<1>2. CASE Post \/ Subscribe \/ Outage \/ Deliver \/ FrameLands
  BY <1>2 DEF Post, Subscribe, Outage, Deliver, FrameLands
<1>3. CASE Open \/ Restore \/ RejoinFails \/ Backfill \/ BackfillFails
  BY <1>3 DEF Open, Restore, RejoinFails, Backfill, BackfillFails
<1>4. CASE Crash \/ Stop \/ IdleExit
  <2>1. /\ phase' = "off" /\ subscribed' = FALSE /\ connected' = {} /\ entering' = {}
    BY <1>4 DEF Crash, Stop, IdleExit, Down
  <2> QED
    BY <2>1
<1>5. ASSUME NEW a \in Agent, AttachAgent(a) PROVE Presence'
  BY <1>5 DEF AttachAgent, Enter
<1>6. ASSUME NEW a \in Agent, AttachPersonOf(a) PROVE Presence'
  BY <1>6 DEF AttachPersonOf, Enter
<1>7. ASSUME NEW a \in Agent, Detach(a) PROVE Presence'
  BY <1>7 DEF Detach
<1>8. ASSUME NEW p \in Person, AttachPerson(p) PROVE Presence'
  BY <1>8 DEF AttachPerson, Enter
<1>9. ASSUME NEW r \in Reader, Forget(r) PROVE Presence'
  BY <1>9 DEF Forget
<1>10. ASSUME NEW h \in Hook, HookStep(h) \/ HookDies(h) PROVE Presence'
  BY <1>10 DEF HookStep, HookDies, PeekUntold, PeekMax, Emit, Consume, ConsumeRefused
<1>11. ASSUME NEW q \in Pull, PullStep(q) PROVE Presence'
  BY <1>11 DEF PullStep, Ask, Fetch, FetchFails, Move, Answer, AnswerLate
<1> QED
  BY <1>1, <1>2, <1>3, <1>4, <1>5, <1>6, <1>7, <1>8, <1>9, <1>10, <1>11 DEF Next

\* Every misfortune counts, and none happens past the bound.
FaultsCounted == faults \in 0..MaxFaults

(* Every misfortune counts, and none happens past the bound. *)
LEMMA FaultsStep ==
  ASSUME FaultsCounted, [Next]_vars
  PROVE  FaultsCounted'
PROOF
<1>1. ASSUME UNCHANGED faults \/ \E k \in FaultKind : Misfortune(k) PROVE FaultsCounted'
  BY <1>1, ReadersAssumption DEF Misfortune, FaultsCounted
<1>2. UNCHANGED faults \/ \E k \in FaultKind : Misfortune(k)
  <2> USE DEF FaultKind
  <2>1. ASSUME Post \/ Subscribe \/ Deliver \/ Open \/ Restore \/ Backfill \/ UNCHANGED vars
        PROVE  UNCHANGED faults
    BY <2>1 DEF Post, Subscribe, Deliver, Open, Restore, Backfill, vars
  <2>2. ASSUME Outage \/ FrameLands \/ RejoinFails \/ BackfillFails
        PROVE  UNCHANGED faults \/ \E k \in FaultKind : Misfortune(k)
    BY <2>2 DEF Outage, FrameLands, RejoinFails, BackfillFails
  <2>3. ASSUME Crash \/ Stop \/ IdleExit
        PROVE  UNCHANGED faults \/ \E k \in FaultKind : Misfortune(k)
    BY <2>3 DEF Crash, Stop, IdleExit
  <2>4. ASSUME \/ \E a \in Agent : AttachAgent(a) \/ AttachPersonOf(a) \/ Detach(a)
               \/ \E p \in Person : AttachPerson(p)
               \/ \E r \in Reader : Forget(r)
        PROVE  UNCHANGED faults \/ \E k \in FaultKind : Misfortune(k)
    BY <2>4 DEF AttachAgent, AttachPersonOf, Detach, AttachPerson, Forget, Save
  <2>5. ASSUME NEW h \in Hook, HookStep(h) \/ HookDies(h)
        PROVE  UNCHANGED faults \/ \E k \in FaultKind : Misfortune(k)
    BY <2>5 DEF HookStep, HookDies, PeekUntold, PeekMax, Emit, Consume, ConsumeRefused, Save
  <2>6. ASSUME NEW q \in Pull, PullStep(q)
        PROVE  UNCHANGED faults \/ \E k \in FaultKind : Misfortune(k)
    BY <2>6 DEF PullStep, Ask, Fetch, FetchFails, Move, Answer, AnswerLate, Save
  <2> QED
    BY <2>1, <2>2, <2>3, <2>4, <2>5, <2>6 DEF Next
<1> QED
  BY <1>1, <1>2

-----------------------------------------------------------------------------
(* The theorems.                                                            *)

\* The first state.
LEMMA Start ==
  ASSUME Init
  PROVE  IInv
PROOF
<1> USE ReadersAssumption DEF Init
<1>1. Positions
  BY DEF Positions, RoomPositions, ReaderPositions, HookPositions, PullPositions, HistoryPositions, Idle, NoPull
<1>2. CursorsInv /\ FileInv /\ RingInv
  BY DEF CursorsInv, FileInv, RingInv
<1>3. HookInv
  BY DEF HookInv, Idle
<1> QED
  BY <1>1, <1>2, <1>3 DEF IInv

\* The invariant is inductive.
LEMMA Inductive ==
  ASSUME IInv, [Next]_vars
  PROVE  IInv'
BY PositionsStep, StepGrows, CursorsStep, HookInvStep, RingStep DEF IInv

\* The invariant holds throughout.
LEMMA AlwaysIInv == Spec => []IInv
PROOF
<1>1. Init => IInv
  BY Start
<1>2. IInv /\ [Next]_vars => IInv'
  BY Inductive
<1> QED
  BY <1>1, <1>2, PTL DEF Spec

\* Whatever number of hooks, agents and events there are and whatever faults
\* they meet, the person was shown all the news since they came in, or is
\* owed it, but for what overtook a peek and what the ring lost (room.go
\* RestoreRoom, enqueue, Attach, Advance; ipc.go peek, consume).
THEOREM ThePersonIsToldOrOwed == Spec => []ToldOrOwed
PROOF
<1>1. IInv => ToldOrOwed
  <2> SUFFICES ASSUME IInv, NEW p \in Person \cap known, NEW e \in Owed(p), e \notin Accounted(p)
               PROVE  cursor[p] < e /\ (phase # "on" \/ e \in ring \cup wire \cup missed)
    BY DEF ToldOrOwed
  <2>a. /\ posted \in Nat /\ p \in Reader /\ cursor \in [Reader -> 0..posted]
        /\ start \in [Reader -> 0..posted]
    BY ReadersAssumption DEF IInv, Positions, RoomPositions, ReaderPositions
  <2>b. e \in Int /\ start[p] < e /\ e <= posted
    BY ReadersAssumption DEF Owed, Event
  <2>0. /\ posted \in Nat /\ p \in Reader /\ cursor[p] \in Int /\ start[p] \in Nat
        /\ e \in Int /\ start[p] < e /\ e <= posted
    BY <2>a, <2>b
  <2>1. cursor[p] < e
    BY <2>0 DEF IInv, CursorsInv
  <2>2. e \in 1..posted /\ ~(e <= cursor[p]) /\ ~(e <= start[p])
    BY <2>0, <2>1
  <2>3. phase = "on" => e \in ring \cup wire \cup missed
    BY <2>2 DEF IInv, RingInv
  <2> QED
    BY <2>1, <2>3
<1> QED
  BY <1>1, AlwaysIInv, PTL

\* However many pulls an agent makes and wherever they start, its cursor never
\* passes a piece of news that was not handed to it or on its way to it, unless
\* it asked past it or had given up on the answer (room.go Delta).
THEOREM TheAgentIsGivenOrOwed == Spec => []GivenOrOwed
PROOF
<1>1. IInv => GivenOrOwed
  <2> SUFFICES ASSUME IInv, NEW a \in Agent \cap known, NEW e \in Owed(a), e \notin Accounted(a)
               PROVE  cursor[a] < e
    BY DEF GivenOrOwed
  <2>0. a \in Reader /\ cursor \in [Reader -> 0..posted] /\ posted \in Nat /\ e \in Int
    BY ReadersAssumption DEF IInv, Positions, RoomPositions, ReaderPositions, Owed, Event
  <2> QED
    BY <2>0 DEF IInv, CursorsInv
<1> QED
  BY <1>1, AlwaysIInv, PTL

\* What the room, its readers, hooks and pulls hold is what it should be
\* throughout: no position is one the room has not reached, the ring is never
\* over its limit (room.go enqueue), whoever is connected is a reader the room
\* has, and nobody is while the daemon is not up.
THEOREM ReadersTypes == Spec => []ReadersTypeOK
PROOF
<1> DEFINE TInv == Positions /\ RingFits /\ Presence /\ FaultsCounted
<1>1. Init => TInv
  <2>1. Init => Positions
    BY Start DEF IInv
  <2>2. Init => RingFits
    BY FS_EmptySet, ReadersAssumption DEF Init, RingFits
  <2>3. Init => Presence
    BY DEF Init, Presence
  <2>4. Init => FaultsCounted
    BY ReadersAssumption DEF Init, FaultsCounted
  <2> QED
    BY <2>1, <2>2, <2>3, <2>4
<1>2. TInv /\ [Next]_vars => TInv'
  BY PositionsStep, RingFitsStep, PresenceStep, FaultsStep
<1>3. TInv => ReadersTypeOK
  <2> SUFFICES ASSUME TInv PROVE ReadersTypeOK
    OBVIOUS
  <2>1. posted \in Nat /\ 0..posted \subseteq 0..Last /\ 1..posted \subseteq Event
    BY ReadersAssumption DEF Positions, RoomPositions, Event
  <2>2. /\ posted \in 0..Last /\ wire \subseteq 1..posted /\ ring \subseteq 1..posted
        /\ frame \in 0..posted /\ known \subseteq Reader /\ entering \subseteq Agent
        /\ missed \subseteq 1..posted
    BY DEF Positions, RoomPositions
  <2>3. /\ cursor \in [Reader -> 0..Last] /\ start \in [Reader -> 0..Last]
        /\ file \in [known : SUBSET Reader, cursor : [Reader -> 0..Last]]
    BY <2>1 DEF Positions, ReaderPositions
  <2>4. hook \in [Hook -> [pc : {"idle", "peeked", "ready", "shown"},
                           tell : SUBSET News, saw : SUBSET Event, upTo : 0..Last]]
    BY <2>1 DEF Positions, HookPositions
  <2>5. /\ pull \in [Pull -> [pc : {"idle", "asked", "fetched", "moved"}, since : 0..Last, to : 0..Last]]
        /\ told \in [Reader -> SUBSET Event] /\ over \in [Reader -> SUBSET Event]
    BY DEF Positions, PullPositions, HistoryPositions
  <2> QED
    BY <2>2, <2>3, <2>4, <2>5 DEF ReadersTypeOK, RingFits, Presence, FaultsCounted
<1> HIDE DEF TInv
<1> QED
  BY <1>1, <1>2, <1>3, PTL DEF Spec

=============================================================================
