----------------------------- MODULE BridgeProofs -----------------------------
(***************************************************************************)
(* What holds of Bridge, and of Hold over it, for every value of their     *)
(* constants: any number of hand-offs, of runs and processes, of rooms,    *)
(* and every kind of fault.                                                *)
(***************************************************************************)
EXTENDS Hold, WellFoundedInduction, TLAPS

-----------------------------------------------------------------------------
(* The helpers of Spool.                                                   *)

\* A run that still has entries to deal with has an oldest one, and it is one
\* of them: the worker never acts on an entry it did not list.
LEMMA OldestIsOne ==
  ASSUME NEW es \in SUBSET Entry, es # {}
  PROVE  Oldest(es) \in es
<1> DEFINE R == OpToRel(<, Nat)
<1>1. es \subseteq Nat
  BY SpoolAssumption DEF Entry
<1>2. \A i, j \in Nat : i < j => <<i, j>> \in R
  BY DEF OpToRel
<1>3. IsWellFoundedOn(R, Nat)
  BY NatLessThanWellFounded
<1> HIDE DEF R
<1>4. PICK e \in es : \A f \in es : ~ (<<f, e>> \in R)
  BY <1>1, <1>3, WFMin
<1>5. ASSUME NEW f \in es PROVE e <= f
  <2>1. e \in Nat /\ f \in Nat
    BY <1>1
  <2>2. ~ (f < e)
    BY <1>2, <1>4, <2>1
  <2> QED
    BY <2>1, <2>2
<1> QED
  BY <1>5, Zenon DEF Oldest

\* Every record the queue writes is a record: no transition leaves the states
\* load can read back.
LEMMA WritersKeepRecords ==
  ASSUME NEW s \in [Entry -> EntryRecord], NEW e \in Entry
  PROVE  /\ \A by \in Instance : Accepted(s, e, by) \in [Entry -> EntryRecord]
         /\ Claimed(s, e) \in [Entry -> EntryRecord]
         /\ Acked(s, e) \in [Entry -> EntryRecord]
         /\ Failed(s, e) \in [Entry -> EntryRecord]
         /\ Expired(s, e) \in [Entry -> EntryRecord]
         /\ Refused(s, e) \in [Entry -> EntryRecord]
  BY DEF EntryRecord, EntryState, Absent,
         Accepted, Claimed, Acked, Failed, Expired, Refused

\* Only an acknowledgement makes an entry published, and no other than its own.
LEMMA OnlyAckPublishes ==
  ASSUME NEW s \in [Entry -> EntryRecord], NEW e \in Entry, NEW f \in Entry
  PROVE  /\ Claimed(s, e)[f].state = "published" => s[f].state = "published"
         /\ Failed(s, e)[f].state = "published" => s[f].state = "published"
         /\ Expired(s, e)[f].state = "published" => s[f].state = "published"
         /\ Refused(s, e)[f].state = "published" => s[f].state = "published"
         /\ Acked(s, e)[f].state = "published" => s[f].state = "published" \/ f = e
  BY DEF Claimed, Failed, Expired, Refused, Acked, EntryRecord

\* What the worker writes about an answer is a record too.
LEMMA SettledIsRecord ==
  ASSUME NEW s \in [Entry -> EntryRecord], NEW e \in Entry,
         NEW ans \in Answer, ans # "none"
  PROVE  Settled(s, e, ans) \in [Entry -> EntryRecord]
  BY WritersKeepRecords DEF Settled, Answer

\* What the queue lists are hand-offs.
LEMMA ListsAreEntries ==
  ASSUME NEW s, NEW q
  PROVE  Recovered(s, q) \in SUBSET Entry /\ Sendable(s, q) \in SUBSET Entry
  BY DEF Recovered, Sendable, OwedTo, EntriesIn

-----------------------------------------------------------------------------
(* Type correctness.                                                       *)

\* Initially every variable has its type.
LEMMA InitType == Init => TypeOK
<1>1. ASSUME Init PROVE \A r \in Run : target[r] \in Room
  <2>1. Room # {}
    BY SpoolAssumption DEF Entry
  <2> QED
    BY <1>1, <2>1, Zenon DEF Init
<1>2. 1 \in Entry
  BY SpoolAssumption DEF Entry
<1> QED
  BY <1>1, <1>2, SpoolAssumption, BridgeAssumption
  DEF Init, TypeOK, EntryRecord, EntryState, Absent, Event, Step, Answer

\* A write that lands leaves events and counts of copies.
LEMMA LandsType ==
  ASSUME TypeOK, NEW by \in Instance, NEW e \in Entry, Lands(by, e)
  PROVE  timeline' \subseteq Event /\ copies' \in [Entry -> Nat]
  BY DEF TypeOK, Lands, Event

\* A misfortune met is counted, and of a known kind.
LEMMA FaultIsCounted ==
  ASSUME TypeOK, NEW kind, Fault(kind)
  PROVE  faults' \in [count : Nat, met : SUBSET FaultKind]
<1>1. kind \in FaultKind
  BY BridgeAssumption DEF Fault
<1> QED
  BY <1>1 DEF TypeOK, Fault

\* Every step of the specification keeps the types.
LEMMA StepType == TypeOK /\ [Next]_vars => TypeOK'
<1> SUFFICES ASSUME TypeOK, [Next]_vars PROVE TypeOK'
  OBVIOUS
<1> USE DEF TypeOK
<1>1. ASSUME NEW r \in Run, NEW q \in Room, NEW i \in Instance, Join(r, q, i)
      PROVE  TypeOK'
  <2>1. \A x \in Run :
          (IF x = r THEN FALSE ELSE cancelled[x] \/ x \in Siblings(r)) \in BOOLEAN
    BY Zenon
  <2>2. cancelled' \in [Run -> BOOLEAN]
    BY <1>1, <2>1 DEF Join
  <2>3. pc' \in [Run -> Step] /\ faults' \in [count : Nat, met : SUBSET FaultKind]
    BY <1>1, FaultIsCounted DEF Join, Goto, Step
  <2>4. /\ target' \in [Run -> Room] /\ inst' \in [Run -> Instance]
        /\ up' \in [Run -> BOOLEAN]
    BY <1>1 DEF Join
  <2>5. UNCHANGED <<spool, mirror, room, work>>
    BY <1>1 DEF Join
  <2> QED
    BY <2>2, <2>3, <2>4, <2>5 DEF room, work
<1>2. ASSUME NEW r \in Run, NEW e \in Entry, Share(r, e) PROVE TypeOK'
  BY <1>2, WritersKeepRecords DEF Share, room, session, work
<1>3. ASSUME NEW r \in Run, Recover(r) PROVE TypeOK'
  BY <1>3, ListsAreEntries DEF Recover, Goto, room, session, Step
<1>4. ASSUME NEW r \in Run, Refresh(r) PROVE TypeOK'
  BY <1>4, FaultIsCounted DEF Refresh, Absorb, EventsOf, Goto, room, session, work, Step
<1>5. ASSUME NEW r \in Run, Resolve(r) PROVE TypeOK'
  <2>1. Oldest(todo[r]) \in Entry
    BY <1>5, OldestIsOne DEF Resolve
  <2>2. /\ spool' \in [Entry -> EntryRecord]
        /\ faults' \in [count : Nat, met : SUBSET FaultKind]
    BY <1>5, <2>1, WritersKeepRecords, FaultIsCounted DEF Resolve, Mark
  <2> QED
    BY <1>5, <2>2 DEF Resolve, room, session
<1>6. ASSUME NEW r \in Run, Resolved(r) PROVE TypeOK'
  BY <1>6 DEF Resolved, Goto, room, session, work, Step
<1>7. ASSUME NEW r \in Run, SweepAbsorb(r) PROVE TypeOK'
  BY <1>7, FaultIsCounted DEF SweepAbsorb, Absorb, EventsOf, Goto, room, session, work, Step
<1>8. ASSUME NEW r \in Run, List(r) PROVE TypeOK'
  BY <1>8, ListsAreEntries DEF List, Goto, room, session, Step
<1>9. ASSUME NEW r \in Run, Send(r) PROVE TypeOK'
  <2>1. Oldest(todo[r]) \in Entry
    BY <1>9, OldestIsOne DEF Send
  <2>2. Claimed(spool, Oldest(todo[r])) \in [Entry -> EntryRecord]
    BY <2>1, WritersKeepRecords
  <2> QED
    BY <1>9, <2>1, <2>2, FaultIsCounted DEF Send, Goto, room, session, Step
<1>10. ASSUME NEW r \in Run, Settle(r) PROVE TypeOK'
  <2>1. Settled(spool, cur[r], answer[r]) \in [Entry -> EntryRecord]
    BY <1>10, SettledIsRecord DEF Settle
  <2>2. /\ spool' \in [Entry -> EntryRecord]
        /\ faults' \in [count : Nat, met : SUBSET FaultKind]
    BY <1>10, <2>1, FaultIsCounted DEF Settle, Mark
  <2> QED
    BY <1>10, <2>2 DEF Settle, Goto, room, session, Step, Answer
<1>11. ASSUME NEW r \in Run, EndPass(r) PROVE TypeOK'
  BY <1>11 DEF EndPass, Goto, room, session, Step
<1>12. ASSUME NEW r \in Run, Wake(r) PROVE TypeOK'
  BY <1>12 DEF Wake, Goto, room, session, work, Step
<1>13. ASSUME NEW r \in Run, RoomAccepts(r) PROVE TypeOK'
  BY <1>13, LandsType DEF RoomAccepts, session, Answer
<1>14. ASSUME NEW r \in Run, RoomRefuses(r) PROVE TypeOK'
  BY <1>14 DEF RoomRefuses, room, session, Answer
<1>15. ASSUME NEW r \in Run, RoomFails(r) PROVE TypeOK'
  BY <1>15, FaultIsCounted DEF RoomFails, room, session, Answer
<1>16. ASSUME NEW r \in Run, GiveUp(r) PROVE TypeOK'
  BY <1>16, FaultIsCounted DEF GiveUp, LetGo, Outstanding, Event, session, Answer
<1>17. ASSUME NEW r \in Run, Stop(r) PROVE TypeOK'
  BY <1>17, FaultIsCounted DEF Stop, room, session, work
<1>18. ASSUME NEW r \in Run, SessionExpires(r) PROVE TypeOK'
  BY <1>18, FaultIsCounted DEF SessionExpires, room, work
<1>19. ASSUME NEW x \in strays, StrayLands(x) PROVE TypeOK'
  <2>1. x.by \in Instance /\ x.entry \in Entry
    BY DEF Event
  <2> QED
    BY <1>19, <2>1, LandsType, FaultIsCounted DEF StrayLands, session, work
<1>20. ASSUME NEW p, Crash(p) PROVE TypeOK'
  <2>1. UNION {Outstanding(r) : r \in {x \in Run : ProcOf[x] = p}} \subseteq Event
    BY DEF Outstanding, Event
  <2>2. strays' \subseteq Event
    BY <1>20, <2>1 DEF Crash, LetGo
  <2> QED
    BY <1>20, <2>2, FaultIsCounted DEF Crash, session, Step, Answer
<1>21. CASE UNCHANGED vars
  BY <1>21 DEF vars, room, session, work
<1> QED
  BY <1>1, <1>2, <1>3, <1>4, <1>5, <1>6, <1>7, <1>8, <1>9, <1>10, <1>11, <1>12,
     <1>13, <1>14, <1>15, <1>16, <1>17, <1>18, <1>19, <1>20, <1>21
  DEF Next, Reconcile, Sweep, RoomAnswers

\* Every reachable state is well typed: no interleaving of runs, crashes and
\* faults writes a record or takes a step outside the declared ones.
THEOREM TypeCorrect == Spec => []TypeOK
  BY InitType, StepType, PTL DEF Spec

-----------------------------------------------------------------------------
(* Nothing is published that did not land.                                 *)

\* The words a write carries are in the room once it has landed, also when a
\* claim with the same words was staged before; and nothing leaves the room.
LEMMA LandsLanded ==
  ASSUME TypeOK, TimelineIsTrue, NEW by \in Instance, NEW e \in Entry, Lands(by, e)
  PROVE  /\ \E f \in Entry : Text[f] = Text[e] /\ copies'[f] > 0
         /\ \A f \in Entry : copies[f] > 0 => copies'[f] > 0
         /\ timeline \subseteq timeline'
         /\ TimelineIsTrue'
<1> USE DEF TypeOK
<1>1. CASE AlreadyStaged(e)
  <2>1. \E f \in Entry : Text[f] = Text[e] /\ copies[f] > 0
    BY <1>1, BridgeAssumption DEF AlreadyStaged
  <2>2. UNCHANGED <<timeline, copies>>
    BY <1>1 DEF Lands
  <2> QED
    BY <2>1, <2>2 DEF TimelineIsTrue
<1>2. CASE ~AlreadyStaged(e)
  <2>1. timeline' = timeline \cup {[by |-> by, entry |-> e]}
    BY <1>2 DEF Lands
  <2>2. copies' = [copies EXCEPT ![e] = @ + 1]
    BY <1>2 DEF Lands
  <2>3. copies'[e] > 0 /\ \A f \in Entry : copies[f] > 0 => copies'[f] > 0
    BY <2>2
  <2>4. TimelineIsTrue'
    BY <2>1, <2>3 DEF TimelineIsTrue, Event
  <2> QED
    BY <2>1, <2>3, <2>4
<1> QED
  BY <1>1, <1>2

\* When nothing leaves the room, what was true of the answers and of the queue
\* stays true.
LEMMA RoomGrows ==
  ASSUME TypeOK, OutcomesAreTrue, UNCHANGED <<spool, mirror, pc, cur>>,
         \A f \in Entry : copies[f] > 0 => copies'[f] > 0,
         timeline \subseteq timeline',
         TimelineIsTrue',
         \A r \in Run : answer'[r] # answer[r] =>
           /\ pc[r] = "wait"
           /\ answer'[r] = "ok" =>
                \E f \in Entry : Text[f] = Text[cur[r]] /\ copies'[f] > 0
  PROVE  OutcomesAreTrue'
<1>1. MirrorIsTrue' /\ PublishedLanded'
  BY DEF OutcomesAreTrue, MirrorIsTrue, PublishedLanded, Landed
<1>2. AnswerIsTrue'
  <2>1. ASSUME NEW r \in Run, answer'[r] = "ok"
        PROVE  \E f \in Entry : Text[f] = Text[cur[r]] /\ copies'[f] > 0
    <3>1. CASE answer'[r] # answer[r]
      BY <2>1, <3>1
    <3>2. CASE answer'[r] = answer[r]
      <4>1. Landed(cur[r])
        BY <2>1, <3>2 DEF OutcomesAreTrue, AnswerIsTrue
      <4> QED
        BY <4>1 DEF Landed
    <3> QED
      BY <3>1, <3>2
  <2>2. ASSUME NEW r \in Run, pc[r] # "wait" PROVE answer'[r] = "none"
    BY <2>2 DEF OutcomesAreTrue, AnswerIsTrue
  <2> QED
    BY <2>1, <2>2 DEF AnswerIsTrue, Landed
<1> QED
  BY <1>1, <1>2 DEF OutcomesAreTrue

\* A step that leaves the room alone keeps what holds of it, whatever else it
\* does, once the spool and the answers are accounted for.
LEMMA RoomUntouched ==
  ASSUME TypeOK, OutcomesAreTrue, UNCHANGED <<timeline, copies>>,
         MirrorIsTrue', AnswerIsTrue',
         \A e \in Entry : spool'[e].state = "published" =>
                          spool[e].state = "published" \/ Landed(e)
  PROVE  OutcomesAreTrue'
  BY DEF OutcomesAreTrue, TimelineIsTrue, PublishedLanded, Landed

\* Reading the room's events keeps the mirror true.
LEMMA AbsorbKeepsMirrorTrue ==
  ASSUME MirrorIsTrue, NEW r \in Run, Absorb(r), UNCHANGED timeline
  PROVE  MirrorIsTrue'
  BY DEF MirrorIsTrue, Absorb, EventsOf

\* An event of ours with the entry's words is proof that it landed.
LEMMA FoundOwnLanded ==
  ASSUME OutcomesAreTrue, NEW e \in Entry, FindOwn(e)
  PROVE  Landed(e)
<1>1. PICK f \in Entry :
        Text[f] = Text[e] /\ [by |-> spool[e].owner, entry |-> f] \in mirror
  BY DEF FindOwn
<1>2. copies[f] > 0
  BY <1>1 DEF OutcomesAreTrue, MirrorIsTrue, TimelineIsTrue
<1> QED
  BY <1>1, <1>2 DEF Landed

\* Nothing is published, mirrored or answered before anything was sent.
LEMMA InitOutcomes == Init => OutcomesAreTrue
  BY DEF Init, OutcomesAreTrue, MirrorIsTrue, TimelineIsTrue, AnswerIsTrue,
         PublishedLanded, Absent

\* And no step of a run, the room, a process or the agent makes them disagree.
LEMMA StepOutcomes == TypeOK /\ OutcomesAreTrue /\ [Next]_vars => OutcomesAreTrue'
<1> SUFFICES ASSUME TypeOK, OutcomesAreTrue, [Next]_vars PROVE OutcomesAreTrue'
  OBVIOUS
<1> USE DEF TypeOK
<1>a. MirrorIsTrue /\ TimelineIsTrue /\ AnswerIsTrue /\ PublishedLanded
  BY DEF OutcomesAreTrue
<1>1. ASSUME NEW r \in Run, NEW q \in Room, NEW i \in Instance, Join(r, q, i)
      PROVE  OutcomesAreTrue'
  <2>1. MirrorIsTrue'
    BY <1>1, <1>a DEF Join, room, MirrorIsTrue
  <2>2. AnswerIsTrue'
    BY <1>1, <1>a DEF Join, room, work, Goto, AnswerIsTrue, Landed
  <2> QED
    BY <1>1, <2>1, <2>2, RoomUntouched DEF Join, room
<1>2. ASSUME NEW r \in Run, NEW e \in Entry, Share(r, e) PROVE OutcomesAreTrue'
  <2>1. MirrorIsTrue' /\ AnswerIsTrue'
    BY <1>2, <1>a DEF Share, room, work, MirrorIsTrue, AnswerIsTrue, Landed
  <2>2. \A f \in Entry : spool'[f].state = "published" => spool[f].state = "published"
    BY <1>2 DEF Share, Accepted, Absent
  <2> QED
    BY <1>2, <2>1, <2>2, RoomUntouched DEF Share, room
<1>3. ASSUME NEW r \in Run, Recover(r) PROVE OutcomesAreTrue'
  <2>1. MirrorIsTrue' /\ AnswerIsTrue'
    BY <1>3, <1>a DEF Recover, Goto, room, MirrorIsTrue, AnswerIsTrue, Landed
  <2> QED
    BY <1>3, <2>1, RoomUntouched DEF Recover, room
<1>4. ASSUME NEW r \in Run, Refresh(r) PROVE OutcomesAreTrue'
  <2>1. MirrorIsTrue'
    BY <1>4, <1>a, AbsorbKeepsMirrorTrue DEF Refresh, room
  <2>2. AnswerIsTrue'
    BY <1>4, <1>a DEF Refresh, Goto, room, work, AnswerIsTrue, Landed
  <2> QED
    BY <1>4, <2>1, <2>2, RoomUntouched DEF Refresh, room
<1>5. ASSUME NEW r \in Run, Resolve(r) PROVE OutcomesAreTrue'
  <2> DEFINE e == Oldest(todo[r])
  <2>1. e \in Entry
    BY <1>5, OldestIsOne DEF Resolve
  <2>2. FindOwn(e) => Landed(e)
    BY <2>1, FoundOwnLanded
  <2>3. MirrorIsTrue' /\ AnswerIsTrue'
    BY <1>5, <1>a DEF Resolve, room, MirrorIsTrue, AnswerIsTrue, Landed
  <2>4. \/ spool' = spool
        \/ spool' = Failed(spool, e)
        \/ spool' = Acked(spool, e) /\ FindOwn(e)
    BY <1>5 DEF Resolve, Mark
  <2> HIDE DEF e
  <2>5. \A f \in Entry : spool'[f].state = "published" =>
                         spool[f].state = "published" \/ Landed(f)
    BY <2>1, <2>2, <2>4, OnlyAckPublishes
  <2> QED
    BY <1>5, <2>3, <2>5, RoomUntouched DEF Resolve, room
<1>6. ASSUME NEW r \in Run, Resolved(r) PROVE OutcomesAreTrue'
  <2>1. MirrorIsTrue' /\ AnswerIsTrue'
    BY <1>6, <1>a DEF Resolved, Goto, room, work, MirrorIsTrue, AnswerIsTrue, Landed
  <2> QED
    BY <1>6, <2>1, RoomUntouched DEF Resolved, room
<1>7. ASSUME NEW r \in Run, SweepAbsorb(r) PROVE OutcomesAreTrue'
  <2>1. MirrorIsTrue'
    BY <1>7, <1>a, AbsorbKeepsMirrorTrue DEF SweepAbsorb, room
  <2>2. AnswerIsTrue'
    BY <1>7, <1>a DEF SweepAbsorb, Goto, room, work, AnswerIsTrue, Landed
  <2> QED
    BY <1>7, <2>1, <2>2, RoomUntouched DEF SweepAbsorb, room
<1>8. ASSUME NEW r \in Run, List(r) PROVE OutcomesAreTrue'
  <2>1. MirrorIsTrue' /\ AnswerIsTrue'
    BY <1>8, <1>a DEF List, Goto, room, MirrorIsTrue, AnswerIsTrue, Landed
  <2> QED
    BY <1>8, <2>1, RoomUntouched DEF List, room
<1>9. ASSUME NEW r \in Run, Send(r) PROVE OutcomesAreTrue'
  <2>1. MirrorIsTrue'
    BY <1>9, <1>a DEF Send, room, MirrorIsTrue
  <2>2. answer[r] = "none"
    BY <1>9, <1>a DEF Send, AnswerIsTrue
  <2>3. AnswerIsTrue'
    BY <1>9, <1>a, <2>2 DEF Send, Goto, room, AnswerIsTrue, Landed
  <2>4. \A f \in Entry : spool'[f].state = "published" => spool[f].state = "published"
    <3> DEFINE e == Oldest(todo[r])
    <3>1. e \in Entry
      BY <1>9, OldestIsOne DEF Send
    <3>2. spool' = spool \/ spool' = Claimed(spool, e)
      BY <1>9 DEF Send
    <3> HIDE DEF e
    <3> QED
      BY <3>1, <3>2, OnlyAckPublishes
  <2> QED
    BY <1>9, <2>1, <2>3, <2>4, RoomUntouched DEF Send, room
<1>10. ASSUME NEW r \in Run, Settle(r) PROVE OutcomesAreTrue'
  <2>1. MirrorIsTrue'
    BY <1>10, <1>a DEF Settle, room, MirrorIsTrue
  <2>2. AnswerIsTrue'
    BY <1>10, <1>a DEF Settle, Goto, room, AnswerIsTrue, Landed
  <2>3. answer[r] = "ok" => Landed(cur[r])
    BY <1>a DEF AnswerIsTrue
  <2>4. spool' = spool \/ spool' = Settled(spool, cur[r], answer[r])
    BY <1>10 DEF Settle, Mark
  <2>5. answer[r] \in {"ok", "expired", "refused", "failed"}
    BY <1>10 DEF Settle, Answer
  <2>6. \A f \in Entry : spool'[f].state = "published" =>
                         spool[f].state = "published" \/ Landed(f)
    BY <2>3, <2>4, <2>5, OnlyAckPublishes DEF Settled
  <2> QED
    BY <1>10, <2>1, <2>2, <2>6, RoomUntouched DEF Settle, room
<1>11. ASSUME NEW r \in Run, EndPass(r) PROVE OutcomesAreTrue'
  <2>1. MirrorIsTrue' /\ AnswerIsTrue'
    BY <1>11, <1>a DEF EndPass, Goto, room, MirrorIsTrue, AnswerIsTrue, Landed
  <2> QED
    BY <1>11, <2>1, RoomUntouched DEF EndPass, room
<1>12. ASSUME NEW r \in Run, Wake(r) PROVE OutcomesAreTrue'
  <2>1. MirrorIsTrue' /\ AnswerIsTrue'
    BY <1>12, <1>a DEF Wake, Goto, room, work, MirrorIsTrue, AnswerIsTrue, Landed
  <2> QED
    BY <1>12, <2>1, RoomUntouched DEF Wake, room
<1>13. ASSUME NEW r \in Run, RoomAccepts(r) PROVE OutcomesAreTrue'
  <2>1. Lands(inst[r], cur[r]) /\ inst[r] \in Instance /\ cur[r] \in Entry
    BY <1>13 DEF RoomAccepts
  <2>2. /\ pc[r] = "wait" /\ answer' = [answer EXCEPT ![r] = "ok"]
        /\ UNCHANGED <<spool, mirror, pc, cur>>
    BY <1>13 DEF RoomAccepts
  <2>3. /\ \E f \in Entry : Text[f] = Text[cur[r]] /\ copies'[f] > 0
        /\ \A f \in Entry : copies[f] > 0 => copies'[f] > 0
        /\ timeline \subseteq timeline'
        /\ TimelineIsTrue'
    BY <1>a, <2>1, LandsLanded
  <2> QED
    BY <2>2, <2>3, RoomGrows
<1>14. ASSUME NEW r \in Run, RoomRefuses(r) PROVE OutcomesAreTrue'
  <2>1. MirrorIsTrue' /\ AnswerIsTrue'
    BY <1>14, <1>a DEF RoomRefuses, room, MirrorIsTrue, AnswerIsTrue, Landed
  <2> QED
    BY <1>14, <2>1, RoomUntouched DEF RoomRefuses, room
<1>15. ASSUME NEW r \in Run, RoomFails(r) PROVE OutcomesAreTrue'
  <2>1. MirrorIsTrue' /\ AnswerIsTrue'
    BY <1>15, <1>a DEF RoomFails, room, MirrorIsTrue, AnswerIsTrue, Landed
  <2> QED
    BY <1>15, <2>1, RoomUntouched DEF RoomFails, room
<1>16. ASSUME NEW r \in Run, GiveUp(r) PROVE OutcomesAreTrue'
  <2>1. MirrorIsTrue' /\ AnswerIsTrue'
    BY <1>16, <1>a DEF GiveUp, MirrorIsTrue, AnswerIsTrue, Landed
  <2> QED
    BY <1>16, <2>1, RoomUntouched DEF GiveUp
<1>17. ASSUME NEW r \in Run, Stop(r) PROVE OutcomesAreTrue'
  <2>1. MirrorIsTrue' /\ AnswerIsTrue'
    BY <1>17, <1>a DEF Stop, room, work, MirrorIsTrue, AnswerIsTrue, Landed
  <2> QED
    BY <1>17, <2>1, RoomUntouched DEF Stop, room
<1>18. ASSUME NEW r \in Run, SessionExpires(r) PROVE OutcomesAreTrue'
  <2>1. MirrorIsTrue' /\ AnswerIsTrue'
    BY <1>18, <1>a DEF SessionExpires, room, work, MirrorIsTrue, AnswerIsTrue, Landed
  <2> QED
    BY <1>18, <2>1, RoomUntouched DEF SessionExpires, room
<1>19. ASSUME NEW x \in strays, StrayLands(x) PROVE OutcomesAreTrue'
  <2>1. Lands(x.by, x.entry) /\ x.by \in Instance /\ x.entry \in Entry
    BY <1>19 DEF StrayLands, Event
  <2>2. UNCHANGED <<spool, mirror, pc, cur, answer>>
    BY <1>19 DEF StrayLands, work
  <2>3. /\ \A f \in Entry : copies[f] > 0 => copies'[f] > 0
        /\ timeline \subseteq timeline'
        /\ TimelineIsTrue'
    BY <1>a, <2>1, LandsLanded
  <2> QED
    BY <2>2, <2>3, RoomGrows
<1>20. ASSUME NEW p, Crash(p) PROVE OutcomesAreTrue'
  <2>1. MirrorIsTrue' /\ AnswerIsTrue'
    BY <1>20, <1>a DEF Crash, MirrorIsTrue, AnswerIsTrue, Landed
  <2> QED
    BY <1>20, <2>1, RoomUntouched DEF Crash
<1>21. CASE UNCHANGED vars
  <2>1. MirrorIsTrue' /\ AnswerIsTrue'
    BY <1>21, <1>a DEF vars, room, work, MirrorIsTrue, AnswerIsTrue, Landed
  <2> QED
    BY <1>21, <2>1, RoomUntouched DEF vars, room
<1> QED
  BY <1>1, <1>2, <1>3, <1>4, <1>5, <1>6, <1>7, <1>8, <1>9, <1>10, <1>11, <1>12,
     <1>13, <1>14, <1>15, <1>16, <1>17, <1>18, <1>19, <1>20, <1>21
  DEF Next, Reconcile, Sweep, RoomAnswers

\* The invariant: mirror, timeline, answers and queue never contradict what
\* the room has.
THEOREM OutcomesAreAlwaysTrue == Spec => []OutcomesAreTrue
  BY TypeCorrect, InitOutcomes, StepOutcomes, PTL DEF Spec

\* Nothing the queue calls published is missing from the room, whatever is
\* lost, delayed or crashed, and however many runs and processes share the
\* files: an acknowledgement is only ever written on the room's own word.
THEOREM NothingIsLost == Spec => []PublishedLanded
<1>1. OutcomesAreTrue => PublishedLanded
  BY DEF OutcomesAreTrue
<1> QED
  BY OutcomesAreAlwaysTrue, <1>1, PTL

-----------------------------------------------------------------------------
(* No hand-off surfaces in a room it was not made for.                     *)

\* What a run lists for its room was made for that room.
LEMMA ListsAreOfTheRoom ==
  ASSUME NEW s, NEW q
  PROVE  \A e \in Recovered(s, q) \cup Sendable(s, q) : RoomOf[e] = q
  BY DEF Recovered, Sendable, OwedTo, EntriesIn

\* What keeps a run in its room.
RoomInv == ListsItsRoom /\ RightRoom

\* Initially no run has a list.
LEMMA InitRoom == Init => RoomInv
  BY DEF Init, RoomInv, ListsItsRoom, RightRoom

\* A step that moves no run to another room, adds nothing to a list and starts
\* no write keeps every run in its room.
LEMMA ListsShrink ==
  ASSUME TypeOK, RoomInv,
         \A x \in Run :
           /\ target'[x] = target[x]
           /\ todo'[x] \subseteq todo[x]
           /\ pc'[x] \in {"refresh", "resolve", "drain", "wait"} =>
                pc[x] \in {"refresh", "resolve", "drain", "wait"}
           /\ pc'[x] = "wait" => pc[x] = "wait" /\ cur'[x] = cur[x]
  PROVE  RoomInv'
  BY DEF RoomInv, ListsItsRoom, RightRoom, TypeOK

\* No step gives a run an entry of a room that is not its own.
LEMMA StepRoom == TypeOK /\ RoomInv /\ [Next]_vars => RoomInv'
<1> SUFFICES ASSUME TypeOK, RoomInv, [Next]_vars PROVE RoomInv'
  OBVIOUS
<1> USE DEF TypeOK
<1>1. ASSUME NEW r \in Run, NEW q \in Room, NEW i \in Instance, Join(r, q, i)
      PROVE  RoomInv'
  <2>1. /\ pc' = [pc EXCEPT ![r] = "recover"]
        /\ target' = [target EXCEPT ![r] = q]
        /\ UNCHANGED <<todo, cur>>
    BY <1>1 DEF Join, Goto, work
  <2> QED
    BY <2>1 DEF RoomInv, ListsItsRoom, RightRoom
<1>2. ASSUME NEW r \in Run, Recover(r) PROVE RoomInv'
  <2>1. /\ pc' = [pc EXCEPT ![r] = IF Recovered(spool, target[r]) = {} THEN "absorb" ELSE "refresh"]
        /\ todo' = [todo EXCEPT ![r] = Recovered(spool, target[r])]
        /\ UNCHANGED <<target, cur>>
    BY <1>2 DEF Recover, Goto, session
  <2> QED
    BY <2>1, ListsAreOfTheRoom DEF RoomInv, ListsItsRoom, RightRoom
<1>3. ASSUME NEW r \in Run, List(r) PROVE RoomInv'
  <2>1. /\ pc' = [pc EXCEPT ![r] = "drain"]
        /\ todo' = [todo EXCEPT ![r] = Sendable(spool, target[r])]
        /\ UNCHANGED <<target, cur>>
    BY <1>3 DEF List, Goto, session
  <2> QED
    BY <2>1, ListsAreOfTheRoom DEF RoomInv, ListsItsRoom, RightRoom
<1>4. ASSUME NEW r \in Run, Send(r) PROVE RoomInv'
  <2> DEFINE e == Oldest(todo[r])
  <2>1. e \in todo[r] /\ pc[r] = "drain"
    BY <1>4, OldestIsOne DEF Send
  <2>2. RoomOf[e] = target[r]
    BY <2>1 DEF RoomInv, ListsItsRoom
  <2>3. /\ UNCHANGED target
        /\ todo' = [todo EXCEPT ![r] = @ \ {e}]
        /\ \/ cur' = [cur EXCEPT ![r] = e] /\ pc' = [pc EXCEPT ![r] = "wait"]
           \/ UNCHANGED <<cur, pc>>
    BY <1>4 DEF Send, Goto, session
  <2> HIDE DEF e
  <2> QED
    BY <2>1, <2>2, <2>3 DEF RoomInv, ListsItsRoom, RightRoom
<1>5. ASSUME NEW r \in Run, Refresh(r) \/ Resolve(r) \/ Resolved(r) \/ SweepAbsorb(r)
      PROVE  RoomInv'
  BY <1>5, ListsShrink
  DEF Refresh, Resolve, Resolved, SweepAbsorb, Goto, session, work
<1>6. ASSUME NEW r \in Run, Settle(r) \/ EndPass(r) \/ Wake(r) PROVE RoomInv'
  BY <1>6, ListsShrink DEF Settle, EndPass, Wake, Goto, session, work
<1>7. ASSUME NEW r \in Run, NEW e \in Entry,
             Share(r, e) \/ Stop(r) \/ SessionExpires(r) \/ GiveUp(r)
      PROVE  RoomInv'
  BY <1>7, ListsShrink DEF Share, Stop, SessionExpires, GiveUp, session, work
<1>8. ASSUME NEW r \in Run, RoomAnswers(r) PROVE RoomInv'
  BY <1>8, ListsShrink
  DEF RoomAnswers, RoomAccepts, RoomRefuses, RoomFails, session
<1>9. ASSUME NEW x \in strays, StrayLands(x) PROVE RoomInv'
  BY <1>9, ListsShrink DEF StrayLands, session, work
<1>10. ASSUME NEW p, Crash(p) PROVE RoomInv'
  BY <1>10, ListsShrink DEF Crash, session
<1>11. CASE UNCHANGED vars
  BY <1>11, ListsShrink DEF vars, session, work
<1> QED
  BY <1>1, <1>2, <1>3, <1>4, <1>5, <1>6, <1>7, <1>8, <1>9, <1>10, <1>11,
     SpoolAssumption
  DEF Next, Reconcile, Sweep, Entry

\* No hand-off is ever sent to a room it was not made for, however joins,
\* rejoins, crashes and the runs of several processes overlap.
THEOREM RoomsStayApart == Spec => []RightRoom
<1>1. RoomInv => RightRoom
  BY DEF RoomInv
<1> QED
  BY TypeCorrect, InitRoom, StepRoom, <1>1, PTL DEF Spec

-----------------------------------------------------------------------------
(* The queue implements the outbox, while no two runs share a room.        *)

\* Of the runs that are on, each has its room for itself: a rejoin waits for
\* the run it cancels, and no second process is in the same room.
OneRunPerRoom ==
  \A r, x \in Run : r # x /\ pc[r] # "off" /\ pc[x] # "off" => target[r] # target[x]

\* What a run has on its list, or waits for, is still as it listed it or as it
\* claimed it; and only what was made is on its way.
ListsAreCurrent ==
  /\ \A r \in Run :
       /\ pc[r] \in {"refresh", "resolve"} =>
            \A e \in todo[r] : spool[e].state = "publishing"
       /\ pc[r] \in {"drain", "wait"} => \A e \in todo[r] : spool[e].state = "queued"
       /\ pc[r] = "wait" => spool[cur[r]].state = "publishing"
  /\ \A x \in strays : spool[x.entry].state # "absent"

\* A room's entries are dealt with by the one run that is on in it: what r has
\* on its list or waits for is on nobody else's.
LEMMA NobodyElses ==
  ASSUME TypeOK, RoomInv, OneRunPerRoom, NEW r \in Run, pc[r] # "off",
         NEW e \in Entry, RoomOf[e] = target[r], NEW x \in Run, x # r
  PROVE  /\ pc[x] \in {"refresh", "resolve", "drain", "wait"} => e \notin todo[x]
         /\ pc[x] = "wait" => cur[x] # e
  BY DEF OneRunPerRoom, RoomInv, ListsItsRoom, RightRoom

\* A step that writes no record, puts nothing on a list and starts no write.
LEMMA ListsStayCurrent ==
  ASSUME TypeOK, ListsAreCurrent, UNCHANGED spool,
         \A x \in strays' : spool[x.entry].state # "absent",
         \A x \in Run :
           /\ todo'[x] \subseteq todo[x]
           /\ pc'[x] \in {"refresh", "resolve"} => pc[x] \in {"refresh", "resolve"}
           /\ pc'[x] \in {"drain", "wait"} => pc[x] \in {"drain", "wait"}
           /\ pc'[x] = "wait" => pc[x] = "wait" /\ cur'[x] = cur[x]
  PROVE  ListsAreCurrent'
  BY DEF ListsAreCurrent

\* A run that writes the record of one entry of its room and has no more of it
\* on its list, unless it now waits for it, disturbs no other run.
LEMMA ListsStayCurrentButOne ==
  ASSUME TypeOK, RoomInv, OneRunPerRoom, ListsAreCurrent, UNCHANGED strays,
         NEW r \in Run, pc[r] \in {"resolve", "drain", "wait"},
         NEW e \in Entry, RoomOf[e] = target[r],
         \A f \in Entry : f # e => spool'[f] = spool[f],
         spool'[e].state # "absent",
         \A x \in Run \ {r} : pc'[x] = pc[x] /\ todo'[x] = todo[x] /\ cur'[x] = cur[x],
         todo'[r] \subseteq todo[r] \ {e},
         \/ pc[r] = "resolve" /\ pc'[r] = "resolve"
         \/ pc[r] \in {"drain", "wait"} /\ pc'[r] \in {"drain", "idle"}
         \/ pc[r] = "drain" /\ pc'[r] = "wait" /\ cur'[r] = e /\ spool'[e].state = "publishing"
  PROVE  ListsAreCurrent'
<1>1. ASSUME NEW x \in Run, x # r
      PROVE  /\ pc'[x] \in {"refresh", "resolve"} =>
                  \A f \in todo'[x] : spool'[f].state = "publishing"
             /\ pc'[x] \in {"drain", "wait"} => \A f \in todo'[x] : spool'[f].state = "queued"
             /\ pc'[x] = "wait" => spool'[cur'[x]].state = "publishing"
  <2>1. /\ pc[x] \in {"refresh", "resolve", "drain", "wait"} => e \notin todo[x]
        /\ pc[x] = "wait" => cur[x] # e
    BY <1>1, NobodyElses
  <2>2. todo[x] \subseteq Entry /\ cur[x] \in Entry
    BY DEF TypeOK
  <2> QED
    BY <1>1, <2>1, <2>2 DEF ListsAreCurrent
<1>2. /\ pc'[r] \in {"refresh", "resolve"} =>
           \A f \in todo'[r] : spool'[f].state = "publishing"
      /\ pc'[r] \in {"drain", "wait"} => \A f \in todo'[r] : spool'[f].state = "queued"
      /\ pc'[r] = "wait" => spool'[cur'[r]].state = "publishing"
  <2>1. todo[r] \subseteq Entry
    BY DEF TypeOK
  <2> QED
    BY <2>1 DEF ListsAreCurrent
<1>3. \A x \in strays' : spool'[x.entry].state # "absent"
  BY DEF ListsAreCurrent, TypeOK, Event
<1> QED
  BY <1>1, <1>2, <1>3 DEF ListsAreCurrent

\* Each writer changes the record of its own entry only, and to which state.
LEMMA WritersChangeOne ==
  ASSUME NEW s \in [Entry -> EntryRecord], NEW e \in Entry
  PROVE  /\ \A f \in Entry : f # e =>
              /\ Claimed(s, e)[f] = s[f] /\ Acked(s, e)[f] = s[f] /\ Failed(s, e)[f] = s[f]
              /\ Expired(s, e)[f] = s[f] /\ Refused(s, e)[f] = s[f]
         /\ Claimed(s, e)[e].state = "publishing" /\ Acked(s, e)[e].state = "published"
         /\ Failed(s, e)[e].state = "queued" /\ Expired(s, e)[e].state = "queued"
         /\ Refused(s, e)[e].state = "refused"
         /\ Claimed(s, e)[e].owner = s[e].owner /\ Acked(s, e)[e].owner = s[e].owner
         /\ Failed(s, e)[e].owner = s[e].owner /\ Expired(s, e)[e].owner = s[e].owner
         /\ Refused(s, e)[e].owner = s[e].owner
  BY DEF EntryRecord, Claimed, Acked, Failed, Expired, Refused

\* What reconcile writes about an entry: that the room has it, that it is to
\* be sent again, or nothing, when the disk refuses.
LEMMA ResolveWrites ==
  ASSUME TypeOK, RoomInv, NEW r \in Run, Resolve(r), NEW e, e = Oldest(todo[r])
  PROVE  /\ e \in Entry /\ e \in todo[r] /\ RoomOf[e] = target[r] /\ pc[r] = "resolve"
         /\ todo' = [todo EXCEPT ![r] = @ \ {e}]
         /\ UNCHANGED <<mirror, room, pc, session, cancelled, cur, answer>>
         /\ \A f \in Entry : f # e => spool'[f] = spool[f]
         /\ spool'[e].owner = spool[e].owner
         /\ \/ spool' = spool /\ Fault("disk")
            \/ spool'[e].state = "published" /\ FindOwn(e) /\ UNCHANGED faults
            \/ spool'[e].state = "queued" /\ ~FindOwn(e) /\ UNCHANGED faults
<1>1. e \in Entry /\ e \in todo[r] /\ pc[r] = "resolve"
  BY OldestIsOne DEF Resolve, TypeOK
<1>2. RoomOf[e] = target[r]
  BY <1>1 DEF RoomInv, ListsItsRoom
<1>3. /\ todo' = [todo EXCEPT ![r] = @ \ {e}]
      /\ UNCHANGED <<mirror, room, pc, session, cancelled, cur, answer>>
      /\ \/ spool' = spool /\ Fault("disk")
         \/ spool' = Acked(spool, e) /\ FindOwn(e) /\ UNCHANGED faults
         \/ spool' = Failed(spool, e) /\ ~FindOwn(e) /\ UNCHANGED faults
  BY DEF Resolve, Mark
<1>4. spool \in [Entry -> EntryRecord]
  BY DEF TypeOK
<1> QED
  BY <1>1, <1>2, <1>3, <1>4, WritersChangeOne

\* What drain writes about an entry before the network is called.
LEMMA SendWrites ==
  ASSUME TypeOK, RoomInv, NEW r \in Run, Send(r), NEW e, e = Oldest(todo[r])
  PROVE  /\ e \in Entry /\ e \in todo[r] /\ RoomOf[e] = target[r] /\ pc[r] = "drain"
         /\ todo' = [todo EXCEPT ![r] = @ \ {e}]
         /\ UNCHANGED <<mirror, room, session, cancelled, answer>>
         /\ \A f \in Entry : f # e => spool'[f] = spool[f]
         /\ spool'[e].owner = spool[e].owner
         /\ spool'[e].state \in {spool[e].state, "publishing"}
         /\ \/ /\ cur' = [cur EXCEPT ![r] = e] /\ pc' = [pc EXCEPT ![r] = "wait"]
               /\ spool'[e].state = "publishing" /\ UNCHANGED faults
            \/ UNCHANGED <<cur, pc>> /\ Fault("disk")
<1>1. e \in Entry /\ e \in todo[r] /\ pc[r] = "drain"
  BY OldestIsOne DEF Send, TypeOK
<1>2. RoomOf[e] = target[r]
  BY <1>1 DEF RoomInv, ListsItsRoom
<1>3. /\ todo' = [todo EXCEPT ![r] = @ \ {e}]
      /\ UNCHANGED <<mirror, room, session, cancelled, answer>>
      /\ \/ /\ cur' = [cur EXCEPT ![r] = e] /\ pc' = [pc EXCEPT ![r] = "wait"]
            /\ spool' = Claimed(spool, e) /\ UNCHANGED faults
         \/ /\ UNCHANGED <<cur, pc>> /\ Fault("disk")
            /\ spool' \in {spool, Claimed(spool, e)}
  BY DEF Send, Goto
<1>4. spool \in [Entry -> EntryRecord]
  BY DEF TypeOK
<1> QED
  BY <1>1, <1>2, <1>3, <1>4, WritersChangeOne

\* What publish writes once the write was answered or given up.
LEMMA SettleWrites ==
  ASSUME TypeOK, RoomInv, NEW r \in Run, Settle(r), NEW e, e = cur[r]
  PROVE  /\ e \in Entry /\ RoomOf[e] = target[r] /\ pc[r] = "wait" /\ answer[r] # "none"
         /\ pc' = [pc EXCEPT ![r] = IF answer[r] = "expired" THEN "idle" ELSE "drain"]
         /\ todo' = [todo EXCEPT ![r] = IF answer[r] = "expired" THEN {} ELSE @]
         /\ answer' = [answer EXCEPT ![r] = "none"]
         /\ UNCHANGED <<mirror, room, session, cancelled, cur>>
         /\ \A f \in Entry : f # e => spool'[f] = spool[f]
         /\ spool'[e].owner = spool[e].owner
         /\ \/ spool' = spool /\ Fault("disk")
            \/ spool'[e].state = "published" /\ answer[r] = "ok" /\ UNCHANGED faults
            \/ spool'[e].state = "refused" /\ answer[r] = "refused" /\ UNCHANGED faults
            \/ spool'[e].state = "queued" /\ answer[r] \in {"expired", "failed"} /\ UNCHANGED faults
<1>1. e \in Entry /\ RoomOf[e] = target[r] /\ pc[r] = "wait" /\ answer[r] # "none"
  BY DEF Settle, TypeOK, RoomInv, RightRoom
<1>2. /\ pc' = [pc EXCEPT ![r] = IF answer[r] = "expired" THEN "idle" ELSE "drain"]
      /\ todo' = [todo EXCEPT ![r] = IF answer[r] = "expired" THEN {} ELSE @]
      /\ answer' = [answer EXCEPT ![r] = "none"]
      /\ UNCHANGED <<mirror, room, session, cancelled, cur>>
  BY DEF Settle, Goto, TypeOK
<1>3. answer[r] \in {"ok", "refused", "expired", "failed"}
  BY <1>1 DEF TypeOK, Answer
<1>4. \/ spool' = spool /\ Fault("disk")
      \/ spool' = Acked(spool, e) /\ answer[r] = "ok" /\ UNCHANGED faults
      \/ spool' = Refused(spool, e) /\ answer[r] = "refused" /\ UNCHANGED faults
      \/ spool' = Expired(spool, e) /\ answer[r] = "expired" /\ UNCHANGED faults
      \/ spool' = Failed(spool, e) /\ answer[r] = "failed" /\ UNCHANGED faults
  BY <1>3 DEF Settle, Mark, Settled
<1>5. spool \in [Entry -> EntryRecord]
  BY DEF TypeOK
<1> QED
  BY <1>1, <1>2, <1>4, <1>5, WritersChangeOne

\* No step of one run spoils what another has on its list.
LEMMA StepLists ==
  TypeOK /\ RoomInv /\ OneRunPerRoom /\ ListsAreCurrent /\ [Next]_vars => ListsAreCurrent'
<1> SUFFICES ASSUME TypeOK, RoomInv, OneRunPerRoom, ListsAreCurrent, [Next]_vars
             PROVE  ListsAreCurrent'
  OBVIOUS
<1>1. ASSUME NEW r \in Run, NEW q \in Room, NEW i \in Instance, Join(r, q, i)
      PROVE  ListsAreCurrent'
  <2>1. pc' = [pc EXCEPT ![r] = "recover"] /\ UNCHANGED <<spool, strays, todo, cur>>
    BY <1>1 DEF Join, Goto, room, work
  <2> QED
    BY <2>1, ListsStayCurrent DEF ListsAreCurrent, TypeOK
<1>2. ASSUME NEW r \in Run, NEW e \in Entry, Share(r, e) PROVE ListsAreCurrent'
  <2>1. /\ UNCHANGED <<pc, todo, cur, strays>>
        /\ spool[e].state = "absent" /\ spool' = Accepted(spool, e, inst[r])
    BY <1>2 DEF Share, room, work
  <2>2. /\ \A f \in Entry : f # e => spool'[f] = spool[f]
        /\ spool'[e].state = "queued"
    BY <2>1 DEF Accepted, Absent, TypeOK
  <2>3. /\ \A x \in Run : todo[x] \subseteq Entry /\ cur[x] \in Entry
        /\ \A x \in strays : x.entry \in Entry
    BY DEF TypeOK, Event
  <2>4. ASSUME NEW x \in Run
        PROVE  /\ pc'[x] \in {"refresh", "resolve"} =>
                    \A f \in todo'[x] : spool'[f].state = "publishing"
               /\ pc'[x] \in {"drain", "wait"} => \A f \in todo'[x] : spool'[f].state = "queued"
               /\ pc'[x] = "wait" => spool'[cur'[x]].state = "publishing"
    BY <2>1, <2>2, <2>3 DEF ListsAreCurrent
  <2>5. \A x \in strays' : spool'[x.entry].state # "absent"
    BY <2>1, <2>2, <2>3 DEF ListsAreCurrent
  <2> QED
    BY <2>4, <2>5 DEF ListsAreCurrent
<1>3. ASSUME NEW r \in Run, Recover(r) PROVE ListsAreCurrent'
  <2>1. /\ pc' = [pc EXCEPT ![r] = IF Recovered(spool, target[r]) = {} THEN "absorb" ELSE "refresh"]
        /\ todo' = [todo EXCEPT ![r] = Recovered(spool, target[r])]
        /\ UNCHANGED <<spool, strays, cur>>
    BY <1>3 DEF Recover, Goto, room
  <2>2. \A e \in Recovered(spool, target[r]) : spool[e].state = "publishing"
    BY DEF Recovered, EntriesIn
  <2> QED
    BY <2>1, <2>2 DEF ListsAreCurrent, TypeOK
<1>4. ASSUME NEW r \in Run, List(r) PROVE ListsAreCurrent'
  <2>1. /\ pc' = [pc EXCEPT ![r] = "drain"]
        /\ todo' = [todo EXCEPT ![r] = Sendable(spool, target[r])]
        /\ UNCHANGED <<spool, strays, cur>>
    BY <1>4 DEF List, Goto, room
  <2>2. \A e \in Sendable(spool, target[r]) : spool[e].state = "queued"
    BY DEF Sendable
  <2> QED
    BY <2>1, <2>2 DEF ListsAreCurrent, TypeOK
<1>5. ASSUME NEW r \in Run, Resolve(r) PROVE ListsAreCurrent'
  <2>1. PICK e : e = Oldest(todo[r])
    OBVIOUS
  <2>2. /\ e \in Entry /\ e \in todo[r] /\ RoomOf[e] = target[r] /\ pc[r] = "resolve"
        /\ todo' = [todo EXCEPT ![r] = @ \ {e}]
        /\ UNCHANGED <<room, pc, cur>>
        /\ \A f \in Entry : f # e => spool'[f] = spool[f]
        /\ spool' = spool \/ spool'[e].state \in {"published", "queued"}
    BY <1>5, <2>1, ResolveWrites
  <2>3. spool'[e].state # "absent"
    BY <2>2 DEF ListsAreCurrent
  <2> QED
    BY <2>2, <2>3, ListsStayCurrentButOne DEF room, TypeOK
<1>6. ASSUME NEW r \in Run, Send(r) PROVE ListsAreCurrent'
  <2>1. PICK e : e = Oldest(todo[r])
    OBVIOUS
  <2>2. /\ e \in Entry /\ e \in todo[r] /\ RoomOf[e] = target[r] /\ pc[r] = "drain"
        /\ todo' = [todo EXCEPT ![r] = @ \ {e}]
        /\ UNCHANGED room
        /\ \A f \in Entry : f # e => spool'[f] = spool[f]
        /\ spool'[e].state \in {spool[e].state, "publishing"}
        /\ \/ /\ cur' = [cur EXCEPT ![r] = e] /\ pc' = [pc EXCEPT ![r] = "wait"]
              /\ spool'[e].state = "publishing"
           \/ UNCHANGED <<cur, pc>>
    BY <1>6, <2>1, SendWrites
  <2>3. spool'[e].state # "absent"
    BY <2>2 DEF ListsAreCurrent
  <2> QED
    BY <2>2, <2>3, ListsStayCurrentButOne DEF room, TypeOK
<1>7. ASSUME NEW r \in Run, Settle(r) PROVE ListsAreCurrent'
  <2>1. PICK e : e = cur[r]
    OBVIOUS
  <2>2. /\ e \in Entry /\ RoomOf[e] = target[r] /\ pc[r] = "wait"
        /\ pc' = [pc EXCEPT ![r] = IF answer[r] = "expired" THEN "idle" ELSE "drain"]
        /\ todo' = [todo EXCEPT ![r] = IF answer[r] = "expired" THEN {} ELSE @]
        /\ UNCHANGED <<room, cur>>
        /\ \A f \in Entry : f # e => spool'[f] = spool[f]
        /\ spool' = spool \/ spool'[e].state \in {"published", "refused", "queued"}
    BY <1>7, <2>1, SettleWrites
  <2>3. spool[e].state = "publishing" /\ e \notin todo[r]
    BY <2>1, <2>2 DEF ListsAreCurrent
  <2>4. pc'[r] \in {"drain", "idle"} /\ todo'[r] \subseteq todo[r] \ {e}
    BY <2>2, <2>3 DEF TypeOK
  <2> QED
    BY <2>2, <2>3, <2>4, ListsStayCurrentButOne DEF room, TypeOK
<1>8. ASSUME NEW r \in Run, Refresh(r) \/ Resolved(r) \/ SweepAbsorb(r) \/ EndPass(r) \/ Wake(r)
      PROVE  ListsAreCurrent'
  BY <1>8, ListsStayCurrent
  DEF Refresh, Resolved, SweepAbsorb, EndPass, Wake, Goto, room, work, TypeOK, ListsAreCurrent
<1>9. ASSUME NEW r \in Run, RoomAnswers(r) \/ Stop(r) \/ SessionExpires(r)
      PROVE  ListsAreCurrent'
  BY <1>9, ListsStayCurrent
  DEF RoomAnswers, RoomAccepts, RoomRefuses, RoomFails, Stop, SessionExpires, room, work,
      ListsAreCurrent
<1>10. ASSUME NEW x \in strays, StrayLands(x) PROVE ListsAreCurrent'
  BY <1>10, ListsStayCurrent DEF StrayLands, work, ListsAreCurrent
<1>11. ASSUME NEW r \in Run PROVE \A x \in Outstanding(r) : spool[x.entry].state # "absent"
  BY DEF Outstanding, ListsAreCurrent
<1>12. ASSUME NEW r \in Run, GiveUp(r) PROVE ListsAreCurrent'
  <2>1. strays' \subseteq strays \cup Outstanding(r)
    BY <1>12 DEF GiveUp, LetGo
  <2>2. \A x \in strays' : spool[x.entry].state # "absent"
    BY <1>11, <2>1 DEF ListsAreCurrent
  <2> QED
    BY <1>12, <2>2, ListsStayCurrent DEF GiveUp
<1>13. ASSUME NEW p, Crash(p) PROVE ListsAreCurrent'
  <2>1. strays' \subseteq strays \cup UNION {Outstanding(r) : r \in {x \in Run : ProcOf[x] = p}}
    BY <1>13 DEF Crash, LetGo
  <2>2. \A x \in strays' : spool[x.entry].state # "absent"
    BY <1>11, <2>1 DEF ListsAreCurrent
  <2> QED
    BY <1>13, <2>2, ListsStayCurrent DEF Crash
<1>14. CASE UNCHANGED vars
  BY <1>14, ListsStayCurrent DEF vars, room, work, ListsAreCurrent
<1> QED
  BY <1>1, <1>2, <1>3, <1>4, <1>5, <1>6, <1>7, <1>8, <1>9, <1>10, <1>12, <1>13, <1>14
  DEF Next, Reconcile, Sweep

(* At first no worker has listed anything. *)
LEMMA InitLists == Init => ListsAreCurrent
  BY DEF Init, ListsAreCurrent

\* The outbox's view of one entry's record: it stays as it is, or is accepted,
\* confirmed when the room has the words, or refused.
LEMMA OutboxMoves ==
  ASSUME TypeOK, NEW e \in Entry, UNCHANGED copies,
         \A f \in Entry : f # e => spool'[f].state = spool[f].state,
         \/ Status(e)' = Status(e)
         \/ Status(e) = "absent" /\ Status(e)' = "owed"
         \/ Status(e) = "owed" /\ Status(e)' = "published" /\ Landed(e)
         \/ Status(e) = "owed" /\ Status(e)' = "refused"
  PROVE  [O!Next]_(O!vars)
<1> DEFINE st == [f \in Entry |-> Status(f)]
           has == {Text[f] : f \in {g \in Entry : copies[g] > 0}}
<1>1. has' = has
  OBVIOUS
<1>2. \A f \in Entry : f # e => Status(f)' = Status(f)
  BY DEF Status
<1>3. st' = [st EXCEPT ![e] = Status(e)']
  BY <1>2
<1>4. CASE Status(e)' = Status(e)
  <2>1. st' = st
    BY <1>2, <1>4
  <2> QED
    BY <1>1, <2>1 DEF O!vars
<1>5. CASE Status(e) = "absent" /\ Status(e)' = "owed"
  <2>1. O!Accept(e)
    BY <1>1, <1>3, <1>5 DEF O!Accept
  <2> QED
    BY <2>1 DEF O!Next
<1>6. CASE Status(e) = "owed" /\ Status(e)' = "published" /\ Landed(e)
  <2>1. Text[e] \in has
    BY <1>6 DEF Landed
  <2>2. O!Confirm(e)
    BY <1>1, <1>3, <1>6, <2>1 DEF O!Confirm
  <2> QED
    BY <2>2 DEF O!Next
<1>7. CASE Status(e) = "owed" /\ Status(e)' = "refused"
  <2>1. O!Refuse(e)
    BY <1>1, <1>3, <1>7 DEF O!Refuse
  <2> QED
    BY <2>1 DEF O!Next
<1> QED
  BY <1>4, <1>5, <1>6, <1>7

\* A write that lands is a delivery, unless the room has the claim already.
LEMMA LandsIsDelivery ==
  ASSUME TypeOK, UNCHANGED spool, NEW by \in Instance, NEW e \in Entry, Lands(by, e),
         spool[e].state # "absent"
  PROVE  [O!Next]_(O!vars)
<1> DEFINE st == [f \in Entry |-> Status(f)]
           has == {Text[f] : f \in {g \in Entry : copies[g] > 0}}
<1>1. st' = st
  BY DEF Status
<1>2. CASE AlreadyStaged(e)
  <2>1. copies' = copies
    BY <1>2 DEF Lands
  <2>2. has' = has
    BY <2>1
  <2> QED
    BY <1>1, <2>2 DEF O!vars
<1>3. CASE ~AlreadyStaged(e)
  <2>1. copies' = [copies EXCEPT ![e] = @ + 1] /\ copies \in [Entry -> Nat]
    BY <1>3 DEF Lands, TypeOK
  <2>2. \A f \in Entry : copies'[f] > 0 <=> copies[f] > 0 \/ f = e
    BY <2>1
  <2>3. {g \in Entry : copies'[g] > 0} = {g \in Entry : copies[g] > 0} \cup {e}
    BY <2>2
  <2>4. has' = has \cup {Text[e]}
    BY <2>3
  <2>5. Status(e) # "absent"
    BY DEF Status
  <2>6. O!Deliver(e)
    BY <1>1, <2>4, <2>5 DEF O!Deliver
  <2> QED
    BY <2>6 DEF O!Next
<1> QED
  BY <1>2, <1>3

\* A step that neither writes a record nor lands anything is none of the outbox.
LEMMA NothingForTheOutbox ==
  ASSUME UNCHANGED <<spool, copies>>
  PROVE  UNCHANGED O!vars
  BY DEF O!vars, Status

\* The queue and the room are what TypeOK, the outcomes, the rooms and the
\* lists say of them.
QueueInv == TypeOK /\ OutcomesAreTrue /\ RoomInv /\ ListsAreCurrent

\* Every step of the worker, the room, a process or the agent is a step of the
\* outbox, or none.
LEMMA StepOutbox ==
  ASSUME QueueInv, OneRunPerRoom, [Next]_vars
  PROVE  [O!Next]_(O!vars)
<1> USE DEF QueueInv
<1>1. ASSUME NEW r \in Run, NEW e \in Entry, Share(r, e) PROVE [O!Next]_(O!vars)
  <2>1. /\ spool[e].state = "absent" /\ spool' = Accepted(spool, e, inst[r])
        /\ UNCHANGED copies
    BY <1>1 DEF Share, room
  <2>2. /\ \A f \in Entry : f # e => spool'[f].state = spool[f].state
        /\ spool'[e].state = "queued"
    BY <2>1 DEF Accepted, Absent, TypeOK
  <2>3. Status(e) = "absent" /\ Status(e)' = "owed"
    BY <2>1, <2>2 DEF Status
  <2> QED
    BY <2>1, <2>2, <2>3, OutboxMoves
<1>2. ASSUME NEW r \in Run, Resolve(r) PROVE [O!Next]_(O!vars)
  <2>1. PICK e : e = Oldest(todo[r])
    OBVIOUS
  <2>2. /\ e \in Entry /\ e \in todo[r] /\ pc[r] = "resolve" /\ UNCHANGED room
        /\ \A f \in Entry : f # e => spool'[f] = spool[f]
        /\ \/ spool' = spool
           \/ spool'[e].state = "published" /\ FindOwn(e)
           \/ spool'[e].state = "queued"
    BY <1>2, <2>1, ResolveWrites
  <2>3. spool[e].state = "publishing"
    BY <2>2 DEF ListsAreCurrent
  <2>4. FindOwn(e) => Landed(e)
    BY <2>2, FoundOwnLanded
  <2>5. \/ Status(e)' = Status(e)
        \/ Status(e) = "owed" /\ Status(e)' = "published" /\ Landed(e)
    BY <2>2, <2>3, <2>4 DEF Status
  <2> QED
    BY <2>2, <2>5, OutboxMoves DEF room
<1>3. ASSUME NEW r \in Run, Send(r) PROVE [O!Next]_(O!vars)
  <2>1. PICK e : e = Oldest(todo[r])
    OBVIOUS
  <2>2. /\ e \in Entry /\ e \in todo[r] /\ pc[r] = "drain" /\ UNCHANGED room
        /\ \A f \in Entry : f # e => spool'[f] = spool[f]
        /\ spool'[e].state \in {spool[e].state, "publishing"}
    BY <1>3, <2>1, SendWrites
  <2>3. spool[e].state = "queued"
    BY <2>2 DEF ListsAreCurrent
  <2>4. Status(e)' = Status(e)
    BY <2>2, <2>3 DEF Status
  <2> QED
    BY <2>2, <2>4, OutboxMoves DEF room
<1>4. ASSUME NEW r \in Run, Settle(r) PROVE [O!Next]_(O!vars)
  <2>1. PICK e : e = cur[r]
    OBVIOUS
  <2>2. /\ e \in Entry /\ pc[r] = "wait" /\ UNCHANGED room
        /\ \A f \in Entry : f # e => spool'[f] = spool[f]
        /\ \/ spool' = spool
           \/ spool'[e].state = "published" /\ answer[r] = "ok"
           \/ spool'[e].state \in {"refused", "queued"}
    BY <1>4, <2>1, SettleWrites
  <2>3. spool[e].state = "publishing"
    BY <2>1, <2>2 DEF ListsAreCurrent
  <2>4. answer[r] = "ok" => Landed(e)
    BY <2>1 DEF OutcomesAreTrue, AnswerIsTrue
  <2>5. \/ Status(e)' = Status(e)
        \/ Status(e) = "owed" /\ Status(e)' = "published" /\ Landed(e)
        \/ Status(e) = "owed" /\ Status(e)' = "refused"
    BY <2>2, <2>3, <2>4 DEF Status
  <2> QED
    BY <2>2, <2>5, OutboxMoves DEF room
<1>5. ASSUME NEW r \in Run, RoomAccepts(r) PROVE [O!Next]_(O!vars)
  <2>1. Lands(inst[r], cur[r]) /\ inst[r] \in Instance /\ cur[r] \in Entry /\ spool' = spool
    BY <1>5 DEF RoomAccepts, TypeOK
  <2>2. spool[cur[r]].state # "absent"
    BY <1>5 DEF RoomAccepts, ListsAreCurrent
  <2> QED
    BY <2>1, <2>2, LandsIsDelivery
<1>6. ASSUME NEW x \in strays, StrayLands(x) PROVE [O!Next]_(O!vars)
  <2>1. Lands(x.by, x.entry) /\ x.by \in Instance /\ x.entry \in Entry /\ spool' = spool
    BY <1>6 DEF StrayLands, TypeOK, Event
  <2>2. spool[x.entry].state # "absent"
    BY DEF ListsAreCurrent
  <2> QED
    BY <2>1, <2>2, LandsIsDelivery
<1>7. ASSUME NEW r \in Run,
             \/ \E q \in Room, i \in Instance : Join(r, q, i)
             \/ Recover(r) \/ Refresh(r) \/ Resolved(r)
             \/ SweepAbsorb(r) \/ List(r) \/ EndPass(r) \/ Wake(r)
             \/ RoomRefuses(r) \/ RoomFails(r) \/ GiveUp(r) \/ Stop(r) \/ SessionExpires(r)
             \/ Crash(ProcOf[r])
      PROVE  [O!Next]_(O!vars)
  <2>1. UNCHANGED <<spool, copies>>
    BY <1>7 DEF Join, Recover, Refresh, Resolved, SweepAbsorb, List, EndPass, Wake,
                RoomRefuses, RoomFails, GiveUp, Stop, SessionExpires, Crash, room
  <2> QED
    BY <2>1, NothingForTheOutbox
<1>8. CASE UNCHANGED vars
  BY <1>8, NothingForTheOutbox DEF vars, room
<1> QED
  BY <1>1, <1>2, <1>3, <1>4, <1>5, <1>6, <1>7, <1>8
  DEF Next, Reconcile, Sweep, RoomAnswers

(* At first every entry of the outbox is new. *)
LEMMA InitOutbox == Init => O!Init
<1> SUFFICES ASSUME Init PROVE O!Init
  OBVIOUS
<1>1. \A e \in Entry : Status(e) = "absent"
  BY DEF Init, Status, Absent
<1>2. {f \in Entry : copies[f] > 0} = {}
  BY DEF Init
<1> QED
  BY <1>1, <1>2 DEF O!Init

\* Whatever crashes, is lost, delayed or refused, and however many processes
\* and rooms there are: as long as no two runs share a room, the queue is an
\* at-least-once outbox, which also takes back nothing that is finished.
THEOREM QueueIsAnOutbox == Spec /\ []OneRunPerRoom => ImplementsOutbox
<1>1. Init => QueueInv
  BY InitType, InitOutcomes, InitRoom, InitLists DEF QueueInv
<1>2. QueueInv /\ OneRunPerRoom /\ [Next]_vars => QueueInv'
  BY StepType, StepOutcomes, StepRoom, StepLists DEF QueueInv
<1>3. QueueInv /\ OneRunPerRoom /\ [Next]_vars => [O!Next]_(O!vars)
  BY StepOutbox
<1> QED
  BY <1>1, <1>2, <1>3, InitOutbox, PTL DEF Spec, ImplementsOutbox, O!Spec

\* A worker whose runs follow one another, which is the instance TLC checks,
\* needs no such premise.
THEOREM OneWorkerIsAnOutbox ==
  ASSUME \A r, x \in Run : r = x
  PROVE  Spec => ImplementsOutbox
<1>1. OneRunPerRoom
  BY DEF OneRunPerRoom
<1> QED
  BY <1>1, QueueIsAnOutbox, PTL

-----------------------------------------------------------------------------
(* A crash is invisible to the room (D9).                                  *)

\* Every run's join is issued the same instance id: the seat of one harness.
OneSeatForAll == \A r, x \in Run : Seat[r] = Seat[x]

\* The event a hand-off leaves when its own run sends it.
OwnEvent(e) == [by |-> spool[e].owner, entry |-> e]

\* A hand-off the room has is one nobody will send: its record is past the
\* queue, whoever waits for its answer has it, and whoever is about to resolve
\* it finds its event, which was written under the name of its owner.
LandedIsKnown(e) ==
  copies[e] > 0 =>
    /\ OwnEvent(e) \in timeline
    /\ spool[e].state \notin {"absent", "queued"}
    /\ \A r \in Run :
         /\ pc[r] = "wait" /\ cur[r] = e => answer[r] = "ok"
         /\ pc[r] = "resolve" /\ e \in todo[r] => OwnEvent(e) \in mirror

\* While nothing worse than a crash, a transient answer or a full disk is met:
\* the runs have their sessions and their seats, and nothing landed twice.
Quiet ==
  /\ \A r \in Run : pc[r] # "off" => up[r] /\ ~cancelled[r] /\ inst[r] = Seat[r]
  /\ \A e \in Entry, r \in Run : spool[e].state # "absent" => spool[e].owner = Seat[r]
  /\ \A e \in Entry : copies[e] <= 1
  /\ \A e \in Entry \ Claim : LandedIsKnown(e)

QuietInv == faults.met \subseteq Harmless => Quiet

\* Kinds of fault add up: who has met only harmless ones met no other before,
\* and meets no other now.
LEMMA OnlyHarmless ==
  ASSUME TypeOK, NEW kind, Fault(kind) \/ UNCHANGED faults, faults'.met \subseteq Harmless
  PROVE  faults.met \subseteq Harmless /\ (Fault(kind) => kind \in Harmless)
  BY DEF Fault, TypeOK

\* A step that neither writes a record nor lands anything, and starts neither a
\* write nor a reconciliation.
LEMMA StaysQuiet ==
  ASSUME TypeOK, Quiet, UNCHANGED <<spool, timeline, copies>>, mirror \subseteq mirror',
         \A r \in Run :
           /\ pc'[r] # "off" => pc[r] # "off"
           /\ up'[r] = up[r] /\ cancelled'[r] = cancelled[r] /\ inst'[r] = inst[r]
           /\ pc'[r] = "wait" =>
                pc[r] = "wait" /\ cur'[r] = cur[r]
                  /\ (answer[r] = "ok" => answer'[r] = "ok")
           /\ pc'[r] = "resolve" => pc[r] = "resolve" /\ todo'[r] \subseteq todo[r]
  PROVE  Quiet'
<1>1. \A e \in Entry \ Claim : LandedIsKnown(e)'
  BY DEF Quiet, LandedIsKnown, OwnEvent
<1> QED
  BY <1>1 DEF Quiet

\* A run writes the record of one entry of its room; nothing lands.  If it
\* goes back to the queue, or is claimed, the room does not have it.
LEMMA StaysQuietButOne ==
  ASSUME TypeOK, RoomInv, OneRunPerRoom, Quiet,
         UNCHANGED <<timeline, copies, mirror, up, cancelled, inst>>,
         NEW r \in Run, pc[r] # "off", NEW e \in Entry,
         RoomOf[e] = target[r], \A f \in Entry : f # e => spool'[f] = spool[f],
         spool[e].state # "absent",
         spool'[e].owner = spool[e].owner, 
         spool'[e].state \in {"absent", "queued"} /\ e \notin Claim => copies[e] = 0,
         \A x \in Run \ {r} :
           pc'[x] = pc[x] /\ todo'[x] = todo[x] /\ cur'[x] = cur[x] /\ answer'[x] = answer[x],
         pc'[r] = "wait" => cur'[r] = e /\ (e \in Claim \/ copies[e] = 0),
         pc'[r] = "resolve" => pc[r] = "resolve" /\ todo'[r] \subseteq todo[r]
  PROVE  Quiet'
<1>1. \A x \in Run : pc'[x] # "off" => up'[x] /\ ~cancelled'[x] /\ inst'[x] = Seat[x]
  BY DEF Quiet
<1>2. \A f \in Entry, x \in Run : spool'[f].state # "absent" => spool'[f].owner = Seat[x]
  BY DEF Quiet
<1>3. ASSUME NEW f \in Entry \ Claim PROVE LandedIsKnown(f)'
  <2> SUFFICES ASSUME copies[f] > 0
               PROVE  /\ OwnEvent(f)' \in timeline
                      /\ spool'[f].state \notin {"absent", "queued"}
                      /\ \A x \in Run :
                           /\ pc'[x] = "wait" /\ cur'[x] = f => answer'[x] = "ok"
                           /\ pc'[x] = "resolve" /\ f \in todo'[x] => OwnEvent(f)' \in mirror
    BY DEF LandedIsKnown
  <2>1. /\ OwnEvent(f) \in timeline
        /\ spool[f].state \notin {"absent", "queued"}
        /\ \A x \in Run :
             /\ pc[x] = "wait" /\ cur[x] = f => answer[x] = "ok"
             /\ pc[x] = "resolve" /\ f \in todo[x] => OwnEvent(f) \in mirror
    BY DEF Quiet, LandedIsKnown
  <2>2. OwnEvent(f)' = OwnEvent(f)
    BY DEF OwnEvent
  <2>3. copies[f] # 0
    BY DEF TypeOK
  <2>4. spool'[f].state \notin {"absent", "queued"}
    BY <2>1, <2>3
  <2>5. pc'[r] = "wait" => cur'[r] # f
    BY <2>3
  <2> QED
    BY <2>1, <2>2, <2>4, <2>5
<1> QED
  BY <1>1, <1>2, <1>3 DEF Quiet

\* The room accepts a write it was not known to have: one more copy, of one it
\* had none of.
LEMMA AcceptsOnce ==
  ASSUME TypeOK, RoomInv, OneRunPerRoom, ListsAreCurrent, Quiet, NEW r \in Run, RoomAccepts(r)
  PROVE  Quiet'
<1> DEFINE e == cur[r]
<1>1. /\ pc[r] = "wait" /\ answer[r] = "none" /\ Lands(inst[r], e) /\ e \in Entry
      /\ answer' = [answer EXCEPT ![r] = "ok"]
      /\ UNCHANGED <<spool, mirror, pc, up, inst, cancelled, todo, cur>>
  BY DEF RoomAccepts, session, TypeOK
<1>2. inst[r] = spool[e].owner /\ spool[e].state = "publishing" /\ RoomOf[e] = target[r]
  BY <1>1 DEF ListsAreCurrent, Quiet, RoomInv, RightRoom
<1> HIDE DEF e
<1>3. \A f \in Entry, x \in Run : spool'[f].state # "absent" => spool'[f].owner = Seat[x]
  BY <1>1 DEF Quiet
<1>4. \A x \in Run : pc'[x] # "off" => up'[x] /\ ~cancelled'[x] /\ inst'[x] = Seat[x]
  BY <1>1 DEF Quiet
<1>5. CASE AlreadyStaged(e)
  <2>1. UNCHANGED <<timeline, copies>>
    BY <1>1, <1>5 DEF Lands
  <2> QED
    BY <1>1, <2>1, StaysQuiet DEF TypeOK
<1>6. CASE ~AlreadyStaged(e)
  <2>1. timeline' = timeline \cup {OwnEvent(e)} /\ copies' = [copies EXCEPT ![e] = @ + 1]
    BY <1>1, <1>2, <1>6 DEF Lands, OwnEvent
  <2>2. copies[e] = 0
    <3>1. CASE e \in Claim
      BY <1>1, <1>6, <3>1 DEF AlreadyStaged, TypeOK
    <3>2. CASE e \notin Claim
      <4>1. LandedIsKnown(e)
        BY <1>1, <3>2 DEF Quiet
      <4>2. cur[r] = e
        BY DEF e
      <4> QED
        BY <1>1, <4>1, <4>2 DEF LandedIsKnown, TypeOK
    <3> QED
      BY <3>1, <3>2
  <2>3. \A f \in Entry : copies'[f] <= 1
    BY <1>1, <2>1, <2>2 DEF Quiet, TypeOK
  <2>4. ASSUME NEW f \in Entry \ Claim PROVE LandedIsKnown(f)'
    <3>1. OwnEvent(f)' = OwnEvent(f)
      BY <1>1 DEF OwnEvent
    <3>2. CASE f = e
      <4>1. ASSUME NEW x \in Run, x # r
            PROVE  /\ ~(pc[x] = "wait" /\ cur[x] = e)
                   /\ ~(pc[x] = "resolve" /\ e \in todo[x])
        BY <1>1, <1>2, <4>1, NobodyElses
      <4>2. OwnEvent(f) \in timeline' /\ spool'[f].state \notin {"absent", "queued"}
        BY <1>1, <1>2, <2>1, <3>2
      <4>3. \A x \in Run : /\ pc'[x] = "wait" /\ cur'[x] = f => answer'[x] = "ok"
                           /\ ~(pc'[x] = "resolve" /\ f \in todo'[x])
        BY <1>1, <3>2, <4>1 DEF TypeOK
      <4> QED
        BY <3>1, <4>2, <4>3 DEF LandedIsKnown
    <3>3. CASE f # e
      <4>1. LandedIsKnown(f) /\ copies'[f] = copies[f] /\ timeline \subseteq timeline'
        BY <2>1, <3>3 DEF Quiet, TypeOK
      <4>2. \A x \in Run : pc[x] = "wait" /\ cur[x] = f /\ answer[x] = "ok" => answer'[x] = "ok"
        BY <1>1 DEF TypeOK
      <4> QED
        BY <1>1, <3>1, <4>1, <4>2 DEF LandedIsKnown
    <3> QED
      BY <3>2, <3>3
  <2> QED
    BY <1>3, <1>4, <2>3, <2>4 DEF Quiet
<1> QED
  BY <1>5, <1>6

\* No step takes a hand-off the room has back to where it would be sent again.
LEMMA StepQuiet ==
  ASSUME OneSeatForAll
  PROVE  QueueInv /\ OneRunPerRoom /\ QuietInv /\ [Next]_vars => QuietInv'
<1> SUFFICES ASSUME TypeOK, OutcomesAreTrue, RoomInv, ListsAreCurrent, OneRunPerRoom,
                    QuietInv, [Next]_vars, faults'.met \subseteq Harmless
             PROVE  Quiet'
  BY DEF QuietInv, QueueInv
<1>a. ASSUME NEW kind, Fault(kind) PROVE kind \in Harmless /\ Quiet
  BY <1>a, OnlyHarmless DEF QuietInv
<1>b. ASSUME UNCHANGED faults PROVE Quiet
  BY <1>b DEF QuietInv
<1>1. ASSUME NEW r \in Run, NEW q \in Room, NEW i \in Instance, Join(r, q, i)
      PROVE  Quiet'
  <2>1. i = Seat[r] /\ ~(\E x \in Siblings(r) : Joined(x)) /\ Quiet
    BY <1>1, <1>a, <1>b DEF Join, Harmless
  <2>2. /\ pc[r] = "off" /\ pc' = [pc EXCEPT ![r] = "recover"]
        /\ cancelled' = [x \in Run |->
             IF x = r THEN FALSE ELSE cancelled[x] \/ x \in Siblings(r)]
        /\ inst' = [inst EXCEPT ![r] = i]
        /\ up' = [up EXCEPT ![r] = TRUE]
        /\ UNCHANGED <<spool, mirror, timeline, copies, todo, cur, answer>>
    BY <1>1 DEF Join, Goto, room, work
  <2>3. ASSUME NEW x \in Run, pc'[x] # "off"
        PROVE  up'[x] /\ ~cancelled'[x] /\ inst'[x] = Seat[x]
    <3>1. CASE x = r
      BY <2>1, <2>2, <3>1 DEF TypeOK
    <3>2. CASE x # r
      <4>1. pc[x] # "off" /\ up'[x] = up[x] /\ inst'[x] = inst[x]
        BY <2>2, <2>3, <3>2 DEF TypeOK
      <4>2. up[x] /\ ~cancelled[x] /\ inst[x] = Seat[x]
        BY <2>1, <4>1 DEF Quiet
      <4>3. x \notin Siblings(r)
        BY <2>1, <4>1, <4>2 DEF Joined
      <4>4. ~cancelled'[x]
        BY <2>2, <3>2, <4>2, <4>3
      <4> QED
        BY <4>1, <4>2, <4>4
    <3> QED
      BY <3>1, <3>2
  <2>4. \A e \in Entry \ Claim : LandedIsKnown(e)'
    BY <2>1, <2>2 DEF Quiet, LandedIsKnown, OwnEvent, TypeOK
  <2> QED
    BY <2>1, <2>2, <2>3, <2>4 DEF Quiet
<1>2. ASSUME NEW r \in Run, NEW e \in Entry, Share(r, e) PROVE Quiet'
  <2>1. Quiet
    BY <1>2, <1>b DEF Share
  <2>2. /\ pc[r] # "off" /\ spool[e].state = "absent" /\ spool' = Accepted(spool, e, inst[r])
        /\ UNCHANGED <<mirror, timeline, copies, pc, up, inst, cancelled, todo, cur, answer>>
    BY <1>2 DEF Share, Joined, room, session, work
  <2>3. /\ \A f \in Entry : f # e => spool'[f] = spool[f]
        /\ spool'[e].owner = Seat[r]
    BY <2>1, <2>2 DEF Accepted, Absent, TypeOK, Quiet
  <2>4. \A f \in Entry, x \in Run : spool'[f].state # "absent" => spool'[f].owner = Seat[x]
    BY <2>1, <2>3 DEF Quiet, OneSeatForAll
  <2>5. ASSUME NEW f \in Entry \ Claim PROVE LandedIsKnown(f)'
    <3>1. CASE f = e
      BY <2>1, <2>2, <3>1 DEF Quiet, LandedIsKnown
    <3>2. CASE f # e
      BY <2>1, <2>2, <2>3, <3>2 DEF Quiet, LandedIsKnown, OwnEvent
    <3> QED
      BY <3>1, <3>2
  <2> QED
    BY <2>1, <2>2, <2>4, <2>5 DEF Quiet
<1>3. ASSUME NEW r \in Run, Refresh(r) PROVE Quiet'
  <2>1. Quiet
    BY <1>3, <1>a, <1>b DEF Refresh, Absorb
  <2>2. /\ pc[r] = "refresh" /\ pc' = [pc EXCEPT ![r] = "resolve"]
        /\ UNCHANGED <<spool, timeline, copies, up, inst, cancelled, todo, cur, answer>>
    BY <1>3 DEF Refresh, Goto, room, session, work
  <2>3. mirror' = mirror \cup EventsOf(target[r])
    BY <1>3, <1>a, <2>1, <2>2 DEF Refresh, Absorb, Quiet, Harmless
  <2>4. ASSUME NEW e \in Entry \ Claim PROVE LandedIsKnown(e)'
    <3> SUFFICES ASSUME copies[e] > 0 PROVE LandedIsKnown(e)'
      BY <2>2 DEF LandedIsKnown
    <3>1. LandedIsKnown(e) /\ OwnEvent(e)' = OwnEvent(e)
      BY <2>1, <2>2 DEF Quiet, OwnEvent
    <3>2. e \in todo[r] => OwnEvent(e) \in mirror'
      <4> SUFFICES ASSUME e \in todo[r] PROVE OwnEvent(e) \in mirror'
        OBVIOUS
      <4>1. RoomOf[OwnEvent(e).entry] = target[r]
        BY <2>2 DEF RoomInv, ListsItsRoom, OwnEvent
      <4> QED
        BY <2>3, <3>1, <4>1 DEF EventsOf, LandedIsKnown
    <3>3. ASSUME NEW x \in Run
          PROVE  /\ pc'[x] = "wait" => pc[x] = "wait"
                 /\ pc'[x] = "resolve" /\ e \in todo'[x] => OwnEvent(e) \in mirror'
      <4>1. CASE x = r
        BY <2>2, <3>2, <4>1 DEF TypeOK
      <4>2. CASE x # r
        BY <2>2, <2>3, <3>1, <4>2 DEF TypeOK, LandedIsKnown
      <4> QED
        BY <4>1, <4>2
    <3> QED
      BY <2>2, <3>1, <3>3 DEF LandedIsKnown
  <2> QED
    BY <2>1, <2>2, <2>4 DEF Quiet, TypeOK
<1>4. ASSUME NEW r \in Run, Resolve(r) PROVE Quiet'
  <2>1. PICK e : e = Oldest(todo[r])
    OBVIOUS
  <2>2. /\ e \in Entry /\ e \in todo[r] /\ RoomOf[e] = target[r] /\ pc[r] = "resolve"
        /\ todo' = [todo EXCEPT ![r] = @ \ {e}]
        /\ UNCHANGED <<mirror, room, pc, session, cancelled, cur, answer>>
        /\ \A f \in Entry : f # e => spool'[f] = spool[f]
        /\ spool'[e].owner = spool[e].owner
        /\ \/ spool' = spool /\ Fault("disk")
           \/ spool'[e].state = "published" /\ UNCHANGED faults
           \/ spool'[e].state = "queued" /\ ~FindOwn(e) /\ UNCHANGED faults
    BY <1>4, <2>1, ResolveWrites
  <2>3. Quiet
    BY <2>2, <1>a, <1>b
  <2>4. spool[e].state = "publishing"
    BY <2>2 DEF ListsAreCurrent
  <2>5. ASSUME ~FindOwn(e), e \notin Claim PROVE copies[e] = 0
    <3>1. LandedIsKnown(e)
      BY <2>2, <2>3, <2>5 DEF Quiet
    <3>2. OwnEvent(e) \notin mirror
      BY <2>2, <2>5 DEF FindOwn, OwnEvent
    <3> QED
      BY <2>2, <3>1, <3>2 DEF LandedIsKnown, TypeOK
  <2> QED
    BY <2>2, <2>3, <2>4, <2>5, StaysQuietButOne DEF room, session, TypeOK
<1>5. ASSUME NEW r \in Run, Send(r) PROVE Quiet'
  <2>1. PICK e : e = Oldest(todo[r])
    OBVIOUS
  <2>2. /\ e \in Entry /\ e \in todo[r] /\ RoomOf[e] = target[r] /\ pc[r] = "drain"
        /\ todo' = [todo EXCEPT ![r] = @ \ {e}]
        /\ UNCHANGED <<mirror, room, session, cancelled, answer>>
        /\ \A f \in Entry : f # e => spool'[f] = spool[f]
        /\ spool'[e].owner = spool[e].owner
        /\ \/ /\ cur' = [cur EXCEPT ![r] = e] /\ pc' = [pc EXCEPT ![r] = "wait"]
              /\ UNCHANGED faults
           \/ UNCHANGED <<cur, pc>> /\ Fault("disk")
    BY <1>5, <2>1, SendWrites
  <2>3. Quiet
    BY <2>2, <1>a, <1>b
  <2>4. spool[e].state = "queued"
    BY <2>2 DEF ListsAreCurrent
  <2>5. e \notin Claim => copies[e] = 0
    BY <2>2, <2>3, <2>4 DEF Quiet, LandedIsKnown, TypeOK
  <2> QED
    BY <2>2, <2>3, <2>4, <2>5, StaysQuietButOne DEF room, session, TypeOK
<1>6. ASSUME NEW r \in Run, Settle(r) PROVE Quiet'
  <2>1. PICK e : e = cur[r]
    OBVIOUS
  <2>2. /\ e \in Entry /\ RoomOf[e] = target[r] /\ pc[r] = "wait"
        /\ pc' = [pc EXCEPT ![r] = IF answer[r] = "expired" THEN "idle" ELSE "drain"]
        /\ todo' = [todo EXCEPT ![r] = IF answer[r] = "expired" THEN {} ELSE @]
        /\ answer' = [answer EXCEPT ![r] = "none"]
        /\ UNCHANGED <<mirror, room, session, cancelled, cur>>
        /\ \A f \in Entry : f # e => spool'[f] = spool[f]
        /\ spool'[e].owner = spool[e].owner
        /\ \/ spool' = spool /\ Fault("disk")
           \/ spool'[e].state \in {"published", "refused"} /\ UNCHANGED faults
           \/ spool'[e].state = "queued" /\ answer[r] \in {"expired", "failed"} /\ UNCHANGED faults
    BY <1>6, <2>1, SettleWrites
  <2>3. Quiet
    BY <2>2, <1>a, <1>b
  <2>4. spool[e].state = "publishing"
    BY <2>1, <2>2 DEF ListsAreCurrent
  <2>5. e \notin Claim /\ answer[r] \in {"expired", "failed"} => copies[e] = 0
    BY <2>1, <2>2, <2>3 DEF Quiet, LandedIsKnown, TypeOK
  <2>6. pc'[r] \in {"idle", "drain"}
    BY <2>2 DEF TypeOK
  <2> QED
    BY <2>2, <2>3, <2>4, <2>5, <2>6, StaysQuietButOne DEF room, session, TypeOK
<1>7. ASSUME NEW r \in Run, RoomAccepts(r) PROVE Quiet'
  <2>1. Quiet
    BY <1>7, <1>b DEF RoomAccepts
  <2> QED
    BY <1>7, <2>1, AcceptsOnce
<1>8. ASSUME NEW r \in Run, RoomRefuses(r) \/ RoomFails(r) PROVE Quiet'
  <2>1. Quiet
    BY <1>8, <1>a, <1>b DEF RoomRefuses, RoomFails
  <2> QED
    BY <1>8, <2>1, StaysQuiet DEF RoomRefuses, RoomFails, room, session, TypeOK
<1>9. ASSUME NEW r \in Run, Stop(r) \/ SessionExpires(r) \/ GiveUp(r) PROVE FALSE
  <2>1. Quiet
    BY <1>9, <1>a, <1>b DEF Stop, SessionExpires, GiveUp
  <2>2. ~Fault("stop") /\ ~Fault("session") /\ ~Fault("lost")
    BY <1>a DEF Harmless
  <2> QED
    BY <1>9, <2>1, <2>2 DEF Stop, SessionExpires, GiveUp, Joined, Quiet
<1>10. ASSUME NEW x \in strays, StrayLands(x) PROVE FALSE
  BY <1>10, <1>a DEF StrayLands, Harmless
<1>11. ASSUME NEW p, Crash(p) PROVE Quiet'
  <2>1. Quiet
    BY <1>11, <1>a DEF Crash
  <2> QED
    BY <1>11, <2>1, StaysQuiet DEF Crash, session
<1>12. ASSUME NEW r \in Run, SweepAbsorb(r) PROVE Quiet'
  <2>1. Quiet
    BY <1>12, <1>a, <1>b DEF SweepAbsorb, Absorb
  <2>2. mirror \subseteq mirror'
    BY <1>12 DEF SweepAbsorb, Absorb
  <2> QED
    BY <1>12, <2>1, <2>2, StaysQuiet DEF SweepAbsorb, Goto, room, session, work, TypeOK
<1>13. ASSUME NEW r \in Run, Recover(r) \/ Resolved(r) \/ List(r) \/ EndPass(r) \/ Wake(r)
       PROVE  Quiet'
  <2>1. Quiet
    BY <1>13, <1>b DEF Recover, Resolved, List, EndPass, Wake
  <2> QED
    BY <1>13, <2>1, StaysQuiet
    DEF Recover, Resolved, List, EndPass, Wake, Goto, room, session, work, TypeOK
<1>14. CASE UNCHANGED vars
  <2>1. Quiet
    BY <1>14, <1>b DEF vars
  <2> QED
    BY <1>14, <2>1, StaysQuiet DEF vars, room, session, work
<1> QED
  BY <1>1, <1>2, <1>3, <1>4, <1>5, <1>6, <1>7, <1>8, <1>9, <1>10, <1>11, <1>12, <1>13, <1>14
  DEF Next, Reconcile, Sweep, RoomAnswers

(* At first nothing has landed. *)
LEMMA InitQuiet == Init => QuietInv
  BY DEF Init, QuietInv, Quiet, LandedIsKnown, Absent

\* Reconciliation makes a crash invisible to the room: for one harness's
\* worker, of any number of hand-offs, over any number of rooms, nothing lands
\* twice as long as no two runs share a room and only processes die, disks
\* fail and the room asks to try again.
THEOREM CrashesAreInvisible ==
  ASSUME OneSeatForAll
  PROVE  Spec /\ []OneRunPerRoom => []DuplicatesHaveCause
<1>1. Init => QueueInv /\ QuietInv
  BY InitType, InitOutcomes, InitRoom, InitLists, InitQuiet DEF QueueInv
<1>2. QueueInv /\ OneRunPerRoom /\ [Next]_vars => QueueInv'
  BY StepType, StepOutcomes, StepRoom, StepLists DEF QueueInv
<1>3. QueueInv /\ OneRunPerRoom /\ QuietInv /\ [Next]_vars => QuietInv'
  BY StepQuiet
<1>4. QuietInv => DuplicatesHaveCause
  BY DEF QuietInv, Quiet, DuplicatesHaveCause
<1> QED
  BY <1>1, <1>2, <1>3, <1>4, PTL DEF Spec

-----------------------------------------------------------------------------
(* What is in flight is tended.                                            *)


\* Run r will settle entry e: it waits for its answer, has it on its list, or
\* is about to list it, now or once it is started again.
Tends(r, e) ==
  /\ target[r] = RoomOf[e] \/ pc[r] = "off"
  /\ \/ pc[r] \in {"off", "recover"}
     \/ pc[r] \in {"refresh", "resolve"} /\ e \in todo[r]
     \/ pc[r] = "wait" /\ cur[r] = e

\* A step that leaves a run where it is, or lets it die, leaves it tending.
LEMMA StaysTending ==
  ASSUME NEW r \in Run, NEW e \in Entry, Tends(r, e),
         target'[r] = target[r], cur'[r] = cur[r],
         \/ pc'[r] = pc[r] /\ (pc[r] \in {"refresh", "resolve"} /\ e \in todo[r] => e \in todo'[r])
         \/ pc'[r] = "off"
         \/ pc[r] = "refresh" /\ pc'[r] = "resolve" /\ (e \in todo[r] => e \in todo'[r])
  PROVE  Tends(r, e)'
  BY DEF Tends

\* Whoever tends an entry goes on to while it is in flight, when no disk
\* refuses the record that settles it and there is one room.
LEMMA TendsOn ==
  ASSUME "disk" \notin Faults, \A p, q \in Room : p = q, TypeOK, RoomInv, [Next]_vars,
         NEW r \in Run, NEW e \in Entry, Tends(r, e),
         spool[e].state = "publishing", spool'[e].state = "publishing"
  PROVE  Tends(r, e)'
<1> USE DEF TypeOK
<1>1. ASSUME NEW x \in Run, NEW q \in Room, NEW i \in Instance, Join(x, q, i)
      PROVE  Tends(r, e)'
  <2>1. /\ pc' = [pc EXCEPT ![x] = "recover"] /\ target' = [target EXCEPT ![x] = q]
        /\ UNCHANGED <<todo, cur>>
    BY <1>1 DEF Join, Goto, work
  <2>2. CASE r = x
    BY <2>1, <2>2, SpoolAssumption DEF Tends
  <2>3. CASE r # x
    BY <2>1, <2>3, StaysTending
  <2> QED
    BY <2>2, <2>3
<1>2. ASSUME NEW x \in Run, Recover(x) PROVE Tends(r, e)'
  <2>1. /\ pc[x] = "recover" /\ todo' = [todo EXCEPT ![x] = Recovered(spool, target[x])]
        /\ pc' = [pc EXCEPT ![x] = IF Recovered(spool, target[x]) = {} THEN "absorb" ELSE "refresh"]
        /\ UNCHANGED <<target, cur>>
    BY <1>2 DEF Recover, Goto, session
  <2>2. CASE r = x
    <3>1. target[r] = RoomOf[e]
      BY <2>1, <2>2 DEF Tends
    <3>2. e \in Recovered(spool, target[x])
      BY <2>2, <3>1 DEF Recovered, EntriesIn
    <3> QED
      BY <2>1, <2>2, <3>1, <3>2 DEF Tends
  <2>3. CASE r # x
    BY <2>1, <2>3, StaysTending
  <2> QED
    BY <2>2, <2>3
<1>3. ASSUME NEW x \in Run, Resolve(x) PROVE Tends(r, e)'
  <2>1. PICK f : f = Oldest(todo[x])
    OBVIOUS
  <2>2. /\ todo' = [todo EXCEPT ![x] = @ \ {f}]
        /\ UNCHANGED <<pc, session, cur>>
        /\ Fault("disk") \/ spool'[f].state \in {"published", "queued"}
    BY <1>3, <2>1, ResolveWrites
  <2>3. f # e
    BY <2>2 DEF Fault
  <2> QED
    BY <2>2, <2>3, StaysTending DEF session
<1>4. ASSUME NEW x \in Run, Send(x) PROVE Tends(r, e)'
  <2>1. PICK f : f = Oldest(todo[x])
    OBVIOUS
  <2>2. /\ pc[x] = "drain" /\ todo' = [todo EXCEPT ![x] = @ \ {f}]
        /\ UNCHANGED session
        /\ \/ cur' = [cur EXCEPT ![x] = f] /\ pc' = [pc EXCEPT ![x] = "wait"]
           \/ Fault("disk")
    BY <1>4, <2>1, SendWrites
  <2>3. r # x
    BY <2>2 DEF Tends
  <2> QED
    BY <2>2, <2>3, StaysTending DEF session, Fault
<1>5. ASSUME NEW x \in Run, Settle(x) PROVE Tends(r, e)'
  <2>1. PICK f : f = cur[x]
    OBVIOUS
  <2>2. /\ pc[x] = "wait"
        /\ pc' = [pc EXCEPT ![x] = IF answer[x] = "expired" THEN "idle" ELSE "drain"]
        /\ todo' = [todo EXCEPT ![x] = IF answer[x] = "expired" THEN {} ELSE @]
        /\ UNCHANGED <<session, cur>>
        /\ Fault("disk") \/ spool'[f].state \in {"published", "refused", "queued"}
    BY <1>5, <2>1, SettleWrites
  <2>3. r # x
    BY <2>1, <2>2 DEF Tends, Fault
  <2> QED
    BY <2>2, <2>3, StaysTending DEF session
<1>6. ASSUME NEW x \in Run,
             List(x) \/ SweepAbsorb(x) \/ Resolved(x) \/ EndPass(x) \/ Wake(x)
      PROVE  Tends(r, e)'
  <2>1. /\ UNCHANGED <<session, cur>>
        /\ \/ pc[x] \in {"list", "absorb", "drain", "idle"}
           \/ pc[x] = "resolve" /\ todo[x] = {}
        /\ \A y \in Run : y # x => pc'[y] = pc[y] /\ todo'[y] = todo[y]
    BY <1>6 DEF List, SweepAbsorb, Resolved, EndPass, Wake, Goto, work
  <2>2. r # x
    BY <2>1 DEF Tends
  <2> QED
    BY <2>1, <2>2, StaysTending DEF session
<1>7. ASSUME NEW x \in Run, Refresh(x) PROVE Tends(r, e)'
  BY <1>7, StaysTending DEF Refresh, Goto, session, work
<1>8. ASSUME NEW x \in Run, NEW f \in Entry,
             \/ Share(x, f) \/ RoomAnswers(x) \/ GiveUp(x) \/ Stop(x) \/ SessionExpires(x)
      PROVE  Tends(r, e)'
  BY <1>8, StaysTending
  DEF Share, RoomAnswers, RoomAccepts, RoomRefuses, RoomFails, GiveUp, Stop, SessionExpires,
      session, work
<1>9. ASSUME NEW x \in strays, StrayLands(x) PROVE Tends(r, e)'
  BY <1>9, StaysTending DEF StrayLands, session, work
<1>10. ASSUME NEW p, Crash(p) PROVE Tends(r, e)'
  BY <1>10, StaysTending DEF Crash, session
<1>11. CASE UNCHANGED vars
  BY <1>11, StaysTending DEF vars, session, work
<1> QED
  BY <1>1, <1>2, <1>3, <1>4, <1>5, <1>6, <1>7, <1>8, <1>9, <1>10, <1>11
  DEF Next, Reconcile, Sweep

\* Only a write about to be made puts an entry in flight.
LEMMA OnlySendClaims ==
  ASSUME TypeOK, RoomInv, [Next]_vars, NEW e \in Entry,
         spool[e].state # "publishing", spool'[e].state = "publishing"
  PROVE  \E r \in Run : Send(r) /\ e = Oldest(todo[r])
<1>1. ASSUME NEW r \in Run, NEW f \in Entry, Share(r, f) PROVE FALSE
  BY <1>1 DEF Share, Accepted, Absent, TypeOK
<1>2. ASSUME NEW r \in Run, Resolve(r) PROVE FALSE
  <2>1. PICK f : f = Oldest(todo[r])
    OBVIOUS
  <2> QED
    BY <1>2, <2>1, ResolveWrites
<1>3. ASSUME NEW r \in Run, Settle(r) PROVE FALSE
  <2>1. PICK f : f = cur[r]
    OBVIOUS
  <2> QED
    BY <1>3, <2>1, SettleWrites
<1>4. ASSUME NEW r \in Run, Send(r) PROVE e = Oldest(todo[r])
  <2>1. PICK f : f = Oldest(todo[r])
    OBVIOUS
  <2> QED
    BY <1>4, <2>1, SendWrites
<1>5. spool' # spool
  OBVIOUS
<1> QED
  BY <1>1, <1>2, <1>3, <1>4, <1>5
  DEF Next, Reconcile, Sweep, RoomAnswers, vars, Join, Recover, Refresh, Resolved, SweepAbsorb,
      List, EndPass, Wake, RoomAccepts, RoomRefuses, RoomFails, GiveUp, Stop, SessionExpires,
      StrayLands, Crash

(* In a single room, on a disk that does not fail, what is in flight is tended. *)
LEMMA StepTended ==
  ASSUME "disk" \notin Faults, \A p, q \in Room : p = q
  PROVE  TypeOK /\ RoomInv /\ InFlightIsTended /\ [Next]_vars => InFlightIsTended'
<1> SUFFICES ASSUME TypeOK, RoomInv, InFlightIsTended, [Next]_vars,
                    NEW e \in Entry, spool'[e].state = "publishing"
             PROVE  \E r \in Run : Tends(r, e)'
  BY DEF InFlightIsTended, Tends
<1>1. CASE spool[e].state = "publishing"
  <2>1. PICK r \in Run : Tends(r, e)
    BY <1>1 DEF InFlightIsTended, Tends
  <2>2. Tends(r, e)'
    BY <1>1, <2>1, TendsOn
  <2> QED
    BY <2>2
<1>2. CASE spool[e].state # "publishing"
  <2>1. PICK r \in Run : Send(r) /\ e = Oldest(todo[r])
    BY <1>2, OnlySendClaims
  <2>2. /\ cur' = [cur EXCEPT ![r] = e] /\ pc' = [pc EXCEPT ![r] = "wait"]
        /\ UNCHANGED session /\ RoomOf[e] = target[r]
    BY <2>1, SendWrites DEF Fault
  <2>3. Tends(r, e)'
    BY <2>2 DEF Tends, session, TypeOK
  <2> QED
    BY <2>3
<1> QED
  BY <1>1, <1>2

\* No hand-off is left in flight with nobody to settle it, however many runs
\* and processes there are and whatever crashes, is lost or is delayed: in a
\* workspace with one room, whose disk takes the records written to it.
THEOREM NothingIsLeftInFlight ==
  ASSUME "disk" \notin Faults, \A p, q \in Room : p = q
  PROVE  Spec => []InFlightIsTended
<1>1. Init => InFlightIsTended
  BY DEF Init, InFlightIsTended, Absent
<1> QED
  BY TypeCorrect, InitType, StepType, InitRoom, StepRoom, <1>1, StepTended, PTL DEF Spec

-----------------------------------------------------------------------------
(* Hold: the queue and its worker, with the accepter that holds and the    *)
(* person's commands beside them.                                          *)

\* Only what names the working directory is held, or said to be.
OnlyNamingHeld ==
  /\ \A e \in Entry : spool[e].state = "held" => e \in Naming
  /\ told \subseteq Naming

\* What a call is about to hold was shared, and a call that will hold it was
\* told that its text names the directory;
CallsAreOfShares ==
  \A p \in Process :
    /\ share[p] # "none" => spool[shared[p]].state # "absent"
    /\ share[p] = "hold" => shared[p] \in Naming
\* and a release is of what was held for the room of the command under way.
ReleasesAreOfHolds ==
  /\ \A e \in releasing : spool[e].state # "absent" /\ e \in Naming /\ RoomOf[e] = into
  /\ releasing # {} => command = "release"

HoldInv ==
  /\ HoldTypeOK /\ RoomInv /\ OutcomesAreTrue
  /\ OnlyNamingHeld /\ CallsAreOfShares /\ ReleasesAreOfHolds

\* No step of the worker, the room or a process takes a hand-off off the
\* queue's file, or holds one.
LEMMA WorkerHoldsNothing ==
  TypeOK /\ RoomInv /\ [Next]_vars =>
    \A f \in Entry : /\ spool[f].state # "absent" => spool'[f].state # "absent"
                     /\ spool'[f].state = "held" => spool[f].state = "held"
<1> SUFFICES ASSUME TypeOK, RoomInv, [Next]_vars, NEW f \in Entry
             PROVE  /\ spool[f].state # "absent" => spool'[f].state # "absent"
                    /\ spool'[f].state = "held" => spool[f].state = "held"
  OBVIOUS
<1>1. ASSUME NEW r \in Run, NEW e \in Entry, Share(r, e)
      PROVE  spool'[f] = spool[f] \/ spool'[f].state = "queued"
  BY <1>1 DEF Share, Accepted, Absent, TypeOK
<1>2. ASSUME NEW r \in Run, Resolve(r)
      PROVE  spool'[f] = spool[f] \/ spool'[f].state \in {"published", "queued"}
  BY <1>2, ResolveWrites
<1>3. ASSUME NEW r \in Run, Send(r)
      PROVE  spool'[f].state \in {spool[f].state, "publishing"}
  BY <1>3, SendWrites
<1>4. ASSUME NEW r \in Run, Settle(r)
      PROVE  spool'[f] = spool[f] \/ spool'[f].state \in {"published", "refused", "queued"}
  BY <1>4, SettleWrites
<1>5. ASSUME NEW r \in Run, NEW q \in Room, NEW i \in Instance, Join(r, q, i)
      PROVE  spool' = spool
  BY <1>5 DEF Join
<1>6. ASSUME NEW r \in Run,
             Recover(r) \/ Refresh(r) \/ Resolved(r) \/ SweepAbsorb(r) \/ List(r) \/ EndPass(r)
               \/ Wake(r)
      PROVE  spool' = spool
  BY <1>6 DEF Recover, Refresh, Resolved, SweepAbsorb, List, EndPass, Wake
<1>7. ASSUME NEW r \in Run, RoomAnswers(r) \/ GiveUp(r) \/ Stop(r) \/ SessionExpires(r)
      PROVE  spool' = spool
  BY <1>7 DEF RoomAnswers, RoomAccepts, RoomRefuses, RoomFails, GiveUp, Stop, SessionExpires
<1>8. ASSUME NEW x \in strays, StrayLands(x) PROVE spool' = spool
  BY <1>8 DEF StrayLands
<1>9. ASSUME NEW p, Crash(p) PROVE spool' = spool
  BY <1>9 DEF Crash
<1>10. CASE UNCHANGED vars
  BY <1>10 DEF vars
<1> QED
  BY <1>1, <1>2, <1>3, <1>4, <1>5, <1>6, <1>7, <1>8, <1>9, <1>10
  DEF Next, Reconcile, Sweep

\* Nothing is held, told or released at first.
LEMMA InitHold == HoldInit => HoldInv
<1> SUFFICES ASSUME HoldInit PROVE HoldInv
  OBVIOUS
<1>1. TypeOK /\ RoomInv /\ OutcomesAreTrue
  BY InitType, InitRoom, InitOutcomes DEF HoldInit
<1>2. 1 \in Entry
  BY SpoolAssumption DEF Entry
<1>3. \A e \in Entry : spool[e].state = "absent"
  BY DEF HoldInit, Init, Absent
<1> QED
  BY <1>1, <1>2, <1>3
  DEF HoldInit, HoldInv, HoldTypeOK, OnlyNamingHeld, CallsAreOfShares, ReleasesAreOfHolds

\* A step of the worker, the room or a process that leaves the person and what
\* the agent was told alone, and at most ends a call or has it start, keeps it.
LEMMA WorkerKeepsHolds ==
  ASSUME HoldInv, [Next]_vars, UNCHANGED <<told, person>>,
         share' \in [Process -> {"none", "match", "hold"}], shared' \in [Process -> Entry],
         \A p \in Process :
           \/ share'[p] = share[p] /\ shared'[p] = shared[p]
           \/ share'[p] = "none"
           \/ share'[p] = "match" /\ spool'[shared'[p]].state # "absent"
  PROVE  HoldInv'
<1>1. TypeOK' /\ RoomInv' /\ OutcomesAreTrue'
  BY StepType, StepRoom, StepOutcomes DEF HoldInv, HoldTypeOK
<1>2. HoldTypeOK'
  BY <1>1 DEF HoldInv, HoldTypeOK, person
<1>3. \A f \in Entry : /\ spool[f].state # "absent" => spool'[f].state # "absent"
                       /\ spool'[f].state = "held" => spool[f].state = "held"
  BY WorkerHoldsNothing DEF HoldInv, HoldTypeOK
<1>4. OnlyNamingHeld'
  BY <1>3 DEF HoldInv, OnlyNamingHeld
<1>5. CallsAreOfShares'
  BY <1>3 DEF HoldInv, HoldTypeOK, CallsAreOfShares
<1>6. ReleasesAreOfHolds'
  BY <1>3 DEF HoldInv, HoldTypeOK, ReleasesAreOfHolds, person
<1> QED BY <1>1, <1>2, <1>4, <1>5, <1>6 DEF HoldInv

\* What the hold and the person's commands write about an entry of the queue
\* publishes nothing, and no run's list depends on it.
LEMMA WritesKeepTheRest ==
  ASSUME TypeOK, RoomInv, OutcomesAreTrue, NEW e \in Entry,
         NEW state \in {"held", "queued", "abandoned"},
         spool' = [spool EXCEPT ![e].state = state],
         UNCHANGED <<mirror, room, pc, session, cancelled, work, faults>>
  PROVE  TypeOK' /\ RoomInv' /\ OutcomesAreTrue'
<1>1. spool' \in [Entry -> EntryRecord]
  <2>1. spool \in [Entry -> EntryRecord] /\ state \in EntryState
    BY DEF TypeOK, EntryState
  <2> QED BY <2>1 DEF EntryRecord
<1>2. TypeOK'
  BY <1>1 DEF TypeOK, room, session, work
<1>3. RoomInv'
  BY ListsShrink DEF session, work
<1>4. MirrorIsTrue' /\ AnswerIsTrue'
  BY DEF OutcomesAreTrue, MirrorIsTrue, AnswerIsTrue, Landed, room, work
<1>5. \A f \in Entry : spool'[f].state = "published" => spool[f].state = "published"
  BY DEF TypeOK, EntryRecord
<1>6. OutcomesAreTrue'
  BY <1>4, <1>5, RoomUntouched DEF room
<1> QED BY <1>2, <1>3, <1>6

\* A disk fault, and a step of a command that writes nothing, keep it too.
LEMMA FaultsKeepTheRest ==
  ASSUME TypeOK, RoomInv, OutcomesAreTrue, Fault("disk") \/ UNCHANGED faults,
         UNCHANGED <<spool, mirror, room, pc, session, cancelled, work>>
  PROVE  TypeOK' /\ RoomInv' /\ OutcomesAreTrue'
<1>1. TypeOK'
  BY FaultIsCounted DEF TypeOK, room, session, work
<1>2. RoomInv'
  BY ListsShrink DEF session, work
<1>3. MirrorIsTrue' /\ AnswerIsTrue'
  BY DEF OutcomesAreTrue, MirrorIsTrue, AnswerIsTrue, Landed, room, work
<1>4. OutcomesAreTrue'
  BY <1>3, RoomUntouched DEF room
<1> QED BY <1>1, <1>2, <1>4

\* Neither does any step of the call or of the person's commands undo it.
LEMMA StepHold == HoldInv /\ [HoldNext]_hvars => HoldInv'
<1> SUFFICES ASSUME HoldInv, [HoldNext]_hvars PROVE HoldInv'
  OBVIOUS
<1>a. TypeOK /\ RoomInv /\ OutcomesAreTrue
  BY DEF HoldInv, HoldTypeOK
<1> USE DEF HoldTypeOK
<1>1. ASSUME NEW r \in Run, NEW e \in Entry, Queue(r, e) PROVE HoldInv'
  <2>1. [Next]_vars
    BY <1>1 DEF Queue, Next
  <2>2. ProcOf[r] \in Process
    BY DEF Process
  <2>3. spool'[e].state # "absent"
    BY <1>1 DEF Queue, Share, Accepted, Absent, HoldInv, TypeOK
  <2>4. /\ share' = [share EXCEPT ![ProcOf[r]] = "match"]
        /\ shared' = [shared EXCEPT ![ProcOf[r]] = e]
        /\ UNCHANGED <<told, person>>
    BY <1>1 DEF Queue
  <2> QED BY <2>1, <2>2, <2>3, <2>4, WorkerKeepsHolds DEF HoldInv
<1>2. ASSUME NEW p \in Process, Match(p) PROVE HoldInv'
  <2>1. TypeOK' /\ RoomInv' /\ OutcomesAreTrue'
    BY <1>2, <1>a, FaultsKeepTheRest DEF Match, vars
  <2>2. OnlyNamingHeld' /\ ReleasesAreOfHolds'
    BY <1>2 DEF Match, vars, person, HoldInv, OnlyNamingHeld, ReleasesAreOfHolds
  <2>3. CallsAreOfShares'
    BY <1>2 DEF Match, MustHold, vars, HoldInv, CallsAreOfShares
  <2>4. HoldTypeOK'
    BY <1>2, <2>1 DEF Match, person, HoldInv
  <2> QED BY <2>1, <2>2, <2>3, <2>4 DEF HoldInv
<1>3. ASSUME NEW p \in Process, MatchFails(p) PROVE HoldInv'
  <2>1. TypeOK' /\ RoomInv' /\ OutcomesAreTrue'
    BY <1>3, <1>a, FaultsKeepTheRest DEF MatchFails, vars
  <2>2. OnlyNamingHeld' /\ ReleasesAreOfHolds' /\ CallsAreOfShares'
    BY <1>3 DEF MatchFails, vars, person, HoldInv, OnlyNamingHeld, ReleasesAreOfHolds,
                CallsAreOfShares
  <2>3. HoldTypeOK'
    BY <1>3, <2>1 DEF MatchFails, person, HoldInv
  <2> QED BY <2>1, <2>2, <2>3 DEF HoldInv
<1>4. ASSUME NEW p \in Process, PutHold(p) PROVE HoldInv'
  <2> DEFINE e == shared[p]
  <2>1. /\ e \in Entry /\ e \in Naming /\ spool[e].state # "absent"
        /\ share' = [share EXCEPT ![p] = "none"]
        /\ UNCHANGED <<mirror, room, pc, session, cancelled, work, shared, person>>
    BY <1>4 DEF PutHold, HoldInv, CallsAreOfShares
  <2>2. CASE spool' = [spool EXCEPT ![e].state = "held"] /\ told' = told \cup {e}
             /\ UNCHANGED faults
    <3> HIDE DEF e
    <3>1. TypeOK' /\ RoomInv' /\ OutcomesAreTrue'
      BY <2>1, <2>2, <1>a, WritesKeepTheRest
    <3>2. \A f \in Entry : spool'[f].state = (IF f = e THEN "held" ELSE spool[f].state)
      BY <2>1, <2>2, <1>a DEF TypeOK, EntryRecord
    <3>3. OnlyNamingHeld'
      BY <2>1, <2>2, <3>2 DEF HoldInv, OnlyNamingHeld
    <3>4. CallsAreOfShares'
      BY <2>1, <3>2 DEF HoldInv, CallsAreOfShares
    <3>5. ReleasesAreOfHolds'
      BY <2>1, <3>2 DEF HoldInv, ReleasesAreOfHolds, person
    <3>6. HoldTypeOK'
      BY <2>1, <2>2, <3>1 DEF HoldInv, person
    <3> QED BY <3>1, <3>3, <3>4, <3>5, <3>6 DEF HoldInv
  <2>3. CASE Fault("disk") /\ UNCHANGED <<spool, told>>
    <3>1. TypeOK' /\ RoomInv' /\ OutcomesAreTrue'
      BY <2>1, <2>3, <1>a, FaultsKeepTheRest
    <3>2. OnlyNamingHeld' /\ ReleasesAreOfHolds' /\ CallsAreOfShares'
      BY <2>1, <2>3 DEF person, HoldInv, OnlyNamingHeld, ReleasesAreOfHolds, CallsAreOfShares
    <3>3. HoldTypeOK'
      BY <2>1, <2>3, <3>1 DEF person, HoldInv
    <3> QED BY <3>1, <3>2, <3>3 DEF HoldInv
  <2> QED BY <1>4, <2>2, <2>3 DEF PutHold, Held
<1>5. ASSUME NEW p \in Process, HoldCrash(p) PROVE HoldInv'
  <2>1. [Next]_vars
    BY <1>5 DEF HoldCrash, Next, Process
  <2> QED BY <1>5, <2>1, WorkerKeepsHolds DEF HoldCrash, HoldInv
<1>6. ASSUME NEW q \in Room, AllowCwd(q) PROVE HoldInv'
  <2>1. TypeOK' /\ RoomInv' /\ OutcomesAreTrue'
    BY <1>6, <1>a, FaultsKeepTheRest DEF AllowCwd, vars
  <2>2. OnlyNamingHeld' /\ CallsAreOfShares'
    BY <1>6 DEF AllowCwd, vars, call, HoldInv, OnlyNamingHeld, CallsAreOfShares
  <2>3. HoldTypeOK'
    BY <1>6, <2>1 DEF AllowCwd, call, HoldInv
  <2>4. ReleasesAreOfHolds'
    BY <1>6 DEF AllowCwd, vars, HoldInv, ReleasesAreOfHolds
  <2> QED BY <2>1, <2>2, <2>3, <2>4 DEF HoldInv
<1>7. CASE ListHeld
  <2>1. TypeOK' /\ RoomInv' /\ OutcomesAreTrue'
    BY <1>7, <1>a, FaultsKeepTheRest DEF ListHeld, vars
  <2>2. OnlyNamingHeld' /\ CallsAreOfShares'
    BY <1>7 DEF ListHeld, vars, call, HoldInv, OnlyNamingHeld, CallsAreOfShares
  <2>3. /\ releasing' = EntriesIn(spool, into, {"held"}) /\ command' = "release"
        /\ UNCHANGED <<spool, into>>
    BY <1>7 DEF ListHeld, vars
  <2>4. HoldTypeOK'
    BY <1>7, <2>1, <2>3 DEF ListHeld, call, HoldInv, EntriesIn
  <2>5. ReleasesAreOfHolds'
    BY <2>3 DEF HoldInv, ReleasesAreOfHolds, OnlyNamingHeld, EntriesIn
  <2> QED BY <2>1, <2>2, <2>4, <2>5 DEF HoldInv
<1>8. CASE ReleaseHeld
  <2> DEFINE e == Oldest(releasing)
  <2>1. e \in releasing /\ e \in Entry
    BY <1>8, OldestIsOne DEF ReleaseHeld, HoldInv
  <2>2. /\ command = "release"
        /\ spool' = [spool EXCEPT ![e].state = "queued"] /\ releasing' = releasing \ {e}
        /\ UNCHANGED <<mirror, room, pc, session, cancelled, work, faults,
                       call, allowed, command, into>>
    BY <1>8 DEF ReleaseHeld, Released
  <2> HIDE DEF e
  <2>3. TypeOK' /\ RoomInv' /\ OutcomesAreTrue'
    BY <2>1, <2>2, <1>a, WritesKeepTheRest
  <2>4. \A f \in Entry : spool'[f].state = (IF f = e THEN "queued" ELSE spool[f].state)
    BY <2>1, <2>2, <1>a DEF TypeOK, EntryRecord
  <2>5. OnlyNamingHeld' /\ CallsAreOfShares'
    BY <2>2, <2>4 DEF call, HoldInv, OnlyNamingHeld, CallsAreOfShares
  <2>6. ReleasesAreOfHolds'
    BY <2>2, <2>4 DEF HoldInv, ReleasesAreOfHolds
  <2>7. HoldTypeOK'
    BY <2>2, <2>3 DEF call, HoldInv
  <2> QED BY <2>3, <2>5, <2>6, <2>7 DEF HoldInv
<1>9. CASE ReleaseFails
  <2>1. TypeOK' /\ RoomInv' /\ OutcomesAreTrue'
    BY <1>9, <1>a, FaultsKeepTheRest DEF ReleaseFails
  <2>2. OnlyNamingHeld' /\ CallsAreOfShares' /\ ReleasesAreOfHolds'
    BY <1>9 DEF ReleaseFails, call, HoldInv, OnlyNamingHeld, CallsAreOfShares,
                ReleasesAreOfHolds
  <2>3. HoldTypeOK'
    BY <1>9, <2>1 DEF ReleaseFails, call, HoldInv
  <2> QED BY <2>1, <2>2, <2>3 DEF HoldInv
<1>10. CASE AllowEnds
  <2>1. TypeOK' /\ RoomInv' /\ OutcomesAreTrue'
    BY <1>10, <1>a, FaultsKeepTheRest DEF AllowEnds, vars
  <2>2. OnlyNamingHeld' /\ CallsAreOfShares' /\ ReleasesAreOfHolds'
    BY <1>10 DEF AllowEnds, vars, call, HoldInv, OnlyNamingHeld, CallsAreOfShares,
                 ReleasesAreOfHolds
  <2>3. HoldTypeOK'
    BY <1>10, <2>1 DEF AllowEnds, call, HoldInv
  <2> QED BY <2>1, <2>2, <2>3 DEF HoldInv
<1>11. ASSUME NEW e \in Entry, DropHeld(e) PROVE HoldInv'
  <2>1. /\ spool' = [spool EXCEPT ![e].state = "abandoned"]
        /\ UNCHANGED <<mirror, room, pc, session, cancelled, work, faults, hold>>
    BY <1>11 DEF DropHeld, Dropped
  <2>2. TypeOK' /\ RoomInv' /\ OutcomesAreTrue'
    BY <2>1, <1>a, WritesKeepTheRest
  <2>3. \A f \in Entry : spool'[f].state = (IF f = e THEN "abandoned" ELSE spool[f].state)
    BY <2>1, <1>a DEF TypeOK, EntryRecord
  <2>4. OnlyNamingHeld' /\ CallsAreOfShares' /\ ReleasesAreOfHolds'
    BY <2>1, <2>3 DEF hold, call, person, HoldInv, OnlyNamingHeld, CallsAreOfShares,
                      ReleasesAreOfHolds
  <2>5. HoldTypeOK'
    BY <2>1, <2>2 DEF hold, call, person, HoldInv
  <2> QED BY <2>2, <2>4, <2>5 DEF HoldInv
<1>12. ASSUME [Next]_vars, UNCHANGED hold PROVE HoldInv'
  BY <1>12, WorkerKeepsHolds DEF hold, call, HoldInv
<1> QED
  BY <1>1, <1>2, <1>3, <1>4, <1>5, <1>6, <1>7, <1>8, <1>9, <1>10, <1>11, <1>12
  DEF HoldNext, Works, Next, hvars

\* Every reachable state of the queue with its hold is well typed.
THEOREM HoldTypes == HoldSpec => []HoldTypeOK
<1>1. HoldInv => HoldTypeOK
  BY DEF HoldInv
<1> QED BY InitHold, StepHold, <1>1, PTL DEF HoldSpec

\* What the call holds and the person releases or drops, in the middle of a
\* write or of a run's pass, makes no hand-off published that did not land;
THEOREM HoldsLoseNothing == HoldSpec => []PublishedLanded
<1>1. HoldInv => PublishedLanded
  BY DEF HoldInv, OutcomesAreTrue
<1> QED BY InitHold, StepHold, <1>1, PTL DEF HoldSpec

\* nor does it send one to a room it was not made for;
THEOREM HoldsStayApart == HoldSpec => []RightRoom
<1>1. HoldInv => RightRoom
  BY DEF HoldInv, RoomInv
<1> QED BY InitHold, StepHold, <1>1, PTL DEF HoldSpec

\* and only hand-offs whose text names the working directory are held, or said
\* to be, whichever of them the daemon was asked about.
THEOREM OnlyNamingIsHeld == HoldSpec => []OnlyNamingHeld
<1>1. HoldInv => OnlyNamingHeld
  BY DEF HoldInv
<1> QED BY InitHold, StepHold, <1>1, PTL DEF HoldSpec
=============================================================================
