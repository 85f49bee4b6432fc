---------------------------- MODULE SessionProofs -----------------------------
(***************************************************************************)
(* What the runs check of a session's queue and of its snapshots on two    *)
(* rooms and an event or two, proved for any number of rooms, events,      *)
(* callers and reads, any limits and any faults.                           *)
(***************************************************************************)
EXTENDS Session, Snapshot, FiniteSetTheorems, WellFoundedInduction, TLAPS

-----------------------------------------------------------------------------
(* The queue.                                                               *)

Reading == {"updates", "brief", "timeline", "flush", "joinframe"}
CallRecord ==
  [op : {"none", "wrap", "join", "leaving"} \cup Reading, room : Room \cup {NoRoom},
   since : -1..Last, from : -1..Last]
HookRecord ==
  [step : {"none", "peeked", "emitted"}, room : Room \cup {NoRoom}, shown : SUBSET Event,
   upTo : -1..Last]

Types ==
  /\ posted \in [Room -> -1..Last] /\ wire \in [Room -> -1..Last]
  /\ \A r \in Room : wire[r] <= posted[r]
  /\ live \subseteq Room /\ client \in Room \cup {NoRoom}
  /\ cursor \in -1..Last /\ dropped \in Nat /\ mixed \in BOOLEAN
  /\ call \in CallRecord /\ hook \in HookRecord
  /\ handed \subseteq Event /\ excused \subseteq Event

Limited(es) ==
  /\ es \subseteq Event /\ OnePerSeq(es)
  /\ IsFiniteSet(es) /\ Cardinality(es) <= PendingMax
Limits == Limited(pending) /\ Limited(told)

(* Where a join is, and whose socket is heard meanwhile.                    *)
Places ==
  /\ call.op \notin {"none", "join"} => client # NoRoom
  /\ call.op = "join" => call.room \in Room /\ call.room # client
  /\ call.op = "leaving" => client \notin live
  /\ call.op # "leaving" => live = Room \cap {client}
  /\ call.op = "flush" => call.since <= cursor

(* What is queued was pushed by the room of the session. *)
Ours ==
  ~mixed =>
    /\ \A e \in pending : client # NoRoom /\ e.room = client /\ e.seq <= wire[client]
    /\ call.op = "leaving" => pending = {}

(* What was pushed past the cursor is queued, or was handed over, or went   *)
(* when the limit was met, which left something younger queued.             *)
ThrownAway(e) == dropped > 0 /\ pending # {} /\ \A p \in pending : e.seq < p.seq
Accounted ==
  ~mixed /\ client \in live =>
    \A e \in Between(client, cursor, wire[client]) :
      e \in pending \cup handed \cup excused \/ ThrownAway(e)

(* A hook's consume passes nothing but what it shows, or was handed over.   *)
HookCovers ==
  ~mixed /\ hook # NoHook =>
    /\ \A e \in Between(hook.room, -1, hook.upTo) :
         e.seq \in News => e \in handed \cup excused \cup hook.shown
    /\ hook.step = "emitted" => hook.shown \subseteq handed

QueueInv ==
  /\ Types /\ Limits /\ Places
  /\ Ours /\ Accounted /\ PassedWasHanded /\ HookCovers

(* The bounds are numbers, and a queue has room for one event. *)
LEMMA BoundsAreNumbers == Last \in Nat /\ PendingMax \in Nat /\ 0 < PendingMax
  BY SessionAssumption

USE BoundsAreNumbers, NoRoomIsNoRoom

(* At first there is no room, and nothing is pending. *)
LEMMA InitQueue == InitSession => QueueInv
<1> SUFFICES ASSUME InitSession PROVE QueueInv
  OBVIOUS
<1>1. Types
  <2>1. call \in CallRecord
    BY DEF InitSession, CallRecord, NoCall
  <2>2. hook \in HookRecord
    BY DEF InitSession, HookRecord, NoHook
  <2>3. /\ posted = [r \in Room |-> -1] /\ wire = [r \in Room |-> -1] /\ cursor = -1
        /\ dropped = 0 /\ mixed = FALSE
        /\ live = {} /\ client = NoRoom /\ handed = {} /\ excused = {}
    BY Zenon DEF InitSession
  <2>4. -1 \in -1..Last /\ -1 <= -1
    OBVIOUS
  <2> QED
    BY <2>1, <2>2, <2>3, <2>4 DEF Types
<1>2. Limits
  BY FS_EmptySet DEF InitSession, Limits, Limited, OnePerSeq
<1>3. Places
  BY DEF InitSession, Places, NoCall
<1> QED
  BY <1>1, <1>2, <1>3 DEF InitSession, QueueInv, Ours, Accounted, PassedWasHanded,
    HookCovers, Between, Event, Seqs, NoCall

-----------------------------------------------------------------------------
(* The helpers.                                                             *)

(* Of some events one has the lowest seq, and one the highest.              *)
LEMMA Extremes ==
  ASSUME NEW S \in SUBSET Seqs, S # {}
  PROVE  /\ \E x \in S : \A y \in S : x <= y
         /\ \E x \in S : \A y \in S : y <= x
<1>1. Seqs \subseteq Nat /\ \A x \in Seqs : Last - x \in Nat
  BY DEF Seqs
<1>2. \E x \in S : \A y \in S : x <= y
  <2>1. PICK x \in S : \A y \in S : <<y, x>> \notin OpToRel(<, Nat)
    BY <1>1, WFMin, NatLessThanWellFounded, Zenon
  <2>2. \A y \in S : ~(y < x)
    BY <1>1, <2>1, Zenon DEF OpToRel
  <2> QED
    BY <1>1, <2>2
<1>3. \E x \in S : \A y \in S : y <= x
  <2> DEFINE T == {Last - x : x \in S}
  <2>1. T \subseteq Nat /\ T # {}
    BY <1>1
  <2>2. PICK t \in T : \A y \in T : <<y, t>> \notin OpToRel(<, Nat)
    BY <2>1, WFMin, NatLessThanWellFounded, Zenon
  <2>3. \A y \in T : ~(y < t)
    BY <2>1, <2>2, Zenon DEF OpToRel
  <2>4. PICK x \in S : t = Last - x
    OBVIOUS
  <2>5. \A y \in S : ~(Last - y < Last - x)
    BY <2>3, <2>4
  <2>6. \A y \in S : y <= x
    BY <2>5 DEF Seqs
  <2> QED
    BY <2>6
<1> QED
  BY <1>2, <1>3

(* Of some events, one is the oldest. *)
LEMMA OldestIsOldest ==
  ASSUME NEW es \in SUBSET Event, es # {}
  PROVE  Oldest(es) \in es /\ \A f \in es : Oldest(es).seq <= f.seq
<1> DEFINE S == {e.seq : e \in es}
<1>1. S \in SUBSET Seqs /\ S # {}
  BY DEF Event
<1>2. PICK x \in S : \A y \in S : x <= y
  BY <1>1, Extremes
<1>3. PICK e \in es : e.seq = x
  OBVIOUS
<1>4. \A f \in es : e.seq <= f.seq
  BY <1>2, <1>3
<1> QED
  BY <1>4 DEF Oldest

(* The last seq of the queue is an event's; a hook asked nothing that is not *)
(* queued.                                                                  *)
LEMMA QueueTopIsQueued ==
  ASSUME Types, Limits
  PROVE  IF pending = {} THEN QueueTop = cursor
         ELSE /\ \E e \in pending : QueueTop = e.seq
              /\ \A e \in pending : e.seq <= QueueTop
<1>1. CASE pending = {}
  BY <1>1 DEF QueueTop
<1>2. CASE pending # {}
  <2> DEFINE S == {e.seq : e \in pending}
  <2>1. S \in SUBSET Seqs /\ S # {}
    BY <1>2 DEF Limits, Limited, Event
  <2>2. \E x \in S : \A y \in S : y <= x
    BY <2>1, Extremes
  <2>3. \E x \in S : \A y \in S : x >= y
    BY <2>1, <2>2 DEF Seqs
  <2>4. QueueTop \in S /\ \A y \in S : QueueTop >= y
    BY <1>2, <2>3 DEF QueueTop, Max
  <2>5. \A y \in S : y <= QueueTop
    BY <2>1, <2>4 DEF Seqs
  <2> QED
    BY <1>2, <2>4, <2>5
<1> QED
  BY <1>1, <1>2

(* What is part of a queue within its limit is within it. *)
LEMMA SubsetsAreLimited ==
  ASSUME NEW es, Limited(es), NEW fs \in SUBSET es
  PROVE  Limited(fs)
<1>1. IsFiniteSet(fs) /\ Cardinality(fs) <= Cardinality(es)
  BY FS_Subset DEF Limited
<1>2. Cardinality(fs) \in Nat /\ Cardinality(es) \in Nat
  BY <1>1, FS_CardinalityType DEF Limited
<1> QED
  BY <1>1, <1>2 DEF Limited, OnePerSeq

(* Parking one more event: the limit holds, the event is not what goes, and *)
(* what goes is older than all that stay.                                   *)
LEMMA CappedFits ==
  ASSUME NEW es, Limited(es), NEW e \in Event, \A q \in es : q.seq # e.seq
  PROVE  Limited(Capped(es \cup {e})) /\ Capped(es \cup {e}) \subseteq es \cup {e}
<1> DEFINE all == es \cup {e}
<1>1. IsFiniteSet(all) /\ Cardinality(all) = Cardinality(es) + 1
  BY FS_AddElement DEF Limited
<1>2. Cardinality(es) \in Nat
  BY FS_CardinalityType DEF Limited
<1>3. OnePerSeq(all) /\ all \subseteq Event
  BY DEF Limited, OnePerSeq
<1>4. CASE Cardinality(all) <= PendingMax
  BY <1>1, <1>2, <1>3, <1>4 DEF Capped, Limited
<1>5. CASE Cardinality(all) > PendingMax
  <2>1. Oldest(all) \in all
    BY <1>3, OldestIsOldest
  <2>2. /\ IsFiniteSet(all \ {Oldest(all)})
        /\ Cardinality(all \ {Oldest(all)}) = Cardinality(all) - 1
    BY <1>1, <2>1, FS_RemoveElement
  <2>3. Capped(all) = all \ {Oldest(all)}
    BY <1>5 DEF Capped
  <2>4. Cardinality(all) - 1 <= PendingMax
    BY <1>1, <1>2 DEF Limited
  <2>5. OnePerSeq(all \ {Oldest(all)})
    BY <1>3 DEF OnePerSeq
  <2>6. Limited(all \ {Oldest(all)})
    BY <1>3, <2>2, <2>4, <2>5 DEF Limited
  <2> QED
    BY <2>3, <2>6
<1>6. Cardinality(all) \in Nat
  BY <1>1, <1>2
<1> QED
  BY <1>4, <1>5, <1>6

(* A full queue keeps the new event, and drops the oldest. *)
LEMMA CappedKeepsTheNew ==
  ASSUME NEW es, Limited(es), NEW e \in Event, \A q \in es : q.seq < e.seq
  PROVE  /\ e \in Capped(es \cup {e})
         /\ \A q \in es : q \in Capped(es \cup {e})
                          \/ /\ Cardinality(es) = PendingMax
                             /\ \A p \in Capped(es \cup {e}) : q.seq < p.seq
<1> DEFINE all == es \cup {e}
<1>1. Cardinality(all) = Cardinality(es) + 1 /\ Cardinality(es) \in Nat
  <2>1. e \notin es
    BY DEF Limited, Event, Seqs
  <2> QED
    BY <2>1, FS_AddElement, FS_CardinalityType DEF Limited
<1>2. CASE Cardinality(all) <= PendingMax
  <2>1. ~(Cardinality(all) > PendingMax)
    BY <1>1, <1>2
  <2> QED
    BY <2>1 DEF Capped
<1>3. CASE Cardinality(all) > PendingMax
  <2>1. Oldest(all) \in all /\ \A f \in all : Oldest(all).seq <= f.seq
    BY OldestIsOldest DEF Limited
  <2>2. Capped(all) = all \ {Oldest(all)}
    BY <1>3 DEF Capped
  <2>3. Cardinality(es) = PendingMax
    BY <1>1, <1>3 DEF Limited
  <2>4. es # {}
    BY <2>3, FS_EmptySet
  <2>5. PICK q \in es : q.seq < e.seq
    BY <2>4
  <2>6. Oldest(all) # e
    BY <2>1, <2>5 DEF Limited, Event, Seqs
  <2>7. ASSUME NEW p \in all, p # Oldest(all) PROVE Oldest(all).seq < p.seq
    <3>1. p.seq # Oldest(all).seq
      BY <2>1, <2>7 DEF Limited, OnePerSeq, Event, Seqs
    <3>2. p.seq \in Int /\ Oldest(all).seq \in Int
      BY <2>1 DEF Limited, Event, Seqs
    <3> QED
      BY <2>1, <3>1, <3>2
  <2> QED
    BY <2>2, <2>3, <2>6, <2>7
<1>4. Cardinality(all) \in Nat
  BY <1>1
<1> QED
  BY <1>2, <1>3, <1>4

(* What a read may answer is a seq the room has.                            *)
LEMMA AnswersExist ==
  ASSUME Types, Places, call.op \in Reading
  PROVE  client \in Room /\ \A to \in AsOf : to \in -1..Last
<1>1. client \in Room
  BY DEF Types, Places, Reading
<1> QED
  BY <1>1 DEF Types, AsOf, CallRecord

-----------------------------------------------------------------------------
(* Every step.                                                              *)

(* A step keeps the types. *)
LEMMA TypesNext == QueueInv /\ [NextSession]_svars => Types'
<1> SUFFICES ASSUME QueueInv, [NextSession]_svars PROVE Types'
  OBVIOUS
<1> USE DEF queue, ghosts
<1>0. Types /\ Limits /\ Places
  BY DEF QueueInv
<1>1. NoCall \in CallRecord /\ NoHook \in HookRecord
  BY DEF NoCall, NoHook, CallRecord, HookRecord, Reading
<1>2. ASSUME NEW r \in Room, Post(r) PROVE Types'
  BY <1>0, <1>2 DEF Post, Types
<1>3. ASSUME NEW r \in Room, Deliver(r) PROVE Types'
  BY <1>0, <1>3 DEF Deliver, Enqueue, Types
<1>4. ASSUME NEW r \in Room, Missed(r) PROVE Types'
  BY <1>0, <1>4 DEF Missed, Types, Between
<1>5. ASSUME NEW r \in Room, JoinWarRoom(r) PROVE Types'
  BY <1>0, <1>1, <1>5 DEF JoinWarRoom, Types, CallRecord, NoCall
<1>6. ASSUME NEW op \in {"updates", "brief", "timeline"}, NEW since \in -1..Last, Ask(op, since)
      PROVE  Types'
  BY <1>0, <1>6 DEF Ask, Types, CallRecord, Reading
<1>7. CASE UpdatesLand
  BY <1>0, <1>7, AnswersExist DEF UpdatesLand, Doing, Wraps, Types, Reading, Upper, Between,
    CallRecord, NoCall
<1>8. CASE FrameLands
  BY <1>0, <1>1, <1>8, AnswersExist DEF FrameLands, Doing, Wraps, Ends, Types, Reading, Upper,
    Between, CallRecord, NoCall
<1>9. CASE TimelineLands
  BY <1>0, <1>1, <1>9, AnswersExist DEF TimelineLands, Doing, Ends, Types, Reading, Upper, Between
<1>10. CASE CallOther \/ FlushAsks
  BY <1>0, <1>1, <1>10 DEF CallOther, FlushAsks, Doing, Wraps, Types, CallRecord, NoCall,
    Reading, Places
<1>11. CASE FlushLands
  BY <1>0, <1>1, <1>11, AnswersExist DEF FlushLands, Doing, Ends, Types, Reading, Upper, Between,
    DroppedAfter
<1>12. CASE ReadFails
  BY <1>0, <1>1, <1>12 DEF ReadFails, Ends, Types
<1>13. CASE SwapRoom
  BY <1>0, <1>13 DEF SwapRoom, Doing, Types, CallRecord, Places
<1>14. CASE OnJoined
  BY <1>0, <1>14 DEF OnJoined, Doing, Types, CallRecord, Reading, Places, Between
<1>15. CASE HookPeeks
  BY <1>0, <1>15, QueueTopIsQueued DEF HookPeeks, Types, HookRecord, Limits, Limited, Event,
    Seqs, PointedAt, Between
<1>16. CASE HookEmits
  BY <1>0, <1>16 DEF HookEmits, Types, HookRecord
<1>17. CASE HookConsumes
  BY <1>0, <1>1, <1>17 DEF HookConsumes, Types, HookRecord, Upper, DroppedAfter
<1>18. CASE HookDies
  BY <1>0, <1>1, <1>18 DEF HookDies, Types
<1>19. CASE UNCHANGED svars
  BY <1>0, <1>19 DEF svars, Types
<1> QED
  BY <1>2, <1>3, <1>4, <1>5, <1>6, <1>7, <1>8, <1>9, <1>10, <1>11, <1>12, <1>13, <1>14, <1>15,
     <1>16, <1>17, <1>18, <1>19 DEF NextSession

(* No queue passes its limit. *)
LEMMA LimitsNext == QueueInv /\ [NextSession]_svars => Limits'
<1> SUFFICES ASSUME QueueInv, [NextSession]_svars PROVE Limits'
  OBVIOUS
<1> USE DEF queue, ghosts
<1>0. Limited(pending) /\ Limited(told)
  BY DEF QueueInv, Limits
<1>1. Limited({})
  BY FS_EmptySet DEF Limited, OnePerSeq
<1>2. ASSUME NEW r \in Room, Deliver(r) PROVE Limits'
  <2> DEFINE e == [room |-> r, seq |-> wire[r] + 1]
  <2>1. e \in Event
    BY <1>2 DEF QueueInv, Types, Deliver, Event, Seqs
  <2>2. pending' = IF Fresh(e) THEN Capped(pending \cup {e}) ELSE pending
    BY <1>2 DEF Deliver, Enqueue
  <2>3. told' = told \/ ((\A t \in told : t.seq # e.seq) /\ told' = Capped(told \cup {e}))
    BY <1>2 DEF Deliver, Enqueue
  <2> HIDE DEF e
  <2>4. Limited(pending')
    BY <1>0, <2>1, <2>2, CappedFits DEF Fresh
  <2>5. Limited(told')
    BY <1>0, <2>1, <2>3, CappedFits
  <2> QED
    BY <2>4, <2>5 DEF Limits, Limited, OnePerSeq
<1>3. ASSUME pending' \subseteq pending, told' \subseteq told PROVE Limits'
  BY <1>0, <1>3, SubsetsAreLimited DEF Limits, Limited, OnePerSeq
<1>4. ASSUME NEW r \in Room, Post(r) \/ Missed(r) \/ JoinWarRoom(r) PROVE Limits'
  BY <1>3, <1>4 DEF Post, Missed, JoinWarRoom
<1>5. ASSUME NEW op \in {"updates", "brief", "timeline"}, NEW since \in -1..Last, Ask(op, since)
      PROVE  Limits'
  BY <1>3, <1>5 DEF Ask
<1>6. CASE UpdatesLand \/ FrameLands \/ CallOther \/ FlushAsks \/ ReadFails
  BY <1>3, <1>6 DEF UpdatesLand, FrameLands, CallOther, FlushAsks, ReadFails
<1>7. CASE TimelineLands \/ FlushLands
  BY <1>3, <1>7 DEF TimelineLands, FlushLands, Kept
<1>8. CASE SwapRoom
  BY <1>3, <1>8 DEF SwapRoom
<1>9. CASE OnJoined \/ HookPeeks \/ HookEmits \/ HookDies
  BY <1>3, <1>9 DEF OnJoined, HookPeeks, HookEmits, HookDies
<1>10. CASE HookConsumes
  BY <1>3, <1>10 DEF HookConsumes, Kept
<1>11. CASE UNCHANGED svars
  BY <1>3, <1>11 DEF svars
<1> QED
  BY <1>2, <1>4, <1>5, <1>6, <1>7, <1>8, <1>9, <1>10, <1>11 DEF NextSession

(* Where a join is, and whose socket is heard, stays so. *)
LEMMA PlacesNext == QueueInv /\ [NextSession]_svars => Places'
<1> SUFFICES ASSUME QueueInv, [NextSession]_svars PROVE Places'
  OBVIOUS
<1> USE DEF queue, ghosts, Places
<1>0. Types /\ Places
  BY DEF QueueInv
<1>1. ASSUME UNCHANGED <<client, live, call>>, cursor' \in -1..Last, cursor <= cursor'
      PROVE  Places'
  BY <1>0, <1>1 DEF Types, CallRecord
<1>2. ASSUME NEW r \in Room, Post(r) \/ Deliver(r) \/ Missed(r) PROVE Places'
  BY <1>0, <1>1, <1>2 DEF Post, Deliver, Missed, Enqueue, Types
<1>3. ASSUME NEW r \in Room, JoinWarRoom(r) PROVE Places'
  BY <1>0, <1>3 DEF JoinWarRoom, Idle, NoCall
<1>4. ASSUME NEW op \in {"updates", "brief", "timeline"}, NEW since \in -1..Last, Ask(op, since)
      PROVE  Places'
  BY <1>0, <1>4 DEF Ask, Idle, NoCall
<1>5. CASE UpdatesLand \/ FrameLands \/ TimelineLands \/ FlushLands \/ ReadFails
  BY <1>0, <1>5 DEF UpdatesLand, FrameLands, TimelineLands, FlushLands, ReadFails, Doing, Wraps,
    Ends, NoCall
<1>6. CASE CallOther \/ FlushAsks
  BY <1>0, <1>6 DEF CallOther, FlushAsks, Doing, Wraps, NoCall, Idle, Types
<1>7. CASE SwapRoom
  BY <1>0, <1>7 DEF SwapRoom, Doing, Types, CallRecord
<1>8. CASE OnJoined
  BY <1>0, <1>8 DEF OnJoined, Doing, Types
<1>9. CASE HookPeeks \/ HookEmits \/ HookDies
  BY <1>0, <1>1, <1>9 DEF HookPeeks, HookEmits, HookDies, Types
<1>10. CASE HookConsumes
  BY <1>0, <1>1, <1>10 DEF HookConsumes, Types, HookRecord, Upper
<1>11. CASE UNCHANGED svars
  BY <1>0, <1>11 DEF svars
<1> QED
  BY <1>2, <1>3, <1>4, <1>5, <1>6, <1>7, <1>8, <1>9, <1>10, <1>11 DEF NextSession

(* What the cursor has passed, and the hook is about to make it pass.       *)
LEMMA PassedNext == QueueInv /\ [NextSession]_svars => PassedWasHanded'
<1> SUFFICES ASSUME QueueInv, [NextSession]_svars, ~mixed' PROVE PassedWasHanded'
  BY DEF PassedWasHanded
<1> USE DEF queue, ghosts
<1>0. Types /\ Places /\ PassedWasHanded /\ HookCovers
  BY DEF QueueInv
<1>1. ASSUME UNCHANGED <<client, cursor>>, ~mixed,
             handed \subseteq handed', excused \subseteq excused'
      PROVE  PassedWasHanded'
  BY <1>0, <1>1 DEF PassedWasHanded, Between
<1>2. ASSUME NEW r \in Room, Post(r) \/ Deliver(r) \/ Missed(r) \/ JoinWarRoom(r)
      PROVE  PassedWasHanded'
  BY <1>1, <1>2 DEF Post, Deliver, Missed, JoinWarRoom, Enqueue
<1>3. ASSUME NEW op \in {"updates", "brief", "timeline"}, NEW since \in -1..Last, Ask(op, since)
      PROVE  PassedWasHanded'
  BY <1>1, <1>3 DEF Ask
<1>4. ASSUME UNCHANGED client, ~mixed, handed \subseteq handed', excused \subseteq excused',
             NEW to \in -1..Last, cursor' = Upper(cursor, to),
             \A e \in Between(client, cursor, to) : e.seq \in News => e \in handed' \cup excused'
      PROVE  PassedWasHanded'
  <2> SUFFICES ASSUME NEW e \in Between(client, -1, cursor'), e.seq \in News
               PROVE  e \in handed' \cup excused'
    BY <1>4 DEF PassedWasHanded
  <2>1. e \in Event /\ e.room = client /\ e.seq \in Nat /\ cursor \in Int /\ to \in Int
    BY <1>0 DEF Between, Event, Seqs, Types
  <2>2. CASE e.seq <= cursor
    BY <1>0, <1>4, <2>1, <2>2 DEF PassedWasHanded, Between
  <2>3. CASE e.seq > cursor
    <3>1. e.seq <= to
      BY <1>4, <2>1, <2>3 DEF Between, Upper
    <3> QED
      BY <1>4, <2>1, <2>3, <3>1 DEF Between
  <2> QED
    BY <2>1, <2>2, <2>3
<1>5. CASE UpdatesLand
  <2>1. PICK to \in AsOf :
          /\ handed' = handed \cup Between(client, call.since, to)
          /\ cursor' = Upper(cursor, to)
          /\ excused' = excused \cup Between(client, cursor, call.since)
    BY <1>5 DEF UpdatesLand
  <2>2. to \in -1..Last
    BY <1>0, <1>5, AnswersExist DEF UpdatesLand, Doing, Reading
  <2>3. Between(client, cursor, to) \subseteq handed' \cup excused'
    BY <1>0, <2>1, <2>2 DEF Between, Event, Seqs, Types, CallRecord
  <2> QED
    BY <1>4, <1>5, <2>1, <2>2, <2>3 DEF UpdatesLand
<1>6. CASE FrameLands
  <2>1. PICK to \in AsOf :
          cursor' = Upper(cursor, to) /\ excused' = excused \cup Between(client, cursor, to)
    BY <1>6 DEF FrameLands
  <2>2. to \in -1..Last
    BY <1>0, <1>6, AnswersExist DEF FrameLands, Reading
  <2> QED
    BY <1>4, <1>6, <2>1, <2>2 DEF FrameLands
<1>7. CASE TimelineLands
  <2>1. PICK to \in AsOf :
          handed' = handed \cup Between(client, -1, to) /\ cursor' = Upper(cursor, to)
    BY <1>7 DEF TimelineLands
  <2>2. to \in -1..Last
    BY <1>0, <1>7, AnswersExist DEF TimelineLands, Doing, Reading
  <2>3. Between(client, cursor, to) \subseteq handed'
    BY <1>0, <2>1, <2>2 DEF Between, Event, Seqs, Types
  <2> QED
    BY <1>4, <1>7, <2>1, <2>2, <2>3 DEF TimelineLands
<1>8. CASE FlushLands
  <2>1. PICK to \in AsOf :
          handed' = handed \cup Between(client, call.since, to) /\ cursor' = Upper(cursor, to)
    BY <1>8 DEF FlushLands
  <2>2. to \in -1..Last
    BY <1>0, <1>8, AnswersExist DEF FlushLands, Doing, Reading
  <2>3. Between(client, cursor, to) \subseteq handed'
    BY <1>0, <1>8, <2>1, <2>2 DEF Between, Event, Seqs, Types, CallRecord, Places, FlushLands, Doing
  <2> QED
    BY <1>4, <1>8, <2>1, <2>2, <2>3 DEF FlushLands
<1>9. CASE CallOther \/ FlushAsks \/ ReadFails
  BY <1>1, <1>9 DEF CallOther, FlushAsks, ReadFails
<1>10. CASE SwapRoom
  BY <1>10 DEF SwapRoom, PassedWasHanded, Between, Event, Seqs
<1>11. CASE OnJoined \/ HookPeeks \/ HookEmits \/ HookDies
  BY <1>1, <1>11 DEF OnJoined, HookPeeks, HookEmits, HookDies
<1>12. CASE HookConsumes
  <2>0. ~mixed /\ hook.room = client
    BY <1>12, Zenon DEF HookConsumes
  <2>1. ~mixed /\ hook.room = client /\ hook # NoHook
    BY <1>12, <2>0 DEF HookConsumes, NoHook
  <2>2. \A e \in Between(client, -1, hook.upTo) : e.seq \in News => e \in handed \cup excused
    BY <1>0, <1>12, <2>1 DEF HookConsumes, HookCovers
  <2>3. hook.upTo \in -1..Last /\ cursor \in -1..Last
    BY <1>0 DEF Types, HookRecord
  <2>4. \A e \in Between(client, cursor, hook.upTo) : e.seq \in News => e \in handed \cup excused
    BY <2>2, <2>3 DEF Between, Event, Seqs
  <2> QED
    BY <1>4, <1>12, <2>1, <2>3, <2>4 DEF HookConsumes
<1>13. CASE UNCHANGED svars
  BY <1>1, <1>13 DEF svars
<1> QED
  BY <1>2, <1>3, <1>5, <1>6, <1>7, <1>8, <1>9, <1>10, <1>11, <1>12, <1>13 DEF NextSession

(* What is queued was pushed by the room of the session. *)
LEMMA OursNext == QueueInv /\ [NextSession]_svars => Ours'
<1> SUFFICES ASSUME QueueInv, [NextSession]_svars, ~mixed' PROVE Ours'
  BY DEF Ours
<1> USE DEF queue, ghosts
<1>0. Types /\ Limits /\ Places /\ Ours
  BY DEF QueueInv
<1>1. ASSUME UNCHANGED client, ~mixed, pending' \subseteq pending,
             \A r \in Room : wire[r] <= wire'[r] /\ wire'[r] \in Int,
             call'.op # "leaving" \/ UNCHANGED call
      PROVE  Ours'
  BY <1>0, <1>1 DEF Ours, Types, Limits, Limited, Event, Seqs
<1>2. ASSUME UNCHANGED wire PROVE \A r \in Room : wire[r] <= wire'[r] /\ wire'[r] \in Int
  BY <1>0, <1>2 DEF Types
<1>3. ASSUME NEW r \in Room, Post(r) PROVE Ours'
  BY <1>1, <1>2, <1>3 DEF Post
<1>4. ASSUME NEW r \in Room, Deliver(r) PROVE Ours'
  <2> DEFINE e == [room |-> r, seq |-> wire[r] + 1]
  <2>1. ~mixed /\ (Fresh(e) => r = client)
    BY <1>4 DEF Deliver, Enqueue
  <2>2. \A x \in Room : wire[x] <= wire'[x] /\ wire'[x] \in Int
    BY <1>0, <1>4 DEF Deliver, Types
  <2>3. CASE ~Fresh(e)
    BY <1>1, <1>4, <2>1, <2>2, <2>3 DEF Deliver, Enqueue
  <2>4. CASE Fresh(e)
    <3>1. r = client /\ e \in Event /\ client # NoRoom
      BY <1>4, <2>1, <2>4, <1>0 DEF Deliver, Event, Seqs, Types
    <3>2. pending' \subseteq pending \cup {e}
      BY <1>4, <2>4 DEF Deliver, Enqueue, Capped
    <3>3. e.room = client /\ e.seq <= wire'[client]
      BY <1>0, <1>4, <3>1 DEF Deliver, Types
    <3>4. \A q \in pending : q.room = client /\ q.seq <= wire'[client]
      BY <1>0, <2>1, <2>2, <3>1 DEF Ours, Types, Limits, Limited, Event, Seqs
    <3>5. call'.op # "leaving"
      BY <1>0, <1>4, <3>1 DEF Deliver, Places
    <3> QED
      BY <1>4, <3>1, <3>2, <3>3, <3>4, <3>5 DEF Ours, Deliver
  <2> QED
    BY <2>3, <2>4
<1>5. ASSUME NEW r \in Room, Missed(r) PROVE Ours'
  <2>1. \A x \in Room : wire[x] <= wire'[x] /\ wire'[x] \in Int
    BY <1>0, <1>5 DEF Missed, Types
  <2> QED
    BY <1>1, <1>5, <2>1 DEF Missed
<1>6. ASSUME NEW r \in Room, JoinWarRoom(r) PROVE Ours'
  BY <1>1, <1>2, <1>6 DEF JoinWarRoom, NoCall
<1>7. ASSUME NEW op \in {"updates", "brief", "timeline"}, NEW since \in -1..Last, Ask(op, since)
      PROVE  Ours'
  BY <1>1, <1>2, <1>7 DEF Ask
<1>8. CASE UpdatesLand \/ FrameLands \/ ReadFails
  BY <1>1, <1>2, <1>8 DEF UpdatesLand, FrameLands, ReadFails, Wraps, Ends, NoCall
<1>9. CASE TimelineLands \/ FlushLands
  BY <1>1, <1>2, <1>9 DEF TimelineLands, FlushLands, Ends, NoCall, Kept
<1>10. CASE CallOther \/ FlushAsks
  BY <1>1, <1>2, <1>10 DEF CallOther, FlushAsks, Wraps, NoCall
<1>11. CASE SwapRoom
  BY <1>11 DEF SwapRoom, Ours
<1>12. CASE OnJoined
  <2>1. \A x \in Room : wire[x] <= wire'[x] /\ wire'[x] \in Int
    BY <1>0, <1>12 DEF OnJoined, Types
  <2> QED
    BY <1>1, <1>12, <2>1 DEF OnJoined
<1>13. CASE HookPeeks \/ HookEmits \/ HookDies
  BY <1>1, <1>2, <1>13 DEF HookPeeks, HookEmits, HookDies
<1>14. CASE HookConsumes
  BY <1>1, <1>2, <1>14 DEF HookConsumes, Kept
<1>15. CASE UNCHANGED svars
  BY <1>1, <1>2, <1>15 DEF svars
<1> QED
  BY <1>3, <1>4, <1>5, <1>6, <1>7, <1>8, <1>9, <1>10, <1>11, <1>12, <1>13, <1>14, <1>15
  DEF NextSession

(* What was pushed past the cursor is queued, handed over, or thrown away. *)
LEMMA AccountedNext == QueueInv /\ [NextSession]_svars => Accounted'
<1> SUFFICES ASSUME QueueInv, [NextSession]_svars, ~mixed', client' \in live'
             PROVE  Accounted'
  BY DEF Accounted
<1> USE DEF queue, ghosts
<1>0. Types /\ Limits /\ Places /\ Ours /\ Accounted
  BY DEF QueueInv
<1>1. ASSUME UNCHANGED <<client, wire, live>>, ~mixed,
             handed \subseteq handed', excused \subseteq excused',
             cursor' \in Int, cursor <= cursor',
             \/ UNCHANGED <<pending, dropped>>
             \/ pending' = Kept(cursor') /\ dropped' \in {dropped, DroppedAfter(cursor')}
      PROVE  Accounted'
  <2> SUFFICES ASSUME NEW e \in Between(client, cursor', wire[client])
               PROVE  e \in pending' \cup handed' \cup excused' \/ ThrownAway(e)'
    BY <1>1 DEF Accounted
  <2>1. e \in Between(client, cursor, wire[client]) /\ e.seq \in Int /\ e.seq > cursor'
    BY <1>0, <1>1 DEF Between, Event, Seqs, Types
  <2>2. e \in pending \cup handed \cup excused \/ ThrownAway(e)
    BY <1>0, <1>1, <2>1 DEF Accounted
  <2>3. CASE e \in pending
    BY <1>1, <2>1, <2>3 DEF Kept
  <2>4. CASE ThrownAway(e)
    <3>1. PICK q \in pending : e.seq < q.seq
      BY <2>4 DEF ThrownAway
    <3>2. q.seq > cursor'
      BY <1>0, <1>1, <2>1, <3>1 DEF Limits, Limited, Event, Seqs
    <3>3. pending' # {} /\ pending' \subseteq pending /\ dropped' = dropped
      BY <1>1, <3>1, <3>2 DEF Kept, DroppedAfter
    <3> QED
      BY <2>4, <3>3 DEF ThrownAway
  <2> QED
    BY <1>1, <2>2, <2>3, <2>4
<1>2. cursor \in Int /\ cursor <= cursor
  BY <1>0 DEF Types
<1>3. ASSUME NEW c \in -1..Last PROVE Upper(cursor, c) \in Int /\ cursor <= Upper(cursor, c)
  BY <1>0, <1>3 DEF Types, Upper
<1>4. ASSUME NEW r \in Room, Post(r) \/ JoinWarRoom(r) PROVE Accounted'
  BY <1>1, <1>2, <1>4 DEF Post, JoinWarRoom
<1>5. ASSUME NEW r \in Room, Deliver(r) PROVE Accounted'
  <2> DEFINE new == [room |-> r, seq |-> wire[r] + 1]
  <2>1. ~mixed /\ (Fresh(new) => r = client) /\ UNCHANGED <<client, live, cursor, handed, excused>>
    BY <1>5, Zenon DEF Deliver, Enqueue
  <2>2. r = client /\ client \in Room
    BY <1>0, <1>5, <2>1 DEF Deliver, Places, Types
  <2>3. new \in Event /\ wire'[client] = wire[client] + 1 /\ wire[client] \in Int
    BY <1>0, <1>5, <2>2 DEF Deliver, Types, Event, Seqs
  <2>4. pending' = IF Fresh(new) THEN Capped(pending \cup {new}) ELSE pending
    BY <1>5 DEF Deliver, Enqueue
  <2>5. dropped' = IF Fresh(new) /\ Cardinality(pending) = PendingMax THEN dropped + 1 ELSE dropped
    BY <1>5 DEF Deliver, Enqueue
  <2>6. \A q \in pending : q.seq < new.seq
    BY <1>0, <2>1, <2>2, <2>3 DEF Ours, Limits, Limited, Event, Seqs
  <2>7. new.seq = wire[client] + 1 /\ new.room = client
    BY <2>2
  <2> HIDE DEF new
  <2> SUFFICES ASSUME NEW e \in Between(client, cursor, wire'[client])
               PROVE  e \in pending' \cup handed \cup excused \/ ThrownAway(e)'
    BY <2>1 DEF Accounted
  <2>8. e \in Event /\ e.room = client /\ e.seq \in Int /\ e.seq > cursor
    BY DEF Between, Event, Seqs
  <2>9. CASE e.seq <= wire[client]
    <3>1. e \in pending \cup handed \cup excused \/ ThrownAway(e)
      BY <1>0, <2>1, <2>8, <2>9 DEF Accounted, Between
    <3>2. CASE ~Fresh(new)
      BY <2>4, <2>5, <3>1, <3>2 DEF ThrownAway
    <3>3. CASE Fresh(new)
      <4>1. new \in pending' /\ pending' \subseteq pending \cup {new}
        BY <1>0, <2>3, <2>4, <2>6, <3>3, CappedKeepsTheNew DEF Limits, Capped
      <4>2. CASE e \in pending /\ e \notin pending'
        <5>1. Cardinality(pending) = PendingMax /\ \A p \in pending' : e.seq < p.seq
          BY <1>0, <2>3, <2>4, <2>6, <3>3, <4>2, CappedKeepsTheNew DEF Limits
        <5>2. dropped' > 0
          BY <1>0, <2>5, <3>3, <5>1 DEF Types
        <5> QED
          BY <4>1, <5>1, <5>2 DEF ThrownAway
      <4>3. CASE ThrownAway(e)
        <5>1. dropped' > 0
          BY <1>0, <2>5, <4>3 DEF Types, ThrownAway
        <5>2. e.seq < new.seq
          BY <2>3, <2>7, <2>8, <2>9
        <5> QED
          BY <4>1, <4>3, <5>1, <5>2 DEF ThrownAway
      <4> QED
        BY <3>1, <4>2, <4>3
    <3> QED
      BY <3>2, <3>3
  <2>10. CASE e.seq > wire[client]
    <3>1. e.seq = new.seq /\ e = new
      BY <2>3, <2>7, <2>8, <2>10 DEF Between, Event
    <3>2. Fresh(new)
      BY <2>3, <2>6, <2>8, <3>1 DEF Fresh, Event, Seqs
    <3> QED
      BY <1>0, <2>3, <2>4, <2>6, <3>1, <3>2, CappedKeepsTheNew DEF Limits
  <2> QED
    BY <2>3, <2>8, <2>9, <2>10
<1>6. ASSUME NEW r \in Room, Missed(r) PROVE Accounted'
  <2>1. r = client /\ client \in Room /\ ~mixed
    BY <1>0, <1>6 DEF Missed, Places, Types
  <2>2. wire'[client] = wire[client] + 1 /\ wire[client] \in Int
    BY <1>0, <1>6, <2>1 DEF Missed, Types
  <2>3. Between(client, cursor, wire'[client]) \subseteq
          Between(client, cursor, wire[client]) \cup Between(client, wire[client], wire[client] + 1)
    BY <2>2 DEF Between, Event, Seqs
  <2>4. Between(client, wire[client], wire[client] + 1) \subseteq excused'
    BY <1>6, <2>1 DEF Missed
  <2> QED
    BY <1>0, <1>6, <2>1, <2>3, <2>4 DEF Missed, Accounted, ThrownAway
<1>7. ASSUME NEW op \in {"updates", "brief", "timeline"}, NEW since \in -1..Last, Ask(op, since)
      PROVE  Accounted'
  BY <1>1, <1>2, <1>7 DEF Ask
<1>8. CASE UpdatesLand \/ FrameLands \/ TimelineLands \/ FlushLands
  <2>1. PICK to \in AsOf : cursor' = Upper(cursor, to)
    BY <1>8 DEF UpdatesLand, FrameLands, TimelineLands, FlushLands
  <2>2. to \in -1..Last
    BY <1>0, <1>8, AnswersExist DEF UpdatesLand, FrameLands, TimelineLands, FlushLands, Doing, Reading
  <2>3. cursor' \in Int /\ cursor <= cursor'
    BY <1>3, <2>1, <2>2
  <2> QED
    BY <1>1, <1>8, <2>3 DEF UpdatesLand, FrameLands, TimelineLands, FlushLands
<1>9. CASE CallOther \/ FlushAsks \/ ReadFails
  BY <1>1, <1>2, <1>9 DEF CallOther, FlushAsks, ReadFails
<1>10. CASE SwapRoom
  BY <1>0, <1>10 DEF SwapRoom, Doing, Places
<1>11. CASE OnJoined
  <2>1. client \in Room
    BY <1>0, <1>11 DEF OnJoined, Doing, Types, Places
  <2>2. wire'[client] = posted[client] /\ Between(client, -1, posted[client]) \subseteq excused'
    BY <1>0, <1>11, <2>1 DEF OnJoined, Types
  <2>3. Between(client, cursor, posted[client]) \subseteq Between(client, -1, posted[client])
    BY <1>0 DEF Types, Between, Event, Seqs
  <2> QED
    BY <1>11, <2>2, <2>3 DEF OnJoined, Accounted
<1>12. CASE HookPeeks \/ HookEmits \/ HookDies
  BY <1>1, <1>2, <1>12 DEF HookPeeks, HookEmits, HookDies
<1>13. CASE HookConsumes
  <2>1. cursor' \in Int /\ cursor <= cursor'
    BY <1>0, <1>3, <1>13 DEF HookConsumes, Types, HookRecord
  <2>2. ~mixed
    BY <1>13, Zenon DEF HookConsumes
  <2> QED
    BY <1>1, <1>13, <2>1, <2>2 DEF HookConsumes
<1>14. CASE UNCHANGED svars
  BY <1>1, <1>2, <1>14 DEF svars
<1> QED
  BY <1>4, <1>5, <1>6, <1>7, <1>8, <1>9, <1>10, <1>11, <1>12, <1>13, <1>14 DEF NextSession

(* A consume passes nothing but what the hook shows, or was handed over. *)
LEMMA CoversNext == QueueInv /\ [NextSession]_svars => HookCovers'
<1> SUFFICES ASSUME QueueInv, [NextSession]_svars, ~mixed', hook' # NoHook
             PROVE  HookCovers'
  BY DEF HookCovers
<1> USE DEF queue, ghosts
<1>0. Types /\ Limits /\ Places /\ Ours /\ Accounted /\ PassedWasHanded /\ HookCovers
  BY DEF QueueInv
<1>1. ASSUME UNCHANGED hook, ~mixed, handed \subseteq handed', excused \subseteq excused'
      PROVE  HookCovers'
  BY <1>0, <1>1 DEF HookCovers
<1>2. ASSUME NEW r \in Room, Post(r) \/ Missed(r) \/ JoinWarRoom(r) PROVE HookCovers'
  BY <1>1, <1>2 DEF Post, Missed, JoinWarRoom
<1>3. ASSUME NEW r \in Room, Deliver(r) PROVE HookCovers'
  <2>1. ~mixed
    BY <1>3, Zenon DEF Deliver, Enqueue
  <2> QED
    BY <1>1, <1>3, <2>1 DEF Deliver
<1>4. ASSUME NEW op \in {"updates", "brief", "timeline"}, NEW since \in -1..Last, Ask(op, since)
      PROVE  HookCovers'
  BY <1>1, <1>4 DEF Ask
<1>5. CASE UpdatesLand \/ FrameLands \/ TimelineLands \/ FlushLands
  BY <1>1, <1>5 DEF UpdatesLand, FrameLands, TimelineLands, FlushLands
<1>6. CASE CallOther \/ FlushAsks \/ ReadFails \/ OnJoined
  BY <1>1, <1>6 DEF CallOther, FlushAsks, ReadFails, OnJoined
<1>7. CASE SwapRoom
  <2>1. ~mixed
    BY <1>7, Zenon DEF SwapRoom
  <2> QED
    BY <1>1, <1>7, <2>1 DEF SwapRoom
<1>8. CASE HookPeeks
  <2>1. /\ ~mixed /\ client \in Room /\ hook'.step = "peeked"
        /\ hook'.room = client /\ hook'.upTo = QueueTop
        /\ hook'.shown = {e \in pending : e.seq \in News}
        /\ handed' = handed /\ excused' = excused \cup PointedAt
    BY <1>0, <1>8 DEF HookPeeks, Types
  <2> SUFFICES ASSUME NEW e \in Between(client, -1, QueueTop), e.seq \in News
               PROVE  e \in handed' \cup excused' \cup hook'.shown
    BY <2>1 DEF HookCovers
  <2>2. e \in Event /\ e.room = client /\ e.seq \in Nat /\ cursor \in Int /\ wire[client] \in Int
    BY <1>0, <2>1 DEF Between, Event, Seqs, Types
  <2>3. CASE e.seq <= cursor
    BY <1>0, <2>1, <2>2, <2>3 DEF PassedWasHanded, Between
  <2>4. CASE e.seq > cursor
    <3>1. pending # {}
      BY <1>0, <2>2, <2>4, QueueTopIsQueued DEF Between
    <3>2. PICK q \in pending : QueueTop = q.seq
      BY <1>0, <3>1, QueueTopIsQueued
    <3>3. e.seq <= wire[client] /\ client \in live
      BY <1>0, <2>1, <2>2, <3>1, <3>2 DEF Ours, Between, Places, Limits, Limited, Event, Seqs
    <3>4. e \in Between(client, cursor, wire[client])
      BY <2>2, <2>4, <3>3 DEF Between
    <3>5. e \in pending \cup handed \cup excused \/ ThrownAway(e)
      BY <1>0, <2>1, <3>3, <3>4 DEF Accounted
    <3> QED
      BY <2>1, <3>4, <3>5 DEF ThrownAway, PointedAt
  <2> QED
    BY <2>2, <2>3, <2>4
<1>9. CASE HookEmits
  BY <1>0, <1>9 DEF HookEmits, HookCovers, NoHook, Types, HookRecord
<1>10. CASE HookConsumes \/ HookDies
  BY <1>10 DEF HookConsumes, HookDies
<1>11. CASE UNCHANGED svars
  BY <1>1, <1>11 DEF svars
<1> QED
  BY <1>2, <1>3, <1>4, <1>5, <1>6, <1>7, <1>8, <1>9, <1>10, <1>11 DEF NextSession

(* A step of a pull, a hook, a push or a join keeps the invariant. *)
LEMMA NextQueue == QueueInv /\ [NextSession]_svars => QueueInv'
  BY TypesNext, LimitsNext, PlacesNext, OursNext, AccountedNext, PassedNext, CoversNext
  DEF QueueInv

(* However pulls, flushes, hooks, pushes, joins and their failures          *)
(* interleave, for any number of rooms and events and any limit: what the   *)
(* cursor has passed was handed over or passed on purpose, and what is owed *)
(* keeps the flush's trigger, until another room's event or consume gets    *)
(* into the queue (session.go).                                             *)
THEOREM PassedIsAlwaysOwedOrHanded == SpecSession => []PassedIsOwedOrHanded
<1>1. QueueInv => PassedIsOwedOrHanded
  <2>1. QueueInv => OwedHasTrigger
    BY DEF QueueInv, Accounted, OwedHasTrigger, ThrownAway, Owed
  <2> QED
    BY <2>1 DEF QueueInv, PassedIsOwedOrHanded
<1> QED
  BY <1>1, InitQueue, NextQueue, PTL DEF SpecSession

(* Every value is of its kind; the queues keep to their limit, and no two   *)
(* of their events share a seq.                                             *)
THEOREM QueueTypes == SpecSession => []QueueTypeOK
<1>1. QueueInv => QueueTypeOK
  BY DEF QueueInv, Types, Limits, Limited, QueueTypeOK
<1> QED
  BY <1>1, InitQueue, NextQueue, PTL DEF SpecSession

-----------------------------------------------------------------------------
(* The snapshots.                                                           *)

(* A caller about to begin has a client; one that waits, a read; a running *)
(* read, a client.                                                         *)
Bound ==
  /\ \A c \in Caller : callers[c].at = "begin" => callers[c].client \in Room
  /\ \A c \in Caller : callers[c].at = "wait" => callers[c].read \in Read
  /\ \A i \in Read : reads[i].running => reads[i].client \in Room

(* The read in flight is current, and, if the snapshot is clean, knows what *)
(* has arrived: the answer it will write keeps FreshOrDirty.                *)
InFlightIsGood ==
  /\ inFlight # None => reads[inFlight].current
  /\ ~joining /\ ~dirty /\ inFlight # None /\ ~reads[inFlight].stray =>
       reads[inFlight].knows >= arrived

(* The socket delivers nothing the room does not have. *)
ArrivedExists == client # NoRoom => client \in Room /\ arrived <= version[client]

SnapInv ==
  /\ SnapTypeOK /\ Bound /\ InFlightIsGood /\ ArrivedExists
  /\ OnlyCurrentWrites /\ FreshOrDirty

(* At first there is no snapshot, and nobody reads. *)
LEMMA InitSnap == Init => SnapInv
<1> SUFFICES ASSUME Init PROVE SnapInv
  OBVIOUS
<1>1. NoRead \in ReadType /\ ~NoRead.running
  BY DEF NoRead, ReadType
<1>2. Resting \in [at : {"rest", "begin", "wait"}, client : Room \cup {NoRoom},
                   policy : Policy, read : Read \cup {None}] /\ Resting.at = "rest"
  BY DEF Resting, Policy
<1>3. NoAnswer \in [room : Room \cup {NoRoom}, knows : Nat, current : BOOLEAN, stray : BOOLEAN]
        /\ NoAnswer.current
  BY DEF NoAnswer
<1>4. SnapTypeOK
  BY <1>1, <1>2, <1>3 DEF Init, SnapTypeOK
<1>5. Bound
  BY <1>1, <1>2 DEF Init, Bound
<1> QED BY <1>3, <1>4, <1>5 DEF Init, SnapInv, InFlightIsGood, ArrivedExists,
  OnlyCurrentWrites, FreshOrDirty

USE DEF vars, snap

(* What a step that touches neither the snapshot nor the room keeps. *)
LEMMA CallersOnly ==
  ASSUME SnapInv, UNCHANGED <<version, arrived, client, joining, snap>>,
         NEW c \in Caller, NEW at \in {"rest", "begin", "wait"},
         NEW cl \in Room \cup {NoRoom}, NEW policy \in Policy, NEW rd \in Read \cup {None},
         at = "begin" => cl \in Room, at = "wait" => rd \in Read,
         callers' = [callers EXCEPT ![c] =
                       [at |-> at, client |-> cl, policy |-> policy, read |-> rd]]
  PROVE  SnapInv'
<1> DEFINE CallerType == [at : {"rest", "begin", "wait"}, client : Room \cup {NoRoom},
                          policy : Policy, read : Read \cup {None}]
<1>1. callers' \in [Caller -> CallerType]
  BY DEF SnapInv, SnapTypeOK
<1>2. SnapTypeOK'
  BY <1>1 DEF SnapInv, SnapTypeOK
<1>3. Bound'
  BY <1>1 DEF SnapInv, SnapTypeOK, Bound
<1> QED BY <1>2, <1>3 DEF SnapInv, InFlightIsGood, ArrivedExists, OnlyCurrentWrites, FreshOrDirty

(* The room changes. *)
LEMMA ChangeKeeps == ASSUME SnapInv, NEW r \in Room, Change(r) PROVE SnapInv'
<1>1. version' \in [Room -> Nat] /\ \A q \in Room : version'[q] >= version[q]
  BY DEF SnapInv, SnapTypeOK, Change
<1> QED BY <1>1 DEF SnapInv, SnapTypeOK, Bound, InFlightIsGood, ArrivedExists,
  OnlyCurrentWrites, FreshOrDirty, Change

(* A caller asks for a snapshot. *)
LEMMA TakeKeeps ==
  ASSUME SnapInv, NEW c \in Caller, NEW policy \in Policy, Call(c, policy) PROVE SnapInv'
<1>1. client \in Room
  BY DEF SnapInv, SnapTypeOK, Call, Take
<1>2. callers' = [callers EXCEPT ![c] = [at |-> "begin", client |-> client,
                                         policy |-> policy, read |-> None]]
  BY DEF Call, Take
<1> QED BY <1>1, <1>2, CallersOnly DEF Call, SnapInv, SnapTypeOK

(* A caller arrives at the cache. *)
LEMMA ArriveKeeps == ASSUME SnapInv, NEW c \in Caller, Arrive(c) PROVE SnapInv'
<1>1. client \in Room
  BY DEF SnapInv, SnapTypeOK, Arrive
<1>2. callers' = [callers EXCEPT ![c] = [at |-> "begin", client |-> client,
                                         policy |-> "always", read |-> None]]
  BY DEF Arrive, Take
<1>3. callers' \in [Caller -> [at : {"rest", "begin", "wait"}, client : Room \cup {NoRoom},
                               policy : Policy, read : Read \cup {None}]]
  BY <1>1, <1>2 DEF SnapInv, SnapTypeOK, Policy
<1>4. arrived' \in Nat /\ arrived' <= version[client] /\ dirty' = TRUE
  BY <1>1 DEF SnapInv, SnapTypeOK, ArrivedExists, Arrive
<1>5. Bound'
  BY <1>1, <1>2, <1>3 DEF SnapInv, SnapTypeOK, Bound, Arrive
<1> QED BY <1>1, <1>3, <1>4, <1>5 DEF SnapInv, SnapTypeOK, InFlightIsGood, ArrivedExists,
  OnlyCurrentWrites, FreshOrDirty, Arrive

(* A caller declines, joins a read, or is answered. *)
LEMMA CallerKeeps ==
  ASSUME SnapInv, NEW c \in Caller, Decline(c) \/ Join(c) \/ Answered(c) PROVE SnapInv'
<1>1. callers[c] \in [at : {"rest", "begin", "wait"}, client : Room \cup {NoRoom},
                      policy : Policy, read : Read \cup {None}]
  BY DEF SnapInv, SnapTypeOK
<1>2. CASE Decline(c) \/ Answered(c)
  <2>1. callers' = [callers EXCEPT ![c] = [at |-> "rest", client |-> NoRoom,
                                           policy |-> "always", read |-> None]]
    BY <1>2 DEF Decline, Answered, Resting
  <2> QED BY <1>2, <2>1, CallersOnly DEF Decline, Answered, Policy
<1>3. CASE Join(c)
  <2>1. callers' = [callers EXCEPT ![c] = [at |-> "wait", client |-> callers[c].client,
                             policy |-> callers[c].policy, read |-> inFlight]]
    BY <1>3 DEF Join, Waiting
  <2>2. inFlight \in Read
    BY <1>3 DEF Join, SnapInv, SnapTypeOK
  <2>3. callers[c].client \in Room \cup {NoRoom} /\ callers[c].policy \in Policy
    BY <1>1
  <2>4. UNCHANGED <<version, arrived, client, joining, snap>>
    BY <1>3 DEF Join
  <2> HIDE DEF vars, snap
  <2> QED BY <2>1, <2>2, <2>3, <2>4, CallersOnly
<1> QED BY <1>2, <1>3

(* A caller begins a read. *)
LEMMA BeginKeeps ==
  ASSUME SnapInv, NEW c \in Caller, NEW i \in Read, Begin(c, i)
  PROVE  SnapInv'
<1> DEFINE it == [running |-> TRUE, gen |-> gen, client |-> callers[c].client,
                  knows |-> version[callers[c].client], current |-> TRUE,
                  stray |-> joining \/ callers[c].client # client]
<1>1. callers[c] \in [at : {"rest", "begin", "wait"}, client : Room \cup {NoRoom},
                      policy : Policy, read : Read \cup {None}]
  BY DEF SnapInv, SnapTypeOK
<1>2. callers[c].client \in Room
  BY DEF SnapInv, Bound, Begin
<1>3. it \in ReadType
  BY <1>2 DEF SnapInv, SnapTypeOK, ReadType
<1>4. reads' = [reads EXCEPT ![i] = it] /\ reads' \in [Read -> ReadType] /\ reads'[i] = it
  <2>1. reads' = [reads EXCEPT ![i] = it]
    BY Zenon DEF Begin
  <2>2. reads \in [Read -> ReadType]
    BY DEF SnapInv, SnapTypeOK
  <2> HIDE DEF it
  <2> QED BY <1>3, <2>1, <2>2
<1>5. callers' = [callers EXCEPT ![c] = [at |-> "wait", client |-> callers[c].client,
                               policy |-> callers[c].policy, read |-> i]]
  BY Zenon DEF Begin, Waiting
<1>6. callers' \in [Caller -> [at : {"rest", "begin", "wait"}, client : Room \cup {NoRoom},
                               policy : Policy, read : Read \cup {None}]]
  BY <1>1, <1>5 DEF SnapInv, SnapTypeOK
<1>7. i # None
  BY SnapshotAssumption
<1>8. /\ it.running /\ it.gen = gen /\ it.client = callers[c].client /\ it.current
      /\ it.knows = version[callers[c].client]
      /\ ~it.stray => ~joining /\ callers[c].client = client
  OBVIOUS
<1>9. dirty' = FALSE /\ inFlight' = i /\ UNCHANGED <<version, arrived, client, joining, value, gen>>
  BY DEF Begin
<1> HIDE DEF it
<1>10. SnapTypeOK'
  BY <1>4, <1>6, <1>7, <1>8, <1>9 DEF SnapInv, SnapTypeOK
<1>11. Bound'
  BY <1>2, <1>4, <1>5, <1>6, <1>8 DEF SnapInv, SnapTypeOK, Bound
<1>12. InFlightIsGood'
  <2>1. reads'[inFlight'] = it
    BY <1>4, <1>9
  <2>2. client \in Room => arrived <= version[client]
    BY <1>7, SnapshotAssumption DEF SnapInv, ArrivedExists
  <2>3. ~it.stray => it.knows >= arrived
    BY <1>2, <1>8, <2>2 DEF SnapInv, SnapTypeOK
  <2> QED BY <1>8, <1>9, <2>1, <2>3 DEF InFlightIsGood
<1> QED BY <1>7, <1>9, <1>10, <1>11, <1>12 DEF SnapInv, ArrivedExists, OnlyCurrentWrites,
  FreshOrDirty

(* A read lands, or fails. *)
LEMMA LandKeeps ==
  ASSUME SnapInv, NEW i \in Read, NEW ok \in BOOLEAN, Land(i, ok)
  PROVE  SnapInv'
<1>1. NoRead \in ReadType
  BY DEF NoRead, ReadType
<1>2. reads' = [reads EXCEPT ![i] = NoRead] /\ reads' \in [Read -> ReadType]
  BY <1>1 DEF SnapInv, SnapTypeOK, Land
<1>3. Bound'
  BY <1>2 DEF SnapInv, SnapTypeOK, Bound, Land, NoRead
<1>4. CASE MayWrite(i)
  <2>1. inFlight = i /\ inFlight' = None /\ i # None
    BY <1>4, SnapshotAssumption DEF MayWrite, Land
  <2>2. CASE ok
    <3>1. PICK k \in reads[i].knows..version[reads[i].client] :
            /\ value' = [room |-> reads[i].client, knows |-> k,
                         current |-> reads[i].current, stray |-> reads[i].stray]
            /\ dirty' = dirty
      BY <1>4, <2>2 DEF Land, KeepMark
    <3>2. reads[i] \in ReadType /\ reads[i].client \in Room
      BY DEF SnapInv, SnapTypeOK, Bound, Land
    <3>3. k \in Nat /\ k >= reads[i].knows
      BY <3>2 DEF SnapInv, SnapTypeOK, ReadType
    <3>4. value' \in [room : Room \cup {NoRoom}, knows : Nat, current : BOOLEAN, stray : BOOLEAN]
      BY <3>1, <3>2, <3>3 DEF ReadType
    <3>5. SnapTypeOK'
      BY <1>2, <2>1, <3>1, <3>4 DEF SnapInv, SnapTypeOK, Land
    <3>6. OnlyCurrentWrites' /\ FreshOrDirty'
      <4>1. reads[i].knows \in Nat /\ arrived \in Nat
        BY <3>2 DEF SnapInv, SnapTypeOK, ReadType
      <4>2. value'.knows = k /\ value'.stray = reads[i].stray /\ value'.current = reads[i].current
        BY <3>1
      <4>3. reads[i].current
        BY <2>1 DEF SnapInv, InFlightIsGood
      <4>4. ~joining /\ ~dirty /\ ~reads[i].stray => reads[i].knows >= arrived
        BY <2>1 DEF SnapInv, InFlightIsGood
      <4> QED BY <3>1, <3>3, <4>1, <4>2, <4>3, <4>4 DEF OnlyCurrentWrites, FreshOrDirty, Land
    <3> QED BY <1>3, <2>1, <3>5, <3>6 DEF SnapInv, InFlightIsGood, ArrivedExists, Land
  <2>3. CASE ~ok
    <3>1. value' = value /\ dirty' = TRUE
      BY <1>4, <2>3 DEF Land
    <3> QED BY <1>2, <1>3, <2>1, <3>1 DEF SnapInv, SnapTypeOK, InFlightIsGood,
          ArrivedExists, OnlyCurrentWrites, FreshOrDirty, Land
  <2> QED BY <2>2, <2>3
<1>5. CASE ~MayWrite(i)
  <2>1. UNCHANGED <<value, dirty, inFlight, gen, arrived, client, joining, version, callers>>
    BY <1>5 DEF Land
  <2>2. inFlight # i
    BY <1>5, SnapshotAssumption DEF MayWrite, SnapInv, SnapTypeOK
  <2>3. inFlight # None => reads'[inFlight] = reads[inFlight]
    BY <1>2, <2>2 DEF SnapInv, SnapTypeOK
  <2>4. SnapTypeOK'
    BY <1>2, <2>1, <2>3 DEF SnapInv, SnapTypeOK
  <2>5. InFlightIsGood'
    BY <2>1, <2>3 DEF SnapInv, InFlightIsGood
  <2> QED BY <1>3, <2>1, <2>4, <2>5 DEF SnapInv, ArrivedExists, OnlyCurrentWrites, FreshOrDirty
<1> QED BY <1>4, <1>5

(* A caller gives up waiting. *)
LEMMA GiveUpKeeps == ASSUME SnapInv, NEW c \in Caller, GiveUp(c) PROVE SnapInv'
<1> DEFINE i == callers[c].read
<1>1. i \in Read
  BY DEF SnapInv, Bound, GiveUp
<1>2. callers' = [callers EXCEPT ![c] = [at |-> "rest", client |-> NoRoom,
                                         policy |-> "always", read |-> None]]
  BY DEF GiveUp, Resting
<1>3. CASE inFlight = i
  <2>1. reads' = [reads EXCEPT ![i] = [reads[i] EXCEPT !.current = FALSE]]
    BY <1>1, <1>3 DEF GiveUp, Abandoned, SnapInv, SnapTypeOK
  <2>2. inFlight' = None /\ dirty' = TRUE /\ gen' = gen + 1
    BY <1>3 DEF GiveUp, Overtake
  <2>3. [reads[i] EXCEPT !.current = FALSE] \in ReadType
    <3>1. reads[i] \in ReadType
      BY <1>1 DEF SnapInv, SnapTypeOK
    <3> QED BY <3>1 DEF ReadType
  <2>4. reads' \in [Read -> ReadType]
    BY <1>1, <2>1, <2>3 DEF SnapInv, SnapTypeOK
  <2>5. callers' \in [Caller -> [at : {"rest", "begin", "wait"}, client : Room \cup {NoRoom},
                                 policy : Policy, read : Read \cup {None}]]
    BY <1>2 DEF SnapInv, SnapTypeOK, Policy
  <2>6. Bound'
    <3>1. \A j \in Read : reads'[j].running = reads[j].running /\ reads'[j].client = reads[j].client
      BY <1>1, <2>1 DEF SnapInv, SnapTypeOK, ReadType
    <3> QED BY <1>2, <2>5, <3>1 DEF SnapInv, SnapTypeOK, Bound
  <2> QED BY <2>2, <2>4, <2>5, <2>6 DEF SnapInv, SnapTypeOK, InFlightIsGood, ArrivedExists,
        OnlyCurrentWrites, FreshOrDirty, GiveUp
<1>4. CASE inFlight # i
  <2>1. UNCHANGED <<version, arrived, client, joining, snap>>
    BY <1>4 DEF GiveUp
  <2>2. "always" \in Policy
    BY DEF Policy
  <2> HIDE DEF vars, snap
  <2> QED BY <1>2, <2>1, <2>2, CallersOnly
<1> QED BY <1>3, <1>4

(* The room is swapped for another. *)
LEMMA SwapKeeps == ASSUME SnapInv, NEW r \in Room, Swap(r) PROVE SnapInv'
BY DEF SnapInv, SnapTypeOK, Bound, InFlightIsGood, ArrivedExists, OnlyCurrentWrites,
  FreshOrDirty, Swap

(* What is cached is dropped. *)
LEMMA InvalidateKeeps == ASSUME SnapInv, Invalidate PROVE SnapInv'
<1>1. \A i \in Read : [reads[i] EXCEPT !.current = FALSE] \in ReadType
  <2> TAKE i \in Read
  <2>1. reads[i] \in ReadType
    BY DEF SnapInv, SnapTypeOK
  <2> QED BY <2>1 DEF ReadType
<1>2. reads' \in [Read -> ReadType]
  BY <1>1 DEF Invalidate
<1>3. \A i \in Read : reads'[i].running = reads[i].running /\ reads'[i].client = reads[i].client
  <2> TAKE i \in Read
  <2>1. reads[i] \in ReadType /\ reads'[i] = [reads[i] EXCEPT !.current = FALSE]
    BY DEF SnapInv, SnapTypeOK, Invalidate
  <2> QED BY <2>1 DEF ReadType
<1>4. NoAnswer \in [room : Room \cup {NoRoom}, knows : Nat, current : BOOLEAN, stray : BOOLEAN]
        /\ NoAnswer.current
  BY DEF NoAnswer
<1>5. /\ value' = NoAnswer /\ inFlight' = None /\ dirty' = TRUE /\ gen' = gen + 1
      /\ joining' = FALSE /\ UNCHANGED <<version, arrived, client, callers>>
  BY DEF Invalidate, Overtake
<1>6. SnapTypeOK'
  <2>1. value' \in [room : Room \cup {NoRoom}, knows : Nat, current : BOOLEAN, stray : BOOLEAN]
    BY <1>4, <1>5
  <2>2. gen' \in Nat /\ inFlight' \in Read \cup {None}
    BY <1>5 DEF SnapInv, SnapTypeOK
  <2> QED BY <1>2, <1>5, <2>1, <2>2 DEF SnapInv, SnapTypeOK
<1>7. Bound'
  BY <1>3, <1>5 DEF SnapInv, Bound
<1> QED BY <1>4, <1>5, <1>6, <1>7 DEF SnapInv, InFlightIsGood, ArrivedExists,
  OnlyCurrentWrites, FreshOrDirty

(* A step of any caller, read or room keeps the invariant. *)
LEMMA NextSnap == SnapInv /\ [Next]_vars => SnapInv'
<1> SUFFICES ASSUME SnapInv, [Next]_vars PROVE SnapInv'
  OBVIOUS
<1>1. ASSUME NEW r \in Room, Change(r) PROVE SnapInv'
  BY <1>1, ChangeKeeps
<1>2. ASSUME NEW r \in Room, Swap(r) PROVE SnapInv'
  BY <1>2, SwapKeeps
<1>3. CASE Invalidate
  BY <1>3, InvalidateKeeps
<1>4. ASSUME NEW c \in Caller, Arrive(c) PROVE SnapInv'
  BY <1>4, ArriveKeeps
<1>5. ASSUME NEW c \in Caller, Decline(c) \/ Join(c) \/ Answered(c) PROVE SnapInv'
  BY <1>5, CallerKeeps
<1>6. ASSUME NEW c \in Caller, GiveUp(c) PROVE SnapInv'
  BY <1>6, GiveUpKeeps
<1>7. ASSUME NEW c \in Caller, NEW policy \in Policy, Call(c, policy) PROVE SnapInv'
  BY <1>7, TakeKeeps
<1>8. ASSUME NEW c \in Caller, NEW i \in Read, Begin(c, i) PROVE SnapInv'
  BY <1>8, BeginKeeps
<1>9. ASSUME NEW i \in Read, NEW ok \in BOOLEAN, Land(i, ok) PROVE SnapInv'
  BY <1>9, LandKeeps
<1>10. CASE UNCHANGED vars
  BY <1>10 DEF SnapInv, SnapTypeOK, Bound, InFlightIsGood, ArrivedExists, OnlyCurrentWrites,
    FreshOrDirty
<1> QED BY <1>1, <1>2, <1>3, <1>4, <1>5, <1>6, <1>7, <1>8, <1>9, <1>10 DEF Next

(* Whatever the timing of events, callers, failures, timeouts and joins,    *)
(* the snapshot's state is well formed: the read in flight is running, and  *)
(* of the present generation (snapshot.go).                                 *)
THEOREM SnapshotTypeCorrect == Spec => []SnapTypeOK
<1>1. SnapInv => SnapTypeOK
  BY DEF SnapInv
<1>2. SnapInv /\ [Next]_vars => SnapInv'
  BY NextSnap
<1> QED BY <1>1, <1>2, InitSnap, PTL DEF Spec

(* No answer is ever held that comes from a read overtaken by a room switch *)
(* or a timeout: the first property snapshot.go's comment promises.         *)
THEOREM OvertakenReadsAreMute == Spec => []OnlyCurrentWrites
<1>1. SnapInv => OnlyCurrentWrites
  BY DEF SnapInv
<1>2. SnapInv /\ [Next]_vars => SnapInv'
  BY NextSnap
<1> QED BY <1>1, <1>2, InitSnap, PTL DEF Spec

(* A clean snapshot with no read in flight knows every event that arrived,  *)
(* for any number of callers and reads: clearing the mark on entry loses no *)
(* re-read.                                                                 *)
THEOREM CleanIsFresh == Spec => []FreshOrDirty
<1>1. SnapInv => FreshOrDirty
  BY DEF SnapInv
<1>2. SnapInv /\ [Next]_vars => SnapInv'
  BY NextSnap
<1> QED BY <1>1, <1>2, InitSnap, PTL DEF Spec
=============================================================================
