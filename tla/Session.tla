------------------------------- MODULE Session -------------------------------
(***************************************************************************)
(* The queue of one `landfall serve` process that keeps its own cursor     *)
(* (internal/session/session.go): what the live socket pushed and the      *)
(* agent has not been handed (pending), what the person has not been told  *)
(* (told), how many events the limit threw away (dropped), and the cursor. *)
(* Four actors touch it: the socket's goroutine (EnqueueEvent), the one    *)
(* tool call the MCP loop runs at a time, a hook process that peeks, shows *)
(* and consumes over the query socket, and a join, which swaps the room    *)
(* under the other three.                                                  *)
(*                                                                         *)
(* An event is a room and a seq.  Bounds: Last, the last seq of a room;    *)
(* MaxFaults, how many requests fail, pushes are missed and hooks die.     *)
(***************************************************************************)
EXTENDS Membership, Integers, FiniteSets, FiniteSetsExt

CONSTANTS Last, PendingMax, News, AskFrom, Fault, MaxFaults

ASSUME SessionAssumption ==
  /\ PendingMax \in Nat \ {0}
  /\ Last \in Nat /\ News \subseteq 0..Last /\ AskFrom \subseteq -1..Last

VARIABLES
  posted,    \* room -> the last seq its timeline has, -1 before the first
  wire,      \* room -> the last seq its socket has pushed or lost
  live,      \* the rooms whose socket still calls EnqueueEvent
  cursor, pending, told, dropped,
  call,      \* the tool call under way
  hook,      \* the hook process between its peek and its consume
  handed,    \* events some answer to the agent carried
  shown,     \* events a hook put in front of the person
  excused,   \* events passed on purpose: by a frame, by an explicit sinceSeq,
             \* never pushed, or named by a digest's pointer instead of shown
  mixed,     \* an event or a consume of one room reached the queue of another
  faults

queue == <<cursor, pending, told, dropped>>
ghosts == <<handed, shown, excused, mixed>>
svars == <<posted, wire, live, client, queue, call, hook, ghosts, faults>>

Seqs == 0..Last
Event == [room : Room, seq : Seqs]
Between(r, a, b) == {e \in Event : e.room = r /\ a < e.seq /\ e.seq <= b}
Upper(a, b) == IF a < b THEN b ELSE a

(* prunePendingLocked: what stays queued, and what the overflow count says. *)
\* (Mutant: a prune empties the queue.)
KeepsNone(c) == {}
Kept(c) == {e \in pending : e.seq > c}
DroppedAfter(c) == IF Kept(c) = {} THEN 0 ELSE dropped

NoCall == [op |-> "none", room |-> NoRoom, since |-> -1, from |-> -1]
NoHook == [step |-> "none", room |-> NoRoom, shown |-> {}, upTo |-> -1]

InitSession ==
  /\ posted = [r \in Room |-> -1] /\ wire = [r \in Room |-> -1]
  /\ live = {} /\ client = NoRoom
  /\ cursor = -1 /\ pending = {} /\ told = {} /\ dropped = 0
  /\ call = NoCall /\ hook = NoHook
  /\ handed = {} /\ shown = {} /\ excused = {} /\ mixed = FALSE /\ faults = 0

Fail(kind) == kind \in Fault /\ faults < MaxFaults /\ faults' = faults + 1

-----------------------------------------------------------------------------
(* The room's server appends to its timeline. *)
Post(r) ==
  /\ posted[r] < Last
  /\ posted' = [posted EXCEPT ![r] = @ + 1]
  /\ UNCHANGED <<wire, live, client, queue, call, hook, ghosts, faults>>

(* EnqueueEvent: an event at or below the cursor, or with the seq of one   *)
(* already queued, is not parked; over the limit the oldest goes.          *)
Fresh(e) == e.seq > cursor /\ \A q \in pending : q.seq # e.seq
Oldest(es) == CHOOSE e \in es : \A f \in es : e.seq <= f.seq
\* (Mutant: the limit is enforced one event late.)
CappedOneLate(es) == IF Cardinality(es) > PendingMax + 1 THEN es \ {Oldest(es)} ELSE es
Capped(es) == IF Cardinality(es) > PendingMax THEN es \ {Oldest(es)} ELSE es

Enqueue(e) ==
  /\ pending' = IF Fresh(e) THEN Capped(pending \cup {e}) ELSE pending
  /\ dropped' = IF Fresh(e) /\ Cardinality(pending) = PendingMax
                THEN dropped + 1 ELSE dropped
  /\ told' = IF Fresh(e) /\ \A t \in told : t.seq # e.seq
             THEN Capped(told \cup {e}) ELSE told
  /\ mixed' = (mixed \/ (Fresh(e) /\ e.room # client))
  /\ UNCHANGED cursor

(* The watch of a room calls back for the next event on its socket. *)
Deliver(r) ==
  /\ r \in live /\ wire[r] < posted[r]
  /\ wire' = [wire EXCEPT ![r] = @ + 1]
  /\ Enqueue([room |-> r, seq |-> wire[r] + 1])
  /\ UNCHANGED <<posted, live, client, call, hook, handed, shown, excused, faults>>

(* The socket was down: nothing is pushed again after a reconnect. *)
Missed(r) ==
  /\ r \in live /\ wire[r] < posted[r] /\ Fail("outage")
  /\ wire' = [wire EXCEPT ![r] = @ + 1]
  /\ excused' = excused \cup Between(r, wire[r], wire[r] + 1)
  /\ UNCHANGED <<posted, live, client, queue, call, hook, handed, shown, mixed>>

-----------------------------------------------------------------------------
(* The tool calls; mcp.Serve answers one at a time.                        *)
Idle == call = NoCall
Doing(op) == call.op = op
Ends == call' = NoCall
Wraps == call' = [NoCall EXCEPT !.op = "wrap"]

(* A pull asks from the cursor, or from an explicit sinceSeq; a brief and  *)
(* the whole timeline are asked for as they stand.                         *)
Ask(op, since) ==
  /\ Idle /\ client # NoRoom
  /\ \/ op \in {"brief", "timeline"} /\ since = -1
     \/ op = "updates" /\ since \in AskFrom \cup {cursor}
  /\ call' = [op |-> op, room |-> client, since |-> since, from |-> posted[client]]
  /\ UNCHANGED <<posted, wire, live, client, queue, hook, ghosts, faults>>

(* The answer is the room's as of some moment of the request. *)
AsOf == call.from..posted[client]

(* getUpdates: the delta is the result, AdvanceCursorTo moves the cursor   *)
(* and prunes nothing.                                                     *)
UpdatesLand ==
  /\ Doing("updates")
  /\ \E to \in AsOf :
       /\ handed' = handed \cup Between(client, call.since, to)
       /\ cursor' = Upper(cursor, to)
       /\ excused' = excused \cup Between(client, cursor, call.since)
  /\ Wraps
  /\ UNCHANGED <<posted, wire, live, client, pending, told, dropped, hook,
                 shown, mixed, faults>>

(* getBrief, and the frame join_war_room reads: the frame carries the      *)
(* brief, not the events, and its as-of seq moves the cursor all the same. *)
FrameLands ==
  /\ call.op \in {"brief", "joinframe"}
  /\ \E to \in AsOf :
       /\ cursor' = Upper(cursor, to)
       /\ excused' = excused \cup Between(client, cursor, to)
  /\ IF Doing("brief") THEN Wraps ELSE Ends
  /\ UNCHANGED <<posted, wire, live, client, pending, told, dropped, hook,
                 handed, shown, mixed, faults>>

(* read_timeline is raw: AdvanceCursor over every event of the room, and   *)
(* no flush after it.                                                      *)
TimelineLands ==
  /\ Doing("timeline")
  /\ \E to \in AsOf :
       /\ handed' = handed \cup Between(client, -1, to)
       /\ cursor' = Upper(cursor, to)
       /\ pending' = Kept(cursor')
  /\ Ends
  /\ UNCHANGED <<posted, wire, live, client, told, dropped, hook, shown,
                 excused, mixed, faults>>

(* narrated, step 5: every other tool comes straight here. *)
CallOther ==
  /\ Idle /\ client # NoRoom /\ (pending # {} \/ dropped > 0)
  /\ Wraps
  /\ UNCHANGED <<posted, wire, live, client, queue, hook, ghosts, faults>>

Owed == pending # {} \/ dropped > 0

FlushAsks ==
  /\ Doing("wrap")
  /\ call' = IF Owed THEN [op |-> "flush", room |-> client, since |-> cursor,
                           from |-> posted[client]]
                     ELSE NoCall
  /\ UNCHANGED <<posted, wire, live, client, queue, hook, ghosts, faults>>

FlushLands ==
  /\ Doing("flush")
  /\ \E to \in AsOf :
       /\ handed' = handed \cup Between(client, call.since, to)
       /\ cursor' = Upper(cursor, to)
       /\ pending' = Kept(cursor')
       /\ dropped' = DroppedAfter(cursor')
  /\ Ends
  /\ UNCHANGED <<posted, wire, live, client, told, hook, shown, excused, mixed, faults>>

(* A read that fails ends the call and leaves the queue as it is. *)
ReadFails ==
  /\ call.op \in {"updates", "brief", "timeline", "flush", "joinframe"}
  /\ Fail("http") /\ Ends
  /\ UNCHANGED <<posted, wire, live, client, queue, hook, ghosts>>

-----------------------------------------------------------------------------
(* join_war_room: redeem and Join have gone well; the swap of the client,  *)
(* the old room's Leave, and only then OnJoined, which stops the old watch *)
(* and starts the new.                                                     *)
JoinWarRoom(r) ==
  /\ Idle /\ r # client
  /\ call' = [NoCall EXCEPT !.op = "join", !.room = r]
  /\ UNCHANGED <<posted, wire, live, client, queue, hook, ghosts, faults>>

SwapRoom ==
  /\ Doing("join")
  /\ client' = call.room /\ cursor' = -1 /\ pending' = {} /\ told' = {} /\ dropped' = 0
  /\ mixed' = (mixed /\ hook # NoHook)
  /\ call' = [call EXCEPT !.op = "leaving"]
  /\ UNCHANGED <<posted, wire, live, hook, handed, shown, excused, faults>>

(* The new socket hears what is posted from now on. *)
OnJoined ==
  /\ Doing("leaving")
  /\ live' = {client}
  /\ wire' = [wire EXCEPT ![client] = posted[client]]
  /\ excused' = excused \cup Between(client, -1, posted[client])
  /\ call' = [op |-> "joinframe", room |-> client, since |-> -1, from |-> posted[client]]
  /\ UNCHANGED <<posted, client, queue, hook, handed, shown, mixed, faults>>

-----------------------------------------------------------------------------
(* The events thrown away: the digest counts them and names the sinceSeq   *)
(* to fetch them from.                                                     *)
PointedAt == {e \in Between(client, cursor, wire[client]) :
                dropped > 0 /\ \A p \in pending : e.seq < p.seq}

(* maxSeq spans every queued event, the ones not worth telling included.    *)
QueueTop == IF pending = {} THEN cursor ELSE Max({e.seq : e \in pending})

(* A hook that delivers (the stop hook asked to block, user-prompt-submit):*)
(* peek, emit, and only then consume up to the queue's last seq.           *)
HookPeeks ==
  /\ hook = NoHook /\ client # NoRoom
  /\ (\E e \in pending : e.seq \in News) \/ dropped > 0
  /\ hook' = [step |-> "peeked", room |-> client,
              shown |-> {e \in pending : e.seq \in News},
              upTo |-> QueueTop]
  /\ excused' = excused \cup PointedAt
  /\ UNCHANGED <<posted, wire, live, client, queue, call, handed, shown, mixed, faults>>

HookEmits ==
  /\ hook.step = "peeked"
  /\ hook' = [hook EXCEPT !.step = "emitted"]
  /\ shown' = shown \cup hook.shown
  /\ handed' = handed \cup hook.shown
  /\ UNCHANGED <<posted, wire, live, client, queue, call, excused, mixed, faults>>

(* ConsumeUpTo, whatever room the session is in by now. *)
HookConsumes ==
  /\ hook.step = "emitted"
  /\ cursor' = Upper(cursor, hook.upTo)
  /\ pending' = Kept(cursor')
  /\ dropped' = DroppedAfter(cursor')
  /\ told' = {e \in told : e.seq > hook.upTo}
  /\ mixed' = (mixed \/ hook.room # client)
  /\ hook' = NoHook
  /\ UNCHANGED <<posted, wire, live, client, call, handed, shown, excused, faults>>

HookDies ==
  /\ hook # NoHook /\ Fail("hook")
  /\ hook' = NoHook
  /\ UNCHANGED <<posted, wire, live, client, queue, call, ghosts>>

NextSession ==
  \/ \E r \in Room : Post(r) \/ Deliver(r) \/ Missed(r) \/ JoinWarRoom(r)
  \/ \E op \in {"updates", "brief", "timeline"}, since \in -1..Last : Ask(op, since)
  \/ UpdatesLand \/ FrameLands \/ TimelineLands \/ CallOther
  \/ FlushAsks \/ FlushLands \/ ReadFails
  \/ SwapRoom \/ OnJoined
  \/ HookPeeks \/ HookEmits \/ HookConsumes \/ HookDies

SpecSession == InitSession /\ [][NextSession]_svars

-----------------------------------------------------------------------------
(* Every value is of its kind; the queues keep to their limit, and no two  *)
(* of their events share a seq.                                            *)
OnePerSeq(es) == \A e, f \in es : e.seq = f.seq => e = f
QueueTypeOK ==
  /\ client \in Room \cup {NoRoom} /\ cursor \in -1..Last
  /\ pending \subseteq Event /\ Cardinality(pending) <= PendingMax /\ OnePerSeq(pending)
  /\ told \subseteq Event /\ Cardinality(told) <= PendingMax /\ OnePerSeq(told)
  /\ dropped \in Nat /\ live \subseteq Room
  /\ \A r \in Room : -1 <= wire[r] /\ wire[r] <= posted[r]

(* News the cursor has passed was handed to the agent, or passed on        *)
(* purpose: pulls, flushes, hooks and pushes may interleave at will, and   *)
(* none makes a pushed event vanish.  Once another room's event or consume *)
(* is in the queue nothing of the kind holds (OneRoomAtATime).             *)
PassedWasHanded ==
  ~mixed => \A e \in Between(client, -1, cursor) :
              e.seq \in News => e \in handed \cup excused

(* While something pushed is past the cursor and not handed, the queue or  *)
(* its overflow count still says so: the next tool call will flush.  The   *)
(* flush trusts nothing else ("the LOCAL queue is used only as the         *)
(* TRIGGER").                                                              *)
OwedHasTrigger ==
  ~mixed /\ client \in live =>
    \A e \in Between(client, cursor, wire[client]) :
      e \in handed \cup excused \/ Owed

PassedIsOwedOrHanded == PassedWasHanded /\ OwedHasTrigger

(* What the fields' comments and the tests promise of the queue and of the *)
(* person's count; see the findings for what the code does instead.        *)
OneRoomAtATime == \A e \in pending \cup told : e.room = client
ToldUntilShown ==
  [][\A e \in told \ told' :
       e \in shown \/ client' # client \/ Cardinality(told) = PendingMax]_svars
=============================================================================
