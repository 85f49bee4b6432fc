------------------------------- MODULE Glance -------------------------------
(***************************************************************************)
(* What the daemon holds of one room beside its events: the ranked frame,  *)
(* the attention of a seat, and the person's three reads (votes, claims,   *)
(* lines); the socket whose events mark them stale; the background reads;  *)
(* and the watch that draws them.                                          *)
(*                                                                         *)
(* A view's content is the number of its changes at the server.  A peek    *)
(* waits for the seat's attention, then takes what is cached of the frame  *)
(* and of the person's reads, then of the votes.                           *)
(***************************************************************************)
EXTENDS Integers, Sequences, FiniteSets, Functions

CONSTANTS
  Kind,        \* the changes that happen: those of Touches, and "staged"
  FrameReader, \* who reads the frame: the background "refresh", and tools or attaches
  Peeker,      \* who peeks: the "watch", and hooks
  MaxEvents    \* changes, TTLs that pass and faults, together

ASSUME GlanceAssumption ==
  /\ "refresh" \in FrameReader /\ "watch" \in Peeker
  /\ MaxEvents \in Nat

Person == {"votes", "claims", "lines"}
View == Person \cup {"frame", "seat"}

VARIABLES
  truth,      \* the server: how often each view has changed
  wire,       \* the socket: "down", "up" (connected, not subscribed), "subscribed"
  Connection, \* what every surface is told of it
  pushed,     \* events on their way over the socket
  enq,        \* enqueue: the event it holds and the step it is at
  held, stale, old, \* what is cached; marked; past its TTL
  gen,        \* frameGen
  frames,     \* reads of the frame under way
  again,      \* the background refresh has one more round
  seats,      \* reads of the seat's attention under way
  person,     \* the person read under way
  scheduled, gap, \* a read waits out personMinGap; it has not passed yet
  watch, token, stream, soon, \* the watch: its step, wakeCh, subscription, re-poll
  drawn,      \* the views it has drawn as they are cached
  events,
  heard,      \* history: how new each view was when the last event that changes it came
  best,       \* history: the newest frame that landed
  failed      \* history: person reads whose last answer was an error

glanceVars == <<truth, wire, Connection, pushed, enq, held, stale, old, gen, frames, again,
                seats, person, scheduled, gap, watch, token, stream, soon, drawn,
                events, heard, best, failed>>

server == <<truth, wire, Connection, pushed>>
caches == <<held, stale, old, best, failed>>
reads == <<gen, frames, again, seats, person, scheduled, gap>>
watcher == <<watch, token, stream, soon, drawn>>

None == -1
NoRead == [at |-> "none", gen |-> 0, got |-> None]
Unread == [at |-> "none", want |-> {}, got |-> [v \in Person |-> None]]

(* narrate.TouchesAttention, touchesFrame, and line.*: what a pushed event *)
(* marks.  A teammate's staged claim is never pushed: it has no event.     *)
Touches ==
  [claim |-> {"seat", "votes", "claims", "frame"}, line |-> {"lines"}, status |-> {"frame"}]
Staged == {"votes", "claims"}

Init ==
  /\ truth = [v \in View |-> 0] /\ wire = "down" /\ Connection = "live"
  /\ pushed = <<>> /\ enq = <<"idle", "line">>
  /\ held = [v \in View |-> IF v \in Person THEN None ELSE 0]
  /\ stale = {"seat"} /\ old = {} /\ gen = 0
  /\ frames = [r \in FrameReader |-> NoRead] /\ again = FALSE
  /\ seats = [p \in Peeker |-> NoRead]
  /\ person = Unread /\ scheduled = FALSE /\ gap = FALSE
  /\ watch = "asleep" /\ token = TRUE /\ stream = "none" /\ soon = FALSE
  /\ drawn = {}
  /\ events = 0
  /\ heard = truth /\ best = 0 /\ failed = {}

-----------------------------------------------------------------------------
Counted == events < MaxEvents /\ events' = events + 1

(* The room changes; the socket drops and comes back.                      *)
Bump(views) == truth' = [v \in View |-> truth[v] + (IF v \in views THEN 1 ELSE 0)]

Post(kind) ==
  /\ kind \in DOMAIN Touches /\ Counted
  /\ Bump(Touches[kind])
  /\ pushed' = IF wire = "subscribed" THEN Append(pushed, kind) ELSE pushed
  /\ UNCHANGED <<wire, Connection, enq, caches, reads, watcher, heard>>

StageUnseen ==
  /\ "staged" \in Kind /\ Counted /\ Bump(Staged)
  /\ UNCHANGED <<wire, Connection, pushed, enq, caches, reads, watcher, heard>>

(* handleConnect subscribes on every connect; that it could not is logged. *)
handleConnect ==
  /\ wire = "down"
  /\ \/ wire' = "subscribed" /\ UNCHANGED events
     \/ wire' = "up" /\ Counted
  /\ UNCHANGED <<truth, Connection, pushed, enq, caches, reads, watcher, heard>>

Drops ==
  /\ wire # "down" /\ Counted
  /\ wire' = "down" /\ pushed' = <<>>
  /\ UNCHANGED <<truth, Connection, enq, caches, reads, watcher, heard>>

-----------------------------------------------------------------------------
(* The person's reads: Due are the ones to make, given the marks.          *)
Have(v) == held[v] # None \/ v \in failed
Due(marked) == {v \in Person : ~Have(v)} \cup (Person \cap (marked \cup old))

(* Cleared when a read starts, not when it lands. *)
MarksLeft(marked, starts) == IF starts THEN marked \ Due(marked) ELSE marked

(* startPersonReadLocked: one read at a time, paced by personMinGap but    *)
(* for the watched poll.                                                   *)
startPersonRead(marked, poll) ==
  LET due == person.at = "none" /\ ~scheduled /\ Due(marked) # {}
      starts == due /\ (poll \/ ~gap)
  IN
  /\ stale' = MarksLeft(marked, starts)
  /\ scheduled' = (scheduled \/ (due /\ ~starts))
  /\ gap' = (gap \/ (starts /\ ~poll))
  /\ person' = IF starts THEN [Unread EXCEPT !.at = "asked", !.want = Due(marked)] ELSE person

(* The requests of one read are answered; votes that name a claim not held *)
(* ask for the claims as well.                                             *)
PersonAnswers ==
  /\ person.at = "asked"
  /\ LET more == IF "votes" \in person.want /\ held["claims"] < truth["claims"]
                 THEN {"claims"} ELSE {}
         want == person.want \cup more
     IN person' = [at |-> "answered", want |-> want,
                   got |-> [v \in Person |-> IF v \in want THEN truth[v] ELSE None]]
  /\ UNCHANGED <<server, enq, caches, gen, frames, again, seats, scheduled, gap, watcher,
                 events, heard>>

(* (Mutant: what was marked while the read was under way waits for a peek.) *)
NothingMore(due) == {}

(* What is read at once when a read lands, of what is due. *)
ReadOn(due) == IF stale \cap Person = {} THEN {} ELSE due

(* personSig differs. *)
Differs(landed) == \E v \in landed : held[v] # person.got[v]

(* The read lands: a view whose request failed keeps what it had and waits *)
(* out the TTL.  A changed answer wakes every watch.                       *)
PersonLands(bad) ==
  /\ person.at = "answered" /\ bad \subseteq person.want
  /\ IF bad = {} THEN UNCHANGED events ELSE Counted
  /\ LET landed == person.want \ bad
         due == ReadOn(Due(stale) \ (person.want \ stale))
     IN
     /\ held' = [v \in View |-> IF v \in landed THEN person.got[v] ELSE held[v]]
     /\ drawn' = drawn \ {v \in landed : held[v] # person.got[v]}
     /\ failed' = (failed \ landed) \cup bad
     /\ old' = old \ person.want
     /\ token' = (token \/ (stream # "none" /\ Differs(landed)))
     /\ stale' = IF gap THEN stale ELSE stale \ due
     /\ scheduled' = (due # {} /\ gap) /\ gap' = (gap \/ due # {})
     /\ person' = IF due = {} \/ gap THEN Unread
                  ELSE [Unread EXCEPT !.at = "asked", !.want = due]
  /\ UNCHANGED <<server, enq, best, gen, frames, again, seats, watch, stream, soon, heard>>

(* personMinGap passes; the read that waited for it starts. *)
GapEnds ==
  /\ gap
  /\ IF scheduled
     THEN /\ scheduled' = FALSE /\ stale' = stale \ Due(stale) /\ gap' = (Due(stale) # {})
          /\ person' = IF Due(stale) = {} THEN Unread
                       ELSE [Unread EXCEPT !.at = "asked", !.want = Due(stale)]
     ELSE gap' = FALSE /\ UNCHANGED <<scheduled, person, stale>>
  /\ UNCHANGED <<server, enq, held, old, best, failed, gen, frames, again, seats, watcher,
                 events, heard>>

(* While a watch is attached the votes are read every PersonWatchedPoll. *)
pollPerson ==
  /\ stream # "none"
  /\ startPersonRead(stale \cup {"votes"}, TRUE)
  /\ UNCHANGED <<server, enq, held, old, best, failed, gen, frames, again, seats, watcher,
                 events, heard>>

-----------------------------------------------------------------------------
(* The frame: cached for FrameTTL; a read that began before the newest     *)
(* mark does not clear it.                                                 *)
FrameFresh == "frame" \notin stale \cup old

(* refreshFrameAsync *)
refreshFrame(fresh) ==
  IF fresh \/ frames["refresh"].at # "none" THEN UNCHANGED <<frames, again>>
  ELSE frames' = [frames EXCEPT !["refresh"].at = "begun"] /\ again' = TRUE

(* Frame, of the background refresh or of an attach or tool. *)
AskFrame(r) ==
  /\ frames[r].at = (IF r = "refresh" THEN "begun" ELSE "none")
  /\ r # "refresh" => ~FrameFresh
  /\ frames' = [frames EXCEPT ![r] = IF FrameFresh THEN NoRead
                                     ELSE [NoRead EXCEPT !.at = "asked", !.gen = gen]]
  /\ UNCHANGED <<server, enq, caches, gen, again, seats, person, scheduled, gap, watcher,
                 events, heard>>

FrameAnswers(r) ==
  /\ frames[r].at = "asked"
  /\ frames' = [frames EXCEPT ![r].at = "answered", ![r].got = truth["frame"]]
  /\ UNCHANGED <<server, enq, caches, gen, again, seats, person, scheduled, gap, watcher,
                 events, heard>>

(* The mark a landed read clears. *)
Clears(r) == IF frames[r].gen = gen THEN {"frame"} ELSE {}

FrameLands(r) ==
  /\ frames[r].at = "answered"
  /\ held' = [held EXCEPT !["frame"] = frames[r].got]
  /\ drawn' = IF held' = held THEN drawn ELSE drawn \ {"frame"}
  /\ best' = IF frames[r].got > best THEN frames[r].got ELSE best
  /\ old' = old \ {"frame"} /\ stale' = stale \ Clears(r)
  /\ IF r = "refresh" /\ again /\ "frame" \in stale'
     THEN frames' = [frames EXCEPT ![r] = [NoRead EXCEPT !.at = "begun"]] /\ again' = FALSE
     ELSE frames' = [frames EXCEPT ![r] = NoRead] /\ UNCHANGED again
  /\ UNCHANGED <<server, enq, failed, gen, seats, person, scheduled, gap, watch, token,
                 stream, soon, events, heard>>

FrameFails(r) ==
  /\ frames[r].at # "none" /\ Counted
  /\ frames' = [frames EXCEPT ![r] = NoRead]
  /\ UNCHANGED <<server, enq, caches, gen, again, seats, person, scheduled, gap, watcher,
                 heard>>

-----------------------------------------------------------------------------
(* enqueue: the seat and the person's view are marked, and the person read *)
(* started, before anyone is woken; the frame is marked after.             *)
Receive ==
  /\ pushed # <<>> /\ enq[1] = "idle" /\ pushed' = Tail(pushed)
  /\ LET kind == Head(pushed) IN
     /\ enq' = <<"wake", kind>>
     /\ heard' = [v \in View |-> IF v \in Touches[kind] THEN heard[v] + 1 ELSE heard[v]]
     /\ startPersonRead(stale \cup (Touches[kind] \ {"frame"}), FALSE)
  /\ Connection' = "live"
  /\ UNCHANGED <<truth, wire, held, old, best, failed, gen, frames, again, seats,
                 watcher, events>>

Wakes ==
  /\ enq[1] = "wake"
  /\ enq' = <<IF "frame" \in Touches[enq[2]] THEN "mark" ELSE "idle", enq[2]>>
  /\ token' = (token \/ stream # "none")
  /\ UNCHANGED <<server, caches, reads, watch, stream, soon, drawn, events, heard>>

MarkFrame ==
  /\ enq[1] = "mark" /\ enq' = <<"idle", enq[2]>>
  /\ stale' = stale \cup {"frame"} /\ gen' = gen + 1
  /\ refreshFrame(FALSE)
  /\ UNCHANGED <<server, held, old, best, failed, seats, person, scheduled, gap, watcher,
                 events, heard>>

-----------------------------------------------------------------------------
(* A peek: AttentionFor, then StatusView and VotesView.  The watch takes   *)
(* its wake before it peeks.                                               *)
PeekStarts(p) ==
  /\ seats[p].at = "none"
  /\ IF p = "watch"
     THEN /\ watch = "asleep" /\ watch' = "peeks" /\ token' = FALSE /\ soon' = FALSE
          /\ stream' = (IF stream = "none" THEN "none" ELSE "held") /\ UNCHANGED drawn
     ELSE UNCHANGED watcher
  /\ seats' = [seats EXCEPT ![p].at = IF "seat" \in stale THEN "asked" ELSE "done"]
  /\ UNCHANGED <<server, enq, caches, gen, frames, again, person, scheduled, gap, events, heard>>

SeatAnswers(p) ==
  /\ seats[p].at = "asked"
  /\ seats' = [seats EXCEPT ![p].at = "answered", ![p].got = truth["seat"]]
  /\ UNCHANGED <<server, enq, caches, gen, frames, again, person, scheduled, gap, watcher,
                 events, heard>>

SeatLands(p) ==
  /\ seats[p].at = "answered"
  /\ seats' = [seats EXCEPT ![p] = [NoRead EXCEPT !.at = "done"]]
  /\ held' = [held EXCEPT !["seat"] = seats[p].got] /\ stale' = stale \ {"seat"}
  /\ UNCHANGED <<server, enq, old, best, failed, gen, frames, again, person, scheduled, gap,
                 watcher, events, heard>>

SeatTimesOut(p) ==
  /\ seats[p].at \in {"asked", "answered"} /\ Counted
  /\ seats' = [seats EXCEPT ![p] = [NoRead EXCEPT !.at = "done"]]
  /\ UNCHANGED <<server, enq, caches, gen, frames, again, person, scheduled, gap, watcher,
                 heard>>

(* What is due of the frame and of the person's view is read behind the    *)
(* answer, which is what is cached; soon asks again while the frame is.    *)
StatusView(p) ==
  /\ seats[p].at = "done"
  /\ seats' = [seats EXCEPT ![p] = NoRead]
  /\ refreshFrame(FrameFresh)
  /\ startPersonRead(stale, FALSE)
  /\ IF p = "watch"
     THEN /\ watch' = "asleep" /\ drawn' = View
          /\ soon' = (frames'["refresh"].at # "none") /\ UNCHANGED <<token, stream>>
     ELSE UNCHANGED watcher
  /\ UNCHANGED <<server, enq, held, old, best, failed, gen, events, heard>>

(* The subscription is opened after the first snapshot. *)
Subscribe ==
  /\ stream = "none" /\ drawn # {} /\ stream' = "new"
  /\ UNCHANGED <<server, enq, caches, reads, watch, token, soon, drawn, events, heard>>

StreamEnds ==
  /\ stream # "none" /\ Counted /\ stream' = "none"
  /\ UNCHANGED <<server, enq, caches, reads, watch, token, soon, drawn, heard>>

(* FrameTTL and PersonTTL; a seat's attention has none. *)
Ages(v) ==
  /\ v # "seat" /\ v \notin old /\ (held[v] # None \/ v \in failed)
  /\ Counted /\ old' = old \cup {v}
  /\ UNCHANGED <<server, enq, held, stale, best, failed, reads, watcher, heard>>
Next ==
  \/ \E kind \in Kind : Post(kind)
  \/ StageUnseen \/ handleConnect \/ Drops
  \/ PersonAnswers \/ \E bad \in SUBSET Person : PersonLands(bad)
  \/ GapEnds \/ pollPerson
  \/ \E r \in FrameReader : AskFrame(r) \/ FrameAnswers(r) \/ FrameLands(r) \/ FrameFails(r)
  \/ Receive \/ Wakes \/ MarkFrame
  \/ \E p \in Peeker :
       PeekStarts(p) \/ SeatAnswers(p) \/ SeatLands(p) \/ SeatTimesOut(p) \/ StatusView(p)
  \/ Subscribe \/ StreamEnds
  \/ \E v \in View : Ages(v)

SpecGlance == Init /\ [][Next]_glanceVars

-----------------------------------------------------------------------------
GlanceTypeOK ==
  /\ truth \in [View -> 0..MaxEvents] /\ wire \in {"down", "up", "subscribed"}
  /\ Connection \in {"live", "disconnected"}
  /\ pushed \in Seq(DOMAIN Touches) /\ enq[1] \in {"idle", "wake", "mark"}
  /\ held \in [View -> None..MaxEvents] /\ stale \subseteq View /\ old \subseteq View
  /\ person.want \subseteq Person /\ person.at \in {"none", "asked", "answered"}
  /\ \A r \in FrameReader : frames[r].at \in {"none", "begun", "asked", "answered"}
  /\ \A p \in Peeker : seats[p].at \in {"none", "asked", "answered", "done"}
  /\ watch \in {"asleep", "peeks"} /\ drawn \subseteq View

(* Room: a mark on the person's view is never left to the next peek: a     *)
(* read of it is under way, or waits out the pause between two reads; and  *)
(* what is not marked and not being read is as new as the last event that  *)
(* changed it, unless its last read failed.                                *)
PersonIsFresh ==
  \A v \in Person :
    /\ v \in stale => person.at # "none" \/ scheduled
    /\ \/ v \in stale \cup person.want \cup failed
       \/ held[v] = None /\ heard[v] = 0
       \/ held[v] >= heard[v]

(* Room.Frame: a read that started before the latest change cannot clear   *)
(* its mark: while the frame is not marked, some answer has landed that is *)
(* as new as every event that changed it.                                  *)
FrameMarkHolds ==
  "frame" \notin stale /\ enq[1] = "idle" => best >= heard["frame"]

(* watch: with its subscription held since its last peek, a watch that     *)
(* sleeps with no wake pending has drawn the person's view as it is.       *)
WatchIsWoken ==
  stream = "held" /\ watch = "asleep" /\ ~token =>
    Person \subseteq drawn

(* What is drawn of the room is as new as the events that came for it.     *)
GlanceIsFresh == PersonIsFresh /\ FrameMarkHolds /\ WatchIsWoken

(* The same of the seat's attention and of the frame; both fail.  A seat's *)
(* read clears the mark of an event that came while it was under way       *)
(* (room.go:740), and an older frame may land on a newer one (room.go:1044). *)
SeatIsFresh == "seat" \notin stale => held["seat"] >= heard["seat"]
FrameIsFresh ==
  "frame" \notin stale /\ enq[1] = "idle" => held["frame"] >= heard["frame"]

(* room.go:28 calls Connection the room's realtime state.                  *)
LiveMeansUp == Connection = "live" => wire = "subscribed"

(* watch.go:36-38 and 74-77: the new status is drawn by the wake or by the *)
(* re-poll, not a tick later.                                              *)
WatchIsWokenForFrame ==
  stream = "held" /\ watch = "asleep" /\ ~token /\ ~soon => "frame" \in drawn
=============================================================================
