----------------------------- MODULE RoomReaders -----------------------------
(***************************************************************************)
(* What the room daemon tells each reader of one room (internal/daemon):   *)
(* the ring of events the socket pushes, the cursor of every reader, the   *)
(* file the cursors survive a restart in, the hook processes that show the *)
(* person what they have not been told (internal/hooks), and the pulls of  *)
(* the agents.                                                             *)
(*                                                                         *)
(* An event is its seq.  0 is "no event yet" (-1 in the code).  A person   *)
(* is a terminal reader, one per workspace and harness; an agent is the    *)
(* reader of one front end.                                                *)
(***************************************************************************)
EXTENDS Integers, FiniteSets, FiniteSetsExt

CONSTANTS
  Agent,      \* the readers of front ends
  Person,     \* the terminal readers
  PersonOf,   \* the terminal reader of the agents that name their workspace
  Hook,       \* slots for hook processes
  HookOf,     \* the person each speaks for
  Pull,       \* slots for the agents' pulls
  PullOf,     \* the agent each belongs to
  AskFrom,    \* the explicit sinceSeq an agent may ask from
  News,       \* the events that are news to an investigator
  RingMax,    \* how many events the ring holds
  Last,       \* the last event ever posted (a bound of the model)
  Faults,     \* the kinds of misfortune an execution may meet
  MaxFaults   \* how many of them it meets (a bound of the model)

FaultKind ==
  {"outage",    \* the socket drops and what was under way on it is gone
   "crash",     \* the daemon dies
   "stop",      \* the daemon is asked to stop, or to hand over
   "rejoin",    \* a restarted daemon cannot rejoin the room
   "frame",     \* a frame read is overtaken by a later one, and lands after it
   "unfilled",  \* its backfill fails
   "unsaved",   \* the state file is not written
   "silence",   \* a detached reader is silent for an hour
   "hook",      \* a hook process dies, or the daemon does not hear its consume
   "late"}      \* an agent has given up on the pull that is answered now

Event == 1..Last
Reader == Agent \cup Person

ASSUME ReadersAssumption ==
  /\ Last \in Nat
  /\ RingMax \in Nat \ {0}
  /\ Agent \cap Person = {}
  /\ DOMAIN PersonOf \subseteq Agent
  /\ \A a \in DOMAIN PersonOf : PersonOf[a] \in Person
  /\ HookOf \in [Hook -> Person]
  /\ PullOf \in [Pull -> Agent]
  /\ AskFrom \subseteq 0..Last
  /\ News \subseteq Event
  /\ Faults \subseteq FaultKind
  /\ MaxFaults \in Nat

VARIABLES
  posted,     \* the newest event of the room
  subscribed, \* whether the room's server pushes to this machine
  wire,       \* events pushed and not yet delivered
  phase,      \* "off", "filling" (restored, not yet backfilled) or "on"
  ring,       \* the events the daemon keeps
  frame,      \* the as-of seq of the cached frame
  known,      \* the readers the room has
  cursor,     \* how far each has been told
  connected,  \* the readers attached
  entering,   \* agents whose attach has yet to bring in their person
  file,       \* the readers and cursors saved
  hook,       \* where each hook process is, and what its peek answered
  pull,       \* where each pull is, and the events it is about
  told,       \* history: what was put in front of each reader
  over,       \* history: what a cursor passed for a reason the code allows
  missed,     \* history: events the ring has lost, or never got
  start,      \* history: what the room had when each reader came in
  faults      \* misfortunes so far

net == <<posted, subscribed, wire>>
room == <<phase, ring, frame>>
readers == <<known, cursor, connected, entering, start>>
clients == <<hook, pull, told, over>>
vars == <<net, room, readers, clients, file, missed, faults>>

Idle == [pc |-> "idle", tell |-> {}, saw |-> {}, upTo |-> 0]
NoPull == [pc |-> "idle", since |-> 0, to |-> 0]

Init ==
  /\ posted = 0 /\ subscribed = FALSE /\ wire = {}
  /\ phase = "off" /\ ring = {} /\ frame = 0
  /\ known = {} /\ cursor = [r \in Reader |-> 0] /\ connected = {} /\ entering = {}
  /\ start = [r \in Reader |-> 0]
  /\ file = [known |-> {}, cursor |-> [r \in Reader |-> 0]]
  /\ hook = [h \in Hook |-> Idle]
  /\ pull = [q \in Pull |-> NoPull]
  /\ told = [r \in Reader |-> {}] /\ over = [r \in Reader |-> {}]
  /\ missed = {} /\ faults = 0

Misfortune(k) ==
  /\ k \in Faults /\ faults < MaxFaults
  /\ faults' = faults + 1

-----------------------------------------------------------------------------
(* Bugs this code could have had, for the mutation runs.                     *)

NewestOneMore(s) == {e \in s : Cardinality({d \in s : d > e}) <= RingMax}
Highest == Max({cursor[r] : r \in known})
UntoldButNext(r) == {e \in ring : e > cursor[r] + 1 /\ e \in News}
ToVersionOfRing(q) == Max(ring \cup {pull[q].to})

-----------------------------------------------------------------------------
(* The room's state, as its helpers read it.                                *)

Newest(s) == {e \in s : Cardinality({d \in s : d > e}) < RingMax}
MaxSeq == Max(ring \cup {frame, 0})
Untold(r) == {e \in ring : e > cursor[r] /\ e \in News}
Lowest == Min({cursor[r] : r \in known})

\* The version the delta a pull fetched goes up to.
ToVersion(q) == pull[q].to

\* The events a pull has taken its agent's cursor past without having handed
\* them over yet.
InHand(q) == IF pull[q].pc = "moved" THEN (pull[q].since + 1)..pull[q].to ELSE {}
InHandOf(a) == UNION {InHand(q) : q \in {p \in Pull : PullOf[p] = a}}

\* A save of the readers as they are after the step; best effort.
Save ==
  \/ file' = [known |-> known', cursor |-> cursor'] /\ UNCHANGED faults
  \/ Misfortune("unsaved") /\ UNCHANGED file

Raise(r, upTo) == cursor' = [cursor EXCEPT ![r] = IF upTo > @ THEN upTo ELSE @]

-----------------------------------------------------------------------------
(* The room's server and the socket.                                        *)

\* Someone writes to the room. What is posted while the daemon runs and is not
\* subscribed reaches no ring: nothing resynchronises.
Post ==
  /\ posted < Last
  /\ posted' = posted + 1
  /\ wire' = IF subscribed THEN wire \cup {posted + 1} ELSE wire
  /\ missed' = IF phase = "on" /\ ~subscribed THEN missed \cup {posted + 1} ELSE missed
  /\ UNCHANGED <<subscribed, room, readers, clients, file, faults>>

Subscribe ==
  /\ phase # "off" /\ ~subscribed
  /\ subscribed' = TRUE
  /\ UNCHANGED <<posted, wire, room, readers, clients, file, missed, faults>>

Outage ==
  /\ subscribed /\ Misfortune("outage")
  /\ subscribed' = FALSE /\ wire' = {}
  /\ missed' = IF phase = "on" THEN missed \cup wire ELSE missed
  /\ UNCHANGED <<posted, room, readers, clients, file>>

\* The oldest pushed event enters the ring, and the ring drops what it cannot hold.
Deliver ==
  /\ wire # {}
  /\ LET e == Min(wire) IN
       /\ wire' = wire \ {e}
       /\ ring' = Newest(ring \cup {e})
       /\ missed' = missed \cup ((ring \cup {e}) \ ring')
  /\ UNCHANGED <<posted, subscribed, phase, frame, readers, clients, file, faults>>

\* A frame read comes back. One that was
\* overtaken is older than the room.
FrameLands ==
  /\ phase # "off" /\ posted > 0
  /\ \/ frame' = posted /\ UNCHANGED faults
     \/ frame' \in 1..(posted - 1) /\ Misfortune("frame")
  /\ UNCHANGED <<net, phase, ring, readers, clients, file, missed>>

-----------------------------------------------------------------------------
(* The daemon's life.                                                        *)

\* The first attach of a machine that holds no such room.
Open ==
  /\ phase = "off" /\ known = {}
  /\ phase' = "on"
  /\ missed' = 1..posted
  /\ UNCHANGED <<net, ring, frame, readers, clients, file, faults>>

\* A restarted daemon rejoins the room and takes its readers from the file.
Restore ==
  /\ phase = "off" /\ known # {}
  /\ phase' = "filling"
  /\ UNCHANGED <<net, ring, frame, readers, clients, file, missed, faults>>

RejoinFails ==
  /\ phase = "off" /\ known # {} /\ Misfortune("rejoin")
  /\ known' = {}
  /\ UNCHANGED <<net, room, cursor, connected, entering, start, clients, file, missed>>

\* Before it listens, it asks the room for everything past the lowest cursor.
Backfill ==
  /\ phase = "filling"
  /\ LET fetched == (Lowest + 1)..posted IN
       /\ ring' = Newest(ring \cup fetched)
       /\ missed' = (missed \cup ring \cup fetched) \ ring'
  /\ phase' = "on"
  /\ UNCHANGED <<net, frame, readers, clients, file, faults>>

BackfillFails ==
  /\ phase = "filling" /\ Misfortune("unfilled")
  /\ missed' = (1..posted) \ (ring \cup wire)
  /\ phase' = "on"
  /\ UNCHANGED <<net, ring, frame, readers, clients, file>>

\* The process is gone: what the file says is what the next one starts from. A
\* peek or a pull under way gets no answer; a hook that has its answer goes on.
Down ==
  /\ phase' = "off" /\ ring' = {} /\ frame' = 0
  /\ subscribed' = FALSE /\ wire' = {} /\ UNCHANGED posted
  /\ known' = file'.known /\ cursor' = file'.cursor
  /\ connected' = {} /\ entering' = {} /\ UNCHANGED start
  /\ hook' = [h \in Hook |-> IF hook[h].pc = "peeked" THEN Idle ELSE hook[h]]
  /\ pull' = [q \in Pull |-> NoPull]
  /\ over' = [r \in Reader |-> IF r \in Agent THEN over[r] \cup InHandOf(r) ELSE over[r]]
  /\ UNCHANGED <<told, missed>>

Crash == phase # "off" /\ Misfortune("crash") /\ UNCHANGED file /\ Down

Stop ==
  /\ phase = "on" /\ Misfortune("stop")
  /\ file' = [known |-> known, cursor |-> cursor]
  /\ Down

\* Nobody has read the room for a minute: it is left, and the file emptied.
IdleExit ==
  /\ phase = "on" /\ connected \cap Agent = {}
  /\ \/ file' = [known |-> {}, cursor |-> cursor] /\ UNCHANGED faults
     \/ Misfortune("unsaved") /\ UNCHANGED file
  /\ Down

-----------------------------------------------------------------------------
(* Readers come and go.                                                      *)

\* A reader the room has keeps its cursor; another starts at its newest event.
Enter(r) ==
  /\ known' = known \cup {r}
  /\ connected' = connected \cup {r}
  /\ cursor' = [cursor EXCEPT ![r] = IF r \in known THEN @ ELSE MaxSeq]
  /\ start' = [start EXCEPT ![r] = IF r \in known THEN @ ELSE posted]

AttachAgent(a) ==
  /\ phase = "on" /\ a \notin connected
  /\ Enter(a)
  /\ IF a \in DOMAIN PersonOf
     THEN entering' = entering \cup {a} /\ UNCHANGED <<file, faults>>
     ELSE Save /\ UNCHANGED entering
  /\ UNCHANGED <<net, room, clients, missed>>

\* The second half of the agent's attach: its person becomes a reader too.
AttachPersonOf(a) ==
  /\ a \in entering
  /\ Enter(PersonOf[a])
  /\ entering' = entering \ {a}
  /\ Save
  /\ UNCHANGED <<net, room, clients, missed>>

\* The person joins from the terminal, without an agent.
AttachPerson(p) ==
  /\ phase = "on" /\ p \notin connected
  /\ Enter(p)
  /\ Save
  /\ UNCHANGED <<net, room, entering, clients, missed>>

Detach(a) ==
  /\ a \in connected \ entering
  /\ connected' = connected \ {a}
  /\ UNCHANGED <<known, cursor>>
  /\ Save
  /\ UNCHANGED <<net, room, entering, start, clients, missed>>

Forget(r) ==
  /\ phase = "on" /\ r \in known \ connected /\ Misfortune("silence")
  /\ known' = known \ {r}
  /\ UNCHANGED <<net, room, cursor, connected, entering, start, clients, file, missed>>

-----------------------------------------------------------------------------
(* A hook process: peek, put it in front of the person, consume.             *)

\* The daemon reads the untold set ...
PeekUntold(h) ==
  LET p == HookOf[h] IN
  /\ phase = "on" /\ hook[h].pc = "idle"
  /\ p \in known /\ Untold(p) # {}
  /\ hook' = [hook EXCEPT ![h] = [pc |-> "peeked", tell |-> Untold(p), saw |-> ring, upTo |-> 0]]
  /\ UNCHANGED <<net, room, readers, pull, told, over, file, missed, faults>>

\* ... and, after it has asked the server for the agent's attention, the newest
\* seq of the room, which the hook takes for the end of what it was handed.
PeekMax(h) ==
  /\ hook[h].pc = "peeked"
  /\ hook' = [hook EXCEPT ![h].pc = "ready", ![h].upTo = MaxSeq]
  /\ UNCHANGED <<net, room, readers, pull, told, over, file, missed, faults>>

Emit(h) ==
  /\ hook[h].pc = "ready"
  /\ hook' = [hook EXCEPT ![h].pc = "shown"]
  /\ told' = [told EXCEPT ![HookOf[h]] = @ \cup hook[h].tell]
  /\ UNCHANGED <<net, room, readers, pull, over, file, missed, faults>>

\* What the hook takes to be told although its peek did not read it: it came
\* between the two reads, or the ring never had it.
Overtaken(h) == (1..hook[h].upTo) \ hook[h].saw

Consume(h) ==
  LET p == HookOf[h] IN
  /\ hook[h].pc = "shown" /\ phase = "on" /\ p \in known
  /\ Raise(p, hook[h].upTo)
  /\ over' = [over EXCEPT ![p] = @ \cup {e \in Overtaken(h) : e > cursor[p] /\ e \notin told[p]}]
  /\ hook' = [hook EXCEPT ![h] = Idle]
  /\ UNCHANGED known
  /\ Save
  /\ UNCHANGED <<net, room, connected, entering, start, pull, told, missed>>

\* No daemon listens, or it no longer has the reader: the cursor stays.
ConsumeRefused(h) ==
  /\ hook[h].pc = "shown" /\ (phase # "on" \/ HookOf[h] \notin known)
  /\ hook' = [hook EXCEPT ![h] = Idle]
  /\ UNCHANGED <<net, room, readers, pull, told, over, file, missed, faults>>

HookDies(h) ==
  /\ hook[h].pc # "idle" /\ Misfortune("hook")
  /\ hook' = [hook EXCEPT ![h] = Idle]
  /\ UNCHANGED <<net, room, readers, pull, told, over, file, missed>>

-----------------------------------------------------------------------------
(* An agent's own pull: the server's delta since its cursor.                 *)

Ask(q) ==
  LET a == PullOf[q] IN
  /\ phase = "on" /\ pull[q].pc = "idle" /\ a \in known
  /\ \E since \in {cursor[a]} \cup AskFrom :
       pull' = [pull EXCEPT ![q] = [pc |-> "asked", since |-> since, to |-> since]]
  /\ UNCHANGED <<net, room, readers, hook, told, over, file, missed, faults>>

Fetch(q) ==
  /\ pull[q].pc = "asked"
  /\ pull' = [pull EXCEPT ![q].pc = "fetched", ![q].to = posted]
  /\ UNCHANGED <<net, room, readers, hook, told, over, file, missed, faults>>

FetchFails(q) ==
  /\ pull[q].pc = "asked"
  /\ pull' = [pull EXCEPT ![q] = NoPull]
  /\ UNCHANGED <<net, room, readers, hook, told, over, file, missed, faults>>

\* The cursor moves to the delta's version before anyone has read the answer.
\* An agent that asked from past its cursor has itself skipped what lies between.
Move(q) ==
  LET a == PullOf[q] IN
  /\ pull[q].pc = "fetched"
  /\ pull' = [pull EXCEPT ![q].pc = "moved"]
  /\ IF a \in known
     THEN /\ Raise(a, ToVersion(q))
          /\ over' = [over EXCEPT ![a] = @ \cup ((cursor[a] + 1)..pull[q].since)]
     ELSE UNCHANGED <<cursor, over>>
  /\ UNCHANGED known
  /\ Save
  /\ UNCHANGED <<net, room, connected, entering, start, hook, told, missed>>

Answer(q) ==
  /\ pull[q].pc = "moved"
  /\ told' = [told EXCEPT ![PullOf[q]] = @ \cup InHand(q)]
  /\ pull' = [pull EXCEPT ![q] = NoPull]
  /\ UNCHANGED <<net, room, readers, hook, over, file, missed, faults>>

\* The deadline of the connection, or of the front end, is over.
AnswerLate(q) ==
  /\ pull[q].pc = "moved" /\ Misfortune("late")
  /\ over' = [over EXCEPT ![PullOf[q]] = @ \cup InHand(q)]
  /\ pull' = [pull EXCEPT ![q] = NoPull]
  /\ UNCHANGED <<net, room, readers, hook, told, file, missed>>

-----------------------------------------------------------------------------
HookStep(h) == PeekUntold(h) \/ PeekMax(h) \/ Emit(h) \/ Consume(h) \/ ConsumeRefused(h)
PullStep(q) == Ask(q) \/ Fetch(q) \/ FetchFails(q) \/ Move(q) \/ Answer(q) \/ AnswerLate(q)

Next ==
  \/ Post \/ Subscribe \/ Outage \/ Deliver \/ FrameLands
  \/ Open \/ Restore \/ RejoinFails \/ Backfill \/ BackfillFails
  \/ Crash \/ Stop \/ IdleExit
  \/ \E a \in Agent : AttachAgent(a) \/ AttachPersonOf(a) \/ Detach(a)
  \/ \E p \in Person : AttachPerson(p)
  \/ \E r \in Reader : Forget(r)
  \/ \E h \in Hook : HookStep(h) \/ HookDies(h)
  \/ \E q \in Pull : PullStep(q)

Spec == Init /\ [][Next]_vars

\* The daemon is spawned again by the next front end, finishes its restore and
\* is pushed what it is subscribed to; a hook process runs to its end, and the
\* person's next prompt starts another.
Fairness ==
  /\ WF_vars(Restore) /\ WF_vars(Backfill) /\ WF_vars(Deliver)
  /\ \A h \in Hook : WF_vars(HookStep(h))

FairSpec == Spec /\ Fairness

-----------------------------------------------------------------------------
ReadersTypeOK ==
  /\ posted \in 0..Last /\ subscribed \in BOOLEAN /\ wire \subseteq 1..posted
  /\ phase \in {"off", "filling", "on"}
  /\ ring \subseteq 1..posted /\ Cardinality(ring) <= RingMax
  /\ frame \in 0..posted
  /\ known \subseteq Reader /\ connected \subseteq known /\ entering \subseteq Agent \cap connected
  /\ cursor \in [Reader -> 0..Last] /\ start \in [Reader -> 0..Last]
  /\ file \in [known : SUBSET Reader, cursor : [Reader -> 0..Last]]
  /\ hook \in [Hook -> [pc : {"idle", "peeked", "ready", "shown"},
                        tell : SUBSET News, saw : SUBSET Event, upTo : 0..Last]]
  /\ pull \in [Pull -> [pc : {"idle", "asked", "fetched", "moved"}, since : 0..Last, to : 0..Last]]
  /\ told \in [Reader -> SUBSET Event] /\ over \in [Reader -> SUBSET Event]
  /\ missed \subseteq 1..posted
  /\ faults \in 0..MaxFaults

\* What a reader is owed: the news since it came in (earlier news is the brief's).
Owed(r) == {e \in News : start[r] < e /\ e <= posted}

\* What a reader was shown, what its cursor passed for a reason the code allows,
\* and what an answer under way brings it.
Accounted(r) == told[r] \cup over[r] \cup InHandOf(r)

\* However the daemon stops, dies and is restored, whatever is saved or not and
\* whichever hooks race, every piece of news since the person came in that their
\* cursor has passed was put in front of them, unless the peek of the hook that
\* moved it had not read it; and every other is in the ring or on its way
\* there, unless the ring lost it (room.go RestoreRoom, enqueue, Attach,
\* Advance; ipc.go peek, consume).
ToldOrOwed ==
  \A p \in Person \cap known : \A e \in Owed(p) :
    \/ e \in Accounted(p)
    \/ cursor[p] < e /\ (phase # "on" \/ e \in ring \cup wire \cup missed)

\* Every piece of news since an agent came in was handed to it, is in the
\* answer on its way to it, or is past its cursor and so in its next pull,
\* unless it asked past it or had given up on the answer (room.go Delta).
GivenOrOwed ==
  \A a \in Agent \cap known : \A e \in Owed(a) :
    e \in Accounted(a) \/ cursor[a] < e

\* What is in the ring past the person's cursor is put in front of them in the
\* end, over restarts too, or is lost in a way the code allows.
EventuallyTold ==
  \A p \in Person : \A e \in News :
    (p \in known /\ e \in Owed(p) /\ e \in ring /\ cursor[p] < e)
      ~> (p \notin known \/ e \in told[p] \cup over[p] \cup missed)

\* A terminal reader's "cursor moves ONLY on consume from a hook process in that
\* workspace, i.e. only when something was actually put in front of the person"
\* (daemon/doc.go): what it has passed and the ring had was shown.
PersonIsTold ==
  \A p \in Person \cap known : \A e \in Owed(p) :
    e <= cursor[p] => e \in told[p] \cup missed

\* "The cursor moved to what was delivered" (room.go, Delta): an agent that asks
\* from its own cursor has, or is about to get, all the news its cursor passed.
AgentIsGiven ==
  \A a \in Agent \cap known : \A e \in Owed(a) :
    e <= cursor[a] => e \in told[a] \cup InHandOf(a)
=============================================================================
