------------------------------ MODULE Delivery ------------------------------
(***************************************************************************)
(* How room news reaches an agent that is not calling tools                *)
(* (internal/hooks, with the two ends it talks to in internal/cli and      *)
(* internal/daemon).  A session's queue is either a fallback `serve`'s own *)
(* or a terminal reader of the room daemon; a serve and a front end answer *)
(* on a socket per process, the daemon on one for everybody.  An arriving  *)
(* event rings the workspace's doorbell when the queue was empty; the      *)
(* host's file watcher then starts a hook that peeks and parks the answers *)
(* in the workspace's stage file; the next prompt's hook peeks again, and  *)
(* delivers what the sessions that answered owe and what the stage holds   *)
(* for those that did not; the opt-in Stop hook peeks, refuses and         *)
(* consumes.  Each hook is a process of its own, and there is no lock.     *)
(*                                                                         *)
(* The marker's bytes are not state here: nothing reads them, only that    *)
(* the file was written starts a hook.  Bounds: Last, the events of a      *)
(* queue; MaxFaults, how many answers are late, consumes lost and          *)
(* processes killed.                                                       *)
(***************************************************************************)
EXTENDS Integers, FiniteSets

CONSTANTS
  Serve,     \* fallback serve processes
  Front,     \* front ends: proxies of the daemon
  Daemon,    \* the daemon's key in answers
  Harness,   \* the hosts; each has a terminal reader in the daemon
  Watcher,   \* the hosts that can watch a file
  HarnessOf, \* the host of a serve or of a front end
  Hook, Kind, Last, Fault, MaxFaults

ASSUME KeysAreDistinct ==
  /\ Serve \cap Front = {} /\ Daemon \notin Serve \cup Front
  /\ Harness \cap Serve = {} /\ Watcher \subseteq Harness
ASSUME EachHasAHost == HarnessOf \in [Serve \cup Front -> Harness]
ASSUME BoundsAreNumbers == {Last, MaxFaults} \subseteq Nat

VARIABLES
  life,      \* process -> "new", "up" or "gone"
  arrived,   \* queue -> how many events reached it
  cursor,    \* queue -> how many are behind its cursor
  glance,    \* serve -> what its event handler saw before it enqueues
  chiming,   \* the daemon stored an event and has not rung for it yet
  woken,     \* the marker was written and no hook has been started for it
  stage,     \* the answers in pending-digest.json
  hook,      \* hook process -> its state
  heard,     \* queues whose bell rang since they were last empty
  missed,    \* serves whose event came between a consume and a stale glance
  seen,      \* queue -> event -> how often its agent was given it, up to 2
  parked,    \* the events of serves that a wake put in the stage
  forfeited, \* events that left the stage unsaid, each with the reason
  again,     \* events that may be given twice, for a reason named below
  borrowed,  \* readers whose cursor another host's staged block moved
  faults

bell == <<glance, chiming, woken, heard, missed>>
ghosts == <<parked, forfeited, again, borrowed>>
dvars == <<life, arrived, cursor, bell, stage, hook, seen, ghosts, faults>>

Queue == Serve \cup Harness
Socket == Serve \cup Front
Key == Socket \cup {Daemon}
HostOf(q) == IF q \in Serve THEN HarnessOf[q] ELSE q
Owed(q) == cursor[q] + 1 .. arrived[q]
Larger(a, b) == IF a < b THEN b ELSE a
Fail(kind) == kind \in Fault /\ faults < MaxFaults /\ faults' = faults + 1

Idle == [step |-> "idle", kind |-> "none", host |-> "none", answers |-> {},
         read |-> {}, say |-> {}, left |-> {}]

Init ==
  /\ life \in [Key -> {"new", "up"}]
  /\ \A f \in Front : life[f] = "up" => life[Daemon] = "up"
  /\ arrived = [q \in Queue |-> 0] /\ cursor = [q \in Queue |-> 0]
  /\ glance = [s \in Serve |-> "none"] /\ chiming = FALSE /\ woken = FALSE
  /\ stage = {} /\ hook = [h \in Hook |-> Idle]
  /\ heard = {} /\ missed = {} /\ seen = [q \in Queue |-> [e \in 1..Last |-> 0]]
  /\ parked = {} /\ forfeited = {} /\ again = {} /\ borrowed = {} /\ faults = 0

-----------------------------------------------------------------------------
(* Processes start and end.                                                *)
Start(p) ==
  /\ life[p] = "new" /\ p # Daemon /\ (p \in Front => life[Daemon] = "up")
  /\ life' = [life EXCEPT ![p] = "up"]
  /\ UNCHANGED <<arrived, cursor, bell, stage, hook, seen, ghosts, faults>>

(* A serve ends; its queue and its socket end with it. *)
End(p) ==
  /\ life[p] = "up" /\ p # Daemon /\ Fail("end")
  /\ life' = [life EXCEPT ![p] = "gone"]
  /\ glance' = IF p \in Serve THEN [glance EXCEPT ![p] = "none"] ELSE glance
  /\ UNCHANGED <<arrived, cursor, chiming, woken, heard, missed, stage, hook, seen, ghosts>>

-----------------------------------------------------------------------------
(* Arrival.  A serve's handler looks at its queue, enqueues, and rings by  *)
(* what it saw; the daemon stores the event for every reader, then rings   *)
(* for each reader that owes this one event and nothing else.              *)
Glance(s) ==
  /\ life[s] = "up" /\ glance[s] = "none" /\ arrived[s] < Last
  /\ glance' = [glance EXCEPT ![s] = IF Owed(s) = {} THEN "empty" ELSE "owing"]
  /\ UNCHANGED <<life, arrived, cursor, chiming, woken, heard, missed, stage, hook, seen, ghosts, faults>>

Enqueue(s) ==
  /\ glance[s] # "none"
  /\ arrived' = [arrived EXCEPT ![s] = @ + 1]
  /\ glance' = [glance EXCEPT ![s] = "none"]
  /\ IF glance[s] = "empty"
     THEN woken' = TRUE /\ heard' = heard \cup {s} /\ UNCHANGED missed
     ELSE /\ missed' = IF Owed(s) = {} /\ glance[s] = "owing" THEN missed \cup {s} ELSE missed
          /\ UNCHANGED <<woken, heard>>
  /\ UNCHANGED <<life, cursor, chiming, stage, hook, seen, ghosts, faults>>

Store ==
  /\ life[Daemon] = "up" /\ ~chiming /\ \A q \in Harness : arrived[q] < Last
  /\ arrived' = [q \in Queue |-> IF q \in Harness THEN arrived[q] + 1 ELSE arrived[q]]
  /\ chiming' = TRUE
  /\ UNCHANGED <<life, cursor, glance, woken, heard, missed, stage, hook, seen, ghosts, faults>>

\* (Mutant: the daemon rings for a reader that owes two or more.)
OwesMany == {q \in Harness : Cardinality(Owed(q)) > 1}
OwesJustThis == {q \in Harness : Cardinality(Owed(q)) = 1}

Chime ==
  /\ chiming /\ chiming' = FALSE
  /\ heard' = heard \cup OwesJustThis
  /\ woken' = (woken \/ OwesJustThis # {})
  /\ UNCHANGED <<life, arrived, cursor, glance, missed, stage, hook, seen, ghosts, faults>>

-----------------------------------------------------------------------------
(* Handing over, and moving a cursor.                                      *)
Event == Queue \X (1..Last)

(* What an answer's digest names, to an agent of the host g: the events of *)
(* a serve, or those of the room, which are the host's own reader's too.   *)
ToAgent(x, g) ==
  IF x.of \in Serve THEN {<<x.of, e>> : e \in x.from + 1 .. x.upTo}
                    ELSE {<<g, e>> : e \in x.from + 1 .. x.upTo}
Counts(ev, g) == HostOf(ev[1]) = g
Given(evs) ==
  seen' = [q \in Queue |-> [e \in 1..Last |->
             IF <<q, e>> \in evs /\ seen[q][e] < 2 THEN seen[q][e] + 1 ELSE seen[q][e]]]

(* Moving a cursor never moves it back; an emptied queue has no bell owed. *)
Advances(q, c) ==
  /\ cursor' = [cursor EXCEPT ![q] = Larger(@, c)]
  /\ LET empty == Larger(cursor[q], c) >= arrived[q] IN
     /\ heard' = IF empty THEN heard \ {q} ELSE heard
     /\ missed' = IF empty THEN missed \ {q} ELSE missed

(* What the other hooks hold in hand and may still give. *)
InHand(xs, g) == UNION {ToAgent(x, g) : x \in xs}
Held(h) == InHand(hook[h].answers \cup hook[h].say, hook[h].host)
HeldByOthers(h) == UNION {Held(g) : g \in Hook \ {h}}

(* A tool call of a serve's agent flushes the queue into its result. *)
Flush(s) ==
  /\ life[s] = "up" /\ Owed(s) # {}
  /\ LET evs == {s} \X Owed(s) IN
     /\ Given(evs)
     /\ again' = again \cup (evs \cap UNION {Held(h) : h \in Hook})
  /\ Advances(s, arrived[s])
  /\ UNCHANGED <<life, arrived, glance, chiming, woken, stage, hook, parked, forfeited, borrowed, faults>>

-----------------------------------------------------------------------------
(* A hook process.  It asks the sockets of the workspace, then the daemon, *)
(* and folds the two together.                                             *)
At(h, kind, step) == hook[h].kind = kind /\ hook[h].step = step

(* A session of another host answers as one that has no session: ok, and   *)
(* nothing owed.                                                           *)
Nothing(k) == [key |-> k, of |-> k, from |-> 0, upTo |-> 0]
PeekOf(q, k) == [key |-> k, of |-> q, from |-> cursor[q], upTo |-> arrived[q]]
Answer(k, g) ==
  IF HarnessOf[k] # g THEN Nothing(k)
  ELSE IF k \in Serve THEN PeekOf(k, k) ELSE PeekOf(g, k)

(* A hook starts, a wake because the marker was written.  One socket may   *)
(* answer too late, and a front end that the daemon did not answer in time *)
(* says that nothing is owed.                                              *)
AskSockets(h, g, kind) ==
  /\ hook[h] = Idle
  /\ kind = "wake" => woken /\ g \in Watcher
  /\ woken' = (woken /\ kind # "wake")
  /\ LET asked == {k \in Socket : life[k] = "up"}
         all == {Answer(k, g) : k \in asked}
         but(k) == {x \in all : x.key # k} IN
     \E got \in {all} \cup {but(k) : k \in asked}
                 \cup {but(k) \cup {Nothing(k)} : k \in asked \cap Front} :
       /\ IF got = all THEN UNCHANGED faults ELSE Fail("late")
       /\ hook' = [hook EXCEPT ![h] = [Idle EXCEPT !.step = "daemon", !.kind = kind, !.host = g,
                                                 !.answers = got]]
       /\ again' = again \cup (InHand(got, g) \cap HeldByOthers(h))
  /\ UNCHANGED <<life, arrived, cursor, glance, chiming, heard, missed, stage, seen,
                 parked, forfeited, borrowed>>

(* MergeAnswers: the front ends speak for the room the daemon answered for *)
(* and are dropped; a session of another host names no room and stays.     *)
MergeAnswers(got, fromDaemon, g) ==
  IF fromDaemon = {} THEN got
  ELSE fromDaemon \cup {x \in got : x.key \in Front => HarnessOf[x.key] # g}

AskDaemon(h) ==
  /\ hook[h].step = "daemon"
  /\ LET up == life[Daemon] = "up" IN
     \E heardIt \in {up, FALSE} :
       /\ IF up /\ ~heardIt THEN Fail("late") ELSE UNCHANGED faults
       /\ LET g == hook[h].host
              got == MergeAnswers(hook[h].answers, IF heardIt THEN {PeekOf(g, Daemon)} ELSE {}, g) IN
          /\ hook' = [hook EXCEPT ![h].answers = got, ![h].step = "decide"]
          /\ again' = again \cup (InHand(got, g) \cap HeldByOthers(h))
  /\ UNCHANGED <<life, arrived, cursor, bell, stage, seen, parked, forfeited, borrowed>>

OwesUpdates(x) == x.upTo > x.from
Owing(xs) == {x \in xs : OwesUpdates(x)}
Reached(h) == {x.key : x \in hook[h].answers}
Ends(h) == hook' = [hook EXCEPT ![h] = Idle]

-----------------------------------------------------------------------------
(* The wake parks what is owed, in place of whatever was parked before.    *)
(* It consumes nothing.                                                    *)
Events(x) == {x.of} \X (x.from + 1 .. x.upTo)
Named(xs) == UNION {Events(x) : x \in xs}
Leaves(evs, why) == {[event |-> ev, why |-> why] : ev \in {ev \in evs : ev[1] \in Serve}}

ParkOwed(h) ==
  /\ At(h, "wake", "decide")
  /\ LET owed == Owing(hook[h].answers) IN
     IF owed = {} THEN UNCHANGED <<stage, parked, forfeited>>
     ELSE /\ stage' = owed /\ parked' = parked \cup Named({x \in owed : x.of \in Serve})
          /\ forfeited' = forfeited \cup
               Leaves(Named(stage) \ Named(owed), "overwritten")
  /\ Ends(h)
  /\ UNCHANGED <<life, arrived, cursor, bell, seen, again, borrowed, faults>>

-----------------------------------------------------------------------------
(* ChooseDelivery: a session that answered speaks for itself, and one that *)
(* did not is spoken for by the stage.                                     *)
\* (Mutant: when anybody owes something live the stage is not looked at.)
LiveFirst(h, staged) ==
  IF Owing(hook[h].answers) # {} THEN {} ELSE {x \in staged : x.key \notin Reached(h)}
\* (Mutant: the stage speaks for those who answered as well.)
StageInFull(h, staged) == staged
FromStage(h, staged) == {x \in staged : x.key \notin Reached(h)}

Decide(h) ==
  /\ At(h, "prompt", "decide")
  /\ LET say == Owing(hook[h].answers) \cup Owing(FromStage(h, stage)) IN
     IF say = {} /\ stage = {} THEN Ends(h)
     ELSE hook' = [hook EXCEPT ![h].read = stage, ![h].say = say, ![h].left = say,
                               ![h].step = IF say # {} THEN "emit" ELSE "unstage"]
  /\ UNCHANGED <<life, arrived, cursor, bell, stage, seen, ghosts, faults>>

(* BuildStopDecision: the refusal spells out the live answers alone. *)
Refuse(h) ==
  /\ At(h, "block", "decide")
  /\ LET say == Owing(hook[h].answers) IN
     IF say = {} THEN Ends(h)
     ELSE hook' = [hook EXCEPT ![h].say = say, ![h].left = say, ![h].step = "emit"]
  /\ UNCHANGED <<life, arrived, cursor, bell, stage, seen, ghosts, faults>>

(* The text reaches the agent before any cursor moves.  An event is in the *)
(* text once, whatever the number of answers that name it.                 *)
FromUnreached(h) == {x \in hook[h].say : x.key \notin Reached(h)}
Emit(h) ==
  /\ hook[h].step = "emit"
  /\ LET g == hook[h].host
         evs(xs) == {ev \in UNION {ToAgent(x, g) : x \in xs} : Counts(ev, g)} IN
     /\ Given(evs(hook[h].say))
     /\ again' = again \cup (evs(hook[h].say) \cap HeldByOthers(h))
                       \cup {ev \in evs(FromUnreached(h)) : seen[ev[1]][ev[2]] > 0}
  /\ hook' = [hook EXCEPT ![h].step = "consume"]
  /\ UNCHANGED <<life, arrived, cursor, bell, stage, parked, forfeited, borrowed, faults>>

(* A consume goes where the answer came from: to a serve's socket, through *)
(* a front end or to the daemon for this host's reader; a session of       *)
(* another host answers and moves nothing.                                 *)
\* (Mutant: a consume takes one event more than the digest.)
TakesOneMore(x) == x.upTo + 1
UpTo(x) == x.upTo
Host(k, g) == IF k = Daemon THEN g ELSE HarnessOf[k]
Target(x, g) == IF x.key \in Serve THEN x.key ELSE g
Moves(x, g) == life[x.key] = "up" /\ Host(x.key, g) = g

Consume(h, x) ==
  /\ hook[h].step = "consume" /\ x \in hook[h].left
  /\ IF hook[h].left # {x} THEN hook' = [hook EXCEPT ![h].left = @ \ {x}]
     ELSE IF hook[h].kind = "prompt"
     THEN hook' = [hook EXCEPT ![h].left = {}, ![h].step = "unstage"]
     ELSE Ends(h)
  /\ LET g == hook[h].host IN
     \/ /\ Moves(x, g) /\ Advances(Target(x, g), UpTo(x))
        /\ borrowed' = IF x.of \in Harness \ {g} THEN borrowed \cup {g} ELSE borrowed
        /\ UNCHANGED <<again, faults>>
     \/ /\ Moves(x, g) => Fail("lost")
        /\ ~Moves(x, g) => UNCHANGED faults
        /\ again' = again \cup ToAgent(x, g)
        /\ UNCHANGED <<cursor, heard, missed, borrowed>>
  /\ UNCHANGED <<life, arrived, glance, chiming, woken, stage, seen, parked, forfeited>>

(* The stage goes, whatever it holds by now: an entry of another host's    *)
(* session, one written since it was read, or written after its session    *)
(* had answered.                                                           *)
SinceAnswered(h, x) ==
  {ev \in Events(x) : \E y \in hook[h].answers : y.key = x.key /\ y.upTo < ev[2]}

Unstage(h) ==
  /\ At(h, "prompt", "unstage")
  /\ stage' = {}
  /\ LET others == {x \in stage : HostOf(x.of) # hook[h].host} IN
     forfeited' = forfeited \cup Leaves(Named(others), "taken")
                            \cup Leaves(Named((stage \ others) \ hook[h].read), "unread")
                            \cup Leaves(UNION {SinceAnswered(h, x) : x \in stage \ others}, "unread")
  /\ Ends(h)
  /\ UNCHANGED <<life, arrived, cursor, bell, seen, parked, again, borrowed, faults>>

(* The host kills a hook, or it dies: whatever it gave is given again.     *)
Die(h) ==
  /\ hook[h].step # "idle" /\ Fail("kill")
  /\ again' = IF hook[h].step = "consume"
              THEN again \cup InHand(hook[h].say, hook[h].host)
              ELSE IF hook[h].step = "unstage"
              THEN again \cup InHand(stage, hook[h].host)
              ELSE again
  /\ Ends(h)
  /\ UNCHANGED <<life, arrived, cursor, bell, stage, seen, parked, forfeited, borrowed>>

-----------------------------------------------------------------------------
Next ==
  \/ Store \/ Chime
  \/ \E p \in Socket : Start(p) \/ End(p)
  \/ \E s \in Serve : Glance(s) \/ Enqueue(s) \/ Flush(s)
  \/ \E h \in Hook :
       \/ \E g \in Harness, k \in Kind : AskSockets(h, g, k)
       \/ AskDaemon(h) \/ ParkOwed(h) \/ Decide(h) \/ Refuse(h) \/ Emit(h)
       \/ \E x \in hook[h].left : Consume(h, x)
       \/ Unstage(h) \/ Die(h)

Spec == Init /\ [][Next]_dvars

-----------------------------------------------------------------------------
Entry == [key : Key, of : Queue \cup Front, from : 0..Last, upTo : 0..Last]
TypeOK ==
  /\ life \in [Key -> {"new", "up", "gone"}]
  /\ arrived \in [Queue -> 0..Last] /\ cursor \in [Queue -> 0..Last]
  /\ glance \in [Serve -> {"none", "empty", "owing"}] /\ {chiming, woken} \subseteq BOOLEAN
  /\ \A h \in Hook : /\ hook[h].answers \cup hook[h].read \cup hook[h].say \subseteq Entry
                     /\ hook[h].left \subseteq hook[h].say
  /\ stage \subseteq Entry /\ parked \subseteq Event
  /\ heard \cup missed \subseteq Queue /\ borrowed \subseteq Harness /\ again \subseteq Event
  /\ seen \in [Queue -> [1..Last -> 0..2]] /\ faults \in 0..MaxFaults

(* "Never consume without delivering": an event behind a cursor was given  *)
(* to that session's agent, unless the cursor was moved for a block that   *)
(* another host's reader had staged.                                       *)
NeverSwallowed ==
  \A q \in Queue \ borrowed : \A e \in 1..cursor[q] : seen[q][e] > 0

(* An event is given a second time only when the hook or its consume was   *)
(* lost, when another hook or a tool call had it in hand at the same time, *)
(* or when the stage spoke for a session that could not be reached and     *)
(* had handed it over already.                                             *)
TwiceForAReason ==
  \A q \in Queue : \A e \in 1..Last : seen[q][e] > 1 => <<q, e>> \in again

(* What a wake parked for a serve that has since ended reaches the agent:  *)
(* it was given, or the stage still has it, unless a later wake wrote over *)
(* it, another host's prompt took it, or a prompt deleted it unread.       *)
Spoken(ev) == seen[ev[1]][ev[2]] > 0
StageSpeaksForTheGone ==
  \A ev \in parked : life[ev[1]] = "gone" =>
    Spoken(ev) \/ ev \in Named(stage) \/ \E f \in forfeited : f.event = ev

NewsIsKept == NeverSwallowed /\ StageSpeaksForTheGone

(* A queue that owes something has had its bell rung since it was empty,   *)
(* except when a serve's handler looked before a consume emptied the queue *)
(* and enqueued after it.                                                  *)
OwedWasRung ==
  /\ \A s \in Serve : life[s] = "up" /\ Owed(s) # {} => s \in heard \cup missed
  /\ \A q \in Harness : Owed(q) # {} /\ ~chiming => q \in heard

(* What the comments say, without the exceptions.                          *)
EveryOwedWasRung == \A s \in Serve : life[s] = "up" /\ Owed(s) # {} => s \in heard
NothingArrivesTwice == \A q \in Queue : \A e \in 1..Last : seen[q][e] < 2
NothingSwallowed == \A q \in Queue : \A e \in 1..cursor[q] : seen[q][e] > 0
Lost(ev) == ev[1] \in Serve /\ life[ev[1]] = "gone" /\ ev \notin Named(stage) /\ ~Spoken(ev)
SurvivesAWake == \A f \in forfeited : f.why = "overwritten" => ~Lost(f.event)
SurvivesAnotherHost == \A f \in forfeited : f.why = "taken" => ~Lost(f.event)
=============================================================================
