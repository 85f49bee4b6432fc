-------------------------------- MODULE Bridge --------------------------------
(***************************************************************************)
(* The background worker that publishes a workspace's hand-offs            *)
(* (internal/bridge), over the durable queue (internal/spool), the local   *)
(* mirror of the timeline (internal/mirror) and a room that may answer,    *)
(* refuse, fail, answer late or not at all.                                *)
(*                                                                         *)
(* A run is one goroutine of Worker.run, started by a join.  A process is  *)
(* one `landfall serve`: its runs share a Worker, whose Start cancels the  *)
(* previous run and does not wait for it to end.                           *)
(***************************************************************************)
EXTENDS Spool

CONSTANTS
  Run,        \* slots for worker runs
  ProcOf,     \* the process each slot belongs to
  Seat,       \* the instance id a run's join is issued while ids are stable
  Text,       \* the words of each hand-off (after redaction)
  Claim,      \* hand-offs that go to the claims endpoint
  Refusable,  \* hand-offs the room may refuse with a 4xx
  Stubborn,   \* hand-offs the room never accepts and never refuses (a 429, a 5xx)
  Faults,     \* the kinds of misfortune an execution may meet
  MaxFaults   \* how many of them it meets (a bound of the model)

FaultKind ==
  {"crash",      \* a process dies
   "transient",  \* the room answers a write with something to try again
   "lost",       \* an answer never arrives (RequestTimeout)
   "delayed",    \* a request its sender gave up on reaches the room later
   "refresh",    \* GetUpdates fails
   "session",    \* the session token expires (401 from then on)
   "identity",   \* a join is issued another instance id than before
   "stop",       \* a run is cancelled, by a shutdown or by the next join
   "disk"}       \* a record cannot be written

ASSUME BridgeAssumption ==
  /\ Run # {}
  /\ DOMAIN ProcOf = Run
  /\ Seat \in [Run -> Instance]
  /\ DOMAIN Text = Entry
  /\ Claim \subseteq Entry
  /\ Refusable \subseteq Entry
  /\ Stubborn \subseteq Entry
  /\ Faults \subseteq FaultKind
  /\ MaxFaults \in Nat

VARIABLES
  spool,      \* the workspace's queue files, on disk
  mirror,     \* the events of ours the local mirror has, on disk
  timeline,   \* the events of ours the room has, each as its author and hand-off
  copies,     \* how often the room has each hand-off
  strays,     \* requests still under way whose sender no longer waits
  pc,         \* where each run is
  target,     \* the incident it was started for
  inst,       \* the instance id its client writes under
  up,         \* whether its session token is still valid
  cancelled,  \* whether its context is cancelled
  todo,       \* the entries it listed and has not dealt with yet
  cur,        \* the entry it is publishing (meaningful while it waits)
  answer,     \* what has come back for it ("none" while nothing has)
  faults      \* how many misfortunes were met so far, and of which kinds

room == <<timeline, copies, strays>>
session == <<target, inst, up>>
work == <<todo, cur, answer>>
vars == <<spool, mirror, room, pc, session, cancelled, work, faults>>

Step == {"off", "recover", "refresh", "resolve",
         "absorb", "list", "drain", "wait", "idle"}
Answer == {"none", "ok", "refused", "expired", "failed"}
Event == [by : Instance, entry : Entry]

TypeOK ==
  /\ spool \in [Entry -> EntryRecord]
  /\ mirror \subseteq Event
  /\ timeline \subseteq Event
  /\ copies \in [Entry -> Nat]
  /\ strays \subseteq Event
  /\ pc \in [Run -> Step]
  /\ target \in [Run -> Room]
  /\ inst \in [Run -> Instance]
  /\ up \in [Run -> BOOLEAN]
  /\ cancelled \in [Run -> BOOLEAN]
  /\ todo \in [Run -> SUBSET Entry]
  /\ cur \in [Run -> Entry]
  /\ answer \in [Run -> Answer]
  /\ faults \in [count : Nat, met : SUBSET FaultKind]

Init ==
  /\ spool = [e \in Entry |-> Absent]
  /\ mirror = {}
  /\ timeline = {}
  /\ copies = [e \in Entry |-> 0]
  /\ strays = {}
  /\ pc = [r \in Run |-> "off"]
  /\ target = [r \in Run |-> CHOOSE q \in Room : TRUE]
  /\ inst = Seat
  /\ up = [r \in Run |-> FALSE]
  /\ cancelled = [r \in Run |-> FALSE]
  /\ todo = [r \in Run |-> {}]
  /\ cur = [r \in Run |-> 1]
  /\ answer = [r \in Run |-> "none"]
  /\ faults = [count |-> 0, met |-> {}]

Fault(kind) ==
  /\ kind \in Faults
  /\ faults.count < MaxFaults
  /\ faults' = [count |-> faults.count + 1, met |-> faults.met \cup {kind}]

Goto(r, step) == pc' = [pc EXCEPT ![r] = step]

\* Spool.mark: the record is written; or the disk refuses it and the file
\* stays as it was.  (That an error may also follow a record that was written,
\* when only the fsync fails, matters to Send alone.)
Mark(new) ==
  \/ (spool' = new /\ UNCHANGED faults)
  \/ (Fault("disk") /\ UNCHANGED spool)

-----------------------------------------------------------------------------
(* The room.                                                               *)

\* A staged claim is found by its author, the same person in every session,
\* and its statement, and offered again it is answered with the one staged.
AlreadyStaged(e) ==
  e \in Claim /\ \E f \in Claim : Text[f] = Text[e] /\ copies[f] > 0

\* A write reaches the room and is accepted.
Lands(by, e) ==
  IF AlreadyStaged(e)
    THEN UNCHANGED <<timeline, copies>>
    ELSE /\ timeline' = timeline \cup {[by |-> by, entry |-> e]}
         /\ copies' = [copies EXCEPT ![e] = @ + 1]

\* The room deals with the write run r waits on.
RoomAccepts(r) ==
  /\ pc[r] = "wait" /\ answer[r] = "none" /\ up[r]
  /\ cur[r] \notin Stubborn
  /\ Lands(inst[r], cur[r])
  /\ answer' = [answer EXCEPT ![r] = "ok"]
  /\ UNCHANGED <<spool, mirror, strays, pc, session, cancelled, todo, cur, faults>>

RoomRefuses(r) ==
  /\ pc[r] = "wait" /\ answer[r] = "none"
  /\ \/ ~up[r] /\ answer' = [answer EXCEPT ![r] = "expired"]
     \/ up[r] /\ cur[r] \in Refusable /\ answer' = [answer EXCEPT ![r] = "refused"]
  /\ UNCHANGED <<spool, mirror, room, pc, session, cancelled, todo, cur, faults>>

RoomFails(r) ==
  /\ pc[r] = "wait" /\ answer[r] = "none" /\ up[r]
  /\ (cur[r] \in Stubborn /\ UNCHANGED faults) \/ Fault("transient")
  /\ answer' = [answer EXCEPT ![r] = "failed"]
  /\ UNCHANGED <<spool, mirror, room, pc, session, cancelled, todo, cur>>

StrayLands(x) ==
  /\ x \in strays
  /\ Fault("delayed")
  /\ Lands(x.by, x.entry)
  /\ strays' = strays \ {x}
  /\ UNCHANGED <<spool, mirror, pc, session, cancelled, work>>

SessionExpires(r) ==
  /\ pc[r] # "off" /\ up[r]
  /\ Fault("session")
  /\ up' = [up EXCEPT ![r] = FALSE]
  /\ UNCHANGED <<spool, mirror, room, pc, target, inst, cancelled, work>>

-----------------------------------------------------------------------------
(* The process: joins, the agent's shares, stops and crashes.              *)

Joined(r) == pc[r] # "off" /\ ~cancelled[r]

Siblings(r) == {x \in Run : x # r /\ ProcOf[x] = ProcOf[r]}

\* (Mutant: the room is kept in the Worker, not passed to its run.)
JoinRetargets(r, q, i) ==
  /\ pc[r] = "off"
  /\ i = Seat[r]
  /\ cancelled' = [x \in Run |->
       IF x = r THEN FALSE ELSE cancelled[x] \/ x \in Siblings(r)]
  /\ target' = [x \in Run |-> IF x = r \/ x \in Siblings(r) THEN q ELSE target[x]]
  /\ inst' = [inst EXCEPT ![r] = i]
  /\ up' = [up EXCEPT ![r] = TRUE]
  /\ Goto(r, "recover")
  /\ UNCHANGED <<spool, mirror, room, work, faults>>

\* Worker.Start, at the end of every join: cancel the run before it, whose
\* goroutine goes on until it notices, and start one over the new session.
Join(r, q, i) ==
  /\ pc[r] = "off"
  /\ IF i # Seat[r] THEN Fault("identity")
     ELSE IF \E x \in Siblings(r) : Joined(x) THEN Fault("stop")
     ELSE UNCHANGED faults
  /\ cancelled' = [x \in Run |->
       IF x = r THEN FALSE ELSE cancelled[x] \/ x \in Siblings(r)]
  /\ target' = [target EXCEPT ![r] = q]
  /\ inst' = [inst EXCEPT ![r] = i]
  /\ up' = [up EXCEPT ![r] = TRUE]
  /\ Goto(r, "recover")
  /\ UNCHANGED <<spool, mirror, room, work>>

\* share_with_room: AcceptKind under the joined session, while the queue has
\* space.  A full queue records nothing and the agent is told so.
Share(r, e) ==
  /\ Joined(r) /\ target[r] = RoomOf[e]
  /\ spool[e].state = "absent"
  /\ \A f \in 1..(e - 1) : spool[f].state # "absent"
  /\ HasSpace(spool, target[r])
  /\ spool' = Accepted(spool, e, inst[r])
  /\ UNCHANGED <<mirror, room, pc, session, cancelled, work, faults>>

\* Worker.Stop.  Stopping a run whose session has expired is what a rejoin
\* with a new link does and no misfortune of its own.
Stop(r) ==
  /\ Joined(r)
  /\ (~up[r] /\ UNCHANGED faults) \/ Fault("stop")
  /\ cancelled' = [cancelled EXCEPT ![r] = TRUE]
  /\ UNCHANGED <<spool, mirror, room, pc, session, work>>

\* What is still under way when nobody waits for run r's answer any more: a
\* write the room has not dealt with is gone, or arrives later.
Outstanding(r) ==
  IF pc[r] = "wait" /\ answer[r] = "none"
    THEN {[by |-> inst[r], entry |-> cur[r]]} ELSE {}

LetGo(xs) ==
  \E late \in SUBSET xs :
    /\ late = {} \/ "delayed" \in Faults
    /\ strays' = strays \cup late

\* The process dies between any two steps; only what is on disk survives.
Crash(p) ==
  LET rs == {r \in Run : ProcOf[r] = p} IN
  /\ \E r \in rs : pc[r] # "off"
  /\ Fault("crash")
  /\ LetGo(UNION {Outstanding(r) : r \in rs})
  /\ pc' = [r \in Run |-> IF r \in rs THEN "off" ELSE pc[r]]
  /\ todo' = [r \in Run |-> IF r \in rs THEN {} ELSE todo[r]]
  /\ answer' = [r \in Run |-> IF r \in rs THEN "none" ELSE answer[r]]
  /\ UNCHANGED <<spool, mirror, timeline, copies, session, cancelled, cur>>

-----------------------------------------------------------------------------
(* reconcile: before anything is sent, settle what a dead run left.        *)

\* The events of room q: those of its own hand-offs.
EventsOf(q) == {ev \in timeline : RoomOf[ev.entry] = q}

\* absorb: the room's events since the mirror's last, into the mirror.  An
\* unreachable room, an expired session or a cancelled run reads nothing, and
\* absorb returns as if it had read everything.
Absorb(r) ==
  \/ /\ up[r] /\ ~cancelled[r]
     /\ mirror' = mirror \cup EventsOf(target[r])
     /\ UNCHANGED faults
  \/ /\ ~up[r] \/ cancelled[r]
     /\ UNCHANGED <<mirror, faults>>
  \/ (Fault("refresh") /\ UNCHANGED mirror)

\* (Mutant: any event of ours will do.)
FindOwnByAuthor(e) == \E f \in Entry \ Claim : [by |-> spool[e].owner, entry |-> f] \in mirror

\* mirror.FindOwn: an event by the instance that made the hand-off, with its
\* words.  A staged claim's event carries a statement, not a text.
FindOwn(e) ==
  \E f \in Entry \ Claim :
    Text[f] = Text[e] /\ [by |-> spool[e].owner, entry |-> f] \in mirror

\* Recover: list what some run left mid-publish; with nothing to settle there
\* is nothing to refresh for.
Recover(r) ==
  LET unknown == Recovered(spool, target[r]) IN
  /\ pc[r] = "recover"
  /\ todo' = [todo EXCEPT ![r] = unknown]
  /\ Goto(r, IF unknown = {} THEN "absorb" ELSE "refresh")
  /\ UNCHANGED <<spool, mirror, room, session, cancelled, cur, answer, faults>>

Refresh(r) ==
  /\ pc[r] = "refresh"
  /\ Absorb(r)
  /\ Goto(r, "resolve")
  /\ UNCHANGED <<spool, room, session, cancelled, work>>

\* Already in the room: acknowledge.  Not there: back to the queue.
Resolve(r) ==
  LET e == Oldest(todo[r]) IN
  /\ pc[r] = "resolve" /\ todo[r] # {}
  /\ Mark(IF FindOwn(e) THEN Acked(spool, e) ELSE Failed(spool, e))
  /\ todo' = [todo EXCEPT ![r] = @ \ {e}]
  /\ UNCHANGED <<mirror, room, pc, session, cancelled, cur, answer>>

Resolved(r) ==
  /\ pc[r] = "resolve" /\ todo[r] = {}
  /\ Goto(r, "absorb")
  /\ UNCHANGED <<spool, mirror, room, session, cancelled, work, faults>>

-----------------------------------------------------------------------------
(* sweep: absorb, then one attempt for each entry queued at the start.     *)

SweepAbsorb(r) ==
  /\ pc[r] = "absorb"
  /\ Absorb(r)
  /\ Goto(r, "list")
  /\ UNCHANGED <<spool, room, session, cancelled, work>>

List(r) ==
  /\ pc[r] = "list"
  /\ todo' = [todo EXCEPT ![r] = Sendable(spool, target[r])]
  /\ Goto(r, "drain")
  /\ UNCHANGED <<spool, mirror, room, session, cancelled, cur, answer, faults>>

\* publish, up to the write: claim the entry, whatever has become of it since
\* it was listed, then send it.  An entry whose claim meets an error is passed
\* by, also when the record is in the file and only the fsync failed.
Send(r) ==
  LET e == Oldest(todo[r]) IN
  /\ pc[r] = "drain" /\ ~cancelled[r] /\ todo[r] # {}
  /\ todo' = [todo EXCEPT ![r] = @ \ {e}]
  /\ \/ /\ spool' = Claimed(spool, e)
        /\ cur' = [cur EXCEPT ![r] = e]
        /\ Goto(r, "wait")
        /\ UNCHANGED faults
     \/ /\ Fault("disk")
        /\ spool' \in {spool, Claimed(spool, e)}
        /\ UNCHANGED <<cur, pc>>
  /\ UNCHANGED <<mirror, room, session, cancelled, answer>>

\* The request times out, or its context is cancelled, before its answer is
\* read: the write may or may not have landed.
GiveUp(r) ==
  /\ pc[r] = "wait" /\ answer[r] # "failed"
  /\ (cancelled[r] /\ UNCHANGED faults) \/ Fault("lost")
  /\ answer' = [answer EXCEPT ![r] = "failed"]
  /\ LetGo(Outstanding(r))
  /\ UNCHANGED <<spool, mirror, timeline, copies, pc, session, cancelled, todo, cur>>

\* (Mutants: a failure is acknowledged; an expired session leaves the claim.)
SettledByAck(s, e, ans) ==
  CASE ans = "expired" -> Expired(s, e)
    [] ans = "refused" -> Refused(s, e)
    [] OTHER           -> Acked(s, e)
SettledNotWhenExpired(s, e, ans) ==
  CASE ans = "ok"      -> Acked(s, e)
    [] ans = "expired" -> s
    [] ans = "refused" -> Refused(s, e)
    [] ans = "failed"  -> Failed(s, e)

\* What the queue says once the write has been answered, or given up.
Settled(s, e, ans) ==
  CASE ans = "ok"      -> Acked(s, e)
    [] ans = "expired" -> Expired(s, e)
    [] ans = "refused" -> Refused(s, e)
    [] ans = "failed"  -> Failed(s, e)

\* (Mutant: the first failure ends the pass, as before the live run.)
SettleStopsAtFailure(r) ==
  /\ pc[r] = "wait" /\ answer[r] # "none"
  /\ Mark(Settled(spool, cur[r], answer[r]))
  /\ IF answer[r] # "ok"
       THEN Goto(r, "idle") /\ todo' = [todo EXCEPT ![r] = {}]
       ELSE Goto(r, "drain") /\ UNCHANGED todo
  /\ answer' = [answer EXCEPT ![r] = "none"]
  /\ UNCHANGED <<mirror, room, session, cancelled, cur>>

\* publish, after the write: record what came of it.  An expired session ends
\* the pass; every other outcome moves on to the next entry.
Settle(r) ==
  /\ pc[r] = "wait" /\ answer[r] # "none"
  /\ Mark(Settled(spool, cur[r], answer[r]))
  /\ IF answer[r] = "expired"
       THEN Goto(r, "idle") /\ todo' = [todo EXCEPT ![r] = {}]
       ELSE Goto(r, "drain") /\ UNCHANGED todo
  /\ answer' = [answer EXCEPT ![r] = "none"]
  /\ UNCHANGED <<mirror, room, session, cancelled, cur>>

\* The pass is over, or the run has noticed that it is cancelled.
EndPass(r) ==
  /\ pc[r] = "drain" /\ (todo[r] = {} \/ cancelled[r])
  /\ todo' = [todo EXCEPT ![r] = {}]
  /\ Goto(r, "idle")
  /\ UNCHANGED <<spool, mirror, room, session, cancelled, cur, answer, faults>>

\* The select at the foot of run's loop: the ticker, a nudge, or the end.
Wake(r) ==
  /\ pc[r] = "idle"
  /\ Goto(r, IF cancelled[r] THEN "off" ELSE "absorb")
  /\ UNCHANGED <<spool, mirror, room, session, cancelled, work, faults>>

-----------------------------------------------------------------------------
Reconcile(r) == Recover(r) \/ Refresh(r) \/ Resolve(r) \/ Resolved(r)

Sweep(r) == SweepAbsorb(r) \/ List(r) \/ Send(r) \/ Settle(r) \/ EndPass(r) \/ Wake(r)

RoomAnswers(r) == RoomAccepts(r) \/ RoomRefuses(r) \/ RoomFails(r)

Next ==
  \/ \E r \in Run, q \in Room, i \in Instance : Join(r, q, i)
  \/ \E r \in Run, e \in Entry : Share(r, e)
  \/ \E r \in Run : Reconcile(r) \/ Sweep(r) \/ RoomAnswers(r)
  \/ \E r \in Run : GiveUp(r) \/ Stop(r) \/ SessionExpires(r)
  \/ \E x \in strays : StrayLands(x)
  \/ \E r \in Run : Crash(ProcOf[r])

Spec == Init /\ [][Next]_vars

\* The goroutine of a run is scheduled, the room answers what reaches it
\* (or RequestTimeout answers in its place), and the person starts the agent
\* again after it died and rejoins when told that the session has expired.
Fairness ==
  \A r \in Run :
    /\ WF_vars(Reconcile(r) \/ Sweep(r))
    /\ WF_vars(RoomAnswers(r))
    /\ WF_vars(\E q \in Room, i \in Instance : Join(r, q, i))
    /\ WF_vars(~up[r] /\ Stop(r))

FairSpec == Spec /\ Fairness

-----------------------------------------------------------------------------
(* Properties.                                                             *)

\* The room has the words of hand-off e.
Landed(e) == \E f \in Entry : Text[f] = Text[e] /\ copies[f] > 0

\* An entry the queue calls published is one whose words the room has,
\* whatever was lost, delayed or duplicated on the way: publish acknowledges
\* only after the server confirms, reconcile only what the mirror shows.
PublishedLanded ==
  \A e \in Entry : spool[e].state = "published" => Landed(e)

\* Why PublishedLanded holds: the mirror shows nothing the room does not have,
\* what the room has has landed, and an "ok" is only ever the answer to the
\* write its run still waits on.
MirrorIsTrue == mirror \subseteq timeline
TimelineIsTrue == \A ev \in timeline : copies[ev.entry] > 0
AnswerIsTrue ==
  \A r \in Run :
    /\ pc[r] # "wait" => answer[r] = "none"
    /\ answer[r] = "ok" => Landed(cur[r])

OutcomesAreTrue == MirrorIsTrue /\ TimelineIsTrue /\ AnswerIsTrue /\ PublishedLanded

\* Reconciliation makes a crash invisible to the room (D9): while the process
\* dies, the disk fails and the room asks to try again, in any order and number,
\* no hand-off lands twice; a second copy takes an answer that was not read, a
\* refresh or a session that failed, a late request or another identity.
Harmless == {"crash", "transient", "disk"}

DuplicatesHaveCause ==
  faults.met \subseteq Harmless => \A e \in Entry : copies[e] <= 1

\* "Publishing the queue first would duplicate whichever of them already
\* landed" (bridge/worker.go): nothing lands twice, whatever happens.
AtMostOnce == \A e \in Entry : copies[e] <= 1

\* An entry left mid-publish has someone who will settle it: the run that
\* waits on it, a reconciliation that has it on its list, or one yet to come.
InFlightIsTended ==
  \A e \in Entry : spool[e].state = "publishing" =>
    \E r \in Run :
      /\ target[r] = RoomOf[e] \/ pc[r] = "off"
      /\ \/ pc[r] \in {"off", "recover"}
         \/ pc[r] \in {"refresh", "resolve"} /\ e \in todo[r]
         \/ pc[r] = "wait" /\ cur[r] = e

\* A hand-off made for one room is never sent to another, although a rejoin
\* starts the next run without waiting for the one it cancels.
RightRoom == \A r \in Run : pc[r] = "wait" => RoomOf[cur[r]] = target[r]

\* Why RightRoom holds: a run lists the entries of its own room only, and is
\* given another room only when it has none on its list.
ListsItsRoom ==
  \A r \in Run : pc[r] \in {"refresh", "resolve", "drain", "wait"} =>
    \A e \in todo[r] : RoomOf[e] = target[r]

\* "Refused is terminal: [...] The worker never retries it" (spool/entry.go).
RefusedIsTerminal ==
  [][\A e \in Entry : spool[e].state = "refused" => spool'[e].state = "refused"]_vars

\* "A room change abandons it exactly as it abandons Queued" (spool/entry.go):
\* once a run starts over another room, nothing is owed to the one before.
RoomChangeAbandons ==
  [][\A r \in Run, e \in Entry :
       (pc[r] = "off" /\ pc'[r] = "recover" /\ target'[r] # RoomOf[e]
          /\ target[r] = RoomOf[e])
         => spool'[e].state \notin {"queued", "held"}]_vars

\* Every accepted hand-off is published or refused in the end, also behind
\* one the room never settles (the starvation a live run found, worker.go).
EventuallySettled ==
  \A e \in Entry \ Stubborn :
    spool[e].state # "absent" ~> spool[e].state \in {"published", "refused"}

\* The queue implements the at-least-once outbox.
Status(e) ==
  CASE spool[e].state \in {"queued", "publishing", "held"} -> "owed"
    [] OTHER -> spool[e].state

O == INSTANCE Outbox WITH
       Handoff <- Entry,
       Words   <- Text,
       status  <- [e \in Entry |-> Status(e)],
       inRoom  <- {Text[e] : e \in {f \in Entry : copies[f] > 0}}

ImplementsOutbox == O!Spec
=============================================================================
