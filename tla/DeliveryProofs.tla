----------------------------- MODULE DeliveryProofs -----------------------------
(***************************************************************************)
(* What hooks deliver, for any number of serves, front ends, hosts, hooks, *)
(* events and faults: nothing is consumed unsaid, nothing is said twice    *)
(* without a reason, and nobody is owed anything without having been rung. *)
(***************************************************************************)
EXTENDS Delivery, FiniteSetTheorems, TLAPS

HookState ==
  [step : {"idle", "daemon", "decide", "emit", "consume", "unstage"},
   kind : Kind \cup {"none"}, host : Harness \cup {"none"}, answers : SUBSET Entry,
   read : SUBSET Entry, say : SUBSET Entry, left : SUBSET Entry]

Types ==
  /\ TypeOK
  /\ hook \in [Hook -> HookState]
  /\ \A h \in Hook : hook[h].host \in Harness \/ hook[h] = Idle
  /\ \A ev \in parked : ev[1] \in Serve
  /\ \A s \in Serve : glance[s] # "none" => arrived[s] < Last

(* An answer names its own serve or a reader of the daemon, and what came  *)
(* before its first event was given to that session's agent.               *)
Honest(x) ==
  /\ x.key \in Serve \/ x.of \in Serve => x.of = x.key
  /\ x.of \in Queue \/ (x.from = 0 /\ x.upTo = 0)
  /\ \A e \in 1..x.from : x.of \in borrowed \/ Spoken(<<x.of, e>>)

AllHonest ==
  /\ \A x \in stage : Honest(x)
  /\ \A h \in Hook : \A x \in hook[h].answers \cup hook[h].read \cup hook[h].say : Honest(x)

(* What a hook says is what it was answered, and of the stage it read what *)
(* no answer spoke for; from its text on, that has been given.             *)
SaysWhatItRead ==
  \A h \in Hook :
    LET x == hook[h] IN
    /\ x.step = "emit" => x.left = x.say
    /\ x.step \in {"emit", "consume", "unstage"} =>
         \A y \in x.say : OwesUpdates(y) /\ (y.key \in Reached(h) => y \in x.answers)
    /\ x.step \in {"emit", "consume", "unstage"} /\ x.kind = "prompt" =>
         \A y \in x.answers \cup FromStage(h, x.read) : OwesUpdates(y) => y \in x.say
    /\ x.step \in {"consume", "unstage"} =>
         \A y \in x.say : \A ev \in ToAgent(y, x.host) : Counts(ev, x.host) => Spoken(ev)

(* What an agent was given and no cursor has passed is about to be         *)
(* consumed, or has a reason to be given again.                            *)
ToConsume(h) == IF hook[h].step = "consume" THEN InHand(hook[h].left, hook[h].host) ELSE {}
GivenIsConsumed ==
  \A q \in Queue : \A e \in 1..Last :
    Spoken(<<q, e>>) /\ e > cursor[q] =>
      <<q, e>> \in again \/ \E h \in Hook : <<q, e>> \in ToConsume(h)

(* What a hook was answered and has not said yet nobody else has said.     *)
AnswersAreNews ==
  \A h \in Hook : hook[h].step \in {"daemon", "decide", "emit"} =>
    \A ev \in InHand(hook[h].answers, hook[h].host) : Spoken(ev) => ev \in again

StageSpeaks ==
  \A ev \in parked :
    Spoken(ev) \/ ev \in Named(stage) \/ \E f \in forfeited : f.event = ev

(* A bell that is owed is on its way. *)
Bells ==
  /\ \A s \in Serve : /\ glance[s] # "none" => life[s] = "up"
                      /\ life[s] = "new" => arrived[s] = 0
  /\ \A q \in Harness : arrived[q] > cursor[q] + 1 => q \in heard

Told == NeverSwallowed /\ TwiceForAReason /\ GivenIsConsumed /\ AnswersAreNews /\ StageSpeaks
DeliveryInv == Types /\ AllHonest /\ SaysWhatItRead /\ Told /\ Bells /\ OwedWasRung

USE KeysAreDistinct, EachHasAHost, BoundsAreNumbers

-----------------------------------------------------------------------------
(* Answers, and what they name.                                            *)

(* What a socket, or the daemon, answers is made of entries. *)
LEMMA AnswersAreEntries ==
  ASSUME Types, NEW g \in Harness
  PROVE  /\ PeekOf(g, Daemon) \in Entry
         /\ \A k \in Socket : Answer(k, g) \in Entry /\ Nothing(k) \in Entry /\ Answer(k, g).key = k
<1>1. Daemon \in Key /\ Socket \subseteq Key /\ g \in Queue /\ Serve \subseteq Queue
  BY DEF Key, Socket, Queue
<1>2. \A q \in Queue : cursor[q] \in 0..Last /\ arrived[q] \in 0..Last
  BY DEF Types, TypeOK
<1>3. \A q \in Queue, k \in Key : PeekOf(q, k) \in Entry
  BY <1>2 DEF PeekOf, Entry
<1>4. \A k \in Socket : Nothing(k) \in Entry
  BY <1>1 DEF Nothing, Entry, Socket, Queue
<1> QED BY <1>1, <1>3, <1>4 DEF Answer, PeekOf, Nothing

(* What an entry says to an agent are events of the queues. *)
LEMMA ToAgentEvents ==
  ASSUME NEW x \in Entry, NEW g \in Harness
  PROVE  ToAgent(x, g) \subseteq Event
<1>1. x.from \in 0..Last /\ x.upTo \in 0..Last /\ g \in Queue /\ Serve \subseteq Queue
  BY DEF Entry, Queue
<1>2. x.from + 1 .. x.upTo \subseteq 1..Last
  BY <1>1
<1> QED BY <1>1, <1>2 DEF ToAgent, Event

(* What a set of entries says to an agent are events of the queues. *)
LEMMA InHandEvents ==
  ASSUME NEW xs \in SUBSET Entry, NEW g \in Harness
  PROVE  InHand(xs, g) \subseteq Event
BY ToAgentEvents DEF InHand

(* What hooks hold are events of the queues. *)
LEMMA HeldEvents ==
  ASSUME Types
  PROVE  /\ \A h \in Hook : Held(h) \subseteq Event /\ HeldByOthers(h) \subseteq Event
         /\ \A h \in Hook : InHand(hook[h].say, hook[h].host) \subseteq Event
<1>1. ASSUME NEW h \in Hook, NEW xs, xs \subseteq hook[h].answers \cup hook[h].say
      PROVE InHand(xs, hook[h].host) \subseteq Event
  <2>1. CASE hook[h] = Idle
    BY <1>1, <2>1 DEF Idle, InHand
  <2>2. CASE hook[h].host \in Harness
    BY <1>1, <2>2, InHandEvents DEF Types, HookState
  <2> QED BY <2>1, <2>2 DEF Types
<1>2. \A h \in Hook : Held(h) \subseteq Event
  BY <1>1 DEF Held
<1>3. \A h \in Hook : InHand(hook[h].say, hook[h].host) \subseteq Event
  BY <1>1
<1> QED BY <1>2, <1>3 DEF HeldByOthers

(* What entries name are events of the serves. *)
LEMMA NamedEvents ==
  ASSUME NEW xs \in SUBSET Entry
  PROVE  /\ Named({x \in xs : x.of \in Serve}) \subseteq Event
         /\ \A ev \in Named({x \in xs : x.of \in Serve}) : ev[1] \in Serve
<1>1. ASSUME NEW x \in Entry, x.of \in Serve
      PROVE  Events(x) \subseteq Event /\ \A ev \in Events(x) : ev[1] \in Serve
  <2>1. x.from \in 0..Last /\ x.upTo \in 0..Last /\ Serve \subseteq Queue
    BY DEF Entry, Queue
  <2>2. x.from + 1 .. x.upTo \subseteq 1..Last
    BY <2>1
  <2> QED BY <1>1, <2>1, <2>2 DEF Events, Event
<1> QED BY <1>1 DEF Named

(* What is given is given once more, at least once, and twice at most in   *)
(* the count.                                                              *)
LEMMA GivenCounts ==
  ASSUME Types, NEW evs, Given(evs)
  PROVE  /\ seen' \in [Queue -> [1..Last -> 0..2]]
         /\ \A q \in Queue : \A e \in 1..Last :
              /\ <<q, e>> \in evs => seen'[q][e] > 0
              /\ <<q, e>> \notin evs => seen'[q][e] = seen[q][e]
              /\ seen'[q][e] >= seen[q][e]
              /\ seen'[q][e] > 1 => seen[q][e] > 0
<1>1. \A q \in Queue : \A e \in 1..Last : seen[q][e] \in 0..2
  BY DEF Types, TypeOK
<1> DEFINE More(q, e) == IF <<q, e>> \in evs /\ seen[q][e] < 2 THEN seen[q][e] + 1 ELSE seen[q][e]
<1>2. ASSUME NEW q \in Queue, NEW e \in 1..Last
      PROVE  /\ More(q, e) \in 0..2 /\ More(q, e) >= seen[q][e]
             /\ <<q, e>> \in evs => More(q, e) > 0
             /\ <<q, e>> \notin evs => More(q, e) = seen[q][e]
             /\ More(q, e) > 1 => seen[q][e] > 0
  <2>1. seen[q][e] \in 0..2
    BY <1>1
  <2>2. CASE <<q, e>> \in evs /\ seen[q][e] < 2
    BY <2>1, <2>2
  <2>3. CASE ~(<<q, e>> \in evs /\ seen[q][e] < 2)
    BY <2>1, <2>3
  <2> QED BY <2>2, <2>3
<1>3. seen' = [q \in Queue |-> [e \in 1..Last |-> More(q, e)]]
  BY DEF Given
<1> HIDE DEF More
<1> QED BY <1>2, <1>3

(* A cursor moves forward, and no other does. *)
LEMMA Advanced ==
  ASSUME Types, NEW q \in Queue, NEW c \in 0..Last, Advances(q, c)
  PROVE  /\ cursor' \in [Queue -> 0..Last] /\ heard' \subseteq heard /\ missed' \subseteq missed
         /\ cursor'[q] = Larger(cursor[q], c) /\ cursor'[q] >= cursor[q] /\ cursor'[q] >= c
         /\ \A p \in Queue : p # q => cursor'[p] = cursor[p]
         /\ \A p : p \in heard \cup missed /\ p \notin heard' \cup missed' => p = q /\ cursor'[q] >= arrived[q]
         /\ \A p : p \in heard /\ p \notin heard' => p = q /\ cursor'[q] >= arrived[q]
<1>1. cursor \in [Queue -> 0..Last] /\ cursor[q] \in 0..Last
  BY DEF Types, TypeOK
<1>2. Larger(cursor[q], c) \in 0..Last /\ Larger(cursor[q], c) >= cursor[q] /\ Larger(cursor[q], c) >= c
  BY <1>1 DEF Larger
<1>3. cursor' = [cursor EXCEPT ![q] = Larger(cursor[q], c)]
  BY DEF Advances
<1>4. /\ cursor' \in [Queue -> 0..Last] /\ cursor'[q] = Larger(cursor[q], c)
      /\ \A p \in Queue : p # q => cursor'[p] = cursor[p]
  BY <1>1, <1>2, <1>3
<1> QED BY <1>2, <1>4 DEF Advances

-----------------------------------------------------------------------------
(* Types.                                                                  *)

(* At first nothing was posted, rung or said. *)
LEMMA InitDelivery == Init => DeliveryInv
<1> SUFFICES ASSUME Init PROVE DeliveryInv
  OBVIOUS
<1>1. Types
  <2>1. /\ life \in [Key -> {"new", "up"}] /\ Queue = Serve \cup Harness
        /\ \A h \in Hook : hook[h] = Idle
    BY DEF Init, Queue
  <2>2. Idle \in HookState
    BY DEF Idle, HookState
  <2>3. TypeOK
    <3>1. 0 \in 0..Last /\ 0 \in 0..MaxFaults /\ 0 \in 0..2
      OBVIOUS
    <3>2. /\ arrived \in [Queue -> 0..Last] /\ cursor \in [Queue -> 0..Last]
          /\ seen \in [Queue -> [1..Last -> 0..2]] /\ glance \in [Serve -> {"none", "empty", "owing"}]
      BY <3>1 DEF Init
    <3>3. \A h \in Hook : /\ hook[h].answers \cup hook[h].read \cup hook[h].say \subseteq Entry
                          /\ hook[h].left \subseteq hook[h].say
      BY <2>1 DEF Idle
    <3>4. life \in [Key -> {"new", "up", "gone"}]
      BY <2>1
    <3> QED BY <3>1, <3>2, <3>3, <3>4 DEF Init, TypeOK
  <2>4. hook \in [Hook -> HookState]
    BY <2>2 DEF Init
  <2> QED BY <2>1, <2>3, <2>4 DEF Init, Types
<1>2. AllHonest /\ SaysWhatItRead
  BY DEF Init, AllHonest, SaysWhatItRead, Idle
<1>3. Told
  <2>1. \A q \in Queue : cursor[q] = 0 /\ \A e \in 1..Last : seen[q][e] = 0
    BY DEF Init
  <2>2. NeverSwallowed /\ TwiceForAReason /\ GivenIsConsumed
    BY <2>1 DEF NeverSwallowed, TwiceForAReason, GivenIsConsumed, Spoken
  <2>3. AnswersAreNews /\ StageSpeaks
    BY DEF Init, AnswersAreNews, StageSpeaks, Idle
  <2> QED BY <2>2, <2>3 DEF Told
<1>4. \A q \in Queue : Owed(q) = {}
  BY DEF Init, Owed
<1>5. Bells /\ OwedWasRung
  BY <1>4 DEF Init, Bells, OwedWasRung, Queue
<1> QED BY <1>1, <1>2, <1>3, <1>5 DEF DeliveryInv

(* What a hook becomes, when what it holds are entries.                    *)
LEMMA HookBecomes ==
  ASSUME Types, NEW h \in Hook, NEW c \in HookState, hook' = [hook EXCEPT ![h] = c],
         c.host \in Harness \/ c = Idle, c.left \subseteq c.say
  PROVE  /\ hook' \in [Hook -> HookState]
         /\ \A g \in Hook :
              /\ hook'[g].host \in Harness \/ hook'[g] = Idle
              /\ hook'[g].answers \cup hook'[g].read \cup hook'[g].say \subseteq Entry
              /\ hook'[g].left \subseteq hook'[g].say
<1>1. hook'[h] = c /\ \A g \in Hook : g # h => hook'[g] = hook[g]
  BY DEF Types
<1>2. c.answers \cup c.read \cup c.say \subseteq Entry
  BY DEF HookState
<1>3. hook' \in [Hook -> HookState]
  BY DEF Types
<1> QED BY <1>1, <1>2, <1>3 DEF Types, TypeOK

(* A hook that ends holds nothing. *)
LEMMA HookEnds ==
  ASSUME Types, NEW h \in Hook, Ends(h)
  PROVE  /\ hook' \in [Hook -> HookState]
         /\ \A g \in Hook :
              /\ hook'[g].host \in Harness \/ hook'[g] = Idle
              /\ hook'[g].answers \cup hook'[g].read \cup hook'[g].say \subseteq Entry
              /\ hook'[g].left \subseteq hook'[g].say
<1>1. Idle \in HookState /\ Idle.left \subseteq Idle.say
  BY DEF Idle, HookState
<1> QED BY <1>1, HookBecomes DEF Ends

(* Storing, chiming, starting, ending and glancing keep the types. *)
LEMMA TypesOfProcesses ==
  ASSUME Types,
         \/ Store \/ Chime
         \/ \E p \in Socket : Start(p) \/ End(p)
         \/ \E s \in Serve : Glance(s) \/ Enqueue(s)
  PROVE  Types'
<1> USE DEF Types
<1>1. ASSUME NEW p \in Socket, Start(p) \/ End(p) PROVE Types'
  <2>1. Socket \subseteq Key
    BY DEF Key
  <2>2. faults' \in 0..MaxFaults
    BY <1>1 DEF Start, End, Fail, TypeOK
  <2>3. glance' \in [Serve -> {"none", "empty", "owing"}]
          /\ \A s \in Serve : glance'[s] # "none" => glance[s] # "none"
    BY <1>1 DEF Start, End, TypeOK, bell
  <2> QED BY <1>1, <2>1, <2>2, <2>3 DEF Start, End, TypeOK, bell, ghosts, Held
<1>2. ASSUME NEW s \in Serve, Glance(s) PROVE Types'
  BY <1>2 DEF Glance, TypeOK, ghosts
<1>3. ASSUME NEW s \in Serve, Enqueue(s) PROVE Types'
  <2>1. s \in Queue /\ arrived[s] \in 0..Last /\ arrived[s] < Last
    BY <1>3 DEF Queue, Enqueue, TypeOK
  <2>2. arrived[s] + 1 \in 0..Last
    BY <2>1
  <2>3. arrived' \in [Queue -> 0..Last] /\ \A q \in Queue : q # s => arrived'[q] = arrived[q]
    BY <1>3, <2>1, <2>2 DEF Enqueue, TypeOK
  <2>4. glance' \in [Serve -> {"none", "empty", "owing"}]
          /\ glance'[s] = "none" /\ \A g \in Serve : g # s => glance'[g] = glance[g]
    <3>1. glance' = [glance EXCEPT ![s] = "none"]
      BY <1>3 DEF Enqueue
    <3> QED BY <3>1 DEF TypeOK
  <2>5. heard' \cup missed' \subseteq Queue /\ woken' \in BOOLEAN
    <3>1. heard' \in {heard, heard \cup {s}} /\ missed' \in {missed, missed \cup {s}}
            /\ (woken' = TRUE \/ woken' = woken)
      BY <1>3 DEF Enqueue
    <3>2. heard \cup missed \subseteq Queue /\ woken \in BOOLEAN
      BY DEF TypeOK
    <3> QED BY <2>1, <3>1, <3>2
  <2>6. \A g \in Serve : glance'[g] # "none" => arrived'[g] < Last
    BY <2>3, <2>4 DEF Queue
  <2> QED BY <1>3, <2>3, <2>4, <2>5, <2>6 DEF Enqueue, TypeOK, ghosts
<1>4. ASSUME Store PROVE Types'
  <2>1. \A q \in Queue : arrived[q] \in 0..Last /\ (q \in Harness => arrived[q] < Last)
    BY <1>4 DEF Store, TypeOK, Queue
  <2> DEFINE next(q) == IF q \in Harness THEN arrived[q] + 1 ELSE arrived[q]
  <2>2. \A q \in Queue : next(q) \in 0..Last
    BY <2>1
  <2>3. arrived' \in [Queue -> 0..Last]
    <3>1. arrived' = [q \in Queue |-> next(q)]
      BY <1>4 DEF Store
    <3> HIDE DEF next
    <3> QED BY <2>2, <3>1
  <2>4. \A s \in Serve : arrived'[s] = arrived[s]
    BY <1>4 DEF Store, Queue
  <2> QED BY <1>4, <2>3, <2>4 DEF Store, TypeOK, ghosts
<1>5. ASSUME Chime PROVE Types'
  <2>1. heard' \cup missed \subseteq Queue /\ woken' \in BOOLEAN /\ chiming' \in BOOLEAN
    BY <1>5 DEF Chime, TypeOK, OwesJustThis, Queue
  <2> QED BY <1>5, <2>1 DEF Chime, TypeOK, ghosts
<1> QED BY <1>1, <1>2, <1>3, <1>4, <1>5

(* What a step says of the sets it adds to, and of what a hook becomes. *)
LEMMA TypesOfHooks ==
  ASSUME Types, NEW h \in Hook,
         \/ \E g \in Harness, k \in Kind : AskSockets(h, g, k)
         \/ AskDaemon(h) \/ ParkOwed(h) \/ Decide(h) \/ Refuse(h)
         \/ \E x \in hook[h].left : Consume(h, x)
         \/ Unstage(h) \/ Die(h) \/ Emit(h)
  PROVE  /\ hook' \in [Hook -> HookState]
         /\ \A g \in Hook :
              /\ hook'[g].host \in Harness \/ hook'[g] = Idle
              /\ hook'[g].answers \cup hook'[g].read \cup hook'[g].say \subseteq Entry
              /\ hook'[g].left \subseteq hook'[g].say
         /\ faults' \in 0..MaxFaults
<1> DEFINE Good(c) == c \in HookState /\ (c.host \in Harness \/ c = Idle) /\ c.left \subseteq c.say
           Kept == /\ hook' \in [Hook -> HookState]
                   /\ \A g \in Hook :
                        /\ hook'[g].host \in Harness \/ hook'[g] = Idle
                        /\ hook'[g].answers \cup hook'[g].read \cup hook'[g].say \subseteq Entry
                        /\ hook'[g].left \subseteq hook'[g].say
<1>0. /\ hook[h] \in HookState /\ hook[h].left \subseteq hook[h].say
      /\ hook[h].host \in Harness \/ hook[h] = Idle
      /\ stage \subseteq Entry /\ \A xs \in SUBSET Entry : Owing(xs) \in SUBSET Entry
  BY DEF Types, TypeOK, Owing
<1>1. ASSUME NEW c, Good(c), hook' = [hook EXCEPT ![h] = c] PROVE Kept
  BY <1>1, HookBecomes
<1>2. ASSUME Ends(h) PROVE Kept
  BY <1>2, HookEnds
<1> HIDE DEF Kept
<1>3. faults' \in 0..MaxFaults
  <2>1. faults \in 0..MaxFaults /\ \A kind : Fail(kind) => faults' \in 0..MaxFaults
    BY DEF Fail, Types, TypeOK
  <2>2. ASSUME NEW g \in Harness, NEW k \in Kind, AskSockets(h, g, k)
        PROVE  faults' = faults \/ Fail("late")
    BY <2>2 DEF AskSockets
  <2>3. AskDaemon(h) => faults' = faults \/ Fail("late")
    BY DEF AskDaemon
  <2>4. \A x \in hook[h].left : Consume(h, x) => faults' = faults \/ Fail("lost")
    BY Zenon DEF Consume
  <2>5. ParkOwed(h) \/ Decide(h) \/ Refuse(h) \/ Emit(h) \/ Unstage(h) => faults' = faults
    BY DEF ParkOwed, Decide, Refuse, Emit, Unstage
  <2>6. Die(h) => Fail("kill")
    BY DEF Die
  <2> QED BY <2>1, <2>2, <2>3, <2>4, <2>5, <2>6
<1>4. ASSUME NEW g \in Harness, NEW k \in Kind, AskSockets(h, g, k) PROVE Kept
  <2> DEFINE asked == {p \in Socket : life[p] = "up"}
             all == {Answer(p, g) : p \in asked}
  <2>1. all \subseteq Entry /\ \A p \in asked : Nothing(p) \in Entry
    BY AnswersAreEntries
  <2>2. PICK got : /\ got \in {all} \cup {{x \in all : x.key # p} : p \in asked}
                             \cup {{x \in all : x.key # p} \cup {Nothing(p)} : p \in asked \cap Front}
                   /\ hook' = [hook EXCEPT ![h] = [Idle EXCEPT !.step = "daemon", !.kind = k,
                                                               !.host = g, !.answers = got]]
    BY <1>4 DEF AskSockets
  <2>3. got \in SUBSET Entry
    BY <2>1, <2>2
  <2> HIDE DEF all, asked
  <2>4. Good([Idle EXCEPT !.step = "daemon", !.kind = k, !.host = g, !.answers = got])
    BY <2>3 DEF Idle, HookState
  <2> QED BY <1>1, <2>2, <2>4
<1>5. ASSUME AskDaemon(h) PROVE Kept
  <2>1. PICK got : /\ got \subseteq hook[h].answers \cup {PeekOf(hook[h].host, Daemon)}
                   /\ hook' = [hook EXCEPT ![h].answers = got, ![h].step = "decide"]
    BY <1>5 DEF AskDaemon, MergeAnswers
  <2>2. hook[h].host \in Harness
    BY <1>0, <1>5 DEF AskDaemon, Idle
  <2>3. got \in SUBSET Entry
    BY <1>0, <2>1, <2>2, AnswersAreEntries DEF HookState
  <2>4. Good([hook[h] EXCEPT !.answers = got, !.step = "decide"])
    BY <1>0, <2>2, <2>3 DEF HookState
  <2>5. hook' = [hook EXCEPT ![h] = [hook[h] EXCEPT !.answers = got, !.step = "decide"]]
    BY <2>1 DEF Types
  <2> QED BY <1>1, <2>4, <2>5
<1>6. ASSUME ParkOwed(h) \/ Unstage(h) \/ Die(h) PROVE Kept
  BY <1>2, <1>6 DEF ParkOwed, Unstage, Die
<1>7. ASSUME Decide(h) PROVE Kept
  <2>1. CASE Ends(h)
    BY <1>2, <2>1
  <2>2. CASE ~Ends(h)
    <3> DEFINE Says(say, step) ==
                 [hook EXCEPT ![h].read = stage, ![h].say = say, ![h].left = say, ![h].step = step]
    <3>1. PICK say \in SUBSET Entry, step \in {"emit", "unstage"} : hook' = Says(say, step)
      <4> DEFINE says == Owing(hook[h].answers) \cup Owing(FromStage(h, stage))
      <4>1. says \in SUBSET Entry
        BY <1>0 DEF HookState, FromStage, Owing
      <4>2. hook' = Says(says, IF says # {} THEN "emit" ELSE "unstage")
        BY <1>7, <2>2 DEF Decide
      <4> HIDE DEF says, Says
      <4> QED BY <4>1, <4>2
    <3>2. hook[h].host \in Harness
      BY <1>0, <1>7 DEF Decide, At, Idle
    <3>3. Good([hook[h] EXCEPT !.read = stage, !.say = say, !.left = say, !.step = step])
      BY <1>0, <3>1, <3>2 DEF HookState
    <3>4. hook' = [hook EXCEPT ![h] = [hook[h] EXCEPT !.read = stage, !.say = say, !.left = say, !.step = step]]
      BY <3>1 DEF Types
    <3> QED BY <1>1, <3>3, <3>4
  <2> QED BY <2>1, <2>2
<1>8. ASSUME Refuse(h) PROVE Kept
  <2>1. CASE Ends(h)
    BY <1>2, <2>1
  <2>2. CASE ~Ends(h)
    <3> DEFINE say == Owing(hook[h].answers)
    <3>1. say \in SUBSET Entry
      BY <1>0 DEF HookState, Owing
    <3>2. hook' = [hook EXCEPT ![h].say = say, ![h].left = say, ![h].step = "emit"]
      BY <1>8, <2>2 DEF Refuse
    <3> HIDE DEF say
    <3>3. hook[h].host \in Harness
      BY <1>0, <1>8 DEF Refuse, At, Idle
    <3>4. Good([hook[h] EXCEPT !.say = say, !.left = say, !.step = "emit"])
      BY <1>0, <3>1, <3>3 DEF HookState
    <3>5. hook' = [hook EXCEPT ![h] = [hook[h] EXCEPT !.say = say, !.left = say, !.step = "emit"]]
      BY <3>2 DEF Types
    <3> QED BY <1>1, <3>4, <3>5
  <2> QED BY <2>1, <2>2
<1>9. ASSUME Emit(h) PROVE Kept
  <2>1. hook[h].host \in Harness
    BY <1>0, <1>9 DEF Emit, Idle
  <2>2. Good([hook[h] EXCEPT !.step = "consume"])
    BY <1>0, <2>1 DEF HookState
  <2>3. hook' = [hook EXCEPT ![h] = [hook[h] EXCEPT !.step = "consume"]]
    BY <1>9 DEF Emit
  <2> QED BY <1>1, <2>2, <2>3
<1>10. ASSUME NEW x \in hook[h].left, Consume(h, x) PROVE Kept
  <2>1. CASE Ends(h)
    BY <1>2, <2>1
  <2>2. CASE ~Ends(h)
    <3> DEFINE Left(left, step) == [hook EXCEPT ![h].left = left, ![h].step = step]
    <3>1. PICK left \in SUBSET hook[h].left, step \in {"consume", "unstage"} :
            hook' = Left(left, step)
      <4>1. CASE hook[h].left # {x}
        <5>1. hook[h].step = "consume" /\ hook' = [hook EXCEPT ![h].left = hook[h].left \ {x}]
          BY <1>10, <4>1 DEF Consume
        <5>2. [hook[h] EXCEPT !.left = hook[h].left \ {x}]
                = [hook[h] EXCEPT !.left = hook[h].left \ {x}, !.step = "consume"]
          BY <1>0, <5>1 DEF HookState
        <5>3. hook' = Left(hook[h].left \ {x}, "consume")
          BY <5>1, <5>2 DEF Types
        <5> HIDE DEF Left
        <5> QED BY <5>3
      <4>2. CASE hook[h].left = {x}
        <5>1. hook' = Left({}, "unstage")
          BY <1>10, <2>2, <4>2 DEF Consume
        <5> HIDE DEF Left
        <5> QED BY <5>1
      <4> QED BY <4>1, <4>2
    <3>2. hook[h].host \in Harness
      BY <1>0, <1>10 DEF Consume, Idle
    <3>3. Good([hook[h] EXCEPT !.left = left, !.step = step])
      BY <1>0, <3>1, <3>2 DEF HookState
    <3>4. hook' = [hook EXCEPT ![h] = [hook[h] EXCEPT !.left = left, !.step = step]]
      BY <3>1 DEF Types
    <3> QED BY <1>1, <3>3, <3>4
  <2> QED BY <2>1, <2>2
<1>11. Kept
  BY <1>4, <1>5, <1>6, <1>7, <1>8, <1>9, <1>10
<1> QED BY <1>3, <1>11 DEF Kept

(* A step keeps the types. *)
LEMMA TypesNext ==
  ASSUME DeliveryInv, Next PROVE Types'
<1>0. Types
  BY DEF DeliveryInv
<1> DEFINE HookTyped ==
             /\ hook' \in [Hook -> HookState]
             /\ \A g \in Hook :
                  /\ hook'[g].host \in Harness \/ hook'[g] = Idle
                  /\ hook'[g].answers \cup hook'[g].read \cup hook'[g].say \subseteq Entry
                  /\ hook'[g].left \subseteq hook'[g].say
             /\ faults' \in 0..MaxFaults
           Rest ==
             /\ UNCHANGED <<life, arrived, glance, chiming>>
             /\ cursor' \in [Queue -> 0..Last] /\ seen' \in [Queue -> [1..Last -> 0..2]]
             /\ woken' \in BOOLEAN /\ heard' \cup missed' \subseteq Queue
             /\ stage' \subseteq Entry /\ again' \subseteq Event /\ borrowed' \subseteq Harness
             /\ parked' \subseteq Event /\ \A ev \in parked' : ev[1] \in Serve
<1>1. HookTyped /\ Rest => Types'
  BY <1>0 DEF Types, TypeOK
<1>2. /\ cursor \in [Queue -> 0..Last] /\ seen \in [Queue -> [1..Last -> 0..2]]
      /\ woken \in BOOLEAN /\ heard \cup missed \subseteq Queue
      /\ stage \subseteq Entry /\ again \subseteq Event /\ borrowed \subseteq Harness
      /\ parked \subseteq Event /\ \A ev \in parked : ev[1] \in Serve
  BY <1>0 DEF Types, TypeOK
<1>3. ASSUME NEW h \in Hook,
         \/ \E g \in Harness, k \in Kind : AskSockets(h, g, k)
         \/ AskDaemon(h) \/ ParkOwed(h) \/ Decide(h) \/ Refuse(h)
         \/ \E x \in hook[h].left : Consume(h, x)
         \/ Unstage(h) \/ Die(h) \/ Emit(h)
      PROVE HookTyped
  BY <1>0, <1>3, TypesOfHooks
<1> HIDE DEF HookTyped
<1>4. \A h \in Hook : /\ hook[h].answers \cup hook[h].say \cup hook[h].left \subseteq Entry
                      /\ hook[h].step # "idle" => hook[h].host \in Harness
                      /\ Held(h) \subseteq Event /\ HeldByOthers(h) \subseteq Event
                      /\ InHand(hook[h].say, hook[h].host) \subseteq Event
  BY <1>0, HeldEvents DEF Types, TypeOK, Idle
<1>5. ASSUME NEW h \in Hook, NEW g \in Harness, NEW k \in Kind, AskSockets(h, g, k) PROVE Rest
  <2>1. \E got : again' = again \cup (InHand(got, g) \cap HeldByOthers(h))
    BY <1>5 DEF AskSockets
  <2>2. woken' \in BOOLEAN
    BY <1>5 DEF AskSockets
  <2> QED BY <1>2, <1>4, <1>5, <2>1, <2>2 DEF AskSockets
<1>6. ASSUME NEW h \in Hook, AskDaemon(h) PROVE Rest
  <2>1. \E got : again' = again \cup (InHand(got, hook[h].host) \cap HeldByOthers(h))
    BY <1>6 DEF AskDaemon
  <2> QED BY <1>2, <1>4, <1>6, <2>1 DEF AskDaemon, bell
<1>7. ASSUME NEW h \in Hook, ParkOwed(h) PROVE Rest
  <2> DEFINE owed == Owing(hook[h].answers)
  <2>1. owed \in SUBSET Entry
    BY <1>4 DEF Owing
  <2>2. /\ stage' \in {stage, owed}
        /\ parked' \in {parked, parked \cup Named({x \in owed : x.of \in Serve})}
    BY <1>7 DEF ParkOwed
  <2> HIDE DEF owed
  <2> QED BY <1>2, <1>7, <2>1, <2>2, NamedEvents DEF ParkOwed, bell
<1>8. ASSUME NEW h \in Hook, Decide(h) \/ Refuse(h) PROVE Rest
  BY <1>2, <1>8 DEF Decide, Refuse, bell, ghosts
<1>9. ASSUME NEW h \in Hook, Emit(h) PROVE Rest
  <2>1. hook[h].host \in Harness /\ hook[h].say \subseteq Entry
    BY <1>4, <1>9 DEF Emit
  <2> DEFINE evs(xs) == {ev \in UNION {ToAgent(x, hook[h].host) : x \in xs} : Counts(ev, hook[h].host)}
  <2>2. Given(evs(hook[h].say))
        /\ again' = again \cup (evs(hook[h].say) \cap HeldByOthers(h))
                      \cup {ev \in evs(FromUnreached(h)) : seen[ev[1]][ev[2]] > 0}
    BY <1>9 DEF Emit
  <2>3. \A xs \in SUBSET Entry : evs(xs) \subseteq Event
    BY <2>1, ToAgentEvents
  <2>4. FromUnreached(h) \in SUBSET Entry
    BY <2>1 DEF FromUnreached
  <2> HIDE DEF evs
  <2>5. again' \subseteq Event
    BY <1>2, <1>4, <2>2, <2>3, <2>4
  <2>6. seen' \in [Queue -> [1..Last -> 0..2]]
    BY <1>0, <2>2, GivenCounts
  <2> QED BY <1>2, <1>9, <2>5, <2>6 DEF Emit, bell
<1>10. ASSUME NEW h \in Hook, NEW x \in hook[h].left, Consume(h, x) PROVE Rest
  <2>1. x \in Entry /\ hook[h].host \in Harness /\ x.upTo \in 0..Last
    BY <1>4, <1>10 DEF Consume, Entry
  <2>2. ToAgent(x, hook[h].host) \subseteq Event
    BY <2>1, ToAgentEvents
  <2>3. Target(x, hook[h].host) \in Queue
    BY <2>1 DEF Target, Queue
  <2>4. CASE /\ Advances(Target(x, hook[h].host), UpTo(x))
             /\ borrowed' \in {borrowed, borrowed \cup {hook[h].host}}
             /\ UNCHANGED <<again, faults>>
    <3>1. cursor' \in [Queue -> 0..Last] /\ heard' \subseteq heard /\ missed' \subseteq missed
      BY <1>0, <2>1, <2>3, <2>4, Advanced DEF UpTo
    <3> QED BY <1>2, <1>10, <2>1, <2>4, <3>1 DEF Consume
  <2>5. CASE /\ again' = again \cup ToAgent(x, hook[h].host)
             /\ UNCHANGED <<cursor, heard, missed, borrowed>>
    BY <1>2, <1>10, <2>2, <2>5 DEF Consume
  <2> QED BY <1>10, <2>4, <2>5 DEF Consume
<1>11. ASSUME NEW h \in Hook, Unstage(h) PROVE Rest
  BY <1>2, <1>11 DEF Unstage, bell
<1>12. ASSUME NEW h \in Hook, Die(h) PROVE Rest
  <2>1. hook[h].host \in Harness
    BY <1>4, <1>12 DEF Die
  <2>2. InHand(stage, hook[h].host) \subseteq Event
    BY <1>2, <2>1, InHandEvents
  <2>3. again' \in {again, again \cup InHand(hook[h].say, hook[h].host), again \cup InHand(stage, hook[h].host)}
    BY <1>12 DEF Die
  <2> QED BY <1>2, <1>4, <1>12, <2>2, <2>3 DEF Die, bell
<1>13. ASSUME NEW s \in Serve, Flush(s) PROVE Types'
  <2>1. s \in Queue /\ arrived[s] \in 0..Last
    BY <1>0 DEF Queue, Types, TypeOK
  <2>2. cursor' \in [Queue -> 0..Last] /\ heard' \subseteq heard /\ missed' \subseteq missed
    BY <1>0, <1>13, <2>1, Advanced DEF Flush
  <2>3. seen' \in [Queue -> [1..Last -> 0..2]]
    BY <1>0, <1>13, GivenCounts DEF Flush
  <2>4. again' \subseteq Event
    <3>1. UNION {Held(h) : h \in Hook} \subseteq Event
      BY <1>4
    <3> QED BY <1>2, <1>13, <3>1 DEF Flush
  <2> QED BY <1>0, <1>13, <2>2, <2>3, <2>4 DEF Flush, Types, TypeOK
<1> HIDE DEF Rest
<1>14. ASSUME NEW h \in Hook,
         \/ \E g \in Harness, k \in Kind : AskSockets(h, g, k)
         \/ AskDaemon(h) \/ ParkOwed(h) \/ Decide(h) \/ Refuse(h) \/ Emit(h)
         \/ \E x \in hook[h].left : Consume(h, x)
         \/ Unstage(h) \/ Die(h)
       PROVE Types'
  <2>1. HookTyped
    BY <1>3, <1>14
  <2>2. Rest
    BY <1>5, <1>6, <1>7, <1>8, <1>9, <1>10, <1>11, <1>12, <1>14
  <2> QED BY <1>1, <2>1, <2>2
<1> QED BY <1>0, <1>13, <1>14, TypesOfProcesses DEF Next

-----------------------------------------------------------------------------
(* What each step makes of its hook, field by field.                       *)

Others(h) == \A g \in Hook : g # h => hook'[g] = hook[g]
Peeks(g) == {Answer(k, g) : k \in Socket} \cup {Nothing(k) : k \in Socket} \cup {PeekOf(g, Daemon)}
Ended(h) == hook'[h] = Idle /\ Others(h)

(* What asking the sockets makes of a hook. *)
LEMMA AskSocketsHook ==
  ASSUME Types, NEW h \in Hook, NEW g \in Harness, NEW k \in Kind, AskSockets(h, g, k)
  PROVE  \E got \in SUBSET Peeks(g) :
           /\ hook'[h].step = "daemon" /\ hook'[h].host = g /\ hook'[h].answers = got
           /\ hook'[h].read = {} /\ hook'[h].say = {} /\ hook'[h].left = {} /\ Others(h)
           /\ again' = again \cup (InHand(got, g) \cap HeldByOthers(h))
<1> DEFINE asked == {p \in Socket : life[p] = "up"}
           all == {Answer(p, g) : p \in asked}
           new(got) == [Idle EXCEPT !.step = "daemon", !.kind = k, !.host = g, !.answers = got]
<1>1. PICK got : /\ got \in {all} \cup {{x \in all : x.key # p} : p \in asked}
                           \cup {{x \in all : x.key # p} \cup {Nothing(p)} : p \in asked \cap Front}
                 /\ hook' = [hook EXCEPT ![h] = new(got)]
                 /\ again' = again \cup (InHand(got, g) \cap HeldByOthers(h))
  BY DEF AskSockets
<1>2. got \in SUBSET Peeks(g)
  BY <1>1 DEF Peeks
<1>3. /\ new(got).step = "daemon" /\ new(got).host = g /\ new(got).answers = got
      /\ new(got).read = {} /\ new(got).say = {} /\ new(got).left = {}
  BY DEF Idle
<1> HIDE DEF new
<1>4. hook'[h] = new(got) /\ Others(h)
  BY <1>1 DEF Types, Others
<1> QED BY <1>1, <1>2, <1>3, <1>4

(* What asking the daemon makes of a hook. *)
LEMMA AskDaemonHook ==
  ASSUME Types, NEW h \in Hook, AskDaemon(h)
  PROVE  /\ hook[h].host \in Harness /\ hook[h].step = "daemon"
         /\ \E got \in SUBSET (hook[h].answers \cup Peeks(hook[h].host)) :
              /\ hook'[h] = [hook[h] EXCEPT !.answers = got, !.step = "decide"]
              /\ hook'[h].step = "decide" /\ hook'[h].host = hook[h].host /\ hook'[h].answers = got
              /\ hook'[h].read = hook[h].read /\ hook'[h].say = hook[h].say /\ Others(h)
              /\ again' = again \cup (InHand(got, hook[h].host) \cap HeldByOthers(h))
<1>1. PICK got : /\ got \subseteq hook[h].answers \cup {PeekOf(hook[h].host, Daemon)}
                 /\ hook' = [hook EXCEPT ![h].answers = got, ![h].step = "decide"]
                 /\ again' = again \cup (InHand(got, hook[h].host) \cap HeldByOthers(h))
  BY DEF AskDaemon, MergeAnswers
<1>2. hook[h].host \in Harness /\ hook[h].step = "daemon" /\ hook[h] \in HookState
  BY DEF AskDaemon, Types, Idle
<1>3. got \in SUBSET (hook[h].answers \cup Peeks(hook[h].host))
  BY <1>1 DEF Peeks
<1> DEFINE new == [hook[h] EXCEPT !.answers = got, !.step = "decide"]
<1>4. /\ new.step = "decide" /\ new.host = hook[h].host /\ new.answers = got
      /\ new.read = hook[h].read /\ new.say = hook[h].say
  BY <1>2 DEF HookState
<1>5. hook' = [hook EXCEPT ![h] = new]
  BY <1>1 DEF Types
<1> HIDE DEF new
<1>6. hook'[h] = new /\ Others(h)
  BY <1>5 DEF Types, Others
<1> QED BY <1>1, <1>2, <1>3, <1>4, <1>6 DEF new

(* What ending makes of a hook. *)
LEMMA EndsHook ==
  ASSUME Types, NEW h \in Hook, Ends(h)
  PROVE  /\ Ended(h) /\ hook'[h].step = "idle" /\ hook'[h].answers = {} /\ hook'[h].read = {}
         /\ hook'[h].say = {} /\ hook'[h].left = {}
<1>1. hook'[h] = Idle /\ Others(h)
  BY DEF Types, Others, Ends
<1> QED BY <1>1 DEF Ended, Idle

(* What deciding makes of a hook. *)
LEMMA DecideHook ==
  ASSUME Types, NEW h \in Hook, Decide(h), ~Ends(h)
  PROVE  /\ hook'[h].step \in {"emit", "unstage"} /\ hook'[h].read = stage
         /\ hook'[h].say = Owing(hook[h].answers) \cup Owing(FromStage(h, stage))
         /\ hook'[h].left = hook'[h].say /\ (hook'[h].step = "unstage" => hook'[h].say = {})
         /\ hook'[h].answers = hook[h].answers /\ hook'[h].host = hook[h].host
         /\ hook'[h].kind = hook[h].kind /\ Others(h)
<1> DEFINE say == Owing(hook[h].answers) \cup Owing(FromStage(h, stage))
           step == IF say # {} THEN "emit" ELSE "unstage"
           new == [hook[h] EXCEPT !.read = stage, !.say = say, !.left = say, !.step = step]
<1>1. hook' = [hook EXCEPT ![h].read = stage, ![h].say = say, ![h].left = say, ![h].step = step]
  BY DEF Decide
<1> HIDE DEF say
<1>2. hook' = [hook EXCEPT ![h] = new]
  BY <1>1 DEF Types
<1>3. /\ new.step = step /\ new.read = stage /\ new.say = say /\ new.left = say
      /\ new.answers = hook[h].answers /\ new.host = hook[h].host /\ new.kind = hook[h].kind
  BY DEF Types, HookState
<1> HIDE DEF new
<1>4. hook'[h] = new /\ Others(h)
  BY <1>2 DEF Types, Others
<1> QED BY <1>3, <1>4 DEF say

(* What refusing a stop makes of a hook. *)
LEMMA RefuseHook ==
  ASSUME Types, NEW h \in Hook, Refuse(h), ~Ends(h)
  PROVE  /\ hook'[h].step = "emit" /\ hook'[h].say = Owing(hook[h].answers)
         /\ hook'[h].left = hook'[h].say /\ hook'[h].read = hook[h].read
         /\ hook'[h].answers = hook[h].answers /\ hook'[h].host = hook[h].host
         /\ hook'[h].kind = hook[h].kind /\ Others(h)
<1> DEFINE say == Owing(hook[h].answers)
           new == [hook[h] EXCEPT !.say = say, !.left = say, !.step = "emit"]
<1>1. hook' = [hook EXCEPT ![h].say = say, ![h].left = say, ![h].step = "emit"]
  BY DEF Refuse
<1> HIDE DEF say
<1>2. hook' = [hook EXCEPT ![h] = new]
  BY <1>1 DEF Types
<1>3. /\ new.step = "emit" /\ new.read = hook[h].read /\ new.say = say /\ new.left = say
      /\ new.answers = hook[h].answers /\ new.host = hook[h].host /\ new.kind = hook[h].kind
  BY DEF Types, HookState
<1> HIDE DEF new
<1>4. hook'[h] = new /\ Others(h)
  BY <1>2 DEF Types, Others
<1> QED BY <1>3, <1>4 DEF say

(* What speaking makes of a hook. *)
LEMMA EmitHook ==
  ASSUME Types, NEW h \in Hook, Emit(h)
  PROVE  /\ hook[h].step = "emit" /\ hook'[h].step = "consume" /\ hook[h].host \in Harness
         /\ hook'[h].say = hook[h].say /\ hook'[h].left = hook[h].left /\ hook'[h].read = hook[h].read
         /\ hook'[h].answers = hook[h].answers /\ hook'[h].host = hook[h].host
         /\ hook'[h].kind = hook[h].kind /\ Others(h)
<1> DEFINE new == [hook[h] EXCEPT !.step = "consume"]
<1>1. hook' = [hook EXCEPT ![h] = new] /\ hook[h].step = "emit"
  BY DEF Emit
<1>2. hook[h].host \in Harness
  BY <1>1 DEF Types, Idle
<1>3. /\ new.step = "consume" /\ new.read = hook[h].read /\ new.say = hook[h].say
      /\ new.left = hook[h].left
      /\ new.answers = hook[h].answers /\ new.host = hook[h].host /\ new.kind = hook[h].kind
  BY DEF Types, HookState
<1> HIDE DEF new
<1>4. hook'[h] = new /\ Others(h)
  BY <1>1 DEF Types, Others
<1> QED BY <1>1, <1>2, <1>3, <1>4

(* What consuming one answer makes of a hook. *)
LEMMA ConsumeHook ==
  ASSUME Types, NEW h \in Hook, NEW x \in hook[h].left, Consume(h, x)
  PROVE  /\ hook[h].step = "consume" /\ hook[h].host \in Harness
         /\ \/ Ends(h) /\ hook[h].left = {x}
            \/ /\ hook'[h].step = "consume" \/ (hook'[h].step = "unstage" /\ hook[h].left = {x})
               /\ hook'[h].left = hook[h].left \ {x}
               /\ hook'[h].say = hook[h].say /\ hook'[h].read = hook[h].read
               /\ hook'[h].answers = hook[h].answers /\ hook'[h].host = hook[h].host
               /\ hook'[h].kind = hook[h].kind /\ Others(h)
<1>1. hook[h].step = "consume"
  BY DEF Consume
<1>2. hook[h].host \in Harness /\ hook[h] \in HookState
  BY <1>1 DEF Types, Idle
<1> DEFINE new(left, step) == [hook[h] EXCEPT !.left = left, !.step = step]
<1>3. ASSUME NEW left, NEW step, hook' = [hook EXCEPT ![h] = new(left, step)]
      PROVE  /\ hook'[h].step = step /\ hook'[h].left = left
             /\ hook'[h].say = hook[h].say /\ hook'[h].read = hook[h].read
             /\ hook'[h].answers = hook[h].answers /\ hook'[h].host = hook[h].host
             /\ hook'[h].kind = hook[h].kind /\ Others(h)
  <2>1. /\ new(left, step).step = step /\ new(left, step).left = left
        /\ new(left, step).say = hook[h].say /\ new(left, step).read = hook[h].read
        /\ new(left, step).answers = hook[h].answers /\ new(left, step).host = hook[h].host
        /\ new(left, step).kind = hook[h].kind
    BY <1>2 DEF HookState
  <2> HIDE DEF new
  <2>2. hook'[h] = new(left, step) /\ Others(h)
    BY <1>3 DEF Types, Others
  <2> QED BY <2>1, <2>2
<1>4. CASE hook[h].left # {x}
  <2>1. hook' = [hook EXCEPT ![h].left = hook[h].left \ {x}]
    BY <1>4 DEF Consume
  <2>2. [hook[h] EXCEPT !.left = hook[h].left \ {x}] = new(hook[h].left \ {x}, "consume")
    BY <1>1, <1>2 DEF HookState
  <2>3. hook' = [hook EXCEPT ![h] = new(hook[h].left \ {x}, "consume")]
    BY <2>1, <2>2
  <2> HIDE DEF new
  <2> QED BY <1>1, <1>2, <1>3, <2>3
<1>5. CASE hook[h].left = {x} /\ ~Ends(h)
  <2>1. hook' = [hook EXCEPT ![h].left = {}, ![h].step = "unstage"]
    BY <1>5 DEF Consume
  <2>2. hook' = [hook EXCEPT ![h] = new({}, "unstage")]
    BY <2>1 DEF Types
  <2>3. hook[h].left \ {x} = {}
    BY <1>5
  <2> HIDE DEF new
  <2> QED BY <1>1, <1>2, <1>3, <1>5, <2>2, <2>3
<1> QED BY <1>1, <1>2, <1>4, <1>5

(* What was given stays given, and no reason is taken back.                *)
LEMMA GrowsNext ==
  ASSUME DeliveryInv, Next
  PROVE  /\ \A q \in Queue : \A e \in 1..Last : Spoken(<<q, e>>) => Spoken(<<q, e>>)'
         /\ borrowed \subseteq borrowed' /\ again \subseteq again'
<1>0. Types
  BY DEF DeliveryInv
<1>1. \A evs : Given(evs) => \A q \in Queue : \A e \in 1..Last : seen'[q][e] >= seen[q][e]
  BY <1>0, GivenCounts
<1>2. \A q \in Queue : \A e \in 1..Last : seen[q][e] \in 0..2
  BY <1>0 DEF Types, TypeOK
<1>3. (\E evs : Given(evs)) \/ UNCHANGED seen
         => \A q \in Queue : \A e \in 1..Last : Spoken(<<q, e>>) => Spoken(<<q, e>>)'
  <2>1. CASE \E evs : Given(evs)
    <3>1. PICK evs : Given(evs)
      BY <2>1
    <3>2. seen' \in [Queue -> [1..Last -> 0..2]]
      BY <1>0, <3>1, GivenCounts
    <3>3. \A q \in Queue : \A e \in 1..Last : seen'[q][e] \in 0..2
      BY <3>2
    <3> QED BY <1>1, <1>2, <3>1, <3>3 DEF Spoken
  <2>2. CASE UNCHANGED seen
    BY <2>2 DEF Spoken
  <2> QED BY <2>1, <2>2
<1>4. (\E evs : Given(evs)) \/ UNCHANGED seen
  <2>1. \A s \in Serve : Flush(s) => \E evs : Given(evs)
    BY Zenon DEF Flush
  <2>2. \A h \in Hook : Emit(h) => \E evs : Given(evs)
    BY Zenon DEF Emit
  <2>3. ASSUME NEW h \in Hook, NEW x \in hook[h].left, Consume(h, x) PROVE UNCHANGED seen
    BY <2>3 DEF Consume
  <2> QED BY <2>1, <2>2, <2>3 DEF Next, Store, Chime, Start, End, Glance, Enqueue, AskSockets,
        AskDaemon, ParkOwed, Decide, Refuse, Unstage, Die
<1>5. borrowed \subseteq borrowed' /\ again \subseteq again'
  <2>1. ASSUME NEW h \in Hook, NEW x \in hook[h].left, Consume(h, x)
        PROVE  borrowed \subseteq borrowed' /\ again \subseteq again'
    BY <2>1 DEF Consume
  <2>2. ASSUME NEW h \in Hook,
               \/ \E g \in Harness, k \in Kind : AskSockets(h, g, k)
               \/ AskDaemon(h) \/ ParkOwed(h) \/ Decide(h) \/ Refuse(h) \/ Emit(h)
               \/ Unstage(h) \/ Die(h)
        PROVE  borrowed \subseteq borrowed' /\ again \subseteq again'
    <3>1. AskDaemon(h) => borrowed \subseteq borrowed' /\ again \subseteq again'
      BY DEF AskDaemon
    <3>2. (\E g \in Harness, k \in Kind : AskSockets(h, g, k)) => borrowed \subseteq borrowed' /\ again \subseteq again'
      BY DEF AskSockets
    <3>3. Emit(h) \/ Die(h) => borrowed \subseteq borrowed' /\ again \subseteq again'
      BY DEF Emit, Die
    <3>4. ParkOwed(h) \/ Decide(h) \/ Refuse(h) \/ Unstage(h) => UNCHANGED <<borrowed, again>>
      BY DEF ParkOwed, Decide, Refuse, Unstage, ghosts
    <3> QED BY <2>2, <3>1, <3>2, <3>3, <3>4
  <2>3. ASSUME NEW s \in Serve, Glance(s) \/ Enqueue(s) \/ Flush(s)
        PROVE  borrowed \subseteq borrowed' /\ again \subseteq again'
    BY <2>3 DEF Glance, Enqueue, Flush, ghosts
  <2>4. ASSUME NEW p \in Socket, Start(p) \/ End(p) PROVE UNCHANGED <<borrowed, again>>
    BY <2>4 DEF Start, End, ghosts
  <2>5. Store \/ Chime => UNCHANGED <<borrowed, again>>
    BY DEF Store, Chime, ghosts
  <2> QED BY <2>1, <2>2, <2>3, <2>4, <2>5 DEF Next
<1> QED BY <1>3, <1>4, <1>5

-----------------------------------------------------------------------------
(* Answers are honest.                                                     *)

(* What came before the first event of a peek was given. *)
LEMMA PeeksAreHonest ==
  ASSUME DeliveryInv, NEW g \in Harness
  PROVE  Peeks(g) \subseteq Entry /\ \A x \in Peeks(g) : Honest(x)
<1>0. Types /\ NeverSwallowed
  BY DEF DeliveryInv, Told
<1>1. \A q \in Queue : \A e \in 1..cursor[q] : q \in borrowed \/ Spoken(<<q, e>>)
  BY <1>0 DEF NeverSwallowed, Spoken
<1>2. ASSUME NEW q \in Queue, NEW k, k \in Serve \/ q \in Serve => q = k
      PROVE  Honest(PeekOf(q, k))
  BY <1>1, <1>2 DEF Honest, PeekOf
<1>3. ASSUME NEW k \in Socket PROVE Honest(Nothing(k))
  BY DEF Honest, Nothing
<1>4. \A k \in Socket : Honest(Answer(k, g))
  <2>1. ASSUME NEW k \in Socket, Answer(k, g) = PeekOf(k, k), k \in Serve PROVE Honest(Answer(k, g))
    BY <1>2, <2>1 DEF Queue
  <2>2. ASSUME NEW k \in Socket, Answer(k, g) = PeekOf(g, k), k \notin Serve PROVE Honest(Answer(k, g))
    BY <1>2, <2>2 DEF Queue
  <2> QED BY <1>3, <2>1, <2>2 DEF Answer
<1>5. Honest(PeekOf(g, Daemon))
  BY <1>2 DEF Queue
<1>6. Peeks(g) \subseteq Entry
  BY <1>0, AnswersAreEntries DEF Peeks
<1> QED BY <1>3, <1>4, <1>5, <1>6 DEF Peeks

(* An answer that is honest stays so: what was given was given. *)
LEMMA HonestStays ==
  ASSUME DeliveryInv, Next, NEW x \in Entry, Honest(x)
  PROVE  Honest(x)'
<1>1. CASE x.from = 0
  BY <1>1 DEF Honest
<1>2. CASE x.of \in Queue
  <2>1. \A e \in 1..x.from : e \in 1..Last
    BY DEF Entry
  <2> QED BY <1>2, <2>1, GrowsNext DEF Honest
<1> QED BY <1>1, <1>2 DEF Honest

(* Whatever the hooks and the stage hold after a step they held before, or *)
(* it was answered just now.                                               *)
LEMMA HonestNext ==
  ASSUME DeliveryInv, Next PROVE AllHonest'
<1>0. Types /\ AllHonest /\ stage \subseteq Entry
        /\ \A h \in Hook : hook[h].answers \cup hook[h].read \cup hook[h].say \subseteq Entry
  BY DEF DeliveryInv, Types, TypeOK
<1> DEFINE Fine(xs) == \A x \in xs : x \in Entry /\ Honest(x)
<1>1. /\ Fine(stage)
      /\ \A h \in Hook : Fine(hook[h].answers \cup hook[h].read \cup hook[h].say)
      /\ \A g \in Harness : Fine(Peeks(g))
  BY <1>0, PeeksAreHonest DEF AllHonest
<1>2. \A xs : Fine(xs) => \A x \in xs : Honest(x)'
  BY HonestStays
<1>3. ASSUME Fine(stage'),
             \A h \in Hook : Fine(hook'[h].answers \cup hook'[h].read \cup hook'[h].say)
      PROVE  AllHonest'
  BY <1>2, <1>3 DEF AllHonest
<1>4. ASSUME UNCHANGED <<stage, hook>> PROVE AllHonest'
  <2>1. Fine(stage') /\ \A h \in Hook : Fine(hook'[h].answers \cup hook'[h].read \cup hook'[h].say)
    BY <1>1, <1>4
  <2> HIDE DEF Fine
  <2> QED BY <1>3, <2>1
<1>5. ASSUME NEW h \in Hook, Others(h), stage' \in {stage, {}, Owing(hook[h].answers)},
             Fine(hook'[h].answers \cup hook'[h].read \cup hook'[h].say)
      PROVE  AllHonest'
  <2>1. Fine(stage')
    BY <1>1, <1>5 DEF Owing
  <2>2. \A g \in Hook : Fine(hook'[g].answers \cup hook'[g].read \cup hook'[g].say)
    <3> HIDE DEF Fine
    <3> QED BY <1>1, <1>5 DEF Others
  <2> HIDE DEF Fine
  <2> QED BY <1>3, <2>1, <2>2
<1>6. ASSUME NEW h \in Hook, Ends(h), stage' \in {stage, {}, Owing(hook[h].answers)} PROVE AllHonest'
  BY <1>0, <1>5, <1>6, EndsHook DEF Ended
<1>7. ASSUME NEW h \in Hook, NEW g \in Harness, NEW k \in Kind, AskSockets(h, g, k) PROVE AllHonest'
  <2>1. UNCHANGED stage
    BY <1>7 DEF AskSockets
  <2>2. Others(h) /\ hook'[h].answers \cup hook'[h].read \cup hook'[h].say \subseteq Peeks(g)
    BY <1>0, <1>7, AskSocketsHook
  <2> QED BY <1>1, <1>5, <2>1, <2>2
<1>8. ASSUME NEW h \in Hook, AskDaemon(h) PROVE AllHonest'
  <2>1. UNCHANGED stage
    BY <1>8 DEF AskDaemon
  <2>2. /\ Others(h) /\ hook[h].host \in Harness
        /\ hook'[h].answers \cup hook'[h].read \cup hook'[h].say
             \subseteq hook[h].answers \cup hook[h].read \cup hook[h].say \cup Peeks(hook[h].host)
    BY <1>0, <1>8, AskDaemonHook
  <2> QED BY <1>1, <1>5, <2>1, <2>2
<1>9. ASSUME NEW h \in Hook, ParkOwed(h) \/ Unstage(h) \/ Die(h) PROVE AllHonest'
  BY <1>6, <1>9 DEF ParkOwed, Unstage, Die
<1>10. ASSUME NEW h \in Hook, Decide(h), ~Ends(h) PROVE AllHonest'
  <2>1. hook'[h].say \subseteq hook[h].answers \cup stage
    BY <1>0, <1>10, DecideHook DEF Owing, FromStage
  <2>2. UNCHANGED stage
    BY <1>10 DEF Decide
  <2> QED BY <1>0, <1>1, <1>5, <1>10, <2>1, <2>2, DecideHook
<1>11. ASSUME NEW h \in Hook, Refuse(h), ~Ends(h) PROVE AllHonest'
  <2>1. hook'[h].say \subseteq hook[h].answers
    BY <1>0, <1>11, RefuseHook DEF Owing
  <2>2. UNCHANGED stage
    BY <1>11 DEF Refuse
  <2> QED BY <1>0, <1>1, <1>5, <1>11, <2>1, <2>2, RefuseHook
<1>12. ASSUME NEW h \in Hook, Emit(h) PROVE AllHonest'
  BY <1>0, <1>1, <1>5, <1>12, EmitHook DEF Emit
<1>13. ASSUME NEW h \in Hook, NEW x \in hook[h].left, Consume(h, x) PROVE AllHonest'
  <2>1. UNCHANGED stage
    BY <1>13 DEF Consume
  <2> QED BY <1>0, <1>1, <1>5, <1>6, <1>13, <2>1, ConsumeHook
<1>14. ASSUME NEW h \in Hook, Decide(h) \/ Refuse(h) PROVE AllHonest'
  BY <1>6, <1>10, <1>11, <1>14 DEF Decide, Refuse
<1>15. Store \/ Chime => UNCHANGED <<stage, hook>>
  BY DEF Store, Chime
<1>16. \A p \in Socket : Start(p) \/ End(p) => UNCHANGED <<stage, hook>>
  BY DEF Start, End
<1>17. \A s \in Serve : Glance(s) \/ Enqueue(s) \/ Flush(s) => UNCHANGED <<stage, hook>>
  BY DEF Glance, Enqueue, Flush
<1> QED BY <1>4, <1>7, <1>8, <1>9, <1>12, <1>13, <1>14, <1>15, <1>16, <1>17 DEF Next

-----------------------------------------------------------------------------
(* What a hook says.                                                       *)

(* The same of one hook. *)
SaysRight(h) ==
  LET x == hook[h] IN
  /\ x.step = "emit" => x.left = x.say
  /\ x.step \in {"emit", "consume", "unstage"} =>
       \A y \in x.say : OwesUpdates(y) /\ (y.key \in Reached(h) => y \in x.answers)
  /\ x.step \in {"emit", "consume", "unstage"} /\ x.kind = "prompt" =>
       \A y \in x.answers \cup FromStage(h, x.read) : OwesUpdates(y) => y \in x.say
  /\ x.step \in {"consume", "unstage"} =>
       \A y \in x.say : \A ev \in ToAgent(y, x.host) : Counts(ev, x.host) => Spoken(ev)

(* A hook says what it was answered, and what it read of the stage. *)
LEMMA SaysNext ==
  ASSUME DeliveryInv, Next PROVE SaysWhatItRead'
<1>0. Types /\ \A h \in Hook : SaysRight(h)
  BY DEF DeliveryInv, SaysWhatItRead, SaysRight
<1>1. ASSUME \A h \in Hook : SaysRight(h)' PROVE SaysWhatItRead'
  BY <1>1 DEF SaysWhatItRead, SaysRight
<1>2. ASSUME NEW h \in Hook, NEW y \in hook[h].say
      PROVE  \A ev \in ToAgent(y, hook[h].host) : Spoken(ev) => Spoken(ev)'
  <2>1. ToAgent(y, hook[h].host) \subseteq Event
    BY <1>0, HeldEvents DEF InHand
  <2> QED BY <2>1, GrowsNext DEF Event
<1>3. ASSUME NEW h \in Hook, hook'[h] = hook[h] PROVE SaysRight(h)'
  <2>1. Reached(h)' = Reached(h)
    BY <1>3 DEF Reached
  <2>2. \A xs : FromStage(h, xs)' = FromStage(h, xs)
    BY <2>1 DEF FromStage
  <2>3. \A y \in hook[h].say : \A ev \in ToAgent(y, hook[h].host) : Spoken(ev) => Spoken(ev)'
    BY <1>2
  <2>4. SaysRight(h)
    BY <1>0
  <2>5. FromStage(h, hook[h].read)' = FromStage(h, hook[h].read)
    BY <1>3, <2>1 DEF FromStage
  <2> QED BY <1>3, <2>1, <2>3, <2>4, <2>5 DEF SaysRight
<1>4. ASSUME NEW h \in Hook, Others(h), SaysRight(h)' PROVE SaysWhatItRead'
  BY <1>1, <1>3, <1>4 DEF Others
<1>5. ASSUME NEW h \in Hook, Ends(h) PROVE SaysWhatItRead'
  <2>1. Others(h) /\ hook'[h].step = "idle"
    BY <1>0, <1>5, EndsHook DEF Ended
  <2>2. SaysRight(h)'
    BY <2>1 DEF SaysRight
  <2> QED BY <1>4, <2>1, <2>2
<1>6. ASSUME NEW h \in Hook, (\E g \in Harness, k \in Kind : AskSockets(h, g, k)) \/ AskDaemon(h)
      PROVE  SaysWhatItRead'
  <2>1. Others(h) /\ hook'[h].step \in {"daemon", "decide"}
    BY <1>0, <1>6, AskSocketsHook, AskDaemonHook
  <2>2. SaysRight(h)'
    BY <2>1 DEF SaysRight
  <2> QED BY <1>4, <2>1, <2>2
<1>7. ASSUME NEW h \in Hook, Decide(h), ~Ends(h) PROVE SaysWhatItRead'
  <2>1. Reached(h)' = Reached(h)
    BY <1>0, <1>7, DecideHook DEF Reached
  <2>2. /\ hook'[h].read = stage /\ hook'[h].answers = hook[h].answers
        /\ hook'[h].say = Owing(hook[h].answers) \cup Owing(FromStage(h, stage))
        /\ hook'[h].left = hook'[h].say /\ (hook'[h].step = "unstage" => hook'[h].say = {})
        /\ hook'[h].step \in {"emit", "unstage"} /\ Others(h)
    BY <1>0, <1>7, DecideHook
  <2>3. FromStage(h, hook[h].read)' = FromStage(h, stage)
    BY <2>1, <2>2 DEF FromStage
  <2>4. \A y \in hook'[h].say : OwesUpdates(y) /\ (y.key \in Reached(h) => y \in hook[h].answers)
    BY <2>2 DEF Owing, FromStage
  <2>5. \A y \in hook[h].answers \cup FromStage(h, stage) : OwesUpdates(y) => y \in hook'[h].say
    BY <2>2 DEF Owing
  <2>6. SaysRight(h)'
    BY <2>1, <2>2, <2>3, <2>4, <2>5 DEF SaysRight
  <2> QED BY <1>4, <2>2, <2>6
<1>8. ASSUME NEW h \in Hook, Refuse(h), ~Ends(h) PROVE SaysWhatItRead'
  <2>1. /\ hook'[h].say = Owing(hook[h].answers) /\ hook'[h].answers = hook[h].answers
        /\ hook'[h].left = hook'[h].say /\ hook'[h].step = "emit" /\ Others(h)
        /\ hook'[h].kind = hook[h].kind
    BY <1>0, <1>8, RefuseHook
  <2>2. hook[h].kind = "block"
    BY <1>8 DEF Refuse, At
  <2>3. \A y \in hook'[h].say : OwesUpdates(y) /\ y \in hook[h].answers
    BY <2>1 DEF Owing
  <2>4. SaysRight(h)'
    BY <2>1, <2>2, <2>3 DEF SaysRight
  <2> QED BY <1>4, <2>1, <2>4
<1>9. ASSUME NEW h \in Hook, Emit(h) PROVE SaysWhatItRead'
  <2>1. /\ hook[h].step = "emit" /\ hook'[h].step = "consume" /\ hook[h].host \in Harness
        /\ hook'[h].say = hook[h].say /\ hook'[h].left = hook[h].left /\ hook'[h].read = hook[h].read
        /\ hook'[h].answers = hook[h].answers /\ hook'[h].host = hook[h].host
        /\ hook'[h].kind = hook[h].kind /\ Others(h)
    BY <1>0, <1>9, EmitHook
  <2>2. Reached(h)' = Reached(h)
    BY <2>1 DEF Reached
  <2>3. FromStage(h, hook[h].read)' = FromStage(h, hook[h].read)
    BY <2>1, <2>2 DEF FromStage
  <2>4. ASSUME NEW y \in hook[h].say, NEW ev \in ToAgent(y, hook[h].host), Counts(ev, hook[h].host)
        PROVE  Spoken(ev)'
    <3> DEFINE evs == {e \in UNION {ToAgent(x, hook[h].host) : x \in hook[h].say} : Counts(e, hook[h].host)}
    <3>1. Given(evs) /\ ev \in evs
      BY <1>9, <2>4 DEF Emit
    <3>2. ev \in Event
      BY <1>0, <2>4, HeldEvents DEF InHand
    <3> HIDE DEF evs
    <3> QED BY <1>0, <3>1, <3>2, GivenCounts DEF Event, Spoken
  <2>5. SaysRight(h)
    BY <1>0
  <2>6. SaysRight(h)'
    BY <2>1, <2>2, <2>3, <2>4, <2>5 DEF SaysRight
  <2> QED BY <1>4, <2>1, <2>6
<1>10. ASSUME NEW h \in Hook, NEW x \in hook[h].left, Consume(h, x), ~Ends(h) PROVE SaysWhatItRead'
  <2>1. /\ hook[h].step = "consume" /\ hook'[h].step \in {"consume", "unstage"}
        /\ hook'[h].say = hook[h].say /\ hook'[h].read = hook[h].read
        /\ hook'[h].answers = hook[h].answers /\ hook'[h].host = hook[h].host
        /\ hook'[h].kind = hook[h].kind /\ Others(h)
    BY <1>0, <1>10, ConsumeHook
  <2>2. Reached(h)' = Reached(h)
    BY <2>1 DEF Reached
  <2>3. FromStage(h, hook[h].read)' = FromStage(h, hook[h].read)
    BY <2>1, <2>2 DEF FromStage
  <2>4. \A y \in hook[h].say : \A ev \in ToAgent(y, hook[h].host) : Spoken(ev) => Spoken(ev)'
    BY <1>2
  <2>5. SaysRight(h)
    BY <1>0
  <2>6. SaysRight(h)'
    BY <2>1, <2>2, <2>3, <2>4, <2>5 DEF SaysRight
  <2> QED BY <1>4, <2>1, <2>6
<1>11. ASSUME UNCHANGED hook PROVE SaysWhatItRead'
  BY <1>1, <1>3, <1>11
<1>12. \/ UNCHANGED hook
       \/ \E h \in Hook :
            \/ Ends(h) \/ (\E g \in Harness, k \in Kind : AskSockets(h, g, k)) \/ AskDaemon(h)
            \/ (Decide(h) /\ ~Ends(h)) \/ (Refuse(h) /\ ~Ends(h)) \/ Emit(h)
            \/ \E x \in hook[h].left : Consume(h, x) /\ ~Ends(h)
  BY DEF Next, Store, Chime, Start, End, Glance, Enqueue, Flush, ParkOwed, Unstage, Die
<1> QED BY <1>5, <1>6, <1>7, <1>8, <1>9, <1>10, <1>11, <1>12

-----------------------------------------------------------------------------
(* Bells.                                                                  *)

(* One event is owed when the cursor is one behind. *)
LEMMA OwedCounts ==
  ASSUME NEW c \in Nat, NEW a \in Nat
  PROVE  /\ (c + 1 .. a # {}) <=> a > c
         /\ Cardinality(c + 1 .. a) = 1 <=> a = c + 1
<1>1. Cardinality(c + 1 .. a) = IF c + 1 > a THEN 0 ELSE a - (c + 1) + 1
  BY FS_Interval
<1>2. ASSUME a > c PROVE c + 1 .. a # {}
  <2>1. a \in c + 1 .. a
    BY <1>2
  <2> QED BY <2>1
<1> QED BY <1>1, <1>2

(* OwedWasRung, in numbers. *)
Rung ==
  /\ \A s \in Serve : life[s] = "up" /\ arrived[s] > cursor[s] => s \in heard \cup missed
  /\ \A q \in Harness : arrived[q] > cursor[q] /\ ~chiming => q \in heard

(* The bells of the proof are those that the run checks. *)
LEMMA RungIsOwedWasRung ==
  /\ Types => (OwedWasRung <=> Rung)
  /\ Types' => (OwedWasRung' <=> Rung')
<1>1. ASSUME Types PROVE \A q \in Queue : Owed(q) # {} <=> arrived[q] > cursor[q]
  <2>1. \A q \in Queue : arrived[q] \in Nat /\ cursor[q] \in Nat
    BY <1>1 DEF Types, TypeOK
  <2> QED BY <2>1, OwedCounts DEF Owed
<1>2. ASSUME Types' PROVE \A q \in Queue : Owed(q)' # {} <=> arrived'[q] > cursor'[q]
  <2>1. \A q \in Queue : arrived'[q] \in Nat /\ cursor'[q] \in Nat
    BY <1>2 DEF Types, TypeOK
  <2> QED BY <2>1, OwedCounts DEF Owed
<1>3. Serve \cup Harness \subseteq Queue
  BY DEF Queue
<1> QED BY <1>1, <1>2, <1>3 DEF OwedWasRung, Rung

(* A bell that is owed was rung, or is on its way. *)
LEMMA BellsNext ==
  ASSUME DeliveryInv, Next, Types' PROVE Bells' /\ OwedWasRung'
<1>0. Types /\ Bells /\ Rung
  BY RungIsOwedWasRung DEF DeliveryInv
<1>1. SUFFICES Bells' /\ Rung'
  BY RungIsOwedWasRung
<1>2. \A q \in Queue : arrived[q] \in Nat /\ cursor[q] \in Nat
  BY <1>0 DEF Types, TypeOK
<1>3. \A q : q \in Serve \cup Harness => q \in Queue
  BY DEF Queue
<1>4. ASSUME NEW p \in Socket, Start(p) PROVE Bells' /\ Rung'
  <2>1. /\ life[p] = "new" /\ UNCHANGED <<arrived, cursor, glance, chiming, heard, missed>>
        /\ \A k : k # p => life'[k] = life[k]
        /\ life'[p] = "up"
    BY <1>0, <1>4 DEF Start, bell, Types, TypeOK, Key
  <2>2. p \in Serve => arrived[p] = 0 /\ cursor[p] \in Nat
    BY <1>0, <1>2, <1>3, <2>1 DEF Bells
  <2> QED BY <1>0, <2>1, <2>2 DEF Bells, Rung
<1>5. ASSUME NEW p \in Socket, End(p) PROVE Bells' /\ Rung'
  <2>1. /\ UNCHANGED <<arrived, cursor, chiming, heard, missed>>
        /\ \A k : k # p => life'[k] = life[k]
        /\ life'[p] = "gone" /\ \A s \in Serve : glance'[s] = IF s = p THEN "none" ELSE glance[s]
    BY <1>0, <1>5 DEF End, Types, TypeOK, Key, Socket
  <2> QED BY <1>0, <2>1 DEF Bells, Rung
<1>6. ASSUME NEW s \in Serve, Glance(s) PROVE Bells' /\ Rung'
  <2>1. /\ UNCHANGED <<life, arrived, cursor, chiming, heard, missed>> /\ life[s] = "up"
        /\ \A g \in Serve : g # s => glance'[g] = glance[g]
    BY <1>0, <1>6 DEF Glance, Types, TypeOK
  <2> QED BY <1>0, <2>1 DEF Bells, Rung
<1>7. ASSUME NEW s \in Serve, Enqueue(s) PROVE Bells' /\ Rung'
  <2>1. /\ UNCHANGED <<life, cursor, chiming>> /\ life[s] = "up" /\ s \notin Harness
        /\ \A q \in Queue : q # s => arrived'[q] = arrived[q]
        /\ \A g \in Serve : g # s => glance'[g] = glance[g]
        /\ heard \subseteq heard' /\ missed \subseteq missed'
    BY <1>0, <1>7 DEF Enqueue, Types, TypeOK, Bells
  <2>2. s \in heard' \cup missed'
    <3>1. CASE glance[s] = "empty"
      BY <1>7, <3>1 DEF Enqueue
    <3>2. CASE glance[s] = "owing"
      <4>1. Owed(s) = {} => s \in missed'
        BY <1>7, <3>2 DEF Enqueue
      <4>2. Owed(s) # {} => s \in heard \cup missed
        BY <2>1 DEF DeliveryInv, OwedWasRung
      <4> QED BY <2>1, <4>1, <4>2
    <3> QED BY <1>0, <1>7, <3>1, <3>2 DEF Types, TypeOK, Enqueue
  <2>3. glance'[s] = "none"
    BY <1>0, <1>7 DEF Enqueue, Types, TypeOK
  <2>4. Bells'
    BY <1>0, <1>3, <2>1, <2>3 DEF Bells
  <2> QED BY <1>0, <1>3, <2>1, <2>2, <2>4 DEF Rung
<1>8. ASSUME Store PROVE Bells' /\ Rung'
  <2>1. /\ UNCHANGED <<life, cursor, glance, heard, missed>> /\ chiming' = TRUE /\ ~chiming
        /\ \A q \in Harness : arrived'[q] = arrived[q] + 1
        /\ \A s \in Serve : arrived'[s] = arrived[s]
    BY <1>3, <1>8 DEF Store
  <2>2. \A q \in Harness : arrived'[q] > cursor'[q] + 1 => q \in heard
    BY <1>0, <1>2, <1>3, <2>1 DEF Rung
  <2> QED BY <1>0, <2>1, <2>2 DEF Bells, Rung
<1>9. ASSUME Chime PROVE Bells' /\ Rung'
  <2>1. /\ UNCHANGED <<life, arrived, cursor, glance, missed>>
        /\ heard' = heard \cup OwesJustThis
    BY <1>9 DEF Chime
  <2>2. ASSUME NEW q \in Harness, arrived[q] > cursor[q] PROVE q \in heard'
    <3>1. CASE arrived[q] = cursor[q] + 1
      BY <1>2, <1>3, <2>1, <3>1, OwedCounts DEF OwesJustThis, Owed
    <3>2. CASE arrived[q] > cursor[q] + 1
      BY <1>0, <2>1, <3>2 DEF Bells
    <3> QED BY <1>2, <1>3, <2>2, <3>1, <3>2
  <2>3. Bells'
    BY <1>0, <2>1 DEF Bells
  <2>4. Rung'
    BY <1>0, <2>1, <2>2 DEF Rung
  <2> QED BY <2>3, <2>4
<1>10. ASSUME NEW q \in Queue, NEW c \in 0..Last, Advances(q, c), UNCHANGED <<life, arrived, glance, chiming>>
       PROVE  Bells' /\ Rung'
  <2>1. /\ \A p \in Queue : cursor'[p] >= cursor[p] /\ cursor'[p] \in Nat
        /\ \A p : p \in heard \cup missed /\ p \notin heard' \cup missed' => p = q /\ cursor'[q] >= arrived[q]
        /\ \A p : p \in heard /\ p \notin heard' => p = q /\ cursor'[q] >= arrived[q]
    <3>1. cursor' \in [Queue -> 0..Last]
      BY <1>0, <1>10, Advanced
    <3>2. \A p \in Queue : cursor'[p] \in Nat
      BY <3>1
    <3> QED BY <1>0, <1>2, <1>10, <3>2, Advanced
  <2>2. Bells'
    BY <1>0, <1>2, <1>3, <1>10, <2>1 DEF Bells
  <2>3. Rung'
    BY <1>0, <1>2, <1>3, <1>10, <2>1 DEF Rung
  <2> QED BY <2>2, <2>3
<1>11. ASSUME UNCHANGED <<life, arrived, cursor, glance, chiming, heard, missed>> PROVE Bells' /\ Rung'
  BY <1>0, <1>11 DEF Bells, Rung
<1>12. ASSUME NEW s \in Serve, Flush(s) PROVE Bells' /\ Rung'
  <2>1. s \in Queue /\ arrived[s] \in 0..Last
    BY <1>0 DEF Queue, Types, TypeOK
  <2> QED BY <1>10, <1>12, <2>1 DEF Flush
<1>13. ASSUME NEW h \in Hook, NEW x \in hook[h].left, Consume(h, x) PROVE Bells' /\ Rung'
  <2>1. x \in Entry /\ hook[h].host \in Harness
    BY <1>0, <1>13, ConsumeHook DEF Types, TypeOK
  <2>2. x.upTo \in 0..Last /\ Target(x, hook[h].host) \in Queue
    BY <2>1 DEF Entry, Target, Queue
  <2>3. UNCHANGED <<life, arrived, glance, chiming>>
    BY <1>13 DEF Consume
  <2>4. Advances(Target(x, hook[h].host), x.upTo) \/ UNCHANGED <<cursor, heard, missed>>
    BY <1>13 DEF Consume, UpTo
  <2> QED BY <1>10, <1>11, <2>2, <2>3, <2>4
<1>14. ASSUME NEW h \in Hook,
              \/ \E g \in Harness, k \in Kind : AskSockets(h, g, k)
              \/ AskDaemon(h) \/ ParkOwed(h) \/ Decide(h) \/ Refuse(h) \/ Emit(h)
              \/ Unstage(h) \/ Die(h)
       PROVE  UNCHANGED <<life, arrived, cursor, glance, chiming, heard, missed>>
  BY <1>14 DEF AskSockets, AskDaemon, ParkOwed, Decide, Refuse, Emit, Unstage, Die, bell
<1> QED BY <1>4, <1>5, <1>6, <1>7, <1>8, <1>9, <1>11, <1>12, <1>13, <1>14 DEF Next

-----------------------------------------------------------------------------
(* Nothing is consumed unsaid.                                             *)

(* What a consume moves past was said, or the mover is on record. *)
LEMMA ConsumedWasSaid ==
  ASSUME DeliveryInv, NEW h \in Hook, NEW x \in hook[h].left, Consume(h, x),
         Moves(x, hook[h].host), NEW e \in 1..x.upTo
  PROVE  LET q == Target(x, hook[h].host) IN
         q \in borrowed \/ Spoken(<<q, e>>) \/ x.of \in Harness \ {hook[h].host}
<1> DEFINE g == hook[h].host  q == Target(x, g)
<1>1. /\ x \in hook[h].say /\ x \in Entry /\ g \in Harness /\ hook[h].step = "consume"
      /\ Honest(x) /\ x.from \in 0..Last /\ x.upTo \in 0..Last
  <2>1. Types /\ AllHonest
    BY DEF DeliveryInv
  <2>2. x \in hook[h].say /\ x \in Entry
    BY <2>1 DEF Types, TypeOK
  <2> QED BY <2>1, <2>2, ConsumeHook DEF AllHonest, Entry
<1>2. SUFFICES ASSUME x.of \notin Harness \ {g} PROVE q \in borrowed \/ Spoken(<<q, e>>)
  OBVIOUS
<1>3. x.of = q
  <2>1. x.of \in Queue
    BY <1>1 DEF Honest
  <2> QED BY <1>1, <1>2, <2>1 DEF Target, Honest, Queue
<1>4. CASE e <= x.from
  BY <1>1, <1>3, <1>4 DEF Honest
<1>5. CASE e > x.from
  <2>1. e \in x.from + 1 .. x.upTo
    BY <1>1, <1>5
  <2>2. <<q, e>> \in ToAgent(x, g)
    BY <1>3, <2>1, <1>1 DEF ToAgent, Target, Honest
  <2>3. Counts(<<q, e>>, g)
    BY <1>1 DEF Counts, HostOf, Target, Moves, Host
  <2> QED BY <1>1, <2>2, <2>3 DEF DeliveryInv, SaysWhatItRead
<1> QED BY <1>1, <1>4, <1>5

(* An event that a cursor passes was given, but for a borrowed queue. *)
LEMMA SwallowedNext ==
  ASSUME DeliveryInv, Next, Types' PROVE NeverSwallowed'
<1>0. Types /\ NeverSwallowed
  BY DEF DeliveryInv, Told
<1>1. \A q \in Queue : cursor[q] \in 0..Last /\ cursor'[q] \in 0..Last
  BY <1>0 DEF Types, TypeOK
<1>2. ASSUME \A q \in Queue \ borrowed' : \A e \in 1..cursor'[q] : e <= cursor[q] \/ Spoken(<<q, e>>)'
      PROVE  NeverSwallowed'
  <2>1. ASSUME NEW q \in Queue \ borrowed', NEW e \in 1..cursor'[q] PROVE seen'[q][e] > 0
    <3>1. e \in 1..Last /\ q \notin borrowed
      BY <1>1, <2>1, GrowsNext
    <3>2. CASE e <= cursor[q]
      BY <1>0, <1>1, <2>1, <3>1, <3>2, GrowsNext DEF NeverSwallowed, Spoken
    <3> QED BY <1>2, <2>1, <3>2 DEF Spoken
  <2> QED BY <2>1 DEF NeverSwallowed
<1>3. ASSUME UNCHANGED cursor PROVE NeverSwallowed'
  BY <1>1, <1>2, <1>3
<1>4. ASSUME NEW s \in Serve, Flush(s) PROVE NeverSwallowed'
  <2>1. s \in Queue /\ arrived[s] \in 0..Last
    BY <1>0 DEF Queue, Types, TypeOK
  <2>2. /\ cursor'[s] = Larger(cursor[s], arrived[s])
        /\ \A p \in Queue : p # s => cursor'[p] = cursor[p]
    BY <1>0, <1>4, <2>1, Advanced DEF Flush
  <2>3. ASSUME NEW e \in 1..cursor'[s], ~(e <= cursor[s]) PROVE Spoken(<<s, e>>)'
    <3>1. e \in Owed(s) /\ e \in 1..Last
      BY <1>1, <2>1, <2>2, <2>3 DEF Owed, Larger
    <3> DEFINE evs == {s} \X Owed(s)
    <3>2. Given(evs) /\ <<s, e>> \in evs
      BY <1>4, <3>1 DEF Flush
    <3> HIDE DEF evs
    <3>3. seen'[s][e] > 0
      BY <1>0, <2>1, <3>1, <3>2, GivenCounts
    <3> QED BY <3>3 DEF Spoken
  <2> QED BY <1>1, <1>2, <2>2, <2>3
<1>5. ASSUME NEW h \in Hook, NEW x \in hook[h].left, Consume(h, x), ~UNCHANGED cursor,
             NEW g, g = hook[h].host, NEW q, q = Target(x, g)
      PROVE  NeverSwallowed'
  <2>1. /\ Moves(x, g) /\ Advances(q, x.upTo)
        /\ borrowed' = IF x.of \in Harness \ {g} THEN borrowed \cup {g} ELSE borrowed
    BY <1>5 DEF Consume, UpTo
  <2>2. x \in Entry /\ g \in Harness
    BY <1>0, <1>5, ConsumeHook DEF Types, TypeOK
  <2>3. x.upTo \in 0..Last /\ q \in Queue
    BY <1>5, <2>2 DEF Entry, Target, Queue
  <2>4. /\ cursor'[q] = Larger(cursor[q], x.upTo)
        /\ \A p \in Queue : p # q => cursor'[p] = cursor[p]
    BY <1>0, <2>1, <2>3, Advanced
  <2>5. ASSUME q \notin borrowed', NEW e \in 1..cursor'[q], ~(e <= cursor[q]) PROVE Spoken(<<q, e>>)'
    <3>1. e \in 1..x.upTo /\ e \in 1..Last
      BY <1>1, <2>3, <2>4, <2>5 DEF Larger
    <3>2. q \notin borrowed /\ x.of \notin Harness \ {g}
      <4>1. ASSUME x.of \in Harness \ {g} PROVE q = g
        <5>1. x.key \notin Serve
          <6>1. Honest(x)
            BY <1>0, <1>5 DEF DeliveryInv, AllHonest, Types, TypeOK
          <6> QED BY <4>1, <6>1 DEF Honest
        <5> QED BY <1>5, <5>1 DEF Target
      <4> QED BY <2>1, <2>5, <4>1, GrowsNext
    <3>3. Spoken(<<q, e>>)
      BY <1>5, <2>1, <3>1, <3>2, ConsumedWasSaid
    <3> QED BY <2>3, <3>1, <3>3, GrowsNext
  <2>6. ASSUME NEW p \in Queue \ borrowed', NEW e \in 1..cursor'[p]
        PROVE  e <= cursor[p] \/ Spoken(<<p, e>>)'
    <3>1. CASE p = q
      BY <2>5, <2>6, <3>1
    <3>2. CASE p # q
      BY <1>1, <2>4, <2>6, <3>2
    <3> QED BY <3>1, <3>2
  <2> QED BY <1>2, <2>6
<1>6. \/ UNCHANGED cursor \/ (\E s \in Serve : Flush(s))
      \/ \E h \in Hook : \E x \in hook[h].left : Consume(h, x)
  BY DEF Next, Store, Chime, Start, End, Glance, Enqueue, AskSockets,
        AskDaemon, ParkOwed, Decide, Refuse, Emit, Unstage, Die
<1> QED BY <1>3, <1>4, <1>5, <1>6

-----------------------------------------------------------------------------
(* What a wake parked is said.                                             *)

(* What was parked was given, is on the stage, or was forfeited. *)
LEMMA StageNext ==
  ASSUME DeliveryInv, Next, Types' PROVE StageSpeaks'
<1>0. Types /\ StageSpeaks /\ AllHonest /\ SaysWhatItRead /\ NeverSwallowed
        /\ \A ev \in parked : ev \in Event /\ ev[1] \in Serve
  BY DEF DeliveryInv, Told, Types, TypeOK
<1>1. \A ev \in Event : Spoken(ev) => Spoken(ev)'
  BY GrowsNext DEF Event
<1>2. ASSUME NEW ev \in parked, forfeited \subseteq forfeited',
             ev \in Named(stage) =>
               Spoken(ev)' \/ ev \in Named(stage)' \/ \E f \in forfeited' : f.event = ev
      PROVE  Spoken(ev)' \/ ev \in Named(stage)' \/ \E f \in forfeited' : f.event = ev
  BY <1>0, <1>1, <1>2 DEF StageSpeaks
<1>3. ASSUME UNCHANGED <<stage, parked, forfeited>> PROVE StageSpeaks'
  <2>1. Named(stage)' = Named(stage)
    BY <1>3 DEF Named, Events
  <2> QED BY <1>2, <1>3, <2>1 DEF StageSpeaks
<1>4. ASSUME NEW ev, NEW evs, NEW why, ev \in evs, ev[1] \in Serve
      PROVE  \E f \in Leaves(evs, why) : f.event = ev
  <2>1. [event |-> ev, why |-> why] \in Leaves(evs, why)
    BY <1>4 DEF Leaves
  <2> QED BY <2>1
<1>5. ASSUME NEW h \in Hook, ParkOwed(h), ~UNCHANGED <<stage, parked, forfeited>> PROVE StageSpeaks'
  <2> DEFINE owed == Owing(hook[h].answers)
  <2>1. /\ stage' = owed /\ parked' = parked \cup Named({x \in owed : x.of \in Serve})
        /\ forfeited' = forfeited \cup Leaves(Named(stage) \ Named(owed), "overwritten")
    BY <1>5 DEF ParkOwed
  <2>2. Named(stage)' = Named(owed) /\ Named({x \in owed : x.of \in Serve}) \subseteq Named(owed)
    BY <2>1 DEF Named, Events
  <2> HIDE DEF owed
  <2>3. ASSUME NEW ev \in parked', ev \notin parked PROVE ev \in Named(stage)'
    BY <2>1, <2>2, <2>3
  <2>4. ASSUME NEW ev \in parked, ev \in Named(stage)
        PROVE  ev \in Named(stage)' \/ \E f \in forfeited' : f.event = ev
    <3>1. CASE ev \in Named(owed)
      BY <2>2, <3>1
    <3>2. CASE ev \notin Named(owed)
      <4>1. ev \in Named(stage) \ Named(owed) /\ ev[1] \in Serve
        BY <1>0, <2>4, <3>2
      <4> QED BY <1>4, <2>1, <4>1
    <3> QED BY <3>1, <3>2
  <2> QED BY <1>2, <2>1, <2>3, <2>4 DEF StageSpeaks
<1>6. ASSUME NEW h \in Hook, Unstage(h) PROVE StageSpeaks'
  <2> DEFINE g == hook[h].host
             others == {x \in stage : HostOf(x.of) # g}
  <2>1. /\ parked' = parked /\ hook[h].kind = "prompt" /\ hook[h].step = "unstage"
        /\ forfeited' = forfeited \cup Leaves(Named(others), "taken")
                          \cup Leaves(Named((stage \ others) \ hook[h].read), "unread")
                          \cup Leaves(UNION {SinceAnswered(h, x) : x \in stage \ others}, "unread")
    BY <1>6 DEF Unstage, At
  <2>2. ASSUME NEW ev \in parked, ev \in Named(stage)
        PROVE  Spoken(ev)' \/ \E f \in forfeited' : f.event = ev
    <3>1. PICK x \in stage : ev \in Events(x)
      BY <2>2 DEF Named
    <3>2. ev[1] = x.of /\ ev[2] \in x.from + 1 .. x.upTo /\ x.of \in Serve /\ ev = <<x.of, ev[2]>>
      BY <1>0, <2>2, <3>1 DEF Events
    <3>3. CASE x \in others
      <4>1. ev \in Named(others)
        BY <3>1, <3>3 DEF Named
      <4> HIDE DEF others
      <4>2. PICK f \in Leaves(Named(others), "taken") : f.event = ev
        BY <1>4, <3>2, <4>1
      <4>3. f \in forfeited'
        BY <2>1
      <4> QED BY <4>2, <4>3
    <3>4. CASE x \notin others /\ x \notin hook[h].read
      <4>1. ev \in Named((stage \ others) \ hook[h].read)
        BY <3>1, <3>4 DEF Named
      <4> HIDE DEF others
      <4>2. PICK f \in Leaves(Named((stage \ others) \ hook[h].read), "unread") : f.event = ev
        BY <1>4, <3>2, <4>1
      <4>3. f \in forfeited'
        BY <2>1
      <4> QED BY <4>2, <4>3
    <3>5. CASE x \notin others /\ \E y \in hook[h].answers : y.key = x.key /\ y.upTo < ev[2]
      <4>1. ev \in UNION {SinceAnswered(h, z) : z \in stage \ others}
        BY <3>1, <3>5 DEF SinceAnswered
      <4> HIDE DEF others
      <4>2. PICK f \in Leaves(UNION {SinceAnswered(h, z) : z \in stage \ others}, "unread") : f.event = ev
        BY <1>4, <3>2, <4>1
      <4>3. f \in forfeited'
        BY <2>1
      <4> QED BY <4>2, <4>3
    <3>6. CASE /\ x \notin others /\ x \in hook[h].read
               /\ ~ \E y \in hook[h].answers : y.key = x.key /\ y.upTo < ev[2]
      <4>1. /\ HostOf(x.of) = g /\ x.key = x.of /\ Honest(x)
            /\ x \in Entry /\ hook[h].answers \cup hook[h].say \subseteq Entry /\ ev \in Event
        BY <1>0, <2>2, <3>1, <3>2, <3>6 DEF AllHonest, Honest, Types, TypeOK
      <4>2. \A y \in hook[h].say : \A d \in ToAgent(y, g) : Counts(d, g) => Spoken(d)
        BY <1>0, <2>1 DEF SaysWhatItRead
      <4>3. Counts(ev, g)
        BY <3>2, <4>1 DEF Counts
      <4>4. x.upTo > x.from
        BY <3>2, <4>1 DEF Entry
      <4>5. CASE x.key \notin Reached(h)
        <5>1. x \in hook[h].say
          BY <1>0, <2>1, <3>6, <4>4, <4>5 DEF SaysWhatItRead, FromStage, OwesUpdates
        <5>2. ev \in ToAgent(x, g)
          BY <3>2 DEF ToAgent
        <5> QED BY <1>1, <4>1, <4>2, <4>3, <5>1, <5>2
      <4>6. CASE x.key \in Reached(h)
        <5>1. PICK y \in hook[h].answers : y.key = x.key
          BY <4>6 DEF Reached
        <5>2. /\ y \in Entry /\ Honest(y) /\ y.of = x.of /\ ~(y.upTo < ev[2]) /\ ev[2] \in 1..Last
          BY <1>0, <3>2, <3>6, <4>1, <5>1 DEF AllHonest, Honest, Event
        <5>3. CASE ev[2] <= y.from
          <6>1. x.of \notin borrowed
            BY <1>0, <3>2 DEF Types, TypeOK
          <6>2. Spoken(<<x.of, ev[2]>>)
            BY <5>2, <5>3, <6>1 DEF Honest, Entry
          <6> QED BY <1>1, <3>2, <4>1, <6>2
        <5>4. CASE ev[2] > y.from
          <6>1. ev[2] \in y.from + 1 .. y.upTo /\ y.upTo > y.from
            BY <5>2, <5>4 DEF Entry
          <6>2. y \in hook[h].say
            BY <1>0, <2>1, <5>1, <6>1 DEF SaysWhatItRead, OwesUpdates
          <6>3. ev \in ToAgent(y, g)
            BY <3>2, <5>2, <6>1 DEF ToAgent
          <6> QED BY <1>1, <4>1, <4>2, <4>3, <6>2, <6>3
        <5> QED BY <5>2, <5>3, <5>4 DEF Entry
      <4> QED BY <4>5, <4>6
    <3> QED BY <3>3, <3>4, <3>5, <3>6
  <2> HIDE DEF others
  <2> QED BY <1>2, <2>1, <2>2 DEF StageSpeaks
<1>7. \/ UNCHANGED <<stage, parked, forfeited>>
      \/ \E h \in Hook : ParkOwed(h) \/ Unstage(h)
  <2>1. ASSUME NEW h \in Hook, NEW x \in hook[h].left, Consume(h, x)
        PROVE  UNCHANGED <<stage, parked, forfeited>>
    BY <2>1 DEF Consume
  <2> QED BY <2>1 DEF Next, Store, Chime, Start, End, Glance, Enqueue, Flush, AskSockets,
        AskDaemon, Decide, Refuse, Emit, Die, ghosts
<1> QED BY <1>3, <1>5, <1>6, <1>7

-----------------------------------------------------------------------------
(* Nothing is said twice without a reason.                                 *)

(* An agent is given what its tool call flushes or what its hook emits.    *)
Flushed(q, e) == q \in Serve /\ Flush(q) /\ e \in Owed(q)
Emitted(h, ev) ==
  /\ Emit(h)
  /\ \E x \in hook[h].say : ev \in ToAgent(x, hook[h].host) /\ Counts(ev, hook[h].host)

(* An event is given by a serve that flushes, or by a hook that speaks. *)
LEMMA GivenBy ==
  ASSUME Types, Next, NEW q \in Queue, NEW e \in 1..Last, seen'[q][e] # seen[q][e]
  PROVE  /\ Flushed(q, e) \/ \E h \in Hook : Emitted(h, <<q, e>>)
         /\ seen'[q][e] > 1 => Spoken(<<q, e>>)
<1>1. ASSUME NEW s \in Serve, Flush(s)
      PROVE  Flushed(q, e) /\ (seen'[q][e] > 1 => Spoken(<<q, e>>))
  <2> DEFINE evs == {s} \X Owed(s)
  <2>1. Given(evs)
    BY <1>1 DEF Flush
  <2>2. <<q, e>> \in evs => q = s /\ e \in Owed(s)
    OBVIOUS
  <2> HIDE DEF evs
  <2>3. <<q, e>> \in evs /\ (seen'[q][e] > 1 => seen[q][e] > 0)
    BY <2>1, GivenCounts
  <2> QED BY <1>1, <2>2, <2>3 DEF Flushed, Spoken
<1>2. ASSUME NEW h \in Hook, Emit(h)
      PROVE  Emitted(h, <<q, e>>) /\ (seen'[q][e] > 1 => Spoken(<<q, e>>))
  <2> DEFINE evs == {ev \in UNION {ToAgent(x, hook[h].host) : x \in hook[h].say} : Counts(ev, hook[h].host)}
  <2>1. Given(evs)
    BY <1>2 DEF Emit
  <2>2. <<q, e>> \in evs =>
          \E x \in hook[h].say : <<q, e>> \in ToAgent(x, hook[h].host) /\ Counts(<<q, e>>, hook[h].host)
    OBVIOUS
  <2> HIDE DEF evs
  <2>3. <<q, e>> \in evs /\ (seen'[q][e] > 1 => seen[q][e] > 0)
    BY <2>1, GivenCounts
  <2> QED BY <1>2, <2>2, <2>3 DEF Emitted, Spoken
<1>3. \/ UNCHANGED seen \/ (\E s \in Serve : Flush(s)) \/ \E h \in Hook : Emit(h)
  <2>1. ASSUME NEW h \in Hook, NEW x \in hook[h].left, Consume(h, x) PROVE UNCHANGED seen
    BY <2>1 DEF Consume
  <2> QED BY <2>1 DEF Next, Store, Chime, Start, End, Glance, Enqueue, AskSockets,
        AskDaemon, ParkOwed, Decide, Refuse, Unstage, Die
<1> QED BY <1>1, <1>2, <1>3

(* What a hook has still to consume, it holds. *)
LEMMA HandsHold ==
  ASSUME Types, NEW h \in Hook
  PROVE  /\ ToConsume(h) \subseteq Held(h) /\ InHand(hook[h].answers, hook[h].host) \subseteq Held(h)
         /\ \A g \in Hook : g # h => Held(h) \subseteq HeldByOthers(g)
         /\ hook[h].step # "consume" => ToConsume(h) = {}
         /\ ToConsume(h) \subseteq InHand(hook[h].say, hook[h].host)
<1>1. hook[h].left \subseteq hook[h].say
  BY DEF Types, TypeOK
<1> QED BY <1>1 DEF ToConsume, Held, InHand, HeldByOthers

(* A peek names nothing but what is past the cursor of the queue it asked. *)
LEMMA PeeksAreAhead ==
  ASSUME Types, NEW g \in Harness, NEW x \in Peeks(g), NEW ev \in ToAgent(x, g)
  PROVE  ev \in Event /\ ev[2] > cursor[ev[1]]
<1>1. \A q \in Queue : cursor[q] \in 0..Last /\ arrived[q] \in 0..Last
  BY DEF Types, TypeOK
<1>2. ASSUME NEW q \in Queue, NEW k, x = PeekOf(q, k), q = g \/ q \in Serve
      PROVE  ev \in Event /\ ev[2] > cursor[ev[1]]
  <2>1. ev[1] = q /\ ev[2] \in cursor[q] + 1 .. arrived[q] /\ ev = <<q, ev[2]>>
    BY <1>2 DEF ToAgent, PeekOf, Queue
  <2>2. ev[2] \in 1..Last /\ ev[2] > cursor[q]
    BY <1>1, <2>1
  <2> QED BY <2>1, <2>2 DEF Event
<1>3. ASSUME NEW k, x = Nothing(k) PROVE FALSE
  BY <1>3 DEF ToAgent, Nothing
<1>4. \/ \E k \in Socket : x = Nothing(k)
      \/ \E k \in Serve : x = PeekOf(k, k)
      \/ \E k : x = PeekOf(g, k)
  BY DEF Peeks, Answer
<1> QED BY <1>2, <1>3, <1>4 DEF Queue

(* What was given and is peeked again has its reason, or another hook is   *)
(* about to consume it.                                                    *)
LEMMA PeekedAgain ==
  ASSUME DeliveryInv, NEW h \in Hook, hook[h].step # "consume", NEW g \in Harness,
         NEW x \in Peeks(g), NEW ev \in ToAgent(x, g), Spoken(ev)
  PROVE  ev \in again \/ ev \in HeldByOthers(h)
<1>1. Types /\ GivenIsConsumed
  BY DEF DeliveryInv, Told
<1>2. ev[1] \in Queue /\ ev[2] \in 1..Last /\ ev = <<ev[1], ev[2]>> /\ ev[2] > cursor[ev[1]]
  BY <1>1, PeeksAreAhead DEF Event
<1>3. ev \in again \/ \E f \in Hook : ev \in ToConsume(f)
  BY <1>1, <1>2 DEF GivenIsConsumed
<1> QED BY <1>1, <1>3, HandsHold

(* An event is given twice only for a reason that is named. *)
LEMMA TwiceNext ==
  ASSUME DeliveryInv, Next PROVE TwiceForAReason'
<1>0. Types /\ TwiceForAReason /\ GivenIsConsumed /\ AnswersAreNews /\ SaysWhatItRead
  BY DEF DeliveryInv, Told
<1>1. ASSUME NEW q \in Queue, NEW e \in 1..Last, seen'[q][e] > 1 PROVE <<q, e>> \in again'
  <2>1. CASE seen'[q][e] = seen[q][e]
    BY <1>0, <1>1, <2>1, GrowsNext DEF TwiceForAReason
  <2>2. CASE Flushed(q, e) /\ Spoken(<<q, e>>)
    <3>1. e > cursor[q] /\ <<q, e>> \in {q} \X Owed(q)
      BY <1>0, <2>2 DEF Flushed, Owed, Types, TypeOK
    <3>2. <<q, e>> \in again \/ \E h \in Hook : <<q, e>> \in ToConsume(h)
      BY <1>0, <2>2, <3>1 DEF GivenIsConsumed
    <3>3. again' = again \cup (({q} \X Owed(q)) \cap UNION {Held(h) : h \in Hook})
      BY <2>2 DEF Flushed, Flush
    <3>4. ASSUME NEW h \in Hook, <<q, e>> \in ToConsume(h) PROVE <<q, e>> \in UNION {Held(f) : f \in Hook}
      BY <1>0, <3>4, HandsHold
    <3> QED BY <3>1, <3>2, <3>3, <3>4
  <2>3. ASSUME NEW h \in Hook, Emitted(h, <<q, e>>), Spoken(<<q, e>>) PROVE <<q, e>> \in again'
    <3>1. PICK x \in hook[h].say : <<q, e>> \in ToAgent(x, hook[h].host) /\ Counts(<<q, e>>, hook[h].host)
      BY <2>3 DEF Emitted
    <3>2. hook[h].step = "emit"
      BY <1>0, <2>3, EmitHook DEF Emitted
    <3>3. CASE x.key \notin Reached(h)
      <4> DEFINE evs(xs) == {ev \in UNION {ToAgent(y, hook[h].host) : y \in xs} : Counts(ev, hook[h].host)}
      <4>1. again' = again \cup (evs(hook[h].say) \cap HeldByOthers(h))
                        \cup {ev \in evs(FromUnreached(h)) : seen[ev[1]][ev[2]] > 0}
        BY <2>3 DEF Emitted, Emit
      <4>2. <<q, e>> \in evs(FromUnreached(h))
        BY <3>1, <3>3 DEF FromUnreached
      <4> HIDE DEF evs
      <4> QED BY <2>3, <4>1, <4>2 DEF Spoken
    <3>4. CASE x.key \in Reached(h)
      <4>1. x \in hook[h].answers
        BY <1>0, <3>2, <3>4 DEF SaysWhatItRead
      <4>2. <<q, e>> \in InHand(hook[h].answers, hook[h].host)
        BY <3>1, <4>1 DEF InHand
      <4> QED BY <1>0, <2>3, <3>2, <4>2, GrowsNext DEF AnswersAreNews
    <3> QED BY <3>3, <3>4
  <2> QED BY <1>0, <1>1, <2>1, <2>2, <2>3, GivenBy
<1> QED BY <1>1 DEF TwiceForAReason

(* Whoever is about to consume an event consumes it, or leaves a reason.   *)
LEMMA ConsumerKeeps ==
  ASSUME DeliveryInv, Next, Types', NEW q \in Queue, NEW e \in 1..Last,
         NEW h \in Hook, <<q, e>> \in ToConsume(h), e > cursor'[q]
  PROVE  <<q, e>> \in again' \/ <<q, e>> \in ToConsume(h)'
<1>0. /\ Types /\ AllHonest /\ hook[h].step = "consume" /\ hook[h].left \subseteq hook[h].say
      /\ hook[h].say \subseteq Entry
      /\ cursor'[q] \in 0..Last
  BY HandsHold DEF DeliveryInv, Types, TypeOK
<1>1. ASSUME hook'[h] = hook[h] PROVE <<q, e>> \in ToConsume(h)'
  BY <1>1 DEF ToConsume, InHand, ToAgent
<1>2. ASSUME NEW x \in hook[h].left, Consume(h, x) PROVE <<q, e>> \in again' \/ <<q, e>> \in ToConsume(h)'
  <2>1. PICK y \in hook[h].left : <<q, e>> \in ToAgent(y, hook[h].host)
    BY <1>0 DEF ToConsume, InHand
  <2>2. CASE y # x
    <3>1. /\ hook'[h].step = "consume" /\ hook'[h].left = hook[h].left \ {x} /\ hook'[h].host = hook[h].host
      BY <1>0, <1>2, <2>1, <2>2, ConsumeHook
    <3>2. y \in hook'[h].left /\ ToAgent(y, hook'[h].host) = ToAgent(y, hook[h].host)
      BY <2>1, <2>2, <3>1
    <3>3. <<q, e>> \in InHand(hook'[h].left, hook'[h].host)
      BY <2>1, <3>2 DEF InHand
    <3> QED BY <3>1, <3>3 DEF ToConsume, InHand, ToAgent
  <2>3. CASE y = x
    <3> DEFINE g == hook[h].host
    <3>1. again' = again \cup ToAgent(x, g) \/ (Moves(x, g) /\ Advances(Target(x, g), x.upTo))
      BY <1>2 DEF Consume, UpTo
    <3>2. CASE again' = again \cup ToAgent(x, g)
      BY <2>1, <2>3, <3>2
    <3>3. CASE Moves(x, g) /\ Advances(Target(x, g), x.upTo)
      <4>1. x \in Entry /\ Honest(x) /\ x.upTo \in 0..Last /\ g \in Harness
        BY <1>0, <1>2, ConsumeHook DEF AllHonest, Entry
      <4>2. q = Target(x, g) /\ e <= x.upTo
        BY <2>1, <2>3, <4>1 DEF ToAgent, Target, Honest, Entry
      <4>3. cursor'[q] >= x.upTo
        BY <1>0, <3>3, <4>1, <4>2, Advanced
      <4> QED BY <1>0, <4>1, <4>2, <4>3
    <3> QED BY <3>1, <3>2, <3>3
  <2> QED BY <2>2, <2>3
<1>3. ASSUME Die(h) PROVE <<q, e>> \in again'
  <2>1. again' = again \cup InHand(hook[h].say, hook[h].host)
    BY <1>0, <1>3 DEF Die
  <2> QED BY <1>0, <2>1, HandsHold
<1>4. \/ hook'[h] = hook[h] \/ Die(h) \/ \E x \in hook[h].left : Consume(h, x)
  <2>1. UNCHANGED hook => hook'[h] = hook[h]
    OBVIOUS
  <2>2. ASSUME NEW f \in Hook, f # h,
               \/ \E g \in Harness, k \in Kind : AskSockets(f, g, k)
               \/ AskDaemon(f) \/ ParkOwed(f) \/ Decide(f) \/ Refuse(f) \/ Emit(f)
               \/ \E x \in hook[f].left : Consume(f, x)
               \/ Unstage(f) \/ Die(f)
        PROVE  hook'[h] = hook[h]
    <3>1. Others(f)
      <4>1. Ends(f) => Others(f)
        BY <1>0, EndsHook DEF Ended
      <4>2. (\E g \in Harness, k \in Kind : AskSockets(f, g, k)) \/ AskDaemon(f) \/ Emit(f) => Others(f)
        BY <1>0, AskSocketsHook, AskDaemonHook, EmitHook
      <4>3. Decide(f) \/ Refuse(f) => Others(f)
        BY <1>0, <4>1, DecideHook, RefuseHook
      <4>4. \A x \in hook[f].left : Consume(f, x) => Others(f)
        BY <1>0, <4>1, ConsumeHook
      <4>5. ParkOwed(f) \/ Unstage(f) \/ Die(f) => Others(f)
        BY <4>1 DEF ParkOwed, Unstage, Die
      <4> QED BY <2>2, <4>2, <4>3, <4>4, <4>5
    <3> QED BY <2>2, <3>1 DEF Others
  <2>3. ~(\E g \in Harness, k \in Kind : AskSockets(h, g, k))
    <3>1. Idle.step # "consume"
      BY DEF Idle
    <3>2. \A g, k : AskSockets(h, g, k) => hook[h] = Idle
      BY Zenon DEF AskSockets
    <3> QED BY <1>0, <3>1, <3>2
  <2>4. ~AskDaemon(h) /\ ~ParkOwed(h) /\ ~Decide(h) /\ ~Refuse(h) /\ ~Emit(h) /\ ~Unstage(h)
    BY <1>0 DEF AskDaemon, ParkOwed, Decide, Refuse, Emit, Unstage, At
  <2>5. Store \/ Chime \/ (\E p \in Socket : Start(p) \/ End(p))
          \/ (\E s \in Serve : Glance(s) \/ Enqueue(s) \/ Flush(s)) => UNCHANGED hook
    BY DEF Store, Chime, Start, End, Glance, Enqueue, Flush
  <2> QED BY <2>1, <2>2, <2>3, <2>4, <2>5 DEF Next
<1> QED BY <1>1, <1>2, <1>3, <1>4

(* No cursor goes back. *)
LEMMA CursorsAdvance ==
  ASSUME Types, Next, NEW q \in Queue PROVE cursor'[q] >= cursor[q]
<1>1. \A p \in Queue : cursor[p] \in 0..Last
  BY DEF Types, TypeOK
<1>2. ASSUME NEW p \in Queue, NEW c \in 0..Last, Advances(p, c) PROVE cursor'[q] >= cursor[q]
  BY <1>1, <1>2, Advanced
<1>3. ASSUME NEW s \in Serve, Flush(s) PROVE cursor'[q] >= cursor[q]
  <2>1. s \in Queue /\ arrived[s] \in 0..Last
    BY DEF Queue, Types, TypeOK
  <2> QED BY <1>2, <1>3, <2>1 DEF Flush
<1>4. ASSUME NEW h \in Hook, NEW x \in hook[h].left, Consume(h, x) PROVE cursor'[q] >= cursor[q]
  <2>1. x \in Entry /\ hook[h].host \in Harness
    BY <1>4, ConsumeHook DEF Types, TypeOK
  <2>2. x.upTo \in 0..Last /\ Target(x, hook[h].host) \in Queue
    BY <2>1 DEF Entry, Target, Queue
  <2>3. Advances(Target(x, hook[h].host), x.upTo) \/ UNCHANGED cursor
    BY <1>4 DEF Consume, UpTo
  <2> QED BY <1>1, <1>2, <2>2, <2>3
<1>5. \/ UNCHANGED cursor \/ (\E s \in Serve : Flush(s))
      \/ \E h \in Hook : \E x \in hook[h].left : Consume(h, x)
  BY DEF Next, Store, Chime, Start, End, Glance, Enqueue, AskSockets,
        AskDaemon, ParkOwed, Decide, Refuse, Emit, Unstage, Die
<1> QED BY <1>1, <1>3, <1>4, <1>5

(* What was given and not passed is to be consumed, or may be given again. *)
LEMMA GivenNext ==
  ASSUME DeliveryInv, Next, Types' PROVE GivenIsConsumed'
<1>0. Types /\ GivenIsConsumed /\ SaysWhatItRead
  BY DEF DeliveryInv, Told
<1>1. ASSUME NEW q \in Queue, NEW e \in 1..Last, Spoken(<<q, e>>)', e > cursor'[q]
      PROVE  <<q, e>> \in again' \/ \E h \in Hook : <<q, e>> \in ToConsume(h)'
  <2>1. cursor[q] \in 0..Last /\ cursor'[q] \in 0..Last /\ cursor'[q] >= cursor[q] /\ e > cursor[q]
    BY <1>0, <1>1, CursorsAdvance DEF Types, TypeOK
  <2>2. CASE Spoken(<<q, e>>)
    <3>1. <<q, e>> \in again \/ \E h \in Hook : <<q, e>> \in ToConsume(h)
      BY <1>0, <2>1, <2>2 DEF GivenIsConsumed
    <3> QED BY <1>1, <3>1, ConsumerKeeps, GrowsNext
  <2>3. CASE Flushed(q, e)
    <3>1. arrived[q] \in 0..Last /\ e <= arrived[q]
      BY <1>0, <2>3 DEF Flushed, Owed, Types, TypeOK
    <3>2. cursor'[q] >= arrived[q]
      BY <1>0, <2>3, <3>1, Advanced DEF Flushed, Flush
    <3> QED BY <1>1, <2>1, <3>1, <3>2
  <2>4. ASSUME NEW h \in Hook, Emitted(h, <<q, e>>) PROVE <<q, e>> \in ToConsume(h)'
    <3>1. PICK x \in hook[h].say : <<q, e>> \in ToAgent(x, hook[h].host)
      BY <2>4 DEF Emitted
    <3>2. /\ hook'[h].step = "consume" /\ hook'[h].left = hook[h].left /\ hook'[h].host = hook[h].host
          /\ hook[h].step = "emit"
      BY <1>0, <2>4, EmitHook DEF Emitted
    <3>3. hook[h].left = hook[h].say
      BY <1>0, <3>2 DEF SaysWhatItRead
    <3>4. <<q, e>> \in InHand(hook'[h].left, hook'[h].host)
      BY <3>1, <3>2, <3>3 DEF InHand
    <3> QED BY <3>2, <3>4 DEF ToConsume, InHand, ToAgent
  <2>5. ~Spoken(<<q, e>>) => seen'[q][e] # seen[q][e]
    BY <1>1 DEF Spoken
  <2> QED BY <1>0, <2>2, <2>3, <2>4, <2>5, GivenBy
<1> QED BY <1>1 DEF GivenIsConsumed

(* What a hook was answered and has not said nobody else has said. *)
LEMMA NewsNext ==
  ASSUME DeliveryInv, Next PROVE AnswersAreNews'
<1>0. Types /\ AnswersAreNews
  BY DEF DeliveryInv, Told
<1> DEFINE Asking(x) == x.step \in {"daemon", "decide", "emit"}
           News(h) == Asking(hook'[h]) =>
                        \A ev \in InHand(hook'[h].answers, hook'[h].host) : Spoken(ev)' => ev \in again'
<1>1. ASSUME \A h \in Hook : News(h) PROVE AnswersAreNews'
  BY <1>1 DEF AnswersAreNews, InHand, ToAgent
<1>2. ASSUME NEW h \in Hook, Asking(hook[h]), Asking(hook'[h]), NEW ev \in InHand(hook[h].answers, hook[h].host), Spoken(ev)'
      PROVE  ev \in again'
  <2>1. ev \in Held(h) /\ ev \in Event
    BY <1>0, <1>2, HandsHold, HeldEvents
  <2>2. PICK q \in Queue, e \in 1..Last : ev = <<q, e>>
    BY <2>1 DEF Event
  <2>3. CASE Spoken(ev)
    BY <1>0, <1>2, <2>3, GrowsNext DEF AnswersAreNews
  <2>4. CASE Flushed(q, e)
    <3>1. again' = again \cup (({q} \X Owed(q)) \cap UNION {Held(f) : f \in Hook})
      BY <2>4 DEF Flushed, Flush
    <3> QED BY <2>1, <2>2, <2>4, <3>1 DEF Flushed
  <2>5. ASSUME NEW f \in Hook, f # h, Emitted(f, ev) PROVE ev \in again'
    <3> DEFINE evs(xs) == {d \in UNION {ToAgent(y, hook[f].host) : y \in xs} : Counts(d, hook[f].host)}
    <3>1. again' = again \cup (evs(hook[f].say) \cap HeldByOthers(f))
                      \cup {d \in evs(FromUnreached(f)) : seen[d[1]][d[2]] > 0}
      BY <2>5 DEF Emitted, Emit
    <3>2. ev \in evs(hook[f].say)
      BY <2>5 DEF Emitted
    <3>3. ev \in HeldByOthers(f)
      BY <1>0, <2>1, <2>5, HandsHold
    <3> HIDE DEF evs
    <3> QED BY <3>1, <3>2, <3>3
  <2>6. ~Emitted(h, ev)
    BY <1>0, <1>2, EmitHook DEF Emitted
  <2>7. CASE ~Spoken(ev)
    <3>1. seen'[q][e] # seen[q][e]
      BY <1>2, <2>2, <2>7 DEF Spoken
    <3>2. Flushed(q, e) \/ \E f \in Hook : Emitted(f, <<q, e>>)
      BY <1>0, <3>1, GivenBy
    <3> QED BY <2>2, <2>4, <2>5, <2>6, <3>2
  <2> QED BY <2>3, <2>7
<1>3. ASSUME NEW h \in Hook, Asking(hook[h]), hook'[h].answers = hook[h].answers, hook'[h].host = hook[h].host
      PROVE  News(h)
  BY <1>2, <1>3
<1> HIDE DEF News
<1>4. ASSUME NEW h \in Hook, Others(h), News(h) PROVE AnswersAreNews'
  <2>1. ASSUME NEW f \in Hook, f # h PROVE News(f)
    <3>1. hook'[f] = hook[f]
      BY <1>4, <2>1 DEF Others
    <3>2. CASE Asking(hook[f])
      BY <1>3, <3>1, <3>2
    <3>3. CASE ~Asking(hook[f])
      BY <3>1, <3>3 DEF News
    <3> QED BY <3>2, <3>3
  <2> QED BY <1>1, <1>4, <2>1
<1>5. ASSUME UNCHANGED hook PROVE AnswersAreNews'
  <2>1. ASSUME NEW f \in Hook PROVE News(f)
    <3>1. CASE Asking(hook[f])
      BY <1>3, <1>5, <3>1
    <3>2. CASE ~Asking(hook[f])
      BY <1>5, <3>2 DEF News
    <3> QED BY <3>1, <3>2
  <2> QED BY <1>1, <2>1
<1>6. ASSUME NEW h \in Hook, Others(h), ~Asking(hook'[h]) PROVE AnswersAreNews'
  BY <1>4, <1>6 DEF News
<1>7. ASSUME NEW h \in Hook, Ends(h) PROVE AnswersAreNews'
  BY <1>0, <1>6, <1>7, EndsHook DEF Ended
<1>8. ASSUME NEW h \in Hook, hook[h].step # "consume", NEW g \in Harness, UNCHANGED seen,
             NEW got, NEW ev \in InHand(got, g), Spoken(ev)',
             again' = again \cup (InHand(got, g) \cap HeldByOthers(h)),
             \A x \in got : x \in Peeks(g) \/ \A d \in ToAgent(x, g) : Spoken(d) => d \in again
      PROVE  ev \in again'
  <2>1. PICK x \in got : ev \in ToAgent(x, g)
    BY <1>8 DEF InHand
  <2>2. Spoken(ev)
    BY <1>8 DEF Spoken
  <2>3. ev \in again \/ ev \in HeldByOthers(h)
    BY <1>8, <2>1, <2>2, PeekedAgain
  <2> QED BY <1>8, <2>3
<1>9. ASSUME NEW h \in Hook, NEW g \in Harness, NEW k \in Kind, AskSockets(h, g, k) PROVE AnswersAreNews'
  <2>1. PICK got \in SUBSET Peeks(g) :
          /\ hook'[h].host = g /\ hook'[h].answers = got /\ Others(h)
          /\ again' = again \cup (InHand(got, g) \cap HeldByOthers(h))
    BY <1>0, <1>9, AskSocketsHook
  <2>2. UNCHANGED seen /\ hook[h].step # "consume"
    BY <1>9 DEF AskSockets, Idle
  <2>3. \A ev \in InHand(got, g) : Spoken(ev)' => ev \in again'
    BY <1>8, <2>1, <2>2
  <2>4. News(h)
    BY <2>1, <2>3 DEF News
  <2> QED BY <1>4, <2>1, <2>4
<1>10. ASSUME NEW h \in Hook, AskDaemon(h) PROVE AnswersAreNews'
  <2>1. hook[h].host \in Harness /\ hook[h].step = "daemon" /\ UNCHANGED seen
    BY <1>0, <1>10, AskDaemonHook DEF AskDaemon
  <2>2. PICK g \in Harness : g = hook[h].host
    BY <2>1
  <2>3. PICK got \in SUBSET (hook[h].answers \cup Peeks(g)) :
          /\ hook'[h].host = g /\ hook'[h].answers = got /\ Others(h)
          /\ again' = again \cup (InHand(got, g) \cap HeldByOthers(h))
    BY <1>0, <1>10, <2>2, AskDaemonHook
  <2>4. \A x \in hook[h].answers : \A d \in ToAgent(x, g) : Spoken(d) => d \in again
    BY <1>0, <2>1, <2>2 DEF AnswersAreNews, InHand
  <2>5. \A ev \in InHand(got, g) : Spoken(ev)' => ev \in again'
    BY <1>8, <2>1, <2>3, <2>4
  <2>6. News(h)
    BY <2>3, <2>5 DEF News
  <2> QED BY <1>4, <2>3, <2>6
<1>11. ASSUME NEW h \in Hook, Decide(h) \/ Refuse(h), ~Ends(h) PROVE AnswersAreNews'
  <2>1. /\ hook'[h].answers = hook[h].answers /\ hook'[h].host = hook[h].host /\ Others(h)
    BY <1>0, <1>11, DecideHook, RefuseHook
  <2>2. Asking(hook[h])
    BY <1>11 DEF Decide, Refuse, At
  <2> QED BY <1>3, <1>4, <2>1, <2>2
<1>12. ASSUME NEW h \in Hook, Emit(h) PROVE AnswersAreNews'
  BY <1>0, <1>6, <1>12, EmitHook
<1>13. ASSUME NEW h \in Hook, NEW x \in hook[h].left, Consume(h, x) PROVE AnswersAreNews'
  BY <1>0, <1>6, <1>7, <1>13, ConsumeHook
<1>14. ASSUME NEW h \in Hook, ParkOwed(h) \/ Unstage(h) \/ Die(h) PROVE AnswersAreNews'
  BY <1>7, <1>14 DEF ParkOwed, Unstage, Die
<1>15. Store \/ Chime \/ (\E p \in Socket : Start(p) \/ End(p))
         \/ (\E s \in Serve : Glance(s) \/ Enqueue(s) \/ Flush(s)) => UNCHANGED hook
  BY DEF Store, Chime, Start, End, Glance, Enqueue, Flush
<1> QED BY <1>5, <1>7, <1>9, <1>10, <1>11, <1>12, <1>13, <1>14, <1>15 DEF Next

-----------------------------------------------------------------------------
(* A step of a hook, a serve, a socket or the room keeps the invariant. *)
LEMMA NextDelivery == DeliveryInv /\ [Next]_dvars => DeliveryInv'
<1> SUFFICES ASSUME DeliveryInv, [Next]_dvars PROVE DeliveryInv'
  OBVIOUS
<1>1. CASE Next
  <2>1. Types'
    BY <1>1, TypesNext
  <2> QED BY <1>1, <2>1, HonestNext, SaysNext, BellsNext, SwallowedNext, TwiceNext, GivenNext,
        NewsNext, StageNext DEF DeliveryInv, Told
<1>2. CASE UNCHANGED dvars
  <2> USE <1>2 DEF dvars, bell, ghosts, DeliveryInv, Told
  <2>1. Types'
    BY DEF Types, TypeOK
  <2>2. AllHonest' /\ SaysWhatItRead'
    BY DEF AllHonest, Honest, Spoken, SaysWhatItRead, Reached, FromStage, OwesUpdates, ToAgent,
      Counts, HostOf
  <2>3. NeverSwallowed' /\ TwiceForAReason' /\ GivenIsConsumed' /\ AnswersAreNews'
    BY DEF NeverSwallowed, TwiceForAReason, GivenIsConsumed, AnswersAreNews, ToConsume, InHand,
      ToAgent, Spoken
  <2>4. StageSpeaks' /\ Bells' /\ OwedWasRung'
    BY DEF StageSpeaks, Bells, OwedWasRung, Spoken, Named, Events, Owed
  <2> QED BY <2>1, <2>2, <2>3, <2>4
<1> QED BY <1>1, <1>2

(* What is behind a cursor was given, and what a wake parked for a session *)
(* that is gone is said or its loss is on record: hooks that overlap, die, *)
(* answer late or lose a consume swallow nothing else.                     *)
THEOREM NoNewsIsLost == Spec => []NewsIsKept
<1>1. DeliveryInv => NewsIsKept
  BY DEF DeliveryInv, Told, StageSpeaks, NewsIsKept, StageSpeaksForTheGone
<1> QED BY <1>1, InitDelivery, NextDelivery, PTL DEF Spec

(* An event is given twice only when a hook or its consume was lost, when  *)
(* another had it in hand, or when the stage spoke for the unreachable.    *)
THEOREM RepeatsHaveReasons == Spec => []TwiceForAReason
<1>1. DeliveryInv => TwiceForAReason
  BY DEF DeliveryInv, Told
<1> QED BY <1>1, InitDelivery, NextDelivery, PTL DEF Spec

(* Whoever is owed something had its bell rung since it was owed nothing,  *)
(* but for a serve whose handler looked before a consume and queued after. *)
THEOREM BellsAreRung == Spec => []OwedWasRung
<1>1. DeliveryInv => OwedWasRung
  BY DEF DeliveryInv
<1> QED BY <1>1, InitDelivery, NextDelivery, PTL DEF Spec

(* Every reachable state of the delivery is well typed.                    *)
THEOREM DeliveryTypes == Spec => []TypeOK
<1>1. DeliveryInv => TypeOK
  BY DEF DeliveryInv, Types
<1> QED BY <1>1, InitDelivery, NextDelivery, PTL DEF Spec
=============================================================================
