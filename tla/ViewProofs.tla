----------------------------- MODULE ViewProofs -----------------------------
(***************************************************************************)
(* Theorems about Glance, Governor, Beacon and Wall.  What is drawn of a   *)
(* room is as new as the events that came for it, for any readers of the   *)
(* frame, any number of peeks, events, faults and TTLs that pass; a client *)
(* keeps away from an edge that refuses, for any requests, hosts and       *)
(* waits; what is said of Beacon's run and of a claim is what the room     *)
(* says, for any timeline, ring and losses; and a pane at rest shows the   *)
(* wall as it is, for any widgets, people, posts, losses and restarts.     *)
(***************************************************************************)
EXTENDS Glance, Governor, Beacon, Wall, SequenceTheorems, FiniteSetTheorems,
        WellFoundedInduction, TLAPS

Event == DOMAIN Touches
Version == None..MaxEvents

ReadOf(steps) == [at : steps, gen : Nat, got : Version]
PersonRead ==
  [at : {"none", "asked", "answered"}, want : SUBSET Person, got : [Person -> Version]]

Server ==
  /\ events \in 0..MaxEvents /\ truth \in [View -> 0..events]
  /\ wire \in {"down", "up", "subscribed"} /\ Connection \in {"live", "disconnected"}
  /\ pushed \in Seq(Event) /\ enq \in {"idle", "wake", "mark"} \X Event
  /\ heard \in [View -> Nat]

Caches ==
  /\ held \in [View -> Version] /\ stale \subseteq View /\ old \subseteq View
  /\ best \in 0..MaxEvents /\ failed \subseteq Person

Reads ==
  /\ gen \in Nat
  /\ frames \in [FrameReader -> ReadOf({"none", "begun", "asked", "answered"})]
  /\ seats \in [Peeker -> ReadOf({"none", "asked", "answered", "done"})]
  /\ person \in PersonRead
  /\ scheduled \in BOOLEAN /\ gap \in BOOLEAN

Watcher ==
  /\ watch \in {"asleep", "peeks"} /\ token \in BOOLEAN
  /\ stream \in {"none", "new", "held"} /\ drawn \subseteq View

Types == Server /\ Caches /\ Reads /\ Watcher

\* An event, whatever it is of, marks views.
LEMMA TouchesViews ==
  /\ "line" \in Event
  /\ \A kind \in Event : Touches[kind] \subseteq View
<1>1. Event = {"claim", "line", "status"}
  BY DEF Event, Touches
<1>2. /\ Touches["claim"] \subseteq View /\ Touches["line"] \subseteq View
      /\ Touches["status"] \subseteq View
  BY DEF Touches, View, Person
<1> QED
  BY <1>1, <1>2

\* A change is one event more, and one more of every view it touches.
LEMMA CountedGrows ==
  ASSUME events \in 0..MaxEvents, Counted
  PROVE  events' \in 0..MaxEvents /\ events' = events + 1 /\ 0..events \subseteq 0..events'
BY GlanceAssumption DEF Counted

\* A read that is over, and one that has not begun.
LEMMA NoReadIsRead ==
  ASSUME NEW steps, "none" \in steps
  PROVE  NoRead \in ReadOf(steps)
<1>1. None \in Version
  BY GlanceAssumption DEF None, Version
<1> QED
  BY <1>1 DEF NoRead, ReadOf

(* What a person has not read is a reading too. *)
LEMMA UnreadIsRead == Unread \in PersonRead
<1>1. None \in Version
  BY GlanceAssumption DEF None, Version
<1> QED
  BY <1>1 DEF Unread, PersonRead

(* An event moves the truth of the views it is about by one. *)
LEMMA BumpedOnce ==
  ASSUME events \in 0..MaxEvents, truth \in [View -> 0..events], Counted,
         NEW views, Bump(views)
  PROVE  /\ events' \in 0..MaxEvents /\ truth' \in [View -> 0..events']
         /\ \A v \in View : truth'[v] = truth[v] + (IF v \in views THEN 1 ELSE 0)
<1>1. events' \in 0..MaxEvents /\ events' = events + 1 /\ events \in Nat
  BY CountedGrows, GlanceAssumption
<1>2. truth' = [v \in View |-> truth[v] + (IF v \in views THEN 1 ELSE 0)]
  BY DEF Bump
<1>3. ASSUME NEW v \in View PROVE truth[v] + (IF v \in views THEN 1 ELSE 0) \in 0..events'
  <2>1. truth[v] \in 0..events
    OBVIOUS
  <2> QED
    BY <1>1, <2>1
<1> QED
  BY <1>1, <1>2, <1>3

(* The types hold at first. *)
LEMMA InitTypes == Init => Types
<1> SUFFICES ASSUME Init PROVE Types
  OBVIOUS
<1> USE DEF Init
<1>1. Server
  BY GlanceAssumption, TouchesViews DEF Server
<1>2. Caches
  BY GlanceAssumption DEF Caches, Version, None, View, Person
<1>3. Reads
  <2>1. NoRead \in ReadOf({"none", "begun", "asked", "answered"})
        /\ NoRead \in ReadOf({"none", "asked", "answered", "done"})
    BY NoReadIsRead
  <2>2. Unread \in PersonRead
    BY UnreadIsRead
  <2> QED
    BY <2>1, <2>2 DEF Reads
<1>4. Watcher
  BY DEF Watcher
<1> QED
  BY <1>1, <1>2, <1>3, <1>4 DEF Types
-----------------------------------------------------------------------------
(* Types, part by part.                                                     *)

\* What startPersonReadLocked does with what is marked: it starts a read of all
\* that is due, or leaves the marks because one is under way or waits.
LEMMA PersonReadStarts ==
  ASSUME Caches, Reads, NEW marked \in SUBSET View, NEW poll \in BOOLEAN,
         startPersonRead(marked, poll)
  PROVE  \/ /\ person.at = "none" /\ ~scheduled /\ scheduled' = FALSE /\ gap' \in BOOLEAN
            /\ person' \in PersonRead /\ person'.at = "asked" /\ person'.want = Due(marked)
            /\ stale' = marked \ Due(marked)
         \/ /\ person' = person /\ stale' = marked /\ gap' = gap
            /\ scheduled' \in BOOLEAN /\ (scheduled => scheduled')
            /\ scheduled' => scheduled \/ (person.at = "none" /\ gap)
            /\ marked \cap Person # {} => person.at # "none" \/ scheduled'
<1> DEFINE due == person.at = "none" /\ ~scheduled /\ Due(marked) # {}
           starts == due /\ (poll \/ ~gap)
<1>1. /\ stale' = MarksLeft(marked, starts)
      /\ scheduled' = (scheduled \/ (due /\ ~starts))
      /\ gap' = (gap \/ (starts /\ ~poll))
      /\ person' = IF starts THEN [Unread EXCEPT !.at = "asked", !.want = Due(marked)] ELSE person
  BY DEF startPersonRead
<1>2. Due(marked) \subseteq Person /\ marked \cap Person \subseteq Due(marked)
  BY DEF Due
<1>3. scheduled \in BOOLEAN /\ gap \in BOOLEAN
  BY DEF Reads
<1>4. CASE starts
  <2>1. [Unread EXCEPT !.at = "asked", !.want = Due(marked)] \in PersonRead
    BY <1>2, UnreadIsRead DEF PersonRead
  <2>2. /\ person'.at = "asked" /\ person'.want = Due(marked)
        /\ stale' = marked \ Due(marked)
    BY <1>1, <1>4 DEF Unread, MarksLeft
  <2>3. scheduled' = FALSE /\ gap' \in BOOLEAN
    BY <1>1, <1>3, <1>4, Zenon
  <2> QED
    BY <1>1, <1>4, <2>1, <2>2, <2>3, Zenon
<1>5. CASE ~starts
  <2>1. person' = person /\ stale' = marked
    BY <1>1, <1>5 DEF MarksLeft
  <2>2. /\ scheduled' = (scheduled \/ due) /\ gap' = gap
    BY <1>1, <1>3, <1>5
  <2>3. due => gap
    BY <1>5
  <2>4. marked \cap Person # {} => person.at # "none" \/ scheduled \/ due
    BY <1>2
  <2> HIDE DEF starts
  <2>5. scheduled' \in BOOLEAN /\ (scheduled => scheduled')
    BY <1>3, <2>2, Zenon
  <2>6. scheduled' => scheduled \/ (person.at = "none" /\ gap)
    BY <1>3, <2>2, <2>3, Zenon
  <2> QED
    BY <1>3, <2>1, <2>2, <2>4, <2>5, <2>6, Zenon
<1> QED
  BY <1>4, <1>5

\* Only changes are counted, and only what is posted is pushed.
LEMMA StepServer == Types /\ [Next]_glanceVars => Server'
<1> SUFFICES ASSUME Types, [Next]_glanceVars PROVE Server'
  OBVIOUS
<1> USE DEF server, caches, reads, watcher, Server
<1>t. Server /\ Caches /\ Reads /\ Watcher
  BY DEF Types
<1>1. ASSUME NEW kind \in Kind, Post(kind) PROVE Server'
  <2>0. kind \in Event
    BY <1>1 DEF Post, Event
  <2>a. pushed' = pushed \/ pushed' = Append(pushed, kind)
    BY <1>1 DEF Post
  <2>1. kind \in Event /\ pushed' \in Seq(Event)
    <3>1. pushed \in Seq(Event)
      BY <1>t
    <3> QED
      BY <2>0, <2>a, <3>1
  <2>2. truth' \in [View -> 0..events'] /\ events' \in 0..MaxEvents
    BY <1>t, <1>1, BumpedOnce DEF Post
  <2> QED
    BY <1>t, <1>1, <2>1, <2>2 DEF Post
<1>2. CASE StageUnseen
  <2>2. truth' \in [View -> 0..events'] /\ events' \in 0..MaxEvents
    BY <1>t, <1>2, BumpedOnce DEF StageUnseen
  <2> QED
    BY <1>t, <1>2, <2>2 DEF StageUnseen
<1>3. ASSUME handleConnect \/ Drops PROVE Server'
  <2>1. events' \in 0..MaxEvents /\ 0..events \subseteq 0..events' /\ truth' = truth
    BY <1>t, <1>3, CountedGrows DEF handleConnect, Drops
  <2>2. truth' \in [View -> 0..events']
    BY <1>t, <2>1
  <2>3. /\ wire' \in {"down", "up", "subscribed"} /\ (pushed' = pushed \/ pushed' = <<>>)
        /\ UNCHANGED <<enq, heard, Connection>>
    BY <1>3 DEF handleConnect, Drops
  <2>4. pushed' \in Seq(Event)
    <3>1. pushed \in Seq(Event)
      BY <1>t
    <3>2. <<>> \in Seq(Event)
      OBVIOUS
    <3> QED
      BY <2>3, <3>1, <3>2, Zenon
  <2> QED
    BY <1>t, <2>1, <2>2, <2>3, <2>4
<1>4. CASE Receive
  <2>1. pushed # <<>> /\ pushed' = Tail(pushed) /\ enq' = <<"wake", Head(pushed)>>
    BY <1>4 DEF Receive
  <2>2. pushed' \in Seq(Event) /\ Head(pushed) \in Event
    BY <1>t, <2>1
  <2>3. /\ heard' = [v \in View |-> IF v \in Touches[Head(pushed)] THEN heard[v] + 1 ELSE heard[v]]
        /\ UNCHANGED <<truth, wire, events>> /\ Connection' = "live"
    BY <1>4 DEF Receive
  <2> QED
    BY <1>t, <2>1, <2>2, <2>3
<1>5. CASE Wakes \/ MarkFrame
  <2>1. PICK step \in {"idle", "wake", "mark"} : enq' = <<step, enq[2]>>
    BY <1>5 DEF Wakes, MarkFrame
  <2>2. UNCHANGED <<events, truth, wire, Connection, pushed, heard>>
    BY <1>5 DEF Wakes, MarkFrame
  <2>3. enq' \in {"idle", "wake", "mark"} \X Event
    BY <1>t, <2>1
  <2> QED
    BY <1>t, <2>2, <2>3
<1>6. ASSUME UNCHANGED <<truth, wire, Connection, pushed, enq, heard>>,
             UNCHANGED events \/ Counted
      PROVE  Server'
  <2>1. events' \in 0..MaxEvents /\ 0..events \subseteq 0..events'
    BY <1>t, <1>6, CountedGrows
  <2>2. truth' \in [View -> 0..events']
    BY <1>t, <1>6, <2>1
  <2> QED
    BY <1>t, <1>6, <2>1, <2>2
<1>7. ASSUME \/ PersonAnswers \/ GapEnds \/ pollPerson \/ Subscribe \/ StreamEnds
             \/ \E bad \in SUBSET Person : PersonLands(bad)
             \/ \E v \in View : Ages(v)
             \/ UNCHANGED glanceVars
      PROVE  Server'
  BY <1>6, <1>7
  DEF PersonAnswers, GapEnds, pollPerson, Subscribe, StreamEnds, PersonLands, Ages, glanceVars
<1>8. ASSUME NEW r \in FrameReader, AskFrame(r) \/ FrameAnswers(r) \/ FrameLands(r) \/ FrameFails(r)
      PROVE  Server'
  BY <1>6, <1>8 DEF AskFrame, FrameAnswers, FrameLands, FrameFails
<1>9. ASSUME NEW p \in Peeker,
             \/ PeekStarts(p) \/ SeatAnswers(p) \/ SeatLands(p) \/ SeatTimesOut(p)
             \/ StatusView(p)
      PROVE  Server'
  BY <1>6, <1>9 DEF PeekStarts, SeatAnswers, SeatLands, SeatTimesOut, StatusView
<1> QED
  BY <1>1, <1>2, <1>3, <1>4, <1>5, <1>7, <1>8, <1>9 DEF Next

\* What a read or a mark writes of the caches.
LEMMA StepCaches == Types /\ [Next]_glanceVars => Caches'
<1> SUFFICES ASSUME Types, [Next]_glanceVars PROVE Caches'
  OBVIOUS
<1> USE DEF server, caches, reads, watcher
<1>t. Server /\ Caches /\ Reads /\ Watcher
  BY DEF Types
<1>a. View = Person \cup {"frame", "seat"} /\ 0..MaxEvents \subseteq Version
  BY GlanceAssumption DEF View, Version, None
<1>u. ASSUME UNCHANGED caches PROVE Caches'
  BY <1>t, <1>u DEF Caches
<1>s. ASSUME NEW marked \in SUBSET View, NEW poll \in BOOLEAN, startPersonRead(marked, poll),
             UNCHANGED <<held, old, best, failed>>
      PROVE  Caches'
  BY <1>t, <1>s, PersonReadStarts DEF Caches
<1>1. ASSUME \/ \E kind \in Kind : Post(kind)
             \/ StageUnseen \/ handleConnect \/ Drops \/ PersonAnswers \/ Wakes
             \/ Subscribe \/ StreamEnds \/ UNCHANGED glanceVars
      PROVE  Caches'
  BY <1>u, <1>1
  DEF Post, StageUnseen, handleConnect, Drops, PersonAnswers, Wakes, Subscribe, StreamEnds,
      glanceVars
<1>2. ASSUME NEW bad \in SUBSET Person, PersonLands(bad) PROVE Caches'
  <2>1. /\ held' = [v \in View |-> IF v \in person.want \ bad THEN person.got[v] ELSE held[v]]
        /\ failed' = (failed \ (person.want \ bad)) \cup bad
        /\ old' = old \ person.want /\ best' = best /\ stale' \subseteq stale
    BY <1>2 DEF PersonLands
  <2>2. person.want \subseteq Person /\ person.got \in [Person -> Version]
    BY <1>t DEF Reads, PersonRead
  <2>3. held' \in [View -> Version]
    BY <1>t, <2>1, <2>2 DEF Caches
  <2> QED
    BY <1>t, <2>1, <2>2, <2>3 DEF Caches
<1>3. CASE GapEnds
  BY <1>t, <1>3 DEF GapEnds, Caches
<1>4. CASE pollPerson
  <2>1. stale \cup {"votes"} \in SUBSET View
    BY <1>t, <1>a DEF Caches, Person
  <2> QED
    BY <1>4, <1>s, <2>1 DEF pollPerson
<1>5. ASSUME NEW r \in FrameReader, AskFrame(r) \/ FrameAnswers(r) \/ FrameFails(r) PROVE Caches'
  BY <1>u, <1>5 DEF AskFrame, FrameAnswers, FrameFails
<1>6. ASSUME NEW r \in FrameReader, FrameLands(r) PROVE Caches'
  <2>1. /\ held' = [held EXCEPT !["frame"] = frames[r].got]
        /\ best' = (IF frames[r].got > best THEN frames[r].got ELSE best)
        /\ old' = old \ {"frame"} /\ stale' \subseteq stale /\ failed' = failed
    BY <1>6 DEF FrameLands
  <2>2. frames[r].got \in Version
    BY <1>t DEF Reads, ReadOf
  <2>3. best' \in 0..MaxEvents
    BY <1>t, <2>1, <2>2, GlanceAssumption DEF Caches, Version, None
  <2> QED
    BY <1>t, <2>1, <2>2, <2>3 DEF Caches
<1>7. CASE Receive
  <2>1. stale \cup (Touches[Head(pushed)] \ {"frame"}) \in SUBSET View
    <3>1. pushed \in Seq(Event) /\ pushed # <<>>
      BY <1>t, <1>7 DEF Server, Receive
    <3>2. Head(pushed) \in Event
      BY <3>1
    <3> QED
      BY <1>t, <3>2, TouchesViews DEF Caches
  <2> QED
    BY <1>7, <1>s, <2>1 DEF Receive
<1>8. CASE MarkFrame
  BY <1>t, <1>a, <1>8 DEF MarkFrame, Caches
<1>9. ASSUME NEW p \in Peeker, PeekStarts(p) \/ SeatAnswers(p) \/ SeatTimesOut(p) PROVE Caches'
  BY <1>u, <1>9 DEF PeekStarts, SeatAnswers, SeatTimesOut
<1>10. ASSUME NEW p \in Peeker, SeatLands(p) PROVE Caches'
  <2>1. seats[p].got \in Version
    BY <1>t DEF Reads, ReadOf
  <2> QED
    BY <1>t, <1>10, <2>1 DEF SeatLands, Caches
<1>11. ASSUME NEW p \in Peeker, StatusView(p) PROVE Caches'
  <2>1. stale \in SUBSET View
    BY <1>t DEF Caches
  <2> QED
    BY <1>11, <1>s, <2>1 DEF StatusView
<1>12. ASSUME NEW v \in View, Ages(v) PROVE Caches'
  BY <1>t, <1>12 DEF Ages, Caches
<1> QED
  BY <1>1, <1>2, <1>3, <1>4, <1>5, <1>6, <1>7, <1>8, <1>9, <1>10, <1>11, <1>12 DEF Next

\* What is under way of reads.
LEMMA StepReads == Types /\ [Next]_glanceVars => Reads'
<1> SUFFICES ASSUME Types, [Next]_glanceVars PROVE Reads'
  OBVIOUS
<1> USE DEF server, caches, reads, watcher
<1> DEFINE FrameRead == ReadOf({"none", "begun", "asked", "answered"})
           SeatRead == ReadOf({"none", "asked", "answered", "done"})
<1>t. Server /\ Caches /\ Reads /\ Watcher
  BY DEF Types
<1>n. NoRead \in FrameRead /\ NoRead \in SeatRead
  BY NoReadIsRead
<1>v. \A x \in View : truth[x] \in Version
  <2>1. 0..events \subseteq Version
    BY <1>t, GlanceAssumption DEF Server, Version, None
  <2> QED
    BY <1>t, <2>1 DEF Server
<1>b. Person \subseteq View /\ "frame" \in View /\ "seat" \in View
  BY DEF View
<1>u. ASSUME UNCHANGED <<gen, frames, seats, person, scheduled, gap>> PROVE Reads'
  BY <1>t, <1>u DEF Reads
<1>p. ASSUME UNCHANGED <<gen, frames, seats>>, person' \in PersonRead,
             scheduled' \in BOOLEAN, gap' \in BOOLEAN
      PROVE  Reads'
  BY <1>t, <1>p DEF Reads
<1>f. ASSUME NEW r \in FrameReader, NEW x \in FrameRead, frames' = [frames EXCEPT ![r] = x],
             gen' \in Nat, UNCHANGED <<seats, person, scheduled, gap>>
      PROVE  Reads'
  BY <1>t, <1>f DEF Reads
<1>s. ASSUME NEW p \in Peeker, NEW x \in SeatRead, seats' = [seats EXCEPT ![p] = x],
             UNCHANGED <<gen, frames, person, scheduled, gap>>
      PROVE  Reads'
  BY <1>t, <1>s DEF Reads
<1>g. ASSUME NEW marked \in SUBSET View, NEW poll \in BOOLEAN, startPersonRead(marked, poll)
      PROVE  person' \in PersonRead /\ scheduled' \in BOOLEAN /\ gap' \in BOOLEAN
  <2>1. person \in PersonRead /\ scheduled \in BOOLEAN /\ gap \in BOOLEAN
    BY <1>t DEF Reads
  <2> QED
    BY <1>t, <1>g, <2>1, PersonReadStarts
<1>1. ASSUME \/ \E kind \in Kind : Post(kind)
             \/ StageUnseen \/ handleConnect \/ Drops \/ Wakes \/ Subscribe \/ StreamEnds
             \/ \E v \in View : Ages(v)
             \/ UNCHANGED glanceVars
      PROVE  Reads'
  BY <1>u, <1>1
  DEF Post, StageUnseen, handleConnect, Drops, Wakes, Subscribe, StreamEnds, Ages, glanceVars
<1>2. CASE PersonAnswers
  <2>1. PICK want \in SUBSET Person :
          person' = [at |-> "answered", want |-> want,
                     got |-> [v \in Person |-> IF v \in want THEN truth[v] ELSE None]]
    <3> DEFINE more == IF "votes" \in person.want /\ held["claims"] < truth["claims"]
                       THEN {"claims"} ELSE {}
    <3>1. person.want \cup more \in SUBSET Person
      BY <1>t DEF Reads, PersonRead, Person
    <3> QED
      BY <1>2, <3>1 DEF PersonAnswers
  <2>2. [v \in Person |-> IF v \in want THEN truth[v] ELSE None] \in [Person -> Version]
    BY <1>v, <1>b, GlanceAssumption DEF Version, None
  <2>3. person' \in PersonRead
    BY <2>1, <2>2 DEF PersonRead
  <2>4. UNCHANGED <<gen, frames, seats, scheduled, gap>>
    BY <1>2 DEF PersonAnswers
  <2> QED
    BY <1>t, <2>3, <2>4 DEF Reads
<1>3. ASSUME NEW bad \in SUBSET Person, PersonLands(bad) PROVE Reads'
  <2> DEFINE due == ReadOn(Due(stale) \ (person.want \ stale))
  <2>1. /\ UNCHANGED <<gen, frames, seats>>
        /\ scheduled' = (due # {} /\ gap) /\ gap' = (gap \/ due # {})
        /\ person' = IF due = {} \/ gap THEN Unread
                     ELSE [Unread EXCEPT !.at = "asked", !.want = due]
    BY <1>3 DEF PersonLands
  <2>2. due \in SUBSET Person
    BY DEF ReadOn, Due
  <2>3. [Unread EXCEPT !.at = "asked", !.want = due] \in PersonRead
    BY <2>2, UnreadIsRead DEF PersonRead
  <2> HIDE DEF due
  <2>4. person' \in PersonRead
    BY <2>1, <2>3, UnreadIsRead
  <2>5. scheduled' \in BOOLEAN /\ gap' \in BOOLEAN
    BY <2>1, Zenon
  <2> QED
    BY <1>p, <2>1, <2>4, <2>5
<1>4. CASE GapEnds
  <2>1. Due(stale) \in SUBSET Person
    BY DEF Due
  <2>2. [Unread EXCEPT !.at = "asked", !.want = Due(stale)] \in PersonRead
    BY <2>1, UnreadIsRead DEF PersonRead
  <2>3. person' \in {person, Unread, [Unread EXCEPT !.at = "asked", !.want = Due(stale)]}
    BY <1>4 DEF GapEnds
  <2>4. scheduled' \in BOOLEAN /\ gap' \in BOOLEAN
    BY <1>t, <1>4 DEF GapEnds, Reads
  <2>5. UNCHANGED <<gen, frames, seats>> /\ person \in PersonRead
    BY <1>t, <1>4 DEF GapEnds, Reads
  <2>6. person' \in PersonRead
    BY <2>2, <2>3, <2>5, UnreadIsRead
  <2> QED
    BY <1>p, <2>4, <2>5, <2>6
<1>5. CASE pollPerson
  <2>1. stale \cup {"votes"} \in SUBSET View
    BY <1>t, <1>b DEF Caches, Person
  <2> QED
    BY <1>5, <1>p, <1>g, <2>1 DEF pollPerson
<1>6. ASSUME NEW r \in FrameReader, AskFrame(r) \/ FrameAnswers(r) \/ FrameLands(r) \/ FrameFails(r)
      PROVE  Reads'
  <2>1. UNCHANGED <<seats, person, scheduled, gap>> /\ gen' \in Nat
    BY <1>t, <1>6 DEF AskFrame, FrameAnswers, FrameLands, FrameFails, Reads
  <2>2. frames[r] \in FrameRead /\ gen \in Nat
    BY <1>t DEF Reads
  <2>3. PICK x \in {NoRead, [NoRead EXCEPT !.at = "asked", !.gen = gen],
                    [frames[r] EXCEPT !.at = "answered", !.got = truth["frame"]],
                    [NoRead EXCEPT !.at = "begun"]} : frames' = [frames EXCEPT ![r] = x]
    BY <1>6 DEF AskFrame, FrameAnswers, FrameLands, FrameFails
  <2>4. /\ [NoRead EXCEPT !.at = "asked", !.gen = gen] \in FrameRead
        /\ [NoRead EXCEPT !.at = "begun"] \in FrameRead
    BY <1>n, <2>2 DEF ReadOf
  <2>5. [frames[r] EXCEPT !.at = "answered", !.got = truth["frame"]] \in FrameRead
    BY <1>v, <1>b, <2>2 DEF ReadOf
  <2>6. x \in FrameRead
    BY <1>n, <2>3, <2>4, <2>5
  <2> HIDE DEF FrameRead
  <2> QED
    BY <1>f, <2>1, <2>3, <2>6
<1>r. ASSUME NEW fresh \in BOOLEAN, refreshFrame(fresh)
      PROVE  frames' \in [FrameReader -> FrameRead]
  <2>1. "refresh" \in FrameReader /\ frames \in [FrameReader -> FrameRead]
    BY <1>t, GlanceAssumption DEF Reads
  <2>2. [frames["refresh"] EXCEPT !.at = "begun"] \in FrameRead
    BY <2>1 DEF ReadOf
  <2>3. frames' = frames \/ frames' = [frames EXCEPT !["refresh"] = [frames["refresh"] EXCEPT !.at = "begun"]]
    BY <1>r DEF refreshFrame
  <2> HIDE DEF FrameRead
  <2> QED
    BY <2>1, <2>2, <2>3
<1>7. CASE Receive
  <2>1. stale \cup (Touches[Head(pushed)] \ {"frame"}) \in SUBSET View
    <3>1. pushed \in Seq(Event) /\ pushed # <<>>
      BY <1>t, <1>7 DEF Server, Receive
    <3>2. Head(pushed) \in Event
      BY <3>1
    <3> QED
      BY <1>t, <3>2, TouchesViews DEF Caches
  <2> QED
    BY <1>7, <1>p, <1>g, <2>1 DEF Receive
<1>8. CASE MarkFrame
  <2>1. /\ gen' = gen + 1 /\ refreshFrame(FALSE)
        /\ UNCHANGED <<seats, person, scheduled, gap>>
    BY <1>8 DEF MarkFrame
  <2>2. frames' \in [FrameReader -> FrameRead]
    BY <1>r, <2>1
  <2> QED
    BY <1>t, <2>1, <2>2 DEF Reads
<1>9. ASSUME NEW p \in Peeker,
             PeekStarts(p) \/ SeatAnswers(p) \/ SeatLands(p) \/ SeatTimesOut(p)
      PROVE  Reads'
  <2>1. UNCHANGED <<gen, frames, person, scheduled, gap>>
    BY <1>9 DEF PeekStarts, SeatAnswers, SeatLands, SeatTimesOut
  <2>2. seats[p] \in SeatRead
    BY <1>t DEF Reads
  <2>3. PICK x \in {[seats[p] EXCEPT !.at = "asked"], [seats[p] EXCEPT !.at = "done"],
                    [seats[p] EXCEPT !.at = "answered", !.got = truth["seat"]],
                    [NoRead EXCEPT !.at = "done"]} : seats' = [seats EXCEPT ![p] = x]
    BY <1>9 DEF PeekStarts, SeatAnswers, SeatLands, SeatTimesOut
  <2>4. /\ [seats[p] EXCEPT !.at = "asked"] \in SeatRead
        /\ [seats[p] EXCEPT !.at = "done"] \in SeatRead
        /\ [NoRead EXCEPT !.at = "done"] \in SeatRead
    BY <1>n, <2>2 DEF ReadOf
  <2>5. [seats[p] EXCEPT !.at = "answered", !.got = truth["seat"]] \in SeatRead
    BY <1>v, <1>b, <2>2 DEF ReadOf
  <2>6. x \in SeatRead
    BY <2>3, <2>4, <2>5
  <2> HIDE DEF SeatRead
  <2> QED
    BY <1>s, <2>1, <2>3, <2>6
<1>10. ASSUME NEW p \in Peeker, StatusView(p) PROVE Reads'
  <2>1. /\ seats' = [seats EXCEPT ![p] = NoRead] /\ gen' = gen
        /\ refreshFrame(FrameFresh) /\ startPersonRead(stale, FALSE)
    BY <1>10 DEF StatusView
  <2>2. frames' \in [FrameReader -> FrameRead]
    <3>1. FrameFresh \in BOOLEAN
      BY DEF FrameFresh
    <3> QED
      BY <1>r, <2>1, <3>1
  <2>3. stale \in SUBSET View
    BY <1>t DEF Caches
  <2>4. person' \in PersonRead /\ scheduled' \in BOOLEAN /\ gap' \in BOOLEAN
    BY <1>g, <2>1, <2>3
  <2>5. seats' \in [Peeker -> SeatRead]
    <3>1. seats \in [Peeker -> SeatRead]
      BY <1>t DEF Reads
    <3> HIDE DEF SeatRead
    <3> QED
      BY <1>n, <2>1, <3>1
  <2> QED
    BY <1>t, <2>1, <2>2, <2>4, <2>5 DEF Reads
<1> HIDE DEF FrameRead, SeatRead
<1> QED
  BY <1>1, <1>2, <1>3, <1>4, <1>5, <1>6, <1>7, <1>8, <1>9, <1>10 DEF Next

\* What the watch draws, and its wakes.
LEMMA StepWatcher == Types /\ [Next]_glanceVars => Watcher'
<1> SUFFICES ASSUME Types, [Next]_glanceVars PROVE Watcher'
  OBVIOUS
<1> USE DEF server, caches, reads, watcher
<1>t. Watcher
  BY DEF Types
<1>u. ASSUME UNCHANGED <<watch, stream>>, token' \in BOOLEAN, drawn' \subseteq drawn PROVE Watcher'
  BY <1>t, <1>u DEF Watcher
<1>1. ASSUME \/ \E kind \in Kind : Post(kind)
             \/ StageUnseen \/ handleConnect \/ Drops \/ PersonAnswers \/ GapEnds \/ pollPerson
             \/ Receive \/ MarkFrame
             \/ \E v \in View : Ages(v)
             \/ UNCHANGED glanceVars
      PROVE  UNCHANGED <<watch, stream, token, drawn>>
  BY <1>1
  DEF Post, StageUnseen, handleConnect, Drops, PersonAnswers, GapEnds, pollPerson, Receive,
      MarkFrame, Ages, glanceVars
<1>2. ASSUME NEW r \in FrameReader, AskFrame(r) \/ FrameAnswers(r) \/ FrameLands(r) \/ FrameFails(r)
      PROVE  UNCHANGED <<watch, stream, token>> /\ drawn' \subseteq drawn
  BY <1>2 DEF AskFrame, FrameAnswers, FrameLands, FrameFails
<1>3. ASSUME NEW p \in Peeker, SeatAnswers(p) \/ SeatLands(p) \/ SeatTimesOut(p)
      PROVE  UNCHANGED <<watch, stream, token, drawn>>
  BY <1>3 DEF SeatAnswers, SeatLands, SeatTimesOut
<1>4. ASSUME \/ Wakes \/ Subscribe \/ StreamEnds
             \/ \E bad \in SUBSET Person : PersonLands(bad)
             \/ \E p \in Peeker : PeekStarts(p) \/ StatusView(p)
      PROVE  Watcher'
  <2>1. CASE Wakes
    BY <1>t, <2>1 DEF Wakes, Watcher
  <2>2. CASE Subscribe \/ StreamEnds
    BY <1>t, <2>2 DEF Subscribe, StreamEnds, Watcher
  <2>3. ASSUME NEW bad \in SUBSET Person, PersonLands(bad) PROVE Watcher'
    <3>1. /\ UNCHANGED <<watch, stream>> /\ drawn' \subseteq drawn
          /\ token' = (token \/ (stream # "none" /\ Differs(person.want \ bad)))
      BY <2>3 DEF PersonLands
    <3>2. token' \in BOOLEAN
      BY <1>t, <3>1, Zenon DEF Watcher
    <3> QED
      BY <1>u, <3>1, <3>2
  <2>4. ASSUME NEW p \in Peeker, PeekStarts(p) \/ StatusView(p) PROVE Watcher'
    BY <1>t, <2>4 DEF PeekStarts, StatusView, Watcher
  <2> QED
    BY <1>4, <2>1, <2>2, <2>3, <2>4
<1> QED
  BY <1>t, <1>u, <1>1, <1>2, <1>3, <1>4 DEF Next, Watcher

\* Whatever a step of the room, the socket or the daemon does, what it holds is
\* of its type.
LEMMA StepTypes == Types /\ [Next]_glanceVars => Types'
  BY StepServer, StepCaches, StepReads, StepWatcher DEF Types

-----------------------------------------------------------------------------
(* Nothing is heard of that did not happen.                                 *)

Touched(v, kind) == IF v \in Touches[kind] THEN 1 ELSE 0

\* c numbers the versions of view v that the events under way bring: from what
\* was last heard of it, one more with each event that changes it, and none
\* that the server does not have.
Numbers(c, v) ==
  /\ c \in [0..Len(pushed) -> Nat]
  /\ c[0] = heard[v]
  /\ \A i \in 1..Len(pushed) : c[i] = c[i - 1] + Touched(v, pushed[i])
  /\ \A i \in 0..Len(pushed) : c[i] <= truth[v]

HeardIsTrue == \A v \in View : \E c : Numbers(c, v)

\* An event that is received is the first of those that were numbered.
LEMMA ReceivedIsNumbered ==
  ASSUME Server, Receive, NEW v \in View, NEW c, Numbers(c, v)
  PROVE  \E d : Numbers(d, v)'
<1> DEFINE n == Len(pushed)
           d == [i \in 0..(n - 1) |-> c[i + 1]]
<1>1. /\ pushed # <<>> /\ pushed' = Tail(pushed) /\ truth' = truth
      /\ heard'[v] = heard[v] + Touched(v, Head(pushed))
  BY DEF Receive, server, Server, Touched
<1>2. pushed \in Seq(Event) /\ n \in Nat /\ n > 0 /\ Head(pushed) = pushed[1]
  BY <1>1 DEF Server
<1>3. /\ Len(pushed') = n - 1
      /\ \A i \in 1..(n - 1) : pushed'[i] = pushed[i + 1]
  BY <1>1, <1>2
<1>4. /\ c \in [0..n -> Nat] /\ c[0] = heard[v]
      /\ \A i \in 1..n : c[i] = c[i - 1] + Touched(v, pushed[i])
      /\ \A i \in 0..n : c[i] <= truth[v]
  BY DEF Numbers
<1> HIDE DEF n
<1>5. d \in [0..(n - 1) -> Nat]
  <2>1. \A i \in 0..(n - 1) : i + 1 \in 0..n
    BY <1>2
  <2> QED
    BY <1>4, <2>1
<1>6. d[0] = heard'[v]
  BY <1>1, <1>2, <1>4
<1>7. ASSUME NEW i \in 1..(n - 1) PROVE d[i] = d[i - 1] + Touched(v, pushed'[i])
  <2>1. i \in 0..(n - 1) /\ i - 1 \in 0..(n - 1) /\ i + 1 \in 1..n /\ (i + 1) - 1 = (i - 1) + 1
    BY <1>2
  <2>2. c[i + 1] = c[(i + 1) - 1] + Touched(v, pushed[i + 1])
    BY <1>4, <2>1
  <2> QED
    BY <1>3, <2>1, <2>2
<1>8. ASSUME NEW i \in 0..(n - 1) PROVE d[i] <= truth'[v]
  <2>1. i + 1 \in 0..n /\ d[i] = c[i + 1]
    BY <1>2
  <2>2. c[i + 1] <= truth[v]
    BY <1>4, <2>1
  <2> QED
    BY <1>1, <2>1, <2>2
<1> HIDE DEF d
<1>9. PICK e : e = d
  OBVIOUS
<1>10. Numbers(e, v)'
  BY <1>3, <1>5, <1>6, <1>7, <1>8, <1>9 DEF Numbers
<1> QED
  BY <1>10

\* An event that is posted is pushed after those that were numbered, and the
\* server has its change.
LEMMA PostedIsNumbered ==
  ASSUME Server, NEW kind \in Kind, Post(kind), NEW v \in View, NEW c, Numbers(c, v)
  PROVE  \E d : Numbers(d, v)'
<1> DEFINE n == Len(pushed)
           d == [i \in 0..(n + 1) |-> IF i = n + 1 THEN c[n] + Touched(v, kind) ELSE c[i]]
<1>1. /\ kind \in Event /\ heard' = heard
      /\ pushed' = pushed \/ pushed' = Append(pushed, kind)
      /\ Bump(Touches[kind]) /\ Counted
  BY DEF Post, Event
<1>2. pushed \in Seq(Event) /\ n \in Nat
  BY DEF Server
<1>3. truth'[v] = truth[v] + Touched(v, kind) /\ truth[v] \in Nat /\ Touched(v, kind) \in {0, 1}
  <2>1. truth'[v] = truth[v] + Touched(v, kind)
    BY <1>1, BumpedOnce DEF Server, Touched
  <2>2. truth[v] \in 0..events
    BY DEF Server
  <2> QED
    BY <2>1, <2>2, GlanceAssumption DEF Server, Touched
<1>4. /\ c \in [0..n -> Nat] /\ c[0] = heard[v]
      /\ \A i \in 1..n : c[i] = c[i - 1] + Touched(v, pushed[i])
      /\ \A i \in 0..n : c[i] <= truth[v]
  BY DEF Numbers
<1>5. CASE pushed' = pushed
  <2>1. \A i \in 0..n : c[i] <= truth'[v]
    <3>1. \A i \in 0..n : c[i] \in Nat /\ c[i] <= truth[v]
      BY <1>4
    <3>2. truth[v] \in Nat /\ truth'[v] \in Nat /\ truth[v] <= truth'[v]
      BY <1>3
    <3> QED
      BY <3>1, <3>2
  <2>2. Numbers(c, v)'
    BY <1>1, <1>4, <1>5, <2>1 DEF Numbers
  <2> QED
    BY <2>2
<1>6. CASE pushed' = Append(pushed, kind)
  <2>1. /\ Len(pushed') = n + 1 /\ pushed'[n + 1] = kind
        /\ \A i \in 1..n : pushed'[i] = pushed[i]
    BY <1>1, <1>2, <1>6
  <2> HIDE DEF n
  <2>2. d \in [0..(n + 1) -> Nat]
    <3>1. c[n] + Touched(v, kind) \in Nat
      BY <1>2, <1>3, <1>4
    <3>2. ASSUME NEW i \in 0..(n + 1), i # n + 1 PROVE c[i] \in Nat
      BY <1>2, <1>4, <3>2
    <3> QED
      BY <3>1, <3>2
  <2>3. d[0] = heard'[v]
    BY <1>1, <1>2, <1>4
  <2>4. ASSUME NEW i \in 1..(n + 1) PROVE d[i] = d[i - 1] + Touched(v, pushed'[i])
    <3>1. i \in 0..(n + 1) /\ i - 1 \in 0..(n + 1) /\ i - 1 # n + 1
      BY <1>2
    <3>2. d[i - 1] = c[i - 1]
      BY <3>1
    <3>3. CASE i = n + 1
      <4>1. d[i] = c[n] + Touched(v, kind) /\ i - 1 = n
        BY <1>2, <3>1, <3>3
      <4> QED
        BY <2>1, <3>2, <3>3, <4>1
    <3>4. CASE i # n + 1
      <4>1. i \in 1..n /\ d[i] = c[i]
        BY <1>2, <3>1, <3>4
      <4> QED
        BY <1>4, <2>1, <3>2, <4>1
    <3> QED
      BY <3>3, <3>4
  <2>5. ASSUME NEW i \in 0..(n + 1) PROVE d[i] <= truth'[v]
    <3>1. CASE i = n + 1
      <4>1. d[i] = c[n] + Touched(v, kind)
        BY <3>1
      <4>2. c[n] <= truth[v] /\ c[n] \in Nat
        BY <1>2, <1>4
      <4> QED
        BY <1>3, <4>1, <4>2
    <3>2. CASE i # n + 1
      <4>1. d[i] = c[i] /\ i \in 0..n
        BY <1>2, <3>2
      <4>2. c[i] <= truth[v] /\ c[i] \in Nat
        BY <1>4, <4>1
      <4> QED
        BY <1>3, <4>1, <4>2
    <3> QED
      BY <3>1, <3>2
  <2> HIDE DEF d
  <2>6. PICK e : e = d
    OBVIOUS
  <2>7. Numbers(e, v)'
    BY <2>1, <2>2, <2>3, <2>4, <2>5, <2>6 DEF Numbers
  <2> QED
    BY <2>7
<1> QED
  BY <1>1, <1>5, <1>6

\* What else happens leaves the numbers as they are, or forgets what was pushed.
LEMMA StepHeard == Types /\ HeardIsTrue /\ [Next]_glanceVars => HeardIsTrue'
<1> SUFFICES ASSUME Types, HeardIsTrue, [Next]_glanceVars, NEW v \in View
             PROVE  \E d : Numbers(d, v)'
  BY DEF HeardIsTrue
<1> USE DEF server, caches, reads, watcher
<1>t. Server
  BY DEF Types
<1>c. PICK c : Numbers(c, v)
  BY DEF HeardIsTrue
<1>u. ASSUME UNCHANGED <<pushed, heard, truth>> PROVE \E d : Numbers(d, v)'
  <2>1. Numbers(c, v)'
    BY <1>c, <1>u DEF Numbers
  <2> QED
    BY <2>1
<1>1. ASSUME NEW kind \in Kind, Post(kind) PROVE \E d : Numbers(d, v)'
  BY <1>1, <1>c, <1>t, PostedIsNumbered
<1>2. CASE Receive
  BY <1>2, <1>c, <1>t, ReceivedIsNumbered
<1>3. CASE StageUnseen
  <2>1. /\ pushed' = pushed /\ heard' = heard /\ Bump(Staged) /\ Counted
    BY <1>3 DEF StageUnseen
  <2>2. truth'[v] = truth[v] + (IF v \in Staged THEN 1 ELSE 0)
    BY <1>t, <2>1, BumpedOnce DEF Server
  <2>3. truth[v] \in 0..events /\ events \in Nat
    BY <1>t, GlanceAssumption DEF Server
  <2>4. truth[v] <= truth'[v] /\ truth[v] \in Nat /\ truth'[v] \in Nat
    BY <2>2, <2>3
  <2>5. Numbers(c, v)'
    <3>1. pushed \in Seq(Event) /\ Len(pushed) \in Nat
      BY <1>t DEF Server
    <3>2. \A i \in 0..Len(pushed) : c[i] \in Nat /\ c[i] <= truth[v]
      BY <1>c DEF Numbers
    <3>3. \A i \in 0..Len(pushed) : c[i] <= truth'[v]
      BY <2>4, <3>2
    <3> QED
      BY <1>c, <2>1, <3>3 DEF Numbers
  <2> QED
    BY <2>5
<1>4. CASE Drops
  <2> DEFINE d == [i \in 0..0 |-> heard[v]]
  <2>1. pushed' = <<>> /\ UNCHANGED <<heard, truth>>
    BY <1>4 DEF Drops
  <2>2. Len(pushed) \in Nat /\ heard[v] \in Nat
    BY <1>t DEF Server
  <2>3. heard[v] <= truth[v]
    BY <1>c, <2>2 DEF Numbers
  <2>4. d \in [0..0 -> Nat] /\ d[0] = heard[v]
    BY <2>2
  <2>5. Numbers(d, v)'
    BY <2>1, <2>3, <2>4 DEF Numbers
  <2> QED
    BY <2>5
<1>5. ASSUME \/ handleConnect \/ PersonAnswers \/ GapEnds \/ pollPerson \/ Wakes \/ MarkFrame
             \/ Subscribe \/ StreamEnds
             \/ \E bad \in SUBSET Person : PersonLands(bad)
             \/ \E x \in View : Ages(x)
             \/ UNCHANGED glanceVars
      PROVE  UNCHANGED <<pushed, heard, truth>>
  BY <1>5
  DEF handleConnect, PersonAnswers, GapEnds, pollPerson, Wakes, MarkFrame, Subscribe,
      StreamEnds, PersonLands, Ages, glanceVars
<1>6. ASSUME NEW r \in FrameReader, AskFrame(r) \/ FrameAnswers(r) \/ FrameLands(r) \/ FrameFails(r)
      PROVE  UNCHANGED <<pushed, heard, truth>>
  BY <1>6 DEF AskFrame, FrameAnswers, FrameLands, FrameFails
<1>7. ASSUME NEW p \in Peeker,
             \/ PeekStarts(p) \/ SeatAnswers(p) \/ SeatLands(p) \/ SeatTimesOut(p)
             \/ StatusView(p)
      PROVE  UNCHANGED <<pushed, heard, truth>>
  BY <1>7 DEF PeekStarts, SeatAnswers, SeatLands, SeatTimesOut, StatusView
<1> QED
  BY <1>u, <1>1, <1>2, <1>3, <1>4, <1>5, <1>6, <1>7 DEF Next

\* So what the server answers is as new as every event that came.
LEMMA TruthIsAhead ==
  ASSUME Types, HeardIsTrue
  PROVE  \A v \in View : heard[v] \in Nat /\ truth[v] \in 0..MaxEvents /\ heard[v] <= truth[v]
<1> SUFFICES ASSUME NEW v \in View
             PROVE  heard[v] \in Nat /\ truth[v] \in 0..MaxEvents /\ heard[v] <= truth[v]
  OBVIOUS
<1>1. PICK c : Numbers(c, v)
  BY DEF HeardIsTrue
<1>2. Len(pushed) \in Nat /\ heard[v] \in Nat
  BY DEF Types, Server
<1>3. heard[v] <= truth[v]
  BY <1>1, <1>2 DEF Numbers
<1>4. truth[v] \in 0..events /\ events \in 0..MaxEvents
  BY DEF Types, Server
<1> QED
  BY <1>2, <1>3, <1>4, GlanceAssumption

-----------------------------------------------------------------------------
(* The person's view.                                                       *)

\* A mark is being served: a read is under way, or waits out the pause between
\* two.  What is not marked, not being read and did not fail is as new as what
\* was heard of it; and so is the answer of a read that is about to land, if no
\* mark came after it.
ServedMark(v) == v \in stale => person.at # "none" \/ scheduled
Fresh(v) ==
  \/ v \in stale \cup person.want \cup failed
  \/ held[v] = None /\ heard[v] = 0
  \/ held[v] >= heard[v]
FreshAnswer(v) ==
  person.at = "answered" /\ v \in person.want => v \in stale \/ person.got[v] >= heard[v]

PersonInv ==
  /\ person.at = "none" => person.want = {}
  /\ scheduled => gap /\ person.at = "none"
  /\ \A v \in Person : ServedMark(v) /\ Fresh(v) /\ FreshAnswer(v)

\* Steps that leave the person's view alone.
LEMMA PersonUntouched ==
  ASSUME PersonInv, UNCHANGED <<heard, person, scheduled, failed>>, gap => gap',
         \A v \in Person : held'[v] = held[v] /\ (v \in stale' <=> v \in stale)
  PROVE  PersonInv'
  BY DEF PersonInv, ServedMark, Fresh, FreshAnswer

\* Marks are made and a read of what is due begins, or waits.
LEMMA PersonMarked ==
  ASSUME Types, PersonInv, NEW marked \in SUBSET View, NEW poll \in BOOLEAN,
         startPersonRead(marked, poll), stale \subseteq marked,
         UNCHANGED <<held, failed>>,
         \A v \in Person : heard'[v] = heard[v] \/ v \in marked
  PROVE  PersonInv'
<1>t. Caches /\ Reads
  BY DEF Types
<1>m. \A v \in Person : v \in marked => v \in Due(marked)
  BY DEF Due
<1>1. CASE /\ person.at = "none" /\ ~scheduled /\ scheduled' = FALSE /\ gap' \in BOOLEAN
           /\ person' \in PersonRead /\ person'.at = "asked" /\ person'.want = Due(marked)
           /\ stale' = marked \ Due(marked)
  <2>1. person.want = {}
    BY <1>1 DEF PersonInv
  <2>2. ASSUME NEW v \in Person PROVE ServedMark(v)' /\ Fresh(v)' /\ FreshAnswer(v)'
    <3>1. ServedMark(v)' /\ FreshAnswer(v)'
      BY <1>1 DEF ServedMark, FreshAnswer
    <3>2. CASE v \in marked
      BY <1>1, <1>m, <3>1, <3>2 DEF Fresh
    <3>3. CASE v \notin marked
      <4>1. heard'[v] = heard[v] /\ v \notin stale /\ Fresh(v)
        BY <3>3 DEF PersonInv
      <4> QED
        BY <2>1, <3>1, <4>1 DEF Fresh
    <3> QED
      BY <3>1, <3>2, <3>3
  <2> QED
    BY <1>1, <2>2 DEF PersonInv
<1>2. CASE /\ person' = person /\ stale' = marked /\ gap' = gap
           /\ scheduled' \in BOOLEAN /\ (scheduled => scheduled')
           /\ scheduled' => scheduled \/ (person.at = "none" /\ gap)
           /\ marked \cap Person # {} => person.at # "none" \/ scheduled'
  <2>1. ASSUME NEW v \in Person PROVE ServedMark(v)' /\ Fresh(v)' /\ FreshAnswer(v)'
    <3>1. ServedMark(v)'
      BY <1>2 DEF ServedMark
    <3>2. Fresh(v)'
      <4>1. CASE v \in marked
        BY <1>2, <4>1 DEF Fresh
      <4>2. CASE v \notin marked
        <5>1. heard'[v] = heard[v] /\ v \notin stale /\ Fresh(v)
          BY <4>2 DEF PersonInv
        <5> QED
          BY <1>2, <5>1 DEF Fresh
      <4> QED
        BY <4>1, <4>2
    <3>3. FreshAnswer(v)'
      <4>1. FreshAnswer(v)
        BY DEF PersonInv
      <4> QED
        BY <1>2, <4>1 DEF FreshAnswer
    <3> QED
      BY <3>1, <3>2, <3>3
  <2>2. scheduled' => gap' /\ person'.at = "none"
    BY <1>2 DEF PersonInv
  <2>3. person'.at = "none" => person'.want = {}
    BY <1>2 DEF PersonInv
  <2> QED
    BY <2>1, <2>2, <2>3 DEF PersonInv
<1> QED
  BY <1>t, <1>1, <1>2, PersonReadStarts

\* A read that lands brings what was new when it was answered, and what was
\* marked since is read on.
LEMMA PersonLandsFresh ==
  ASSUME Types, PersonInv, NEW bad \in SUBSET Person, PersonLands(bad)
  PROVE  PersonInv'
<1> DEFINE landed == person.want \ bad
           due == ReadOn(Due(stale) \ (person.want \ stale))
<1>1. /\ person.at = "answered" /\ bad \subseteq person.want
      /\ held' = [v \in View |-> IF v \in landed THEN person.got[v] ELSE held[v]]
      /\ failed' = (failed \ landed) \cup bad
      /\ stale' = (IF gap THEN stale ELSE stale \ due)
      /\ scheduled' = (due # {} /\ gap)
      /\ gap' = (gap \/ due # {})
      /\ person' = (IF due = {} \/ gap THEN Unread
                    ELSE [Unread EXCEPT !.at = "asked", !.want = due])
      /\ UNCHANGED heard
  BY DEF PersonLands
<1>2. Person \subseteq View
  BY DEF View
<1>3. ASSUME NEW v \in Person, v \in stale PROVE v \in due
  BY <1>3 DEF ReadOn, Due
<1>4. /\ due = {} \/ gap => person'.at = "none" /\ person'.want = {}
      /\ ~(due = {} \/ gap) => person'.at = "asked" /\ person'.want = due
  BY <1>1 DEF Unread
<1> HIDE DEF due
<1>5. (scheduled' => gap' /\ person'.at = "none") /\ (person'.at = "none" => person'.want = {})
  <2>1. scheduled' => gap /\ due # {}
    BY <1>1, Zenon
  <2>2. scheduled' => gap'
    BY <1>1, <2>1, Zenon
  <2>3. due # {} => person'.at = "asked" \/ gap
    BY <1>4
  <2> QED
    BY <1>4, <2>1, <2>2
<1>6. ASSUME NEW v \in Person PROVE ServedMark(v)' /\ Fresh(v)' /\ FreshAnswer(v)'
  <2>1. ASSUME v \in stale PROVE v \in stale' \/ v \in person'.want
    BY <1>1, <1>3, <1>4, <2>1
  <2>2. ASSUME v \in stale' PROVE person'.at # "none" \/ scheduled'
    <3>1. v \in stale /\ v \in due /\ gap
      BY <1>1, <1>3, <2>2
    <3> QED
      BY <1>1, <3>1
  <2>3. Fresh(v)'
    <3>1. Fresh(v) /\ FreshAnswer(v) /\ v \in View
      BY <1>2 DEF PersonInv
    <3>2. CASE v \in stale
      BY <2>1, <3>2 DEF Fresh
    <3>3. CASE v \notin stale /\ v \in landed
      <4>1. person.got[v] >= heard[v] /\ held'[v] = person.got[v]
        BY <1>1, <3>1, <3>3 DEF FreshAnswer
      <4> QED
        BY <1>1, <4>1 DEF Fresh
    <3>4. CASE v \in bad
      BY <1>1, <3>4 DEF Fresh
    <3>5. CASE v \notin stale /\ v \notin person.want
      <4>1. held'[v] = held[v] /\ (v \in failed => v \in failed')
        BY <1>1, <3>1, <3>5
      <4> QED
        BY <1>1, <3>1, <3>5, <4>1 DEF Fresh
    <3> QED
      BY <3>2, <3>3, <3>4, <3>5
  <2> QED
    BY <1>4, <2>2, <2>3 DEF ServedMark, FreshAnswer
<1> QED
  BY <1>5, <1>6 DEF PersonInv

\* The answer is the server's, which has all that was heard of.
LEMMA PersonAnswersFresh ==
  ASSUME Types, HeardIsTrue, PersonInv, PersonAnswers
  PROVE  PersonInv'
<1>1. PICK want :
        /\ person.want \subseteq want
        /\ person' = [at |-> "answered", want |-> want,
                      got |-> [v \in Person |-> IF v \in want THEN truth[v] ELSE None]]
  BY DEF PersonAnswers
<1>2. person.at = "asked" /\ UNCHANGED <<held, stale, failed, heard, scheduled, gap>>
  BY DEF PersonAnswers, caches
<1>3. ASSUME NEW v \in Person PROVE ServedMark(v)' /\ Fresh(v)' /\ FreshAnswer(v)'
  <2>1. heard[v] \in Nat /\ truth[v] \in Nat /\ heard[v] <= truth[v]
    BY TruthIsAhead, GlanceAssumption DEF View
  <2>2. v \in want => person'.got[v] = truth[v]
    BY <1>1
  <2>3. Fresh(v)
    BY DEF PersonInv
  <2> QED
    BY <1>1, <1>2, <2>1, <2>2, <2>3 DEF ServedMark, Fresh, FreshAnswer
<1> QED
  BY <1>1, <1>2, <1>3 DEF PersonInv

\* The pause is over: what waited for it is read.
LEMMA GapEndsFresh ==
  ASSUME Types, PersonInv, GapEnds
  PROVE  PersonInv'
<1>1. UNCHANGED <<held, failed, heard>>
  BY DEF GapEnds
<1>2. CASE ~scheduled
  <2>1. UNCHANGED <<scheduled, person, stale>>
    BY <1>2 DEF GapEnds
  <2> QED
    BY <1>1, <1>2, <2>1 DEF PersonInv, ServedMark, Fresh, FreshAnswer
<1>3. CASE scheduled
  <2>1. /\ scheduled' = FALSE /\ stale' = stale \ Due(stale)
        /\ person' = (IF Due(stale) = {} THEN Unread
                      ELSE [Unread EXCEPT !.at = "asked", !.want = Due(stale)])
        /\ person.at = "none" /\ person.want = {}
    BY <1>3 DEF GapEnds, PersonInv
  <2>2. /\ person'.want = Due(stale) /\ person'.at \in {"none", "asked"}
        /\ person'.at = "none" => person'.want = {}
    BY <2>1 DEF Unread
  <2>3. ASSUME NEW v \in Person PROVE ServedMark(v)' /\ Fresh(v)' /\ FreshAnswer(v)'
    <3>1. v \in stale => v \in Due(stale)
      BY DEF Due
    <3>2. Fresh(v)
      BY DEF PersonInv
    <3> QED
      BY <1>1, <2>1, <2>2, <3>1, <3>2 DEF ServedMark, Fresh, FreshAnswer
  <2> QED
    BY <2>1, <2>2, <2>3 DEF PersonInv
<1> QED
  BY <1>2, <1>3

\* No step leaves a mark on the person's view unserved, or clears one that a
\* later answer did not earn.
LEMMA StepPerson ==
  Types /\ HeardIsTrue /\ PersonInv /\ [Next]_glanceVars => PersonInv'
<1> SUFFICES ASSUME Types, HeardIsTrue, PersonInv, [Next]_glanceVars PROVE PersonInv'
  OBVIOUS
<1> USE DEF server, caches, reads, watcher
<1>t. Server /\ Caches /\ Reads
  BY DEF Types
<1>b. View = Person \cup {"frame", "seat"} /\ "frame" \notin Person /\ "seat" \notin Person
  BY DEF View, Person
<1>1. ASSUME NEW kind \in Kind, Post(kind) PROVE PersonInv'
  BY <1>1, PersonUntouched DEF Post
<1>2. ASSUME StageUnseen \/ handleConnect \/ Drops \/ Wakes \/ Subscribe \/ StreamEnds
      PROVE  PersonInv'
  BY <1>2, PersonUntouched DEF StageUnseen, handleConnect, Drops, Wakes, Subscribe, StreamEnds
<1>3. CASE PersonAnswers
  BY <1>3, PersonAnswersFresh
<1>4. ASSUME NEW bad \in SUBSET Person, PersonLands(bad) PROVE PersonInv'
  BY <1>4, PersonLandsFresh
<1>5. CASE GapEnds
  BY <1>5, GapEndsFresh
<1>6. CASE pollPerson
  <2>1. stale \cup {"votes"} \in SUBSET View
    BY <1>t, <1>b DEF Caches, Person
  <2> QED
    BY <1>6, <2>1, PersonMarked DEF pollPerson
<1>7. ASSUME NEW r \in FrameReader, AskFrame(r) \/ FrameAnswers(r) \/ FrameFails(r) PROVE PersonInv'
  BY <1>7, PersonUntouched DEF AskFrame, FrameAnswers, FrameFails
<1>8. ASSUME NEW r \in FrameReader, FrameLands(r) PROVE PersonInv'
  <2>1. /\ UNCHANGED <<heard, person, scheduled, gap, failed>>
        /\ held' = [held EXCEPT !["frame"] = frames[r].got]
        /\ stale' \in {stale, stale \ {"frame"}}
    BY <1>8 DEF FrameLands, Clears
  <2>2. \A v \in Person : held'[v] = held[v] /\ (v \in stale' <=> v \in stale)
    BY <1>t, <1>b, <2>1 DEF Caches
  <2> QED
    BY <2>1, <2>2, PersonUntouched
<1>9. CASE Receive
  <2> DEFINE marked == stale \cup (Touches[Head(pushed)] \ {"frame"})
  <2>1. marked \in SUBSET View
    <3>1. pushed \in Seq(Event) /\ pushed # <<>>
      BY <1>t, <1>9 DEF Server, Receive
    <3>2. Head(pushed) \in Event
      BY <3>1
    <3> QED
      BY <1>t, <3>2, TouchesViews DEF Caches
  <2>2. /\ startPersonRead(marked, FALSE) /\ UNCHANGED <<held, failed>>
        /\ heard' = [v \in View |-> IF v \in Touches[Head(pushed)] THEN heard[v] + 1 ELSE heard[v]]
    BY <1>9 DEF Receive
  <2>3. \A v \in Person : heard'[v] = heard[v] \/ v \in marked
    BY <1>b, <2>2
  <2>4. stale \subseteq marked
    OBVIOUS
  <2> HIDE DEF marked
  <2> QED
    BY <2>1, <2>2, <2>3, <2>4, PersonMarked
<1>10. CASE MarkFrame
  BY <1>10, <1>b, PersonUntouched DEF MarkFrame
<1>11. ASSUME NEW p \in Peeker, PeekStarts(p) \/ SeatAnswers(p) \/ SeatTimesOut(p)
       PROVE  PersonInv'
  BY <1>11, PersonUntouched DEF PeekStarts, SeatAnswers, SeatTimesOut
<1>12. ASSUME NEW p \in Peeker, SeatLands(p) PROVE PersonInv'
  <2>1. /\ UNCHANGED <<heard, person, scheduled, gap, failed>>
        /\ held' = [held EXCEPT !["seat"] = seats[p].got] /\ stale' = stale \ {"seat"}
    BY <1>12 DEF SeatLands
  <2>2. \A v \in Person : held'[v] = held[v] /\ (v \in stale' <=> v \in stale)
    BY <1>t, <1>b, <2>1 DEF Caches
  <2> QED
    BY <2>1, <2>2, PersonUntouched
<1>13. ASSUME NEW p \in Peeker, StatusView(p) PROVE PersonInv'
  <2>1. stale \in SUBSET View
    BY <1>t DEF Caches
  <2> QED
    BY <1>13, <2>1, PersonMarked DEF StatusView
<1>14. ASSUME (\E v \in View : Ages(v)) \/ UNCHANGED glanceVars PROVE PersonInv'
  BY <1>14, PersonUntouched DEF Ages, glanceVars
<1> QED
  BY <1>1, <1>2, <1>3, <1>4, <1>5, <1>6, <1>7, <1>8, <1>9, <1>10, <1>11, <1>12, <1>13, <1>14
  DEF Next

-----------------------------------------------------------------------------
(* The frame.                                                               *)

\* The changes of the frame that its mark has been set for: all that were heard
\* of but the one that enqueue is at.
Marked ==
  heard["frame"] -
    (IF enq[1] # "idle" /\ "frame" \in Touches[enq[2]] THEN 1 ELSE 0)

\* A read that began at the newest mark brings what is as new as the mark, and
\* while there is no mark such a read has landed.
FrameInv ==
  /\ \A r \in FrameReader :
       /\ frames[r].gen <= gen
       /\ frames[r].at = "answered" /\ frames[r].gen = gen => frames[r].got >= Marked
  /\ "frame" \notin stale => best >= Marked
  /\ enq[1] = "mark" => "frame" \in Touches[enq[2]]

\* Steps that hear of nothing and clear no mark.
LEMMA FrameUntouched ==
  ASSUME FrameInv, UNCHANGED <<gen, enq, best>>, heard'["frame"] = heard["frame"],
         "frame" \in stale' <=> "frame" \in stale,
         \A r \in FrameReader :
           \/ frames'[r] = frames[r]
           \/ frames'[r].gen <= gen /\ frames'[r].at # "answered"
  PROVE  FrameInv'
<1>1. Marked' = Marked
  BY DEF Marked
<1> QED
  BY <1>1 DEF FrameInv

\* The background refresh begins; it has not asked yet.
LEMMA RefreshBegins ==
  ASSUME Types, FrameInv, NEW fresh \in BOOLEAN, refreshFrame(fresh)
  PROVE  \A r \in FrameReader :
           \/ frames'[r] = frames[r]
           \/ frames'[r].gen = frames[r].gen /\ frames'[r].at = "begun"
<1>1. frames' = frames \/ frames' = [frames EXCEPT !["refresh"].at = "begun"]
  BY DEF refreshFrame
<1>2. frames \in [FrameReader -> ReadOf({"none", "begun", "asked", "answered"})]
  BY DEF Types, Reads
<1> QED
  BY <1>1, <1>2 DEF ReadOf

\* What was heard of the frame is a number of events, one of which may be the
\* one enqueue is at.
LEMMA MarkedIsHeard ==
  ASSUME Types
  PROVE  /\ Marked \in Int /\ Marked <= heard["frame"] /\ heard["frame"] \in Nat
         /\ enq[1] = "idle" => Marked = heard["frame"]
<1>1. heard["frame"] \in Nat
  BY DEF Types, Server, View
<1> QED
  BY <1>1 DEF Marked

\* No step clears the frame's mark but the landing of a read that began after
\* it was set.
LEMMA StepFrame ==
  Types /\ HeardIsTrue /\ FrameInv /\ [Next]_glanceVars => FrameInv'
<1> SUFFICES ASSUME Types, HeardIsTrue, FrameInv, [Next]_glanceVars PROVE FrameInv'
  OBVIOUS
<1> USE DEF server, caches, reads, watcher
<1>t. Server /\ Caches /\ Reads
  BY DEF Types
<1>b. View = Person \cup {"frame", "seat"} /\ "frame" \notin Person
  BY DEF View, Person
<1>f. /\ frames \in [FrameReader -> ReadOf({"none", "begun", "asked", "answered"})]
      /\ gen \in Nat
  BY <1>t DEF Reads
<1>1. ASSUME NEW kind \in Kind, Post(kind) PROVE FrameInv'
  BY <1>1, FrameUntouched DEF Post
<1>2. ASSUME \/ StageUnseen \/ handleConnect \/ Drops \/ Subscribe \/ StreamEnds
             \/ PersonAnswers
      PROVE  FrameInv'
  BY <1>2, FrameUntouched DEF StageUnseen, handleConnect, Drops, Subscribe, StreamEnds, PersonAnswers
<1>3. CASE Wakes
  <2>1. /\ enq[1] = "wake" /\ UNCHANGED <<gen, best, heard, stale, frames>>
        /\ enq' = <<IF "frame" \in Touches[enq[2]] THEN "mark" ELSE "idle", enq[2]>>
    BY <1>3 DEF Wakes
  <2>2. Marked' = Marked /\ (enq'[1] = "mark" => "frame" \in Touches[enq'[2]])
    BY <2>1 DEF Marked
  <2> QED
    BY <2>1, <2>2 DEF FrameInv
<1>4. CASE Receive
  <2> DEFINE kind == Head(pushed)
             marked == stale \cup (Touches[kind] \ {"frame"})
  <2>1. marked \in SUBSET View
    <3>1. pushed \in Seq(Event) /\ pushed # <<>>
      BY <1>t, <1>4 DEF Server, Receive
    <3>2. kind \in Event
      BY <3>1
    <3> QED
      BY <1>t, <3>2, TouchesViews DEF Caches
  <2>2. /\ enq[1] = "idle" /\ enq' = <<"wake", kind>>
        /\ heard' = [v \in View |-> IF v \in Touches[kind] THEN heard[v] + 1 ELSE heard[v]]
        /\ startPersonRead(marked, FALSE)
        /\ UNCHANGED <<gen, best, frames>>
    BY <1>4 DEF Receive
  <2>3. Due(marked) \subseteq Person
    BY DEF Due
  <2>4. stale' = marked \/ stale' = marked \ Due(marked)
    BY <2>2 DEF startPersonRead, MarksLeft
  <2>5. "frame" \in stale' <=> "frame" \in stale
    BY <1>b, <2>3, <2>4
  <2> HIDE DEF kind
  <2>6. Marked' = Marked
    <3>1. heard["frame"] \in Nat
      BY <1>t, <1>b DEF Server
    <3>2. "frame" \in View
      BY <1>b
    <3> QED
      BY <2>2, <3>1, <3>2 DEF Marked
  <2> QED
    BY <2>2, <2>5, <2>6 DEF FrameInv
<1>5. CASE MarkFrame
  <2>1. /\ enq' = <<"idle", enq[2]>> /\ "frame" \in stale' /\ gen' = gen + 1
        /\ refreshFrame(FALSE)
    BY <1>5 DEF MarkFrame
  <2>2. \A r \in FrameReader : frames'[r].gen = frames[r].gen
    BY <2>1, RefreshBegins
  <2>3. \A r \in FrameReader : frames[r].gen <= gen /\ frames[r].gen \in Nat
    BY <1>f DEF FrameInv, ReadOf
  <2>4. \A r \in FrameReader : frames'[r].gen <= gen' /\ frames'[r].gen # gen'
    BY <1>f, <2>1, <2>2, <2>3
  <2> QED
    BY <2>1, <2>4 DEF FrameInv
<1>6. ASSUME \/ \E bad \in SUBSET Person : PersonLands(bad)
             \/ GapEnds
      PROVE  FrameInv'
  <2>1. /\ UNCHANGED <<gen, enq, best, heard, frames>>
        /\ "frame" \in stale' <=> "frame" \in stale
    <3>1. \A m : Due(m) \subseteq Person
      BY DEF Due
    <3>2. Due(stale) \subseteq Person /\ ReadOn(Due(stale) \ (person.want \ stale)) \subseteq Person
      BY <3>1 DEF ReadOn
    <3>3. CASE GapEnds
      BY <1>b, <3>2, <3>3 DEF GapEnds
    <3>4. ASSUME NEW bad \in SUBSET Person, PersonLands(bad)
          PROVE  /\ UNCHANGED <<gen, enq, best, heard, frames>>
                 /\ "frame" \in stale' <=> "frame" \in stale
      BY <1>b, <3>2, <3>4 DEF PersonLands
    <3> QED
      BY <1>6, <3>3, <3>4
  <2> QED
    BY <2>1, FrameUntouched
<1>7. CASE pollPerson
  <2>1. /\ UNCHANGED <<gen, enq, best, heard, frames>>
        /\ stale' = stale \cup {"votes"} \/ stale' = (stale \cup {"votes"}) \ Due(stale \cup {"votes"})
    BY <1>7 DEF pollPerson, startPersonRead, MarksLeft
  <2>2. Due(stale \cup {"votes"}) \subseteq Person /\ "votes" \in Person
    BY DEF Due, Person
  <2>3. "frame" \in stale' <=> "frame" \in stale
    BY <1>b, <2>1, <2>2
  <2> QED
    BY <2>1, <2>3, FrameUntouched
<1>8. ASSUME NEW r \in FrameReader, AskFrame(r) \/ FrameFails(r) PROVE FrameInv'
  <2>1. /\ UNCHANGED <<gen, enq, best, heard, stale>>
        /\ \/ frames' = [frames EXCEPT ![r] = NoRead]
           \/ frames' = [frames EXCEPT ![r] = [NoRead EXCEPT !.at = "asked", !.gen = gen]]
    BY <1>8 DEF AskFrame, FrameFails
  <2>2. /\ NoRead.gen <= gen /\ NoRead.at # "answered"
        /\ [NoRead EXCEPT !.at = "asked", !.gen = gen].gen <= gen
        /\ [NoRead EXCEPT !.at = "asked", !.gen = gen].at # "answered"
    BY <1>f DEF NoRead
  <2>3. ASSUME NEW x \in FrameReader
        PROVE  frames'[x] = frames[x] \/ (frames'[x].gen <= gen /\ frames'[x].at # "answered")
    BY <1>f, <2>1, <2>2
  <2> QED
    BY <2>1, <2>3, FrameUntouched
<1>9. ASSUME NEW r \in FrameReader, FrameAnswers(r) PROVE FrameInv'
  <2>1. /\ UNCHANGED <<gen, enq, best, heard, stale>>
        /\ frames' = [frames EXCEPT ![r] = [frames[r] EXCEPT !.at = "answered", !.got = truth["frame"]]]
    BY <1>9 DEF FrameAnswers
  <2>2. Marked' = Marked
    BY <2>1 DEF Marked
  <2>3. truth["frame"] >= Marked
    <3>1. heard["frame"] <= truth["frame"] /\ truth["frame"] \in Nat
      BY <1>b, TruthIsAhead, GlanceAssumption
    <3> QED
      BY <3>1, MarkedIsHeard
  <2>4. frames'[r].gen = frames[r].gen /\ frames'[r].got = truth["frame"]
    BY <1>f, <2>1 DEF ReadOf
  <2>5. \A x \in FrameReader : x # r => frames'[x] = frames[x]
    BY <1>f, <2>1
  <2> QED
    BY <2>1, <2>2, <2>3, <2>4, <2>5 DEF FrameInv
<1>10. ASSUME NEW r \in FrameReader, FrameLands(r) PROVE FrameInv'
  <2>1. /\ frames[r].at = "answered" /\ UNCHANGED <<gen, enq, heard>>
        /\ best' = (IF frames[r].got > best THEN frames[r].got ELSE best)
        /\ stale' = stale \ Clears(r)
        /\ \/ frames' = [frames EXCEPT ![r] = NoRead]
           \/ frames' = [frames EXCEPT ![r] = [NoRead EXCEPT !.at = "begun"]]
    BY <1>10 DEF FrameLands
  <2>2. /\ NoRead.gen <= gen /\ NoRead.at # "answered"
        /\ [NoRead EXCEPT !.at = "begun"].gen <= gen
        /\ [NoRead EXCEPT !.at = "begun"].at # "answered"
    BY <1>f DEF NoRead
  <2>3. ASSUME NEW x \in FrameReader
        PROVE  frames'[x] = frames[x] \/ (frames'[x].gen <= gen /\ frames'[x].at # "answered")
    BY <1>f, <2>1, <2>2
  <2>4. Marked' = Marked /\ Marked \in Int
    BY <2>1, MarkedIsHeard DEF Marked
  <2>5. best \in Int /\ frames[r].got \in Int
    BY <1>t, <1>f, GlanceAssumption DEF Caches, ReadOf, Version, None
  <2>6. best' >= best /\ best' >= frames[r].got /\ best' \in Int
    BY <2>1, <2>5
  <2>7. ASSUME "frame" \notin stale' PROVE best' >= Marked'
    <3>1. CASE "frame" \notin stale
      <4>1. best >= Marked
        BY <3>1 DEF FrameInv
      <4> QED
        BY <2>4, <2>5, <2>6, <4>1
    <3>2. CASE "frame" \in stale
      <4>1. frames[r].gen = gen
        BY <2>1, <2>7, <3>2 DEF Clears
      <4>2. frames[r].got >= Marked
        BY <2>1, <4>1 DEF FrameInv
      <4> QED
        BY <2>4, <2>5, <2>6, <4>2
    <3> QED
      BY <3>1, <3>2
  <2> QED
    BY <2>1, <2>3, <2>4, <2>7 DEF FrameInv
<1>11. ASSUME NEW p \in Peeker, PeekStarts(p) \/ SeatAnswers(p) \/ SeatLands(p) \/ SeatTimesOut(p)
       PROVE  FrameInv'
  BY <1>11, FrameUntouched DEF PeekStarts, SeatAnswers, SeatLands, SeatTimesOut
<1>12. ASSUME NEW p \in Peeker, StatusView(p) PROVE FrameInv'
  <2>1. /\ UNCHANGED <<gen, enq, best, heard>> /\ refreshFrame(FrameFresh)
        /\ stale' = stale \/ stale' = stale \ Due(stale)
    BY <1>12 DEF StatusView, startPersonRead, MarksLeft
  <2>2. Due(stale) \subseteq Person
    BY DEF Due
  <2>3. "frame" \in stale' <=> "frame" \in stale
    BY <1>b, <2>1, <2>2
  <2>4. \A r \in FrameReader :
          \/ frames'[r] = frames[r]
          \/ frames'[r].gen = frames[r].gen /\ frames'[r].at = "begun"
    <3>1. FrameFresh \in BOOLEAN
      BY DEF FrameFresh
    <3> QED
      BY <2>1, <3>1, RefreshBegins
  <2>5. \A r \in FrameReader : frames[r].gen <= gen
    BY DEF FrameInv
  <2>6. \A r \in FrameReader :
          \/ frames'[r] = frames[r]
          \/ frames'[r].gen <= gen /\ frames'[r].at # "answered"
    BY <2>4, <2>5
  <2> QED
    BY <2>1, <2>3, <2>6, FrameUntouched
<1>13. ASSUME (\E v \in View : Ages(v)) \/ UNCHANGED glanceVars PROVE FrameInv'
  BY <1>13, FrameUntouched DEF Ages, glanceVars
<1> QED
  BY <1>1, <1>2, <1>3, <1>4, <1>5, <1>6, <1>7, <1>8, <1>9, <1>10, <1>11, <1>12, <1>13 DEF Next

-----------------------------------------------------------------------------
(* The watch.                                                               *)

\* Whatever changes what is drawn of the person's view wakes the watch, and
\* only a peek of its own takes the wake.
LEMMA StepWatch ==
  Types /\ WatchIsWoken /\ [Next]_glanceVars => WatchIsWoken'
<1> SUFFICES ASSUME Types, WatchIsWoken, [Next]_glanceVars PROVE WatchIsWoken'
  OBVIOUS
<1> USE DEF server, caches, reads, watcher
<1>t. Caches /\ Reads /\ Watcher
  BY DEF Types
<1>b. Person \subseteq View /\ "frame" \notin Person
  BY DEF View, Person
<1>1. ASSUME UNCHANGED watcher PROVE WatchIsWoken'
  BY <1>1 DEF WatchIsWoken
<1>2. ASSUME \/ \E kind \in Kind : Post(kind)
             \/ StageUnseen \/ handleConnect \/ Drops \/ PersonAnswers \/ GapEnds \/ pollPerson
             \/ Receive \/ MarkFrame
             \/ \E v \in View : Ages(v)
             \/ \E r \in FrameReader : AskFrame(r) \/ FrameAnswers(r) \/ FrameFails(r)
             \/ \E p \in Peeker : SeatAnswers(p) \/ SeatLands(p) \/ SeatTimesOut(p)
             \/ UNCHANGED glanceVars
      PROVE  UNCHANGED watcher
  BY <1>2
  DEF Post, StageUnseen, handleConnect, Drops, PersonAnswers, GapEnds, pollPerson, Receive,
      MarkFrame, Ages, AskFrame, FrameAnswers, FrameFails, SeatAnswers, SeatLands, SeatTimesOut,
      glanceVars
<1>3. ASSUME NEW r \in FrameReader, FrameLands(r) PROVE WatchIsWoken'
  BY <1>3, <1>b DEF FrameLands, WatchIsWoken
<1>4. ASSUME NEW bad \in SUBSET Person, PersonLands(bad) PROVE WatchIsWoken'
  <2> DEFINE landed == person.want \ bad
  <2>1. /\ UNCHANGED <<watch, stream>>
        /\ drawn' = drawn \ {v \in landed : held[v] # person.got[v]}
        /\ token' = (token \/ (stream # "none" /\ Differs(landed)))
    BY <1>4 DEF PersonLands
  <2>2. CASE \E v \in landed : held[v] # person.got[v]
    <3>1. stream # "none" => token'
      BY <2>1, <2>2, Zenon DEF Differs
    <3> QED
      BY <2>1, <3>1 DEF WatchIsWoken
  <2>3. CASE ~\E v \in landed : held[v] # person.got[v]
    <3>1. drawn' = drawn
      BY <2>1, <2>3
    <3>2. ~token' => ~token
      BY <2>1, Zenon
    <3> QED
      BY <2>1, <3>1, <3>2 DEF WatchIsWoken
  <2> QED
    BY <2>2, <2>3
<1>5. CASE Wakes
  <2>1. UNCHANGED <<watch, stream, drawn>> /\ token' = (token \/ stream # "none")
    BY <1>5 DEF Wakes
  <2>2. ~token' => ~token
    BY <2>1, Zenon
  <2> QED
    BY <2>1, <2>2 DEF WatchIsWoken
<1>6. CASE Subscribe \/ StreamEnds
  BY <1>6 DEF Subscribe, StreamEnds, WatchIsWoken
<1>7. ASSUME NEW p \in Peeker, PeekStarts(p) \/ StatusView(p) PROVE WatchIsWoken'
  BY <1>7, <1>b DEF PeekStarts, StatusView, WatchIsWoken
<1> QED
  BY <1>1, <1>2, <1>3, <1>4, <1>5, <1>6, <1>7 DEF Next

-----------------------------------------------------------------------------
(* The theorems.                                                            *)

GInv == Types /\ HeardIsTrue /\ PersonInv /\ FrameInv /\ WatchIsWoken

(* At first nothing has happened that anyone could have missed. *)
LEMMA InitGlance == Init => GInv
<1> SUFFICES ASSUME Init PROVE GInv
  OBVIOUS
<1>1. Types
  BY InitTypes
<1>2. ASSUME NEW v \in View PROVE \E c : Numbers(c, v)
  <2>1. pushed = <<>> /\ heard[v] = 0 /\ truth[v] = 0
    BY DEF Init
  <2> DEFINE c == [i \in 0..0 |-> 0]
  <2>2. Numbers(c, v)
    BY <2>1 DEF Numbers
  <2> QED
    BY <2>2
<1>3. PersonInv
  BY DEF Init, PersonInv, ServedMark, Fresh, FreshAnswer, Unread, View, Person
<1>4. FrameInv
  BY DEF Init, FrameInv, Marked, NoRead, View
<1>5. WatchIsWoken
  BY DEF Init, WatchIsWoken
<1> QED
  BY <1>1, <1>2, <1>3, <1>4, <1>5 DEF GInv, HeardIsTrue

(* The invariant holds of every state. *)
LEMMA AlwaysGInv == SpecGlance => []GInv
<1>1. Init => GInv
  BY InitGlance
<1>2. GInv /\ [Next]_glanceVars => GInv'
  BY StepTypes, StepHeard, StepPerson, StepFrame, StepWatch DEF GInv
<1> QED
  BY <1>1, <1>2, PTL DEF SpecGlance

\* What the daemon holds of a room is well typed, and no view is at a version
\* the server has not reached.
THEOREM GlanceTypes == SpecGlance => []GlanceTypeOK
<1>1. GInv => GlanceTypeOK
  <2> SUFFICES ASSUME Types PROVE GlanceTypeOK
    BY DEF GInv
  <2>1. truth \in [View -> 0..MaxEvents]
    <3>1. events \in 0..MaxEvents /\ truth \in [View -> 0..events]
      BY DEF Types, Server
    <3>2. 0..events \subseteq 0..MaxEvents
      BY <3>1, GlanceAssumption
    <3> QED
      BY <3>1, <3>2
  <2>2. pushed \in Seq(DOMAIN Touches) /\ enq[1] \in {"idle", "wake", "mark"}
    BY DEF Types, Server, Event
  <2>3. /\ wire \in {"down", "up", "subscribed"} /\ Connection \in {"live", "disconnected"}
        /\ held \in [View -> None..MaxEvents] /\ stale \subseteq View /\ old \subseteq View
        /\ watch \in {"asleep", "peeks"} /\ drawn \subseteq View
    BY DEF Types, Server, Caches, Version, Watcher
  <2>4. /\ person.want \subseteq Person /\ person.at \in {"none", "asked", "answered"}
        /\ \A r \in FrameReader : frames[r].at \in {"none", "begun", "asked", "answered"}
        /\ \A p \in Peeker : seats[p].at \in {"none", "asked", "answered", "done"}
    BY DEF Types, Reads, PersonRead, ReadOf
  <2> QED
    BY <2>1, <2>2, <2>3, <2>4 DEF GlanceTypeOK
<1> QED
  BY <1>1, AlwaysGInv, PTL

\* However the socket's events, the reads, their failures and TTLs, the pauses,
\* the hooks' peeks and the watch interleave: a mark on the person's view is
\* served and never cleared by an answer older than the event that set it, the
\* frame's mark holds until an answer as new has landed, and a watch that sleeps
\* without a wake has drawn the person's view as it is (room.go
\* startPersonReadLocked, refreshFrameAsync, Frame, enqueue; watch.go).
THEOREM WhatIsDrawnIsFresh == SpecGlance => []GlanceIsFresh
<1>1. GInv => GlanceIsFresh
  <2> SUFFICES ASSUME GInv PROVE GlanceIsFresh
    OBVIOUS
  <2>1. PersonIsFresh
    BY DEF GInv, PersonInv, ServedMark, Fresh, PersonIsFresh
  <2>2. FrameMarkHolds
    BY MarkedIsHeard DEF GInv, FrameInv, FrameMarkHolds
  <2> QED
    BY <2>1, <2>2 DEF GInv, GlanceIsFresh
<1> QED
  BY <1>1, AlwaysGInv, PTL

-----------------------------------------------------------------------------
(* The governor. *)

(* The wait is a number, and never beyond the cap. *)
LEMMA BackoffIsBounded ==
  ASSUME NEW n \in Nat \ {0} PROVE Backoff(n) \in Int /\ Backoff(n) <= Cap
<1>1. n - 1 \in Nat
  OBVIOUS
<1>2. 2 ^ (n - 1) \in Int
  BY <1>1, SMT
<1> DEFINE w == Base * 2 ^ (n - 1)
<1>3. w \in Int
  BY <1>2, GovernorAssumption
<1> HIDE DEF w
<1>4. Lesser(Cap, w) \in Int /\ Lesser(Cap, w) <= Cap
  BY <1>3, GovernorAssumption DEF Lesser
<1> QED BY <1>4 DEF w, Backoff

(* The type invariant, its intervals spelled out. *)
GovernorTypes ==
  /\ now \in Nat /\ 0 < now /\ now <= MaxTime
  /\ gov \in [Host -> [until : Nat, failures : Nat]]
  /\ sent \in [Request -> Host \cup {"none"}]
  /\ row \in [Host -> Nat] /\ asked \in [Host -> Nat]
  /\ refusedAt \in [Host -> Nat] /\ \A h \in Host : refusedAt[h] <= now
  /\ hasty \subseteq {"backoff", "retry-after"}

(* The governor counts what the history does, and a cool-down is that of   *)
(* the last refusal: no shorter than the wait of so many in a row, no      *)
(* longer than one refusal gives, and none at all after any other answer.  *)
GovernorInv ==
  /\ GovernorTypes
  /\ \A h \in Host :
       /\ gov[h].failures = row[h]
       /\ row[h] = 0 => gov[h].until = 0
       /\ row[h] > 0 => refusedAt[h] + Backoff(row[h]) <= gov[h].until
       /\ gov[h].until <= refusedAt[h] + Greater(Cap + Jitter, Longest)
  /\ "backoff" \notin hasty

USE GovernorAssumption DEF Greater

(* At first no host has refused anything, and nothing was asked. *)
LEMMA InitGoverned == InitGovernor => GovernorInv
BY DEF InitGovernor, GovernorInv, GovernorTypes, Free

(* What a refusal leaves of a host's governor. *)
LEMMA RefusedWaits ==
  ASSUME GovernorInv, NEW h \in Host, NEW ra \in RetryAfter, NEW j \in 0..Jitter
  PROVE  LET g == refused(gov[h], ra, j) IN
         /\ g \in [until : Nat, failures : Nat] /\ g.failures = row[h] + 1
         /\ now + Backoff(row[h] + 1) <= g.until
         /\ g.until <= now + Greater(Cap + Jitter, Longest)
<1>1. gov[h].failures = row[h] /\ row[h] \in Nat /\ now \in Nat
  BY DEF GovernorInv, GovernorTypes
<1> DEFINE w == Backoff(row[h] + 1)
           x == parseRetryAfter(ra)
<1>2. w \in Int /\ w <= Cap
  BY <1>1, BackoffIsBounded
<1>3. x \in Nat /\ x <= Longest
  BY DEF parseRetryAfter, Lesser
<1>4. refused(gov[h], ra, j) = [until |-> now + Greater(w + j, x), failures |-> row[h] + 1]
  BY <1>1 DEF refused
<1> HIDE DEF w, x
<1>5. /\ now + Greater(w + j, x) \in Nat /\ now + w <= now + Greater(w + j, x)
      /\ now + Greater(w + j, x) <= now + Greater(Cap + Jitter, Longest)
  BY <1>1, <1>2, <1>3
<1> QED BY <1>1, <1>4, <1>5 DEF w

(* A request, an answer, a refusal and the clock keep the invariant. *)
LEMMA NextGoverned == GovernorInv /\ [NextGovernor]_governorVars => GovernorInv'
<1> SUFFICES ASSUME GovernorInv, [NextGovernor]_governorVars PROVE GovernorInv'
  OBVIOUS
<1> USE DEF GovernorInv, GovernorTypes
<1>1. CASE UNCHANGED governorVars
  BY <1>1 DEF governorVars
<1>2. CASE Tick
  BY <1>2 DEF Tick
<1>3. ASSUME NEW q \in Request, NEW h \in Host, Send(q, h) PROVE GovernorInv'
  <2>1. ~(now < gov[h].until)
    BY <1>3 DEF Send, cooldown
  <2>2. ~(row[h] > 0 /\ now < refusedAt[h] + Backoff(row[h]))
    <3>1. row[h] > 0 => Backoff(row[h]) \in Int
      BY BackoffIsBounded
    <3> QED BY <2>1, <3>1
  <2>3. UNCHANGED <<now, gov, row, refusedAt, asked>>
        /\ sent' \in [Request -> Host \cup {"none"}]
    BY <1>3 DEF Send
  <2>4. "backoff" \notin hasty' /\ hasty' \subseteq {"backoff", "retry-after"}
    BY <1>3, <2>2 DEF Send
  <2> QED BY <2>3, <2>4
<1>4. ASSUME NEW q \in Request, NEW ra \in RetryAfter, NEW j \in 0..Jitter, Refused(q, ra, j)
      PROVE  GovernorInv'
  <2> DEFINE h == sent[q]
             g == refused(gov[h], ra, j)
  <2>1. h \in Host
    BY <1>4 DEF Refused
  <2>2. /\ g \in [until : Nat, failures : Nat] /\ g.failures = row[h] + 1
        /\ now + Backoff(row[h] + 1) <= g.until
        /\ g.until <= now + Greater(Cap + Jitter, Longest)
    BY <2>1, RefusedWaits
  <2>3. /\ gov' = [gov EXCEPT ![h] = g] /\ row' = [row EXCEPT ![h] = row[h] + 1]
        /\ refusedAt' = [refusedAt EXCEPT ![h] = now] /\ UNCHANGED <<now, hasty>>
    BY <1>4, Zenon DEF Refused
  <2>4. asked' \in [Host -> Nat]
    <3>1. parseRetryAfter(ra) \in Nat
      BY DEF parseRetryAfter, Lesser
    <3>2. Greater(asked[h], now + parseRetryAfter(ra)) \in Nat
      BY <2>1, <3>1
    <3>3. asked' = [asked EXCEPT ![h] = Greater(asked[h], now + parseRetryAfter(ra))]
      BY <1>4, Zenon DEF Refused
    <3> QED BY <3>2, <3>3
  <2>5. sent' \in [Request -> Host \cup {"none"}]
    BY <1>4 DEF Refused
  <2> HIDE DEF h, g
  <2>6. ASSUME NEW k \in Host
        PROVE  /\ gov'[k].failures = row'[k]
               /\ row'[k] = 0 => gov'[k].until = 0
               /\ row'[k] > 0 => refusedAt'[k] + Backoff(row'[k]) <= gov'[k].until
               /\ gov'[k].until <= refusedAt'[k] + Greater(Cap + Jitter, Longest)
    <3>1. CASE k = h
      BY <2>1, <2>2, <2>3, <3>1
    <3>2. CASE k # h
      BY <2>1, <2>3, <3>2
    <3> QED BY <3>1, <3>2
  <2>7. GovernorTypes'
    <3>1. gov' \in [Host -> [until : Nat, failures : Nat]] /\ row' \in [Host -> Nat]
      BY <2>1, <2>2, <2>3
    <3>2. refusedAt' \in [Host -> Nat] /\ \A k \in Host : refusedAt'[k] <= now
      BY <2>1, <2>3
    <3> QED BY <2>3, <2>4, <2>5, <3>1, <3>2
  <2> QED BY <2>3, <2>6, <2>7
<1>5. ASSUME NEW q \in Request, Answered(q) PROVE GovernorInv'
  <2>1. sent[q] \in Host
    BY <1>5 DEF Answered
  <2> QED BY <1>5, <2>1 DEF Answered, ok, Free
<1>6. ASSUME NEW q \in Request, Lost(q) PROVE GovernorInv'
  BY <1>6 DEF Lost
<1> QED BY <1>1, <1>2, <1>3, <1>4, <1>5, <1>6 DEF NextGovernor

(* However many requests are under way and in whatever order their answers  *)
(* land, none leaves before the wait of the refusals in a row is over, and  *)
(* nobody is kept waiting for a host that has refused nothing lately.       *)
THEOREM RefusersAreLeftAlone == SpecGovernor => []StaysAway
<1>1. GovernorInv => StaysAway
  BY DEF GovernorInv, GovernorTypes, StaysAway, cooldown
<1> QED BY <1>1, InitGoverned, NextGoverned, PTL DEF SpecGovernor

(* Cool-downs, counts and times are numbers, and hosts are hosts. *)
THEOREM GovernorTypesAre == SpecGovernor => []GovernorTypeOK
<1>1. GovernorInv => GovernorTypeOK
  BY DEF GovernorInv, GovernorTypes, GovernorTypeOK
<1> QED BY <1>1, InitGoverned, NextGoverned, PTL DEF SpecGovernor

-----------------------------------------------------------------------------

HIDE GovernorAssumption DEF Greater

\* A set of numbers has a least.
LEMMA HasLeast ==
  ASSUME NEW S \in SUBSET Nat, S # {}
  PROVE  \E i \in S : \A j \in S : i <= j
<1>1. PICK i \in S : \A j \in S : <<j, i>> \notin OpToRel(<, Nat)
  BY WFMin, NatLessThanWellFounded, Zenon
<1>2. \A j \in S : ~(j < i)
  BY <1>1, Zenon DEF OpToRel
<1>3. \A j \in S : i <= j
  BY <1>2, SMT
<1> QED BY <1>3, Zenon

\* A set of numbers that has a bound has a greatest, and it is its Max.
LEMMA MaxIs ==
  ASSUME NEW n \in Nat, NEW S \in SUBSET (1..n), S # {}
  PROVE  Max(S) \in S /\ \A y \in S : y <= Max(S)
<1>1. \E x \in S : \A y \in S : x >= y
  <2> DEFINE D == {n - x : x \in S}
  <2>1. D \in SUBSET Nat /\ D # {}
    <3>1. \A x \in S : n - x \in Nat
      BY SMT
    <3> QED BY <3>1, Zenon
  <2>2. PICK t \in D : \A y \in D : t <= y
    <3> HIDE DEF D
    <3> QED BY <2>1, HasLeast, Zenon
  <2>3. PICK x \in S : t = n - x
    OBVIOUS
  <2>4. \A y \in S : n - y \in D
    OBVIOUS
  <2>5. \A y \in S : n - x <= n - y
    BY <2>2, <2>3, <2>4, Zenon
  <2> QED BY <2>5, SMT
<1>2. Max(S) \in S /\ \A y \in S : Max(S) >= y
  BY <1>1, Zenon DEF Max
<1> QED BY <1>2, SMT

\* The newest of some rows, none when there are none.
LEMMA NewestIs ==
  \A n \in Nat : \A S :
    S \subseteq 1..n =>
      /\ Newest(S) \in 0..n
      /\ Newest(S) = 0 <=> S = {}
      /\ S # {} => Newest(S) \in S
      /\ \A y \in S : y <= Newest(S)
<1> SUFFICES ASSUME NEW n \in Nat, NEW S \in SUBSET (1..n)
             PROVE  /\ Newest(S) \in 0..n
                    /\ Newest(S) = 0 <=> S = {}
                    /\ S # {} => Newest(S) \in S
                    /\ \A y \in S : y <= Newest(S)
  BY Zenon
<1>1. CASE S = {}
  BY <1>1 DEF Newest
<1>2. CASE S # {}
  <2>1. Newest(S) = Max(S)
    BY <1>2 DEF Newest
  <2>2. Newest(S) \in S /\ \A y \in S : y <= Newest(S)
    BY <1>2, <2>1, MaxIs, Zenon
  <2>3. Newest(S) \in 1..n
    BY <2>2, Zenon
  <2>4. Newest(S) \in 0..n /\ Newest(S) # 0
    BY <2>3
  <2> QED BY <1>2, <2>2, <2>4, Zenon
<1> QED BY <1>1, <1>2

\* The newest is known by being there and having none above it.
LEMMA NewestOnly ==
  ASSUME NEW n \in Nat, NEW S \in SUBSET (1..n), NEW x \in S, \A y \in S : y <= x
  PROVE  Newest(S) = x
<1>1. S \subseteq 1..n /\ S # {}
  OBVIOUS
<1>2. Newest(S) \in S /\ \A y \in S : y <= Newest(S)
  BY <1>1, NewestIs, Zenon
<1>3. Newest(S) <= x /\ x <= Newest(S)
  BY <1>2, Zenon
<1>4. x \in Nat /\ Newest(S) \in Nat
  <2>1. x \in 1..n /\ Newest(S) \in 1..n
    BY <1>1, <1>2, Zenon
  <2> QED BY <2>1
<1> QED BY <1>3, <1>4, SMT

-----------------------------------------------------------------------------
\* The state, but for what only a claim's timeline says.
BeaconShape ==
  /\ timeline \in Seq(BeaconEvent)
  /\ caught \in 0..Len(timeline) /\ from \in 0..caught /\ quiet \in 0..caught
  /\ kept \in [seq : 0..caught, row : 0..caught] /\ kept.row <= kept.seq
  /\ losses \in 0..MaxLosses
  /\ missed \in SUBSET (1..caught)

\* A step, a finding and the end of a run come after its start, and no other
\* run starts or ends between.
InRun(w) ==
  \E s \in 1..(w - 1) :
    /\ timeline[s].kind = "started"
    /\ \A k \in (s + 1)..(w - 1) : timeline[k].kind \notin RunRows
WorkIsInRuns ==
  \A w \in 1..Len(timeline) : timeline[w].kind \in beaconWork \cup Ends => InRun(w)

\* A move is of a claim that was staged before it.
MovesFollow ==
  \A k \in 1..Len(timeline) :
    timeline[k].kind \in Moves =>
      timeline[k].claim \in 1..(k - 1) /\ timeline[timeline[k].claim].kind = "staged"

BeaconInv == BeaconShape /\ WorkIsInRuns /\ MovesFollow /\ ConclusionIsKept

\* Rows of some kinds, of some of the room's rows.
LEMMA OfIs ==
  \A S, K : Of(S, K) \subseteq S /\ \A n : n \in Of(S, K) <=> n \in S /\ timeline[n].kind \in K
BY DEF Of

-----------------------------------------------------------------------------
\* Everything the ring could hold, of the rows up to the h-th.
AllHeard(h) == ((from + 1)..h) \ missed

\* The ring holds the newest of them: with one, all that are newer; and every
\* one that is less than its length from the last.
LEMMA RingIs ==
  ASSUME BeaconShape
  PROVE  \A h \in 0..Len(timeline) :
           /\ RingAt(h) \subseteq AllHeard(h) /\ RingAt(h) \subseteq 1..h
           /\ \A n \in RingAt(h), k \in AllHeard(h) : n <= k => k \in RingAt(h)
           /\ \A n \in AllHeard(h) : h - n < RingMax => n \in RingAt(h)
<1> SUFFICES ASSUME NEW h \in 0..Len(timeline)
             PROVE  /\ RingAt(h) \subseteq AllHeard(h) /\ RingAt(h) \subseteq 1..h
                    /\ \A n \in RingAt(h), k \in AllHeard(h) : n <= k => k \in RingAt(h)
                    /\ \A n \in AllHeard(h) : h - n < RingMax => n \in RingAt(h)
  OBVIOUS
<1> DEFINE all == AllHeard(h)
           Above(n) == {k \in all : k >= n}
<1>1. h \in Nat /\ from \in Nat /\ RingMax \in Nat \ {0} /\ all \subseteq 1..h
  BY BeaconAssumption DEF BeaconShape, AllHeard
<1>2. RingAt(h) = {n \in all : Cardinality(Above(n)) <= RingMax}
  BY Zenon DEF RingAt, AllHeard
<1>3. \A n, k \in all : n <= k => Above(k) \subseteq Above(n)
  BY <1>1
<1>4. \A n \in all : Above(n) \subseteq n..h
  BY <1>1
<1> HIDE DEF all, Above
<1>5. \A n \in 1..h : IsFiniteSet(n..h) /\ Cardinality(n..h) = h - n + 1
  BY <1>1, FS_Interval
<1>6. \A n \in all : /\ IsFiniteSet(Above(n)) /\ Cardinality(Above(n)) \in Nat
                     /\ Cardinality(Above(n)) <= h - n + 1
  <2> SUFFICES ASSUME NEW n \in all
               PROVE  /\ IsFiniteSet(Above(n)) /\ Cardinality(Above(n)) \in Nat
                      /\ Cardinality(Above(n)) <= h - n + 1
    OBVIOUS
  <2>1. IsFiniteSet(n..h) /\ Cardinality(n..h) = h - n + 1 /\ Above(n) \subseteq n..h
    BY <1>1, <1>4, <1>5
  <2>2. IsFiniteSet(Above(n)) /\ Cardinality(Above(n)) <= Cardinality(n..h)
    BY <2>1, FS_Subset, Zenon
  <2>3. Cardinality(Above(n)) \in Nat
    BY <2>2, FS_CardinalityType, Zenon
  <2>4. Cardinality(Above(n)) <= h - n + 1
    BY <2>1, <2>2, Zenon
  <2> QED BY <2>2, <2>3, <2>4
<1>7. \A n, k \in all : n <= k => Cardinality(Above(k)) <= Cardinality(Above(n))
  BY <1>3, <1>6, FS_Subset, Zenon
<1>8. ASSUME NEW n \in RingAt(h), NEW k \in all, n <= k PROVE k \in RingAt(h)
  <2>1. n \in all /\ Cardinality(Above(n)) <= RingMax
    BY <1>2
  <2>2. Cardinality(Above(k)) <= Cardinality(Above(n))
    BY <1>7, <1>8, <2>1
  <2>3. Cardinality(Above(k)) <= RingMax
    BY <1>1, <1>6, <2>1, <2>2, SMT
  <2> QED BY <1>2, <2>3
<1>9. ASSUME NEW n \in all, h - n < RingMax PROVE n \in RingAt(h)
  <2>1. Cardinality(Above(n)) <= RingMax
    BY <1>1, <1>6, <1>9, SMT
  <2> QED BY <1>2, <2>1
<1>10. RingAt(h) \subseteq all
  BY <1>2
<1> QED BY <1>1, <1>8, <1>9, <1>10 DEF all

-----------------------------------------------------------------------------
\* What some rows say of the run: the newest run row's word, else the work's.
LEMMA StateIs ==
  ASSUME BeaconShape
  PROVE  \A S : S \subseteq 1..Len(timeline) =>
           /\ (\A k \in S : timeline[k].kind \notin RunRows) =>
                BeaconState(S) = IF \E k \in S : timeline[k].kind \in beaconWork
                                 THEN "investigating" ELSE ""
           /\ \A n \in S :
                timeline[n].kind \in RunRows /\ (\A k \in S : timeline[k].kind \in RunRows => k <= n) =>
                  BeaconState(S) = IF timeline[n].kind \in Ends THEN timeline[n].kind
                                   ELSE "investigating"
<1> SUFFICES ASSUME NEW S, S \subseteq 1..Len(timeline)
             PROVE  /\ (\A k \in S : timeline[k].kind \notin RunRows) =>
                         BeaconState(S) = IF \E k \in S : timeline[k].kind \in beaconWork
                                          THEN "investigating" ELSE ""
                    /\ \A n \in S :
                         timeline[n].kind \in RunRows /\ (\A k \in S : timeline[k].kind \in RunRows => k <= n) =>
                           BeaconState(S) = IF timeline[n].kind \in Ends THEN timeline[n].kind
                                            ELSE "investigating"
  BY Zenon
<1>1. Len(timeline) \in Nat
  BY DEF BeaconShape
<1>2. Of(S, RunRows) \subseteq 1..Len(timeline)
  BY OfIs, Zenon
<1>3. ASSUME \A k \in S : timeline[k].kind \notin RunRows
      PROVE  BeaconState(S) = IF \E k \in S : timeline[k].kind \in beaconWork
                              THEN "investigating" ELSE ""
  <2>1. Of(S, RunRows) = {}
    BY <1>3, OfIs, Zenon
  <2>2. Newest(Of(S, RunRows)) = 0
    BY <1>1, <1>2, <2>1, NewestIs, Zenon
  <2>3. Of(S, beaconWork) = {} <=> ~\E k \in S : timeline[k].kind \in beaconWork
    BY OfIs, Zenon
  <2> DEFINE n == Newest(Of(S, RunRows))
  <2>4. BeaconState(S) = IF n > 0 THEN IF timeline[n].kind \in Ends THEN timeline[n].kind ELSE "investigating"
                         ELSE IF Of(S, beaconWork) = {} THEN "" ELSE "investigating"
    BY Zenon DEF BeaconState
  <2>5. n = 0
    BY <2>2
  <2> HIDE DEF n
  <2>6. ~(n > 0)
    BY <2>5
  <2> QED BY <2>3, <2>4, <2>6, Zenon
<1>4. ASSUME NEW n \in S, timeline[n].kind \in RunRows,
             \A k \in S : timeline[k].kind \in RunRows => k <= n
      PROVE  BeaconState(S) = IF timeline[n].kind \in Ends THEN timeline[n].kind ELSE "investigating"
  <2>1. n \in Of(S, RunRows) /\ \A k \in Of(S, RunRows) : k <= n
    BY <1>4, OfIs, Zenon
  <2>2. Newest(Of(S, RunRows)) = n
    <3> HIDE DEF Of
    <3> QED BY <1>1, <1>2, <2>1, NewestOnly
  <2>3. n > 0
    BY <1>1
  <2> QED BY <2>2, <2>3 DEF BeaconState
<1> QED BY <1>3, <1>4, Zenon

\* The ring is never wrong of the run when nothing was lost: what it holds ends
\* with the newest rows, and work without a start is of the run that is on.
LEMMA RingTellsTheState ==
  ASSUME BeaconShape, WorkIsInRuns
  PROVE  StateIsTrue
<1> SUFFICES ASSUME missed = {} PROVE BeaconState(Ring) \in {"", BeaconState(1..caught)}
  BY DEF StateIsTrue
<1>1. caught \in Nat /\ Len(timeline) \in Nat /\ caught <= Len(timeline) /\ from \in Nat
  BY DEF BeaconShape
<1>2. Ring \subseteq 1..caught /\ 1..caught \subseteq 1..Len(timeline)
  <2>1. caught \in 0..Len(timeline)
    BY DEF BeaconShape
  <2>2. RingAt(caught) \subseteq 1..caught
    BY <2>1, RingIs
  <2> QED BY <1>1, <2>2 DEF Ring
<1>3. \A n \in Ring, k \in 1..caught : n <= k => k \in Ring
  <2>1. caught \in 0..Len(timeline)
    BY DEF BeaconShape
  <2>2. /\ \A n \in Ring, k \in AllHeard(caught) : n <= k => k \in Ring
        /\ Ring \subseteq AllHeard(caught)
    BY <2>1, RingIs DEF Ring
  <2>3. AllHeard(caught) = (from + 1)..caught
    BY DEF AllHeard
  <2> QED BY <1>1, <2>2, <2>3
<1>4. CASE \E n \in Ring : timeline[n].kind \in RunRows
  <2> DEFINE R == Of(Ring, RunRows)
             n == Newest(R)
  <2>1. R \subseteq 1..caught /\ R # {}
    BY <1>2, <1>4, OfIs, Zenon
  <2>2. n \in R /\ \A k \in R : k <= n
    <3> HIDE DEF R
    <3> QED BY <1>1, <2>1, NewestIs
  <2>3. n \in Ring /\ timeline[n].kind \in RunRows
    BY <2>2, OfIs, Zenon
  <2>4. \A k \in Ring : timeline[k].kind \in RunRows => k <= n
    BY <2>2, OfIs, Zenon
  <2> HIDE DEF n
  <2>5. \A k \in 1..caught : timeline[k].kind \in RunRows => k <= n
    <3> SUFFICES ASSUME NEW k \in 1..caught, timeline[k].kind \in RunRows, ~(k <= n) PROVE FALSE
      OBVIOUS
    <3>1. n <= k
      BY <1>1, <1>2, <2>3
    <3>2. k \in Ring
      BY <1>3, <2>3, <3>1
    <3> QED BY <2>4, <3>2
  <2>6. n \in 1..caught
    BY <1>2, <2>3
  <2>7. BeaconState(Ring) = BeaconState(1..caught)
    <3> DEFINE word == IF timeline[n].kind \in Ends THEN timeline[n].kind ELSE "investigating"
    <3>1. BeaconState(Ring) = word
      <4>1. Ring \subseteq 1..Len(timeline)
        BY <1>2, Zenon
      <4> QED BY <4>1, <2>3, <2>4, StateIs, Zenon
    <3>2. BeaconState(1..caught) = word
      BY <1>2, <2>3, <2>5, <2>6, StateIs, Zenon
    <3> HIDE DEF word
    <3> QED BY <3>1, <3>2, Zenon
  <2> QED BY <2>7, Zenon
<1>5. CASE \A n \in Ring : timeline[n].kind \notin RunRows
  <2>1. BeaconState(Ring) = IF \E k \in Ring : timeline[k].kind \in beaconWork THEN "investigating" ELSE ""
    <3>1. Ring \subseteq 1..Len(timeline)
      BY <1>2, Zenon
    <3> QED BY <3>1, <1>5, StateIs, Zenon
  <2>2. CASE ~\E k \in Ring : timeline[k].kind \in beaconWork
    BY <2>1, <2>2, Zenon
  <2>3. CASE \E k \in Ring : timeline[k].kind \in beaconWork
    <3>1. PICK w \in Ring : timeline[w].kind \in beaconWork
      BY <2>3
    <3>2. w \in 1..caught /\ w \in 1..Len(timeline)
      BY <1>2
    <3>3. PICK s \in 1..(w - 1) :
            timeline[s].kind = "started" /\ \A k \in (s + 1)..(w - 1) : timeline[k].kind \notin RunRows
      BY <3>1, <3>2 DEF WorkIsInRuns, InRun
    <3>4. \A k \in 1..caught : timeline[k].kind \in RunRows => k <= s
      <4> SUFFICES ASSUME NEW k \in 1..caught, timeline[k].kind \in RunRows, ~(k <= s) PROVE FALSE
        OBVIOUS
      <4>1. k \in (s + 1)..(w - 1) \/ w <= k
        BY <3>2
      <4>2. w <= k
        BY <3>3, <4>1
      <4>3. k \in Ring
        BY <1>3, <4>2
      <4> QED BY <1>5, <4>3
    <3>5. s \in 1..caught
      BY <1>1, <3>2
    <3>6. timeline[s].kind \in RunRows /\ timeline[s].kind \notin Ends
      BY <3>3 DEF RunRows, Ends
    <3>7. BeaconState(1..caught) = "investigating"
      BY <1>2, <3>4, <3>5, <3>6, StateIs, Zenon
    <3> QED BY <2>1, <2>3, <3>7, Zenon
  <2> QED BY <2>2, <2>3
<1> QED BY <1>4, <1>5

-----------------------------------------------------------------------------
\* What some rows give for the conclusion: the newest end of a run that they
\* hold, and of that run, after the newest run row before it, an answer.
LEMMA ConclusionIs ==
  ASSUME BeaconShape
  PROVE  \A h \in 0..Len(timeline) : \A S : S \subseteq 1..h =>
    LET c == BeaconConclusionOf(S)
    IN  /\ c \in [seq : 0..h, row : 0..h] /\ c.row <= c.seq
        /\ c.seq # 0 => c.seq \in S /\ timeline[c.seq].kind = "concluded"
        /\ \A k \in S : timeline[k].kind = "concluded" => k <= c.seq
        /\ c.row # 0 => c.row \in S
        /\ c.row # 0 /\ c.row # c.seq =>
             /\ timeline[c.row].kind \in {"hypothesis", "finding"}
             /\ \A k \in S : timeline[k].kind \in RunRows /\ k < c.seq => k < c.row
        /\ c.row # 0 /\ c.row = c.seq => timeline[c.seq].says
        /\ c.seq # 0 /\ timeline[c.seq].says => c.row # 0
        /\ \A r \in S :
             /\ timeline[r].kind \in {"hypothesis", "finding"} /\ r < c.seq
             /\ \A k \in S : timeline[k].kind \in RunRows /\ k < c.seq => k < r
             => c.row # 0
<1> SUFFICES ASSUME NEW h \in 0..Len(timeline), NEW S, S \subseteq 1..h
             PROVE  LET c == BeaconConclusionOf(S)
                    IN  /\ c \in [seq : 0..h, row : 0..h] /\ c.row <= c.seq
                        /\ c.seq # 0 => c.seq \in S /\ timeline[c.seq].kind = "concluded"
                        /\ \A k \in S : timeline[k].kind = "concluded" => k <= c.seq
                        /\ c.row # 0 => c.row \in S
                        /\ c.row # 0 /\ c.row # c.seq =>
                             /\ timeline[c.row].kind \in {"hypothesis", "finding"}
                             /\ \A k \in S : timeline[k].kind \in RunRows /\ k < c.seq => k < c.row
                        /\ c.row # 0 /\ c.row = c.seq => timeline[c.seq].says
                        /\ c.seq # 0 /\ timeline[c.seq].says => c.row # 0
                        /\ \A r \in S :
                             /\ timeline[r].kind \in {"hypothesis", "finding"} /\ r < c.seq
                             /\ \A k \in S : timeline[k].kind \in RunRows /\ k < c.seq => k < r
                             => c.row # 0
  BY Zenon
<1> DEFINE Runs == {k \in Of(S, RunRows) : k < Newest(Of(S, {"concluded"}))}
           end == Newest(Of(S, {"concluded"}))
           start == Newest(Runs)
           RowsOf(K) == {k \in Of(S, K) : start < k /\ k < end}
           hyp == Newest(RowsOf({"hypothesis"}))
           fnd == Newest(RowsOf({"finding"}))
           c == BeaconConclusionOf(S)
           answer == IF end = 0 THEN 0 ELSE IF timeline[end].says THEN end
                  ELSE IF hyp # 0 THEN hyp ELSE fnd
<1>1. h \in Nat
  BY DEF BeaconShape
<1>2. c = [seq |-> end, row |-> answer]
  BY DEF BeaconConclusionOf, Answers
<1>3. /\ end \in 0..h
      /\ end # 0 => end \in S /\ timeline[end].kind = "concluded"
      /\ \A k \in S : timeline[k].kind = "concluded" => k <= end
  <2> DEFINE C == Of(S, {"concluded"})
  <2>1. C \subseteq 1..h /\ \A n : n \in C <=> n \in S /\ timeline[n].kind = "concluded"
    BY OfIs
  <2> HIDE DEF C
  <2>2. /\ Newest(C) \in 0..h /\ (Newest(C) = 0 <=> C = {})
        /\ (C # {} => Newest(C) \in C) /\ \A y \in C : y <= Newest(C)
    BY <1>1, <2>1, NewestIs, Zenon
  <2> QED BY <2>1, <2>2, Zenon DEF C
<1> HIDE DEF end
<1>4. /\ start \in 0..h
      /\ start # 0 => start < end
      /\ \A k \in S : timeline[k].kind \in RunRows /\ k < end => k <= start
      /\ start # 0 => start \in S /\ timeline[start].kind \in RunRows
  <2>1. Runs \subseteq 1..h /\ \A n : n \in Runs <=> n \in S /\ timeline[n].kind \in RunRows /\ n < end
    BY OfIs DEF end
  <2> HIDE DEF Runs
  <2>2. /\ Newest(Runs) \in 0..h /\ (Newest(Runs) = 0 <=> Runs = {})
        /\ (Runs # {} => Newest(Runs) \in Runs) /\ \A y \in Runs : y <= Newest(Runs)
    BY <1>1, <2>1, NewestIs, Zenon
  <2> QED BY <2>1, <2>2, Zenon
<1> HIDE DEF start
<1>5. ASSUME NEW K
      PROVE  /\ Newest(RowsOf(K)) \in 0..h
             /\ Newest(RowsOf(K)) # 0 =>
                  /\ Newest(RowsOf(K)) \in S /\ timeline[Newest(RowsOf(K))].kind \in K
                  /\ start < Newest(RowsOf(K)) /\ Newest(RowsOf(K)) < end
             /\ (\E r \in S : timeline[r].kind \in K /\ start < r /\ r < end) => Newest(RowsOf(K)) # 0
  <2> DEFINE C == RowsOf(K)
  <2>1. C \subseteq 1..h /\ \A n : n \in C <=> n \in S /\ timeline[n].kind \in K /\ start < n /\ n < end
    BY OfIs
  <2> HIDE DEF C
  <2>2. /\ Newest(C) \in 0..h /\ (Newest(C) = 0 <=> C = {})
        /\ (C # {} => Newest(C) \in C) /\ \A y \in C : y <= Newest(C)
    BY <1>1, <2>1, NewestIs, Zenon
  <2> QED BY <2>1, <2>2, Zenon DEF C
<1>6. /\ hyp \in 0..h /\ (hyp # 0 => hyp \in S /\ timeline[hyp].kind = "hypothesis" /\ start < hyp /\ hyp < end)
      /\ (\E r \in S : timeline[r].kind = "hypothesis" /\ start < r /\ r < end) => hyp # 0
  <2> HIDE DEF RowsOf
  <2> QED BY <1>5
<1>7. /\ fnd \in 0..h /\ (fnd # 0 => fnd \in S /\ timeline[fnd].kind = "finding" /\ start < fnd /\ fnd < end)
      /\ (\E r \in S : timeline[r].kind = "finding" /\ start < r /\ r < end) => fnd # 0
  <2> HIDE DEF RowsOf
  <2> QED BY <1>5
<1> HIDE DEF hyp, fnd
<1>8. /\ answer \in 0..h /\ answer <= end
      /\ answer # 0 => answer \in S
      /\ answer # 0 /\ answer # end =>
           timeline[answer].kind \in {"hypothesis", "finding"} /\ start < answer
      /\ answer # 0 /\ answer = end => timeline[end].says
      /\ end # 0 /\ timeline[end].says => answer # 0
  <2>1. CASE end = 0
    BY <1>1, <1>3, <2>1
  <2>2. CASE end # 0 /\ timeline[end].says
    <3>1. answer = end
      BY <2>2, Zenon
    <3> HIDE DEF answer
    <3> QED BY <1>1, <1>3, <2>2, <3>1
  <2>3. CASE end # 0 /\ ~timeline[end].says
    <3>1. answer = IF hyp # 0 THEN hyp ELSE fnd
      BY <2>3, Zenon
    <3> HIDE DEF answer
    <3> QED BY <1>1, <1>3, <1>6, <1>7, <2>3, <3>1
  <2> QED BY <2>1, <2>2, <2>3, Zenon
<1>9. ASSUME NEW r \in S, timeline[r].kind \in {"hypothesis", "finding"}, r < end,
             \A k \in S : timeline[k].kind \in RunRows /\ k < end => k < r
      PROVE  answer # 0
  <2>1. r \in 1..h /\ start < r
    BY <1>1, <1>4, <1>9
  <2>2. end # 0
    BY <1>1, <1>3, <1>9, <2>1
  <2>3. hyp # 0 \/ fnd # 0
    BY <1>6, <1>7, <1>9, <2>1
  <2>4. CASE timeline[end].says
    BY <2>2, <2>4, Zenon
  <2>5. CASE ~timeline[end].says
    BY <2>2, <2>3, <2>5
  <2> QED BY <2>4, <2>5
<1>10. c.seq = end /\ c.row = answer
  <2> HIDE DEF answer, c
  <2> QED BY <1>2
<1>11. c \in [seq : 0..h, row : 0..h]
  <2> HIDE DEF answer, c
  <2> QED BY <1>2, <1>3, <1>8
<1>12. \A k \in S : answer # 0 /\ answer # end /\ timeline[k].kind \in RunRows /\ k < end => k < answer
  <2> SUFFICES ASSUME NEW k \in S, answer # 0, answer # end, timeline[k].kind \in RunRows, k < end
               PROVE  k < answer
    BY Zenon
  <2> HIDE DEF answer
  <2>1. k <= start /\ start < answer /\ k \in 1..h
    BY <1>4, <1>8
  <2> QED BY <1>1, <1>4, <1>8, <2>1
<1> HIDE DEF answer
<1>13. /\ end # 0 => end \in S /\ timeline[end].kind = "concluded"
       /\ \A k \in S : timeline[k].kind = "concluded" => k <= end
  BY <1>3
<1> HIDE DEF c
<1>14. /\ c.row <= c.seq
       /\ c.seq # 0 => c.seq \in S /\ timeline[c.seq].kind = "concluded"
       /\ \A k \in S : timeline[k].kind = "concluded" => k <= c.seq
       /\ c.row # 0 => c.row \in S
  BY <1>8, <1>10, <1>13, Zenon
<1>15. c.row # 0 /\ c.row # c.seq =>
         /\ timeline[c.row].kind \in {"hypothesis", "finding"}
         /\ \A k \in S : timeline[k].kind \in RunRows /\ k < c.seq => k < c.row
  BY <1>8, <1>10, <1>12, Zenon
<1>16. /\ c.row # 0 /\ c.row = c.seq => timeline[c.seq].says
       /\ c.seq # 0 /\ timeline[c.seq].says => c.row # 0
  BY <1>8, <1>10, Zenon
<1>17. \A r \in S :
         /\ timeline[r].kind \in {"hypothesis", "finding"} /\ r < c.seq
         /\ \A k \in S : timeline[k].kind \in RunRows /\ k < c.seq => k < r
         => c.row # 0
  BY <1>9, <1>10, Zenon
<1> QED BY <1>11, <1>14, <1>15, <1>16, <1>17, Zenon DEF c

-----------------------------------------------------------------------------
\* A row that is posted comes last; the rows before it are what they were.
LEMMA Posted ==
  ASSUME timeline \in Seq(BeaconEvent), NEW e \in BeaconEvent, timeline' = Append(timeline, e)
  PROVE  /\ timeline' \in Seq(BeaconEvent) /\ Len(timeline) \in Nat
         /\ Len(timeline') = Len(timeline) + 1
         /\ timeline'[Len(timeline) + 1] = e
         /\ \A k \in 1..Len(timeline) : timeline'[k] = timeline[k]
OBVIOUS

\* What is said of rows that were there does not change with a row that comes.
LEMMA PostedSame ==
  ASSUME timeline \in Seq(BeaconEvent), NEW e \in BeaconEvent, timeline' = Append(timeline, e)
  PROVE  \A S, h : S \subseteq 1..h /\ h \in 0..Len(timeline) =>
           /\ \A K : Of(S, K)' = Of(S, K)
           /\ BeaconConclusionOf(S)' = BeaconConclusionOf(S)
<1> SUFFICES ASSUME NEW S, NEW h, S \subseteq 1..h, h \in 0..Len(timeline)
             PROVE  /\ \A K : Of(S, K)' = Of(S, K)
                    /\ BeaconConclusionOf(S)' = BeaconConclusionOf(S)
  BY Zenon
<1>1. \A k \in S : timeline'[k] = timeline[k]
  <2>1. S \subseteq 1..Len(timeline)
    BY Posted, SMT
  <2> QED BY <2>1, Posted, Zenon
<1>2. \A K : Of(S, K)' = Of(S, K)
  BY <1>1, Zenon DEF Of
<1>3. Newest(Of(S, {"concluded"})) \in S \cup {0}
  <2>1. Of(S, {"concluded"}) \subseteq 1..h /\ Of(S, {"concluded"}) \subseteq S
    BY OfIs, Zenon
  <2> QED BY <2>1, NewestIs
<1>4. BeaconConclusionOf(S)' = BeaconConclusionOf(S)
  <2> DEFINE end == Newest(Of(S, {"concluded"}))
             start == Newest({k \in Of(S, RunRows) : k < end})
             Row(i) == Newest({k \in Of(S, {Answers[i]}) : start < k /\ k < end})
             Said(t) == IF end = 0 THEN 0 ELSE IF t[end].says THEN end
                        ELSE IF Row(1) # 0 THEN Row(1) ELSE Row(2)
  <2>1. BeaconConclusionOf(S) = [seq |-> end, row |-> Said(timeline)]
    BY Zenon DEF BeaconConclusionOf
  <2>2. BeaconConclusionOf(S)' = [seq |-> end, row |-> Said(timeline')]
    <3>1. Of(S, {"concluded"})' = Of(S, {"concluded"}) /\ Of(S, RunRows)' = Of(S, RunRows)
          /\ \A i : Of(S, {Answers[i]})' = Of(S, {Answers[i]})
      BY <1>2, Zenon
    <3>2. BeaconConclusionOf(S)' =
            LET e1 == Newest(Of(S, {"concluded"})')
                s1 == Newest({k \in Of(S, RunRows)' : k < e1})
                Row1(i) == Newest({k \in Of(S, {Answers[i]})' : s1 < k /\ k < e1})
            IN  [seq |-> e1,
                 row |-> IF e1 = 0 THEN 0 ELSE IF timeline'[e1].says THEN e1
                         ELSE IF Row1(1) # 0 THEN Row1(1) ELSE Row1(2)]
      BY Zenon DEF BeaconConclusionOf
    <3> QED BY <3>1, <3>2, Zenon
  <2>3. end = 0 \/ timeline'[end] = timeline[end]
    BY <1>1, <1>3, Zenon
  <2>4. Said(timeline') = Said(timeline)
    <3> HIDE DEF end, Row
    <3> QED BY <2>3, Zenon
  <2> HIDE DEF Said
  <2> QED BY <2>1, <2>2, <2>4, Zenon
<1> QED BY <1>2, <1>4

\* A row that is not the end of a run leaves the conclusion as it was.
LEMMA ConclusionSame ==
  ASSUME timeline \in Seq(BeaconEvent), NEW h \in 0..(Len(timeline) - 1),
         timeline[h + 1].kind # "concluded"
  PROVE  BeaconConclusionOf(1..(h + 1)) = BeaconConclusionOf(1..h)
<1> DEFINE end == Newest(Of(1..h, {"concluded"}))
           start == Newest({k \in Of(1..h, RunRows) : k < end})
<1>0. h \in Nat /\ \A k : k \in 1..(h + 1) <=> k \in 1..h \/ k = h + 1
  BY SMT
<1>1. Of(1..(h + 1), {"concluded"}) = Of(1..h, {"concluded"})
  BY <1>0, Zenon DEF Of
<1>2. end \in 0..h
  <2>1. Of(1..h, {"concluded"}) \subseteq 1..h
    BY OfIs, Zenon
  <2> QED BY <1>0, <2>1, NewestIs
<1> HIDE DEF end
<1>3. ~(h + 1 < end)
  BY <1>0, <1>2
<1>4. {k \in Of(1..(h + 1), RunRows) : k < end} = {k \in Of(1..h, RunRows) : k < end}
  BY <1>0, <1>3, Zenon DEF Of
<1> HIDE DEF start
<1>5. \A K : {k \in Of(1..(h + 1), K) : start < k /\ k < end}
             = {k \in Of(1..h, K) : start < k /\ k < end}
  BY <1>0, <1>3, Zenon DEF Of
<1> DEFINE Row(n, i) == Newest({k \in Of(1..n, {Answers[i]}) : start < k /\ k < end})
           Said(n) == [seq |-> end,
                       row |-> IF end = 0 THEN 0 ELSE IF timeline[end].says THEN end
                               ELSE IF Row(n, 1) # 0 THEN Row(n, 1) ELSE Row(n, 2)]
<1>6. BeaconConclusionOf(1..(h + 1)) = Said(h + 1)
  BY <1>1, <1>4, Zenon DEF BeaconConclusionOf, end, start
<1>7. BeaconConclusionOf(1..h) = Said(h)
  BY Zenon DEF BeaconConclusionOf, end, start
<1>8. Row(h + 1, 1) = Row(h, 1) /\ Row(h + 1, 2) = Row(h, 2)
  BY <1>5, Zenon
<1>9. Said(h + 1) = Said(h)
  <2> HIDE DEF Row
  <2> QED BY <1>8, Zenon
<1> HIDE DEF Said
<1> QED BY <1>6, <1>7, <1>9, Zenon

\* What the ring gives for the conclusion when it gives one: an answer of the
\* run that it is said of, unless a row from the one to the other was lost.
LEMMA RingConcludes ==
  ASSUME BeaconShape
  PROVE  \A h \in 0..Len(timeline) :
    LET d == BeaconConclusionOf(RingAt(h))
    IN  d.row # 0 =>
          /\ d \in [seq : 0..h, row : 0..h] /\ d.row <= d.seq /\ d.seq # 0
          /\ timeline[d.seq].kind = "concluded"
          /\ missed \cap (d.row..d.seq) = {} => Of(d.row..(d.seq - 1), RunRows) = {}
<1> SUFFICES ASSUME NEW h \in 0..Len(timeline), BeaconConclusionOf(RingAt(h)).row # 0
             PROVE  LET d == BeaconConclusionOf(RingAt(h))
                    IN  /\ d \in [seq : 0..h, row : 0..h] /\ d.row <= d.seq /\ d.seq # 0
                        /\ timeline[d.seq].kind = "concluded"
                        /\ missed \cap (d.row..d.seq) = {} => Of(d.row..(d.seq - 1), RunRows) = {}
  BY Zenon
<1> DEFINE d == BeaconConclusionOf(RingAt(h))
<1>1. /\ RingAt(h) \subseteq AllHeard(h) /\ RingAt(h) \subseteq 1..h
      /\ \A n \in RingAt(h), k \in AllHeard(h) : n <= k => k \in RingAt(h)
  BY RingIs
<1>2. /\ d \in [seq : 0..h, row : 0..h] /\ d.row <= d.seq
      /\ d.seq # 0 => d.seq \in RingAt(h) /\ timeline[d.seq].kind = "concluded"
      /\ d.row # 0 => d.row \in RingAt(h)
      /\ d.row # 0 /\ d.row # d.seq =>
           \A k \in RingAt(h) : timeline[k].kind \in RunRows /\ k < d.seq => k < d.row
  BY <1>1, ConclusionIs, Zenon
<1>3. d.row # 0
  OBVIOUS
<1> HIDE DEF d
<1>4. h \in Nat /\ from \in Nat
  BY DEF BeaconShape
<1>5. d.seq # 0
  BY <1>2, <1>3, <1>4
<1>6. ASSUME missed \cap (d.row..d.seq) = {}
      PROVE  Of(d.row..(d.seq - 1), RunRows) = {}
  <2> SUFFICES ASSUME NEW k \in d.row..(d.seq - 1), timeline[k].kind \in RunRows PROVE FALSE
    BY Zenon DEF Of
  <2>1. d.row \in 1..h /\ d.seq \in 1..h /\ d.row # d.seq /\ k < d.seq /\ d.row <= k /\ k \in Int
    BY <1>2, <1>3, <1>4, <1>5
  <2>2. from < d.row
    BY <1>1, <1>2, <1>3, <1>4 DEF AllHeard
  <2>3. k \in AllHeard(h)
    BY <1>4, <1>6, <2>1, <2>2 DEF AllHeard
  <2>4. k \in RingAt(h)
    BY <1>1, <1>2, <1>3, <2>1, <2>3
  <2>5. k < d.row
    BY <1>2, <1>3, <2>1, <2>4
  <2> QED BY <2>1, <2>5
<1> QED BY <1>2, <1>3, <1>5, <1>6, Zenon DEF d

\* What is kept when a new conclusion is looked for.
LEMMA KeepsOne ==
  \A was, S : \/ /\ keepConclusion(was, S) = was
                 /\ LET c == BeaconConclusionOf(S) IN ~(c.row # 0 /\ c.seq >= was.seq)
              \/ LET c == BeaconConclusionOf(S)
                 IN  keepConclusion(was, S) = c /\ c.row # 0 /\ c.seq >= was.seq
BY Zenon DEF keepConclusion

\* The kinds of rows that a step may post, and when.
LEMMA PostNeeds ==
  ASSUME NEW e \in BeaconEvent, PostRow(e)
  PROVE  /\ timeline' = Append(timeline, e)
         /\ UNCHANGED <<from, caught, quiet, kept, losses, missed>>
         /\ e.kind \in beaconWork \cup Ends => RunIsOn
         /\ e.kind \in Moves => e.claim \in Of(DOMAIN timeline, {"staged"})
<1>1. e.kind \in Moves =>
        ~(e.kind = "started") /\ ~(e.kind \in beaconWork \cup Ends) /\ ~(e.kind = "staged")
  BY DEF Moves, beaconWork, Ends
<1>2. e.kind \in beaconWork \cup Ends => ~(e.kind = "started")
  BY DEF beaconWork, Ends
<1>3. (CASE e.kind = "started" -> ~RunIsOn
         [] e.kind \in beaconWork \cup Ends -> RunIsOn
         [] e.kind = "staged" -> TRUE
         [] e.kind \in Moves -> e.claim \in Of(DOMAIN timeline, {"staged"}))
  BY Zenon DEF PostRow
<1>4. e.kind \in beaconWork \cup Ends =>
        ~(e.kind = "staged") /\ ~(e.kind \in Moves)
  BY DEF Moves, beaconWork, Ends
<1> DEFINE IsStart == e.kind = "started"
           IsRun == e.kind \in beaconWork \cup Ends
           IsClaim == e.kind = "staged"
           IsMove == e.kind \in Moves
           IsStaged == e.claim \in Of(DOMAIN timeline, {"staged"})
<1>5. (CASE IsStart -> ~RunIsOn [] IsRun -> RunIsOn [] IsClaim -> TRUE [] IsMove -> IsStaged)
  BY <1>3
<1>6. (IsMove => ~IsStart /\ ~IsRun /\ ~IsClaim) /\ (IsRun => ~IsStart /\ ~IsClaim /\ ~IsMove)
  BY <1>1, <1>2, <1>4
<1> HIDE DEF IsStart, IsRun, IsClaim, IsMove, IsStaged
<1>7. (IsRun => RunIsOn) /\ (IsMove => IsStaged)
  BY <1>5, <1>6
<1> QED BY <1>7 DEF PostRow, IsRun, IsMove, IsStaged

\* The shape of the state is what every step leaves.
LEMMA StepBeaconShape == BeaconShape /\ [NextBeacon]_beaconVars => BeaconShape'
<1> SUFFICES ASSUME BeaconShape, [NextBeacon]_beaconVars PROVE BeaconShape'
  OBVIOUS
<1>1. /\ timeline \in Seq(BeaconEvent) /\ Len(timeline) \in Nat
      /\ caught \in 0..Len(timeline) /\ from \in 0..caught /\ quiet \in 0..caught
      /\ kept \in [seq : 0..caught, row : 0..caught] /\ kept.row <= kept.seq
      /\ losses \in 0..MaxLosses /\ missed \in SUBSET (1..caught) /\ MaxLosses \in Nat
  BY BeaconAssumption DEF BeaconShape
<1>2. ASSUME NEW h \in 0..Len(timeline), caught <= h
      PROVE  /\ keepConclusion(kept, RingAt(h)) \in [seq : 0..h, row : 0..h]
             /\ keepConclusion(kept, RingAt(h)).row <= keepConclusion(kept, RingAt(h)).seq
  <2> DEFINE k == keepConclusion(kept, RingAt(h))
             d == BeaconConclusionOf(RingAt(h))
  <2>1. d \in [seq : 0..h, row : 0..h] /\ d.row <= d.seq
    <3>1. RingAt(h) \subseteq 1..h
      BY RingIs
    <3> QED BY <3>1, ConclusionIs, Zenon
  <2>2. k = kept \/ k = d
    BY KeepsOne, Zenon
  <2>3. kept \in [seq : 0..h, row : 0..h]
    BY <1>1, <1>2
  <2> HIDE DEF k, d
  <2>4. k \in [seq : 0..h, row : 0..h] /\ k.row <= k.seq
    BY <1>1, <2>1, <2>2, <2>3, Zenon
  <2> QED BY <2>4 DEF k
<1>3. ASSUME NEW e \in BeaconEvent, PostRow(e) PROVE BeaconShape'
  <2>1. timeline' \in Seq(BeaconEvent) /\ Len(timeline') = Len(timeline) + 1
    BY <1>1, <1>3, PostNeeds, Posted
  <2>2. from' = from /\ caught' = caught /\ quiet' = quiet /\ kept' = kept /\ losses' = losses /\ missed' = missed
    BY <1>3, PostNeeds
  <2> QED BY <1>1, <2>1, <2>2 DEF BeaconShape
<1>4. ASSUME Hear PROVE BeaconShape'
  <2>1. caught < Len(timeline) /\ caught' = caught + 1 /\ UNCHANGED <<timeline, from, quiet>>
    BY <1>4 DEF Hear
  <2>2. caught + 1 \in 0..Len(timeline) /\ caught <= caught + 1
    BY <1>1, <2>1
  <2> DEFINE k == keepConclusion(kept, RingAt(caught + 1))
  <2>3. k \in [seq : 0..(caught + 1), row : 0..(caught + 1)] /\ k.row <= k.seq
    BY <1>2, <2>2
  <2>4. \/ (kept' = k \/ kept' = kept) /\ losses' = losses /\ missed' = missed
        \/ kept' = kept /\ losses < MaxLosses /\ losses' = losses + 1 /\ missed' = missed \cup {caught + 1}
    BY <1>4 DEF Hear
  <2> HIDE DEF k
  <2>5. kept \in [seq : 0..(caught + 1), row : 0..(caught + 1)]
    BY <1>1
  <2>6. kept' \in [seq : 0..(caught + 1), row : 0..(caught + 1)] /\ kept'.row <= kept'.seq
    BY <1>1, <2>3, <2>4, <2>5, Zenon
  <2>7. losses' \in 0..MaxLosses
    BY <1>1, <2>4
  <2>8. missed' \subseteq 1..(caught + 1)
    <3>1. 1..caught \subseteq 1..(caught + 1) /\ caught + 1 \in 1..(caught + 1)
      BY <1>1
    <3> QED BY <1>1, <2>4, <3>1, Zenon
  <2> QED BY <1>1, <2>1, <2>2, <2>6, <2>7, <2>8 DEF BeaconShape
<1>5. ASSUME StatusOfBeacon PROVE BeaconShape'
  <2>1. kept' = keepConclusion(kept, RingAt(caught)) /\ UNCHANGED <<timeline, from, caught, quiet, losses, missed>>
    BY <1>5 DEF StatusOfBeacon, Ring
  <2>2. kept' \in [seq : 0..caught, row : 0..caught] /\ kept'.row <= kept'.seq
    BY <1>1, <1>2, <2>1
  <2> QED BY <1>1, <2>1, <2>2 DEF BeaconShape
<1>6. ASSUME Restart PROVE BeaconShape'
  <2>1. /\ losses < MaxLosses /\ losses' = losses + 1
        /\ from' \in (0..caught) \cup {Len(timeline)}
        /\ caught' = Len(timeline) /\ quiet' = Len(timeline)
        /\ missed' \in SUBSET missed /\ kept' = [seq |-> 0, row |-> 0] /\ timeline' = timeline
    BY <1>6 DEF Restart
  <2> QED BY <1>1, <2>1 DEF BeaconShape
<1>7. CASE UNCHANGED beaconVars
  BY <1>7 DEF beaconVars, BeaconShape
<1> QED BY <1>3, <1>4, <1>5, <1>6, <1>7 DEF NextBeacon

\* A row of work follows the start of its run: it is posted while a run is on.
LEMMA StepWorkIsInRuns ==
  BeaconShape /\ WorkIsInRuns /\ [NextBeacon]_beaconVars => WorkIsInRuns'
<1> SUFFICES ASSUME BeaconShape, WorkIsInRuns, [NextBeacon]_beaconVars PROVE WorkIsInRuns'
  OBVIOUS
<1>1. ASSUME NEW e \in BeaconEvent, PostRow(e) PROVE WorkIsInRuns'
  <2> DEFINE N == Len(timeline)
  <2>1. /\ N \in Nat /\ Len(timeline') = N + 1 /\ timeline'[N + 1] = e
        /\ \A k \in 1..N : timeline'[k] = timeline[k]
    BY <1>1, PostNeeds, Posted DEF BeaconShape
  <2> SUFFICES ASSUME NEW w \in 1..(N + 1), timeline'[w].kind \in beaconWork \cup Ends
               PROVE  \E s \in 1..(w - 1) :
                        /\ timeline'[s].kind = "started"
                        /\ \A k \in (s + 1)..(w - 1) : timeline'[k].kind \notin RunRows
    BY <2>1 DEF WorkIsInRuns, InRun
  <2>2. CASE w \in 1..N
    <3>1. PICK s \in 1..(w - 1) :
            /\ timeline[s].kind = "started"
            /\ \A k \in (s + 1)..(w - 1) : timeline[k].kind \notin RunRows
      BY <2>1, <2>2 DEF WorkIsInRuns, InRun
    <3>2. s \in 1..N /\ (s + 1)..(w - 1) \subseteq 1..N
      BY <2>1, <2>2
    <3>3. timeline'[s].kind = "started" /\ \A k \in (s + 1)..(w - 1) : timeline'[k].kind \notin RunRows
      BY <2>1, <3>1, <3>2, Zenon
    <3> QED BY <3>3, Zenon
  <2>3. CASE w = N + 1
    <3>1. BeaconState(1..N) = "investigating"
      <4>1. DOMAIN timeline = 1..N
        BY DEF BeaconShape
      <4>2. e.kind \in beaconWork \cup Ends
        BY <2>1, <2>3
      <4> QED BY <1>1, <4>1, <4>2, PostNeeds DEF RunIsOn
    <3>2. CASE \A k \in 1..N : timeline[k].kind \notin RunRows
      <4>1. BeaconState(1..N) = IF \E k \in 1..N : timeline[k].kind \in beaconWork
                                THEN "investigating" ELSE ""
        BY <3>2, StateIs
      <4>2. PICK k \in 1..N : timeline[k].kind \in beaconWork
        BY <3>1, <4>1
      <4>3. PICK s \in 1..(k - 1) : timeline[s].kind = "started"
        BY <4>2 DEF WorkIsInRuns, InRun
      <4>4. s \in 1..N /\ timeline[s].kind \in RunRows
        BY <2>1, <4>3 DEF RunRows
      <4> QED BY <3>2, <4>4
    <3>3. CASE ~\A k \in 1..N : timeline[k].kind \notin RunRows
      <4> DEFINE R == Of(1..N, RunRows)
                 n == Newest(R)
      <4>1. R \subseteq 1..N /\ R # {}
        BY <3>3, OfIs, Zenon
      <4>2. n \in R /\ \A k \in R : k <= n
        <5> HIDE DEF R
        <5> QED BY <2>1, <4>1, NewestIs
      <4>3. n \in 1..N /\ timeline[n].kind \in RunRows /\ \A k \in 1..N : timeline[k].kind \in RunRows => k <= n
        <5>1. \A k : k \in R <=> k \in 1..N /\ timeline[k].kind \in RunRows
          BY OfIs, Zenon
        <5> HIDE DEF R, n
        <5> QED BY <4>2, <5>1, Zenon
      <4> HIDE DEF n
      <4>4. BeaconState(1..N) = IF timeline[n].kind \in Ends THEN timeline[n].kind ELSE "investigating"
        BY <4>3, StateIs, Zenon
      <4>5. timeline[n].kind = "started"
        BY <3>1, <4>3, <4>4 DEF RunRows, Ends
      <4>6. \A k \in (n + 1)..N : timeline[k].kind \notin RunRows
        BY <2>1, <4>3
      <4> QED BY <2>1, <2>3, <4>3, <4>5, <4>6
    <3> QED BY <3>2, <3>3
  <2> QED BY <2>1, <2>2, <2>3
<1>2. CASE UNCHANGED timeline
  BY <1>2 DEF WorkIsInRuns, InRun
<1> QED BY <1>1, <1>2 DEF NextBeacon, Hear, StatusOfBeacon, Restart, beaconVars

\* A move is posted for a claim that is there.
LEMMA StepMovesFollow ==
  BeaconShape /\ MovesFollow /\ [NextBeacon]_beaconVars => MovesFollow'
<1> SUFFICES ASSUME BeaconShape, MovesFollow, [NextBeacon]_beaconVars PROVE MovesFollow'
  OBVIOUS
<1>1. ASSUME NEW e \in BeaconEvent, PostRow(e) PROVE MovesFollow'
  <2> DEFINE N == Len(timeline)
  <2>1. /\ N \in Nat /\ Len(timeline') = N + 1 /\ timeline'[N + 1] = e
        /\ \A k \in 1..N : timeline'[k] = timeline[k]
    BY <1>1, PostNeeds, Posted DEF BeaconShape
  <2>2. e.kind \in Moves => e.claim \in 1..N /\ timeline[e.claim].kind = "staged"
    <3>1. DOMAIN timeline = 1..N
      BY DEF BeaconShape
    <3> QED BY <1>1, <3>1, PostNeeds, OfIs
  <2> HIDE DEF N
  <2> SUFFICES ASSUME NEW k \in 1..(N + 1), timeline'[k].kind \in Moves
               PROVE  /\ timeline'[k].claim \in 1..(k - 1)
                      /\ timeline'[timeline'[k].claim].kind = "staged"
    BY <2>1 DEF MovesFollow
  <2>3. CASE k \in 1..N
    <3>1. timeline[k].claim \in 1..(k - 1) /\ timeline[timeline[k].claim].kind = "staged"
      BY <2>1, <2>3 DEF MovesFollow, N
    <3>2. timeline[k].claim \in 1..N
      BY <2>1, <2>3, <3>1
    <3> QED BY <2>1, <2>3, <3>1, <3>2
  <2>4. CASE k = N + 1
    BY <2>1, <2>2, <2>4
  <2> QED BY <2>1, <2>3, <2>4
<1>2. CASE UNCHANGED timeline
  BY <1>2 DEF MovesFollow
<1> QED BY <1>1, <1>2 DEF NextBeacon, Hear, StatusOfBeacon, Restart, beaconVars

-----------------------------------------------------------------------------
\* What is promised of the conclusion that is kept, part by part.
EndIsKept ==
  LET c == BeaconConclusionOf(1..caught)
  IN  c.row > from /\ c.seq > quiet /\ c.seq - c.row < RingMax /\ missed \cap (c.row..c.seq) = {} =>
        kept.seq = c.seq
KeptIsOfItsRun ==
  kept.seq # 0 =>
    /\ kept.row # 0 /\ timeline[kept.seq].kind = "concluded"
    /\ missed \cap (kept.row..kept.seq) = {} => Of(kept.row..(kept.seq - 1), RunRows) = {}

(* What is kept of a conclusion, in its two parts. *)
LEMMA ConclusionParts == ConclusionIsKept <=> EndIsKept /\ KeptIsOfItsRun
BY Zenon DEF ConclusionIsKept, EndIsKept, KeptIsOfItsRun

\* What is kept is of its run when a row comes, and what the ring gives is.
LEMMA StepKeptIsOfItsRun ==
  BeaconShape /\ KeptIsOfItsRun /\ [NextBeacon]_beaconVars => KeptIsOfItsRun'
<1> SUFFICES ASSUME BeaconShape, KeptIsOfItsRun, [NextBeacon]_beaconVars PROVE KeptIsOfItsRun'
  OBVIOUS
<1>1. /\ timeline \in Seq(BeaconEvent) /\ Len(timeline) \in Nat /\ caught \in 0..Len(timeline)
      /\ kept.seq \in 0..caught /\ kept.row \in 0..caught /\ missed \in SUBSET (1..caught)
  BY DEF BeaconShape
<1>2. ASSUME NEW h \in 0..Len(timeline),
             kept' = kept \/ kept' = keepConclusion(kept, RingAt(h)),
             timeline' = timeline, missed \subseteq missed'
      PROVE  KeptIsOfItsRun'
  <2> DEFINE d == BeaconConclusionOf(RingAt(h))
  <2>1. kept' = kept \/ (kept' = d /\ d.row # 0)
    BY <1>2, KeepsOne, Zenon
  <2>2. CASE kept' = kept
    BY <1>2, <2>2, Zenon DEF KeptIsOfItsRun, Of
  <2>3. CASE kept' = d /\ d.row # 0
    <3>1. /\ d.seq # 0 /\ timeline[d.seq].kind = "concluded"
          /\ missed \cap (d.row..d.seq) = {} => Of(d.row..(d.seq - 1), RunRows) = {}
      BY <2>3, RingConcludes, Zenon
    <3> HIDE DEF d
    <3>2. missed' \cap (d.row..d.seq) = {} => missed \cap (d.row..d.seq) = {}
      BY <1>2, Zenon
    <3> QED BY <1>2, <2>3, <3>1, <3>2, Zenon DEF KeptIsOfItsRun, Of
  <2> QED BY <2>1, <2>2, <2>3
<1>3. ASSUME NEW e \in BeaconEvent, PostRow(e) PROVE KeptIsOfItsRun'
  <2>1. timeline' = Append(timeline, e) /\ kept' = kept /\ missed' = missed
    BY <1>3, PostNeeds
  <2>2. \A k \in 1..Len(timeline) : timeline'[k] = timeline[k]
    BY <1>1, <2>1, Posted, Zenon
  <2> SUFFICES ASSUME kept.seq # 0
               PROVE  /\ kept.row # 0 /\ timeline'[kept.seq].kind = "concluded"
                      /\ missed \cap (kept.row..kept.seq) = {} =>
                           {n \in kept.row..(kept.seq - 1) : timeline'[n].kind \in RunRows} = {}
    BY <2>1, Zenon DEF KeptIsOfItsRun, Of
  <2>3. /\ kept.row # 0 /\ timeline[kept.seq].kind = "concluded"
        /\ missed \cap (kept.row..kept.seq) = {} => Of(kept.row..(kept.seq - 1), RunRows) = {}
    BY DEF KeptIsOfItsRun
  <2>4. kept.seq \in 1..Len(timeline) /\ kept.row..(kept.seq - 1) \subseteq 1..Len(timeline)
    BY <1>1, <2>3
  <2>5. timeline'[kept.seq].kind = "concluded"
    BY <2>2, <2>3, <2>4
  <2>6. {n \in kept.row..(kept.seq - 1) : timeline'[n].kind \in RunRows} = Of(kept.row..(kept.seq - 1), RunRows)
    BY <2>2, <2>4, Zenon DEF Of
  <2> QED BY <2>3, <2>5, <2>6, Zenon
<1>4. CASE Hear
  <2>1. /\ caught < Len(timeline) /\ timeline' = timeline /\ missed \subseteq missed'
        /\ kept' = kept \/ kept' = keepConclusion(kept, RingAt(caught + 1))
    BY <1>4 DEF Hear
  <2>2. caught + 1 \in 0..Len(timeline)
    BY <1>1, <2>1
  <2> QED BY <1>2, <2>1, <2>2
<1>5. CASE StatusOfBeacon
  BY <1>1, <1>2, <1>5 DEF StatusOfBeacon, Ring
<1>6. CASE Restart
  <2>1. kept'.seq = 0
    BY <1>6 DEF Restart
  <2> QED BY <2>1 DEF KeptIsOfItsRun
<1>7. CASE UNCHANGED beaconVars
  BY <1>1, <1>2, <1>7 DEF beaconVars
<1> QED BY <1>3, <1>4, <1>5, <1>6, <1>7 DEF NextBeacon

\* The end of a run that is heard with its answer still in the ring is kept.
LEMMA HeardEndIsKept ==
  ASSUME BeaconShape, caught < Len(timeline), timeline[caught + 1].kind = "concluded",
         BeaconConclusionOf(1..(caught + 1)).row > from,
         BeaconConclusionOf(1..(caught + 1)).seq - BeaconConclusionOf(1..(caught + 1)).row < RingMax,
         missed \cap (BeaconConclusionOf(1..(caught + 1)).row..BeaconConclusionOf(1..(caught + 1)).seq) = {}
  PROVE  /\ BeaconConclusionOf(1..(caught + 1)).seq = caught + 1
         /\ keepConclusion(kept, RingAt(caught + 1)).seq = caught + 1
<1> DEFINE h == caught + 1
           c == BeaconConclusionOf(1..h)
           d == BeaconConclusionOf(RingAt(h))
<1>1. /\ h \in 0..Len(timeline) /\ h \in Nat /\ caught \in Nat /\ from \in 0..caught
      /\ kept.seq \in 0..caught /\ missed \in SUBSET (1..caught) /\ RingMax \in Nat \ {0}
  BY BeaconAssumption DEF BeaconShape
<1>2. /\ c \in [seq : 0..h, row : 0..h] /\ c.row <= c.seq
      /\ c.seq # 0 => c.seq \in 1..h /\ timeline[c.seq].kind = "concluded"
      /\ \A k \in 1..h : timeline[k].kind = "concluded" => k <= c.seq
      /\ c.row # 0 /\ c.row # c.seq =>
           /\ timeline[c.row].kind \in {"hypothesis", "finding"}
           /\ \A k \in 1..h : timeline[k].kind \in RunRows /\ k < c.seq => k < c.row
      /\ c.row # 0 /\ c.row = c.seq => timeline[c.seq].says
  <2>1. h \in 0..Len(timeline) /\ 1..h \subseteq 1..h
    BY <1>1
  <2> HIDE DEF h
  <2> QED BY <2>1, ConclusionIs, Zenon
<1>3. c.row > from /\ c.seq - c.row < RingMax /\ missed \cap (c.row..c.seq) = {} /\ timeline[h].kind = "concluded"
  OBVIOUS
<1>4. RingAt(h) \subseteq AllHeard(h) /\ RingAt(h) \subseteq 1..h /\ \A n \in AllHeard(h) : h - n < RingMax => n \in RingAt(h)
  BY <1>1, RingIs
<1>5. /\ d \in [seq : 0..h, row : 0..h] /\ d.row <= d.seq
      /\ \A k \in RingAt(h) : timeline[k].kind = "concluded" => k <= d.seq
      /\ d.seq # 0 /\ timeline[d.seq].says => d.row # 0
      /\ \A r \in RingAt(h) :
           /\ timeline[r].kind \in {"hypothesis", "finding"} /\ r < d.seq
           /\ \A k \in RingAt(h) : timeline[k].kind \in RunRows /\ k < d.seq => k < r
           => d.row # 0
  <2>1. h \in 0..Len(timeline) /\ RingAt(h) \subseteq 1..h
    BY <1>1, <1>4
  <2> HIDE DEF h
  <2> QED BY <2>1, ConclusionIs, Zenon
<1> HIDE DEF c, d
<1>6. c.seq = h
  BY <1>1, <1>2, <1>3
<1> HIDE DEF h
<1>7. h \in AllHeard(h)
  BY <1>1 DEF AllHeard, h
<1>8. h \in RingAt(h)
  BY <1>1, <1>4, <1>7
<1>9. d.seq = h
  <2>1. h <= d.seq
    BY <1>3, <1>5, <1>8
  <2> QED BY <1>1, <1>5, <2>1
<1>10. d.row # 0
  <2>1. c.row # 0 /\ c.row \in 1..h
    BY <1>1, <1>2, <1>3
  <2>2. CASE c.row = c.seq
    BY <1>1, <1>2, <1>5, <1>6, <1>9, <2>1, <2>2
  <2>3. CASE c.row # c.seq
    <3>1. /\ timeline[c.row].kind \in {"hypothesis", "finding"} /\ c.row < h
          /\ \A k \in 1..h : timeline[k].kind \in RunRows /\ k < h => k < c.row
      BY <1>1, <1>2, <1>6, <2>1, <2>3
    <3>2. c.row \in AllHeard(h)
      BY <1>1, <1>2, <1>3, <1>6, <2>1 DEF AllHeard
    <3>3. c.row \in RingAt(h)
      BY <1>3, <1>4, <1>6, <3>2
    <3> QED BY <1>4, <1>5, <1>9, <3>1, <3>3
  <2> QED BY <2>2, <2>3
<1>11. d.seq >= kept.seq
  BY <1>1, <1>9 DEF h
<1>12. keepConclusion(kept, RingAt(h)) = d
  BY <1>10, <1>11, KeepsOne, Zenon DEF d
<1>13. keepConclusion(kept, RingAt(h)).seq = h
  BY <1>9, <1>12, Zenon
<1> QED BY <1>6, <1>13, Zenon DEF h, c

\* The newest conclusion that was heard from its answer to its end is the one
\* that is kept: whatever comes after is not of a run that ended, or is kept.
LEMMA StepEndIsKept ==
  BeaconShape /\ EndIsKept /\ [NextBeacon]_beaconVars => EndIsKept'
<1> SUFFICES ASSUME BeaconShape, EndIsKept, [NextBeacon]_beaconVars PROVE EndIsKept'
  OBVIOUS
<1> DEFINE c == BeaconConclusionOf(1..caught)
           Heard(s, r) == r > from /\ s > quiet /\ s - r < RingMax
<1>1. /\ timeline \in Seq(BeaconEvent) /\ Len(timeline) \in Nat /\ caught \in 0..Len(timeline)
      /\ kept.seq \in 0..caught /\ missed \in SUBSET (1..caught)
  BY DEF BeaconShape
<1>2. /\ c \in [seq : 0..caught, row : 0..caught] /\ c.row <= c.seq
      /\ \A k \in 1..caught : timeline[k].kind = "concluded" => k <= c.seq
  BY <1>1, ConclusionIs, Zenon
<1>3. ASSUME NEW e \in BeaconEvent, PostRow(e) PROVE EndIsKept'
  <2>1. /\ timeline' = Append(timeline, e)
        /\ UNCHANGED <<from, caught, quiet, kept, missed>>
    BY <1>3, PostNeeds
  <2>2. \A S, h : S \subseteq 1..h /\ h \in 0..Len(timeline) => BeaconConclusionOf(S)' = BeaconConclusionOf(S)
    BY <1>1, <2>1, PostedSame, Zenon
  <2>3. BeaconConclusionOf(1..caught)' = BeaconConclusionOf(1..caught)
    BY <1>1, <2>1, <2>2, Zenon
  <2> QED BY <2>1, <2>3, Zenon DEF EndIsKept
<1>4. ASSUME Hear PROVE EndIsKept'
  <2>1. /\ caught < Len(timeline) /\ caught' = caught + 1 /\ timeline' = timeline
        /\ from' = from /\ quiet' = quiet
        /\ \/ /\ kept' = IF timeline[caught + 1].kind = "concluded"
                         THEN keepConclusion(kept, RingAt(caught + 1)) ELSE kept
              /\ missed' = missed
           \/ kept' = kept /\ missed' = missed \cup {caught + 1}
    BY <1>4 DEF Hear
  <2> DEFINE n == BeaconConclusionOf(1..(caught + 1))
  <2>2. BeaconConclusionOf(1..caught)' = n
    BY <2>1, Zenon DEF BeaconConclusionOf, Of
  <2>3. caught + 1 \in 0..Len(timeline)
    BY <1>1, <2>1
  <2>4. /\ n \in [seq : 0..(caught + 1), row : 0..(caught + 1)] /\ n.row <= n.seq
        /\ \A k \in 1..(caught + 1) : timeline[k].kind = "concluded" => k <= n.seq
    BY <2>3, ConclusionIs, Zenon
  <2> SUFFICES ASSUME n.row > from, n.seq > quiet, n.seq - n.row < RingMax,
                      missed' \cap (n.row..n.seq) = {}
               PROVE  kept'.seq = n.seq
    BY <2>1, <2>2, Zenon DEF EndIsKept
  <2>5. CASE timeline[caught + 1].kind = "concluded"
    <3>1. n.seq = caught + 1
      BY <1>1, <2>4, <2>5
    <3>2. caught + 1 \notin missed'
      <4> HIDE DEF n
      <4>1. caught + 1 \in n.row..n.seq
        BY <1>1, <2>4, <3>1
      <4> QED BY <4>1, Zenon
    <3>3. kept' = keepConclusion(kept, RingAt(caught + 1)) /\ missed' = missed
      BY <2>1, <2>5, <3>2
    <3>4. keepConclusion(kept, RingAt(caught + 1)).seq = caught + 1
      BY <2>1, <2>5, <3>3, HeardEndIsKept, Zenon
    <3> QED BY <3>1, <3>3, <3>4, Zenon
  <2>6. CASE timeline[caught + 1].kind # "concluded"
    <3>1. n = c
      <4>1. caught \in 0..(Len(timeline) - 1)
        BY <1>1, <2>1
      <4> QED BY <1>1, <2>6, <4>1, ConclusionSame, Zenon
    <3>2. kept' = kept /\ missed \subseteq missed'
      BY <2>1, <2>6
    <3>3. missed \cap (c.row..c.seq) = {}
      BY <3>1, <3>2, Zenon
    <3>4. kept.seq = c.seq
      <4>1. c.row > from /\ c.seq > quiet /\ c.seq - c.row < RingMax
        BY <3>1, Zenon
      <4> QED BY <3>3, <4>1, Zenon DEF EndIsKept
    <3> QED BY <3>1, <3>2, <3>4, Zenon
  <2> QED BY <2>5, <2>6
<1>5. ASSUME StatusOfBeacon PROVE EndIsKept'
  <2> DEFINE d == BeaconConclusionOf(RingAt(caught))
  <2>1. kept' = keepConclusion(kept, RingAt(caught)) /\ UNCHANGED <<timeline, from, caught, quiet, missed>>
    BY <1>5 DEF StatusOfBeacon, Ring
  <2>2. BeaconConclusionOf(1..caught)' = c
    BY <2>1, Zenon DEF BeaconConclusionOf, Of
  <2> SUFFICES ASSUME c.row > from, c.seq > quiet, c.seq - c.row < RingMax,
                      missed \cap (c.row..c.seq) = {}
               PROVE  kept'.seq = c.seq
    BY <2>1, <2>2, Zenon DEF EndIsKept
  <2>3. kept.seq = c.seq
    BY Zenon DEF EndIsKept
  <2>4. CASE kept' = kept
    BY <2>3, <2>4, Zenon
  <2>5. CASE kept' # kept
    <3>1. kept' = d /\ d.row # 0 /\ d.seq >= kept.seq
      BY <2>1, <2>5, KeepsOne, Zenon
    <3>2. /\ d \in [seq : 0..caught, row : 0..caught] /\ d.row <= d.seq
          /\ d.seq # 0 => d.seq \in RingAt(caught) /\ timeline[d.seq].kind = "concluded"
          /\ RingAt(caught) \subseteq 1..caught
      <4>1. RingAt(caught) \subseteq 1..caught
        BY <1>1, RingIs
      <4> QED BY <1>1, <4>1, ConclusionIs, Zenon
    <3> HIDE DEF d, c
    <3>3. d.seq # 0
      BY <1>1, <3>1, <3>2
    <3>4. d.seq <= c.seq
      BY <1>2, <3>2, <3>3
    <3>5. d.seq = c.seq
      BY <1>1, <1>2, <2>3, <3>1, <3>2, <3>4
    <3> QED BY <3>1, <3>5, Zenon
  <2> QED BY <2>4, <2>5
<1>6. ASSUME Restart PROVE EndIsKept'
  <2>1. caught' = Len(timeline) /\ quiet' = Len(timeline) /\ timeline' = timeline
    BY <1>6 DEF Restart
  <2>2. BeaconConclusionOf(1..caught)' = BeaconConclusionOf(1..Len(timeline))
    BY <2>1, Zenon DEF BeaconConclusionOf, Of
  <2>3. BeaconConclusionOf(1..Len(timeline)) \in [seq : 0..Len(timeline), row : 0..Len(timeline)]
    <3>1. Len(timeline) \in 0..Len(timeline) /\ 1..Len(timeline) \subseteq 1..Len(timeline)
      BY <1>1
    <3> QED BY <3>1, ConclusionIs, Zenon
  <2>4. ~(BeaconConclusionOf(1..Len(timeline)).seq > Len(timeline))
    BY <1>1, <2>3
  <2> QED BY <2>1, <2>2, <2>4, Zenon DEF EndIsKept
<1>7. CASE UNCHANGED beaconVars
  <2>1. UNCHANGED <<timeline, from, caught, quiet, kept, missed>>
    BY <1>7 DEF beaconVars
  <2>2. BeaconConclusionOf(1..caught)' = BeaconConclusionOf(1..caught)
    BY <2>1, Zenon DEF BeaconConclusionOf, Of
  <2> QED BY <2>1, <2>2, Zenon DEF EndIsKept
<1> QED BY <1>3, <1>4, <1>5, <1>6, <1>7 DEF NextBeacon

-----------------------------------------------------------------------------
\* Induction from one number to another: the least that does not hold.
LEMMA FromTo ==
  ASSUME NEW N \in Nat, NEW n \in 0..N, NEW P, n \in P, \A k \in (n + 1)..N : k - 1 \in P => k \in P
  PROVE  n..N \subseteq P
<1> SUFFICES ASSUME (n..N) \ P # {} PROVE FALSE
  OBVIOUS
<1> DEFINE S == (n..N) \ P
<1>1. PICK i \in S : \A j \in S : i <= j
  <2>1. S \in SUBSET Nat /\ S # {}
    OBVIOUS
  <2> HIDE DEF S
  <2> QED BY <2>1, HasLeast, Zenon
<1>2. i \in (n + 1)..N /\ i \notin P
  <2>1. i \in n..N /\ i \notin P /\ i # n
    OBVIOUS
  <2> QED BY <2>1
<1>3. i - 1 \in S
  BY <1>2
<1> QED BY <1>1, <1>2, <1>3

\* One event of the timeline, folded into a claim's view.
FoldStep(n, k, c) ==
  IF timeline[k].kind \in Moves /\ timeline[k].claim = n THEN Fold(c, timeline[k]) ELSE c

\* The fold that the dashboard makes is there: it goes by its steps.
LEMMA FoldingIs ==
  ASSUME Len(timeline) \in Nat, NEW n \in 1..Len(timeline)
  PROVE  /\ Folding(n)[n] = NewClaim(n)
         /\ \A k \in (n + 1)..Len(timeline) : Folding(n)[k] = FoldStep(n, k, Folding(n)[k - 1])
<1> DEFINE Body(g, k) == IF k = n THEN NewClaim(n)
                         ELSE IF timeline[k].kind \in Moves /\ timeline[k].claim = n
                              THEN Fold(g[k - 1], timeline[k]) ELSE g[k - 1]
           Is(m) == \E g : g = [k \in n..m |-> Body(g, k)]
           P == {m \in n..Len(timeline) : Is(m)}
<1>1. n \in P
  <2>1. [k \in n..n |-> NewClaim(n)] = [k \in n..n |-> Body([j \in n..n |-> NewClaim(n)], k)]
    <3>1. \A k \in n..n : k = n
      OBVIOUS
    <3> QED BY <3>1, Zenon
  <2>2. Is(n)
    BY <2>1, Zenon
  <2> QED BY <2>2
<1>2. ASSUME NEW m \in (n + 1)..Len(timeline), m - 1 \in P PROVE m \in P
  <2>1. PICK g : g = [k \in n..(m - 1) |-> Body(g, k)]
    BY <1>2
  <2> DEFINE h == [k \in n..m |-> IF k = m THEN Body(g, m) ELSE g[k]]
  <2>2. \A k \in n..m : h[k] = Body(h, k)
    <3> SUFFICES ASSUME NEW k \in n..m PROVE h[k] = Body(h, k)
      OBVIOUS
    <3>1. h[k] = Body(g, k)
      <4>1. CASE k = m
        <5> HIDE DEF Body
        <5> QED BY <4>1
      <4>2. CASE k # m
        <5>1. k \in n..(m - 1)
          BY <4>2
        <5>2. [j \in n..(m - 1) |-> Body(g, j)][k] = Body(g, k)
          <6> HIDE DEF Body
          <6> QED BY <5>1
        <5> HIDE DEF Body
        <5> QED BY <2>1, <4>2, <5>2
      <4> QED BY <4>1, <4>2
    <3>2. Body(h, k) = Body(g, k)
      <4>1. CASE k = n
        BY <4>1, Zenon
      <4>2. CASE k # n
        <5>1. h[k - 1] = g[k - 1]
          BY <4>2
        <5> HIDE DEF h
        <5> QED BY <5>1, Zenon
      <4> QED BY <4>1, <4>2
    <3> QED BY <3>1, <3>2, Zenon
  <2>3. h = [k \in n..m |-> Body(h, k)]
    <3>1. h = [k \in n..m |-> h[k]]
      OBVIOUS
    <3> HIDE DEF h, Body
    <3> QED BY <2>2, <3>1
  <2>4. Is(m)
    <3> HIDE DEF h, Body
    <3> QED BY <2>3, Zenon
  <2> QED BY <2>4
<1>3. Is(Len(timeline))
  <2>1. n..Len(timeline) \subseteq P
    <3>1. n \in 0..Len(timeline)
      OBVIOUS
    <3> HIDE DEF P
    <3> QED BY <1>1, <1>2, <3>1, FromTo
  <2> HIDE DEF Is
  <2> QED BY <2>1
<1> DEFINE f == Folding(n)
<1>4. f = [k \in n..Len(timeline) |-> Body(f, k)]
  <2>1. f = CHOOSE g : g = [k \in n..Len(timeline) |-> Body(g, k)]
    BY Zenon DEF Folding
  <2> HIDE DEF f, Body
  <2> QED BY <1>3, <2>1, Zenon
<1>5. \A k \in n..Len(timeline) : f[k] = Body(f, k)
  <2> HIDE DEF f, Body
  <2>1. ASSUME NEW k \in n..Len(timeline) PROVE [j \in n..Len(timeline) |-> Body(f, j)][k] = Body(f, k)
    OBVIOUS
  <2> QED BY <1>4, <2>1
<1> HIDE DEF f
<1>6. f[n] = NewClaim(n)
  <2>1. n \in n..Len(timeline)
    OBVIOUS
  <2> QED BY <1>5, <2>1, Zenon
<1>7. ASSUME NEW k \in (n + 1)..Len(timeline) PROVE f[k] = FoldStep(n, k, f[k - 1])
  <2>1. k \in n..Len(timeline) /\ k # n
    OBVIOUS
  <2> QED BY <1>5, <2>1, Zenon DEF FoldStep
<1> QED BY <1>6, <1>7 DEF f

-----------------------------------------------------------------------------
\* The view of a claim that its first rows give, as the server's projection
\* has it: the newest word of the gate, the newest position of each other.
GateKinds == {"admitted", "demoted", "withdrawn"}
PositionKinds == {"corroborate", "contest"}
Gates(n, k) == {j \in 1..k : timeline[j].kind \in GateKinds /\ Live(n, j)}
Given(n, k, h) == {j \in 1..k : timeline[j].kind \in PositionKinds /\ Live(n, j) /\ timeline[j].who = h}
GateState(n, k) ==
  LET g == Newest(Gates(n, k))
  IN  IF g = 0 \/ timeline[g].kind = "demoted" THEN "staged" ELSE timeline[g].kind
Others(n, k) == {h \in Human : h # timeline[n].who /\ Given(n, k, h) # {}}
ViewUpTo(n, k) ==
  [author |-> timeline[n].who, state |-> GateState(n, k),
   positions |-> [h \in Others(n, k) |-> timeline[Newest(Given(n, k, h))].kind]]

\* A move of a claim counts until the claim is withdrawn, and once it is, the
\* newest word of its gate is that it was.
LEMMA LiveIs ==
  ASSUME timeline \in Seq(BeaconEvent), NEW n \in 1..Len(timeline), NEW k \in 1..Len(timeline),
         timeline[k].kind \in Moves, timeline[k].claim = n
  PROVE  Live(n, k) <=> GateState(n, k - 1) # "withdrawn"
<1> DEFINE W == {w \in 1..(k - 1) : timeline[w].kind = "withdrawn" /\ timeline[w].claim = n}
           G == Gates(n, k - 1)
           g == Newest(G)
<1>1. Len(timeline) \in Nat /\ k \in Nat /\ k - 1 \in Nat /\ DOMAIN timeline = 1..Len(timeline)
  OBVIOUS
<1>2. \A j \in 1..k : Live(n, j) <=>
        /\ timeline[j].kind \in Moves /\ timeline[j].claim = n
        /\ ~\E w \in W : w < j
  <2> SUFFICES ASSUME NEW j \in 1..k
               PROVE  (\E w \in Of(DOMAIN timeline, {"withdrawn"}) : timeline[w].claim = n /\ w < j)
                        <=> \E w \in W : w < j
    BY Zenon DEF Live
  <2>1. \A w : w \in Of(DOMAIN timeline, {"withdrawn"}) <=> w \in 1..Len(timeline) /\ timeline[w].kind = "withdrawn"
    BY <1>1, OfIs
  <2>2. \A w \in 1..Len(timeline) : w < j => w \in 1..(k - 1)
    BY <1>1
  <2>3. \A w \in 1..(k - 1) : w \in 1..Len(timeline)
    BY <1>1
  <2> QED BY <2>1, <2>2, <2>3, Zenon
<1>3. /\ g \in 0..(k - 1) /\ (g = 0 <=> G = {}) /\ (G # {} => g \in G)
      /\ \A y \in G : y <= g
  <2>1. G \subseteq 1..(k - 1)
    BY DEF Gates
  <2> HIDE DEF G
  <2> QED BY <1>1, <2>1, NewestIs, Zenon
<1>4. \A j : j \in G <=> j \in 1..(k - 1) /\ timeline[j].kind \in GateKinds /\ Live(n, j)
  BY Zenon DEF Gates
<1>5. GateState(n, k - 1) = "withdrawn" <=> g # 0 /\ timeline[g].kind = "withdrawn"
  <2>1. GateState(n, k - 1) = IF g = 0 \/ timeline[g].kind = "demoted" THEN "staged" ELSE timeline[g].kind
    BY Zenon DEF GateState
  <2> HIDE DEF g
  <2> QED BY <2>1
<1> HIDE DEF G, g
<1>6. ASSUME W # {} PROVE g # 0 /\ timeline[g].kind = "withdrawn"
  <2>1. PICK w \in W : \A v \in W : w <= v
    <3>1. W \in SUBSET Nat
      BY <1>1
    <3> HIDE DEF W
    <3> QED BY <1>6, <3>1, HasLeast, Zenon
  <2>2. w \in 1..(k - 1) /\ timeline[w].kind = "withdrawn" /\ timeline[w].claim = n
    OBVIOUS
  <2>3. \A v \in W : v \in Nat
    BY <1>1
  <2> HIDE DEF W
  <2>4. w \in 1..k /\ timeline[w].kind \in Moves /\ timeline[w].kind \in GateKinds
    BY <1>1, <2>2 DEF Moves, GateKinds
  <2>5. ~\E v \in W : v < w
    BY <2>1, <2>2, <2>3
  <2>6. w \in G
    BY <1>2, <1>4, <2>2, <2>4, <2>5, Zenon
  <2>7. g \in G /\ w <= g /\ g \in 1..(k - 1)
    BY <1>3, <1>4, <2>6
  <2>8. ~(w < g)
    <3>1. g \in 1..k /\ Live(n, g)
      BY <1>1, <1>4, <2>7
    <3> QED BY <1>2, <3>1, Zenon
  <2>9. g = w
    BY <2>2, <2>7, <2>8
  <2> QED BY <2>2, <2>9
<1>7. ASSUME g # 0, timeline[g].kind = "withdrawn" PROVE W # {}
  <2>1. g \in G
    BY <1>3, <1>7
  <2>2. g \in 1..(k - 1) /\ Live(n, g)
    BY <1>4, <2>1
  <2>3. g \in 1..k
    BY <1>1, <2>2
  <2>4. timeline[g].claim = n
    BY <1>2, <2>2, <2>3, Zenon
  <2> QED BY <1>7, <2>2, <2>4
<1>8. Live(n, k) <=> W = {}
  <2>1. k \in 1..k /\ \A w \in W : w < k
    BY <1>1
  <2> HIDE DEF W
  <2> QED BY <1>2, <2>1, Zenon
<1> HIDE DEF W
<1> QED BY <1>5, <1>6, <1>7, <1>8, Zenon

\* A row that is no move of the claim, or comes when it is withdrawn, changes
\* neither its gate nor anyone's position; one that counts is the newest.
LEMMA RowCounts ==
  ASSUME timeline \in Seq(BeaconEvent), NEW n \in 1..Len(timeline), NEW k \in 1..Len(timeline)
  PROVE  /\ ~(Live(n, k) /\ timeline[k].kind \in GateKinds) => Gates(n, k) = Gates(n, k - 1)
         /\ Live(n, k) /\ timeline[k].kind \in GateKinds =>
              Newest(Gates(n, k)) = k
         /\ \A h : ~(Live(n, k) /\ timeline[k].kind \in PositionKinds /\ timeline[k].who = h) =>
              Given(n, k, h) = Given(n, k - 1, h)
         /\ \A h : Live(n, k) /\ timeline[k].kind \in PositionKinds /\ timeline[k].who = h =>
              Given(n, k, h) # {} /\ Newest(Given(n, k, h)) = k
<1>1. k \in Nat /\ \A j : j \in 1..k <=> j \in 1..(k - 1) \/ j = k
  BY SMT
<1>2. \A j \in 1..k : j <= k
  BY <1>1
<1>3. ASSUME NEW Q, k \in Q, Q \subseteq 1..k PROVE Newest(Q) = k
  BY <1>1, <1>2, <1>3, NewestOnly
<1>4. ASSUME ~(Live(n, k) /\ timeline[k].kind \in GateKinds) PROVE Gates(n, k) = Gates(n, k - 1)
  BY <1>1, <1>4, Zenon DEF Gates
<1>5. ASSUME Live(n, k), timeline[k].kind \in GateKinds PROVE Newest(Gates(n, k)) = k
  <2>1. k \in Gates(n, k) /\ Gates(n, k) \subseteq 1..k
    BY <1>1, <1>5, Zenon DEF Gates
  <2> QED BY <1>3, <2>1, Zenon
<1>6. ASSUME NEW h, ~(Live(n, k) /\ timeline[k].kind \in PositionKinds /\ timeline[k].who = h)
      PROVE  Given(n, k, h) = Given(n, k - 1, h)
  BY <1>1, <1>6, Zenon DEF Given
<1>7. ASSUME NEW h, Live(n, k), timeline[k].kind \in PositionKinds, timeline[k].who = h
      PROVE  Given(n, k, h) # {} /\ Newest(Given(n, k, h)) = k
  <2>1. k \in Given(n, k, h) /\ Given(n, k, h) \subseteq 1..k
    BY <1>1, <1>7, Zenon DEF Given
  <2> QED BY <1>3, <2>1, Zenon
<1> QED BY <1>4, <1>5, <1>6, <1>7

\* A move names who made it.
LEMMA MovesAreOfSomeone ==
  ASSUME NEW e \in BeaconEvent, e.kind \in Moves
  PROVE  e.who \in Human
<1>1. e \in [kind : Moves, who : Human, claim : 1..MaxRows]
  BY DEF BeaconEvent, Moves, beaconWork
<1> QED BY <1>1

\* One row more, folded into the view of the rows before it.
LEMMA ViewSteps ==
  ASSUME timeline \in Seq(BeaconEvent), NEW n \in 1..Len(timeline), NEW k \in (n + 1)..Len(timeline)
  PROVE  FoldStep(n, k, ViewUpTo(n, k - 1)) = ViewUpTo(n, k)
<1> DEFINE c == ViewUpTo(n, k - 1)
           e == timeline[k]
<1>1. k \in 1..Len(timeline) /\ e \in BeaconEvent
  OBVIOUS
<1>2. /\ ~(Live(n, k) /\ e.kind \in GateKinds) => Gates(n, k) = Gates(n, k - 1)
      /\ Live(n, k) /\ e.kind \in GateKinds => Newest(Gates(n, k)) = k
      /\ \A h : ~(Live(n, k) /\ e.kind \in PositionKinds /\ e.who = h) => Given(n, k, h) = Given(n, k - 1, h)
      /\ \A h : Live(n, k) /\ e.kind \in PositionKinds /\ e.who = h =>
           Given(n, k, h) # {} /\ Newest(Given(n, k, h)) = k
  BY <1>1, RowCounts
<1>3. ASSUME Gates(n, k) = Gates(n, k - 1), \A h : Given(n, k, h) = Given(n, k - 1, h)
      PROVE  ViewUpTo(n, k) = c
  <2>1. GateState(n, k) = GateState(n, k - 1)
    BY <1>3, Zenon DEF GateState
  <2>2. Others(n, k) = Others(n, k - 1)
    BY <1>3, Zenon DEF Others
  <2>3. [h \in Others(n, k) |-> timeline[Newest(Given(n, k, h))].kind] =
          [h \in Others(n, k - 1) |-> timeline[Newest(Given(n, k - 1, h))].kind]
    BY <1>3, <2>2
  <2> QED BY <2>1, <2>2, <2>3, Zenon DEF ViewUpTo
<1>4. CASE ~(e.kind \in Moves /\ e.claim = n)
  <2>1. ~Live(n, k)
    BY <1>4, Zenon DEF Live
  <2>2. ViewUpTo(n, k) = c
    BY <1>2, <1>3, <2>1, Zenon
  <2> QED BY <1>4, <2>2, Zenon DEF FoldStep
<1>5. CASE e.kind \in Moves /\ e.claim = n
  <2>1. FoldStep(n, k, c) = Fold(c, e)
    BY <1>5, Zenon DEF FoldStep
  <2>2. c = [author |-> timeline[n].who, state |-> GateState(n, k - 1),
             positions |-> [h \in Others(n, k - 1) |-> timeline[Newest(Given(n, k - 1, h))].kind]]
    BY Zenon DEF ViewUpTo
  <2>3. Live(n, k) <=> c.state # "withdrawn"
    <3>1. Live(n, k) <=> GateState(n, k - 1) # "withdrawn"
      BY <1>1, <1>5, LiveIs, Zenon
    <3>2. c.state = GateState(n, k - 1)
      BY <2>2
    <3> QED BY <3>1, <3>2, Zenon
  <2>4. k > 0 /\ k # 0
    OBVIOUS
  <2> HIDE DEF c, e
  <2> DEFINE Done == c.state = "withdrawn"
  <2>5. CASE Done
    <3>1. Fold(c, e) = c
      BY <2>5 DEF Fold
    <3>2. ViewUpTo(n, k) = c
      BY <1>2, <1>3, <2>3, <2>5, Zenon
    <3> QED BY <2>1, <3>1, <3>2, Zenon DEF c
  <2>6. CASE ~Done /\ e.kind \in GateKinds
    <3> DEFINE word == IF e.kind = "demoted" THEN "staged" ELSE e.kind
    <3>1. Fold(c, e) = [c EXCEPT !.state = word]
      BY <2>6 DEF Fold, GateKinds
    <3>2. e.kind \notin PositionKinds
      BY <2>6 DEF GateKinds, PositionKinds
    <3>3. \A h : Given(n, k, h) = Given(n, k - 1, h)
      BY <1>2, <3>2, Zenon
    <3>4. Newest(Gates(n, k)) = k
      BY <1>2, <2>3, <2>6, Zenon
    <3>5. GateState(n, k) = word
      <4>1. GateState(n, k) = IF k = 0 \/ timeline[k].kind = "demoted" THEN "staged" ELSE timeline[k].kind
        BY <3>4, Zenon DEF GateState
      <4> QED BY <2>4, <4>1, Zenon DEF e
    <3>6. Others(n, k) = Others(n, k - 1)
      BY <3>3, Zenon DEF Others
    <3>7. ViewUpTo(n, k) =
            [author |-> timeline[n].who, state |-> word,
             positions |-> [h \in Others(n, k - 1) |-> timeline[Newest(Given(n, k - 1, h))].kind]]
      BY <3>3, <3>5, <3>6, Zenon DEF ViewUpTo
    <3> HIDE DEF word
    <3>8. [c EXCEPT !.state = word] =
            [author |-> timeline[n].who, state |-> word,
             positions |-> [h \in Others(n, k - 1) |-> timeline[Newest(Given(n, k - 1, h))].kind]]
      <4> DEFINE p == [h \in Others(n, k - 1) |-> timeline[Newest(Given(n, k - 1, h))].kind]
      <4> HIDE DEF p
      <4>1. c = [author |-> timeline[n].who, state |-> GateState(n, k - 1), positions |-> p]
        BY <2>2, Zenon DEF p
      <4>2. [c EXCEPT !.state = word] = [author |-> timeline[n].who, state |-> word, positions |-> p]
        BY <4>1
      <4> QED BY <4>2, Zenon DEF p
    <3> QED BY <2>1, <3>1, <3>7, <3>8, Zenon DEF c
  <2>7. CASE ~Done /\ e.kind \in PositionKinds
    <3> DEFINE p == [h \in Others(n, k - 1) |-> timeline[Newest(Given(n, k - 1, h))].kind]
               q == [h \in Others(n, k) |-> timeline[Newest(Given(n, k, h))].kind]
    <3>1. e.kind \notin GateKinds
      BY <2>7 DEF GateKinds, PositionKinds
    <3>2. GateState(n, k) = GateState(n, k - 1)
      BY <1>2, <3>1, Zenon DEF GateState
    <3>3. \A h : h # e.who => Given(n, k, h) = Given(n, k - 1, h)
      BY <1>2, Zenon
    <3>4. Given(n, k, e.who) # {} /\ Newest(Given(n, k, e.who)) = k
      BY <1>2, <2>3, <2>7, Zenon
    <3>5. c = [author |-> timeline[n].who, state |-> GateState(n, k - 1), positions |-> p]
          /\ ViewUpTo(n, k) = [author |-> timeline[n].who, state |-> GateState(n, k - 1), positions |-> q]
      BY <2>2, <3>2, Zenon DEF ViewUpTo
    <3>6. c.author = timeline[n].who /\ c.positions = p
      <4> HIDE DEF p, q
      <4> QED BY <3>5
    <3>7. e.who \in Human
      <4>1. e \in BeaconEvent /\ e.kind \in Moves
        BY <1>1, <1>5 DEF e
      <4> QED BY <4>1, MovesAreOfSomeone
    <3>8. CASE e.who = c.author
      <4>1. Fold(c, e) = c
        BY <2>7, <3>8 DEF Fold, Counts, PositionKinds
      <4>2. p = q
        <5>1. Others(n, k) = Others(n, k - 1)
          BY <3>3, <3>6, <3>8, Zenon DEF Others
        <5>2. \A h \in Others(n, k) : Given(n, k, h) = Given(n, k - 1, h)
          BY <3>3, <3>6, <3>8, Zenon DEF Others
        <5> QED BY <5>1, <5>2
      <4> HIDE DEF p, q
      <4> QED BY <2>1, <3>5, <4>1, <4>2, Zenon DEF c
    <3>9. CASE e.who # c.author
      <4> DEFINE r == [h \in {e.who} \cup DOMAIN p |-> IF h = e.who THEN e.kind ELSE p[h]]
      <4>1. Fold(c, e) = [c EXCEPT !.positions = r]
        <5>1. Fold(c, e) = [c EXCEPT !.positions =
                 [h \in {e.who} \cup DOMAIN @ |-> IF h = e.who THEN e.kind ELSE @[h]]]
          BY <2>7, <3>9 DEF Fold, Counts, PositionKinds
        <5> HIDE DEF p
        <5> QED BY <3>6, <5>1, Zenon
      <4>2. Others(n, k) = {e.who} \cup Others(n, k - 1)
        BY <3>3, <3>4, <3>6, <3>7, <3>9, Zenon DEF Others
      <4>3. timeline[Newest(Given(n, k, e.who))].kind = e.kind
        BY <3>4, Zenon DEF e
      <4>4. \A h \in Others(n, k) : h # e.who => h \in Others(n, k - 1) /\ Given(n, k, h) = Given(n, k - 1, h)
        BY <3>3, <4>2, Zenon
      <4>5. r = q
        <5>1. DOMAIN p = Others(n, k - 1)
          OBVIOUS
        <5>2. \A h \in Others(n, k) : h # e.who => p[h] = timeline[Newest(Given(n, k, h))].kind
          BY <4>4
        <5> HIDE DEF p
        <5>3. \A h \in Others(n, k) :
                (IF h = e.who THEN e.kind ELSE p[h]) = timeline[Newest(Given(n, k, h))].kind
          BY <4>3, <5>2, Zenon
        <5>4. {e.who} \cup DOMAIN p = Others(n, k)
          BY <4>2, <5>1, Zenon
        <5>5. r = [h \in Others(n, k) |-> IF h = e.who THEN e.kind ELSE p[h]]
          BY <5>4, Zenon
        <5> HIDE DEF r
        <5> QED BY <5>3, <5>5
      <4> HIDE DEF p, q, r
      <4>6. [c EXCEPT !.positions = r] =
              [author |-> timeline[n].who, state |-> GateState(n, k - 1), positions |-> r]
        BY <3>5
      <4> QED BY <2>1, <3>5, <4>1, <4>5, <4>6, Zenon DEF c
    <3> QED BY <3>8, <3>9
  <2>8. e.kind \in GateKinds \/ e.kind \in PositionKinds
    BY <1>5 DEF Moves, GateKinds, PositionKinds, e
  <2> QED BY <2>5, <2>6, <2>7, <2>8
<1> QED BY <1>4, <1>5

\* The dashboard's fold is the view that all rows together give.
LEMMA FoldIsView ==
  ASSUME timeline \in Seq(BeaconEvent), MovesFollow, NEW n \in 1..Len(timeline)
  PROVE  Folding(n)[Len(timeline)] = ViewUpTo(n, Len(timeline))
<1> DEFINE N == Len(timeline)
           P == {k \in n..N : Folding(n)[k] = ViewUpTo(n, k)}
<1>1. N \in Nat /\ n \in 0..N
  OBVIOUS
<1>2. n \in P
  <2>1. \A j \in 1..n : ~Live(n, j)
    <3> SUFFICES ASSUME NEW j \in 1..n, timeline[j].kind \in Moves, timeline[j].claim = n PROVE FALSE
      BY Zenon DEF Live
    <3>1. n \in 1..(j - 1)
      BY DEF MovesFollow
    <3> QED BY <3>1
  <2>2. Gates(n, n) = {} /\ \A h : Given(n, n, h) = {}
    BY <2>1, Zenon DEF Gates, Given
  <2>3. Newest(Gates(n, n)) = 0
    BY <2>2, Zenon DEF Newest
  <2>4. GateState(n, n) = "staged"
    BY <2>3, Zenon DEF GateState
  <2>5. Others(n, n) = {}
    BY <2>2, Zenon DEF Others
  <2>6. [h \in {} |-> ""] = [h \in {} |-> timeline[Newest(Given(n, n, h))].kind]
    OBVIOUS
  <2>7. ViewUpTo(n, n) = NewClaim(n)
    BY <2>4, <2>5, <2>6, Zenon DEF ViewUpTo, NewClaim
  <2>8. n \in n..N
    BY <1>1
  <2>9. Folding(n)[n] = NewClaim(n)
    BY <1>1, FoldingIs
  <2> QED BY <2>7, <2>8, <2>9, Zenon
<1>3. ASSUME NEW k \in (n + 1)..N, k - 1 \in P PROVE k \in P
  <2>1. Folding(n)[k] = FoldStep(n, k, Folding(n)[k - 1])
    BY <1>1, FoldingIs
  <2>2. Folding(n)[k - 1] = ViewUpTo(n, k - 1)
    BY <1>3, Zenon
  <2>3. FoldStep(n, k, ViewUpTo(n, k - 1)) = ViewUpTo(n, k)
    BY ViewSteps
  <2>4. k \in n..N
    OBVIOUS
  <2> QED BY <2>1, <2>2, <2>3, <2>4, Zenon
<1>4. n..N \subseteq P
  <2> HIDE DEF P, N
  <2> QED BY <1>1, <1>2, <1>3, FromTo
<1>5. N \in n..N
  BY <1>1
<1> QED BY <1>4, <1>5, Zenon

\* So the dashboard, which folds, and the status line, which counts what the
\* server lists, give a claim one state.
LEMMA FoldsAgree ==
  ASSUME timeline \in Seq(BeaconEvent), MovesFollow
  PROVE  StatesAgree
<1> SUFFICES ASSUME NEW n \in Of(DOMAIN timeline, {"staged"})
             PROVE  claimStates(n) = claimState(ClaimView(n))
  BY Zenon DEF StatesAgree
<1> DEFINE N == Len(timeline)
           author == timeline[n].who
           state == GateState(n, N)
           Last(h) == Newest(Given(n, N, h))
           P == {timeline[Last(h)].kind : h \in Others(n, N)}
           listed == {[who |-> h, position |-> timeline[Last(h)].kind] :
                        h \in {h \in Human : Last(h) # 0}}
           counted == {p.position : p \in {p \in listed : p.who # author}}
<1>1. N \in Nat /\ n \in 1..N /\ DOMAIN timeline = 1..N
  BY OfIs
<1>2. claimStates(n) = IF state # "staged" THEN state
                       ELSE IF "contest" \in P THEN "contested"
                       ELSE IF "corroborate" \in P THEN "corroborated" ELSE "staged"
  <2> DEFINE c == Folding(n)[N]
             Q == {c.positions[h] : h \in DOMAIN c.positions}
             pos == [h \in Others(n, N) |-> timeline[Last(h)].kind]
  <2>1. c = [author |-> author, state |-> state, positions |-> pos]
    BY <1>1, FoldIsView, Zenon DEF ViewUpTo
  <2>2. claimStates(n) = IF c.state # "staged" THEN c.state
                         ELSE IF "contest" \in Q THEN "contested"
                         ELSE IF "corroborate" \in Q THEN "corroborated" ELSE "staged"
    BY Zenon DEF claimStates
  <2>3. c.state = state /\ c.positions = pos
    <3> HIDE DEF c, pos, state, author
    <3> QED BY <2>1
  <2>4. Q = P
    <3>1. DOMAIN pos = Others(n, N) /\ \A h \in Others(n, N) : pos[h] = timeline[Last(h)].kind
      OBVIOUS
    <3> HIDE DEF pos, c, Last
    <3> QED BY <2>3, <3>1
  <2> HIDE DEF c, Q, P, state
  <2> QED BY <2>2, <2>3, <2>4, Zenon
<1>3. ClaimView(n) = [author |-> author, state |-> state, positions |-> listed]
  <2>1. {k \in Of(DOMAIN timeline, {"admitted", "demoted", "withdrawn"}) : Live(n, k)} = Gates(n, N)
    BY <1>1, Zenon DEF Of, Gates, GateKinds
  <2>2. \A h : {k \in Of(DOMAIN timeline, {"corroborate", "contest"}) :
                  Live(n, k) /\ timeline[k].who = h} = Given(n, N, h)
    BY <1>1, Zenon DEF Of, Given, PositionKinds
  <2> DEFINE gate == Newest({k \in Of(DOMAIN timeline, {"admitted", "demoted", "withdrawn"}) : Live(n, k)})
             Last0(h) == Newest({k \in Of(DOMAIN timeline, {"corroborate", "contest"}) :
                                   Live(n, k) /\ timeline[k].who = h})
  <2>3. ClaimView(n) =
          [author |-> timeline[n].who,
           state |-> IF gate = 0 \/ timeline[gate].kind = "demoted" THEN "staged" ELSE timeline[gate].kind,
           positions |-> {[who |-> h, position |-> timeline[Last0(h)].kind] :
                            h \in {h \in Human : Last0(h) # 0}}]
    BY Zenon DEF ClaimView
  <2>4. (IF gate = 0 \/ timeline[gate].kind = "demoted" THEN "staged" ELSE timeline[gate].kind) = state
    BY <2>1, Zenon DEF GateState
  <2>5. \A h : Last0(h) = Last(h)
    BY <2>2, Zenon
  <2> HIDE DEF gate, Last0, Last, state
  <2>6. {[who |-> h, position |-> timeline[Last0(h)].kind] : h \in {h \in Human : Last0(h) # 0}} = listed
    BY <2>5, Zenon
  <2> HIDE DEF listed
  <2> QED BY <2>3, <2>4, <2>6, Zenon
<1>4. \A h : Given(n, N, h) # {} <=> Last(h) # 0
  <2>1. \A h : Given(n, N, h) \subseteq 1..N
    BY Zenon DEF Given
  <2> QED BY <1>1, <2>1, NewestIs, Zenon
<1>5. counted = P
  <2>1. \A h : h \in Others(n, N) <=> h \in Human /\ h # author /\ Last(h) # 0
    BY <1>4, Zenon DEF Others
  <2> HIDE DEF Last, author
  <2>2. \A x \in listed : \E h \in Human : Last(h) # 0 /\ x.who = h /\ x.position = timeline[Last(h)].kind
    OBVIOUS
  <2>3. \A h \in Human : Last(h) # 0 =>
          \E x \in listed : x.who = h /\ x.position = timeline[Last(h)].kind
    <3> SUFFICES ASSUME NEW h \in Human, Last(h) # 0
                 PROVE  \E x \in listed : x.who = h /\ x.position = timeline[Last(h)].kind
      OBVIOUS
    <3> DEFINE y == [who |-> h, position |-> timeline[Last(h)].kind]
    <3>1. y \in listed
      BY Zenon
    <3>2. y.who = h /\ y.position = timeline[Last(h)].kind
      OBVIOUS
    <3> HIDE DEF y, listed
    <3> QED BY <3>1, <3>2, Zenon
  <2> HIDE DEF listed
  <2>4. \A x \in counted : x \in P
    BY <2>1, <2>2, Zenon
  <2>5. \A x \in P : x \in counted
    <3> SUFFICES ASSUME NEW h \in Others(n, N) PROVE timeline[Last(h)].kind \in counted
      BY Zenon
    <3>1. PICK x \in listed : x.who = h /\ x.position = timeline[Last(h)].kind
      BY <2>1, <2>3, Zenon
    <3>2. x.who # author
      BY <2>1, <3>1, Zenon
    <3> QED BY <3>1, <3>2, Zenon
  <2> HIDE DEF counted, P
  <2> QED BY <2>4, <2>5
<1>6. P \subseteq PositionKinds
  <2>1. \A h \in Others(n, N) : Last(h) \in Given(n, N, h)
    <3>1. \A h : Given(n, N, h) \subseteq 1..N
      BY Zenon DEF Given
    <3>2. \A h \in Others(n, N) : Given(n, N, h) # {}
      BY Zenon DEF Others
    <3> QED BY <1>1, <3>1, <3>2, NewestIs, Zenon
  <2> HIDE DEF Last
  <2> QED BY <2>1, Zenon DEF Given
<1>7. claimState(ClaimView(n)) =
        CASE state # "staged" -> state
          [] state = "staged" /\ "contest" \in counted -> "contested"
          [] state = "staged" /\ counted = {"corroborate"} -> "corroborated"
          [] OTHER -> "staged"
  <2> DEFINE v == ClaimView(n)
  <2>1. v.author = author /\ v.state = state /\ v.positions = listed
    <3> HIDE DEF author, state, listed, v
    <3>1. v = [author |-> author, state |-> state, positions |-> listed]
      BY <1>3, Zenon DEF v
    <3> QED BY <3>1
  <2> HIDE DEF author, state, listed, v
  <2>2. claimState(v) = LET found == {p.position : p \in {p \in v.positions : p.who # v.author}}
                        IN  CASE v.state # "staged" -> v.state
                              [] v.state = "staged" /\ "contest" \in found -> "contested"
                              [] v.state = "staged" /\ found = {"corroborate"} -> "corroborated"
                              [] OTHER -> "staged"
    BY Zenon DEF claimState
  <2>3. {p.position : p \in {p \in v.positions : p.who # v.author}} = counted
    BY <2>1, Zenon
  <2> HIDE DEF counted
  <2>4. claimState(v) = CASE state # "staged" -> state
                          [] state = "staged" /\ "contest" \in counted -> "contested"
                          [] state = "staged" /\ counted = {"corroborate"} -> "corroborated"
                          [] OTHER -> "staged"
    BY <2>1, <2>2, <2>3, Zenon
  <2> QED BY <2>4, Zenon DEF v
<1> HIDE DEF P, counted, state
<1>8. "contest" \notin P => (P = {"corroborate"} <=> "corroborate" \in P)
  <2>1. \A x \in P : x = "corroborate" \/ x = "contest"
    BY <1>6, Zenon DEF PositionKinds
  <2> QED BY <2>1
<1> DEFINE Contested == "contest" \in P
           Corroborated == "corroborate" \in P
           Only == P = {"corroborate"}
           IsStaged == state = "staged"
<1>9. claimState(ClaimView(n)) =
        CASE ~IsStaged -> state
          [] IsStaged /\ Contested -> "contested"
          [] IsStaged /\ Only -> "corroborated"
          [] OTHER -> "staged"
  BY <1>5, <1>7, Zenon
<1>10. claimStates(n) = IF ~IsStaged THEN state ELSE IF Contested THEN "contested"
                        ELSE IF Corroborated THEN "corroborated" ELSE "staged"
  BY <1>2, Zenon
<1>11. ~Contested => (Only <=> Corroborated)
  BY <1>8
<1>12. ~(Contested /\ Only)
  <2>1. "contest" # "corroborate"
    OBVIOUS
  <2> QED BY <2>1, Zenon
<1> HIDE DEF Contested, Corroborated, Only, IsStaged
<1> QED BY <1>9, <1>10, <1>11, <1>12

-----------------------------------------------------------------------------
\* Beacon's rows, what is kept of them, and the rows of claims.
LEMMA InitBeaconInv == InitBeacon => BeaconInv
<1> SUFFICES ASSUME InitBeacon PROVE BeaconInv
  OBVIOUS
<1>1. timeline = <<>> /\ Len(timeline) = 0 /\ from = 0 /\ caught = 0 /\ quiet = 0
      /\ kept = [seq |-> 0, row |-> 0] /\ losses = 0 /\ missed = {}
  BY DEF InitBeacon
<1>2. BeaconShape
  BY <1>1, BeaconAssumption DEF BeaconShape
<1>3. WorkIsInRuns /\ MovesFollow
  BY <1>1 DEF WorkIsInRuns, MovesFollow
<1>4. EndIsKept /\ KeptIsOfItsRun
  <2>1. caught \in 0..Len(timeline) /\ 1..caught \subseteq 1..caught
    BY <1>1
  <2>2. BeaconConclusionOf(1..caught) \in [seq : 0..caught, row : 0..caught]
    BY <1>2, <2>1, ConclusionIs, Zenon
  <2>3. BeaconConclusionOf(1..caught).seq = 0
    BY <1>1, <2>2
  <2>4. kept.seq = 0
    BY <1>1
  <2> QED BY <2>3, <2>4, Zenon DEF EndIsKept, KeptIsOfItsRun
<1> QED BY <1>2, <1>3, <1>4, ConclusionParts DEF BeaconInv

(* The invariant of what the daemon keeps of Beacon. *)
LEMMA AlwaysBeaconInv == SpecBeacon => []BeaconInv
<1>1. BeaconInv /\ [NextBeacon]_beaconVars => BeaconInv'
  <2>1. BeaconInv' <=> BeaconShape' /\ WorkIsInRuns' /\ MovesFollow' /\ EndIsKept' /\ KeptIsOfItsRun'
    BY ConclusionParts, PTL DEF BeaconInv
  <2> QED BY <2>1, ConclusionParts, StepBeaconShape, StepWorkIsInRuns, StepMovesFollow, StepEndIsKept,
             StepKeptIsOfItsRun DEF BeaconInv
<1> QED BY <1>1, InitBeaconInv, PTL DEF SpecBeacon

(* What a status line says of Beacon, for any room, ring and losses: the state *)
(* of the run is the room's own or none is said (people.go, beaconState), the  *)
(* answer of a run is kept when the ring lets it go and is of that run, and a  *)
(* claim stands the same for the dashboard and the status line.                *)
THEOREM BeaconIsTold == SpecBeacon => []SaysOfBeacon
<1>1. BeaconInv => SaysOfBeacon
  BY RingTellsTheState, FoldsAgree DEF BeaconInv, BeaconShape, SaysOfBeacon
<1> QED BY <1>1, AlwaysBeaconInv, PTL

(* The state that the status line folds keeps its types. *)
THEOREM BeaconTypes == SpecBeacon => []BeaconTypeOK
<1>1. BeaconInv => BeaconTypeOK
  <2> SUFFICES ASSUME BeaconInv PROVE BeaconTypeOK
    OBVIOUS
  <2>1. /\ timeline \in Seq(BeaconEvent) /\ Len(timeline) \in Nat
        /\ caught \in 0..Len(timeline) /\ from \in 0..caught /\ quiet \in 0..caught
        /\ kept.seq \in 0..caught /\ kept.row \in 0..caught /\ kept.row <= kept.seq
        /\ losses \in 0..MaxLosses /\ missed \subseteq 1..caught
    BY DEF BeaconInv, BeaconShape
  <2>2. 1..caught \subseteq 1..Len(timeline)
    BY <2>1
  <2> QED BY <2>1, <2>2 DEF BeaconTypeOK
<1> QED BY <1>1, AlwaysBeaconInv, PTL

-----------------------------------------------------------------------------
(***************************************************************************)
(* The wall (Wall), and first what is kept of a list (Filter): the lemmas  *)
(* on Kept that MachineProofs also rests on.                               *)
(***************************************************************************)

(* Induction over what a set of numbers holds: the least that is not in it. *)
LEMMA UpTo ==
  ASSUME NEW N \in Nat, NEW P, 0 \in P, \A n \in 1..N : n - 1 \in P => n \in P
  PROVE  0..N \subseteq P
<1>1. SUFFICES ASSUME (0..N) \ P # {} PROVE FALSE
  OBVIOUS
<1> DEFINE S == (0..N) \ P
<1>2. PICK i \in S : \A j \in S : <<j, i>> \notin OpToRel(<, Nat)
  <2>1. S \in SUBSET Nat /\ S # {}
    BY <1>1
  <2> HIDE DEF S
  <2> QED BY <2>1, WFMin, NatLessThanWellFounded, Zenon
<1>3. \A j \in S : ~(j < i)
  <2>1. S \subseteq Nat
    OBVIOUS
  <2> HIDE DEF S
  <2> QED BY <1>2, <2>1, Zenon DEF OpToRel
<1>4. i - 1 \in S
  <2>1. i \in 1..N /\ i - 1 \in 0..N /\ i \notin P
    OBVIOUS
  <2> QED BY <2>1
<1> QED BY <1>3, <1>4

(* The function that Filtered names is there. *)
LEMMA FilteredIs ==
  ASSUME NEW S, NEW s \in Seq(S), NEW T
  PROVE  /\ Filtered(s, T)[0] = <<>>
         /\ \A n \in 1..Len(s) : Filtered(s, T)[n] =
              IF s[n] \in T THEN Append(Filtered(s, T)[n - 1], s[n]) ELSE Filtered(s, T)[n - 1]
<1> DEFINE Body(g, n) ==
      IF n = 0 THEN <<>> ELSE IF s[n] \in T THEN Append(g[n - 1], s[n]) ELSE g[n - 1]
    Is(m) == \E g : g = [n \in 0..m |-> Body(g, n)]
    P == {m \in 0..Len(s) : Is(m)}
<1>1. Len(s) \in Nat
  OBVIOUS
<1>2. 0 \in P
  <2>1. [n \in 0..0 |-> <<>>] = [n \in 0..0 |-> Body([k \in 0..0 |-> <<>>], n)]
    OBVIOUS
  <2>2. Is(0)
    BY <2>1, Zenon
  <2> QED BY <1>1, <2>2
<1>3. ASSUME NEW m \in 1..Len(s), m - 1 \in P PROVE m \in P
  <2>1. PICK g : g = [n \in 0..(m - 1) |-> Body(g, n)]
    BY <1>3
  <2> DEFINE h == [n \in 0..m |-> IF n = m THEN Body(g, m) ELSE g[n]]
  <2>2. \A n \in 0..m : h[n] = Body(h, n)
    <3> SUFFICES ASSUME NEW n \in 0..m PROVE h[n] = Body(h, n)
      OBVIOUS
    <3>1. CASE n = 0
      <4>1. h[0] = g[0] /\ 0 \in 0..(m - 1)
        BY <1>1
      <4> QED BY <2>1, <3>1, <4>1
    <3>2. CASE n > 0
      <4>1. n - 1 \in 0..m /\ n - 1 # m
        BY <1>1, <3>2
      <4>2. h[n - 1] = g[n - 1]
        BY <4>1
      <4>3. Body(h, n) = Body(g, n)
        <5> HIDE DEF h
        <5> QED BY <4>2
      <4>4. h[n] = Body(g, n)
        <5>1. CASE n = m
          <6> HIDE DEF Body
          <6> QED BY <5>1, <1>1
        <5>2. CASE n # m
          <6>1. n \in 0..(m - 1)
            BY <5>2, <1>1
          <6>2. g[n] = Body(g, n)
            <7>1. [k \in 0..(m - 1) |-> Body(g, k)][n] = Body(g, n)
              BY <6>1
            <7> HIDE DEF Body
            <7> QED BY <2>1, <7>1
          <6> HIDE DEF Body
          <6> QED BY <5>2, <6>2
        <5> QED BY <5>1, <5>2
      <4> QED BY <4>3, <4>4
    <3> QED BY <3>1, <3>2, <1>1
  <2>3. h = [n \in 0..m |-> Body(h, n)]
    <3>1. h = [n \in 0..m |-> h[n]]
      OBVIOUS
    <3> HIDE DEF h, Body
    <3> QED BY <2>2, <3>1
  <2>4. Is(m)
    <3> HIDE DEF h, Body
    <3> QED BY <2>3, Zenon
  <2> QED BY <1>1, <2>4
<1>4. Is(Len(s))
  <2>1. 0..Len(s) \subseteq P
    <3> HIDE DEF P
    <3> QED BY <1>1, <1>2, <1>3, UpTo
  <2> HIDE DEF Is
  <2> QED BY <2>1, <1>1
<1> DEFINE f == Filtered(s, T)
<1>5. f = [n \in 0..Len(s) |-> Body(f, n)]
  <2>1. f = CHOOSE g : g = [n \in 0..Len(s) |-> Body(g, n)]
    BY Zenon DEF Filtered
  <2> HIDE DEF f, Body
  <2> QED BY <1>4, <2>1, Zenon
<1>6. \A n \in 0..Len(s) : f[n] = Body(f, n)
  <2> HIDE DEF f, Body
  <2>1. ASSUME NEW n \in 0..Len(s) PROVE [k \in 0..Len(s) |-> Body(f, k)][n] = Body(f, n)
    OBVIOUS
  <2> QED BY <1>5, <2>1
<1> HIDE DEF f
<1> QED BY <1>1, <1>6 DEF f

(* What is left of each prefix is a sequence of what is kept. *)
LEMMA FilteredType ==
  ASSUME NEW S, NEW s \in Seq(S), NEW T
  PROVE  \A n \in 0..Len(s) : Filtered(s, T)[n] \in Seq(S \cap T)
<1> DEFINE P == {n \in 0..Len(s) : Filtered(s, T)[n] \in Seq(S \cap T)}
<1>1. 0 \in P
  <2>1. Filtered(s, T)[0] = <<>> /\ Len(s) \in Nat
    BY FilteredIs
  <2>2. <<>> \in Seq(S \cap T)
    OBVIOUS
  <2>3. 0 \in 0..Len(s)
    BY <2>1
  <2>4. Filtered(s, T)[0] \in Seq(S \cap T)
    BY <2>1, <2>2, Zenon
  <2> QED BY <2>3, <2>4
<1>2. ASSUME NEW n \in 1..Len(s), n - 1 \in P PROVE n \in P
  <2>1. s[n] \in S /\ n \in 0..Len(s)
    OBVIOUS
  <2>2. Filtered(s, T)[n] = IF s[n] \in T THEN Append(Filtered(s, T)[n - 1], s[n])
                           ELSE Filtered(s, T)[n - 1]
    BY FilteredIs
  <2>3. \A u \in Seq(S \cap T), x \in S \cap T : Append(u, x) \in Seq(S \cap T)
    OBVIOUS
  <2> QED BY <1>2, <2>1, <2>2, <2>3
<1>3. 0..Len(s) \subseteq P
  <2>1. Len(s) \in Nat
    OBVIOUS
  <2> HIDE DEF P
  <2> QED BY <1>1, <1>2, <2>1, UpTo
<1> QED BY <1>3

(* What is kept is a sequence of what is there and is to be kept. *)
LEMMA KeptType ==
  ASSUME NEW S, NEW s \in Seq(S), NEW T
  PROVE  Kept(s, T) \in Seq(S \cap T)
<1>1. Len(s) \in 0..Len(s)
  OBVIOUS
<1> QED BY <1>1, FilteredType, Zenon DEF Kept

(* One element more. *)
LEMMA KeptAppend ==
  ASSUME NEW S, NEW s \in Seq(S), NEW x \in S, NEW T
  PROVE  Kept(Append(s, x), T) = IF x \in T THEN Append(Kept(s, T), x) ELSE Kept(s, T)
<1> DEFINE u == Append(s, x)
           P == {n \in 0..Len(s) : Filtered(s, T)[n] = Filtered(u, T)[n]}
<1>1. u \in Seq(S) /\ Len(u) = Len(s) + 1 /\ u[Len(u)] = x /\ \A n \in 1..Len(s) : u[n] = s[n]
  BY AppendProperties
<1> HIDE DEF u
<1>2. 0 \in P
  BY <1>1, FilteredIs
<1>3. ASSUME NEW n \in 1..Len(s), n - 1 \in P PROVE n \in P
  BY <1>1, <1>3, FilteredIs
<1>4. 0..Len(s) \subseteq P
  <2>1. Len(s) \in Nat
    OBVIOUS
  <2> HIDE DEF P
  <2> QED BY <1>2, <1>3, <2>1, UpTo
<1>5. Filtered(s, T)[Len(s)] = Filtered(u, T)[Len(u) - 1]
  BY <1>1, <1>4
<1>6. Filtered(u, T)[Len(u)] = IF x \in T THEN Append(Filtered(u, T)[Len(u) - 1], x)
                              ELSE Filtered(u, T)[Len(u) - 1]
  BY <1>1, FilteredIs
<1> QED BY <1>5, <1>6 DEF Kept, u

(* Keeping twice is keeping once, when the second set is within the first. *)
LEMMA KeptOfKept ==
  ASSUME NEW S, NEW s \in Seq(S), NEW U, NEW T \in SUBSET U
  PROVE  Kept(Kept(s, U), T) = Kept(s, T)
<1> DEFINE P == {n \in 0..Len(s) : Kept(Filtered(s, U)[n], T) = Filtered(s, T)[n]}
<1>1. 0 \in P
  <2>1. <<>> \in Seq(S) /\ Len(<<>>) = 0
    BY EmptySeq
  <2>2. Filtered(<<>>, T)[0] = <<>>
    <3>1. \A v \in Seq(S) : Filtered(v, T)[0] = <<>>
      BY FilteredIs
    <3> QED BY <2>1, <3>1, Zenon
  <2>3. Kept(<<>>, T) = <<>>
    BY <2>1, <2>2, Zenon DEF Kept
  <2> QED BY <2>3, FilteredIs
<1>2. ASSUME NEW n \in 1..Len(s), n - 1 \in P PROVE n \in P
  <2> DEFINE g == Filtered(s, U)[n - 1]
  <2>1. g \in Seq(S) /\ s[n] \in S /\ n - 1 \in 0..Len(s)
    <3>1. n - 1 \in 0..Len(s) /\ Seq(S \cap U) \subseteq Seq(S) /\ s[n] \in S
      OBVIOUS
    <3> QED BY <3>1, FilteredType
  <2>2. Filtered(s, U)[n] = IF s[n] \in U THEN Append(g, s[n]) ELSE g
    BY FilteredIs
  <2>3. Filtered(s, T)[n] = IF s[n] \in T THEN Append(Kept(g, T), s[n]) ELSE Kept(g, T)
    BY <1>2, FilteredIs
  <2> HIDE DEF g
  <2>4. Kept(Append(g, s[n]), T) = IF s[n] \in T THEN Append(Kept(g, T), s[n]) ELSE Kept(g, T)
    <3>1. \A v \in Seq(S), x \in S :
            Kept(Append(v, x), T) = IF x \in T THEN Append(Kept(v, T), x) ELSE Kept(v, T)
      BY KeptAppend
    <3> QED BY <2>1, <3>1
  <2> QED BY <2>2, <2>3, <2>4
<1>3. 0..Len(s) \subseteq P
  <2>1. Len(s) \in Nat
    OBVIOUS
  <2> HIDE DEF P
  <2> QED BY <1>1, <1>2, <2>1, UpTo
<1> QED BY <1>3 DEF Kept

(* What is kept is in what was there, and what may stay does. *)
LEMMA KeptHas ==
  ASSUME NEW S, NEW s \in Seq(S), NEW T, NEW x \in T
  PROVE  (\E i \in DOMAIN Kept(s, T) : Kept(s, T)[i] = x) <=> \E i \in DOMAIN s : s[i] = x
<1> DEFINE f == Filtered(s, T)
  P == {n \in 0..Len(s) :
          (\E i \in 1..Len(f[n]) : f[n][i] = x) <=> \E i \in 1..n : s[i] = x}
<1>1. 0 \in P
  BY FilteredIs, EmptySeq
<1>2. ASSUME NEW n \in 1..Len(s), n - 1 \in P PROVE n \in P
  <2>1. f[n] = IF s[n] \in T THEN Append(f[n - 1], s[n]) ELSE f[n - 1]
    BY FilteredIs
  <2>2. f[n - 1] \in Seq(S) /\ s[n] \in S /\ n - 1 \in 0..Len(s)
    <3>1. n - 1 \in 0..Len(s) /\ Seq(S \cap T) \subseteq Seq(S) /\ s[n] \in S
      OBVIOUS
    <3> QED BY <3>1, FilteredType
  <2>3. (\E i \in 1..Len(f[n - 1]) : f[n - 1][i] = x) <=> \E i \in 1..(n - 1) : s[i] = x
    BY <1>2
  <2>4. (\E i \in 1..n : s[i] = x) <=> s[n] = x \/ \E i \in 1..(n - 1) : s[i] = x
    BY SMT
  <2> HIDE DEF f
  <2>5. CASE s[n] \in T
    <3> DEFINE g == f[n - 1]
               u == Append(g, s[n])
    <3>1. u \in Seq(S) /\ Len(u) = Len(g) + 1 /\ u[Len(u)] = s[n] /\ (\A i \in 1..Len(g) : u[i] = g[i])
          /\ Len(g) \in Nat
      BY <2>2, AppendProperties
    <3> HIDE DEF g, u
    <3>2. (\E i \in 1..Len(u) : u[i] = x) <=> s[n] = x \/ \E i \in 1..Len(g) : g[i] = x
      BY <3>1, SMT
    <3>3. f[n] = u
      BY <2>1, <2>5 DEF g, u
    <3> QED BY <2>3, <2>4, <3>2, <3>3 DEF g
  <2>6. CASE s[n] \notin T
    BY <2>1, <2>3, <2>4, <2>6
  <2> QED BY <2>5, <2>6
<1>3. 0..Len(s) \subseteq P
  <2>1. Len(s) \in Nat
    OBVIOUS
  <2> HIDE DEF P
  <2> QED BY <1>1, <1>2, <2>1, UpTo
<1>4. DOMAIN s = 1..Len(s) /\ DOMAIN Kept(s, T) = 1..Len(Kept(s, T)) /\ Len(s) \in 0..Len(s)
  BY KeptType
<1> QED BY <1>3, <1>4 DEF Kept

-----------------------------------------------------------------------------
(* What the daemon may hold of the wall when it has noted up to n. *)
Memos == [order : Seq(Widget), titled : SUBSET Widget, landed : SUBSET Widget]
MemoFits(memo) ==
  /\ memo \in Memos /\ Len(memo.order) <= MemoMax
  /\ memo.titled \cup memo.landed \subseteq Range(memo.order)
Walls ==
  [seq : Nat, newest : [seq : Nat, titled : BOOLEAN, early : BOOLEAN], byID : Memos,
   bySeq : Seq(Nat), forgot : BOOLEAN, seeded : BOOLEAN]
WallFits(w, n) ==
  /\ w \in Walls /\ w.seq <= n /\ w.newest.seq <= n
  /\ MemoFits(w.byID)
  /\ Len(w.bySeq) <= MemoMax /\ Range(w.bySeq) \subseteq Where(wallTimeline, {"edge"})

WallShape ==
  /\ wallTimeline \in Seq(WallEvent) /\ wallHeard \in 0..Len(wallTimeline)
  /\ WallFits(wall, wallHeard)
  /\ seed \in {"read", "done", "failed"}
  /\ pane \in [seen : 0..Len(wallTimeline), asking : BOOLEAN, drawn : 0..Len(wallTimeline)]
  /\ wallLosses \in Nat /\ restarts \in Nat /\ wallLosses + restarts <= MaxTroubles
  /\ wallMissed \in SUBSET (1..wallHeard)

(* A pin is of a version the room had then. *)
PinsFollow ==
  \A i \in DOMAIN wallTimeline :
    wallTimeline[i].kind \in {"pinned", "unpinned"} =>
      wallTimeline[i].src \in Where(wallTimeline, {"edge"})

(* The widgets that the first n events name, by a kind. *)
NamedBy(kind, n) ==
  {v \in Widget : \E i \in 1..n : wallTimeline[i].kind = kind /\ wallTimeline[i].id = v}

(* What is remembered happened; and once the seed has landed, nothing that  *)
(* was heard or seeded is missing, until something is forgotten or lost.    *)
MemoWithin(memo, n) ==
  memo.titled \subseteq NamedBy("requested", n) /\ memo.landed \subseteq NamedBy("executed", n)
MemoIs(memo, n) ==
  memo.titled = NamedBy("requested", n) /\ memo.landed = NamedBy("executed", n)
MemoInv ==
  /\ MemoWithin(wall.byID, Len(wallTimeline))
  /\ wall.seeded /\ ~wall.forgot /\ wallMissed = {} =>
       \E n \in wallHeard..Len(wallTimeline) : MemoIs(wall.byID, n)

(* A change that was heard is behind the number, or the pane has drawn it,  *)
(* or is about to; after a restart the number, once there is one, is past   *)
(* all of them.                                                             *)
Shapes(n) == {i \in 1..n : IsWidgetShaping(wallTimeline[i])}
PaneInv ==
  /\ pane.asking \/ pane.seen <= pane.drawn
  /\ wallMissed = {} /\ restarts = 0 =>
       \A i \in Shapes(wallHeard) : i <= wall.seq \/ pane.asking \/ i <= pane.drawn
  /\ wallMissed = {} /\ restarts > 0 /\ wall.seq > 0 =>
       \A i \in Shapes(wallHeard) : i <= wall.seq

WallInv == WallShape /\ PinsFollow /\ MemoInv /\ NewestIsNew /\ PaneInv

-----------------------------------------------------------------------------
(* What each kind of event carries. *)
LEMMA EventIs ==
  ASSUME NEW e \in WallEvent
  PROVE  /\ e.kind \in Built => e.id \in Widget
         /\ e.kind = "edge" => e.who \in Sharer /\ e.title = "t" /\ e.data \in BOOLEAN
         /\ e.kind \in {"pinned", "unpinned"} => e.src \in 1..MaxPosts
         /\ e.kind = "saved" => e.order \in Widget
         /\ e.kind \in Built \cup {"edge", "pinned", "unpinned", "saved"}
<1>1. e \in [kind : Built, id : Widget] \/ e \in [kind : {"edge"}, who : Sharer, title : {"t"}, data : BOOLEAN]
      \/ e \in [kind : {"pinned", "unpinned"}, src : 1..MaxPosts] \/ e \in [kind : {"saved"}, order : Widget]
  BY DEF WallEvent
<1> QED BY <1>1 DEF Built

(* What a list holds with one more at its end, and without its first. *)
LEMMA RangeAppend ==
  ASSUME NEW S, NEW s \in Seq(S), NEW x \in S
  PROVE  Range(Append(s, x)) = Range(s) \cup {x}
<1> DEFINE u == Append(s, x)
<1>1. /\ DOMAIN u = 1..(Len(s) + 1) /\ DOMAIN s = 1..Len(s) /\ Len(s) \in Nat
      /\ u[Len(s) + 1] = x /\ \A i \in 1..Len(s) : u[i] = s[i]
  BY AppendProperties
<1> HIDE DEF u
<1>2. \A i : i \in DOMAIN u <=> i \in DOMAIN s \/ i = Len(s) + 1
  BY <1>1
<1>3. Range(u) = Range(s) \cup {x}
  BY <1>1, <1>2, Zenon DEF Range
<1> QED BY <1>3 DEF u

(* A list without its first holds all but, perhaps, that one. *)
LEMMA RangeTail ==
  ASSUME NEW S, NEW s \in Seq(S), s # <<>>
  PROVE  /\ Range(s) \ {Head(s)} \subseteq Range(Tail(s))
         /\ Range(Tail(s)) \subseteq Range(s)
<1> DEFINE u == Tail(s)
<1>1. /\ DOMAIN s = 1..Len(s) /\ Len(s) \in Nat \ {0} /\ DOMAIN u = 1..(Len(s) - 1)
      /\ Head(s) = s[1] /\ \A i \in 1..(Len(s) - 1) : u[i] = s[i + 1]
  BY HeadTailProperties, EmptySeq
<1> HIDE DEF u
<1>2. ASSUME NEW i \in 1..Len(s), s[i] # s[1] PROVE s[i] \in Range(u)
  <2>1. i - 1 \in 1..(Len(s) - 1) /\ u[i - 1] = s[i]
    BY <1>1, <1>2
  <2> QED BY <1>1, <2>1, Zenon DEF Range
<1>3. ASSUME NEW i \in 1..(Len(s) - 1) PROVE u[i] \in Range(s)
  <2>1. i + 1 \in 1..Len(s) /\ u[i] = s[i + 1]
    BY <1>1
  <2> QED BY <1>1, <2>1, Zenon DEF Range
<1>4. Range(s) \ {Head(s)} \subseteq Range(u) /\ Range(u) \subseteq Range(s)
  BY <1>1, <1>2, <1>3, Zenon DEF Range
<1> QED BY <1>4 DEF u

(* Putting a widget among those remembered. *)
LEMMA PutIDIs ==
  ASSUME WallAssumption, NEW memo, MemoFits(memo), NEW v \in Widget
  PROVE  LET m == putID(memo, v)
         IN  /\ MemoFits(m) /\ v \in Range(m.order)
             /\ m.titled \subseteq memo.titled /\ m.landed \subseteq memo.landed
             /\ ~Forgets(memo, v) => m.titled = memo.titled /\ m.landed = memo.landed
<1> DEFINE m == putID(memo, v)
<1>1. /\ memo.order \in Seq(Widget) /\ memo.titled \in SUBSET Widget /\ memo.landed \in SUBSET Widget
      /\ Len(memo.order) \in Nat /\ Len(memo.order) <= MemoMax /\ MemoMax \in Nat \ {0}
      /\ memo.titled \cup memo.landed \subseteq Range(memo.order) /\ memo \in Memos
  BY WallAssumption DEF MemoFits, Memos
<1>2. CASE v \in Range(memo.order)
  <2>1. m = memo
    BY <1>2 DEF putID
  <2> QED BY <1>2, <2>1
<1>3. CASE v \notin Range(memo.order) /\ ~Forgets(memo, v)
  <2> DEFINE u == Append(memo.order, v)
  <2>1. m = [memo EXCEPT !.order = u]
    BY <1>3 DEF putID
  <2>2. u \in Seq(Widget) /\ Len(u) = Len(memo.order) + 1 /\ Range(u) = Range(memo.order) \cup {v}
    BY <1>1, AppendProperties, RangeAppend
  <2>3. Len(u) <= MemoMax
    BY <1>1, <1>3, <2>2 DEF Forgets
  <2> HIDE DEF u
  <2>4. m \in Memos /\ m.order = u /\ m.titled = memo.titled /\ m.landed = memo.landed
    BY <1>1, <2>1, <2>2 DEF Memos
  <2> QED BY <1>1, <2>2, <2>3, <2>4 DEF MemoFits
<1>4. CASE v \notin Range(memo.order) /\ Forgets(memo, v)
  <2> DEFINE h == Head(memo.order)
             t == Tail(memo.order)
             u == Append(t, v)
  <2>1. m = [order |-> u, titled |-> memo.titled \ {h}, landed |-> memo.landed \ {h}]
    BY <1>4 DEF putID
  <2>2. memo.order # <<>> /\ Len(memo.order) = MemoMax
    BY <1>1, <1>4, EmptySeq DEF Forgets
  <2>3. t \in Seq(Widget) /\ Len(t) = Len(memo.order) - 1
    BY <1>1, <2>2, HeadTailProperties
  <2>4. Range(memo.order) \ {h} \subseteq Range(t)
    BY <1>1, <2>2, RangeTail
  <2> HIDE DEF t, h
  <2>5. u \in Seq(Widget) /\ Len(u) = Len(t) + 1 /\ Range(u) = Range(t) \cup {v}
    BY <2>3, AppendProperties, RangeAppend
  <2>6. Len(u) <= MemoMax
    BY <1>1, <2>2, <2>3, <2>5
  <2> HIDE DEF u
  <2>7. m \in Memos /\ m.order = u /\ m.titled = memo.titled \ {h} /\ m.landed = memo.landed \ {h}
    BY <1>1, <2>1, <2>5 DEF Memos
  <2> QED BY <1>1, <1>4, <2>4, <2>5, <2>6, <2>7 DEF MemoFits
<1> QED BY <1>2, <1>3, <1>4

(* The widget that an event adds to what is remembered of a kind. *)
NewOf(kind, e) == IF e.kind = kind THEN {e.id} ELSE {}
(* Remembering an event of a widget. *)
LEMMA NotedIs ==
  ASSUME WallAssumption, NEW memo, MemoFits(memo), NEW e, e.kind \in Built, e.id \in Widget
  PROVE  LET m == Noted(memo, e)
         IN  /\ MemoFits(m)
             /\ m.titled \subseteq memo.titled \cup NewOf("requested", e)
             /\ m.landed \subseteq memo.landed \cup NewOf("executed", e)
             /\ ~Forgets(memo, e.id) => /\ m.titled = memo.titled \cup NewOf("requested", e)
                                        /\ m.landed = memo.landed \cup NewOf("executed", e)
<1> DEFINE p == putID(memo, e.id)
           m == Noted(memo, e)
<1>1. /\ MemoFits(p) /\ e.id \in Range(p.order)
      /\ p.titled \subseteq memo.titled /\ p.landed \subseteq memo.landed
      /\ ~Forgets(memo, e.id) => p.titled = memo.titled /\ p.landed = memo.landed
  BY PutIDIs, Zenon
<1>2. m = [p EXCEPT !.titled = @ \cup NewOf("requested", e), !.landed = @ \cup NewOf("executed", e)]
  BY DEF Noted, NewOf
<1>3. NewOf("requested", e) \subseteq {e.id} /\ NewOf("executed", e) \subseteq {e.id}
  BY DEF NewOf
<1> HIDE DEF p
<1>4. p \in Memos
  BY <1>1 DEF MemoFits
<1>5. /\ m \in Memos /\ m.order = p.order /\ m.titled = p.titled \cup NewOf("requested", e)
      /\ m.landed = p.landed \cup NewOf("executed", e)
  BY <1>2, <1>3, <1>4 DEF Memos
<1> HIDE DEF m
<1>6. MemoFits(m)
  BY <1>1, <1>3, <1>5 DEF MemoFits
<1> QED BY <1>1, <1>5, <1>6 DEF m

(* Putting an edge's event among those remembered. *)
LEMMA PutSeqIs ==
  ASSUME WallAssumption, NEW memo \in Seq(Nat), Len(memo) <= MemoMax, NEW n \in Nat
  PROVE  /\ putSeq(memo, n) \in Seq(Nat) /\ Len(putSeq(memo, n)) <= MemoMax
         /\ Range(putSeq(memo, n)) \subseteq Range(memo) \cup {n}
<1> DEFINE t == IF Len(memo) = MemoMax THEN Tail(memo) ELSE memo
<1>1. Len(memo) \in Nat /\ MemoMax \in Nat \ {0}
  BY WallAssumption
<1>2. CASE n \in Range(memo)
  BY <1>2 DEF putSeq
<1>3. CASE n \notin Range(memo)
  <2>1. t \in Seq(Nat) /\ Len(t) < MemoMax /\ Range(t) \subseteq Range(memo) /\ Len(t) \in Nat
    <3>1. CASE Len(memo) = MemoMax
      <4>1. memo # <<>>
        BY <1>1, <3>1, EmptySeq
      <4> QED BY <1>1, <3>1, <4>1, HeadTailProperties, RangeTail
    <3>2. CASE Len(memo) # MemoMax
      BY <1>1, <3>2
    <3> QED BY <3>1, <3>2
  <2>2. putSeq(memo, n) = Append(t, n)
    BY <1>3 DEF putSeq
  <2> HIDE DEF t
  <2>3. Append(t, n) \in Seq(Nat) /\ Len(Append(t, n)) = Len(t) + 1
        /\ Range(Append(t, n)) = Range(t) \cup {n}
    BY <2>1, AppendProperties, RangeAppend
  <2> QED BY <1>1, <2>1, <2>2, <2>3
<1> QED BY <1>2, <1>3

-----------------------------------------------------------------------------
(* What noting an event does to what is remembered, and remembering one.    *)

(* The memory of a daemon that has taken the n-th event in. *)
Takes(w, v, n) ==
  LET e == wallTimeline[n]
  IN  /\ v.byID.titled \subseteq w.byID.titled \cup NewOf("requested", e)
      /\ v.byID.landed \subseteq w.byID.landed \cup NewOf("executed", e)
      /\ w.forgot => v.forgot
      /\ ~v.forgot => /\ v.byID.titled = w.byID.titled \cup NewOf("requested", e)
                      /\ v.byID.landed = w.byID.landed \cup NewOf("executed", e)
      /\ v.seeded = w.seeded

(* What noting or seeding the event n does to the memory is what Takes says. *)
LEMMA MemoTakes ==
  ASSUME WallAssumption, wallTimeline \in Seq(WallEvent), NEW n \in 1..Len(wallTimeline),
         NEW w \in Walls, MemoFits(w.byID), NEW v \in Walls, v.seeded = w.seeded,
         LET e == wallTimeline[n]
         IN  IF e.kind \in Built
             THEN v.byID = Noted(w.byID, e) /\ v.forgot = (w.forgot \/ Forgets(w.byID, e.id))
             ELSE v.byID = w.byID /\ v.forgot = w.forgot
  PROVE  MemoFits(v.byID) /\ Takes(w, v, n)
<1> DEFINE e == wallTimeline[n]
<1>1. e \in WallEvent
  OBVIOUS
<1>2. e.kind \in Built => e.id \in Widget
  BY <1>1, EventIs
<1>3. w.forgot \in BOOLEAN /\ v.forgot \in BOOLEAN
  BY DEF Walls
<1>4. CASE e.kind \in Built
  <2>1. v.byID = Noted(w.byID, e) /\ v.forgot = (w.forgot \/ Forgets(w.byID, e.id))
    BY <1>4
  <2>2. /\ MemoFits(v.byID)
        /\ v.byID.titled \subseteq w.byID.titled \cup NewOf("requested", e)
        /\ v.byID.landed \subseteq w.byID.landed \cup NewOf("executed", e)
        /\ ~Forgets(w.byID, e.id) => /\ v.byID.titled = w.byID.titled \cup NewOf("requested", e)
                                     /\ v.byID.landed = w.byID.landed \cup NewOf("executed", e)
    <3> DEFINE memo == w.byID
    <3>1. MemoFits(memo) /\ e.kind \in Built /\ e.id \in Widget
      BY <1>2, <1>4
    <3> HIDE DEF e, memo
    <3>2. /\ MemoFits(Noted(memo, e))
          /\ Noted(memo, e).titled \subseteq memo.titled \cup NewOf("requested", e)
          /\ Noted(memo, e).landed \subseteq memo.landed \cup NewOf("executed", e)
          /\ ~Forgets(memo, e.id) => /\ Noted(memo, e).titled = memo.titled \cup NewOf("requested", e)
                                     /\ Noted(memo, e).landed = memo.landed \cup NewOf("executed", e)
      BY <3>1, NotedIs
    <3> QED BY <2>1, <3>2 DEF memo
  <2> QED BY <2>1, <2>2, Zenon DEF Takes
<1>5. CASE e.kind \notin Built
  <2>1. v.byID = w.byID /\ v.forgot = w.forgot
    BY <1>5
  <2>2. NewOf("requested", e) = {} /\ NewOf("executed", e) = {}
    BY <1>5 DEF NewOf, Built
  <2> QED BY <2>1, <2>2 DEF Takes
<1> QED BY <1>4, <1>5

(* noteWall: the number is the last change's, and the newest widget is that *)
(* of this event, if it is one that has not landed before.                  *)
LEMMA NoteIs ==
  ASSUME WallAssumption, wallTimeline \in Seq(WallEvent), NEW n \in 1..Len(wallTimeline),
         NEW w, WallFits(w, n - 1)
  PROVE  LET e == wallTimeline[n]
             v == noteWall(w, n)
         IN  /\ WallFits(v, n) /\ Takes(w, v, n)
             /\ v.seq = IF IsWidgetShaping(e) THEN n ELSE w.seq
             /\ \/ v.newest = w.newest
                \/ /\ v.newest.seq = n /\ v.newest.early = ~w.seeded
                   /\ e.kind = "executed" =>
                        /\ e.id \notin w.byID.landed
                        /\ v.newest.titled = (e.id \in Noted(w.byID, e).titled)
<1> DEFINE e == wallTimeline[n]
           v == noteWall(w, n)
           id == IF e.kind \in Built THEN Noted(w.byID, e) ELSE w.byID
           by == IF e.kind = "edge" THEN putSeq(w.bySeq, n) ELSE w.bySeq
           new == CASE e.kind = "executed" /\ e.id \notin w.byID.landed ->
                         landWidget(w, n, e.id \in id.titled)
                    [] e.kind = "edge" -> landWidget(w, n, TRUE)
                    [] e.kind = "pinned" -> landWidget(w, n, e.src \in Range(w.bySeq))
                    [] OTHER -> w.newest
<1>1. /\ w \in Walls /\ w.seq \in Nat /\ w.seq < n /\ w.newest.seq \in Nat /\ w.newest.seq < n /\ n \in Nat
      /\ w.newest \in [seq : Nat, titled : BOOLEAN, early : BOOLEAN]
      /\ MemoFits(w.byID) /\ w.bySeq \in Seq(Nat) /\ Len(w.bySeq) <= MemoMax
      /\ Range(w.bySeq) \subseteq Where(wallTimeline, {"edge"})
      /\ w.forgot \in BOOLEAN /\ w.seeded \in BOOLEAN
  BY DEF WallFits, Walls
<1>2. e \in WallEvent /\ n \in DOMAIN wallTimeline
  OBVIOUS
<1>3. e.kind \in Built => e.id \in Widget
  BY <1>2, EventIs
<1>4. MemoFits(id)
  BY <1>1, <1>3, NotedIs
<1>5. by \in Seq(Nat) /\ Len(by) <= MemoMax /\ Range(by) \subseteq Where(wallTimeline, {"edge"})
  <2>1. CASE e.kind = "edge"
    <3>1. putSeq(w.bySeq, n) \in Seq(Nat) /\ Len(putSeq(w.bySeq, n)) <= MemoMax
          /\ Range(putSeq(w.bySeq, n)) \subseteq Range(w.bySeq) \cup {n}
      BY <1>1, PutSeqIs
    <3>2. n \in Where(wallTimeline, {"edge"})
      BY <1>2, <2>1 DEF Where
    <3> QED BY <1>1, <2>1, <3>1, <3>2
  <2>2. CASE e.kind # "edge"
    BY <1>1, <2>2
  <2> QED BY <2>1, <2>2
<1>6. /\ v.seq = IF IsWidgetShaping(e) /\ n > w.seq THEN n ELSE w.seq
      /\ v.byID = id /\ v.bySeq = by /\ v.newest = new /\ v.seeded = w.seeded
      /\ v.forgot = (w.forgot \/ (e.kind \in Built /\ Forgets(w.byID, e.id)))
      /\ v = [seq |-> v.seq, byID |-> v.byID, bySeq |-> v.bySeq, newest |-> v.newest,
              forgot |-> v.forgot, seeded |-> v.seeded]
  BY DEF noteWall
<1>7. v.seq = IF IsWidgetShaping(e) THEN n ELSE w.seq
  BY <1>1, <1>6
<1>8. \A t : landWidget(w, n, t) = [seq |-> n, titled |-> t, early |-> ~w.seeded]
  BY <1>1 DEF landWidget
<1>9. \/ new = w.newest
      \/ /\ new \in [seq : Nat, titled : BOOLEAN, early : BOOLEAN]
         /\ new.seq = n /\ new.early = ~w.seeded
         /\ e.kind = "executed" =>
              e.id \notin w.byID.landed /\ new.titled = (e.id \in Noted(w.byID, e).titled)
  <2>1. CASE e.kind = "executed" /\ e.id \notin w.byID.landed
    <3>1. new = [seq |-> n, titled |-> (e.id \in id.titled), early |-> ~w.seeded]
      BY <1>8, <2>1
    <3>2. id = Noted(w.byID, e)
      BY <2>1 DEF Built
    <3> HIDE DEF id, new
    <3>3. (e.id \in id.titled) \in BOOLEAN /\ (~w.seeded) \in BOOLEAN
      OBVIOUS
    <3> QED BY <1>1, <2>1, <3>1, <3>2, <3>3
  <2>2. CASE e.kind = "edge"
    <3>1. new = [seq |-> n, titled |-> TRUE, early |-> ~w.seeded]
      BY <1>8, <2>2
    <3> HIDE DEF new
    <3> QED BY <1>1, <2>2, <3>1
  <2>3. CASE e.kind = "pinned"
    <3> DEFINE t == e.src \in Range(w.bySeq)
    <3>1. new = [seq |-> n, titled |-> t, early |-> ~w.seeded] /\ t \in BOOLEAN
      BY <1>8, <2>3
    <3> HIDE DEF new, t
    <3> QED BY <1>1, <2>3, <3>1
  <2>4. CASE e.kind # "edge" /\ e.kind # "pinned" /\ ~(e.kind = "executed" /\ e.id \notin w.byID.landed)
    BY <2>4
  <2> QED BY <2>1, <2>2, <2>3, <2>4
<1> HIDE DEF id, by, new, e, v
<1>10. v \in Walls
  <2>1. id \in Memos
    BY <1>4 DEF MemoFits
  <2>2. v.seq \in Nat /\ v.newest \in [seq : Nat, titled : BOOLEAN, early : BOOLEAN]
    BY <1>1, <1>6, <1>7, <1>9
  <2>3. v.forgot \in BOOLEAN /\ v.seeded \in BOOLEAN /\ v.bySeq \in Seq(Nat) /\ v.byID \in Memos
    BY <1>1, <1>5, <1>6, <2>1
  <2> QED BY <1>6, <2>2, <2>3, Zenon DEF Walls
<1>11. Takes(w, v, n)
  <2>1. /\ e.kind \in Built => v.byID = Noted(w.byID, e) /\ v.forgot = (w.forgot \/ Forgets(w.byID, e.id))
        /\ e.kind \notin Built => v.byID = w.byID /\ v.forgot = w.forgot
    BY <1>1, <1>6 DEF id
  <2> QED BY <1>1, <1>6, <1>10, <2>1, MemoTakes, Zenon DEF e
<1>12. WallFits(v, n)
  <2>1. v.seq <= n /\ v.newest.seq <= n
    BY <1>1, <1>6, <1>7, <1>9
  <2> QED BY <1>4, <1>5, <1>6, <1>10, <2>1 DEF WallFits
<1> QED BY <1>6, <1>7, <1>9, <1>11, <1>12 DEF e, v

(* seedWall: only the memory. *)
LEMMA SeedIs ==
  ASSUME WallAssumption, wallTimeline \in Seq(WallEvent), NEW n \in 1..Len(wallTimeline),
         NEW h, NEW w, WallFits(w, h)
  PROVE  LET v == seedWall(w, n)
         IN  /\ WallFits(v, h) /\ Takes(w, v, n)
             /\ v.seq = w.seq /\ v.newest = w.newest
<1> DEFINE e == wallTimeline[n]
           v == seedWall(w, n)
<1>1. /\ w \in Walls /\ MemoFits(w.byID) /\ w.bySeq \in Seq(Nat) /\ Len(w.bySeq) <= MemoMax
      /\ Range(w.bySeq) \subseteq Where(wallTimeline, {"edge"}) /\ n \in Nat
      /\ w.forgot \in BOOLEAN /\ w.byID \in Memos
  BY DEF WallFits, Walls
<1>2. e \in WallEvent /\ n \in DOMAIN wallTimeline
  OBVIOUS
<1>3. e.kind \in Built => e.id \in Widget
  BY <1>2, EventIs
<1>4. CASE e.kind \in Built
  <2> DEFINE m == Noted(w.byID, e)
             f == w.forgot \/ Forgets(w.byID, e.id)
  <2>1. v = [w EXCEPT !.byID = m, !.forgot = f]
    BY <1>1, <1>4 DEF seedWall, Built
  <2>2. MemoFits(m) /\ m \in Memos /\ f \in BOOLEAN
    BY <1>1, <1>3, <1>4, NotedIs DEF MemoFits
  <2> HIDE DEF m, f
  <2>3. /\ v \in Walls /\ v.byID = m /\ v.forgot = f /\ v.seeded = w.seeded /\ v.seq = w.seq
        /\ v.newest = w.newest /\ v.bySeq = w.bySeq
    BY <1>1, <2>1, <2>2 DEF Walls
  <2>4. WallFits(v, h)
    BY <2>2, <2>3 DEF WallFits
  <2>5. v.byID = Noted(w.byID, e) /\ v.forgot = (w.forgot \/ Forgets(w.byID, e.id))
    BY <2>3 DEF m, f
  <2> HIDE DEF v
  <2>6. Takes(w, v, n)
    BY <1>1, <1>4, <2>3, <2>5, MemoTakes, Zenon
  <2> QED BY <2>3, <2>4, <2>6 DEF v
<1>5. CASE e.kind = "edge"
  <2> DEFINE q == putSeq(w.bySeq, n)
  <2>1. v = [w EXCEPT !.bySeq = q]
    BY <1>1, <1>5 DEF seedWall, Built
  <2>2. q \in Seq(Nat) /\ Len(q) <= MemoMax /\ Range(q) \subseteq Range(w.bySeq) \cup {n}
    BY <1>1, PutSeqIs
  <2>3. n \in Where(wallTimeline, {"edge"}) /\ e.kind \notin Built
    BY <1>2, <1>5 DEF Where, Built
  <2> HIDE DEF q
  <2>4. /\ v \in Walls /\ v.byID = w.byID /\ v.forgot = w.forgot /\ v.seeded = w.seeded /\ v.seq = w.seq
        /\ v.newest = w.newest /\ v.bySeq = q
    BY <1>1, <2>1, <2>2 DEF Walls
  <2>5. WallFits(v, h)
    BY <1>1, <2>2, <2>3, <2>4 DEF WallFits
  <2> HIDE DEF v
  <2>6. Takes(w, v, n)
    BY <1>1, <2>3, <2>4, MemoTakes, Zenon
  <2> QED BY <2>4, <2>5, <2>6 DEF v
<1>6. CASE e.kind \notin Built /\ e.kind # "edge"
  <2>1. v = w
    BY <1>6 DEF seedWall
  <2> HIDE DEF v
  <2>2. Takes(w, v, n)
    BY <1>1, <1>6, <2>1, MemoTakes, Zenon
  <2> QED BY <2>1, <2>2 DEF v
<1> QED BY <1>4, <1>5, <1>6

(* The function that InOneTurn names is there. *)
LEMMA InOneTurnIs ==
  ASSUME wallTimeline \in Seq(WallEvent), NEW w, NEW first \in Nat, NEW how
  PROVE  \A n \in 0..Len(wallTimeline) : InOneTurn(w, first, how)[n] =
           IF n <= first THEN w
           ELSE IF how = "note" THEN noteWall(InOneTurn(w, first, how)[n - 1], n)
                ELSE seedWall(InOneTurn(w, first, how)[n - 1], n)
<1> DEFINE N == Len(wallTimeline)
    Body(g, n) ==
      IF n <= first THEN w
      ELSE IF how = "note" THEN noteWall(g[n - 1], n) ELSE seedWall(g[n - 1], n)
    Is(m) == \E g : g = [n \in 0..m |-> Body(g, n)]
    P == {m \in 0..N : Is(m)}
<1>1. N \in Nat
  OBVIOUS
<1>2. 0 \in P
  <2>1. \A n \in 0..0 : Body([k \in 0..0 |-> w], n) = w
    OBVIOUS
  <2>2. [n \in 0..0 |-> w] = [n \in 0..0 |-> Body([k \in 0..0 |-> w], n)]
    <3> HIDE DEF Body
    <3> QED BY <2>1
  <2>3. Is(0)
    BY <2>2, Zenon
  <2> QED BY <1>1, <2>3
<1>3. ASSUME NEW m \in 1..N, m - 1 \in P PROVE m \in P
  <2>1. PICK g : g = [n \in 0..(m - 1) |-> Body(g, n)]
    BY <1>3
  <2> DEFINE h == [n \in 0..m |-> IF n = m THEN Body(g, m) ELSE g[n]]
  <2>2. \A n \in 0..m : h[n] = Body(h, n)
    <3> SUFFICES ASSUME NEW n \in 0..m PROVE h[n] = Body(h, n)
      OBVIOUS
    <3>1. Body(h, n) = Body(g, n)
      <4>1. CASE n = 0
        BY <4>1
      <4>2. CASE n > 0
        <5>1. n - 1 \in 0..m /\ n - 1 # m
          BY <1>1, <4>2
        <5>2. h[n - 1] = g[n - 1]
          BY <5>1
        <5> HIDE DEF h
        <5> QED BY <5>2
      <4> QED BY <4>1, <4>2
    <3>2. h[n] = Body(g, n)
      <4>1. CASE n = m
        <5> HIDE DEF Body
        <5> QED BY <4>1, <1>1
      <4>2. CASE n # m
        <5>1. n \in 0..(m - 1)
          BY <4>2, <1>1
        <5>2. [k \in 0..(m - 1) |-> Body(g, k)][n] = Body(g, n)
          <6> HIDE DEF Body
          <6> QED BY <5>1
        <5> HIDE DEF Body
        <5>3. g[n] = Body(g, n)
          BY <2>1, <5>2
        <5> QED BY <4>2, <5>3
      <4> QED BY <4>1, <4>2
    <3> QED BY <3>1, <3>2
  <2>3. h = [n \in 0..m |-> Body(h, n)]
    <3>1. h = [n \in 0..m |-> h[n]]
      OBVIOUS
    <3> HIDE DEF h, Body
    <3> QED BY <2>2, <3>1
  <2>4. Is(m)
    <3> HIDE DEF h, Body
    <3> QED BY <2>3, Zenon
  <2> QED BY <1>1, <2>4
<1>4. Is(N)
  <2>1. 0..N \subseteq P
    <3> HIDE DEF P
    <3> QED BY <1>1, <1>2, <1>3, UpTo
  <2> HIDE DEF Is
  <2> QED BY <2>1, <1>1
<1> DEFINE f == InOneTurn(w, first, how)
<1>5. f = [n \in 0..N |-> Body(f, n)]
  <2>1. f = CHOOSE g : g = [n \in 0..N |-> Body(g, n)]
    BY Zenon DEF InOneTurn
  <2> HIDE DEF f, Body
  <2> QED BY <1>4, <2>1, Zenon
<1>6. \A n \in 0..N : f[n] = Body(f, n)
  <2> HIDE DEF f, Body
  <2>1. ASSUME NEW n \in 0..N PROVE [k \in 0..N |-> Body(f, k)][n] = Body(f, n)
    OBVIOUS
  <2> QED BY <1>5, <2>1
<1> HIDE DEF f
<1> QED BY <1>6 DEF f

(* The widgets that one event more names. *)
LEMMA NamedByIs ==
  ASSUME wallTimeline \in Seq(WallEvent), NEW n \in 1..Len(wallTimeline),
         NEW kind \in {"requested", "executed"}
  PROVE  /\ NamedBy(kind, n) = NamedBy(kind, n - 1) \cup NewOf(kind, wallTimeline[n])
         /\ NewOf(kind, wallTimeline[n]) \in SUBSET Widget
<1>1. wallTimeline[n] \in WallEvent
  OBVIOUS
<1>2. wallTimeline[n].kind \in Built => wallTimeline[n].id \in Widget
  BY <1>1, EventIs
<1>3. NewOf(kind, wallTimeline[n]) \in SUBSET Widget
  BY <1>2 DEF NewOf, Built
<1>4. \A i : i \in 1..n <=> i \in 1..(n - 1) \/ i = n
  OBVIOUS
<1>5. \A v \in Widget : v \in NewOf(kind, wallTimeline[n]) <=>
                          wallTimeline[n].kind = kind /\ wallTimeline[n].id = v
  BY DEF NewOf
<1> QED BY <1>3, <1>4, <1>5, Zenon DEF NamedBy

(* More events name no fewer widgets. *)
LEMMA NamedByGrows ==
  ASSUME NEW kind, NEW n \in Nat, NEW m \in Nat, n <= m
  PROVE  NamedBy(kind, n) \subseteq NamedBy(kind, m)
<1>1. 1..n \subseteq 1..m
  OBVIOUS
<1> QED BY <1>1, Zenon DEF NamedBy

(* What a restarted daemon has noted in its one turn: as NoteIs says of     *)
(* each event, and whatever it found newest it found before its seed.       *)
LEMMA RestartNotes ==
  ASSUME WallAssumption, wallTimeline \in Seq(WallEvent), NEW first \in 0..Len(wallTimeline)
  PROVE  LET v == InOneTurn(NoWall, first, "note")[Len(wallTimeline)]
         IN  /\ WallFits(v, Len(wallTimeline)) /\ MemoWithin(v.byID, Len(wallTimeline)) /\ ~v.seeded
             /\ v.newest.seq = 0 \/ v.newest.early
             /\ v.seq # 0 => \A i \in Shapes(Len(wallTimeline)) : i <= v.seq
<1> DEFINE N == Len(wallTimeline)
           f == InOneTurn(NoWall, first, "note")
           Good(v, n) ==
             /\ WallFits(v, n) /\ MemoWithin(v.byID, n) /\ ~v.seeded
             /\ v.newest.seq = 0 \/ v.newest.early
             /\ v.seq # 0 => \A i \in Shapes(n) : i <= v.seq
           P == {n \in 0..N : Good(f[n], n)}
<1>1. \A n \in 0..N : f[n] = IF n <= first THEN NoWall ELSE noteWall(f[n - 1], n)
  BY InOneTurnIs
<1>2. N \in Nat /\ first \in Nat
  OBVIOUS
<1> HIDE DEF f
<1>3. ASSUME NEW n \in 0..N PROVE Good(NoWall, n)
  <2>1. <<>> \in Seq(Widget) /\ <<>> \in Seq(Nat) /\ Len(<<>>) = 0 /\ Range(<<>>) = {}
    BY DEF Range
  <2>2. NoWall \in Walls /\ MemoFits(NoMemo)
    BY <2>1, WallAssumption DEF NoWall, Walls, NoMemo, Memos, NoWidget, MemoFits
  <2>3. NoWall.seq = 0 /\ NoWall.newest.seq = 0 /\ NoWall.byID = NoMemo /\ NoWall.bySeq = <<>>
        /\ ~NoWall.seeded /\ NoMemo.titled = {} /\ NoMemo.landed = {}
    BY DEF NoWall, NoMemo, NoWidget
  <2>4. WallFits(NoWall, n)
    BY <2>1, <2>2, <2>3, WallAssumption DEF WallFits
  <2> QED BY <2>3, <2>4 DEF MemoWithin
<1>4. 0 \in P
  BY <1>1, <1>2, <1>3
<1>5. ASSUME NEW n \in 1..N, n - 1 \in P PROVE n \in P
  <2>1. CASE n <= first
    <3>1. f[n] = NoWall /\ n \in 0..N
      BY <1>1, <2>1
    <3> HIDE DEF Good
    <3> QED BY <1>3, <3>1
  <2>2. CASE n > first
    <3> DEFINE w == f[n - 1]
               e == wallTimeline[n]
               v == noteWall(w, n)
    <3>1. f[n] = v /\ n \in 0..N
      BY <1>1, <1>2, <2>2
    <3>2. Good(w, n - 1)
      BY <1>5
    <3> HIDE DEF w
    <3>3. /\ WallFits(v, n) /\ Takes(w, v, n)
          /\ v.seq = IF IsWidgetShaping(e) THEN n ELSE w.seq
          /\ v.newest = w.newest \/ (v.newest.seq = n /\ v.newest.early = ~w.seeded)
      BY <3>2, NoteIs
    <3> HIDE DEF v
    <3>4. MemoWithin(v.byID, n) /\ ~v.seeded
      BY <3>2, <3>3, NamedByIs DEF MemoWithin, Takes
    <3>5. v.newest.seq = 0 \/ v.newest.early
      BY <3>2, <3>3
    <3>6. v.seq # 0 => \A i \in Shapes(n) : i <= v.seq
      <4>1. \A i \in Shapes(n) : i <= n /\ (i \in Shapes(n - 1) \/ (i = n /\ IsWidgetShaping(e)))
        BY DEF Shapes
      <4> QED BY <3>2, <3>3, <4>1
    <3> QED BY <3>1, <3>3, <3>4, <3>5, <3>6
  <2> QED BY <1>2, <2>1, <2>2
<1>6. 0..N \subseteq P
  <2> HIDE DEF P
  <2> QED BY <1>2, <1>4, <1>5, UpTo
<1>7. Good(f[N], N)
  BY <1>2, <1>6
<1> QED BY <1>7 DEF f

(* What the seed's turn leaves: all that the timeline names is remembered,  *)
(* unless something was forgotten; nothing else changes.                    *)
LEMMA SeedLeaves ==
  ASSUME WallAssumption, wallTimeline \in Seq(WallEvent), NEW h \in Nat, NEW w, WallFits(w, h),
         MemoWithin(w.byID, Len(wallTimeline))
  PROVE  LET v == InOneTurn(w, 0, "seed")[Len(wallTimeline)]
         IN  /\ WallFits(v, h) /\ MemoWithin(v.byID, Len(wallTimeline))
             /\ v.seq = w.seq /\ v.newest = w.newest
             /\ ~v.forgot => ~w.forgot /\ MemoIs(v.byID, Len(wallTimeline))
<1> DEFINE N == Len(wallTimeline)
           f == InOneTurn(w, 0, "seed")
           Good(v, n) ==
             /\ WallFits(v, h) /\ MemoWithin(v.byID, N)
             /\ v.seq = w.seq /\ v.newest = w.newest
             /\ ~v.forgot => /\ ~w.forgot
                             /\ NamedBy("requested", n) \subseteq v.byID.titled
                             /\ NamedBy("executed", n) \subseteq v.byID.landed
           P == {n \in 0..N : Good(f[n], n)}
<1>1. \A n \in 0..N : f[n] = IF n <= 0 THEN w ELSE seedWall(f[n - 1], n)
  BY InOneTurnIs
<1>2. N \in Nat
  OBVIOUS
<1> HIDE DEF f
<1>3. 0 \in P
  <2>1. f[0] = w /\ 0 \in 0..N
    BY <1>1, <1>2
  <2>2. NamedBy("requested", 0) = {} /\ NamedBy("executed", 0) = {}
    BY DEF NamedBy
  <2> QED BY <2>1, <2>2
<1>4. ASSUME NEW n \in 1..N, n - 1 \in P PROVE n \in P
  <2> DEFINE u == f[n - 1]
             v == seedWall(u, n)
  <2>1. f[n] = v /\ n \in 0..N
    BY <1>1, <1>2
  <2>2. Good(u, n - 1)
    BY <1>4
  <2> HIDE DEF u
  <2>3. WallFits(v, h) /\ Takes(u, v, n) /\ v.seq = u.seq /\ v.newest = u.newest
    BY <2>2, SeedIs
  <2> HIDE DEF v
  <2>4. \A kind \in {"requested", "executed"} :
          /\ NamedBy(kind, n) = NamedBy(kind, n - 1) \cup NewOf(kind, wallTimeline[n])
          /\ NamedBy(kind, n) \subseteq NamedBy(kind, N)
    BY <1>2, NamedByIs, NamedByGrows
  <2>5. MemoWithin(v.byID, N)
    BY <2>2, <2>3, <2>4 DEF MemoWithin, Takes
  <2>6. ~v.forgot => /\ ~w.forgot
                     /\ NamedBy("requested", n) \subseteq v.byID.titled
                     /\ NamedBy("executed", n) \subseteq v.byID.landed
    BY <2>2, <2>3, <2>4 DEF Takes
  <2> QED BY <2>1, <2>2, <2>3, <2>5, <2>6
<1>5. 0..N \subseteq P
  <2> HIDE DEF P
  <2> QED BY <1>2, <1>3, <1>4, UpTo
<1>6. Good(f[N], N)
  BY <1>2, <1>5
<1>7. ~f[N].forgot => MemoIs(f[N].byID, N)
  BY <1>6 DEF MemoIs, MemoWithin
<1> QED BY <1>6, <1>7 DEF f

-----------------------------------------------------------------------------
(* The steps of the wall, part by part of its invariant.                    *)

(* A longer timeline has the same events at the same places.                *)
LEMMA PostedIs ==
  ASSUME NEW e \in WallEvent, wallTimeline \in Seq(WallEvent), PostWall(e)
  PROVE  /\ wallTimeline' \in Seq(WallEvent) /\ Len(wallTimeline') = Len(wallTimeline) + 1
         /\ Len(wallTimeline) \in Nat /\ wallTimeline'[Len(wallTimeline) + 1] = e
         /\ DOMAIN wallTimeline = 1..Len(wallTimeline)
         /\ DOMAIN wallTimeline' = 1..Len(wallTimeline')
         /\ \A i \in 1..Len(wallTimeline) : wallTimeline'[i] = wallTimeline[i]
         /\ \A K : Where(wallTimeline, K) \subseteq Where(wallTimeline', K)
<1>1. wallTimeline' = Append(wallTimeline, e)
  BY DEF PostWall
<1>2. /\ wallTimeline' \in Seq(WallEvent) /\ Len(wallTimeline') = Len(wallTimeline) + 1
      /\ Len(wallTimeline) \in Nat /\ wallTimeline'[Len(wallTimeline) + 1] = e
      /\ DOMAIN wallTimeline = 1..Len(wallTimeline)
      /\ DOMAIN wallTimeline' = 1..Len(wallTimeline')
      /\ \A i \in 1..Len(wallTimeline) : wallTimeline'[i] = wallTimeline[i]
  BY <1>1, AppendProperties
<1>3. \A i \in DOMAIN wallTimeline : i \in DOMAIN wallTimeline'
  BY <1>2
<1> QED BY <1>2, <1>3 DEF Where

(* Every step keeps the types and the bounds of the wall. *)
LEMMA StepWallShape ==
  ASSUME WallAssumption, WallShape, MemoInv, NextWall
  PROVE  WallShape'
<1> DEFINE N == Len(wallTimeline)
<1>1. /\ wallTimeline \in Seq(WallEvent) /\ wallHeard \in 0..N /\ WallFits(wall, wallHeard)
      /\ seed \in {"read", "done", "failed"} /\ N \in Nat
      /\ pane \in [seen : 0..N, asking : BOOLEAN, drawn : 0..N]
      /\ wallLosses \in Nat /\ restarts \in Nat /\ wallLosses + restarts <= MaxTroubles
      /\ wallMissed \in SUBSET (1..wallHeard) /\ MaxTroubles \in Nat
  BY WallAssumption DEF WallShape
<1>2. \A n, m \in Nat : n <= m /\ WallFits(wall, n) => WallFits(wall, m)
  BY DEF WallFits, Walls
<1>3. CASE HearWall
  <2> DEFINE n == wallHeard + 1
  <2>1. n \in 1..N /\ n - 1 = wallHeard /\ wallHeard' = n /\ wall' = noteWall(wall, n)
        /\ UNCHANGED <<wallTimeline, seed, pane, wallLosses, restarts, wallMissed>>
    BY <1>1, <1>3 DEF HearWall
  <2>2. WallFits(noteWall(wall, n), n)
    BY <1>1, <2>1, NoteIs
  <2> HIDE DEF n
  <2>3. WallFits(wall, wallHeard)'
    BY <2>1, <2>2 DEF WallFits, Where
  <2> QED BY <1>1, <2>1, <2>3 DEF WallShape
<1>4. CASE LoseWall
  <2>1. /\ wallHeard' = wallHeard + 1 /\ wallHeard < N /\ wallLosses' = wallLosses + 1
        /\ wallLosses + restarts < MaxTroubles /\ wallMissed' = wallMissed \cup {wallHeard + 1}
        /\ UNCHANGED <<wallTimeline, wall, seed, pane, restarts>>
    BY <1>4 DEF LoseWall, Trouble
  <2>2. WallFits(wall, wallHeard')
    BY <1>1, <1>2, <2>1
  <2>3. WallFits(wall, wallHeard)'
    BY <2>1, <2>2 DEF WallFits, Where
  <2> QED BY <1>1, <2>1, <2>3 DEF WallShape
<1>5. CASE SeedLands
  <2>1. UNCHANGED <<wallTimeline, wallHeard, pane, restarts, wallMissed>>
        /\ seed' \in {"read", "done", "failed"}
    BY <1>5 DEF SeedLands
  <2>2. wallLosses' \in Nat /\ wallLosses' + restarts <= MaxTroubles
    BY <1>1, <1>5 DEF SeedLands, Trouble
  <2>3. WallFits(wall', wallHeard)
    <3>1. CASE wall' = wall
      BY <1>1, <3>1
    <3>2. CASE wall' # wall
      <4> DEFINE v == InOneTurn(wall, 0, "seed")[Len(wallTimeline)]
      <4>1. wall' = [v EXCEPT !.seeded = TRUE]
        BY <1>5, <3>2 DEF SeedLands
      <4>2. WallFits(v, wallHeard)
        BY <1>1, SeedLeaves DEF MemoInv
      <4> HIDE DEF v
      <4> QED BY <4>1, <4>2 DEF WallFits, Walls
    <3> QED BY <3>1, <3>2
  <2>4. WallFits(wall, wallHeard)'
    BY <2>1, <2>3 DEF WallFits, Where
  <2> QED BY <1>1, <2>1, <2>2, <2>4 DEF WallShape
<1>6. CASE RestartWall
  <2>1. /\ wallHeard' = N /\ seed' = "read" /\ restarts' = restarts + 1
        /\ wallLosses + restarts < MaxTroubles /\ UNCHANGED <<wallTimeline, pane, wallLosses>>
    BY <1>6 DEF RestartWall, Trouble
  <2>2. wallMissed' \in SUBSET (1..N)
    <3>1. wallMissed' \subseteq wallMissed \cup (wallHeard + 1)..N
      BY <1>6 DEF RestartWall
    <3>2. 1..wallHeard \subseteq 1..N /\ (wallHeard + 1)..N \subseteq 1..N
      BY <1>1
    <3> HIDE DEF N
    <3> QED BY <1>1, <3>1, <3>2
  <2>3. WallFits(wall', N)
    <3>1. CASE wall' = NoWall
      <4>1. <<>> \in Seq(Widget) /\ <<>> \in Seq(Nat) /\ Len(<<>>) = 0 /\ Range(<<>>) = {}
        BY DEF Range
      <4>2. NoWall \in Walls /\ MemoFits(NoMemo)
        BY <4>1, WallAssumption DEF NoWall, Walls, NoMemo, Memos, NoWidget, MemoFits
      <4>3. NoWall.seq = 0 /\ NoWall.newest.seq = 0 /\ NoWall.byID = NoMemo /\ NoWall.bySeq = <<>>
        BY DEF NoWall, NoWidget
      <4> QED BY <1>1, <3>1, <4>1, <4>2, <4>3, WallAssumption DEF WallFits
    <3>2. CASE wall' # NoWall
      <4>1. PICK after \in 0..wallHeard : wall' = InOneTurn(NoWall, after, "note")[N]
        BY <1>6, <3>2 DEF RestartWall
      <4>2. after \in 0..N
        BY <1>1
      <4> QED BY <1>1, <4>1, <4>2, RestartNotes
    <3> QED BY <3>1, <3>2
  <2>4. WallFits(wall, wallHeard)'
    BY <2>1, <2>3 DEF WallFits, Where
  <2> QED BY <1>1, <2>1, <2>2, <2>4 DEF WallShape
<1>7. CASE AskPane
  <2>1. /\ pane' = [pane EXCEPT !.seen = wall.seq, !.asking = TRUE]
        /\ UNCHANGED <<wallTimeline, wallHeard, wall, seed, wallLosses, restarts, wallMissed>>
    BY <1>7 DEF AskPane
  <2>2. wall.seq \in 0..N
    BY <1>1 DEF WallFits, Walls
  <2>3. pane' \in [seen : 0..N, asking : BOOLEAN, drawn : 0..N]
    BY <1>1, <2>1, <2>2
  <2>4. WallFits(wall, wallHeard)'
    BY <1>1, <2>1 DEF WallFits, Where
  <2> QED BY <1>1, <2>1, <2>3, <2>4 DEF WallShape
<1>8. CASE DrawPane
  <2>1. /\ pane' = [pane EXCEPT !.asking = FALSE, !.drawn = N]
        /\ UNCHANGED <<wallTimeline, wallHeard, wall, seed, wallLosses, restarts, wallMissed>>
    BY <1>8 DEF DrawPane
  <2>2. pane' \in [seen : 0..N, asking : BOOLEAN, drawn : 0..N]
    <3>1. N \in 0..N
      BY <1>1
    <3> HIDE DEF N
    <3> QED BY <1>1, <2>1, <3>1
  <2>3. WallFits(wall, wallHeard)'
    BY <1>1, <2>1 DEF WallFits, Where
  <2> QED BY <1>1, <2>1, <2>2, <2>3 DEF WallShape
<1>9. ASSUME NEW e \in WallEvent, PostWall(e) PROVE WallShape'
  <2>1. UNCHANGED <<wallHeard, wall, seed, pane, wallLosses, restarts, wallMissed>>
    BY <1>9 DEF PostWall
  <2>2. /\ wallTimeline' \in Seq(WallEvent) /\ Len(wallTimeline') = N + 1
        /\ Where(wallTimeline, {"edge"}) \subseteq Where(wallTimeline', {"edge"})
    BY <1>1, <1>9, PostedIs
  <2>3. WallFits(wall, wallHeard)'
    BY <1>1, <2>1, <2>2 DEF WallFits
  <2>4. pane \in [seen : 0..(N + 1), asking : BOOLEAN, drawn : 0..(N + 1)]
    BY <1>1
  <2> QED BY <1>1, <2>1, <2>2, <2>3, <2>4 DEF WallShape
<1> QED BY <1>3, <1>4, <1>5, <1>6, <1>7, <1>8, <1>9 DEF NextWall

(* A pin comes after its version. *)
LEMMA StepPinsFollow ==
  ASSUME wallTimeline \in Seq(WallEvent), PinsFollow, NextWall
  PROVE  PinsFollow'
<1>1. CASE UNCHANGED wallTimeline
  BY <1>1 DEF PinsFollow, Where
<1>2. ASSUME NEW e \in WallEvent, PostWall(e) PROVE PinsFollow'
  <2> DEFINE N == Len(wallTimeline)
  <2>1. /\ Len(wallTimeline') = N + 1 /\ N \in Nat /\ wallTimeline'[N + 1] = e
        /\ DOMAIN wallTimeline = 1..N /\ DOMAIN wallTimeline' = 1..(N + 1)
        /\ \A i \in 1..N : wallTimeline'[i] = wallTimeline[i]
        /\ Where(wallTimeline, {"edge"}) \subseteq Where(wallTimeline', {"edge"})
    BY <1>2, PostedIs
  <2>2. e.kind \in {"pinned", "unpinned"} => e.src \in Where(wallTimeline, {"edge"})
    BY <1>2 DEF PostWall
  <2> HIDE DEF N
  <2>3. \A i \in 1..(N + 1) : i \in 1..N \/ i = N + 1
    BY <2>1
  <2> QED BY <2>1, <2>2, <2>3 DEF PinsFollow
<1> QED BY <1>1, <1>2 DEF NextWall, HearWall, LoseWall, SeedLands, RestartWall, AskPane, DrawPane

(* What an event that was posted names, it names at its place. *)
LEMMA NamedByAsBefore ==
  ASSUME NEW e \in WallEvent, wallTimeline \in Seq(WallEvent), PostWall(e), NEW kind,
         NEW n \in 0..Len(wallTimeline)
  PROVE  NamedBy(kind, n)' = NamedBy(kind, n)
<1>1. \A i \in 1..n : wallTimeline'[i] = wallTimeline[i]
  BY PostedIs
<1> QED BY <1>1, Zenon DEF NamedBy

(* Every step keeps the memory to what the timeline says. *)
LEMMA StepMemoInv ==
  ASSUME WallAssumption, WallShape, MemoInv, NextWall
  PROVE  MemoInv'
<1> DEFINE N == Len(wallTimeline)
<1>1. /\ wallTimeline \in Seq(WallEvent) /\ wallHeard \in 0..N /\ WallFits(wall, wallHeard) /\ N \in Nat
  BY DEF WallShape
<1>2. CASE HearWall
  <2> DEFINE n == wallHeard + 1
  <2>1. n \in 1..N /\ n - 1 = wallHeard /\ wallHeard' = n /\ wall' = noteWall(wall, n)
        /\ UNCHANGED <<wallTimeline, wallMissed>>
    BY <1>1, <1>2 DEF HearWall
  <2>2. Takes(wall, wall', n)
    BY <1>1, <2>1, NoteIs
  <2>3. \A kind \in {"requested", "executed"} : \A m \in 1..N :
          NamedBy(kind, m) = NamedBy(kind, m - 1) \cup NewOf(kind, wallTimeline[m])
    BY <1>1, NamedByIs
  <2>4. \A kind \in {"requested", "executed"} : \A m \in 0..N :
          /\ NamedBy(kind, m)' = NamedBy(kind, m)
          /\ m >= n => NamedBy(kind, n) \subseteq NamedBy(kind, m)
    BY <2>1, <1>1, NamedByGrows DEF NamedBy
  <2> HIDE DEF n
  <2>5. MemoWithin(wall'.byID, N)
    BY <1>1, <2>1, <2>2, <2>3, <2>4 DEF MemoWithin, MemoInv, Takes
  <2>6. ASSUME wall'.seeded, ~wall'.forgot, wallMissed = {}
        PROVE  \E m \in n..N : MemoIs(wall'.byID, m)
    <3>1. wall.seeded /\ ~wall.forgot
          /\ wall'.byID.titled = wall.byID.titled \cup NewOf("requested", wallTimeline[n])
          /\ wall'.byID.landed = wall.byID.landed \cup NewOf("executed", wallTimeline[n])
      BY <2>2, <2>6 DEF Takes
    <3>2. PICK m \in wallHeard..N : MemoIs(wall.byID, m)
      BY <2>6, <3>1 DEF MemoInv
    <3>3. CASE m = wallHeard
      <4>1. MemoIs(wall'.byID, n)
        BY <2>1, <2>3, <3>1, <3>2, <3>3 DEF MemoIs
      <4> QED BY <1>1, <2>1, <4>1
    <3>4. CASE m # wallHeard
      <4>1. m \in n..N /\ m \in 0..N /\ m >= n
        BY <1>1, <2>1, <3>4
      <4>2. MemoIs(wall'.byID, m)
        BY <2>1, <2>3, <2>4, <3>1, <3>2, <4>1 DEF MemoIs
      <4> QED BY <4>1, <4>2
    <3> QED BY <3>3, <3>4
  <2>7. MemoWithin(wall.byID, N)'
    BY <1>1, <2>1, <2>4, <2>5 DEF MemoWithin
  <2>8. \A m \in 0..N : MemoIs(wall.byID, m)' <=> MemoIs(wall'.byID, m)
    BY <2>4 DEF MemoIs
  <2>9. n..N \subseteq 0..N
    BY <1>1, <2>1
  <2> QED BY <2>1, <2>6, <2>7, <2>8, <2>9 DEF MemoInv
<1>3. ASSUME wallTimeline' = wallTimeline, wall' = wall, wallHeard' = wallHeard, wallMissed' = wallMissed
      PROVE  MemoInv'
  BY <1>3 DEF MemoInv, MemoWithin, MemoIs, NamedBy
<1>4. CASE LoseWall
  <2>1. UNCHANGED <<wallTimeline, wall>> /\ wallMissed' # {}
    BY <1>4 DEF LoseWall
  <2> QED BY <2>1 DEF MemoInv, MemoWithin, NamedBy
<1>5. CASE SeedLands
  <2>1. UNCHANGED <<wallTimeline, wallHeard, wallMissed>>
    BY <1>5 DEF SeedLands
  <2>2. CASE wall' = wall
    BY <1>3, <2>1, <2>2
  <2>3. CASE wall' # wall
    <3> DEFINE v == InOneTurn(wall, 0, "seed")[Len(wallTimeline)]
    <3>1. wall' = [v EXCEPT !.seeded = TRUE]
      BY <1>5, <2>3 DEF SeedLands
    <3>2. WallFits(v, wallHeard) /\ MemoWithin(v.byID, N) /\ (~v.forgot => MemoIs(v.byID, N))
      BY <1>1, SeedLeaves DEF MemoInv
    <3> HIDE DEF v
    <3>3. wall'.byID = v.byID /\ wall'.forgot = v.forgot
      BY <3>1, <3>2 DEF WallFits, Walls
    <3>4. MemoWithin(wall.byID, N)' /\ (~wall'.forgot => MemoIs(wall.byID, N)')
      BY <2>1, <3>2, <3>3 DEF MemoWithin, MemoIs, NamedBy
    <3>5. N \in wallHeard..N
      BY <1>1
    <3> QED BY <2>1, <3>4, <3>5 DEF MemoInv
  <2> QED BY <2>2, <2>3
<1>6. CASE RestartWall
  <2>1. UNCHANGED wallTimeline
    BY <1>6 DEF RestartWall
  <2>2. MemoWithin(wall'.byID, N) /\ ~wall'.seeded
    <3>1. CASE wall' = NoWall
      BY <3>1 DEF NoWall, NoMemo, MemoWithin
    <3>2. CASE wall' # NoWall
      <4>1. PICK after \in 0..wallHeard : wall' = InOneTurn(NoWall, after, "note")[N]
        BY <1>6, <3>2 DEF RestartWall
      <4>2. after \in 0..N
        BY <1>1
      <4> QED BY <1>1, <4>1, <4>2, RestartNotes
    <3> QED BY <3>1, <3>2
  <2> QED BY <2>1, <2>2 DEF MemoInv, MemoWithin, NamedBy
<1>7. ASSUME NEW e \in WallEvent, PostWall(e) PROVE MemoInv'
  <2>1. UNCHANGED <<wallHeard, wall, wallMissed>>
    BY <1>7 DEF PostWall
  <2>2. PICK L \in Nat : L = N
    BY <1>1
  <2>3. Len(wallTimeline') = L + 1 /\ wallHeard \in 0..L
    BY <1>1, <1>7, <2>2, PostedIs
  <2>4. \A kind : \A n \in 0..L : NamedBy(kind, n)' = NamedBy(kind, n)
    BY <1>1, <1>7, <2>2, NamedByAsBefore
  <2>5. \A kind : NamedBy(kind, L)' \subseteq NamedBy(kind, L + 1)'
    <3>1. 1..L \subseteq 1..(L + 1)
      OBVIOUS
    <3> QED BY <3>1, Zenon DEF NamedBy
  <2>6. MemoWithin(wall.byID, L + 1)'
    <3>1. MemoWithin(wall.byID, L) /\ L \in 0..L
      BY <2>2 DEF MemoInv
    <3>2. NamedBy("requested", L) \subseteq NamedBy("requested", L + 1)'
          /\ NamedBy("executed", L) \subseteq NamedBy("executed", L + 1)'
      BY <2>4, <2>5, <3>1, Zenon
    <3> QED BY <2>1, <3>1, <3>2 DEF MemoWithin
  <2>7. \A n \in wallHeard..L : MemoIs(wall.byID, n) => MemoIs(wall.byID, n)'
    <3>1. wallHeard..L \subseteq 0..L
      BY <2>3
    <3> QED BY <2>1, <2>4, <3>1 DEF MemoIs
  <2>8. wallHeard..L \subseteq wallHeard..(L + 1)
    BY <2>3
  <2>9. ASSUME wall.seeded, ~wall.forgot, wallMissed = {}
        PROVE  \E n \in wallHeard..(L + 1) : MemoIs(wall.byID, n)'
    <3>1. PICK n \in wallHeard..L : MemoIs(wall.byID, n)
      BY <2>2, <2>9 DEF MemoInv
    <3> QED BY <2>7, <2>8, <3>1, Zenon
  <2>10. MemoWithin(wall.byID, Len(wallTimeline))'
    BY <2>3, <2>6 DEF MemoWithin
  <2> QED BY <2>1, <2>3, <2>9, <2>10 DEF MemoInv
<1>8. CASE AskPane
  BY <1>3, <1>8 DEF AskPane
<1>9. CASE DrawPane
  BY <1>3, <1>9 DEF DrawPane
<1> QED BY <1>2, <1>4, <1>5, <1>6, <1>7, <1>8, <1>9 DEF NextWall

(* The earliest and the latest of some events. *)
LEMMA EarliestIs ==
  ASSUME NEW n \in Nat, NEW S \in SUBSET (1..n)
  PROVE  /\ S = {} => Earliest(S) = 0
         /\ S # {} => Earliest(S) \in S /\ \A y \in S : Earliest(S) <= y
         /\ Earliest(S) \in 0..n
         /\ \A x \in S : (\A y \in S : x <= y) => Earliest(S) = x
<1>1. CASE S = {}
  BY <1>1 DEF Earliest
<1>2. CASE S # {}
  <2>1. S \in SUBSET Nat
    OBVIOUS
  <2>2. Min(S) \in S /\ \A y \in S : Min(S) <= y
    BY <1>2, <2>1, HasLeast, Zenon DEF Min
  <2>3. Earliest(S) = Min(S)
    BY <1>2 DEF Earliest
  <2>4. \A x \in S : x \in Nat /\ x \in 0..n
    OBVIOUS
  <2>5. ASSUME NEW x \in S, \A y \in S : x <= y PROVE Min(S) = x
    <3>1. x <= Min(S) /\ Min(S) <= x /\ x \in Nat /\ Min(S) \in Nat
      BY <2>2, <2>4, <2>5
    <3> QED BY <3>1
  <2> QED BY <1>2, <2>2, <2>3, <2>4, <2>5
<1> QED BY <1>1, <1>2

(* A member is the earliest exactly when no other is before it. *)
LEMMA EarliestIff ==
  ASSUME NEW n \in Nat, NEW S \in SUBSET (1..n), NEW x \in S
  PROVE  x = Earliest(S) <=> \A y \in S : x <= y
BY EarliestIs

(* Whether a member is the earliest is settled by those up to any bound past it. *)
LEMMA EarliestWithin ==
  ASSUME NEW n \in Nat, NEW k \in 0..n, NEW S \in SUBSET (1..n), NEW x \in S, x <= k
  PROVE  x = Earliest(S \cap 1..k) <=> x = Earliest(S)
<1> DEFINE T == S \cap 1..k
<1>1. k \in Nat /\ T \in SUBSET (1..k) /\ x \in T
  OBVIOUS
<1>2. x = Earliest(S) <=> \A y \in S : x <= y
  BY <1>1, EarliestIff
<1>4. \A y \in S \ T : x <= y
  OBVIOUS
<1>6. T \subseteq S
  OBVIOUS
<1> HIDE DEF T
<1>3. x = Earliest(T) <=> \A y \in T : x <= y
  BY <1>1, EarliestIff
<1>5. (\A y \in T : x <= y) <=> \A y \in S : x <= y
  BY <1>4, <1>6
<1> QED BY <1>2, <1>3, <1>5 DEF T

(* The latest of a set of places, and 0 when there is none. *)
LEMMA LatestIs ==
  ASSUME NEW n \in Nat, NEW S \in SUBSET (1..n)
  PROVE  /\ S = {} => Latest(S) = 0
         /\ S # {} => Latest(S) \in S /\ \A y \in S : y <= Latest(S)
         /\ Latest(S) \in 0..n
<1>1. CASE S = {}
  BY <1>1 DEF Latest
<1>2. CASE S # {}
  <2>1. Max(S) \in S /\ \A y \in S : y <= Max(S)
    <3>1. S \in SUBSET (0..n)
      OBVIOUS
    <3> QED BY <1>2, <3>1, MaxIs, Zenon
  <2>2. Latest(S) = Max(S)
    BY <1>2 DEF Latest
  <2>3. \A x \in S : x \in 0..n
    OBVIOUS
  <2> QED BY <1>2, <2>1, <2>2, <2>3
<1> QED BY <1>1, <1>2

(* The first execution of a widget is the first event of that kind.         *)
LEMMA LandedIs ==
  ASSUME NEW tl \in Seq(WallEvent), NEW n \in 1..Len(tl), tl[n].kind = "executed"
  PROVE  LandedSeq(tl, tl[n].id) = n <=>
           ~\E i \in 1..(n - 1) : tl[i].kind = "executed" /\ tl[i].id = tl[n].id
<1> DEFINE S == OfWidget(tl, {"executed"}, tl[n].id)
<1>1. Len(tl) \in Nat /\ DOMAIN tl = 1..Len(tl)
  OBVIOUS
<1>2. \A i : i \in S <=> i \in 1..Len(tl) /\ tl[i].kind = "executed" /\ tl[i].id = tl[n].id
  BY <1>1 DEF OfWidget, Where
<1> HIDE DEF S
<1>3. S \in SUBSET (1..Len(tl)) /\ n \in S
  BY <1>2
<1>4. /\ Earliest(S) \in S /\ \A y \in S : Earliest(S) <= y
      /\ (\A y \in S : n <= y) => Earliest(S) = n
  BY <1>1, <1>3, EarliestIs
<1>5. (\A y \in S : n <= y) <=> ~\E i \in 1..(n - 1) : tl[i].kind = "executed" /\ tl[i].id = tl[n].id
  <2>1. \A i \in 1..(n - 1) : i \in 1..Len(tl) /\ ~(n <= i)
    BY <1>1
  <2>2. \A i \in 1..Len(tl) : ~(n <= i) => i \in 1..(n - 1)
    BY <1>1
  <2> QED BY <1>2, <2>1, <2>2
<1>6. LandedSeq(tl, tl[n].id) = Earliest(S)
  BY DEF LandedSeq, S
<1> QED BY <1>4, <1>5, <1>6

(* What NewestIsNew says of an event, by what the events before it name.    *)
IsNews(n, titled) ==
  LET e == wallTimeline[n]
  IN  e.kind = "executed" =>
        e.id \notin NamedBy("executed", n - 1) /\ titled = (e.id \in NamedBy("requested", n - 1))

(* Being news is what NewestIsNew says of the newest widget. *)
LEMMA NewsIs ==
  ASSUME wallTimeline \in Seq(WallEvent), NEW n \in 1..Len(wallTimeline), NEW titled
  PROVE  LET e == wallTimeline[n]
         IN  IsNews(n, titled) <=>
               (e.kind = "executed" =>
                 /\ LandedSeq(wallTimeline, e.id) = n
                 /\ titled = \E i \in OfWidget(wallTimeline, {"requested"}, e.id) : i < n)
<1> DEFINE e == wallTimeline[n]
<1>1. CASE e.kind = "executed"
  <2>1. e \in WallEvent /\ n \in Nat /\ Len(wallTimeline) \in Nat
    OBVIOUS
  <2>2. e.id \in Widget
    BY <1>1, <2>1, EventIs DEF Built
  <2>3. LandedSeq(wallTimeline, e.id) = n <=> e.id \notin NamedBy("executed", n - 1)
    BY <1>1, <2>2, LandedIs DEF NamedBy
  <2>4. (\E i \in OfWidget(wallTimeline, {"requested"}, e.id) : i < n)
          <=> e.id \in NamedBy("requested", n - 1)
    <3>1. \A i : i \in OfWidget(wallTimeline, {"requested"}, e.id) /\ i < n
             <=> i \in 1..(n - 1) /\ wallTimeline[i].kind = "requested" /\ wallTimeline[i].id = e.id
      BY <2>1 DEF OfWidget, Where
    <3> HIDE DEF e
    <3> QED BY <2>2, <3>1, Zenon DEF NamedBy
  <2> DEFINE q == \E i \in OfWidget(wallTimeline, {"requested"}, e.id) : i < n
             r == e.id \in NamedBy("requested", n - 1)
  <2>6. IsNews(n, titled) <=> e.id \notin NamedBy("executed", n - 1) /\ titled = r
    BY <1>1, Zenon DEF IsNews
  <2>7. q = r
    <3>1. q <=> r
      BY <2>4
    <3>2. q \in BOOLEAN
      OBVIOUS
    <3>3. r \in BOOLEAN
      OBVIOUS
    <3> HIDE DEF q, r
    <3> QED BY <3>1, <3>2, <3>3
  <2> HIDE DEF q, r, e
  <2>8. IsNews(n, titled) <=>
          (e.kind = "executed" => LandedSeq(wallTimeline, e.id) = n /\ titled = q)
    BY <1>1, <2>3, <2>6, <2>7, Zenon
  <2> QED BY <2>8, Zenon DEF e, q
<1>2. CASE e.kind # "executed"
  BY <1>2 DEF IsNews
<1> QED BY <1>1, <1>2

(* NewestIsNew, in terms of the widgets that are named before. *)
NewestNamed ==
  wall.newest.seq > 0 /\ ~wall.newest.early /\ ~wall.forgot /\ wallMissed = {} =>
    IsNews(wall.newest.seq, wall.newest.titled)

(* ... and it says the same as the property. *)
LEMMA NewestNamedIs == WallShape => (NewestIsNew <=> NewestNamed)
<1> SUFFICES ASSUME WallShape PROVE NewestIsNew <=> NewestNamed
  OBVIOUS
<1>1. /\ wallTimeline \in Seq(WallEvent) /\ wall.newest.seq \in Nat
      /\ wall.newest.seq <= wallHeard /\ wallHeard \in 0..Len(wallTimeline)
  BY DEF WallShape, WallFits, Walls
<1>2. CASE wall.newest.seq > 0
  <2>1. wall.newest.seq \in 1..Len(wallTimeline)
    BY <1>1, <1>2
  <2>2. LET e == wallTimeline[wall.newest.seq]
        IN  IsNews(wall.newest.seq, wall.newest.titled) <=>
              (e.kind = "executed" =>
                /\ LandedSeq(wallTimeline, e.id) = wall.newest.seq
                /\ wall.newest.titled =
                     \E i \in OfWidget(wallTimeline, {"requested"}, e.id) : i < wall.newest.seq)
    BY <1>1, <2>1, NewsIs
  <2> QED BY <2>2, Zenon DEF NewestIsNew, NewestNamed
<1>3. CASE ~(wall.newest.seq > 0)
  BY <1>3, Zenon DEF NewestIsNew, NewestNamed
<1> QED BY <1>2, <1>3

(* A widget that is named as the newest was not remembered as landed, and   *)
(* what is remembered is then all that came before.                         *)
LEMMA StepNewestNamed ==
  ASSUME WallAssumption, WallShape, MemoInv, NewestNamed, NextWall
  PROVE  NewestNamed'
<1> DEFINE N == Len(wallTimeline)
<1>1. /\ wallTimeline \in Seq(WallEvent) /\ wallHeard \in 0..N /\ WallFits(wall, wallHeard) /\ N \in Nat
      /\ wall.newest.seq \in Nat /\ wall.newest.seq <= wallHeard
  BY DEF WallShape, WallFits, Walls
<1>2. ASSUME wallTimeline' = wallTimeline, wall'.newest = wall.newest, wall.forgot => wall'.forgot,
             wallMissed \subseteq wallMissed'
      PROVE  NewestNamed'
  BY <1>2 DEF NewestNamed, IsNews, NamedBy
<1>3. CASE HearWall
  <2> DEFINE n == wallHeard + 1
             e == wallTimeline[n]
  <2>1. n \in 1..N /\ n - 1 = wallHeard /\ wallHeard' = n /\ wall' = noteWall(wall, n)
        /\ UNCHANGED <<wallTimeline, wallMissed>>
    BY <1>1, <1>3 DEF HearWall
  <2>2. Takes(wall, wall', n)
    BY <1>1, <2>1, NoteIs
  <2>3. \/ wall'.newest = wall.newest
        \/ /\ wall'.newest.seq = n /\ wall'.newest.early = ~wall.seeded
           /\ e.kind = "executed" =>
                /\ e.id \notin wall.byID.landed
                /\ wall'.newest.titled = (e.id \in Noted(wall.byID, e).titled)
    BY <1>1, <2>1, NoteIs
  <2>4. CASE wall'.newest = wall.newest
    BY <1>2, <2>1, <2>2, <2>4 DEF Takes
  <2>5. CASE wall'.newest # wall.newest
    <3>1. SUFFICES ASSUME ~wall'.newest.early, ~wall'.forgot, wallMissed' = {}, e.kind = "executed"
                   PROVE  IsNews(n, wall'.newest.titled)
      <4>1. IsNews(n, wall'.newest.titled) => IsNews(wall.newest.seq, wall.newest.titled)'
        <5>1. wallTimeline' = wallTimeline /\ wall'.newest.seq = n
          BY <2>1, <2>3, <2>5
        <5>2. \A kind, m : NamedBy(kind, m)' = NamedBy(kind, m)
          BY <5>1 DEF NamedBy
        <5> HIDE DEF n, e
        <5> QED BY <5>1, <5>2, Zenon DEF IsNews
      <4>2. e.kind # "executed" => IsNews(n, wall'.newest.titled)
        BY DEF IsNews
      <4> HIDE DEF n, e
      <4> QED BY <2>3, <2>5, <3>1, <4>1, <4>2, Zenon DEF NewestNamed
    <3>2. wall.seeded /\ ~wall.forgot /\ wallMissed = {}
      BY <2>1, <2>2, <2>3, <2>5, <3>1 DEF Takes
    <3>3. PICK m \in wallHeard..N : MemoIs(wall.byID, m)
      BY <3>2 DEF MemoInv
    <3>4. e.id \notin NamedBy("executed", m)
      BY <2>3, <2>5, <3>1, <3>3 DEF MemoIs
    <3>5. e \in WallEvent /\ e.id \in Widget
      <4>1. e \in WallEvent
        BY <1>1, <2>1
      <4> QED BY <4>1, <3>1, EventIs DEF Built
    <3>6. m = wallHeard
      <4>1. SUFFICES ASSUME m # wallHeard PROVE e.id \in NamedBy("executed", m)
        BY <3>4
      <4>2. n \in 1..m
        BY <1>1, <3>3, <4>1
      <4> HIDE DEF n
      <4> QED BY <3>1, <3>5, <4>2 DEF NamedBy
    <3>7. wall'.newest.titled = (e.id \in NamedBy("requested", wallHeard))
      <4>1. Noted(wall.byID, e).titled = wall'.byID.titled
        BY <2>1, <3>1 DEF noteWall, Built
      <4>2. wall'.byID.titled = wall.byID.titled
        BY <2>2, <3>1 DEF Takes, NewOf
      <4> QED BY <2>3, <2>5, <3>1, <3>3, <3>6, <4>1, <4>2 DEF MemoIs
    <3> QED BY <2>1, <3>4, <3>6, <3>7 DEF IsNews
  <2> QED BY <2>4, <2>5
<1>4. CASE LoseWall
  BY <1>2, <1>4 DEF LoseWall
<1>5. CASE SeedLands
  <2>1. UNCHANGED <<wallTimeline, wallMissed>>
    BY <1>5 DEF SeedLands
  <2>2. CASE wall' = wall
    BY <1>2, <2>1, <2>2
  <2>3. CASE wall' # wall
    <3> DEFINE v == InOneTurn(wall, 0, "seed")[Len(wallTimeline)]
    <3>1. wall' = [v EXCEPT !.seeded = TRUE]
      BY <1>5, <2>3 DEF SeedLands
    <3>2. WallFits(v, wallHeard) /\ v.newest = wall.newest /\ (~v.forgot => ~wall.forgot)
      BY <1>1, SeedLeaves DEF MemoInv
    <3> HIDE DEF v
    <3>3. wall'.newest = v.newest /\ wall'.forgot = v.forgot
      BY <3>1, <3>2 DEF WallFits, Walls
    <3> QED BY <1>2, <2>1, <3>2, <3>3
  <2> QED BY <2>2, <2>3
<1>6. CASE RestartWall
  <2>1. wall'.newest.seq = 0 \/ wall'.newest.early
    <3>1. CASE wall' = NoWall
      BY <3>1 DEF NoWall, NoWidget
    <3>2. CASE wall' # NoWall
      <4>1. PICK after \in 0..wallHeard : wall' = InOneTurn(NoWall, after, "note")[N]
        BY <1>6, <3>2 DEF RestartWall
      <4>2. after \in 0..N
        BY <1>1
      <4> QED BY <1>1, <4>1, <4>2, RestartNotes
    <3> QED BY <3>1, <3>2
  <2> QED BY <2>1 DEF NewestNamed
<1>7. ASSUME NEW e \in WallEvent, PostWall(e) PROVE NewestNamed'
  <2>1. UNCHANGED <<wall, wallMissed>>
    BY <1>7 DEF PostWall
  <2>2. CASE wall.newest.seq > 0
    <3>1. PICK n \in 1..N : n = wall.newest.seq
      BY <1>1, <2>2
    <3>2. n - 1 \in 0..N /\ wallTimeline'[n] = wallTimeline[n]
      BY <1>1, <1>7, PostedIs
    <3>3. \A kind : NamedBy(kind, n - 1)' = NamedBy(kind, n - 1)
      BY <1>1, <1>7, <3>2, NamedByAsBefore
    <3>4. IsNews(n, wall.newest.titled)' <=> IsNews(n, wall.newest.titled)
      BY <2>1, <3>2, <3>3 DEF IsNews
    <3> QED BY <2>1, <3>1, <3>4 DEF NewestNamed
  <2>3. CASE ~(wall.newest.seq > 0)
    BY <2>1, <2>3 DEF NewestNamed
  <2> QED BY <2>2, <2>3
<1>8. CASE AskPane
  BY <1>2, <1>8 DEF AskPane
<1>9. CASE DrawPane
  BY <1>2, <1>9 DEF DrawPane
<1> QED BY <1>3, <1>4, <1>5, <1>6, <1>7, <1>8, <1>9 DEF NextWall

(* A pane is behind the number or has drawn what the number is of.          *)
LEMMA StepPaneInv ==
  ASSUME WallAssumption, WallShape, MemoInv, PaneInv, NextWall
  PROVE  PaneInv'
<1> DEFINE N == Len(wallTimeline)
<1>1. /\ wallTimeline \in Seq(WallEvent) /\ wallHeard \in 0..N /\ WallFits(wall, wallHeard) /\ N \in Nat
      /\ wall.seq \in Nat /\ wall.seq <= wallHeard /\ restarts \in Nat
      /\ pane \in [seen : 0..N, asking : BOOLEAN, drawn : 0..N]
  BY DEF WallShape, WallFits, Walls
<1>2. ASSUME wallTimeline' = wallTimeline, wall'.seq = wall.seq, wallHeard' = wallHeard,
             wallMissed' = wallMissed, restarts' = restarts, pane' = pane
      PROVE  PaneInv'
  BY <1>2 DEF PaneInv, Shapes
<1>3. CASE HearWall
  <2> DEFINE n == wallHeard + 1
             e == wallTimeline[n]
  <2>1. n \in 1..N /\ n - 1 = wallHeard /\ wallHeard' = n /\ wall' = noteWall(wall, n)
        /\ UNCHANGED <<wallTimeline, wallMissed, pane, restarts>>
    BY <1>1, <1>3 DEF HearWall
  <2>2. wall'.seq = IF IsWidgetShaping(e) THEN n ELSE wall.seq
    BY <1>1, <2>1, NoteIs
  <2>3. \A i \in Shapes(n) : i \in Nat /\ i <= n /\ (i \in Shapes(wallHeard) \/ (i = n /\ IsWidgetShaping(e)))
    BY <1>1 DEF Shapes
  <2>4. Shapes(wallHeard)' = Shapes(n)
    BY <2>1 DEF Shapes
  <2> HIDE DEF e
  <2>5. ASSUME wallMissed = {}, restarts = 0, NEW i \in Shapes(n)
        PROVE  i <= wall'.seq \/ pane.asking \/ i <= pane.drawn
    BY <1>1, <2>2, <2>3, <2>5 DEF PaneInv
  <2>6. ASSUME wallMissed = {}, restarts > 0, wall'.seq > 0, NEW i \in Shapes(n)
        PROVE  i <= wall'.seq
    BY <1>1, <2>2, <2>3, <2>6 DEF PaneInv
  <2> HIDE DEF n
  <2> QED BY <2>1, <2>4, <2>5, <2>6 DEF PaneInv
<1>4. CASE LoseWall
  <2>1. UNCHANGED pane /\ wallMissed' # {}
    BY <1>4 DEF LoseWall
  <2> QED BY <2>1 DEF PaneInv
<1>5. CASE SeedLands
  <2>1. UNCHANGED <<wallTimeline, wallHeard, pane, restarts, wallMissed>>
    BY <1>5 DEF SeedLands
  <2>2. CASE wall' = wall
    BY <1>2, <2>1, <2>2
  <2>3. CASE wall' # wall
    <3> DEFINE v == InOneTurn(wall, 0, "seed")[Len(wallTimeline)]
    <3>1. wall' = [v EXCEPT !.seeded = TRUE]
      BY <1>5, <2>3 DEF SeedLands
    <3>2. WallFits(v, wallHeard) /\ v.seq = wall.seq
      BY <1>1, SeedLeaves DEF MemoInv
    <3> HIDE DEF v
    <3>3. wall'.seq = v.seq
      BY <3>1, <3>2 DEF WallFits, Walls
    <3> QED BY <1>2, <2>1, <3>2, <3>3
  <2> QED BY <2>2, <2>3
<1>6. CASE RestartWall
  <2>1. UNCHANGED <<wallTimeline, pane>> /\ restarts' = restarts + 1 /\ wallHeard' = N
    BY <1>6 DEF RestartWall
  <2>2. wall'.seq # 0 => \A i \in Shapes(N) : i <= wall'.seq
    <3>1. CASE wall' = NoWall
      BY <3>1 DEF NoWall
    <3>2. CASE wall' # NoWall
      <4>1. PICK after \in 0..wallHeard : wall' = InOneTurn(NoWall, after, "note")[N]
        BY <1>6, <3>2 DEF RestartWall
      <4>2. after \in 0..N
        BY <1>1
      <4> QED BY <1>1, <4>1, <4>2, RestartNotes
    <3> QED BY <3>1, <3>2
  <2>3. Shapes(wallHeard)' = Shapes(N)
    BY <2>1 DEF Shapes
  <2>4. restarts' # 0
    BY <1>1, <2>1
  <2>5. wall'.seq > 0 => wall'.seq # 0
    OBVIOUS
  <2> HIDE DEF N
  <2> QED BY <2>1, <2>2, <2>3, <2>4, <2>5 DEF PaneInv
<1>7. ASSUME NEW e \in WallEvent, PostWall(e) PROVE PaneInv'
  <2>1. UNCHANGED <<wall, wallMissed, pane, restarts, wallHeard>>
    BY <1>7 DEF PostWall
  <2>2. \A i \in 1..wallHeard : wallTimeline'[i] = wallTimeline[i]
    BY <1>1, <1>7, PostedIs
  <2>3. Shapes(wallHeard)' = Shapes(wallHeard)
    BY <2>1, <2>2 DEF Shapes
  <2> QED BY <2>1, <2>3 DEF PaneInv
<1>8. CASE AskPane
  <2>1. /\ pane' = [pane EXCEPT !.seen = wall.seq, !.asking = TRUE]
        /\ UNCHANGED <<wallTimeline, wallHeard, wall, seed, wallLosses, restarts, wallMissed>>
    BY <1>8 DEF AskPane
  <2>2. pane'.asking
    BY <1>1, <2>1
  <2>3. Shapes(wallHeard)' = Shapes(wallHeard)
    BY <2>1 DEF Shapes
  <2> QED BY <2>1, <2>2, <2>3 DEF PaneInv
<1>9. CASE DrawPane
  <2>1. /\ pane' = [pane EXCEPT !.asking = FALSE, !.drawn = N]
        /\ UNCHANGED <<wallTimeline, wallHeard, wall, seed, wallLosses, restarts, wallMissed>>
    BY <1>9 DEF DrawPane
  <2>2. pane'.drawn = N /\ pane'.seen = pane.seen
    BY <1>1, <2>1
  <2>3. Shapes(wallHeard)' = Shapes(wallHeard)
    BY <2>1 DEF Shapes
  <2>4. \A i \in Shapes(wallHeard) : i <= N
    BY <1>1 DEF Shapes
  <2>5. pane.seen <= N
    BY <1>1
  <2> HIDE DEF N
  <2> QED BY <2>1, <2>2, <2>3, <2>4, <2>5 DEF PaneInv
<1> QED BY <1>3, <1>4, <1>5, <1>6, <1>7, <1>8, <1>9 DEF NextWall

(* The wall invariant holds of a daemon that has just come. *)
LEMMA InitWallInv == WallAssumption /\ InitWall => WallInv
<1> SUFFICES ASSUME WallAssumption, InitWall PROVE WallInv
  OBVIOUS
<1>1. PICK n \in 0..2 : wallTimeline \in [1..n -> [kind : Built, id : Widget]]
  BY DEF InitWall
<1>2. [kind : Built, id : Widget] \subseteq WallEvent
  BY DEF WallEvent
<1>3. wallTimeline \in [1..n -> WallEvent] /\ n \in Nat
  BY <1>1, <1>2
<1>4. wallTimeline \in Seq(WallEvent) /\ Len(wallTimeline) \in Nat
  BY <1>3, SeqDef
<1>5. /\ wallHeard = Len(wallTimeline) /\ wall = NoWall /\ seed = "read"
      /\ pane = [seen |-> 0, asking |-> TRUE, drawn |-> 0]
      /\ wallLosses = 0 /\ restarts = 0 /\ wallMissed = {}
  BY DEF InitWall
<1>6. <<>> \in Seq(Widget) /\ <<>> \in Seq(Nat) /\ Len(<<>>) = 0 /\ Range(<<>>) = {}
  BY DEF Range
<1>7. NoWall \in Walls /\ MemoFits(NoMemo)
  BY <1>6, WallAssumption DEF NoWall, Walls, NoMemo, Memos, NoWidget, MemoFits
<1>8. NoWall.seq = 0 /\ NoWall.newest.seq = 0 /\ NoWall.byID = NoMemo /\ NoWall.bySeq = <<>>
      /\ ~NoWall.seeded /\ NoMemo.titled = {} /\ NoMemo.landed = {}
  BY DEF NoWall, NoMemo, NoWidget
<1>9. WallFits(wall, wallHeard)
  BY <1>4, <1>5, <1>6, <1>7, <1>8, WallAssumption DEF WallFits
<1>10. WallShape
  BY <1>4, <1>5, <1>9, WallAssumption DEF WallShape
<1>11. PinsFollow
  <2>1. \A i \in DOMAIN wallTimeline : wallTimeline[i].kind \in Built
    BY <1>1
  <2> QED BY <2>1 DEF PinsFollow, Built
<1>12. MemoInv /\ NewestIsNew /\ PaneInv
  BY <1>5, <1>8 DEF MemoInv, MemoWithin, NewestIsNew, PaneInv
<1> QED BY <1>10, <1>11, <1>12 DEF WallInv

(* Every step of the wall keeps the invariant. *)
LEMMA StepWallInv == WallAssumption /\ WallInv /\ [NextWall]_wallVars => WallInv'
<1> SUFFICES ASSUME WallAssumption, WallInv, [NextWall]_wallVars PROVE WallInv'
  OBVIOUS
<1>1. CASE NextWall
  <2>1. WallShape /\ PinsFollow /\ MemoInv /\ NewestNamed /\ PaneInv /\ wallTimeline \in Seq(WallEvent)
    BY NewestNamedIs DEF WallInv, WallShape
  <2>2. WallShape' /\ PinsFollow' /\ MemoInv' /\ NewestNamed' /\ PaneInv'
    BY <1>1, <2>1, StepWallShape, StepPinsFollow, StepMemoInv, StepNewestNamed, StepPaneInv
  <2>3. WallShape' => (NewestIsNew' <=> NewestNamed')
    BY NewestNamedIs, PTL
  <2> QED BY <2>2, <2>3 DEF WallInv
<1>2. CASE UNCHANGED wallVars
  <2>1. UNCHANGED <<wallTimeline, wallHeard, wall, seed, pane, wallLosses, restarts, wallMissed>>
    BY <1>2 DEF wallVars
  <2>2. WallShape' /\ PinsFollow'
    BY <2>1 DEF WallInv, WallShape, WallFits, Where, PinsFollow
  <2>3. MemoInv'
    BY <2>1 DEF WallInv, MemoInv, MemoWithin, MemoIs, NamedBy
  <2>4. PaneInv'
    BY <2>1 DEF WallInv, PaneInv, Shapes
  <2>5. NewestIsNew'
    BY <2>1 DEF WallInv, NewestIsNew, LandedSeq, OfWidget, Where
  <2> QED BY <2>2, <2>3, <2>4, <2>5 DEF WallInv
<1> QED BY <1>1, <1>2

-----------------------------------------------------------------------------
(* More of what is kept of a list: of one that goes on, of one after        *)
(* another, and with a second set that is the same as far as the list goes. *)

LEMMA KeptSets ==
  ASSUME NEW S, NEW s \in Seq(S), NEW T, NEW U, \A i \in 1..Len(s) : s[i] \in T <=> s[i] \in U
  PROVE  Kept(s, T) = Kept(s, U)
<1> DEFINE P == {n \in 0..Len(s) : Filtered(s, T)[n] = Filtered(s, U)[n]}
<1>1. 0 \in P
  BY FilteredIs
<1>2. ASSUME NEW n \in 1..Len(s), n - 1 \in P PROVE n \in P
  BY <1>2, FilteredIs
<1>3. 0..Len(s) \subseteq P
  <2>1. Len(s) \in Nat
    OBVIOUS
  <2> HIDE DEF P
  <2> QED BY <1>1, <1>2, <2>1, UpTo
<1> QED BY <1>3 DEF Kept

(* What is left of a prefix is what is left of it in a longer list.         *)
LEMMA FilteredPrefix ==
  ASSUME NEW S, NEW s \in Seq(S), NEW t \in Seq(S), NEW T, Len(s) <= Len(t),
         \A i \in 1..Len(s) : s[i] = t[i]
  PROVE  \A n \in 0..Len(s) : Filtered(s, T)[n] = Filtered(t, T)[n]
<1> DEFINE P == {n \in 0..Len(s) : Filtered(s, T)[n] = Filtered(t, T)[n]}
<1>1. 0 \in P
  BY FilteredIs
<1>2. ASSUME NEW n \in 1..Len(s), n - 1 \in P PROVE n \in P
  <2>1. n \in 1..Len(t) /\ n \in 0..Len(s)
    OBVIOUS
  <2> QED BY <1>2, <2>1, FilteredIs
<1>3. 0..Len(s) \subseteq P
  <2>1. Len(s) \in Nat
    OBVIOUS
  <2> HIDE DEF P
  <2> QED BY <1>1, <1>2, <2>1, UpTo
<1> QED BY <1>3

(* A list that goes on keeps no less, and the same when none of the rest is *)
(* kept.                                                                    *)
LEMMA KeptGoesOn ==
  ASSUME NEW S, NEW s \in Seq(S), NEW t \in Seq(S), NEW T, Len(s) <= Len(t),
         \A i \in 1..Len(s) : s[i] = t[i]
  PROVE  /\ Len(Kept(s, T)) <= Len(Kept(t, T))
         /\ (\A i \in (Len(s) + 1)..Len(t) : t[i] \notin T) => Kept(s, T) = Kept(t, T)
<1> DEFINE k == Kept(s, T)
           f == Filtered(t, T)
           Unkept == \A i \in (Len(s) + 1)..Len(t) : t[i] \notin T
           P == {n \in 0..(Len(t) - Len(s)) : /\ Len(k) <= Len(f[Len(s) + n])
                                              /\ Unkept => k = f[Len(s) + n]}
<1>1. Len(s) \in Nat /\ Len(t) \in Nat
  OBVIOUS
<1>2. k \in Seq(S) /\ \A n \in 0..Len(t) : f[n] \in Seq(S)
  <2>1. k \in Seq(S \cap T) /\ \A n \in 0..Len(t) : f[n] \in Seq(S \cap T)
    BY KeptType, FilteredType
  <2>2. Seq(S \cap T) \subseteq Seq(S)
    OBVIOUS
  <2> QED BY <2>1, <2>2
<1>3. f[Len(s)] = k
  BY <1>1, FilteredPrefix DEF Kept
<1>4. \A n \in 1..Len(t) : f[n] = IF t[n] \in T THEN Append(f[n - 1], t[n]) ELSE f[n - 1]
  BY FilteredIs
<1> HIDE DEF k, f
<1>5. 0 \in P
  BY <1>1, <1>2, <1>3
<1>6. ASSUME NEW n \in 1..(Len(t) - Len(s)), n - 1 \in P PROVE n \in P
  <2> DEFINE m == Len(s) + n
             g == f[m - 1]
  <2>1. m \in 1..Len(t) /\ m - 1 \in 0..Len(t) /\ m \in (Len(s) + 1)..Len(t) /\ m - 1 = Len(s) + (n - 1)
        /\ n \in 0..(Len(t) - Len(s))
    BY <1>1
  <2>2. f[m] = IF t[m] \in T THEN Append(g, t[m]) ELSE g
    BY <1>4, <2>1
  <2>3. Len(k) <= Len(g) /\ (Unkept => k = g)
    BY <1>6, <2>1
  <2>4. g \in Seq(S) /\ t[m] \in S /\ f[m] \in Seq(S)
    <3>1. t[m] \in S
      BY <2>1, ElementOfSeq
    <3> QED BY <1>2, <2>1, <3>1
  <2>5. Unkept => t[m] \notin T
    BY <2>1
  <2> HIDE DEF g, Unkept
  <2>6. Len(k) \in Nat /\ Len(g) \in Nat /\ Len(Append(g, t[m])) = Len(g) + 1
    BY <1>2, <2>4, AppendProperties, LenProperties
  <2> HIDE DEF m
  <2>7. Len(k) <= Len(f[m]) /\ (Unkept => k = f[m])
    BY <2>2, <2>3, <2>5, <2>6
  <2> QED BY <2>1, <2>7 DEF m
<1>7. Len(t) - Len(s) \in P
  <2>1. Len(t) - Len(s) \in Nat
    BY <1>1
  <2> HIDE DEF P
  <2>2. 0..(Len(t) - Len(s)) \subseteq P
    BY <1>5, <1>6, <2>1, UpTo
  <2> QED BY <2>1, <2>2
<1>8. Len(s) + (Len(t) - Len(s)) = Len(t)
  BY <1>1
<1> QED BY <1>7, <1>8 DEF Kept, k, f

(* One list after another, under a name of its own. *)
Joined(a, b) == a \o b
(* What it holds, and how long it is. *)
LEMMA JoinedIs ==
  ASSUME NEW S, NEW a \in Seq(S), NEW b \in Seq(S)
  PROVE  /\ Joined(a, b) \in Seq(S) /\ Len(Joined(a, b)) = Len(a) + Len(b)
         /\ Range(Joined(a, b)) = Range(a) \cup Range(b)
BY ConcatProperties, RangeConcatenation DEF Joined

(* Appending to a list is appending to what it ends with. *)
LEMMA JoinedAppend ==
  ASSUME NEW S, NEW a \in Seq(S), NEW b \in Seq(S), NEW x \in S
  PROVE  Append(Joined(a, b), x) = Joined(a, Append(b, x))
BY DEF Joined

(* What is kept of one list after another is what is kept of each.          *)
LEMMA KeptConcat ==
  ASSUME NEW S, NEW s \in Seq(S), NEW u \in Seq(S), NEW T
  PROVE  Kept(Joined(s, u), T) = Joined(Kept(s, T), Kept(u, T))
<1> DEFINE t == s \o u
           k == Kept(s, T)
           f == Filtered(t, T)
           g == Filtered(u, T)
           P == {n \in 0..Len(u) : f[Len(s) + n] = k \o g[n]}
<1>1. /\ Len(s) \in Nat /\ Len(u) \in Nat /\ t \in Seq(S) /\ Len(t) = Len(s) + Len(u)
      /\ \A i \in 1..Len(s) : t[i] = s[i]
      /\ \A i \in 1..Len(u) : t[Len(s) + i] = u[i]
  <2>1. /\ t \in Seq(S) /\ Len(t) = Len(s) + Len(u) /\ Len(s) \in Nat /\ Len(u) \in Nat
        /\ \A i \in 1..(Len(s) + Len(u)) : t[i] = IF i <= Len(s) THEN s[i] ELSE u[i - Len(s)]
    BY ConcatProperties
  <2> HIDE DEF t
  <2>2. \A i \in 1..Len(u) : /\ Len(s) + i \in 1..(Len(s) + Len(u)) /\ ~(Len(s) + i <= Len(s))
                             /\ Len(s) + i - Len(s) = i
    BY <2>1
  <2> QED BY <2>1, <2>2
<1> HIDE DEF t
<1>2. k \in Seq(S) /\ \A n \in 0..Len(u) : g[n] \in Seq(S)
  <2>1. k \in Seq(S \cap T) /\ \A n \in 0..Len(u) : g[n] \in Seq(S \cap T)
    BY KeptType, FilteredType
  <2>2. Seq(S \cap T) \subseteq Seq(S)
    OBVIOUS
  <2> QED BY <2>1, <2>2
<1>3. f[Len(s)] = k
  BY <1>1, FilteredPrefix DEF Kept
<1>4. /\ \A n \in 1..Len(t) : f[n] = IF t[n] \in T THEN Append(f[n - 1], t[n]) ELSE f[n - 1]
      /\ g[0] = <<>> /\ \A n \in 1..Len(u) : g[n] = IF u[n] \in T THEN Append(g[n - 1], u[n]) ELSE g[n - 1]
  BY <1>1, FilteredIs
<1> HIDE DEF k, f, g
<1>5. 0 \in P
  <2>1. k \o <<>> = k /\ Len(s) + 0 = Len(s) /\ 0 \in 0..Len(u)
    BY <1>1, <1>2, ConcatEmptySeq
  <2> QED BY <1>3, <1>4, <2>1
<1>6. ASSUME NEW n \in 1..Len(u), n - 1 \in P PROVE n \in P
  <2>1. /\ Len(s) + n \in 1..Len(t) /\ Len(s) + n - 1 = Len(s) + (n - 1) /\ n \in 0..Len(u)
        /\ t[Len(s) + n] = u[n] /\ n - 1 \in 0..Len(u)
    BY <1>1
  <2>2. f[Len(s) + n] = IF u[n] \in T THEN Append(k \o g[n - 1], u[n]) ELSE k \o g[n - 1]
    <3> DEFINE m == Len(s) + n
    <3>1. m \in 1..Len(t) /\ m - 1 = Len(s) + (n - 1) /\ t[m] = u[n]
      BY <2>1
    <3>2. f[Len(s) + (n - 1)] = k \o g[n - 1]
      BY <1>6
    <3> HIDE DEF m
    <3>3. f[m] = IF t[m] \in T THEN Append(f[m - 1], t[m]) ELSE f[m - 1]
      BY <1>4, <3>1
    <3> QED BY <3>1, <3>2, <3>3 DEF m
  <2>3. u[n] \in S /\ g[n - 1] \in Seq(S)
    BY <1>2, <2>1, ElementOfSeq
  <2>4. Append(k \o g[n - 1], u[n]) = k \o Append(g[n - 1], u[n])
    <3> DEFINE h == g[n - 1]
               y == u[n]
    <3>1. k \in Seq(S) /\ h \in Seq(S) /\ y \in S
      BY <1>2, <2>3
    <3> HIDE DEF h, y
    <3>2. Append(Joined(k, h), y) = Joined(k, Append(h, y))
      BY <3>1, JoinedAppend
    <3> QED BY <3>2 DEF Joined, h, y
  <2> QED BY <1>4, <2>1, <2>2, <2>4
<1>7. Len(u) \in P
  <2> HIDE DEF P
  <2>1. 0..Len(u) \subseteq P
    BY <1>1, <1>5, <1>6, UpTo
  <2> QED BY <1>1, <2>1
<1>8. f[Len(t)] = k \o g[Len(u)]
  BY <1>1, <1>7
<1> QED BY <1>8 DEF Kept, Joined, k, f, g, t

(* What is kept of a list is what it holds of the set.                      *)
LEMMA KeptRange ==
  ASSUME NEW S, NEW s \in Seq(S), NEW T
  PROVE  Range(Kept(s, T)) = Range(s) \cap T
<1>1. Kept(s, T) \in Seq(S \cap T)
  BY KeptType
<1>2. Range(Kept(s, T)) \subseteq T
  BY <1>1, RangeOfSeq
<1>3. \A x \in T : x \in Range(Kept(s, T)) <=> x \in Range(s)
  <2>1. \A x \in T : (\E i \in DOMAIN Kept(s, T) : Kept(s, T)[i] = x) <=> \E i \in DOMAIN s : s[i] = x
    BY KeptHas
  <2> QED BY <2>1, Zenon DEF Range
<1> QED BY <1>2, <1>3

(* Keeping of what was kept is keeping what is in both sets.                *)
LEMMA KeptTwice ==
  ASSUME NEW S, NEW s \in Seq(S), NEW T, NEW U
  PROVE  Kept(Kept(s, U), T) = Kept(s, U \cap T)
<1> DEFINE k == Kept(s, U)
<1>1. k \in Seq(S \cap U)
  BY KeptType
<1>2. k \in Seq(S)
  BY <1>1, SeqMonotonic
<1>3. \A i \in 1..Len(k) : k[i] \in U
  BY <1>1, ElementOfSeq
<1> HIDE DEF k
<1>4. Kept(k, T) = Kept(k, U \cap T)
  BY <1>2, <1>3, KeptSets
<1>5. U \cap T \in SUBSET U
  OBVIOUS
<1>6. Kept(Kept(s, U), U \cap T) = Kept(s, U \cap T)
  BY <1>5, KeptOfKept
<1> QED BY <1>4, <1>6 DEF k

-----------------------------------------------------------------------------
(* What a wall lists: of the cards built and of those pinned, first what is *)
(* in F and then what is in G.                                              *)
Lists(a, b, T) == Joined(Kept(a, T), Kept(b, T))
Lines(a, b, F, G) == Joined(Lists(a, b, F), Lists(a, b, G))

(* Two lists, one after the other, of what is in a set. *)
LEMMA ListsAre ==
  ASSUME NEW S, NEW a \in Seq(S), NEW b \in Seq(S), NEW T
  PROVE  /\ Lists(a, b, T) \in Seq(S)
         /\ Len(Lists(a, b, T)) = Len(Kept(a, T)) + Len(Kept(b, T))
         /\ Range(Lists(a, b, T)) \subseteq (Range(a) \cup Range(b)) \cap T
         /\ \A U : Kept(Lists(a, b, T), U) = Lists(a, b, T \cap U)
<1> DEFINE k == Kept(a, T)
           l == Kept(b, T)
<1>1. k \in Seq(S \cap T) /\ l \in Seq(S \cap T)
  BY KeptType
<1>2. k \in Seq(S) /\ l \in Seq(S)
  <2>1. Seq(S \cap T) \subseteq Seq(S)
    OBVIOUS
  <2> QED BY <1>1, <2>1
<1>3. Range(k) = Range(a) \cap T /\ Range(l) = Range(b) \cap T
  BY KeptRange
<1>4. ASSUME NEW U PROVE Kept(Joined(k, l), U) = Lists(a, b, T \cap U)
  <2>1. Kept(k, U) = Kept(a, T \cap U) /\ Kept(l, U) = Kept(b, T \cap U)
    BY KeptTwice
  <2> HIDE DEF k, l
  <2>2. Kept(Joined(k, l), U) = Joined(Kept(k, U), Kept(l, U))
    BY <1>2, KeptConcat
  <2> QED BY <2>1, <2>2 DEF Lists
<1> HIDE DEF k, l
<1>5. Joined(k, l) \in Seq(S) /\ Len(Joined(k, l)) = Len(k) + Len(l) /\ Range(Joined(k, l)) = Range(k) \cup Range(l)
  BY <1>2, JoinedIs
<1>6. Lists(a, b, T) = Joined(k, l)
  BY DEF Lists, k, l
<1>7. Range(Joined(k, l)) \subseteq (Range(a) \cup Range(b)) \cap T
  BY <1>3, <1>5
<1>8. Len(k) = Len(Kept(a, T)) /\ Len(l) = Len(Kept(b, T))
  BY DEF k, l
<1> QED BY <1>4, <1>5, <1>6, <1>7, <1>8

(* Both parts of the wall. *)
LEMMA LinesAre ==
  ASSUME NEW S, NEW a \in Seq(S), NEW b \in Seq(S), NEW F, NEW G
  PROVE  LET x == Lines(a, b, F, G)
         IN  /\ x \in Seq(S)
             /\ Len(x) = Len(Kept(a, F)) + Len(Kept(b, F)) + (Len(Kept(a, G)) + Len(Kept(b, G)))
             /\ Range(x) \subseteq Range(a) \cup Range(b)
             /\ \A U : Kept(x, U) = Lines(a, b, F \cap U, G \cap U)
<1> DEFINE k == Lists(a, b, F)
           l == Lists(a, b, G)
<1>1. /\ k \in Seq(S) /\ Len(k) = Len(Kept(a, F)) + Len(Kept(b, F))
      /\ Range(k) \subseteq Range(a) \cup Range(b)
      /\ \A U : Kept(k, U) = Lists(a, b, F \cap U)
  BY ListsAre
<1>2. /\ l \in Seq(S) /\ Len(l) = Len(Kept(a, G)) + Len(Kept(b, G))
      /\ Range(l) \subseteq Range(a) \cup Range(b)
      /\ \A U : Kept(l, U) = Lists(a, b, G \cap U)
  BY ListsAre
<1>3. Lines(a, b, F, G) = Joined(k, l)
  BY DEF Lines
<1> HIDE DEF k, l
<1>7. k \in Seq(S) /\ l \in Seq(S)
  BY <1>1, <1>2
<1>4. Joined(k, l) \in Seq(S) /\ Len(Joined(k, l)) = Len(k) + Len(l) /\ Range(Joined(k, l)) = Range(k) \cup Range(l)
  BY <1>7, JoinedIs
<1>5. ASSUME NEW U PROVE Kept(Joined(k, l), U) = Lines(a, b, F \cap U, G \cap U)
  <2>1. Kept(Joined(k, l), U) = Joined(Kept(k, U), Kept(l, U))
    BY <1>7, KeptConcat
  <2> QED BY <1>1, <1>2, <2>1 DEF Lines
<1>6. Range(Joined(k, l)) \subseteq Range(a) \cup Range(b)
  BY <1>1, <1>2, <1>4
<1> QED BY <1>1, <1>2, <1>3, <1>4, <1>5, <1>6

(* A list that goes on from another with nothing that is in L. *)
Extends(a, c, L) ==
  /\ Len(a) <= Len(c) /\ \A i \in 1..Len(a) : a[i] = c[i]
  /\ \A i \in (Len(a) + 1)..Len(c) : c[i] \notin L

(* Both lists going on: the wall gets no shorter, and what it holds of a    *)
(* set that the rest is not in stays as it was, in its order.               *)
LEMMA LinesGoOn ==
  ASSUME NEW S, NEW a \in Seq(S), NEW b \in Seq(S), NEW c \in Seq(S), NEW d \in Seq(S),
         NEW F, NEW G, NEW L, Extends(a, c, L), Extends(b, d, L)
  PROVE  /\ Len(Lines(a, b, F, G)) <= Len(Lines(c, d, F, G))
         /\ Kept(Lines(a, b, F, G), L) = Kept(Lines(c, d, F, G), L)
<1>1. ASSUME NEW T
      PROVE  /\ Len(Kept(a, T)) <= Len(Kept(c, T)) /\ Len(Kept(b, T)) <= Len(Kept(d, T))
             /\ {Len(Kept(a, T)), Len(Kept(c, T)), Len(Kept(b, T)), Len(Kept(d, T))} \subseteq Nat
             /\ Kept(a, T \cap L) = Kept(c, T \cap L) /\ Kept(b, T \cap L) = Kept(d, T \cap L)
  <2>1. Len(Kept(a, T)) <= Len(Kept(c, T)) /\ Len(Kept(b, T)) <= Len(Kept(d, T))
    BY KeptGoesOn DEF Extends
  <2>2. Kept(a, T) \in Seq(S \cap T) /\ Kept(b, T) \in Seq(S \cap T)
        /\ Kept(c, T) \in Seq(S \cap T) /\ Kept(d, T) \in Seq(S \cap T)
    BY KeptType
  <2>3. {Len(Kept(a, T)), Len(Kept(c, T)), Len(Kept(b, T)), Len(Kept(d, T))} \subseteq Nat
    BY <2>2, LenProperties
  <2>4. \A i \in (Len(a) + 1)..Len(c) : c[i] \notin T \cap L
    BY DEF Extends
  <2>5. Kept(a, T \cap L) = Kept(c, T \cap L)
    BY <2>4, KeptGoesOn DEF Extends
  <2>6. \A i \in (Len(b) + 1)..Len(d) : d[i] \notin T \cap L
    BY DEF Extends
  <2>7. Kept(b, T \cap L) = Kept(d, T \cap L)
    BY <2>6, KeptGoesOn DEF Extends
  <2> QED BY <2>1, <2>3, <2>5, <2>7
<1>2. Len(Lines(a, b, F, G)) = Len(Kept(a, F)) + Len(Kept(b, F)) + (Len(Kept(a, G)) + Len(Kept(b, G)))
  BY LinesAre
<1>3. Len(Lines(c, d, F, G)) = Len(Kept(c, F)) + Len(Kept(d, F)) + (Len(Kept(c, G)) + Len(Kept(d, G)))
  BY LinesAre
<1>6. Kept(Lines(a, b, F, G), L) = Lines(a, b, F \cap L, G \cap L)
  BY LinesAre
<1>7. Kept(Lines(c, d, F, G), L) = Lines(c, d, F \cap L, G \cap L)
  BY LinesAre
<1>4. Lines(a, b, F \cap L, G \cap L) = Lines(c, d, F \cap L, G \cap L)
  BY <1>1 DEF Lines, Lists
<1>5. Len(Lines(a, b, F, G)) <= Len(Lines(c, d, F, G))
  <2>1. /\ Len(Kept(a, F)) <= Len(Kept(c, F)) /\ Len(Kept(b, F)) <= Len(Kept(d, F))
        /\ Len(Kept(a, G)) <= Len(Kept(c, G)) /\ Len(Kept(b, G)) <= Len(Kept(d, G))
        /\ Len(Kept(a, F)) \in Nat /\ Len(Kept(c, F)) \in Nat /\ Len(Kept(b, F)) \in Nat
        /\ Len(Kept(d, F)) \in Nat /\ Len(Kept(a, G)) \in Nat /\ Len(Kept(c, G)) \in Nat
        /\ Len(Kept(b, G)) \in Nat /\ Len(Kept(d, G)) \in Nat
    BY <1>1
  <2> QED BY <1>2, <1>3, <2>1
<1> QED BY <1>4, <1>5, <1>6, <1>7

-----------------------------------------------------------------------------
(* The cards a slot may hold, the slots of a timeline and, of the cards,    *)
(* those that the arrangement puts first.                                   *)
CardSet == [widget : Widget \cup {"edge", "none"}, edge : Nat, landed : Nat]
Drawable == CardSet \ {NoCard}
BuiltSlots(tl) == [i \in DOMAIN tl |-> BuiltBy(tl, i)]
PinnedSlots(tl) == [i \in DOMAIN tl |-> PinnedBy(tl, i)]
FirstOf(tl) == {c \in Drawable : c.widget \in layoutOrder(tl)}

(* The slots that hold a card. *)
LEMMA CardsAre ==
  ASSUME NEW s \in Seq(CardSet)
  PROVE  Cards(s) = Kept(s, Drawable)
<1>1. \A i \in 1..Len(s) : s[i] \in CardSet /\ s[i] \in Range(s)
  BY ElementOfSeq DEF Range
<1>2. \A i \in 1..Len(s) : s[i] \in Range(s) \ {NoCard} <=> s[i] \in Drawable
  BY <1>1, Zenon DEF Drawable
<1>3. Kept(s, Range(s) \ {NoCard}) = Kept(s, Drawable)
  BY <1>2, KeptSets
<1> QED BY <1>3 DEF Cards

(* The wall is the built cards and the pinned ones, in two parts. *)
LEMMA AllCardsAre ==
  ASSUME NEW tl, BuiltSlots(tl) \in Seq(CardSet), PinnedSlots(tl) \in Seq(CardSet)
  PROVE  AllCards(tl) = Lines(BuiltSlots(tl), PinnedSlots(tl), FirstOf(tl), Drawable \ FirstOf(tl))
<1> DEFINE a == BuiltSlots(tl)
           b == PinnedSlots(tl)
           c == Lists(a, b, Drawable)
           F == FirstOf(tl)
           first == {x \in Range(c) : x.widget \in layoutOrder(tl)}
<1>1. projectWall(tl) \o pinnedWall(tl) = c
  <2>1. projectWall(tl) = Kept(a, Drawable)
    BY CardsAre DEF projectWall, BuiltSlots
  <2>2. pinnedWall(tl) = Kept(b, Drawable)
    BY CardsAre DEF pinnedWall, PinnedSlots
  <2> QED BY <2>1, <2>2 DEF Lists, Joined
<1>2. /\ c \in Seq(CardSet) /\ Range(c) \subseteq Drawable
      /\ \A U : Kept(c, U) = Lists(a, b, Drawable \cap U)
  BY ListsAre
<1>3. AllCards(tl) = Kept(c, first) \o Kept(c, Range(c) \ first)
  BY <1>1 DEF AllCards, arrange
<1> HIDE DEF c
<1>4. \A i \in 1..Len(c) : c[i] \in Range(c)
  BY <1>2 DEF Range
<1>5. Kept(c, first) = Kept(c, F)
  <2>1. \A i \in 1..Len(c) : c[i] \in first <=> c[i] \in F
    BY <1>2, <1>4 DEF FirstOf
  <2> HIDE DEF first, F
  <2> QED BY <1>2, <2>1, KeptSets
<1>6. Kept(c, Range(c) \ first) = Kept(c, Drawable \ F)
  <2>1. \A i \in 1..Len(c) : c[i] \in Range(c) \ first <=> c[i] \in Drawable \ F
    BY <1>2, <1>4 DEF FirstOf
  <2> HIDE DEF first, F
  <2> QED BY <1>2, <2>1, KeptSets
<1>7. Drawable \cap F = F /\ Drawable \cap (Drawable \ F) = Drawable \ F
  BY DEF FirstOf
<1>8. Kept(c, F) = Lists(a, b, F) /\ Kept(c, Drawable \ F) = Lists(a, b, Drawable \ F)
  <2> HIDE DEF F, a, b
  <2>1. Kept(c, F) = Lists(a, b, Drawable \cap F)
    BY <1>2
  <2>2. Kept(c, Drawable \ F) = Lists(a, b, Drawable \cap (Drawable \ F))
    BY <1>2
  <2> QED BY <1>7, <2>1, <2>2
<1> QED BY <1>3, <1>5, <1>6, <1>8 DEF Lines, Joined

-----------------------------------------------------------------------------
(* A timeline, and one that goes on from it with no more than requests.     *)
GoesOn(d, tl) ==
  /\ d \in Seq(WallEvent) /\ tl \in Seq(WallEvent) /\ Len(d) <= Len(tl)
  /\ \A i \in 1..Len(d) : d[i] = tl[i]
  /\ \A i \in (Len(d) + 1)..Len(tl) : tl[i].kind = "requested"
(* Every pin of a timeline is of a version that the timeline has. *)
PinsAt(tl) ==
  \A i \in DOMAIN tl : tl[i].kind \in {"pinned", "unpinned"} => tl[i].src \in Where(tl, {"edge"})

(* Where the other events are is the same. *)
LEMMA WhereAgrees ==
  ASSUME NEW d, NEW tl, GoesOn(d, tl), NEW K, "requested" \notin K
  PROVE  /\ Where(d, K) = Where(tl, K) /\ Where(tl, K) \in SUBSET (1..Len(d))
         /\ \A i \in Where(tl, K) : d[i] = tl[i]
<1>1. Len(d) \in Nat /\ Len(tl) \in Nat /\ DOMAIN d = 1..Len(d) /\ DOMAIN tl = 1..Len(tl)
      /\ Len(d) <= Len(tl)
  BY DEF GoesOn
<1>2. \A i \in 1..Len(d) : i \in 1..Len(tl) /\ d[i] = tl[i]
  BY <1>1 DEF GoesOn
<1>3. \A i \in 1..Len(tl) : tl[i].kind \in K => i \in 1..Len(d)
  <2>1. \A i \in 1..Len(tl) : i \notin 1..Len(d) => i \in (Len(d) + 1)..Len(tl)
    BY <1>1
  <2> QED BY <2>1 DEF GoesOn
<1> QED BY <1>1, <1>2, <1>3 DEF Where

(* So is all that is folded from them.                                      *)
LEMMA WallFoldsAgree ==
  ASSUME NEW d, NEW tl, GoesOn(d, tl)
  PROVE  /\ \A w : LandedSeq(d, w) = LandedSeq(tl, w) /\ (Failed(d, w) <=> Failed(tl, w))
         /\ \A n \in Where(tl, {"edge"}) : Versions(d, n) = Versions(tl, n) /\ PinsOf(d, n) = PinsOf(tl, n)
         /\ EdgeCards(d) = EdgeCards(tl)
         /\ layoutOrder(d) = layoutOrder(tl)
         /\ \A p : Dashboard(d, p) = Dashboard(tl, p)
<1>1. /\ \A w : OfWidget(d, {"executed"}, w) = OfWidget(tl, {"executed"}, w)
      /\ \A w : OfWidget(d, {"failed"}, w) = OfWidget(tl, {"failed"}, w)
  <2>1. /\ Where(d, {"executed"}) = Where(tl, {"executed"})
        /\ \A i \in Where(tl, {"executed"}) : d[i] = tl[i]
    BY WhereAgrees
  <2>2. /\ Where(d, {"failed"}) = Where(tl, {"failed"})
        /\ \A i \in Where(tl, {"failed"}) : d[i] = tl[i]
    BY WhereAgrees
  <2> QED BY <2>1, <2>2 DEF OfWidget
<1>2. \A w : LandedSeq(d, w) = LandedSeq(tl, w) /\ (Failed(d, w) <=> Failed(tl, w))
  BY <1>1 DEF LandedSeq, Failed
<1>3. /\ Where(d, {"edge"}) = Where(tl, {"edge"})
      /\ \A i \in Where(tl, {"edge"}) : d[i] = tl[i]
  BY WhereAgrees
<1>4. \A n \in Where(tl, {"edge"}) : Versions(d, n) = Versions(tl, n)
  BY <1>3 DEF Versions
<1>5. EdgeCards(d) = EdgeCards(tl)
  BY <1>3, <1>4 DEF EdgeCards
<1>6. \A n : PinOf(d, n) = PinOf(tl, n)
  <2>1. /\ Where(d, {"pinned"}) = Where(tl, {"pinned"})
        /\ \A i \in Where(tl, {"pinned"}) : d[i] = tl[i]
    BY WhereAgrees
  <2>2. /\ Where(d, {"unpinned"}) = Where(tl, {"unpinned"})
        /\ \A i \in Where(tl, {"unpinned"}) : d[i] = tl[i]
    BY WhereAgrees
  <2>3. ASSUME NEW n
        PROVE  /\ {i \in Where(d, {"pinned"}) : d[i].src = n} = {i \in Where(tl, {"pinned"}) : tl[i].src = n}
               /\ {i \in Where(d, {"unpinned"}) : d[i].src = n}
                    = {i \in Where(tl, {"unpinned"}) : tl[i].src = n}
    BY <2>1, <2>2
  <2> QED BY <2>3 DEF PinOf
<1>7. \A n \in Where(tl, {"edge"}) : PinsOf(d, n) = PinsOf(tl, n)
  BY <1>4, <1>6 DEF PinsOf
<1>8. layoutOrder(d) = layoutOrder(tl)
  <2>1. /\ Where(d, {"saved"}) = Where(tl, {"saved"}) /\ Where(tl, {"saved"}) \in SUBSET (1..Len(d))
        /\ \A i \in Where(tl, {"saved"}) : d[i] = tl[i]
    BY WhereAgrees
  <2> DEFINE S == Where(tl, {"saved"})
  <2>2. Len(d) \in Nat
    BY DEF GoesOn
  <2>3. S = {} => Latest(S) = 0
    BY DEF Latest
  <2>4. S # {} => Latest(S) \in S
    BY <2>1, <2>2, LatestIs
  <2>5. Latest(S) # 0 => d[Latest(S)] = tl[Latest(S)]
    BY <2>1, <2>3, <2>4
  <2>6. layoutOrder(d) = IF Latest(S) = 0 THEN {} ELSE {d[Latest(S)].order}
    BY <2>1 DEF layoutOrder
  <2>7. layoutOrder(tl) = IF Latest(S) = 0 THEN {} ELSE {tl[Latest(S)].order}
    BY DEF layoutOrder
  <2> HIDE DEF S
  <2> QED BY <2>5, <2>6, <2>7
<1>9. \A p : Dashboard(d, p) = Dashboard(tl, p)
  <2>1. \A n \in EdgeCards(tl) : d[n] = tl[n]
    BY <1>3 DEF EdgeCards
  <2> QED BY <1>5, <2>1 DEF Dashboard
<1> QED BY <1>2, <1>4, <1>5, <1>7, <1>8, <1>9

(* A widget that is asked for later is not built yet where it stands; what  *)
(* was asked for before stands as it did.                                   *)
LEMMA BuiltAgrees ==
  ASSUME NEW d, NEW tl, GoesOn(d, tl)
  PROVE  /\ \A i \in 1..Len(d) : BuiltBy(d, i) = BuiltBy(tl, i)
         /\ \A i \in (Len(d) + 1)..Len(tl) : BuiltBy(tl, i).landed = 0
<1>1. /\ Len(d) \in Nat /\ Len(tl) \in Nat /\ DOMAIN d = 1..Len(d) /\ DOMAIN tl = 1..Len(tl)
      /\ Len(d) <= Len(tl) /\ \A i \in 1..Len(d) : i \in 1..Len(tl) /\ d[i] = tl[i]
  BY DEF GoesOn
<1>2. ASSUME NEW w PROVE /\ OfWidget(d, Built, w) = OfWidget(tl, Built, w) \cap 1..Len(d)
                         /\ OfWidget(tl, Built, w) \in SUBSET (1..Len(tl))
  BY <1>1 DEF OfWidget, Where
<1>3. ASSUME NEW i \in 1..Len(d) PROVE BuiltBy(d, i) = BuiltBy(tl, i)
  <2> DEFINE w == tl[i].id
             S == OfWidget(tl, Built, w)
             T == OfWidget(d, Built, w)
  <2>1. i \in Where(d, Built) <=> i \in Where(tl, Built)
    BY <1>1 DEF Where
  <2>2. CASE i \notin Where(tl, Built)
    <3>1. BuiltBy(d, i) = NoCard
      BY <2>1, <2>2, Zenon DEF BuiltBy
    <3>2. BuiltBy(tl, i) = NoCard
      BY <2>2, Zenon DEF BuiltBy
    <3> QED BY <3>1, <3>2
  <2>3. CASE i \in Where(tl, Built)
    <3>1. i \in S /\ i \in T /\ T = S \cap 1..Len(d) /\ S \in SUBSET (1..Len(tl)) /\ i \in Nat
      BY <1>2, <2>3 DEF OfWidget
    <3> HIDE DEF S, T
    <3>2. Len(d) \in 0..Len(tl)
      BY <1>1
    <3>3. i = Earliest(S \cap 1..Len(d)) <=> i = Earliest(S)
      <4> DEFINE m == Len(d)
                 n == Len(tl)
      <4>1. n \in Nat /\ m \in 0..n /\ S \in SUBSET (1..n) /\ i \in S /\ i <= m
        BY <1>1, <3>1, <3>2
      <4> HIDE DEF m, n
      <4>2. i = Earliest(S \cap 1..m) <=> i = Earliest(S)
        BY <4>1, EarliestWithin
      <4> QED BY <4>2 DEF m
    <3>5. i = Earliest(T) <=> i = Earliest(S)
      BY <3>1, <3>3
    <3>6. LandedSeq(d, w) = LandedSeq(tl, w) /\ (Failed(d, w) <=> Failed(tl, w)) /\ d[i].id = w
      BY <1>1, WallFoldsAgree
    <3> HIDE DEF w
    <3>7. BuiltBy(d, i) = IF i = Earliest(T) /\ ~Failed(d, w) THEN Card(w, 0, LandedSeq(d, w)) ELSE NoCard
      BY <2>1, <2>3, <3>6, Zenon DEF BuiltBy, T
    <3>8. BuiltBy(tl, i) = IF i = Earliest(S) /\ ~Failed(tl, w) THEN Card(w, 0, LandedSeq(tl, w)) ELSE NoCard
      BY <2>3, Zenon DEF BuiltBy, S, w
    <3>9. CASE i = Earliest(T) /\ ~Failed(d, w)
      <4>1. BuiltBy(d, i) = Card(w, 0, LandedSeq(d, w))
        BY <3>7, <3>9, Zenon
      <4>2. BuiltBy(tl, i) = Card(w, 0, LandedSeq(tl, w))
        BY <3>5, <3>6, <3>8, <3>9, Zenon
      <4>3. LandedSeq(d, w) = LandedSeq(tl, w)
        BY <3>6
      <4> QED BY <4>1, <4>2, <4>3, Zenon
    <3>10. CASE ~(i = Earliest(T) /\ ~Failed(d, w))
      <4>1. BuiltBy(d, i) = NoCard
        BY <3>7, <3>10, Zenon
      <4>2. BuiltBy(tl, i) = NoCard
        BY <3>5, <3>6, <3>8, <3>10, Zenon
      <4> QED BY <4>1, <4>2, Zenon
    <3> QED BY <3>9, <3>10, Zenon
  <2> QED BY <2>2, <2>3
<1>4. ASSUME NEW i \in (Len(d) + 1)..Len(tl) PROVE BuiltBy(tl, i).landed = 0
  <2> DEFINE w == tl[i].id
             S == OfWidget(tl, Built, w)
  <2>1. NoCard.landed = 0 /\ \A l : Card(w, 0, l).landed = l
    BY DEF NoCard, Card
  <2>2. CASE i = Earliest(S)
    <3>1. OfWidget(tl, {"executed"}, w) = {}
      <4>1. SUFFICES ASSUME NEW j \in OfWidget(tl, {"executed"}, w) PROVE FALSE
        OBVIOUS
      <4>2. j \in Where(tl, {"executed"}) /\ j \in S
        BY DEF OfWidget, Where, Built
      <4>3. j \in 1..Len(d)
        BY <4>2, WhereAgrees
      <4>4. Earliest(S) <= j
        BY <1>1, <1>2, <4>2, EarliestIs
      <4> HIDE DEF S
      <4> QED BY <1>1, <2>2, <4>3, <4>4
    <3>2. LandedSeq(tl, w) = 0
      BY <3>1 DEF LandedSeq, Earliest
    <3>3. BuiltBy(tl, i) = Card(w, 0, LandedSeq(tl, w)) \/ BuiltBy(tl, i) = NoCard
      BY Zenon DEF BuiltBy
    <3> QED BY <2>1, <3>2, <3>3
  <2>3. CASE i # Earliest(S)
    <3>1. BuiltBy(tl, i) = NoCard
      BY <2>3, Zenon DEF BuiltBy
    <3> QED BY <2>1, <3>1
  <2> QED BY <2>2, <2>3
<1> QED BY <1>3, <1>4

(* A pin stands as it did.                                                  *)
LEMMA PinnedAgrees ==
  ASSUME NEW d, NEW tl, GoesOn(d, tl), PinsAt(tl)
  PROVE  /\ \A i \in 1..Len(d) : PinnedBy(d, i) = PinnedBy(tl, i)
         /\ \A i \in (Len(d) + 1)..Len(tl) : PinnedBy(tl, i).landed = 0
<1>1. /\ Where(d, {"pinned"}) = Where(tl, {"pinned"}) /\ Where(tl, {"pinned"}) \in SUBSET (1..Len(d))
      /\ \A i \in Where(tl, {"pinned"}) : d[i] = tl[i]
  BY WhereAgrees
<1>2. ASSUME NEW i, i \notin Where(tl, {"pinned"})
      PROVE  PinnedBy(d, i) = NoCard /\ PinnedBy(tl, i) = NoCard
  <2>1. PinnedBy(d, i) = NoCard
    BY <1>1, <1>2, Zenon DEF PinnedBy
  <2>2. PinnedBy(tl, i) = NoCard
    BY <1>2, Zenon DEF PinnedBy
  <2> QED BY <2>1, <2>2
<1>3. ASSUME NEW i \in Where(tl, {"pinned"}) PROVE PinnedBy(d, i) = PinnedBy(tl, i)
  <2> DEFINE v == tl[i].src
             n == Max(Versions(tl, v))
  <2>1. v \in Where(tl, {"edge"}) /\ d[i].src = v
    BY <1>1 DEF PinsAt, Where
  <2>2. Versions(d, v) = Versions(tl, v) /\ EdgeCards(d) = EdgeCards(tl)
    BY <2>1, WallFoldsAgree
  <2>3. n \in EdgeCards(tl) => PinsOf(d, n) = PinsOf(tl, n)
    <3>1. EdgeCards(tl) \subseteq Where(tl, {"edge"})
      BY DEF EdgeCards
    <3> HIDE DEF n
    <3> QED BY <3>1, WallFoldsAgree
  <2>4. Max(Versions(d, d[i].src)) = n
    BY <2>1, <2>2
  <2> HIDE DEF n
  <2>5. PinnedBy(d, i) = IF n \in EdgeCards(tl) /\ i = Earliest(PinsOf(d, n))
                         THEN Card("edge", n, Max(PinsOf(d, n))) ELSE NoCard
    BY <1>1, <2>2, <2>4, Zenon DEF PinnedBy
  <2>6. PinnedBy(tl, i) = IF n \in EdgeCards(tl) /\ i = Earliest(PinsOf(tl, n))
                          THEN Card("edge", n, Max(PinsOf(tl, n))) ELSE NoCard
    BY Zenon DEF PinnedBy, n
  <2>7. CASE n \in EdgeCards(tl)
    BY <2>3, <2>5, <2>6, <2>7
  <2>8. CASE n \notin EdgeCards(tl)
    BY <2>5, <2>6, <2>8, Zenon
  <2> QED BY <2>7, <2>8
<1>4. ASSUME NEW i \in (Len(d) + 1)..Len(tl) PROVE i \notin Where(tl, {"pinned"})
  <2>1. Len(d) \in Nat
    BY DEF GoesOn
  <2> QED BY <1>1, <2>1
<1>5. NoCard.landed = 0
  BY DEF NoCard, Card
<1>6. \A i : i \in Where(tl, {"pinned"}) => PinnedBy(d, i) = PinnedBy(tl, i)
  BY <1>3
<1>7. \A i \in 1..Len(d) : PinnedBy(d, i) = PinnedBy(tl, i)
  BY <1>2, <1>6
<1>8. \A i \in (Len(d) + 1)..Len(tl) : PinnedBy(tl, i).landed = 0
  BY <1>2, <1>4, <1>5
<1> QED BY <1>7, <1>8

-----------------------------------------------------------------------------
(* The card of the event that it landed with.                               *)
LandsAt(tl, l) ==
  IF tl[l].kind = "executed" THEN Card(tl[l].id, 0, l)
  ELSE Card("edge", Max(Versions(tl, tl[l].src)), l)

(* Cards are equal when what they hold is. *)
LEMMA CardIs ==
  ASSUME NEW w, NEW n, NEW l
  PROVE  /\ Card(w, n, l).widget = w /\ Card(w, n, l).landed = l
         /\ w \in Widget \cup {"edge", "none"} /\ n \in Nat /\ l \in Nat => Card(w, n, l) \in CardSet
BY DEF Card, CardSet

(* The slot that holds no card. *)
LEMMA NoCardIs == NoCard \in CardSet /\ NoCard.landed = 0
<1>1. NoCard = Card("none", 0, 0)
  BY DEF NoCard
<1> QED BY <1>1, CardIs

(* A built card, and that it landed with the widget's first execution.      *)
LEMMA BuiltIs ==
  ASSUME NEW tl \in Seq(WallEvent), NEW i \in 1..Len(tl)
  PROVE  LET c == BuiltBy(tl, i)
         IN  c \in CardSet /\ (c.landed > 0 => c = LandsAt(tl, c.landed))
<1> DEFINE w == tl[i].id
           S == OfWidget(tl, {"executed"}, w)
<1>1. Len(tl) \in Nat /\ DOMAIN tl = 1..Len(tl) /\ tl[i] \in WallEvent
  OBVIOUS
<1>2. CASE BuiltBy(tl, i) = NoCard
  BY <1>2, NoCardIs
<1>3. CASE BuiltBy(tl, i) # NoCard
  <2>1. BuiltBy(tl, i) = Card(w, 0, LandedSeq(tl, w)) /\ i \in Where(tl, Built)
    BY <1>3, Zenon DEF BuiltBy
  <2>2. w \in Widget
    BY <1>1, <2>1, EventIs DEF Where
  <2>3. S \in SUBSET (1..Len(tl)) /\ \A j \in S : tl[j].kind = "executed" /\ tl[j].id = w
    BY <1>1 DEF OfWidget, Where
  <2>4. LandedSeq(tl, w) = Earliest(S)
    BY DEF LandedSeq
  <2> HIDE DEF w, S
  <2>5. Earliest(S) \in Nat /\ (Earliest(S) > 0 => Earliest(S) \in S)
    BY <1>1, <2>3, EarliestIs
  <2> DEFINE l == Earliest(S)
  <2>6. Card(w, 0, l) \in CardSet /\ Card(w, 0, l).landed = l
    BY <2>2, <2>5, CardIs
  <2>7. l > 0 => Card(w, 0, l) = LandsAt(tl, l)
    <3>1. SUFFICES ASSUME l > 0 PROVE Card(w, 0, l) = LandsAt(tl, l)
      OBVIOUS
    <3>2. tl[l].kind = "executed" /\ tl[l].id = w
      BY <2>3, <2>5, <3>1
    <3> HIDE DEF l
    <3> QED BY <3>2, Zenon DEF LandsAt
  <2> HIDE DEF l
  <2>8. BuiltBy(tl, i) = Card(w, 0, l)
    BY <2>1, <2>4 DEF l, w
  <2> QED BY <2>6, <2>7, <2>8
<1> QED BY <1>2, <1>3

(* A pinned card, and that it landed with the latest pin of a version.      *)
LEMMA PinnedIs ==
  ASSUME NEW tl \in Seq(WallEvent), NEW i \in 1..Len(tl)
  PROVE  LET c == PinnedBy(tl, i)
         IN  c \in CardSet /\ (c.landed > 0 => c = LandsAt(tl, c.landed))
<1> DEFINE n == Max(Versions(tl, tl[i].src))
           P == PinsOf(tl, n)
           l == Max(P)
<1>1. Len(tl) \in Nat /\ DOMAIN tl = 1..Len(tl)
  OBVIOUS
<1>2. CASE PinnedBy(tl, i) = NoCard
  BY <1>2, NoCardIs
<1>3. CASE PinnedBy(tl, i) # NoCard
  <2>1. PinnedBy(tl, i) = Card("edge", n, l) /\ n \in EdgeCards(tl) /\ i = Earliest(P)
    BY <1>3, Zenon DEF PinnedBy
  <2>2. n \in Where(tl, {"edge"}) /\ n = Max(Versions(tl, n))
    BY <2>1 DEF EdgeCards
  <2> HIDE DEF n
  <2>3. ASSUME NEW v PROVE /\ PinOf(tl, v) \in 0..Len(tl)
                           /\ PinOf(tl, v) # 0 => /\ tl[PinOf(tl, v)].kind = "pinned"
                                                  /\ tl[PinOf(tl, v)].src = v
    <3> DEFINE S == {j \in Where(tl, {"pinned"}) : tl[j].src = v}
               T == {j \in Where(tl, {"unpinned"}) : tl[j].src = v}
    <3>1. PinOf(tl, v) = IF Latest(S) > Latest(T) THEN Latest(S) ELSE 0
      BY DEF PinOf
    <3>2. S \in SUBSET (1..Len(tl)) /\ \A j \in S : tl[j].kind = "pinned" /\ tl[j].src = v
      BY <1>1 DEF Where
    <3> HIDE DEF S, T
    <3>3. Latest(S) \in 0..Len(tl) /\ (S = {} => Latest(S) = 0) /\ (S # {} => Latest(S) \in S)
      BY <1>1, <3>2, LatestIs
    <3> QED BY <1>1, <3>1, <3>2, <3>3
  <2>4. P \in SUBSET (0..Len(tl)) /\ \A x \in P : x # 0 /\ \E v \in Versions(tl, n) : x = PinOf(tl, v)
    BY <2>3 DEF PinsOf
  <2> HIDE DEF P
  <2>5. P # {}
    <3>1. P = {} => Earliest(P) = 0
      BY DEF Earliest
    <3> QED BY <2>1, <3>1
  <2>6. l \in P
    <3>1. P \in SUBSET (1..Len(tl))
      BY <1>1, <2>4
    <3> QED BY <1>1, <2>5, <3>1, MaxIs
  <2>7. PICK v \in Versions(tl, n) : l = PinOf(tl, v)
    BY <2>4, <2>6
  <2> HIDE DEF l
  <2>8. l \in Nat /\ n \in Nat
    BY <1>1, <2>2, <2>4, <2>6 DEF Where
  <2>9. Versions(tl, v) = Versions(tl, n)
    BY DEF Versions
  <2>10. tl[l].kind = "pinned" /\ tl[l].src = v
    BY <2>3, <2>4, <2>6, <2>7
  <2>11. LandsAt(tl, l) = Card("edge", n, l)
    <3>1. tl[l].kind # "executed"
      BY <2>10
    <3>2. Max(Versions(tl, tl[l].src)) = n
      BY <2>2, <2>9, <2>10
    <3> QED BY <3>1, <3>2, Zenon DEF LandsAt
  <2>12. Card("edge", n, l) \in CardSet /\ Card("edge", n, l).landed = l
    BY <2>8, CardIs
  <2> QED BY <2>1, <2>11, <2>12
<1> QED BY <1>2, <1>3

(* The slots are lists of cards.                                            *)
LEMMA SlotsAre ==
  ASSUME NEW tl \in Seq(WallEvent)
  PROVE  /\ BuiltSlots(tl) \in Seq(CardSet) /\ Len(BuiltSlots(tl)) = Len(tl)
         /\ \A i \in 1..Len(tl) : BuiltSlots(tl)[i] = BuiltBy(tl, i)
         /\ PinnedSlots(tl) \in Seq(CardSet) /\ Len(PinnedSlots(tl)) = Len(tl)
         /\ \A i \in 1..Len(tl) : PinnedSlots(tl)[i] = PinnedBy(tl, i)
<1>1. Len(tl) \in Nat /\ DOMAIN tl = 1..Len(tl)
  OBVIOUS
<1>2. BuiltSlots(tl) \in [1..Len(tl) -> CardSet] /\ PinnedSlots(tl) \in [1..Len(tl) -> CardSet]
  BY <1>1, BuiltIs, PinnedIs DEF BuiltSlots, PinnedSlots
<1>3. BuiltSlots(tl) \in Seq(CardSet) /\ PinnedSlots(tl) \in Seq(CardSet)
  BY <1>1, <1>2, SeqDef
<1>4. Len(BuiltSlots(tl)) = Len(tl) /\ Len(PinnedSlots(tl)) = Len(tl)
  BY <1>1, <1>2, <1>3
<1> QED BY <1>1, <1>3, <1>4 DEF BuiltSlots, PinnedSlots

(* No two cards landed with the same event. *)
LEMMA CardsDiffer ==
  ASSUME NEW tl \in Seq(WallEvent), NEW c \in Range(AllCards(tl)), c.landed > 0
  PROVE  c = LandsAt(tl, c.landed)
<1> DEFINE a == BuiltSlots(tl)
           b == PinnedSlots(tl)
<1>1. a \in Seq(CardSet) /\ b \in Seq(CardSet) /\ Len(a) = Len(tl) /\ Len(b) = Len(tl)
      /\ (\A i \in 1..Len(tl) : a[i] = BuiltBy(tl, i)) /\ \A i \in 1..Len(tl) : b[i] = PinnedBy(tl, i)
  BY SlotsAre
<1>2. AllCards(tl) = Lines(a, b, FirstOf(tl), Drawable \ FirstOf(tl))
  BY <1>1, AllCardsAre
<1> HIDE DEF a, b
<1>3. Range(AllCards(tl)) \subseteq Range(a) \cup Range(b)
  BY <1>1, <1>2, LinesAre
<1>4. CASE c \in Range(a)
  <2>1. PICK i \in 1..Len(tl) : c = BuiltBy(tl, i)
    BY <1>1, <1>4 DEF Range
  <2> QED BY <2>1, BuiltIs
<1>5. CASE c \in Range(b)
  <2>1. PICK i \in 1..Len(tl) : c = PinnedBy(tl, i)
    BY <1>1, <1>5 DEF Range
  <2> QED BY <2>1, PinnedIs
<1> QED BY <1>3, <1>4, <1>5

(* What keepNewest keeps: the newest of the cards that landed, and all of   *)
(* them when there is room.                                                 *)
LEMMA NewestIsKept ==
  ASSUME WallAssumption, NEW x \in Seq(CardSet), NEW c \in Range(x), c.landed > 0,
         \A o \in Range(x) : o.landed > 0 => o.landed <= c.landed,
         \A o \in Range(x) : o.landed = c.landed => o = c
  PROVE  c \in Range(keepNewest(x))
<1> DEFINE landed == {i \in DOMAIN x : x[i].landed > 0}
           newer == {i \in landed : \A k \in landed : x[k].landed <= x[i].landed}
           q == Min(newer)
           y == [i \in 1..Shown |->
                  IF i = Shown /\ newer # {} /\ q > Shown THEN x[q] ELSE x[i]]
<1>1. Len(x) \in Nat /\ DOMAIN x = 1..Len(x) /\ Shown \in Nat \ {0}
      /\ \A i \in 1..Len(x) : x[i] \in Range(x) /\ x[i].landed \in Nat
  <2>1. Len(x) \in Nat /\ DOMAIN x = 1..Len(x) /\ Shown \in Nat \ {0}
    BY WallAssumption
  <2>2. \A i \in 1..Len(x) : x[i] \in Range(x) /\ x[i] \in CardSet
    BY <2>1, ElementOfSeq DEF Range
  <2> QED BY <2>1, <2>2 DEF CardSet
<1>2. CASE Len(x) <= Shown
  BY <1>2 DEF keepNewest
<1>3. CASE ~(Len(x) <= Shown)
  <2>1. keepNewest(x) = y
    BY <1>3 DEF keepNewest
  <2>2. PICK j \in 1..Len(x) : x[j] = c
    BY <1>1 DEF Range
  <2>3. j \in newer
    BY <1>1, <2>2
  <2>4. ASSUME NEW i \in newer PROVE i \in 1..Len(x) /\ x[i] = c
    <3>1. i \in 1..Len(x) /\ x[i] \in Range(x) /\ x[i].landed > 0 /\ x[j].landed <= x[i].landed
      BY <1>1, <2>3
    <3>2. x[i].landed = c.landed
      <4>1. x[i].landed <= c.landed /\ c.landed <= x[i].landed /\ x[i].landed \in Nat /\ c.landed \in Nat
        BY <1>1, <2>2, <3>1
      <4> QED BY <4>1
    <3> QED BY <3>1, <3>2
  <2>5. newer \in SUBSET (1..Len(x)) /\ newer # {}
    BY <1>1, <2>3
  <2> HIDE DEF newer
  <2>6. q \in newer
    <3>1. Earliest(newer) \in newer
      BY <1>1, <2>5, EarliestIs
    <3> QED BY <2>5, <3>1 DEF Earliest
  <2>7. q \in 1..Len(x) /\ x[q] = c
    BY <2>4, <2>6
  <2> HIDE DEF q
  <2>8. DOMAIN y = 1..Shown
    OBVIOUS
  <2>9. CASE q > Shown
    <3>1. Shown \in 1..Shown /\ y[Shown] = c
      BY <1>1, <2>5, <2>7, <2>9
    <3> HIDE DEF y
    <3> QED BY <2>1, <2>8, <3>1, Zenon DEF Range
  <2>10. CASE ~(q > Shown)
    <3>1. q \in 1..Shown /\ y[q] = c
      BY <1>1, <2>7, <2>10
    <3> HIDE DEF y
    <3> QED BY <2>1, <2>8, <3>1, Zenon DEF Range
  <2> QED BY <2>9, <2>10
<1> QED BY <1>2, <1>3

(* A pane that drew all but requests shows the same cards, those pending    *)
(* apart, while there is room, the same dashboards, and what landed last.   *)
LEMMA DrawsTheSame ==
  ASSUME WallAssumption, NEW d, NEW tl, GoesOn(d, tl), PinsAt(tl)
  PROVE  /\ Len(AllCards(tl)) <= Shown => Landed(RunWall(d)) = Landed(AllCards(tl))
         /\ \A c \in Range(AllCards(tl)) :
              (c.landed > 0 /\ \A o \in Range(AllCards(tl)) : o.landed <= c.landed)
                => c \in Range(RunWall(d))
<1> DEFINE L == {c \in CardSet : c.landed > 0}
           F == FirstOf(tl)
           a == BuiltSlots(d)
           b == PinnedSlots(d)
           p == BuiltSlots(tl)
           q == PinnedSlots(tl)
<1>1. d \in Seq(WallEvent) /\ tl \in Seq(WallEvent) /\ Len(d) <= Len(tl)
      /\ Len(d) \in Nat /\ Len(tl) \in Nat /\ FirstOf(d) = F
  BY WallFoldsAgree DEF GoesOn, FirstOf
<1>2. /\ a \in Seq(CardSet) /\ b \in Seq(CardSet) /\ Len(a) = Len(d) /\ Len(b) = Len(d)
      /\ (\A i \in 1..Len(d) : a[i] = BuiltBy(d, i)) /\ \A i \in 1..Len(d) : b[i] = PinnedBy(d, i)
  BY <1>1, SlotsAre
<1>3. /\ p \in Seq(CardSet) /\ q \in Seq(CardSet) /\ Len(p) = Len(tl) /\ Len(q) = Len(tl)
      /\ (\A i \in 1..Len(tl) : p[i] = BuiltBy(tl, i)) /\ \A i \in 1..Len(tl) : q[i] = PinnedBy(tl, i)
  BY <1>1, SlotsAre
<1> DEFINE x == Lines(a, b, F, Drawable \ F)
           y == Lines(p, q, F, Drawable \ F)
<1>4. AllCards(d) = x /\ AllCards(tl) = y
  BY <1>1, <1>2, <1>3, AllCardsAre
<1> HIDE DEF a, b, p, q, F
<1>5. Extends(a, p, L)
  <2>1. \A i \in 1..Len(d) : i \in 1..Len(tl)
    BY <1>1
  <2>2. \A i \in (Len(d) + 1)..Len(tl) : i \in 1..Len(tl)
    BY <1>1
  <2> QED BY <1>1, <1>2, <1>3, <2>1, <2>2, BuiltAgrees DEF Extends
<1>6. Extends(b, q, L)
  <2>1. \A i \in 1..Len(d) : i \in 1..Len(tl)
    BY <1>1
  <2>2. \A i \in (Len(d) + 1)..Len(tl) : i \in 1..Len(tl)
    BY <1>1
  <2> QED BY <1>1, <1>2, <1>3, <2>1, <2>2, PinnedAgrees DEF Extends
<1> HIDE DEF L
<1>7. Len(x) <= Len(y) /\ Kept(x, L) = Kept(y, L)
  <2> DEFINE G == Drawable \ F
  <2>1. /\ a \in Seq(CardSet) /\ b \in Seq(CardSet) /\ p \in Seq(CardSet) /\ q \in Seq(CardSet)
    BY <1>2, <1>3
  <2> HIDE DEF G
  <2>2. /\ Len(Lines(a, b, F, G)) <= Len(Lines(p, q, F, G))
        /\ Kept(Lines(a, b, F, G), L) = Kept(Lines(p, q, F, G), L)
    BY <1>5, <1>6, <2>1, LinesGoOn
  <2> QED BY <2>2 DEF G
<1>8. x \in Seq(CardSet) /\ y \in Seq(CardSet) /\ Len(x) \in Nat /\ Len(y) \in Nat
  BY <1>2, <1>3, LinesAre, LenProperties
<1> HIDE DEF x, y
<1>9. ASSUME NEW s \in Seq(CardSet)
      PROVE  Landed(s) = Kept(s, L) /\ Range(Kept(s, L)) = Range(s) \cap L /\ Range(s) \subseteq CardSet
  <2> DEFINE T == {c \in Range(s) : c.landed > 0}
  <2>1. \A i \in 1..Len(s) : s[i] \in CardSet /\ s[i] \in Range(s)
    BY ElementOfSeq DEF Range
  <2>2. \A i \in 1..Len(s) : s[i] \in T <=> s[i] \in L
    BY <2>1 DEF L
  <2>3. Landed(s) = Kept(s, T)
    BY DEF Landed
  <2>5. Range(s) \subseteq CardSet
    BY RangeOfSeq
  <2>6. Range(Kept(s, L)) = Range(s) \cap L
    BY KeptRange
  <2> HIDE DEF T
  <2>7. Kept(s, T) = Kept(s, L)
    BY <2>2, KeptSets
  <2> QED BY <2>3, <2>5, <2>6, <2>7
<1>10. ASSUME Len(y) <= Shown PROVE Landed(RunWall(d)) = Landed(y)
  <2>1. Len(x) <= Shown
    BY <1>7, <1>8, <1>10, WallAssumption
  <2>2. RunWall(d) = x
    BY <1>4, <2>1 DEF RunWall, keepNewest
  <2>3. Landed(x) = Kept(x, L) /\ Landed(y) = Kept(y, L)
    BY <1>8, <1>9
  <2> QED BY <1>7, <2>2, <2>3
<1>11. ASSUME NEW c \in Range(y), c.landed > 0, \A o \in Range(y) : o.landed <= c.landed
       PROVE  c \in Range(RunWall(d))
  <2>1. Range(x) \cap L = Range(y) \cap L /\ Range(x) \subseteq CardSet /\ Range(y) \subseteq CardSet
    <3>1. Range(Kept(x, L)) = Range(x) \cap L /\ Range(Kept(y, L)) = Range(y) \cap L
          /\ Range(x) \subseteq CardSet /\ Range(y) \subseteq CardSet
      BY <1>8, <1>9
    <3> QED BY <1>7, <3>1
  <2>2. \A o \in CardSet : o \in L <=> o.landed > 0
    BY DEF L
  <2>3. c \in Range(x)
    BY <1>11, <2>1, <2>2
  <2>4. \A o \in Range(x) : o.landed > 0 => o \in Range(y)
    BY <2>1, <2>2
  <2>5. \A o \in Range(x) : o.landed > 0 => o.landed <= c.landed
    BY <1>11, <2>4
  <2>6. \A o \in Range(x) : o.landed = c.landed => o = c
    <3>1. SUFFICES ASSUME NEW o \in Range(x), o.landed = c.landed PROVE o = c
      OBVIOUS
    <3>2. o = LandsAt(d, o.landed)
      BY <1>1, <1>4, <1>11, <3>1, CardsDiffer
    <3>3. c = LandsAt(d, c.landed)
      BY <1>1, <1>4, <1>11, <2>3, CardsDiffer
    <3> QED BY <3>1, <3>2, <3>3
  <2>7. c \in Range(keepNewest(x))
    BY <1>8, <1>11, <2>3, <2>5, <2>6, NewestIsKept
  <2> QED BY <1>4, <2>7 DEF RunWall
<1> QED BY <1>4, <1>10, <1>11

(* At rest, a pane has drawn whatever changed the wall.                     *)
LEMMA RestsDrawn == WallInv /\ AtRest => GoesOn(Drawn, wallTimeline)
<1> SUFFICES ASSUME WallInv, AtRest PROVE GoesOn(Drawn, wallTimeline)
  OBVIOUS
<1> DEFINE N == Len(wallTimeline)
           m == pane.drawn
<1>1. /\ wallTimeline \in Seq(WallEvent) /\ N \in Nat /\ m \in 0..N /\ pane.seen \in 0..N
      /\ wall.seq \in Nat /\ restarts \in Nat
  BY DEF WallInv, WallShape, WallFits, Walls
<1>2. /\ ~pane.asking /\ pane.seen = wall.seq /\ wallHeard = N /\ wallMissed = {}
      /\ restarts > 0 => pane.seen > 0
  BY DEF AtRest
<1>3. pane.seen <= m
  BY <1>2 DEF WallInv, PaneInv
<1>4. ASSUME NEW i \in Shapes(N) PROVE i <= m
  <2>1. i \in 1..N
    BY DEF Shapes
  <2>2. CASE restarts = 0
    <3>1. i <= wall.seq \/ pane.asking \/ i <= m
      BY <1>2, <2>2 DEF WallInv, PaneInv
    <3> QED BY <1>1, <1>2, <1>3, <2>1, <3>1
  <2>3. CASE restarts > 0
    <3>1. wall.seq > 0
      BY <1>2, <2>3
    <3>2. i <= wall.seq
      BY <1>2, <2>3, <3>1 DEF WallInv, PaneInv
    <3> QED BY <1>1, <1>2, <1>3, <2>1, <3>2
  <2> QED BY <1>1, <2>2, <2>3
<1> DEFINE d == SubSeq(wallTimeline, 1, m)
<1>5. d \in Seq(WallEvent) /\ Len(d) = m /\ \A i \in 1..m : d[i] = wallTimeline[i]
  <2>1. 1 \in Int /\ m \in Int /\ \A i \in 1..m : wallTimeline[i] \in WallEvent
    BY <1>1
  <2> HIDE DEF m
  <2>2. /\ d \in Seq(WallEvent) /\ Len(d) = (IF 1 <= m THEN m - 1 + 1 ELSE 0)
        /\ \A i \in 1..(m - 1 + 1) : d[i] = wallTimeline[1 + i - 1]
    BY <2>1, SubSeqProperties
  <2>3. m - 1 + 1 = m /\ (~(1 <= m) => m = 0) /\ \A i \in 1..m : 1 + i - 1 = i
    BY <1>1 DEF m
  <2> HIDE DEF d
  <2> QED BY <2>2, <2>3
<1>6. ASSUME NEW i \in (m + 1)..N PROVE wallTimeline[i].kind = "requested"
  <2>1. i \in 1..N /\ ~(i <= m)
    BY <1>1
  <2>2. i \notin Shapes(N)
    BY <1>4, <2>1
  <2> QED BY <2>1, <2>2 DEF Shapes, IsWidgetShaping
<1>7. Drawn = d
  BY DEF Drawn
<1> HIDE DEF d, m
<1>8. m <= N
  BY <1>1 DEF m
<1> QED BY <1>1, <1>5, <1>6, <1>7, <1>8 DEF GoesOn

(* The invariant implies the property: the newest is news, and at rest, as  *)
(* no change is past what was drawn, what was drawn is the wall as it is.   *)
LEMMA WallInvShows == WallAssumption /\ WallInv => WallIsRight
<1> SUFFICES ASSUME WallAssumption, WallInv PROVE WallIsRight
  OBVIOUS
<1>1. NewestIsNew /\ PinsAt(wallTimeline)
  BY DEF WallInv, PinsFollow, PinsAt
<1>2. PaneIsFresh
  <2>1. SUFFICES ASSUME AtRest
        PROVE  LET all == AllCards(wallTimeline)
               IN  /\ Len(all) <= Shown => Landed(RunWall(Drawn)) = Landed(all)
                   /\ \A p \in Sharer : Dashboard(Drawn, p) = Dashboard(wallTimeline, p)
                   /\ \A c \in Range(all) :
                        (c.landed > 0 /\ \A o \in Range(all) : o.landed <= c.landed)
                          => c \in Range(RunWall(Drawn))
    BY Zenon DEF PaneIsFresh
  <2>2. GoesOn(Drawn, wallTimeline)
    BY <2>1, RestsDrawn
  <2>3. \A p \in Sharer : Dashboard(Drawn, p) = Dashboard(wallTimeline, p)
    BY <2>2, WallFoldsAgree
  <2> QED BY <1>1, <2>2, <2>3, DrawsTheSame
<1> QED BY <1>1, <1>2 DEF WallIsRight

(***************************************************************************)
(* The widget that the daemon names as the newest came with that event,    *)
(* and a pane at rest shows the wall as it is: every card that landed, the *)
(* pins, the arrangement and each person's dashboard, and what landed last *)
(* (noteWallLocked, seedWallLocked, landWidgetLocked, runWall, keepNewest);*)
(* for any widgets and people, any room on the pane and in the daemon's    *)
(* memory, and any number of posts, losses and restarts.                   *)
(***************************************************************************)
THEOREM WallIsKept ==
  ASSUME WallAssumption
  PROVE  SpecWall => []WallIsRight
<1>1. InitWall => WallInv
  BY InitWallInv
<1>2. WallInv /\ [NextWall]_wallVars => WallInv'
  BY StepWallInv
<1>3. WallInv => WallIsRight
  BY WallInvShows
<1> QED BY <1>1, <1>2, <1>3, PTL DEF SpecWall

(* Every reachable state of the wall is well typed: nothing is remembered   *)
(* of what was not heard or seeded, within the bounds of the memory.        *)
THEOREM WallTypes ==
  ASSUME WallAssumption
  PROVE  SpecWall => []WallTypeOK
<1>1. WallInv => WallTypeOK
  <2> SUFFICES ASSUME WallInv PROVE WallTypeOK
    OBVIOUS
  <2>1. /\ wallTimeline \in Seq(WallEvent) /\ Len(wallTimeline) \in Nat
        /\ wallHeard \in 0..Len(wallTimeline) /\ WallFits(wall, wallHeard)
        /\ seed \in {"read", "done", "failed"}
        /\ pane \in [seen : 0..Len(wallTimeline), asking : BOOLEAN, drawn : 0..Len(wallTimeline)]
        /\ wallLosses \in Nat /\ restarts \in Nat /\ wallLosses + restarts <= MaxTroubles
        /\ wallMissed \subseteq 1..wallHeard /\ MaxTroubles \in Nat
    BY WallAssumption DEF WallInv, WallShape
  <2>2. /\ wall.seq \in 0..wallHeard /\ wall.newest.seq \in 0..wallHeard
        /\ {wall.newest.titled, wall.newest.early, wall.forgot, wall.seeded} \subseteq BOOLEAN
    BY <2>1 DEF WallFits, Walls
  <2>3. /\ Len(wall.byID.order) <= MemoMax /\ Len(wall.bySeq) <= MemoMax
        /\ wall.byID.titled \cup wall.byID.landed \subseteq Range(wall.byID.order)
        /\ Range(wall.bySeq) \subseteq Where(wallTimeline, {"edge"})
    BY <2>1, Zenon DEF WallFits, MemoFits
  <2>4. {wallLosses, restarts} \subseteq 0..MaxTroubles
    BY <2>1
  <2>5. pane.seen \in 0..Len(wallTimeline) /\ pane.asking \in BOOLEAN /\ pane.drawn \in 0..Len(wallTimeline)
    BY <2>1
  <2> QED BY <2>1, <2>2, <2>3, <2>4, <2>5 DEF WallTypeOK
<1>2. InitWall => WallInv
  BY InitWallInv
<1>3. WallInv /\ [NextWall]_wallVars => WallInv'
  BY StepWallInv
<1> QED BY <1>1, <1>2, <1>3, PTL DEF SpecWall
=============================================================================
