----------------------------- MODULE SeatsProofs ------------------------------
(***************************************************************************)
(* The seats of a room, for any number of harnesses, front ends, joins and *)
(* lost answers: the room on the server and the seats here agree.          *)
(***************************************************************************)
EXTENDS Seats, TLAPS

(* Instances are numbered by the joins that made them, each has one label. *)
Counted ==
  /\ joins \in 0..MaxJoins /\ leaving \subseteq 1..joins
  /\ \A p \in present : p.inst \in 1..joins
  /\ \A p, q \in present : p.inst = q.inst => p = q
  /\ \A l \in Held : seats[l] \in 1..joins

(* Without a room nobody has a seat; whoever opens one is alone.            *)
RoomFirst ==
  /\ room \in {"none", "opening"} =>
       /\ \A l \in Label : seats[l] = None
       /\ \A f \in Front : front[f] \in {"away", "opening"}
  /\ \A f, g \in Front :
       At(f, "opening") => room = "opening" /\ (At(g, "opening") => g = f)

(* Whoever joins has the mark of its label, and the label no seat.          *)
MarkedJoins ==
  \A f \in Front : At(f, "joining") => seating[LabelOf[f]] = f /\ LabelOf[f] \notin Held

(* Between EnsureSeat and Attach the seat is there, or the reaping is known. *)
Seatable ==
  \A f \in Front :
    At(f, "frame") \/ (f \in Agent /\ At(f, "attached")) =>
      LabelOf[f] \in Held \/ f \in overtaken

(* Of an open room every seat is present on the server, and stays.          *)
SeatsArePresent ==
  room = "open" =>
    \A l \in Held : [inst |-> seats[l], label |-> l] \in present /\ seats[l] \notin leaving

SeatsInv ==
  /\ SeatsTypeOK /\ Counted /\ RoomFirst /\ MarkedJoins /\ Seatable
  /\ PresenceIsHeld /\ SeatsArePresent /\ BeatsOnlyThePresent

USE NoneIsNone, FrontsHaveLabels, BoundsAreNumbers DEF At, Held, Inst

(* At first no room is held and nobody waits. *)
LEMMA InitSeats == Init => SeatsInv
BY DEF Init, SeatsInv, SeatsTypeOK, Counted, RoomFirst, MarkedJoins, Seatable, PresenceIsHeld,
  SeatsArePresent, BeatsOnlyThePresent

(* What one join does to the server's side, whoever hears of it.            *)
LEMMA JoinedCounts ==
  ASSUME SeatsInv, NEW l \in Label, Joined(l), UNCHANGED leaving,
         seats' = seats \/ seats' = [seats EXCEPT ![l] = joins + 1]
  PROVE  /\ Counted' /\ present' \subseteq [inst : Inst, label : Label]
         /\ joins + 1 \in Inst /\ joins + 1 # None /\ joins + 1 \notin leaving
         /\ \A p \in present : p.inst # joins + 1
<1> DEFINE new == [inst |-> joins + 1, label |-> l]
<1>1. joins' = joins + 1 /\ present' = present \cup {new} /\ joins < MaxJoins
  BY DEF Joined
<1>2. joins \in Nat /\ joins + 1 \in 1..MaxJoins /\ joins + 1 # None
  BY <1>1 DEF SeatsInv, Counted
<1>3. new \in [inst : Inst, label : Label] /\ new.inst = joins + 1
  BY <1>2
<1>4. \A p \in present : p.inst \in 1..joins /\ p.inst # joins + 1
  BY <1>2 DEF SeatsInv, Counted
<1>5. leaving \subseteq 1..joins' /\ joins + 1 \notin leaving
  BY <1>1, <1>2 DEF SeatsInv, Counted
<1> HIDE DEF new
<1>6. \A p \in present' : p.inst \in 1..joins'
  BY <1>1, <1>2, <1>3, <1>4
<1>7. \A p, q \in present' : p.inst = q.inst => p = q
  BY <1>1, <1>3, <1>4 DEF SeatsInv, Counted
<1>8. \A k \in Held' : seats'[k] \in 1..joins'
  BY <1>1, <1>2 DEF SeatsInv, SeatsTypeOK, Counted
<1> QED BY <1>1, <1>2, <1>3, <1>4, <1>5, <1>6, <1>7, <1>8 DEF Counted, SeatsInv, SeatsTypeOK

(* A step keeps the types. *)
LEMMA TypesNext ==
  ASSUME SeatsInv, Next PROVE SeatsTypeOK'
<1>0. \A l \in Held : seats[l] \in Inst
  BY DEF SeatsInv, SeatsTypeOK
<1> USE DEF SeatsInv, SeatsTypeOK, Goes
<1>1. ASSUME NEW f \in Front,
             OpenOrAttach(f) \/ OpenFails(f) \/ FindSeat(f) \/ TakeSeat(f) \/ SeatFails(f)
               \/ Attach(f) \/ Detach(f)
      PROVE  SeatsTypeOK'
  <2>1. CASE OpenOrAttach(f) 
    BY <2>1 DEF OpenOrAttach
  <2>2. CASE OpenFails(f)
    <3>1. present' \subseteq [inst : Inst, label : Label]
      BY <2>2, JoinedCounts DEF OpenFails, JoinFails
    <3>2. primary = None
      BY <2>2 DEF OpenFails, RoomFirst
    <3> QED BY <2>2, <3>1, <3>2 DEF OpenFails
  <2>3. CASE FindSeat(f)
    BY <2>3 DEF FindSeat
  <2>7. CASE TakeSeat(f)
    <3>1. seating' \in [Label -> Front \cup {None}]
      BY <2>7 DEF TakeSeat
    <3> QED BY <2>7, <3>1 DEF TakeSeat
  <2>4. CASE SeatFails(f)
    <3>1. present' \subseteq [inst : Inst, label : Label]
      BY <2>4, JoinedCounts DEF SeatFails, JoinFails
    <3> QED BY <2>4, <3>1 DEF SeatFails, FreedOnFailure, Freed
  <2>5. CASE Attach(f)
    BY <2>5 DEF Attach
  <2>6. CASE Detach(f)
    BY <2>6 DEF Detach
  <2> QED BY <1>1, <2>1, <2>2, <2>3, <2>4, <2>5, <2>6, <2>7
<1>2. ASSUME NEW f \in Front, Opened(f) PROVE SeatsTypeOK'
  <2>1. present' \subseteq [inst : Inst, label : Label] /\ joins + 1 \in Inst /\ joins + 1 # None
    BY <1>2, JoinedCounts DEF Opened, JoinLands
  <2>2. seats' = [seats EXCEPT ![LabelOf[f]] = joins + 1] /\ primary' = LabelOf[f]
    BY <1>2 DEF Opened
  <2>3. primary' \in Held'
    BY <2>1, <2>2
  <2> QED BY <1>2, <2>1, <2>2, <2>3 DEF Opened
<1>3. ASSUME NEW f \in Front, Seated(f) PROVE SeatsTypeOK'
  <2>1. CASE LabelOf[f] \in Held
    BY <1>3, <2>1 DEF MarkedJoins, Seated
  <2>2. CASE LabelOf[f] \notin Held
    <3>1. UNCHANGED leaving
      BY <1>3, <2>2 DEF Seated
    <3>2. present' \subseteq [inst : Inst, label : Label] /\ joins + 1 \in Inst /\ joins + 1 # None
      BY <1>3, <3>1, JoinedCounts DEF Seated, JoinLands
    <3>3. seats' = [seats EXCEPT ![LabelOf[f]] = joins + 1]
      BY <1>3, <2>2 DEF Seated
    <3> QED BY <1>3, <2>2, <3>1, <3>2, <3>3 DEF Seated, Freed
  <2> QED BY <2>1, <2>2
<1>4. CASE Reap
  <2>1. CASE watched
    <3>1. /\ idle' = [l \in Label |-> IF l \in Held THEN "used" ELSE idle[l]]
          /\ UNCHANGED <<seats, primary, leaving, overtaken>>
      BY <1>4, <2>1 DEF Reap
    <3>2. idle' \in [Label -> {"used", "idle", "grace"}]
      BY <3>1
    <3> QED BY <1>4, <3>1, <3>2 DEF Reap
  <2>2. CASE ~watched
    <3>1. seats' \in [Label -> Inst \cup {None}] /\ Held' = Held \ Reaped
      BY <1>4, <2>2 DEF Reap, Reaped
    <3>2. leaving' \subseteq Inst
      <4>1. GoneInstances \subseteq Inst
        BY ONLY <1>0 DEF Reaped, GoneInstances
      <4> QED BY <1>4, <2>2, <4>1 DEF Reap
    <3>3. primary' \in Held \ Reaped
      BY <1>4, <2>2 DEF Reap, Promote
    <3>4. idle' \in [Label -> {"used", "idle", "grace"}]
      BY <1>4, <2>2 DEF Reap
    <3> HIDE DEF Held
    <3> QED BY <1>4, <3>1, <3>2, <3>3, <3>4 DEF Reap
  <2> QED BY <2>1, <2>2
<1>5. CASE Exit
  BY <1>5 DEF Exit
<1>6. CASE Shutdown
  <2>1. {seats[l] : l \in Held} \subseteq Inst
    BY ONLY <1>0
  <2>2. leaving' \subseteq Inst
    BY <1>6, <2>1 DEF Shutdown
  <2> QED BY <1>6, <2>2 DEF Shutdown
<1>7. CASE Watch \/ RoomGrace \/ SendBeat
  BY <1>7 DEF Watch, RoomGrace, SendBeat
<1>8. ASSUME NEW l \in Label, SeatGrace(l) PROVE SeatsTypeOK'
  BY <1>8 DEF SeatGrace
<1>9. ASSUME NEW i \in Inst, Left(i) \/ CheckSeat(i) PROVE SeatsTypeOK'
  BY <1>9 DEF Left, CheckSeat
<1> QED BY <1>1, <1>2, <1>3, <1>4, <1>5, <1>6, <1>7, <1>8, <1>9 DEF Next, IdleExit, Stop

(* Instances are numbered by the joins that made them, with one label each. *)
LEMMA CountedNext ==
  ASSUME SeatsInv, Next PROVE Counted'
<1>1. \A l \in Held : seats[l] \in 1..joins
  BY DEF SeatsInv, Counted
<1>2. ASSUME UNCHANGED <<seats, leaving, joins, present>> PROVE Counted'
  BY <1>2 DEF SeatsInv, Counted
<1>3. ASSUME NEW f \in Front, OpenFails(f) \/ SeatFails(f) PROVE Counted'
  <2>1. JoinFails(LabelOf[f]) /\ UNCHANGED <<seats, leaving>>
    BY <1>3 DEF OpenFails, SeatFails
  <2>2. CASE UNCHANGED <<joins, present>>
    BY <1>2, <2>1, <2>2
  <2> QED BY <2>1, <2>2, JoinedCounts DEF JoinFails
<1>4. ASSUME NEW f \in Front, Opened(f) \/ Seated(f) PROVE Counted'
  <2>1. Joined(LabelOf[f]) /\ UNCHANGED leaving
          /\ seats' = [seats EXCEPT ![LabelOf[f]] = joins + 1]
    BY <1>4 DEF Opened, Seated, JoinLands, SeatsInv, MarkedJoins
  <2> QED BY <2>1, JoinedCounts
<1>5. CASE Reap
  <2>1. GoneInstances \subseteq 1..joins
    BY ONLY <1>1 DEF Reaped, GoneInstances
  <2>2. leaving' \subseteq 1..joins /\ UNCHANGED <<joins, present>>
    BY <1>5, <2>1 DEF Reap, SeatsInv, Counted
  <2>3. \A l \in Held' : l \in Held /\ seats'[l] = seats[l]
    BY <1>5 DEF Reap, SeatsInv, SeatsTypeOK
  <2> QED BY <1>1, <2>2, <2>3 DEF SeatsInv, Counted
<1>6. CASE Shutdown
  <2>1. {seats[l] : l \in Held} \subseteq 1..joins
    BY ONLY <1>1
  <2> QED BY <1>6, <2>1 DEF Shutdown, SeatsInv, Counted
<1>7. CASE Exit
  BY <1>7 DEF Exit, SeatsInv, Counted
<1>8. ASSUME NEW i \in Inst, Left(i) PROVE Counted'
  BY <1>8 DEF Left, SeatsInv, Counted
<1>9. ASSUME NEW f \in Front,
             OpenOrAttach(f) \/ FindSeat(f) \/ TakeSeat(f) \/ Attach(f) \/ Detach(f)
      PROVE  UNCHANGED <<seats, leaving, joins, present>>
  BY <1>9 DEF OpenOrAttach, FindSeat, TakeSeat, Attach, Detach
<1>10. ASSUME Watch \/ RoomGrace \/ SendBeat \/ (\E l \in Label : SeatGrace(l))
                \/ \E i \in Inst : CheckSeat(i)
       PROVE  UNCHANGED <<seats, leaving, joins, present>>
  BY <1>10 DEF Watch, RoomGrace, SendBeat, SeatGrace, CheckSeat
<1> QED BY <1>2, <1>3, <1>4, <1>5, <1>6, <1>7, <1>8, <1>9, <1>10 DEF Next, IdleExit, Stop

(* Without a room nobody has a seat, and whoever opens one is alone. *)
LEMMA RoomFirstNext ==
  ASSUME SeatsInv, Next PROVE RoomFirst'
<1> USE DEF SeatsInv, RoomFirst, SeatsTypeOK, Goes
<1>1. ASSUME UNCHANGED <<room, seats, front>> PROVE RoomFirst'
  BY <1>1
<1>2. ASSUME NEW f \in Front, OpenOrAttach(f) PROVE RoomFirst'
  BY <1>2 DEF OpenOrAttach
<1>3. ASSUME NEW f \in Front, Opened(f) PROVE RoomFirst'
  BY <1>3 DEF Opened
<1>4. ASSUME NEW f \in Front, OpenFails(f) PROVE RoomFirst'
  BY <1>4 DEF OpenFails
<1>5. ASSUME NEW f \in Front,
             FindSeat(f) \/ TakeSeat(f) \/ Seated(f) \/ SeatFails(f) \/ Attach(f) \/ Detach(f)
      PROVE  RoomFirst'
  BY <1>5 DEF FindSeat, TakeSeat, Seated, SeatFails, Attach, Detach
<1>6. CASE Reap \/ Shutdown \/ Exit
  BY <1>6 DEF Reap, Shutdown, Exit
<1>7. ASSUME Watch \/ RoomGrace \/ SendBeat \/ (\E l \in Label : SeatGrace(l))
               \/ \E i \in Inst : Left(i) \/ CheckSeat(i)
      PROVE  UNCHANGED <<room, seats, front>>
  BY <1>7 DEF Watch, RoomGrace, SendBeat, SeatGrace, Left, CheckSeat
<1> QED BY <1>1, <1>2, <1>3, <1>4, <1>5, <1>6, <1>7 DEF Next, IdleExit, Stop

(* Whoever joins has the mark of its label, and the label no seat. *)
LEMMA MarkedJoinsNext ==
  ASSUME SeatsInv, Next PROVE MarkedJoins'
<1> USE DEF SeatsInv, MarkedJoins, SeatsTypeOK, Goes
<1>1. ASSUME UNCHANGED <<seats, seating>>,
             \A f \in Front : At(f, "joining")' => At(f, "joining")
      PROVE  MarkedJoins'
  BY <1>1
<1>2. ASSUME NEW f \in Front, OpenOrAttach(f) \/ OpenFails(f) \/ FindSeat(f) \/ Attach(f) \/ Detach(f)
      PROVE  MarkedJoins'
  BY <1>1, <1>2 DEF OpenOrAttach, OpenFails, FindSeat, Attach, Detach
<1>3. ASSUME NEW f \in Front, Opened(f) PROVE MarkedJoins'
  BY <1>3 DEF Opened, RoomFirst
<1>4. ASSUME NEW f \in Front, TakeSeat(f) PROVE MarkedJoins'
  <2>1. seating[LabelOf[f]] = None
    BY <1>4 DEF TakeSeat, Busy
  <2>2. \A g \in Front : At(g, "joining") => LabelOf[g] # LabelOf[f]
    BY <2>1
  <2> QED BY <1>4, <2>1, <2>2 DEF TakeSeat
<1>5. ASSUME NEW f \in Front, Seated(f) \/ SeatFails(f) PROVE MarkedJoins'
  <2>1. \A g \in Front : At(g, "joining") /\ g # f => LabelOf[g] # LabelOf[f]
    BY <1>5 DEF Seated, SeatFails
  <2>2. /\ front' = [front EXCEPT ![f] = front'[f]] /\ front'[f] # "joining"
        /\ seating' = [seating EXCEPT ![LabelOf[f]] = None]
        /\ \A l \in Label : l # LabelOf[f] => seats'[l] = seats[l]
    BY <1>5 DEF Seated, SeatFails, Freed, FreedOnFailure
  <2> QED BY <2>1, <2>2
<1>6. CASE Reap
  <2>1. \A l \in Held' : l \in Held
    BY <1>6 DEF Reap
  <2> QED BY <1>6, <2>1 DEF Reap
<1>7. CASE Exit
  BY <1>7 DEF Exit
<1>8. ASSUME Watch \/ RoomGrace \/ SendBeat \/ Shutdown \/ (\E l \in Label : SeatGrace(l))
               \/ \E i \in Inst : Left(i) \/ CheckSeat(i)
      PROVE  UNCHANGED <<seats, seating, front>>
  BY <1>8 DEF Watch, RoomGrace, SendBeat, Shutdown, SeatGrace, Left, CheckSeat
<1> QED BY <1>1, <1>2, <1>3, <1>4, <1>5, <1>6, <1>7, <1>8 DEF Next, IdleExit, Stop

(* Between EnsureSeat and Attach the seat is there, or the reaping is known. *)
LEMMA SeatableNext ==
  ASSUME SeatsInv, Next PROVE Seatable'
<1> USE DEF SeatsInv, Seatable, SeatsTypeOK, Goes
<1>1. ASSUME UNCHANGED <<seats, front, overtaken>> PROVE Seatable'
  BY <1>1
<1>2. ASSUME NEW f \in Front,
             OpenOrAttach(f) \/ OpenFails(f) \/ FindSeat(f) \/ TakeSeat(f) \/ SeatFails(f)
               \/ Attach(f) \/ Detach(f)
      PROVE  Seatable'
  BY <1>2 DEF OpenOrAttach, OpenFails, FindSeat, TakeSeat, SeatFails, Attach, Detach
<1>3. ASSUME NEW f \in Front, Opened(f) \/ Seated(f) PROVE Seatable'
  <2>1. seats' = [seats EXCEPT ![LabelOf[f]] = joins + 1] /\ joins + 1 # None /\ UNCHANGED overtaken
    BY <1>3 DEF Opened, Seated, Counted, MarkedJoins
  <2>2. \A g \in Front : LabelOf[g] \in Held => LabelOf[g] \in Held'
    BY <2>1
  <2>3. LabelOf[f] \in Held'
    BY <2>1
  <2>4. \A g \in Front : g # f => front'[g] = front[g]
    BY <1>3 DEF Opened, Seated
  <2> QED BY <2>1, <2>2, <2>3, <2>4
<1>4. CASE Reap
  <2>1. CASE watched
    BY <1>4, <2>1 DEF Reap
  <2>2. CASE ~watched
    <3>1. /\ UNCHANGED front /\ Held' = Held \ Reaped
          /\ overtaken' = overtaken \cup {f \in Front : At(f, "frame") /\ LabelOf[f] \in Reaped}
      BY <1>4, <2>2 DEF Reap, Reaped
    <3>2. \A f \in Agent : At(f, "attached") => LabelOf[f] \notin Reaped
      BY DEF Reaped, InUse, Connected
    <3> HIDE DEF Held
    <3> QED BY <3>1, <3>2
  <2> QED BY <2>1, <2>2
<1>5. CASE Exit
  BY <1>5 DEF Exit
<1>6. ASSUME Watch \/ RoomGrace \/ SendBeat \/ Shutdown \/ (\E l \in Label : SeatGrace(l))
               \/ \E i \in Inst : Left(i) \/ CheckSeat(i)
      PROVE  UNCHANGED <<seats, front, overtaken>>
  BY <1>6 DEF Watch, RoomGrace, SendBeat, Shutdown, SeatGrace, Left, CheckSeat
<1> QED BY <1>1, <1>2, <1>3, <1>4, <1>5, <1>6 DEF Next, IdleExit, Stop

(* Whoever is present has a seat here, is being left, or joined unheard. *)
LEMMA PresenceNext ==
  ASSUME SeatsInv, Next PROVE PresenceIsHeld'
<1> USE DEF SeatsInv, PresenceIsHeld, SeatsTypeOK
<1>1. ASSUME UNCHANGED <<seats, present, leaving, orphans>> PROVE PresenceIsHeld'
  BY <1>1
<1>2. ASSUME NEW f \in Front, OpenFails(f) \/ SeatFails(f) PROVE PresenceIsHeld'
  <2>1. UNCHANGED <<seats, leaving>> /\ JoinFails(LabelOf[f])
    BY <1>2 DEF OpenFails, SeatFails
  <2> QED BY <2>1 DEF JoinFails, Joined
<1>3. ASSUME NEW f \in Front, Opened(f) \/ Seated(f) PROVE PresenceIsHeld'
  <2>1. /\ seats' = [seats EXCEPT ![LabelOf[f]] = joins + 1] /\ UNCHANGED <<orphans, leaving>>
        /\ present' = present \cup {[inst |-> joins + 1, label |-> LabelOf[f]]}
        /\ seats[LabelOf[f]] = None
    BY <1>3 DEF Opened, Seated, JoinLands, Joined, MarkedJoins, RoomFirst
  <2>2. \A p \in present : p.inst \in Inst /\ p.label \in Label
    OBVIOUS
  <2>3. ASSUME NEW p \in present
        PROVE  p.inst \in leaving \cup orphans \/ seats'[p.label] = p.inst
    BY <2>1, <2>2
  <2> QED BY <2>1, <2>3
<1>4. CASE Reap
  <2>1. CASE watched
    BY <1>4, <2>1 DEF Reap
  <2>2. CASE ~watched
    <3>1. /\ UNCHANGED <<present, orphans>> /\ leaving' = leaving \cup GoneInstances
          /\ \A l \in Label : l \in Reaped \/ seats'[l] = seats[l]
      BY <1>4, <2>2 DEF Reap
    <3>2. \A l \in Reaped : seats[l] \in GoneInstances
      BY DEF GoneInstances
    <3>3. \A p \in present : p.label \in Label
      OBVIOUS
    <3> QED BY <3>1, <3>2, <3>3
  <2> QED BY <2>1, <2>2
<1>5. CASE Exit
  <2>1. leaving = {} /\ UNCHANGED <<present, leaving>>
    BY <1>5 DEF Exit
  <2>2. orphans' = orphans \cup {seats[l] : l \in {k \in Held : \E p \in present : p.inst = seats[k]}}
    BY <1>5 DEF Exit
  <2>3. \A p \in present : p.label \in Label /\ p.inst # None
    OBVIOUS
  <2> QED BY <2>1, <2>2, <2>3
<1>6. CASE Shutdown
  BY <1>6 DEF Shutdown
<1>7. ASSUME NEW i \in Inst, Left(i) PROVE PresenceIsHeld'
  BY <1>7 DEF Left
<1>8. ASSUME NEW f \in Front,
             OpenOrAttach(f) \/ FindSeat(f) \/ TakeSeat(f) \/ Attach(f) \/ Detach(f)
      PROVE  UNCHANGED <<seats, present, leaving, orphans>>
  BY <1>8 DEF OpenOrAttach, FindSeat, TakeSeat, Attach, Detach
<1>9. ASSUME Watch \/ RoomGrace \/ SendBeat \/ (\E l \in Label : SeatGrace(l))
               \/ \E i \in Inst : CheckSeat(i)
      PROVE  UNCHANGED <<seats, present, leaving, orphans>>
  BY <1>9 DEF Watch, RoomGrace, SendBeat, SeatGrace, CheckSeat
<1> QED BY <1>1, <1>2, <1>3, <1>4, <1>5, <1>6, <1>7, <1>8, <1>9 DEF Next, IdleExit, Stop

(* Of an open room every seat is present on the server, and stays. *)
LEMMA SeatsArePresentNext ==
  ASSUME SeatsInv, Next PROVE SeatsArePresent'
<1> USE DEF SeatsInv, SeatsArePresent, SeatsTypeOK
<1>1. ASSUME UNCHANGED <<seats, leaving>>, present \subseteq present', room' = "open" => room = "open"
      PROVE  SeatsArePresent'
  BY <1>1
<1>2. ASSUME NEW f \in Front, OpenFails(f) \/ SeatFails(f) PROVE SeatsArePresent'
  BY <1>1, <1>2 DEF OpenFails, SeatFails, JoinFails, Joined
<1>3. ASSUME NEW f \in Front, Opened(f) \/ Seated(f) PROVE SeatsArePresent'
  <2>1. /\ seats' = [seats EXCEPT ![LabelOf[f]] = joins + 1] /\ UNCHANGED leaving
        /\ present' = present \cup {[inst |-> joins + 1, label |-> LabelOf[f]]}
        /\ (room' = "open" => room = "open") \/ Held = {}
    BY <1>3 DEF Opened, Seated, JoinLands, Joined, MarkedJoins, RoomFirst
  <2>2. joins + 1 \notin leaving
    BY DEF Counted
  <2>3. ASSUME room' = "open", NEW l \in Held'
        PROVE  [inst |-> seats'[l], label |-> l] \in present' /\ seats'[l] \notin leaving'
    <3>1. CASE l = LabelOf[f]
      BY <2>1, <2>2, <3>1
    <3>2. CASE l # LabelOf[f]
      <4>1. l \in Held /\ seats'[l] = seats[l] /\ room = "open"
        BY <2>1, <2>3, <3>2
      <4> QED BY <2>1, <4>1
    <3> QED BY <3>1, <3>2
  <2> QED BY <2>3
<1>4. CASE Reap
  <2>1. CASE watched
    BY <1>4, <2>1 DEF Reap
  <2>2. CASE ~watched
    <3>1. /\ UNCHANGED <<present, room>> /\ leaving' = leaving \cup GoneInstances /\ room = "open"
          /\ \A l \in Held' : l \in Held \ Reaped /\ seats'[l] = seats[l]
      BY <1>4, <2>2 DEF Reap
    <3>2. ASSUME NEW l \in Held \ Reaped PROVE seats[l] \notin GoneInstances
      <4>1. SUFFICES ASSUME NEW k \in Reaped, seats[k] = seats[l] PROVE FALSE
        BY DEF GoneInstances
      <4>2. k \in Held /\ k # l
        BY <4>1 DEF Reaped
      <4>3. [inst |-> seats[l], label |-> l] \in present /\ [inst |-> seats[k], label |-> k] \in present
        BY <3>1, <4>2
      <4>4. [inst |-> seats[l], label |-> l].label = [inst |-> seats[k], label |-> k].label
        BY <4>1, <4>3 DEF Counted
      <4> QED BY <4>2, <4>4
    <3> QED BY <3>1, <3>2
  <2> QED BY <2>1, <2>2
<1>5. CASE Exit \/ Shutdown
  BY <1>5 DEF Exit, Shutdown
<1>6. ASSUME NEW i \in Inst, Left(i) PROVE SeatsArePresent'
  BY <1>6 DEF Left
<1>7. ASSUME NEW f \in Front,
             OpenOrAttach(f) \/ FindSeat(f) \/ TakeSeat(f) \/ Attach(f) \/ Detach(f)
      PROVE  SeatsArePresent'
  BY <1>1, <1>7 DEF OpenOrAttach, FindSeat, TakeSeat, Attach, Detach
<1>8. ASSUME Watch \/ RoomGrace \/ SendBeat \/ (\E l \in Label : SeatGrace(l))
               \/ \E i \in Inst : CheckSeat(i)
      PROVE  SeatsArePresent'
  BY <1>1, <1>8 DEF Watch, RoomGrace, SendBeat, SeatGrace, CheckSeat
<1> QED BY <1>2, <1>3, <1>4, <1>5, <1>6, <1>7, <1>8 DEF Next, IdleExit, Stop

(* A beat goes out for a seat that is held: whoever it names is present.    *)
LEMMA BeatsNext ==
  ASSUME SeatsInv, Next PROVE BeatsOnlyThePresent'
<1> USE DEF SeatsInv, BeatsOnlyThePresent
<1>1. CASE SendBeat
  <2>1. ASSUME OnSeatContext(beating) PROVE beating \in {p.inst : p \in present} \ leaving
    <3>1. PICK l \in Held : seats[l] = beating
      BY <1>1, <2>1 DEF SendBeat, OnSeatContext, StillHeld
    <3>2. [inst |-> beating, label |-> l] \in present /\ beating \notin leaving
      BY <2>1, <3>1 DEF OnSeatContext, SeatsArePresent
    <3>3. [inst |-> beating, label |-> l].inst = beating
      OBVIOUS
    <3> HIDE DEF SeatsInv
    <3> QED BY <3>2, <3>3
  <2> QED BY <1>1, <2>1 DEF SendBeat
<1>2. ASSUME NEW f \in Front,
             OpenOrAttach(f) \/ Opened(f) \/ OpenFails(f) \/ FindSeat(f) \/ TakeSeat(f)
               \/ Seated(f) \/ SeatFails(f) \/ Attach(f) \/ Detach(f)
      PROVE  UNCHANGED stray
  BY <1>2 DEF OpenOrAttach, Opened, OpenFails, FindSeat, TakeSeat, Seated, SeatFails, Attach, Detach
<1>3. ASSUME Watch \/ RoomGrace \/ Reap \/ Shutdown \/ Exit \/ (\E l \in Label : SeatGrace(l))
               \/ \E i \in Inst : Left(i) \/ CheckSeat(i)
      PROVE  UNCHANGED stray
  BY <1>3 DEF Watch, RoomGrace, Reap, Shutdown, Exit, SeatGrace, Left, CheckSeat
<1> QED BY <1>1, <1>2, <1>3 DEF Next, IdleExit, Stop

(* A step of a caller, of the reaper or of the room keeps the invariant. *)
LEMMA NextSeats == SeatsInv /\ [Next]_vars => SeatsInv'
<1> SUFFICES ASSUME SeatsInv, [Next]_vars PROVE SeatsInv'
  OBVIOUS
<1>1. CASE Next
  BY <1>1, TypesNext, CountedNext, RoomFirstNext, MarkedJoinsNext, SeatableNext, PresenceNext,
    SeatsArePresentNext, BeatsNext DEF SeatsInv
<1>2. CASE UNCHANGED vars
  BY <1>2 DEF vars, SeatsInv, SeatsTypeOK, Counted, RoomFirst, MarkedJoins, Seatable,
    PresenceIsHeld, SeatsArePresent, BeatsOnlyThePresent
<1> QED BY <1>1, <1>2

(* Every value is of its kind, and an open room has a primary seat.         *)
THEOREM SeatsTypes == Spec => []SeatsTypeOK
<1>1. SeatsInv => SeatsTypeOK
  BY DEF SeatsInv
<1> QED BY <1>1, InitSeats, NextSeats, PTL DEF Spec

(* However attaches, reaps, beats, stops and lost answers overlap: nobody   *)
(* is left standing in the room but for joins nobody here knows of, no two *)
(* joins are under way under one label, no seat is reaped under its reader *)
(* unless within its attach, and no beat goes out for who is not there.    *)
THEOREM SeatsAreAlwaysKept == Spec => []SeatsAreKept
<1>1. ASSUME SeatsInv PROVE OneJoinPerLabel
  BY <1>1 DEF SeatsInv, MarkedJoins, OneJoinPerLabel
<1>2. ASSUME SeatsInv PROVE AttachedHasSeat
  BY <1>2 DEF SeatsInv, Seatable, AttachedHasSeat, Connected, Agent
<1>3. SeatsInv => SeatsAreKept
  BY <1>1, <1>2 DEF SeatsInv, SeatsAreKept
<1> QED BY <1>3, InitSeats, NextSeats, PTL DEF Spec
=============================================================================
