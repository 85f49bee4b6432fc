-------------------------------- MODULE Seats --------------------------------
(***************************************************************************)
(* One room of the daemon and its seats (internal/daemon/room.go, and the  *)
(* opening, reaping and idling of daemon.go).  A seat is one agent session *)
(* with the server: one /edge/join under a harness's label, one instance   *)
(* id, one presence.  Front ends attach (open or find the room, find or    *)
(* join the seat, read the frame, register the reader), detach and come    *)
(* back; the daemon's ticker reaps seats nobody uses and exits when nobody *)
(* reads; the room's beat goes round the seats.                            *)
(*                                                                         *)
(* Time is abstracted to whether a grace has run out.  After an exit the   *)
(* next daemon begins with nothing (what it restores: RoomReaders).        *)
(* Bounds: MaxJoins, the joins the server records; MaxFaults, the recorded *)
(* joins whose answer is lost.                                             *)
(***************************************************************************)
EXTENDS Integers, FiniteSets

CONSTANTS Label, None, Front, LabelOf, Terminal, MaxJoins, MaxFaults

ASSUME NoneIsNone == None \notin Label \cup Front \cup Nat
ASSUME FrontsHaveLabels == LabelOf \in [Front -> Label] /\ Terminal \subseteq Front
ASSUME BoundsAreNumbers == MaxJoins \in Nat /\ MaxFaults \in Nat

VARIABLES
  room,      \* "none", "opening", "open", "closing"
  seats,     \* label -> the instance it is seated as, or None
  seating,   \* label -> the front end whose attach is joining it, or None
  primary,   \* the primary seat's label
  idle,      \* label -> its seat is "used", "idle", or idle past the "grace"
  roomIdle,  \* since the last reader left: "idle", or past the "grace"
  watched,   \* a subscription is open
  front,     \* front end -> where its attach is
  beating,   \* the beat: the seat it has checked and not yet sent for
  present,   \* the server: the instances in the room, each with its label
  leaving,   \* instances whose Leave is on its way
  joins, faults,
  orphans,   \* history: joined, and nobody here ever knew or will
  overtaken, \* history: front ends whose seat was reaped within their attach
  stray      \* history: instances a beat went out for after their Leave

vars == <<room, seats, seating, primary, idle, roomIdle, watched, front, beating,
          present, leaving, joins, faults, orphans, overtaken, stray>>

Inst == 1..MaxJoins
Agent == Front \ Terminal

Init ==
  /\ room = "none" /\ primary = None /\ roomIdle = "idle" /\ watched = FALSE
  /\ seats = [l \in Label |-> None] /\ seating = [l \in Label |-> None]
  /\ idle = [l \in Label |-> "idle"]
  /\ front = [f \in Front |-> "away"]
  /\ beating = None
  /\ present = {} /\ leaving = {} /\ joins = 0 /\ faults = 0
  /\ orphans = {} /\ overtaken = {} /\ stray = {}

Held == {l \in Label : seats[l] # None}
At(f, where) == front[f] = where
Goes(f, where) == front' = [front EXCEPT ![f] = where]

(* connectedLocked: terminal readers never hold the room. *)
Connected == {f \in Agent : At(f, "attached")}
InUse == {LabelOf[f] : f \in Connected} \cap Held
RoomInUse == Connected # {} \/ watched

-----------------------------------------------------------------------------
(* One /edge/join: the server seats the instance, and the answer may still *)
(* be lost, or the join refused.                                           *)
Joined(l) ==
  /\ joins < MaxJoins /\ joins' = joins + 1
  /\ present' = present \cup {[inst |-> joins + 1, label |-> l]}

JoinLands(l) == Joined(l) /\ UNCHANGED <<faults, orphans>>

JoinFails(l) ==
  \/ UNCHANGED <<joins, present, faults, orphans>>
  \/ /\ faults < MaxFaults /\ faults' = faults + 1
     /\ Joined(l) /\ orphans' = orphans \cup {joins + 1}

(* openOrAttach: the room is here, or somebody is opening it, or one opens *)
(* it and the others wait.  A daemon told to stop still answers.           *)
OpenOrAttach(f) ==
  /\ At(f, "away")
  /\ \/ room \in {"open", "closing"} /\ Goes(f, "seat") /\ UNCHANGED room
     \/ room = "none" /\ Goes(f, "opening") /\ room' = "opening"
  /\ UNCHANGED <<seats, seating, primary, idle, roomIdle, watched, beating, present,
                 leaving, joins, faults, orphans, overtaken, stray>>

Opened(f) ==
  /\ At(f, "opening") /\ JoinLands(LabelOf[f])
  /\ room' = "open" /\ primary' = LabelOf[f]
  /\ seats' = [seats EXCEPT ![LabelOf[f]] = joins + 1]
  /\ idle' = [idle EXCEPT ![LabelOf[f]] = "idle"]
  /\ roomIdle' = "idle"
  /\ Goes(f, "seat")
  /\ UNCHANGED <<seating, watched, beating, leaving, overtaken, stray>>

OpenFails(f) ==
  /\ At(f, "opening") /\ JoinFails(LabelOf[f])
  /\ room' = "none" /\ Goes(f, "away")
  /\ UNCHANGED <<seats, seating, primary, idle, roomIdle, watched, beating, leaving,
                 overtaken, stray>>

(* EnsureSeat: the seat is held; or another attach is joining it and this  *)
(* one waits for that and looks again (it stays where it is); or it joins. *)
\* (Mutant: nobody waits for a join under way.)
NeverBusy(l) == FALSE
Busy(l) == seating[l] # None

FindSeat(f) ==
  /\ At(f, "seat") /\ LabelOf[f] \in Held
  /\ Goes(f, "frame")
  /\ UNCHANGED <<room, seats, seating, primary, idle, roomIdle, watched, beating,
                 present, leaving, joins, faults, orphans, overtaken, stray>>

TakeSeat(f) ==
  /\ At(f, "seat") /\ LabelOf[f] \notin Held /\ ~Busy(LabelOf[f])
  /\ seating' = [seating EXCEPT ![LabelOf[f]] = f]
  /\ Goes(f, "joining")
  /\ UNCHANGED <<room, seats, primary, idle, roomIdle, watched, beating, present,
                 leaving, joins, faults, orphans, overtaken, stray>>

(* The join is back; the seat of a lost race is left again. *)
Freed(l) == seating' = [seating EXCEPT ![l] = None]

Seated(f) ==
  /\ At(f, "joining") /\ JoinLands(LabelOf[f]) /\ Freed(LabelOf[f])
  /\ IF LabelOf[f] \in Held
     THEN leaving' = leaving \cup {joins + 1} /\ UNCHANGED <<seats, idle>>
     ELSE /\ seats' = [seats EXCEPT ![LabelOf[f]] = joins + 1]
          /\ idle' = [idle EXCEPT ![LabelOf[f]] = "idle"]
          /\ UNCHANGED leaving
  /\ Goes(f, "frame")
  /\ UNCHANGED <<room, primary, roomIdle, watched, beating, overtaken, stray>>

\* (Mutant: a failed join leaves its mark behind.)
KeptOnFailure(l) == UNCHANGED seating
FreedOnFailure(l) == Freed(l)

SeatFails(f) ==
  /\ At(f, "joining")
  /\ JoinFails(LabelOf[f]) /\ FreedOnFailure(LabelOf[f])
  /\ Goes(f, "away")
  /\ UNCHANGED <<room, seats, primary, idle, roomIdle, watched, beating, leaving,
                 overtaken, stray>>

(* Attach, once the frame has been read: an agent's reader ends its seat's *)
(* idling; a terminal's does not.                                          *)
Attach(f) ==
  /\ At(f, "frame")
  /\ Goes(f, "attached")
  /\ idle' = IF f \in Agent THEN [idle EXCEPT ![LabelOf[f]] = "used"] ELSE idle
  /\ UNCHANGED <<room, seats, seating, primary, roomIdle, watched, beating, present,
                 leaving, joins, faults, orphans, overtaken, stray>>

(* Detach: the last agent reader of a seat starts its idling, the last     *)
(* reader of the room starts the room's.                                   *)
Detach(f) ==
  /\ At(f, "attached")
  /\ Goes(f, "away")
  /\ idle' = IF f \in Agent /\ \A g \in Connected \ {f} : LabelOf[g] # LabelOf[f]
             THEN [idle EXCEPT ![LabelOf[f]] = "idle"] ELSE idle
  /\ roomIdle' = IF Connected \subseteq {f} /\ ~watched THEN "idle" ELSE roomIdle
  /\ overtaken' = overtaken \ {f}
  /\ UNCHANGED <<room, seats, seating, primary, watched, beating, present, leaving,
                 joins, faults, orphans, stray>>

Watch ==
  /\ room = "open" /\ watched' = ~watched
  /\ roomIdle' = IF watched /\ Connected = {} THEN "idle" ELSE roomIdle
  /\ UNCHANGED <<room, seats, seating, primary, idle, front, beating, present, leaving,
                 joins, faults, orphans, overtaken, stray>>

-----------------------------------------------------------------------------
(* The grace runs out for an idle seat, and for an idle room. *)
SeatGrace(l) ==
  /\ idle[l] = "idle" /\ l \in Held /\ idle' = [idle EXCEPT ![l] = "grace"]
  /\ UNCHANGED <<room, seats, seating, primary, roomIdle, watched, front, beating,
                 present, leaving, joins, faults, orphans, overtaken, stray>>

RoomGrace ==
  /\ room = "open" /\ ~RoomInUse /\ roomIdle = "idle" /\ roomIdle' = "grace"
  /\ UNCHANGED <<room, seats, seating, primary, idle, watched, front, beating,
                 present, leaving, joins, faults, orphans, overtaken, stray>>

(* ReapSeats, one pass of the ticker: with somebody in the room and nobody *)
(* watching, the seats idle past their grace go, and the first that is     *)
(* left becomes primary if the primary went.                               *)
Reaped == {l \in Held : l \notin InUse /\ idle[l] = "grace"}

GoneInstances == {seats[l] : l \in Reaped}

\* (Mutant: the primary stays.)
KeepPrimary(kept) == UNCHANGED primary
Promote(kept) ==
  IF primary \in kept THEN UNCHANGED primary ELSE \E l \in kept : primary' = l

Reap ==
  /\ room = "open" /\ InUse # {}
  /\ IF watched
     THEN /\ idle' = [l \in Label |-> IF l \in Held THEN "used" ELSE idle[l]]
          /\ UNCHANGED <<seats, primary, leaving, overtaken>>
     ELSE /\ seats' = [l \in Label |-> IF l \in Reaped THEN None ELSE seats[l]]
          /\ idle' = [l \in Label |-> IF l \in InUse THEN "used"
                        ELSE IF l \in Held /\ idle[l] = "used" THEN "idle" ELSE idle[l]]
          /\ leaving' = leaving \cup GoneInstances
          /\ Promote(Held \ Reaped)
          /\ overtaken' = overtaken \cup
               {f \in Front : At(f, "frame") /\ LabelOf[f] \in Reaped}
  /\ UNCHANGED <<room, seating, roomIdle, watched, front, beating, present, joins,
                 faults, orphans, stray>>

(* A Leave reaches the server. *)
Left(i) ==
  /\ i \in leaving
  /\ leaving' = leaving \ {i}
  /\ present' = {p \in present : p.inst # i}
  /\ UNCHANGED <<room, seats, seating, primary, idle, roomIdle, watched, front,
                 beating, joins, faults, orphans, overtaken, stray>>

(* The beat goes round the seats: for each it checks the seat is held, and *)
(* sends on the seat's own context, which leaving has cancelled.           *)
StillHeld(i) == \E l \in Label : seats[l] = i

CheckSeat(i) ==
  /\ room = "open" /\ beating = None /\ StillHeld(i)
  /\ beating' = i
  /\ UNCHANGED <<room, seats, seating, primary, idle, roomIdle, watched, front,
                 present, leaving, joins, faults, orphans, overtaken, stray>>

OnSeatContext(i) == StillHeld(i) /\ room = "open"

SendBeat ==
  /\ beating # None
  /\ beating' = None
  /\ stray' = IF OnSeatContext(beating) /\ beating \notin {p.inst : p \in present} \ leaving
              THEN stray \cup {beating} ELSE stray
  /\ UNCHANGED <<room, seats, seating, primary, idle, roomIdle, watched, front,
                 present, leaving, joins, faults, orphans, overtaken>>

-----------------------------------------------------------------------------
(* The daemon goes: nobody has read for the grace, or it is told to stop.  *)
(* Close leaves the seats held at that moment; a join that answers later   *)
(* is nobody's, and the process ends.                                      *)
Shutdown ==
  /\ room = "open" /\ room' = "closing"
  /\ leaving' = leaving \cup {seats[l] : l \in Held}
  /\ UNCHANGED <<seats, seating, primary, idle, roomIdle, watched, front, beating,
                 present, joins, faults, orphans, overtaken, stray>>

IdleExit == ~RoomInUse /\ roomIdle = "grace" /\ Shutdown
Stop == Shutdown

Exit ==
  /\ room = "closing" /\ leaving = {}
  /\ room' = "none"
  /\ orphans' = orphans \cup {seats[l] : l \in {k \in Held :
                   \E p \in present : p.inst = seats[k]}}
  /\ seats' = [l \in Label |-> None] /\ seating' = [l \in Label |-> None]
  /\ primary' = None /\ watched' = FALSE /\ beating' = None
  /\ front' = [f \in Front |-> "away"]
  /\ overtaken' = {}
  /\ idle' = [l \in Label |-> "idle"] /\ roomIdle' = "idle"
  /\ UNCHANGED <<present, leaving, joins, faults, stray>>

Next ==
  \/ \E f \in Front :
       \/ OpenOrAttach(f) \/ Opened(f) \/ OpenFails(f)
       \/ FindSeat(f) \/ TakeSeat(f) \/ Seated(f) \/ SeatFails(f)
       \/ Attach(f) \/ Detach(f)
  \/ Watch \/ RoomGrace \/ Reap \/ SendBeat
  \/ \E l \in Label : SeatGrace(l)
  \/ \E i \in Inst : Left(i) \/ CheckSeat(i)
  \/ IdleExit \/ Stop \/ Exit

Spec == Init /\ [][Next]_vars

(* A join is answered or times out; a goroutine whose lock or channel is   *)
(* free again and again gets its turn; the daemon's Leaves are bounded.    *)
AttachGoesOn(f) == Opened(f) \/ OpenFails(f) \/ Seated(f) \/ SeatFails(f) \/ Attach(f)

Fairness ==
  \A f \in Front : WF_vars(AttachGoesOn(f)) /\ SF_vars(FindSeat(f) \/ TakeSeat(f))

FairSpec == Spec /\ Fairness

-----------------------------------------------------------------------------
(* Every value is of its kind, and an open room has a primary seat, which  *)
(* it holds: the reads of the whole room go out under it.                  *)
SeatsTypeOK ==
  /\ room \in {"none", "opening", "open", "closing"}
  /\ seats \in [Label -> Inst \cup {None}] /\ seating \in [Label -> Front \cup {None}]
  /\ idle \in [Label -> {"used", "idle", "grace"}] /\ roomIdle \in {"idle", "grace"}
  /\ front \in [Front -> {"away", "opening", "seat", "joining", "frame", "attached"}]
  /\ present \subseteq [inst : Inst, label : Label] /\ leaving \subseteq Inst
  /\ IF room \in {"open", "closing"} THEN primary \in Held ELSE primary = None

(* Nobody is left standing in the room on the server: whoever is present   *)
(* there holds a seat here or is being left, but for joins whose answer    *)
(* never came or came after the daemon had gone.                           *)
PresenceIsHeld ==
  \A p \in present : p.inst \in leaving \cup orphans \/ seats[p.label] = p.inst

(* One join a harness: while one is under way its label has no seat and no *)
(* other join, so EnsureSeat's branch for a lost race is never taken.      *)
OneJoinPerLabel ==
  \A f, g \in Front :
    At(f, "joining") =>
      /\ LabelOf[f] \notin Held
      /\ At(g, "joining") /\ LabelOf[g] = LabelOf[f] => g = f

(* A seat with a connected agent reader is never reaped under it, unless   *)
(* the reaping came between that attach's EnsureSeat and its Attach.       *)
AttachedHasSeat ==
  \A f \in Connected : LabelOf[f] \in Held \/ f \in overtaken

(* The beat speaks only for whoever is in the room.                        *)
BeatsOnlyThePresent == stray = {}

(* The room on the server and the seats here agree, whoever comes and goes. *)
SeatsAreKept == PresenceIsHeld /\ OneJoinPerLabel /\ AttachedHasSeat /\ BeatsOnlyThePresent

(* Every attach is answered: a waiting one is woken by the join it waits   *)
(* for, whether that went well or not.                                     *)
EveryAttachAnswered ==
  \A f \in Front : ~At(f, "away") ~> At(f, "away") \/ At(f, "attached")

(* The same without the exception: see the findings.                       *)
AgentsHaveSeats == \A f \in Connected : LabelOf[f] \in Held
=============================================================================
