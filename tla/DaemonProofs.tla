---------------------------- MODULE DaemonProofs -----------------------------
(***************************************************************************)
(* What the run of MCDaemon checks of a daemon's processes, of a share     *)
(* link and of one front end on a few of each, proved for any number of    *)
(* spawns, front ends, claims, rooms, saves under way and faults.          *)
(***************************************************************************)
EXTENDS Lifecycle, Links, FrontEnd, SequenceTheorems, TLAPS

-----------------------------------------------------------------------------
(* The daemon as processes.                                                *)

Save == [rooms : SUBSET Room, opens : SUBSET Room, late : BOOLEAN]
Working == {"restoring", "listening", "closing", "unbound"}

(* A front end that probes the lock has it: no daemon works meanwhile. *)
LifeInv ==
  /\ LifecycleTypeOK /\ saving \in [Daemon -> Seq(Save)]
  /\ OneDaemon
  /\ \A c \in Client : client[c] = "probing" => lock = c

USE DEF pvars, saves

(* At first an older daemon listens and has the lock, or there is none. *)
LEMMA InitLife == ASSUME Init PROVE LifeInv
<1>1. 1 \in Daemon
  BY LifecycleAssumption DEF Daemon
<1>2. saving \in [Daemon -> Seq(Save)] /\ file \subseteq Room /\ owed \subseteq Room
  BY DEF Init
<1>3. LifecycleTypeOK
  BY <1>1, <1>2 DEF Init, LifecycleTypeOK
<1>4. OneDaemon /\ \A c \in Client : client[c] = "probing" => lock = c
  BY <1>1 DEF Init, OneDaemon, Is
<1> QED BY <1>2, <1>3, <1>4 DEF LifeInv

(* A sequence with one element taken out of it. *)
LEMMA RemoveAtProperties ==
  ASSUME NEW S, NEW t \in Seq(S), NEW i \in 1..Len(t)
  PROVE  /\ Ext!RemoveAt(t, i) \in Seq(S) /\ Len(Ext!RemoveAt(t, i)) = Len(t) - 1
         /\ \A j \in 1..(Len(t) - 1) :
              Ext!RemoveAt(t, i)[j] = IF j < i THEN t[j] ELSE t[j + 1]
<1> DEFINE x == SubSeq(t, 1, i - 1)
           y == SubSeq(t, i + 1, Len(t))
<1>1. Len(t) \in Nat /\ \A k \in 1..Len(t) : t[k] \in S
  BY LenProperties, ElementOfSeq
<1>2. x \in Seq(S) /\ Len(x) = i - 1 /\ \A j \in 1..(i - 1) : x[j] = t[j]
  <2>1. \A k \in 1..(i - 1) : t[k] \in S
    BY <1>1
  <2> QED BY <1>1, <2>1, SubSeqProperties
<1>3. y \in Seq(S) /\ Len(y) = Len(t) - i /\ \A j \in 1..(Len(t) - i) : y[j] = t[i + j]
  <2>1. \A k \in (i + 1)..Len(t) : t[k] \in S
    BY <1>1
  <2> QED BY <1>1, <2>1, SubSeqProperties
<1>4. Ext!RemoveAt(t, i) = x \o y
  BY DEF Ext!RemoveAt
<1> HIDE DEF x, y
<1>5. /\ x \o y \in Seq(S) /\ Len(x \o y) = Len(x) + Len(y)
      /\ \A j \in 1..(Len(x) + Len(y)) :
           (x \o y)[j] = IF j <= Len(x) THEN x[j] ELSE y[j - Len(x)]
  BY <1>2, <1>3, ConcatProperties
<1>6. Len(x) + Len(y) = Len(t) - 1
  BY <1>1, <1>2, <1>3
<1>7. ASSUME NEW j \in 1..(Len(t) - 1) PROVE (x \o y)[j] = IF j < i THEN t[j] ELSE t[j + 1]
  <2>1. CASE j < i
    BY <1>1, <1>2, <1>5, <1>6, <2>1
  <2>2. CASE ~(j < i)
    <3>1. j - (i - 1) \in 1..(Len(t) - i) /\ i + (j - (i - 1)) = j + 1 /\ ~(j <= i - 1)
      BY <1>1, <2>2
    <3>2. (x \o y)[j] = y[j - (i - 1)]
      BY <1>2, <1>5, <1>6, <3>1
    <3> QED BY <1>3, <2>2, <3>1, <3>2
  <2> QED BY <2>1, <2>2
<1> QED BY <1>4, <1>5, <1>6, <1>7

(* What is left of the saves under way once the i-th is written: the ones  *)
(* before it are late from then on.                                        *)
Passed(q, i) == [k \in DOMAIN q |-> [q[k] EXCEPT !.late = @ \/ k < i]]

OldPlace(i, j) == IF j < i THEN j ELSE j + 1

(* The saves that are left are those that were, with the rooms they had. *)
LEMMA AfterAWrite ==
  ASSUME NEW q \in Seq(Save), NEW i \in DOMAIN q, NEW u, u = Ext!RemoveAt(Passed(q, i), i)
  PROVE  /\ u \in Seq(Save) /\ Len(u) = Len(q) - 1
         /\ \A j \in 1..Len(u) :
              LET k == OldPlace(i, j)
              IN  /\ k \in 1..Len(q) /\ k # i
                  /\ u[j].rooms = q[k].rooms /\ u[j].opens = q[k].opens
                  /\ u[j].late = (q[k].late \/ k < i)
<1>1. Len(q) \in Nat /\ DOMAIN q = 1..Len(q) /\ \A k \in 1..Len(q) : q[k] \in Save
  BY LenProperties, ElementOfSeq
<1> DEFINE e(k) == [q[k] EXCEPT !.late = @ \/ k < i]
           t == Passed(q, i)
<1>2. ASSUME NEW k \in 1..Len(q)
      PROVE  /\ e(k) \in Save /\ e(k).rooms = q[k].rooms /\ e(k).opens = q[k].opens
             /\ e(k).late = (q[k].late \/ k < i)
  BY <1>1 DEF Save
<1>3. t = [k \in 1..Len(q) |-> e(k)]
  BY <1>1 DEF Passed
<1> HIDE DEF e, t
<1>4. t \in Seq(Save)
  BY <1>1, <1>2, <1>3, IsASeq
<1>5. Len(t) = Len(q)
  BY <1>1, <1>3, <1>4, LenProperties
<1>6. /\ u \in Seq(Save) /\ Len(u) = Len(q) - 1
      /\ \A j \in 1..(Len(q) - 1) : u[j] = IF j < i THEN t[j] ELSE t[j + 1]
  BY <1>1, <1>4, <1>5, RemoveAtProperties DEF t
<1>7. ASSUME NEW j \in 1..Len(u), NEW k, k = OldPlace(i, j)
      PROVE  /\ k \in 1..Len(q) /\ k # i
             /\ u[j].rooms = q[k].rooms /\ u[j].opens = q[k].opens
             /\ u[j].late = (q[k].late \/ k < i)
  <2>1. k \in 1..Len(q) /\ k # i
    BY <1>1, <1>6, <1>7 DEF OldPlace
  <2>2. u[j] = t[k]
    BY <1>6, <1>7 DEF OldPlace
  <2>3. t[k] = e(k)
    BY <1>3, <2>1
  <2> QED BY <1>2, <2>1, <2>2, <2>3
<1> QED BY <1>6, <1>7

-----------------------------------------------------------------------------
(* One daemon at a time.                                                   *)

(* Nobody who works is left behind by a step that changes neither a stage  *)
(* nor the lock nor the socket.                                            *)
LEMMA SavesOnly ==
  ASSUME LifeInv, UNCHANGED <<daemon, old, lock, socket, client>>,
         rooms' \in [Daemon -> SUBSET Room], restore' \in [Daemon -> SUBSET Room],
         file' \subseteq Room, owed' \subseteq Room, stopped' \subseteq Daemon,
         saving' \in [Daemon -> Seq(Save)]
  PROVE  LifeInv'
BY DEF LifeInv, LifecycleTypeOK, OneDaemon, Is

(* The steps of a front end. *)
LEMMA ClientKeeps ==
  ASSUME LifeInv, NEW c \in Client,
         Reach(c) \/ Unreached(c) \/ Probe(c) \/ Probed(c) \/ Spawn(c) \/ GivesUp(c)
           \/ AsksAgain(c)
  PROVE  LifeInv'
<1> USE DEF Goes, Is, Becomes
<1>1. CASE Reach(c)
  <2>1. stopped' \subseteq Daemon
    BY <1>1 DEF Reach, Reachable, LifeInv, LifecycleTypeOK
  <2> QED BY <1>1, <2>1 DEF Reach, LifeInv, LifecycleTypeOK, OneDaemon
<1>2. CASE Unreached(c) \/ GivesUp(c) \/ AsksAgain(c)
  BY <1>2 DEF Unreached, GivesUp, AsksAgain, LifeInv, LifecycleTypeOK, OneDaemon
<1>3. CASE Probe(c)
  <2>1. \A d \in Daemon : lock # d
    BY <1>3, LifecycleAssumption DEF Probe, Daemon
  <2>2. \A b \in Client : client[b] # "probing"
    BY <1>3, LifecycleAssumption DEF Probe, LifeInv
  <2>3. LifecycleTypeOK'
    BY <1>3 DEF Probe, LifeInv, LifecycleTypeOK
  <2> QED BY <1>3, <2>1, <2>2, <2>3 DEF Probe, LifeInv, LifecycleTypeOK, OneDaemon
<1>4. CASE Probed(c)
  <2>1. lock = c /\ \A d \in Daemon : lock # d
    BY <1>4, LifecycleAssumption DEF Probed, LifeInv, Daemon
  <2>2. \A b \in Client : b # c => client[b] # "probing"
    BY <2>1 DEF LifeInv
  <2> QED BY <1>4, <2>1, <2>2 DEF Probed, LifeInv, LifecycleTypeOK, OneDaemon
<1>5. CASE Spawn(c)
  <2>1. PICK d \in Daemon : Is(d, "none") /\ Becomes(d, "starting")
    BY <1>5 DEF Spawn
  <2> QED BY <1>5, <2>1 DEF Spawn, LifeInv, LifecycleTypeOK, OneDaemon
<1> QED BY <1>1, <1>2, <1>3, <1>4, <1>5

(* A save that lands keeps the types of the others. *)
LEMMA WriteKeeps ==
  ASSUME LifeInv, NEW d \in Daemon, NEW i \in DOMAIN saving[d], Write(d, i)
  PROVE  LifeInv'
<1>1. saving[d] \in Seq(Save)
  BY DEF LifeInv
<1>2. saving[d][i] \in Save
  BY <1>1, LenProperties, ElementOfSeq
<1>3. saving' = [saving EXCEPT ![d] = Ext!RemoveAt(Passed(saving[d], i), i)]
  BY DEF Write, Passed, LifeInv
<1>4. Ext!RemoveAt(Passed(saving[d], i), i) \in Seq(Save)
  BY <1>1, AfterAWrite
<1>5. saving' \in [Daemon -> Seq(Save)]
  BY <1>3, <1>4 DEF LifeInv
<1>6. file' \subseteq Room /\ owed' \subseteq Room
  BY <1>2 DEF Write, Save, LifeInv, LifecycleTypeOK
<1> QED BY <1>5, <1>6, SavesOnly DEF Write, LifeInv, LifecycleTypeOK

(* A daemon that starts gets the lock only from nobody. *)
LEMMA LockKeeps ==
  ASSUME LifeInv, NEW d \in Daemon, Lock(d) PROVE LifeInv'
<1> USE DEF Is, Becomes
<1>1. CASE lock = None
  <2>1. \A e \in Daemon : daemon[e] \notin Working
    BY <1>1, LifecycleAssumption DEF LifeInv, OneDaemon, Working, Daemon
  <2>2. \A c \in Client : client[c] # "probing"
    BY <1>1, LifecycleAssumption DEF LifeInv
  <2>3. lock' = d /\ daemon' = [daemon EXCEPT ![d] = "restoring"]
          /\ restore' = [restore EXCEPT ![d] = file]
          /\ UNCHANGED <<old, rooms, stopped, socket, client, saves, faults>>
    BY <1>1 DEF Lock
  <2>4. LifecycleTypeOK'
    BY <2>3 DEF LifeInv, LifecycleTypeOK
  <2>5. OneDaemon'
    BY <2>1, <2>3 DEF LifeInv, LifecycleTypeOK, OneDaemon, Working
  <2> QED BY <2>2, <2>3, <2>4, <2>5 DEF LifeInv
<1>2. CASE lock # None
  BY <1>2 DEF Lock, LifeInv, LifecycleTypeOK, OneDaemon
<1> QED BY <1>1, <1>2

(* The steps in which a daemon gives up the socket, the lock or its life. *)
LEMMA LeavingKeeps ==
  ASSUME LifeInv, NEW d \in Daemon,
         Listen(d) \/ Unbind(d) \/ Exit(d) \/ Crash(d)
  PROVE  LifeInv'
<1> USE DEF Is, Becomes
<1>1. \A e \in Daemon : e # None
  BY LifecycleAssumption DEF Daemon
<1>2. CASE Listen(d)
  <2>1. lock = d
    BY <1>2 DEF Listen, Restored, LifeInv, OneDaemon
  <2>2. \A e \in Daemon : e # d => daemon[e] # "listening"
    BY <2>1 DEF LifeInv, OneDaemon
  <2> QED BY <1>2, <2>1, <2>2 DEF Listen, Restored, LifeInv, LifecycleTypeOK, OneDaemon
<1>3. CASE Unbind(d)
  <2>1. socket' = None /\ lock' = lock
    BY <1>3, Zenon DEF Unbind, LetGo, Deferred
  <2>2. lock = d
    BY <1>3 DEF Unbind, LifeInv, OneDaemon
  <2>3. \A e \in Daemon : e # d => daemon[e] # "listening"
    BY <2>2 DEF LifeInv, OneDaemon
  <2> QED BY <1>3, <2>1, <2>2, <2>3 DEF Unbind, LifeInv, LifecycleTypeOK, OneDaemon
<1>4. ASSUME Ends(d), UNCHANGED <<old, file, client, owed>>,
             lock' = IF lock = d THEN None ELSE lock, UNCHANGED socket
      PROVE  LifeInv'
  <2>1. << >> \in Seq(Save)
    BY EmptySeq
  <2>2. saving' \in [Daemon -> Seq(Save)] /\ LifecycleTypeOK'
    BY <1>4, <2>1 DEF Ends, LifeInv, LifecycleTypeOK
  <2>3. OneDaemon'
    BY <1>4 DEF Ends, LifeInv, LifecycleTypeOK, OneDaemon
  <2>4. d \notin Client
    BY LifecycleAssumption DEF Daemon
  <2> QED BY <1>4, <2>2, <2>3, <2>4 DEF LifeInv
<1>5. CASE Exit(d)
  <2>1. lock = d
    BY <1>5 DEF Exit, LifeInv, OneDaemon
  <2>2. lock' = None /\ socket' = socket
    BY <1>5, Zenon DEF Exit, LetGo, Deferred
  <2> QED BY <1>4, <1>5, <2>1, <2>2 DEF Exit
<1>6. CASE Crash(d)
  BY <1>1, <1>4, <1>6 DEF Crash
<1> QED BY <1>2, <1>3, <1>5, <1>6

(* The steps that change rooms and start saves. *)
LEMMA RoomsKeep ==
  ASSUME LifeInv, NEW d \in Daemon,
         StopVerb(d) \/ (\E kept \in BOOLEAN : Shutdown(d, kept))
           \/ \E r \in Room : Rejoin(d, r) \/ Open(d, r)
  PROVE  LifeInv'
<1>1. CASE StopVerb(d)
  BY <1>1, SavesOnly DEF StopVerb, LifeInv, LifecycleTypeOK
<1>2. ASSUME NEW r \in Room, Rejoin(d, r) PROVE LifeInv'
  <2>1. rooms \in [Daemon -> SUBSET Room] /\ restore \in [Daemon -> SUBSET Room]
          /\ file \subseteq Room /\ owed \subseteq Room /\ stopped \subseteq Daemon
          /\ saving \in [Daemon -> Seq(Save)]
    BY DEF LifeInv, LifecycleTypeOK
  <2>2. /\ rooms' = rooms \/ rooms' = [rooms EXCEPT ![d] = @ \cup {r}]
        /\ owed' = owed \/ owed' = owed \ {r}
        /\ restore' = [restore EXCEPT ![d] = @ \ {r}]
        /\ UNCHANGED <<daemon, old, stopped, lock, socket, file, client, saving>>
    BY <1>2 DEF Rejoin
  <2>3. rooms' \in [Daemon -> SUBSET Room]
    <3>1. [rooms EXCEPT ![d] = @ \cup {r}] \in [Daemon -> SUBSET Room]
      BY <2>1
    <3> QED BY <2>1, <2>2, <3>1
  <2>4. restore' \in [Daemon -> SUBSET Room] /\ owed' \subseteq Room
    BY <2>1, <2>2
  <2> QED BY <2>1, <2>2, <2>3, <2>4, SavesOnly
<1>3. ASSUME NEW r \in Room, Open(d, r) PROVE LifeInv'
  <2>1. rooms' \in [Daemon -> SUBSET Room]
    BY <1>3 DEF Open, LifeInv, LifecycleTypeOK
  <2>2. ToSave(rooms'[d], {r}) \in Save
    BY <2>1 DEF ToSave, Save
  <2>3. saving' \in [Daemon -> Seq(Save)]
    BY <1>3, <2>2, AppendProperties DEF Open, LifeInv
  <2> QED BY <1>3, <2>1, <2>3, SavesOnly DEF Open, LifeInv, LifecycleTypeOK
<1>4. ASSUME NEW kept \in BOOLEAN, Shutdown(d, kept) PROVE LifeInv'
  <2> DEFINE q == saving[d]
             e(i) == IF kept THEN q[i] ELSE [q[i] EXCEPT !.opens = {}]
             before == [i \in DOMAIN q |-> e(i)]
  <2>1. q \in Seq(Save) /\ Len(q) \in Nat /\ DOMAIN q = 1..Len(q)
          /\ \A i \in 1..Len(q) : q[i] \in Save
    BY LenProperties, ElementOfSeq DEF LifeInv
  <2>2. \A i \in 1..Len(q) : e(i) \in Save
    BY <2>1 DEF Save
  <2>3. saving' = [saving EXCEPT ![d] = Append(before, ToSave(KeptRooms(d, kept), {}))]
    BY <1>4 DEF Shutdown
  <2>4. ToSave(KeptRooms(d, kept), {}) \in Save
    BY DEF ToSave, KeptRooms, Save, LifeInv, LifecycleTypeOK
  <2> HIDE DEF e, q
  <2>5. before \in Seq(Save)
    BY <2>1, <2>2, IsASeq
  <2>6. saving' \in [Daemon -> Seq(Save)]
    <3> HIDE DEF before
    <3> QED BY <2>3, <2>4, <2>5, AppendProperties DEF LifeInv
  <2>7. LifecycleTypeOK'
    BY <1>4 DEF Shutdown, LifeInv, LifecycleTypeOK, Is, Becomes
  <2>8. OneDaemon'
    BY <1>4 DEF Shutdown, LifeInv, LifecycleTypeOK, OneDaemon, Is, Becomes
  <2> QED BY <1>4, <2>6, <2>7, <2>8 DEF Shutdown, LifeInv
<1> QED BY <1>1, <1>2, <1>3, <1>4

(* A step of the daemon, of a client or of a crash keeps the invariant. *)
LEMMA NextLife == LifeInv /\ [Next]_pvars => LifeInv'
<1> SUFFICES ASSUME LifeInv, [Next]_pvars PROVE LifeInv'
  OBVIOUS
<1>1. ASSUME NEW c \in Client,
             Reach(c) \/ Unreached(c) \/ Probe(c) \/ Probed(c) \/ Spawn(c) \/ GivesUp(c)
               \/ AsksAgain(c)
      PROVE  LifeInv'
  BY <1>1, ClientKeeps
<1>2. ASSUME NEW d \in Daemon, Lock(d) PROVE LifeInv'
  BY <1>2, LockKeeps
<1>3. ASSUME NEW d \in Daemon, Listen(d) \/ Unbind(d) \/ Exit(d) \/ Crash(d) PROVE LifeInv'
  BY <1>3, LeavingKeeps
<1>4. ASSUME NEW d \in Daemon,
             StopVerb(d) \/ (\E kept \in BOOLEAN : Shutdown(d, kept))
               \/ \E r \in Room : Rejoin(d, r) \/ Open(d, r)
      PROVE  LifeInv'
  BY <1>4, RoomsKeep
<1>5. ASSUME NEW d \in Daemon, NEW i \in DOMAIN saving[d], Write(d, i) PROVE LifeInv'
  BY <1>5, WriteKeeps
<1>6. CASE UNCHANGED pvars
  BY <1>6 DEF LifeInv, LifecycleTypeOK, OneDaemon, Is
<1> QED BY <1>1, <1>2, <1>3, <1>4, <1>5, <1>6 DEF Next

(* Whatever is spawned, probed, asked to stop or killed, and whenever, at   *)
(* most one daemon works, and the one that listens is the one reached.      *)
THEOREM OneDaemonAtATime == Spec => []OneDaemon
<1>1. LifeInv => OneDaemon
  BY DEF LifeInv
<1>2. LifeInv /\ [Next]_pvars => LifeInv'
  BY NextLife
<1>3. Init => LifeInv
  BY InitLife
<1> QED BY <1>1, <1>2, <1>3, PTL DEF Spec

-----------------------------------------------------------------------------
(* No room is lost between daemons.                                        *)

Answering(d) == daemon[d] \in {"listening", "closing"}

(* A save holds what it was asked for and, until a younger one overtakes   *)
(* it, all that is owed: what the older ones under way have in common with *)
(* what is owed, and what they will make owed.                             *)
SavesHoldWhatIsOwed(d) ==
  \A i \in DOMAIN saving[d] :
    /\ saving[d][i].opens \subseteq saving[d][i].rooms
    /\ ~saving[d][i].late =>
         /\ owed \subseteq saving[d][i].rooms \cup lost
         /\ \A k \in 1..(i - 1) :
              /\ saving[d][k].opens \subseteq saving[d][i].rooms
              /\ owed \cap saving[d][k].rooms \subseteq saving[d][i].rooms

(* So does the daemon itself, which the next save is taken from.           *)
RoomsHoldWhatIsOwed(d) ==
  Answering(d) =>
    /\ owed \subseteq rooms[d] \cup lost
    /\ \A i \in DOMAIN saving[d] :
         /\ saving[d][i].opens \subseteq rooms[d]
         /\ owed \cap saving[d][i].rooms \subseteq rooms[d]

(* A daemon that restores has yet to rejoin what it does not hold.         *)
RestoreHoldsWhatIsOwed(d) ==
  Is(d, "restoring") => owed \subseteq rooms[d] \cup restore[d] \cup lost

KeepInv ==
  /\ LifeInv /\ RoomsAreKept
  /\ \A d \in Daemon :
       /\ saving[d] # << >> => daemon[d] \in {"listening", "closing", "unbound"}
       /\ SavesHoldWhatIsOwed(d) /\ RoomsHoldWhatIsOwed(d) /\ RestoreHoldsWhatIsOwed(d)

(* At first every room that is owed is in the file. *)
LEMMA InitKeep == ASSUME Init PROVE KeepInv
<1>1. LifeInv
  BY InitLife
<1>2. \A d \in Daemon : saving[d] = << >> /\ (daemon[d] = "listening" => rooms[d] = owed)
        /\ daemon[d] \in {"listening", "none"}
  BY DEF Init
<1>3. DOMAIN << >> = {}
  OBVIOUS
<1> QED BY <1>1, <1>2, <1>3 DEF KeepInv, RoomsAreKept, Init, SavesHoldWhatIsOwed,
  RoomsHoldWhatIsOwed, RestoreHoldsWhatIsOwed, Answering, Is

(* Saves belong to the one daemon that works.                              *)
LEMMA OnlyOneSaves ==
  ASSUME KeepInv, NEW d \in Daemon, NEW e \in Daemon, daemon[d] \in Working, e # d
  PROVE  saving[e] = << >> /\ daemon[e] \notin Working
BY DEF KeepInv, LifeInv, OneDaemon, Working

(* A step that touches none of these, and starts nobody.                   *)
LEMMA KeepUntouched ==
  ASSUME KeepInv, LifeInv', UNCHANGED <<rooms, restore, saving, file, lost>>,
         owed' \subseteq owed,
         \A d \in Daemon :
           \/ daemon'[d] = daemon[d]
           \/ daemon'[d] \in {"starting", "gone"} /\ saving[d] = << >>
           \/ daemon'[d] = "unbound"
  PROVE  KeepInv'
<1>1. RoomsAreKept'
  BY DEF KeepInv, RoomsAreKept
<1>2. ASSUME NEW d \in Daemon
      PROVE  /\ saving'[d] # << >> => daemon'[d] \in {"listening", "closing", "unbound"}
             /\ SavesHoldWhatIsOwed(d)' /\ RoomsHoldWhatIsOwed(d)' /\ RestoreHoldsWhatIsOwed(d)'
  <2>1. saving'[d] # << >> => daemon'[d] \in {"listening", "closing", "unbound"}
    BY DEF KeepInv
  <2>2. SavesHoldWhatIsOwed(d)'
    BY DEF KeepInv, SavesHoldWhatIsOwed
  <2>3. RoomsHoldWhatIsOwed(d)'
    BY DEF KeepInv, RoomsHoldWhatIsOwed, Answering
  <2>4. RestoreHoldsWhatIsOwed(d)'
    BY DEF KeepInv, RestoreHoldsWhatIsOwed, Is
  <2> QED BY <2>1, <2>2, <2>3, <2>4
<1> QED BY <1>1, <1>2 DEF KeepInv

(* A save lands: a young one makes the file hold all that is owed, an old  *)
(* one loses only what is then counted as lost.                            *)
LEMMA WriteKeepsRooms ==
  ASSUME KeepInv, LifeInv', NEW d \in Daemon, NEW i \in DOMAIN saving[d], Write(d, i)
  PROVE  KeepInv'
<1> DEFINE q == saving[d]
           u == saving'[d]
           s == saving[d][i]
           K(j) == OldPlace(i, j)
<1>1. q \in Seq(Save) /\ Len(q) \in Nat /\ DOMAIN q = 1..Len(q) /\ i \in 1..Len(q)
        /\ \A k \in 1..Len(q) : q[k] \in Save
  BY LenProperties, ElementOfSeq DEF KeepInv, LifeInv
<1>2. /\ file' = s.rooms /\ owed' = owed \cup s.opens
      /\ lost' = IF s.late THEN lost \cup (file \ s.rooms) ELSE lost \ s.rooms
      /\ saving' = [saving EXCEPT ![d] = Ext!RemoveAt(Passed(q, i), i)]
      /\ UNCHANGED <<daemon, rooms, restore>>
  BY DEF Write, Passed, KeepInv, LifeInv
<1>3. u = Ext!RemoveAt(Passed(q, i), i) /\ \A e \in Daemon : e # d => saving'[e] = saving[e]
  BY <1>2 DEF KeepInv, LifeInv
<1>4. u \in Seq(Save) /\ \A j \in 1..Len(u) :
        /\ K(j) \in 1..Len(q) /\ K(j) # i
        /\ u[j].rooms = q[K(j)].rooms /\ u[j].opens = q[K(j)].opens
        /\ u[j].late = (q[K(j)].late \/ K(j) < i)
  <2>1. /\ u \in Seq(Save)
        /\ \A j \in 1..Len(u) :
             LET k == OldPlace(i, j)
             IN  /\ k \in 1..Len(q) /\ k # i
                 /\ u[j].rooms = q[k].rooms /\ u[j].opens = q[k].opens
                 /\ u[j].late = (q[k].late \/ k < i)
    <3>1. q \in Seq(Save) /\ i \in DOMAIN q
      BY <1>1
    <3> HIDE DEF q, u
    <3> QED BY <1>3, <3>1, AfterAWrite
  <2> HIDE DEF q, u
  <2> QED BY <2>1
<1>5. DOMAIN u = 1..Len(u) /\ Len(u) \in Nat
  BY <1>4, LenProperties
<1>6. \A j \in 1..Len(u), m \in 1..Len(u) : m < j => K(m) < K(j)
  BY <1>1, <1>5 DEF OldPlace
<1>7. daemon[d] \in {"listening", "closing", "unbound"}
  BY <1>1, EmptySeq DEF KeepInv
<1>8. /\ s.opens \subseteq s.rooms
      /\ ~s.late => owed \subseteq s.rooms \cup lost
  BY DEF KeepInv, SavesHoldWhatIsOwed
<1>9. RoomsAreKept'
  BY <1>2, <1>8 DEF KeepInv, RoomsAreKept
<1>10. ASSUME NEW k \in 1..Len(q), ~q[k].late, i < k
       PROVE  owed' \subseteq q[k].rooms \cup lost'
                /\ \A m \in 1..(k - 1) :
                     q[m].opens \subseteq q[k].rooms /\ owed' \cap q[m].rooms \subseteq q[k].rooms
  <2>1. /\ owed \subseteq q[k].rooms \cup lost
        /\ \A m \in 1..(k - 1) :
             q[m].opens \subseteq q[k].rooms /\ owed \cap q[m].rooms \subseteq q[k].rooms
    BY <1>1, <1>10 DEF KeepInv, SavesHoldWhatIsOwed
  <2>2. s.opens \subseteq q[k].rooms /\ owed \cap s.rooms \subseteq q[k].rooms
    BY <1>1, <1>10, <2>1
  <2> QED BY <1>2, <2>1, <2>2
<1> HIDE DEF q, u, s, K
<1>11. SavesHoldWhatIsOwed(d)'
  <2> SUFFICES ASSUME NEW j \in 1..Len(u)
               PROVE  /\ u[j].opens \subseteq u[j].rooms
                      /\ ~u[j].late =>
                           /\ owed' \subseteq u[j].rooms \cup lost'
                           /\ \A m \in 1..(j - 1) :
                                u[m].opens \subseteq u[j].rooms
                                  /\ owed' \cap u[m].rooms \subseteq u[j].rooms
    BY <1>5 DEF SavesHoldWhatIsOwed, u
  <2>1. u[j].opens \subseteq u[j].rooms
    <3>1. q[K(j)].opens \subseteq q[K(j)].rooms
      BY <1>1, <1>4 DEF KeepInv, SavesHoldWhatIsOwed, q
    <3> QED BY <1>4, <3>1
  <2>2. ASSUME ~u[j].late
        PROVE  /\ owed' \subseteq u[j].rooms \cup lost'
               /\ \A m \in 1..(j - 1) :
                    u[m].opens \subseteq u[j].rooms /\ owed' \cap u[m].rooms \subseteq u[j].rooms
    <3>1. ~q[K(j)].late /\ i < K(j) /\ K(j) \in 1..Len(q)
      <4>1. q[K(j)] \in Save /\ K(j) \in 1..Len(q) /\ K(j) # i
        BY <1>1, <1>4
      <4>2. u[j].late = (q[K(j)].late \/ K(j) < i)
        BY <1>4
      <4>3. ~q[K(j)].late /\ ~(K(j) < i)
        BY <2>2, <4>2
      <4> QED BY <1>1, <4>1, <4>3
    <3>2. \A m \in 1..(j - 1) : m \in 1..Len(u) /\ K(m) \in 1..(K(j) - 1)
      BY <1>1, <1>4, <1>5, <1>6, <3>1
    <3> QED BY <1>4, <1>10, <3>1, <3>2
  <2> QED BY <2>1, <2>2
<1>12. RoomsHoldWhatIsOwed(d)'
  <2> SUFFICES ASSUME Answering(d)
               PROVE  /\ owed' \subseteq rooms[d] \cup lost'
                      /\ \A j \in 1..Len(u) :
                           u[j].opens \subseteq rooms[d] /\ owed' \cap u[j].rooms \subseteq rooms[d]
    BY <1>2, <1>5 DEF RoomsHoldWhatIsOwed, Answering, u
  <2>1. /\ owed \subseteq rooms[d] \cup lost
        /\ \A k \in 1..Len(q) :
             q[k].opens \subseteq rooms[d] /\ owed \cap q[k].rooms \subseteq rooms[d]
    BY <1>1 DEF KeepInv, RoomsHoldWhatIsOwed, q
  <2>2. s.opens \subseteq rooms[d] /\ owed \cap s.rooms \subseteq rooms[d]
    BY <1>1, <2>1 DEF s, q
  <2> QED BY <1>2, <1>4, <2>1, <2>2
<1>13. ASSUME NEW e \in Daemon
       PROVE  /\ saving'[e] # << >> => daemon'[e] \in {"listening", "closing", "unbound"}
              /\ SavesHoldWhatIsOwed(e)' /\ RoomsHoldWhatIsOwed(e)' /\ RestoreHoldsWhatIsOwed(e)'
  <2>1. CASE e = d
    BY <1>2, <1>7, <1>11, <1>12, <2>1 DEF RestoreHoldsWhatIsOwed, Is
  <2>2. CASE e # d
    <3>1. saving'[e] = << >> /\ daemon'[e] \notin Working /\ DOMAIN << >> = {}
      BY <1>2, <1>3, <1>7, <2>2, OnlyOneSaves DEF Working
    <3> QED BY <3>1 DEF SavesHoldWhatIsOwed, RoomsHoldWhatIsOwed, RestoreHoldsWhatIsOwed,
          Answering, Is, Working
  <2> QED BY <2>1, <2>2
<1> QED BY <1>9, <1>13 DEF KeepInv

(* A save is taken from the rooms there are: it holds what is owed and what *)
(* the older ones hold of it.                                              *)
LEMMA OpenKeepsRooms ==
  ASSUME KeepInv, LifeInv', NEW d \in Daemon, NEW r \in Room, Open(d, r)
  PROVE  KeepInv'
<1> DEFINE q == saving[d]
           u == saving'[d]
           here == rooms[d] \cup {r}
           new == ToSave(here, {r})
<1>1. q \in Seq(Save) /\ Len(q) \in Nat /\ DOMAIN q = 1..Len(q)
        /\ \A k \in 1..Len(q) : q[k] \in Save
  BY LenProperties, ElementOfSeq DEF KeepInv, LifeInv
<1>2. /\ rooms' = [rooms EXCEPT ![d] = here] /\ rooms'[d] = here
      /\ saving' = [saving EXCEPT ![d] = Append(q, new)] /\ u = Append(q, new)
      /\ UNCHANGED <<daemon, restore, file, owed, lost>>
      /\ daemon[d] \in {"listening", "closing"}
  BY DEF Open, Answers, KeepInv, LifeInv, LifecycleTypeOK
<1>3. new \in Save
  BY DEF ToSave, Save, KeepInv, LifeInv, LifecycleTypeOK
<1>4. /\ DOMAIN u = 1..(Len(q) + 1) /\ u[Len(q) + 1] = new
      /\ \A k \in 1..Len(q) : u[k] = q[k]
  <2> HIDE DEF q, new, u
  <2>1. u \in Seq(Save) /\ Len(u) = Len(q) + 1
    BY <1>1, <1>2, <1>3, AppendProperties
  <2>2. u[Len(q) + 1] = new /\ \A k \in 1..Len(q) : u[k] = q[k]
    BY <1>1, <1>2, <1>3, AppendProperties
  <2> QED BY <2>1, <2>2, LenProperties
<1>5. new.rooms = here /\ new.opens = {r}
  BY DEF ToSave
<1>6. /\ owed \subseteq rooms[d] \cup lost
      /\ \A k \in 1..Len(q) :
           q[k].opens \subseteq rooms[d] /\ owed \cap q[k].rooms \subseteq rooms[d]
  BY <1>1, <1>2 DEF KeepInv, RoomsHoldWhatIsOwed, Answering
<1>7. ASSUME NEW k \in 1..Len(q)
      PROVE  /\ q[k].opens \subseteq q[k].rooms
             /\ ~q[k].late =>
                  /\ owed \subseteq q[k].rooms \cup lost
                  /\ \A m \in 1..(k - 1) :
                       q[m].opens \subseteq q[k].rooms /\ owed \cap q[m].rooms \subseteq q[k].rooms
  BY <1>1 DEF KeepInv, SavesHoldWhatIsOwed
<1> HIDE DEF q, u, new
<1>8. SavesHoldWhatIsOwed(d)'
  <2> SUFFICES ASSUME NEW j \in 1..(Len(q) + 1)
               PROVE  /\ u[j].opens \subseteq u[j].rooms
                      /\ ~u[j].late =>
                           /\ owed \subseteq u[j].rooms \cup lost
                           /\ \A m \in 1..(j - 1) :
                                u[m].opens \subseteq u[j].rooms
                                  /\ owed \cap u[m].rooms \subseteq u[j].rooms
    BY <1>2, <1>4 DEF SavesHoldWhatIsOwed, u
  <2>1. CASE j \in 1..Len(q)
    <3>1. \A m \in 1..(j - 1) : m \in 1..Len(q)
      BY <1>1, <2>1
    <3> QED BY <1>4, <1>7, <2>1, <3>1
  <2>2. CASE j = Len(q) + 1
    <3>1. \A m \in 1..(j - 1) : m \in 1..Len(q)
      BY <1>1, <2>2
    <3> QED BY <1>4, <1>5, <1>6, <2>2, <3>1
  <2> QED BY <1>1, <2>1, <2>2
<1>9. RoomsHoldWhatIsOwed(d)'
  <2> SUFFICES ASSUME NEW j \in 1..(Len(q) + 1)
               PROVE  /\ owed \subseteq here \cup lost
                      /\ u[j].opens \subseteq here /\ owed \cap u[j].rooms \subseteq here
    BY <1>1, <1>2, <1>4 DEF RoomsHoldWhatIsOwed, Answering, u
  <2>1. CASE j \in 1..Len(q)
    BY <1>4, <1>6, <2>1
  <2>2. CASE j = Len(q) + 1
    BY <1>4, <1>5, <1>6, <2>2
  <2> QED BY <1>1, <2>1, <2>2
<1>10. ASSUME NEW e \in Daemon, e # d
       PROVE  /\ saving'[e] # << >> => daemon'[e] \in {"listening", "closing", "unbound"}
              /\ SavesHoldWhatIsOwed(e)' /\ RoomsHoldWhatIsOwed(e)' /\ RestoreHoldsWhatIsOwed(e)'
  <2>1. saving'[e] = saving[e] /\ rooms'[e] = rooms[e]
    BY <1>2, <1>10 DEF KeepInv, LifeInv, LifecycleTypeOK
  <2> QED BY <1>2, <2>1 DEF KeepInv, SavesHoldWhatIsOwed, RoomsHoldWhatIsOwed,
        RestoreHoldsWhatIsOwed, Answering, Is
<1>11. RoomsAreKept'
  BY <1>2 DEF KeepInv, RoomsAreKept
<1>12. RestoreHoldsWhatIsOwed(d)'
  BY <1>2 DEF RestoreHoldsWhatIsOwed, Is
<1>13. daemon'[d] \in {"listening", "closing", "unbound"}
  BY <1>2
<1> QED BY <1>8, <1>9, <1>10, <1>11, <1>12, <1>13 DEF KeepInv

(* The last save of a daemon told to stop is like any other; that of an    *)
(* idle one begins anew, with nothing owed.                                *)
LEMMA ShutdownKeepsRooms ==
  ASSUME KeepInv, LifeInv', NEW d \in Daemon, NEW kept \in BOOLEAN, Shutdown(d, kept)
  PROVE  KeepInv'
<1> DEFINE q == saving[d]
           u == saving'[d]
           here == KeptRooms(d, kept)
           new == ToSave(here, {})
           e(i) == IF kept THEN q[i] ELSE [q[i] EXCEPT !.opens = {}]
           before == [i \in DOMAIN q |-> e(i)]
<1>1. q \in Seq(Save) /\ Len(q) \in Nat /\ DOMAIN q = 1..Len(q)
        /\ \A k \in 1..Len(q) : q[k] \in Save
  BY LenProperties, ElementOfSeq DEF KeepInv, LifeInv
<1>2. /\ rooms' = [rooms EXCEPT ![d] = here] /\ rooms'[d] = here
      /\ saving' = [saving EXCEPT ![d] = Append(before, new)] /\ u = Append(before, new)
      /\ UNCHANGED <<restore, file, lost>> /\ owed' = IF kept THEN owed ELSE {}
      /\ daemon' = [daemon EXCEPT ![d] = "closing"] /\ daemon'[d] = "closing"
      /\ daemon[d] = "listening"
  BY DEF Shutdown, KeptRooms, Is, Becomes, KeepInv, LifeInv, LifecycleTypeOK
<1>3. new \in Save
  BY DEF ToSave, KeptRooms, Save, KeepInv, LifeInv, LifecycleTypeOK
<1>4. \A k \in 1..Len(q) :
        /\ e(k) \in Save /\ e(k).rooms = q[k].rooms /\ e(k).late = q[k].late
        /\ e(k).opens = IF kept THEN q[k].opens ELSE {}
  BY <1>1 DEF Save
<1>5. /\ DOMAIN u = 1..(Len(q) + 1) /\ u[Len(q) + 1] = new
      /\ \A k \in 1..Len(q) : u[k] = e(k)
  <2> HIDE DEF q, new, u, e
  <2>1. before \in Seq(Save) /\ \A k \in 1..Len(q) : before[k] = e(k)
    BY <1>1, <1>4, IsASeq
  <2>2. Len(before) = Len(q)
    BY <1>1, <2>1, LenProperties
  <2> HIDE DEF before
  <2>3. u \in Seq(Save) /\ Len(u) = Len(q) + 1
    BY <1>1, <1>2, <1>3, <2>1, <2>2, AppendProperties
  <2>4. u[Len(q) + 1] = new /\ \A k \in 1..Len(q) : u[k] = before[k]
    BY <1>1, <1>2, <1>3, <2>1, <2>2, AppendProperties
  <2> QED BY <2>1, <2>3, <2>4, LenProperties
<1>6. new.rooms = here /\ new.opens = {} /\ here = IF kept THEN rooms[d] ELSE {}
  BY DEF ToSave, KeptRooms
<1>7. /\ owed \subseteq rooms[d] \cup lost
      /\ \A k \in 1..Len(q) :
           q[k].opens \subseteq rooms[d] /\ owed \cap q[k].rooms \subseteq rooms[d]
  BY <1>1, <1>2 DEF KeepInv, RoomsHoldWhatIsOwed, Answering
<1>8. ASSUME NEW k \in 1..Len(q)
      PROVE  /\ q[k].opens \subseteq q[k].rooms
             /\ ~q[k].late =>
                  /\ owed \subseteq q[k].rooms \cup lost
                  /\ \A m \in 1..(k - 1) :
                       q[m].opens \subseteq q[k].rooms /\ owed \cap q[m].rooms \subseteq q[k].rooms
  BY <1>1 DEF KeepInv, SavesHoldWhatIsOwed
<1> HIDE DEF q, u, new, e, here, before
<1>9. SavesHoldWhatIsOwed(d)'
  <2> SUFFICES ASSUME NEW j \in 1..(Len(q) + 1)
               PROVE  /\ u[j].opens \subseteq u[j].rooms
                      /\ ~u[j].late =>
                           /\ owed' \subseteq u[j].rooms \cup lost
                           /\ \A m \in 1..(j - 1) :
                                u[m].opens \subseteq u[j].rooms
                                  /\ owed' \cap u[m].rooms \subseteq u[j].rooms
    BY <1>2, <1>5 DEF SavesHoldWhatIsOwed, u
  <2>1. CASE j \in 1..Len(q)
    <3>1. \A m \in 1..(j - 1) : m \in 1..Len(q)
      BY <1>1, <2>1
    <3>2. u[j] = e(j) /\ e(j).rooms = q[j].rooms /\ e(j).late = q[j].late
            /\ e(j).opens = IF kept THEN q[j].opens ELSE {}
      BY <1>4, <1>5, <2>1
    <3>3. \A m \in 1..(j - 1) : u[m].rooms = q[m].rooms
            /\ u[m].opens = IF kept THEN q[m].opens ELSE {}
      BY <1>4, <1>5, <3>1
    <3> QED BY <1>2, <1>8, <2>1, <3>2, <3>3
  <2>2. CASE j = Len(q) + 1
    <3>1. \A m \in 1..(j - 1) : m \in 1..Len(q) /\ u[m].rooms = q[m].rooms
            /\ u[m].opens = IF kept THEN q[m].opens ELSE {}
      BY <1>1, <1>4, <1>5, <2>2
    <3> QED BY <1>2, <1>5, <1>6, <1>7, <2>2, <3>1
  <2> QED BY <1>1, <2>1, <2>2
<1>10. RoomsHoldWhatIsOwed(d)'
  <2> SUFFICES ASSUME NEW j \in 1..(Len(q) + 1)
               PROVE  /\ owed' \subseteq here \cup lost
                      /\ u[j].opens \subseteq here /\ owed' \cap u[j].rooms \subseteq here
    BY <1>1, <1>2, <1>5 DEF RoomsHoldWhatIsOwed, Answering, u
  <2>1. CASE j \in 1..Len(q)
    BY <1>2, <1>4, <1>5, <1>6, <1>7, <2>1
  <2>2. CASE j = Len(q) + 1
    BY <1>2, <1>5, <1>6, <1>7, <2>2
  <2> QED BY <1>1, <2>1, <2>2
<1>11. ASSUME NEW c \in Daemon, c # d
       PROVE  /\ saving'[c] # << >> => daemon'[c] \in {"listening", "closing", "unbound"}
              /\ SavesHoldWhatIsOwed(c)' /\ RoomsHoldWhatIsOwed(c)' /\ RestoreHoldsWhatIsOwed(c)'
  <2>1. saving'[c] = saving[c] /\ rooms'[c] = rooms[c] /\ daemon'[c] = daemon[c]
    BY <1>2, <1>11 DEF KeepInv, LifeInv, LifecycleTypeOK
  <2>2. owed' \subseteq owed
    BY <1>2
  <2> QED BY <1>2, <2>1, <2>2 DEF KeepInv, SavesHoldWhatIsOwed, RoomsHoldWhatIsOwed,
        RestoreHoldsWhatIsOwed, Answering, Is
<1>12. RoomsAreKept'
  BY <1>2 DEF KeepInv, RoomsAreKept
<1>13. RestoreHoldsWhatIsOwed(d)'
  BY <1>2 DEF RestoreHoldsWhatIsOwed, Is
<1> QED BY <1>2, <1>9, <1>10, <1>11, <1>12, <1>13 DEF KeepInv

(* Starting, rejoining and listening: what the file owes the next daemon   *)
(* passes from the file to the list of rooms to rejoin, and to its rooms.  *)
LEMMA StartKeepsRooms ==
  ASSUME KeepInv, LifeInv', NEW d \in Daemon,
         Lock(d) \/ Listen(d) \/ \E r \in Room : Rejoin(d, r)
  PROVE  KeepInv'
<1> USE DEF Is, Becomes
<1>1. ASSUME NEW e \in Daemon, saving'[e] = saving[e], daemon'[e] = daemon[e],
             rooms[e] \subseteq rooms'[e], owed' \subseteq owed, lost' = lost,
             restore[e] \subseteq restore'[e] \cup rooms'[e]
               \/ (\E r \in restore[e] : restore[e] \ {r} \subseteq restore'[e] /\ r \notin owed')
      PROVE  /\ saving'[e] # << >> => daemon'[e] \in {"listening", "closing", "unbound"}
             /\ SavesHoldWhatIsOwed(e)' /\ RoomsHoldWhatIsOwed(e)' /\ RestoreHoldsWhatIsOwed(e)'
  <2>1. saving'[e] # << >> => daemon'[e] \in {"listening", "closing", "unbound"}
    BY <1>1 DEF KeepInv
  <2>2. SavesHoldWhatIsOwed(e)'
    BY <1>1 DEF KeepInv, SavesHoldWhatIsOwed
  <2>3. RoomsHoldWhatIsOwed(e)'
    BY <1>1 DEF KeepInv, RoomsHoldWhatIsOwed, Answering
  <2>4. RestoreHoldsWhatIsOwed(e)'
    BY <1>1 DEF KeepInv, RestoreHoldsWhatIsOwed
  <2> QED BY <2>1, <2>2, <2>3, <2>4
<1>2. ASSUME daemon[d] \in {"starting", "restoring"}
      PROVE  saving[d] = << >> /\ DOMAIN << >> = {}
  BY <1>2 DEF KeepInv
<1>3. CASE Lock(d)
  <2>1. /\ saving[d] = << >> /\ DOMAIN << >> = {} /\ UNCHANGED <<saving, rooms, owed, lost, file>>
        /\ \A e \in Daemon : e # d => daemon'[e] = daemon[e] /\ restore'[e] = restore[e]
    BY <1>2, <1>3 DEF Lock, KeepInv, LifeInv, LifecycleTypeOK
  <2>2. (daemon'[d] = "restoring" /\ restore'[d] = file) \/ daemon'[d] = "gone"
    BY <1>3 DEF Lock, KeepInv, LifeInv, LifecycleTypeOK
  <2>3. RoomsAreKept'
    BY <2>1 DEF KeepInv, RoomsAreKept
  <2>4. /\ saving'[d] # << >> => daemon'[d] \in {"listening", "closing", "unbound"}
        /\ SavesHoldWhatIsOwed(d)' /\ RoomsHoldWhatIsOwed(d)' /\ RestoreHoldsWhatIsOwed(d)'
    BY <2>1, <2>2 DEF KeepInv, RoomsAreKept, SavesHoldWhatIsOwed, RoomsHoldWhatIsOwed,
      RestoreHoldsWhatIsOwed, Answering
  <2> QED BY <1>1, <2>1, <2>3, <2>4 DEF KeepInv
<1>4. CASE Listen(d)
  <2>1. /\ saving[d] = << >> /\ DOMAIN << >> = {}
        /\ UNCHANGED <<saving, rooms, restore, owed, lost, file>>
        /\ \A e \in Daemon : e # d => daemon'[e] = daemon[e]
        /\ daemon'[d] = "listening" /\ daemon[d] = "restoring" /\ restore[d] = {}
    BY <1>2, <1>4 DEF Listen, Restored, KeepInv, LifeInv, LifecycleTypeOK
  <2>2. RoomsAreKept'
    BY <2>1 DEF KeepInv, RoomsAreKept
  <2>3. /\ saving'[d] # << >> => daemon'[d] \in {"listening", "closing", "unbound"}
        /\ SavesHoldWhatIsOwed(d)' /\ RoomsHoldWhatIsOwed(d)' /\ RestoreHoldsWhatIsOwed(d)'
    BY <2>1 DEF KeepInv, SavesHoldWhatIsOwed, RoomsHoldWhatIsOwed, RestoreHoldsWhatIsOwed,
      Answering
  <2> QED BY <1>1, <2>1, <2>2, <2>3 DEF KeepInv
<1>5. ASSUME NEW r \in Room, Rejoin(d, r) PROVE KeepInv'
  <2>1. /\ UNCHANGED <<daemon, saving, lost, file>> /\ owed' \subseteq owed
        /\ \A e \in Daemon : e # d => rooms'[e] = rooms[e] /\ restore'[e] = restore[e]
        /\ restore'[d] = restore[d] \ {r} /\ r \in restore[d]
        /\ rooms'[d] = rooms[d] \cup {r} \/ (rooms'[d] = rooms[d] /\ r \notin owed')
    BY <1>5 DEF Rejoin, KeepInv, LifeInv, LifecycleTypeOK
  <2>2. RoomsAreKept'
    BY <2>1 DEF KeepInv, RoomsAreKept
  <2> QED BY <1>1, <2>1, <2>2 DEF KeepInv
<1> QED BY <1>3, <1>4, <1>5

(* What a daemon holds ends with it: the file is what is left.             *)
LEMMA EndKeepsRooms ==
  ASSUME KeepInv, LifeInv', NEW d \in Daemon, Exit(d) \/ Crash(d)
  PROVE  KeepInv'
<1>1. /\ UNCHANGED <<file, owed, lost>> /\ saving'[d] = << >> /\ daemon'[d] = "gone"
      /\ \A e \in Daemon : e # d =>
           /\ daemon'[e] = daemon[e] /\ rooms'[e] = rooms[e]
           /\ restore'[e] = restore[e] /\ saving'[e] = saving[e]
  BY DEF Exit, Crash, Ends, Becomes, KeepInv, LifeInv, LifecycleTypeOK
<1>2. RoomsAreKept'
  BY <1>1 DEF KeepInv, RoomsAreKept
<1>3. ASSUME NEW e \in Daemon
      PROVE  /\ saving'[e] # << >> => daemon'[e] \in {"listening", "closing", "unbound"}
             /\ SavesHoldWhatIsOwed(e)' /\ RoomsHoldWhatIsOwed(e)' /\ RestoreHoldsWhatIsOwed(e)'
  <2>1. CASE e = d
    <3>1. DOMAIN << >> = {}
      OBVIOUS
    <3> QED BY <1>1, <2>1, <3>1 DEF SavesHoldWhatIsOwed, RoomsHoldWhatIsOwed,
          RestoreHoldsWhatIsOwed, Answering, Is
  <2>2. CASE e # d
    BY <1>1, <2>2 DEF KeepInv, SavesHoldWhatIsOwed, RoomsHoldWhatIsOwed,
      RestoreHoldsWhatIsOwed, Answering, Is
  <2> QED BY <2>1, <2>2
<1> QED BY <1>2, <1>3 DEF KeepInv

(* A front end starts a daemon at most; one told to stop, or unbound, has   *)
(* the rooms it had.                                                       *)
LEMMA OthersKeepRooms ==
  ASSUME KeepInv, LifeInv',
         \/ \E c \in Client :
              Reach(c) \/ Unreached(c) \/ Probe(c) \/ Probed(c) \/ Spawn(c) \/ GivesUp(c)
                \/ AsksAgain(c)
         \/ \E d \in Daemon : StopVerb(d) \/ Unbind(d)
         \/ UNCHANGED pvars
  PROVE  KeepInv'
<1> USE DEF Is, Becomes
<1>1. ASSUME NEW c \in Client,
             Reach(c) \/ Unreached(c) \/ Probe(c) \/ Probed(c) \/ GivesUp(c) \/ AsksAgain(c)
      PROVE  UNCHANGED <<daemon, rooms, restore, saving, file, lost, owed>>
  BY <1>1 DEF Reach, Unreached, Probe, Probed, GivesUp, AsksAgain
<1>2. ASSUME NEW c \in Client, Spawn(c) PROVE KeepInv'
  <2>1. PICK d \in Daemon : daemon[d] = "none" /\ daemon' = [daemon EXCEPT ![d] = "starting"]
    BY <1>2 DEF Spawn
  <2>2. saving[d] = << >>
    BY <2>1 DEF KeepInv
  <2> QED BY <1>2, <2>1, <2>2, KeepUntouched DEF Spawn, KeepInv, LifeInv, LifecycleTypeOK
<1>3. ASSUME NEW d \in Daemon, StopVerb(d) PROVE KeepInv'
  BY <1>3, KeepUntouched DEF StopVerb
<1>4. ASSUME NEW d \in Daemon, Unbind(d) PROVE KeepInv'
  BY <1>4, KeepUntouched DEF Unbind, KeepInv, LifeInv, LifecycleTypeOK
<1>5. CASE UNCHANGED pvars
  BY <1>5, KeepUntouched
<1>6. ASSUME UNCHANGED <<daemon, rooms, restore, saving, file, lost, owed>> PROVE KeepInv'
  BY <1>6, KeepUntouched
<1> QED BY <1>1, <1>2, <1>3, <1>4, <1>5, <1>6

(* A step leaves what is owed where it can be found again. *)
LEMMA NextKeep == KeepInv /\ [Next]_pvars => KeepInv'
<1> SUFFICES ASSUME KeepInv, [Next]_pvars PROVE KeepInv'
  OBVIOUS
<1>1. LifeInv'
  BY NextLife DEF KeepInv
<1>2. ASSUME NEW d \in Daemon, Lock(d) \/ Listen(d) \/ \E r \in Room : Rejoin(d, r)
      PROVE  KeepInv'
  BY <1>1, <1>2, StartKeepsRooms
<1>3. ASSUME NEW d \in Daemon, NEW r \in Room, Open(d, r) PROVE KeepInv'
  BY <1>1, <1>3, OpenKeepsRooms
<1>4. ASSUME NEW d \in Daemon, NEW kept \in BOOLEAN, Shutdown(d, kept) PROVE KeepInv'
  BY <1>1, <1>4, ShutdownKeepsRooms
<1>5. ASSUME NEW d \in Daemon, NEW i \in DOMAIN saving[d], Write(d, i) PROVE KeepInv'
  BY <1>1, <1>5, WriteKeepsRooms
<1>6. ASSUME NEW d \in Daemon, Exit(d) \/ Crash(d) PROVE KeepInv'
  BY <1>1, <1>6, EndKeepsRooms
<1>7. ASSUME \/ \E c \in Client :
                  Reach(c) \/ Unreached(c) \/ Probe(c) \/ Probed(c) \/ Spawn(c) \/ GivesUp(c)
                    \/ AsksAgain(c)
             \/ \E d \in Daemon : StopVerb(d) \/ Unbind(d)
             \/ UNCHANGED pvars
      PROVE  KeepInv'
  BY <1>1, <1>7, OthersKeepRooms
<1> QED BY <1>2, <1>3, <1>4, <1>5, <1>6, <1>7 DEF Next

(* Every value is of its kind.                                             *)
THEOREM LifecycleTypes == Spec => []LifecycleTypeOK
<1>1. LifeInv => LifecycleTypeOK
  BY DEF LifeInv
<1> QED BY <1>1, InitLife, NextLife, PTL DEF Spec

(* One daemon works, and every room a save put down is in the state file or *)
(* was put out of it by a save that another one overtook: hand-overs,      *)
(* crashes and failed rejoins, in any order, lose no other.                *)
THEOREM RoomsSurviveDaemons == Spec => []RoomsSurvive
<1>1. KeepInv => RoomsSurvive
  BY DEF KeepInv, LifeInv, RoomsSurvive
<1>2. KeepInv /\ [Next]_pvars => KeepInv'
  BY NextKeep
<1>3. Init => KeepInv
  BY InitKeep
<1> QED BY <1>1, <1>2, <1>3, PTL DEF Spec

-----------------------------------------------------------------------------
(* The share link.                                                         *)

Holding == {"redeeming", "redeemed", "refused"}

Whereabouts ==
  Holding \cup {"away", "waiting", "direct", "have", "unlinked", "joined"}

(* LinksTypeOK with its intervals spelled out. *)
LinkTypes ==
  /\ known \in BOOLEAN /\ linkRoom \in BOOLEAN /\ spent \in BOOLEAN /\ astray \in BOOLEAN
  /\ claims \in Nat /\ claim \in Nat /\ claim <= claims
  /\ mine \in [Front -> Nat] /\ \A f \in Front : mine[f] <= claims
  /\ at \in [Front -> Whereabouts]
  /\ \A x \in expired \cup robbed : x \in Nat /\ 0 < x /\ x <= claims

(* Who redeems, or comes back from it, was given a claim nobody else was:   *)
(* a failure that is reported late lets go what is another's, and says so. *)
LinksInv ==
  /\ LinkTypes
  /\ \A f \in Front : at[f] \in Holding => mine[f] # 0
  /\ \A f, g \in Front :
       at[f] \in Holding /\ at[g] \in Holding /\ mine[f] = mine[g] => f = g
  /\ SpentIsKnown /\ OneRedeems

(* The types that the proof uses are those that the run checks. *)
LEMMA LinkTypesAre == LinkTypes => LinksTypeOK
<1> SUFFICES ASSUME LinkTypes PROVE LinksTypeOK
  OBVIOUS
<1>1. mine \in [Front -> 0..claims] /\ claim \in 0..claims
  BY DEF LinkTypes
<1>2. expired \subseteq 1..claims /\ robbed \subseteq 1..claims
  BY DEF LinkTypes
<1>3. at \in [Front -> {"away", "waiting", "redeeming", "direct", "redeemed", "refused",
                       "have", "unlinked", "joined"}]
  BY DEF LinkTypes, Whereabouts, Holding
<1> QED BY <1>1, <1>2, <1>3 DEF LinkTypes, LinksTypeOK

(* At first nobody has a claim of the link. *)
LEMMA InitLinked == InitLinks => LinksInv
<1> SUFFICES ASSUME InitLinks PROVE LinksInv
  OBVIOUS
<1>1. /\ claim = 0 /\ claims = 0 /\ expired = {} /\ robbed = {}
      /\ at = [f \in Front |-> "away"] /\ mine = [f \in Front |-> 0]
  BY DEF InitLinks
<1>2. /\ known \in BOOLEAN /\ linkRoom \in BOOLEAN /\ spent \in BOOLEAN /\ astray \in BOOLEAN
      /\ ~spent
  BY DEF InitLinks
<1>3. LinkTypes
  BY <1>1, <1>2 DEF LinkTypes, Whereabouts
<1> QED BY <1>1, <1>2, <1>3 DEF LinksInv, Holding, SpentIsKnown, OneRedeems

USE DEF lvars

(* What was spent stays known. *)
LEMMA SpentStays ==
  ASSUME SpentIsKnown, known => known', linkRoom => linkRoom', astray => astray',
         spent' => spent \/ astray' \/ \E f \in Front : at'[f] \in {"redeemed", "unlinked"},
         \A f \in Front : at[f] \in {"redeemed", "unlinked"} =>
                           at'[f] = at[f] \/ astray' \/ known'
  PROVE  SpentIsKnown'
BY DEF SpentIsKnown

(* A front end looks the link up, claims it, or waits for who has it. *)
LEMMA LookupKeeps ==
  ASSUME LinksInv, NEW f \in Front, at[f] \in {"away", "waiting"}, Lookup(f)
  PROVE  LinksInv'
<1> USE DEF Moves
<1>1. CASE linkRoom \/ known
  BY <1>1 DEF Lookup, LinksInv, LinkTypes, Holding, Whereabouts, SpentIsKnown, OneRedeems
<1>2. CASE ~linkRoom /\ ~known /\ Free
  <2>1. /\ claims' = claims + 1 /\ claim' = claims + 1
        /\ mine' = [mine EXCEPT ![f] = claims + 1]
        /\ at' = [at EXCEPT ![f] = "redeeming"]
        /\ UNCHANGED <<known, linkRoom, spent, troubles, expired, robbed, astray>>
    BY <1>2, Zenon DEF Lookup
  <2>2. LinkTypes'
    <3>1. claims' \in Nat /\ claims < claims' /\ claim' = claims' /\ claim' \in Nat
      BY <2>1 DEF LinksInv, LinkTypes
    <3>2. mine' \in [Front -> Nat] /\ \A g \in Front : mine'[g] <= claims'
      BY <2>1, <3>1 DEF LinksInv, LinkTypes
    <3>3. at' \in [Front -> Whereabouts]
      BY <2>1 DEF LinksInv, LinkTypes, Whereabouts, Holding
    <3>4. \A x \in expired' \cup robbed' : x \in Nat /\ 0 < x /\ x <= claims'
      BY <2>1, <3>1 DEF LinksInv, LinkTypes
    <3>5. /\ known' \in BOOLEAN /\ linkRoom' \in BOOLEAN
          /\ spent' \in BOOLEAN /\ astray' \in BOOLEAN
      BY <2>1, Zenon DEF LinksInv, LinkTypes
    <3> QED BY <3>1, <3>2, <3>3, <3>4, <3>5 DEF LinkTypes
  <2>3. claims + 1 # 0 /\ \A g \in Front : mine[g] \in Nat /\ mine[g] # claims + 1
    BY DEF LinksInv, LinkTypes
  <2>4. \A g \in Front : g # f => mine'[g] = mine[g] /\ at'[g] = at[g]
    BY <2>1 DEF LinksInv, LinkTypes
  <2>5. mine'[f] = claims + 1 /\ at'[f] = "redeeming"
    BY <2>1 DEF LinksInv, LinkTypes
  <2>6. SpentIsKnown'
    BY <2>1, <2>4, SpentStays DEF LinksInv, LinkTypes
  <2>7. ASSUME NEW g \in Front, g # f, at'[g] = "redeeming", ~known'
        PROVE  mine'[g] \in {claim'} \cup expired' \cup robbed'
    <3>1. mine[g] # 0 /\ mine[g] \in {claim} \cup expired \cup robbed
      BY <2>1, <2>4, <2>7 DEF LinksInv, OneRedeems, Holding
    <3>2. claim = 0 \/ claim \in expired
      BY <1>2 DEF Free
    <3> QED BY <2>1, <2>4, <2>7, <3>1, <3>2
  <2>8. OneRedeems'
    BY <2>1, <2>5, <2>7 DEF OneRedeems
  <2> QED BY <2>1, <2>2, <2>3, <2>4, <2>5, <2>6, <2>8 DEF LinksInv, Holding
<1>3. CASE ~linkRoom /\ ~known /\ ~Free
  <2>1. /\ mine' = [mine EXCEPT ![f] = claim] /\ at' = [at EXCEPT ![f] = "waiting"]
        /\ UNCHANGED <<known, claim, claims, linkRoom, spent, troubles, expired, robbed, astray>>
    BY <1>3, Zenon DEF Lookup
  <2>2. SpentIsKnown'
    BY <2>1, SpentStays DEF LinksInv, LinkTypes
  <2>3. /\ mine' \in [Front -> Nat] /\ at' \in [Front -> Whereabouts]
        /\ \A g \in Front : mine'[g] <= claims'
        /\ \A g \in Front : at'[g] \in Holding => at'[g] = at[g] /\ mine'[g] = mine[g]
    BY <2>1 DEF LinksInv, LinkTypes, Whereabouts, Holding
  <2>4. LinkTypes'
    BY <2>1, <2>3 DEF LinksInv, LinkTypes
  <2>5. OneRedeems'
    BY <2>1, <2>3 DEF LinksInv, OneRedeems, Holding
  <2> QED BY <2>1, <2>2, <2>3, <2>4, <2>5 DEF LinksInv
<1> QED BY <1>1, <1>2, <1>3

(* A failure reported after the claim went to another lets that one go.     *)
LEMMA ReleaseKeeps == ASSUME LinksInv, NEW f \in Front, Release(f) PROVE LinksInv'
<1>1. /\ at[f] = "refused" /\ at' = [at EXCEPT ![f] = "away"] /\ known' = known /\ claim' = 0
      /\ robbed' = robbed \cup Others(f)
      /\ UNCHANGED <<linkRoom, mine, claims, spent, troubles, expired, astray>>
  BY DEF Release, Moves, KeptSession
<1>2. \A x \in Others(f) : x \in Nat /\ 0 < x /\ x <= claims
  BY DEF Others, LinksInv, LinkTypes
<1>3. LinkTypes'
  <2>1. \A x \in robbed' : x \in Nat /\ 0 < x /\ x <= claims
    BY <1>1, <1>2 DEF LinksInv, LinkTypes
  <2>2. at' \in [Front -> Whereabouts]
    BY <1>1 DEF LinksInv, LinkTypes, Whereabouts
  <2> QED BY <1>1, <2>1, <2>2 DEF LinksInv, LinkTypes
<1>4. SpentIsKnown'
  BY <1>1, SpentStays DEF LinksInv, LinkTypes
<1>5. ASSUME NEW g \in Front, at'[g] = "redeeming", ~known'
      PROVE  mine'[g] \in {claim'} \cup expired' \cup robbed'
  <2>1. at[g] = "redeeming" /\ g # f
    BY <1>1, <1>5 DEF LinksInv, LinkTypes
  <2>2. mine[g] # 0 /\ mine[g] # mine[f] /\ mine[g] \in {claim} \cup expired \cup robbed
    BY <1>1, <1>5, <2>1 DEF LinksInv, Holding, OneRedeems
  <2>3. mine[g] = claim => mine[g] \in Others(f) \cup expired
    BY <2>2 DEF Others
  <2> QED BY <1>1, <2>2, <2>3
<1> QED BY <1>1, <1>3, <1>4, <1>5 DEF LinksInv, LinkTypes, OneRedeems, Holding

(* A front end's other steps give no claim and let none go. *)
LEMMA MovesOn ==
  ASSUME LinksInv, NEW f \in Front, NEW w \in Whereabouts, at' = [at EXCEPT ![f] = w],
         w # "redeeming", w \in Holding => at[f] \in Holding,
         UNCHANGED <<known, claim, mine, claims, expired, robbed>>,
         linkRoom' \in BOOLEAN, spent' \in BOOLEAN, astray' \in BOOLEAN, SpentIsKnown'
  PROVE  LinksInv'
<1>1. at' \in [Front -> Whereabouts] /\ at'[f] = w /\ \A g \in Front : g # f => at'[g] = at[g]
  BY DEF LinksInv, LinkTypes
<1>2. LinkTypes'
  BY <1>1 DEF LinksInv, LinkTypes
<1>3. OneRedeems'
  BY <1>1 DEF LinksInv, OneRedeems
<1> QED BY <1>1, <1>2, <1>3 DEF LinksInv

(* The other steps of a front end. *)
LEMMA FrontKeeps ==
  ASSUME LinksInv, NEW f \in Front,
         WaitRunsOut(f) \/ Redeem(f) \/ ReportLost(f) \/ Join(f) \/ Die(f) \/ AskNobody(f)
  PROVE  LinksInv'
<1> USE DEF Moves, Holding, Whereabouts
<1>0. /\ at \in [Front -> Whereabouts] /\ SpentIsKnown
      /\ linkRoom \in BOOLEAN /\ spent \in BOOLEAN /\ astray \in BOOLEAN
  BY DEF LinksInv, LinkTypes
<1>1. CASE WaitRunsOut(f)
  <2>1. SpentIsKnown'
    BY <1>0, <1>1 DEF WaitRunsOut, SpentIsKnown
  <2> QED BY <1>0, <1>1, <2>1, MovesOn DEF WaitRunsOut
<1>2. CASE AskNobody(f)
  <2>1. SpentIsKnown'
    BY <1>0, <1>2 DEF AskNobody, SpentIsKnown
  <2> QED BY <1>0, <1>2, <2>1, MovesOn DEF AskNobody
<1>3. CASE Redeem(f)
  <2>1. PICK w \in {"unlinked", "redeemed", "away", "refused"} :
          /\ at' = [at EXCEPT ![f] = w]
          /\ w \in Holding => at[f] = "redeeming"
          /\ at[f] \in {"redeeming", "direct"}
          /\ w \in {"away", "refused"} => (spent' => spent \/ astray')
    BY <1>3 DEF Redeem
  <2>2. /\ UNCHANGED <<known, claim, linkRoom, mine, claims, expired, robbed>>
        /\ (spent' = TRUE \/ spent' = spent) /\ (astray' = TRUE \/ astray' = astray)
    BY <1>3 DEF Redeem
  <2>3. at'[f] = w /\ \A g \in Front : g # f => at'[g] = at[g]
    BY <1>0, <2>1
  <2>4. spent' \in BOOLEAN /\ astray' \in BOOLEAN /\ (astray => astray')
    <3>1. spent' \in BOOLEAN
      BY <1>0, <2>2, Zenon
    <3>2. CASE astray' = TRUE
      BY <3>1, <3>2, Zenon
    <3>3. CASE astray' = astray
      BY <1>0, <3>1, <3>3, Zenon
    <3> QED BY <2>2, <3>2, <3>3
  <2>5. SpentIsKnown'
    BY <1>0, <2>1, <2>2, <2>3, <2>4, SpentStays
  <2> QED BY <1>0, <2>1, <2>2, <2>4, <2>5, MovesOn
<1>4. CASE ReportLost(f)
  <2>1. PICK w \in {"have", "away"} : at' = [at EXCEPT ![f] = w]
    BY <1>4 DEF ReportLost
  <2>2. /\ at[f] \in {"redeemed", "refused"}
        /\ UNCHANGED <<known, claim, linkRoom, mine, claims, spent, expired, robbed>>
        /\ astray' = (astray \/ at[f] = "redeemed")
    BY <1>4, Zenon DEF ReportLost
  <2>3. astray' \in BOOLEAN /\ (astray => astray') /\ (at[f] = "redeemed" => astray')
    BY <2>2, Zenon
  <2>4. \A g \in Front : g # f => at'[g] = at[g]
    BY <1>0, <2>1
  <2>5. SpentIsKnown'
    BY <1>0, <2>2, <2>3, <2>4, SpentStays
  <2> QED BY <1>0, <2>1, <2>2, <2>3, <2>5, MovesOn
<1>5. CASE Join(f)
  <2>1. PICK w \in {"joined", "away"} : at' = [at EXCEPT ![f] = w]
    BY <1>5 DEF Join
  <2>2. /\ at[f] \in {"have", "unlinked"}
        /\ UNCHANGED <<known, claim, mine, claims, spent, expired, robbed>>
        /\ astray' = (astray \/ at[f] = "unlinked")
        /\ linkRoom' = linkRoom \/ linkRoom' = (linkRoom \/ at[f] = "have")
    BY <1>5, Zenon DEF Join
  <2>3. astray' \in BOOLEAN /\ (astray => astray') /\ (at[f] = "unlinked" => astray')
    BY <2>2, Zenon
  <2>4. linkRoom' \in BOOLEAN /\ (linkRoom => linkRoom')
    <3>1. CASE linkRoom' = linkRoom
      BY <1>0, <3>1, Zenon
    <3>2. CASE linkRoom' = (linkRoom \/ at[f] = "have")
      BY <3>2, Zenon
    <3> QED BY <2>2, <3>1, <3>2
  <2>5. \A g \in Front : g # f => at'[g] = at[g]
    BY <1>0, <2>1
  <2>6. SpentIsKnown'
    BY <1>0, <2>2, <2>3, <2>4, <2>5, SpentStays
  <2> QED BY <1>0, <2>1, <2>2, <2>3, <2>4, <2>6, MovesOn
<1>6. CASE Die(f)
  <2>1. /\ at' = [at EXCEPT ![f] = "away"]
        /\ UNCHANGED <<known, claim, linkRoom, mine, claims, spent, expired, robbed>>
        /\ astray' = (astray \/ at[f] \in {"redeemed", "unlinked"})
    BY <1>6, Zenon DEF Die
  <2>2. astray' \in BOOLEAN /\ (astray => astray')
        /\ (at[f] \in {"redeemed", "unlinked"} => astray')
    BY <2>1, Zenon
  <2>3. \A g \in Front : g # f => at'[g] = at[g]
    BY <1>0, <2>1
  <2>4. SpentIsKnown'
    BY <1>0, <2>1, <2>2, <2>3, SpentStays
  <2> QED BY <1>0, <2>1, <2>2, <2>4, MovesOn
<1> QED BY <1>1, <1>2, <1>3, <1>4, <1>5, <1>6

(* A redeemed link is reported, and the claim is settled. *)
LEMMA FulfilKeeps == ASSUME LinksInv, NEW f \in Front, Fulfil(f) PROVE LinksInv'
<1>1. /\ at' = [at EXCEPT ![f] = "have"] /\ known' = TRUE /\ claim' = 0
      /\ UNCHANGED <<linkRoom, mine, claims, spent, troubles, expired, robbed, astray>>
  BY Zenon DEF Fulfil, Moves
<1>2. at' \in [Front -> Whereabouts] /\ \A g \in Front : at'[g] \in Holding => at'[g] = at[g]
  BY <1>1 DEF LinksInv, LinkTypes, Whereabouts, Holding
<1>3. LinkTypes'
  BY <1>1, <1>2 DEF LinksInv, LinkTypes
<1>4. SpentIsKnown' /\ OneRedeems'
  BY <1>1 DEF SpentIsKnown, OneRedeems
<1> QED BY <1>1, <1>2, <1>3, <1>4 DEF LinksInv

(* The book is gone; whoever redeems will find that its claim ran out.      *)
LEMMA RestartKeeps == ASSUME LinksInv, Restart PROVE LinksInv'
<1> DEFINE ran == {mine[f] : f \in {g \in Front : at[g] = "redeeming"}}
<1>1. /\ known' = FALSE /\ claim' = 0
      /\ at' = [f \in Front |-> IF at[f] = "waiting" THEN "direct" ELSE at[f]]
      /\ expired' = expired \cup ran
      /\ UNCHANGED <<mine, claims, spent, robbed>>
      /\ linkRoom' \in {linkRoom, FALSE}
  BY DEF Restart
<1>2. astray' = (astray \/ ((known \/ linkRoom) /\ ~linkRoom'))
  BY Zenon DEF Restart
<1>3. \A x \in ran : x \in Nat /\ 0 < x /\ x <= claims
  BY DEF LinksInv, LinkTypes, Holding
<1>4. LinkTypes'
  <2>1. astray' \in BOOLEAN
    BY <1>2, Zenon
  <2>2. at' \in [Front -> Whereabouts]
    BY <1>1 DEF LinksInv, LinkTypes, Whereabouts
  <2>3. \A x \in expired' : x \in Nat /\ 0 < x /\ x <= claims
    BY <1>1, <1>3 DEF LinksInv, LinkTypes
  <2>4. known' \in BOOLEAN /\ linkRoom' \in BOOLEAN /\ spent' \in BOOLEAN
    BY <1>1, Zenon DEF LinksInv, LinkTypes
  <2>5. \A x \in robbed' : x \in Nat /\ 0 < x /\ x <= claims
    BY <1>1 DEF LinksInv, LinkTypes
  <2>6. claims' \in Nat /\ claim' \in Nat /\ claim' <= claims'
    BY <1>1 DEF LinksInv, LinkTypes
  <2>7. mine' \in [Front -> Nat] /\ \A f \in Front : mine'[f] <= claims'
    BY <1>1 DEF LinksInv, LinkTypes
  <2> HIDE DEF ran
  <2> QED BY <1>1, <2>1, <2>2, <2>3, <2>4, <2>5, <2>6, <2>7 DEF LinkTypes
<1>5. \A f \in Front : at'[f] \in Holding \cup {"unlinked"} =>
                         at[f] = at'[f] /\ mine'[f] = mine[f]
  BY <1>1 DEF LinksInv, LinkTypes, Holding
<1>6. SpentIsKnown'
  <2>1. \A f \in Front : at[f] \in {"redeemed", "unlinked"} => at'[f] = at[f]
    BY <1>1 DEF LinksInv, LinkTypes
  <2> QED BY <1>1, <1>2, <2>1 DEF LinksInv, LinkTypes, SpentIsKnown
<1>7. OneRedeems'
  BY <1>1, <1>5 DEF OneRedeems, Holding
<1> QED BY <1>1, <1>4, <1>5, <1>6, <1>7 DEF LinksInv

(* A step of any front end or of the daemon keeps the invariant. *)
LEMMA NextLinked == LinksInv /\ [NextLinks]_lvars => LinksInv'
<1> SUFFICES ASSUME LinksInv, [NextLinks]_lvars PROVE LinksInv'
  OBVIOUS
<1>1. ASSUME NEW f \in Front, Ask(f) \/ Wake(f) PROVE LinksInv'
  BY <1>1, LookupKeeps DEF Ask, Wake
<1>2. ASSUME NEW f \in Front, Fulfil(f) \/ Release(f) PROVE LinksInv'
  BY <1>2, FulfilKeeps, ReleaseKeeps
<1>3. ASSUME NEW f \in Front,
             WaitRunsOut(f) \/ Redeem(f) \/ ReportLost(f) \/ Join(f) \/ Die(f) \/ AskNobody(f)
      PROVE  LinksInv'
  BY <1>3, FrontKeeps
<1>4. CASE Expire
  BY <1>4 DEF Expire, LinksInv, LinkTypes, SpentIsKnown, OneRedeems
<1>5. CASE Restart
  BY <1>5, RestartKeeps
<1>6. CASE UNCHANGED lvars
  BY <1>6 DEF LinksInv, LinkTypes, SpentIsKnown, OneRedeems
<1> QED BY <1>1, <1>2, <1>3, <1>4, <1>5, <1>6 DEF NextLinks

(* Whichever claims run out, however late their holders report, and         *)
(* whichever daemons and front ends die: a link the server has taken is     *)
(* known, or a fault lost it on the way, and until it is known it is        *)
(* redeemed by one claim's holder (links.go).                               *)
THEOREM LinksAreNotBurned == SpecLinks => []LinksAreSpentOnce
<1>1. LinksInv => LinksAreSpentOnce
  BY DEF LinksInv, LinksAreSpentOnce
<1> QED BY <1>1, InitLinked, NextLinked, PTL DEF SpecLinks

(* Claims are numbered, and what a front end holds is one of them.          *)
THEOREM LinksTypes == SpecLinks => []LinksTypeOK
<1>1. LinksInv => LinksTypeOK
  BY LinkTypesAre DEF LinksInv
<1> QED BY <1>1, InitLinked, NextLinked, PTL DEF SpecLinks

-----------------------------------------------------------------------------
(* The front end.                                                          *)

Settling == {"joining", "swapping", "leaving", "adopting", "adopted"}
Adopting == {"attaching", "attached"}

(* Where each of the three is, and with which room.                         *)
Errands ==
  /\ link \in Room \cup {None} /\ pending \in {None, link}
  /\ startup \in {"attaching", "landed"} => pending # None
  /\ startup = "new" => tool = "idle" /\ watch = "off"
  /\ tool \in Settling \cup {"gated"} => toolRoom \in Room
  /\ tool \in Settling => pending = None
  /\ tool = "called" => pending # None \/ sess # None
  /\ watch \in Adopting \cup {"got"} => watchRoom \in Room
  /\ sess # None => pending = None /\ startup = "off"

Locked ==
  /\ mu = "watch" <=> watch \in Adopting
  /\ mu = "tool" <=> tool \in Settling \cup {"gated"}

(* A room that is attached to is the session's, or about to be: until       *)
(* join_war_room swaps a room for another, one of the three at a time has   *)
(* one in hand, and what is attached again is that room or the session's.   *)
InHand ==
  /\ startup = "landed" => feRoom = link
  /\ tool \in {"swapping", "adopted"} /\ sess = None => feRoom = toolRoom
  /\ watch = "attached" => feRoom = watchRoom
  /\ sess = None /\ feRoom # None =>
       startup = "landed" \/ tool \in {"swapping", "adopted"} \/ watch = "attached"
  /\ sess # None /\ tool # "swapping" => feRoom = sess
  /\ tool # "leaving" /\ rejoin \in {None, feRoom, sess}

Connected ==
  /\ ~over /\ feRoom # None => attached
  /\ ~over /\ ~lapsed /\ feRoom # None => feRoom \in conn
  /\ tool # "swapping" \/ sess = None => conn \ late \subseteq {feRoom}

FrontInv ==
  /\ FrontEndTypeOK /\ Errands /\ Locked /\ AdoptsAlone
  /\ ~switched => InHand /\ Connected

USE NoneIsNoRoom, FrontEndAssumption

(* At first the front end follows no room. *)
LEMMA InitFronted == InitFront => FrontInv
BY DEF InitFront, FrontInv, FrontEndTypeOK, Errands, Locked, AdoptsAlone, InHand, Connected,
  Settling, Adopting

(* Every room is one, whoever goes on with it. *)
LEMMA FrontTypesNext == FrontInv /\ [NextFront]_fvars => FrontEndTypeOK'
<1> SUFFICES ASSUME FrontInv, [NextFront]_fvars PROVE FrontEndTypeOK'
  OBVIOUS
<1> USE DEF fvars, daemonVars, history, FrontEndTypeOK, Errands, Settling, Adopting
<1>0. FrontEndTypeOK /\ Errands /\ Locked /\ AdoptsAlone
  BY DEF FrontInv
<1>1. CASE Handshake
  BY <1>0, <1>1 DEF Handshake, NoAttach
<1>2. CASE StartupAttaches
  BY <1>0, <1>2 DEF StartupAttaches, Attach, AttachFails
<1>3. CASE StartupLands
  BY <1>0, <1>3 DEF StartupLands, NoAttach
<1>4. CASE CallTool
  BY <1>0, <1>4 DEF CallTool, NoAttach, Attempted, LockFree
<1>5. CASE ToolReturns
  BY <1>0, <1>5 DEF ToolReturns, NoAttach
<1>6. CASE Abandon
  BY <1>0, <1>6 DEF Abandon, NoAttach, Ended
<1>7. CASE JoinAttaches
  BY <1>0, <1>7 DEF JoinAttaches, Attach, AttachFails
<1>8. CASE Swap
  BY <1>0, <1>8 DEF Swap, NoAttach
<1>9. CASE LeavePrevious
  BY <1>0, <1>9 DEF LeavePrevious, Detach
<1>10. CASE ToolAdopts
  BY <1>0, <1>10 DEF ToolAdopts, NoAttach, Detach
<1>11. CASE Await
  BY <1>0, <1>11 DEF Await, NoAttach
<1>12. CASE Check
  BY <1>0, <1>12 DEF Check, NoAttach
<1>13. CASE Woken
  BY <1>0, <1>13 DEF Woken, NoAttach
<1>14. CASE WatchLocks
  BY <1>0, <1>14 DEF WatchLocks, NoAttach, LockFree
<1>15. CASE WatchAttaches
  BY <1>0, <1>15 DEF WatchAttaches, Attach, AttachFails, Unlocked
<1>16. CASE WatchAdopts
  BY <1>0, <1>16 DEF WatchAdopts, NoAttach, Detach, Unlocked
<1>17. CASE Announce
  BY <1>0, <1>17 DEF Announce, NoAttach, Offered
<1>18. CASE DaemonStops
  BY <1>0, <1>18 DEF DaemonStops
<1>19. CASE OthersRespawn
  BY <1>0, <1>19 DEF OthersRespawn, NoAttach
<1>20. CASE Ensure
  BY <1>0, <1>20 DEF Ensure, NoAttach
<1>21. CASE Reattach
  BY <1>0, <1>21 DEF Reattach, Attach, AttachFails
<1>22. CASE StdinCloses
  BY <1>0, <1>22 DEF StdinCloses, NoAttach, Detach
<1>23. ASSUME NEW r \in Room, JoinWarRoom(r) PROVE FrontEndTypeOK'
  BY <1>0, <1>23 DEF JoinWarRoom, NoAttach, Attempted
<1>24. ASSUME NEW r \in Room, PersonJoins(r) PROVE FrontEndTypeOK'
  BY <1>0, <1>24 DEF PersonJoins, NoAttach
<1>25. CASE UNCHANGED fvars
  BY <1>0, <1>25
<1> QED BY <1>1, <1>2, <1>3, <1>4, <1>5, <1>6, <1>7, <1>8, <1>9, <1>10, <1>11, <1>12,
  <1>13, <1>14, <1>15, <1>16, <1>17, <1>18, <1>19, <1>20, <1>21, <1>22, <1>23, <1>24,
  <1>25 DEF NextFront

(* The startup join is over once the session is in a room, and stays so. *)
LEMMA ErrandsNext == FrontInv /\ [NextFront]_fvars => Errands'
<1> SUFFICES ASSUME FrontInv, [NextFront]_fvars PROVE Errands'
  OBVIOUS
<1> USE DEF fvars, daemonVars, history, FrontEndTypeOK, Errands, Locked, AdoptsAlone, Settling,
  Adopting
<1>0. FrontEndTypeOK /\ Errands /\ Locked /\ AdoptsAlone
  BY DEF FrontInv
<1>1. CASE Handshake
  BY <1>0, <1>1 DEF Handshake, NoAttach
<1>2. CASE StartupAttaches
  BY <1>0, <1>2 DEF StartupAttaches, Attach, AttachFails
<1>3. CASE StartupLands
  BY <1>0, <1>3 DEF StartupLands, NoAttach
<1>4. CASE CallTool
  BY <1>0, <1>4 DEF CallTool, NoAttach, Attempted, LockFree
<1>5. CASE ToolReturns
  BY <1>0, <1>5 DEF ToolReturns, NoAttach
<1>6. CASE Abandon
  BY <1>0, <1>6 DEF Abandon, NoAttach, Ended
<1>7. CASE JoinAttaches
  BY <1>0, <1>7 DEF JoinAttaches, Attach, AttachFails
<1>8. CASE Swap
  BY <1>0, <1>8 DEF Swap, NoAttach
<1>9. CASE LeavePrevious
  BY <1>0, <1>9 DEF LeavePrevious, Detach
<1>10. CASE ToolAdopts
  BY <1>0, <1>10 DEF ToolAdopts, NoAttach, Detach
<1>11. CASE Await
  BY <1>0, <1>11 DEF Await, NoAttach
<1>12. CASE Check
  BY <1>0, <1>12 DEF Check, NoAttach
<1>13. CASE Woken
  BY <1>0, <1>13 DEF Woken, NoAttach
<1>14. CASE WatchLocks
  BY <1>0, <1>14 DEF WatchLocks, NoAttach, LockFree
<1>15. CASE WatchAttaches
  BY <1>0, <1>15 DEF WatchAttaches, Attach, AttachFails, Unlocked
<1>16. CASE WatchAdopts
  BY <1>0, <1>16 DEF WatchAdopts, NoAttach, Detach, Unlocked
<1>17. CASE Announce
  BY <1>0, <1>17 DEF Announce, NoAttach, Offered
<1>18. CASE DaemonStops
  BY <1>0, <1>18 DEF DaemonStops
<1>19. CASE OthersRespawn
  BY <1>0, <1>19 DEF OthersRespawn, NoAttach
<1>20. CASE Ensure
  BY <1>0, <1>20 DEF Ensure, NoAttach
<1>21. CASE Reattach
  BY <1>0, <1>21 DEF Reattach, Attach, AttachFails
<1>22. CASE StdinCloses
  BY <1>0, <1>22 DEF StdinCloses, NoAttach, Detach
<1>23. ASSUME NEW r \in Room, JoinWarRoom(r) PROVE Errands'
  BY <1>0, <1>23 DEF JoinWarRoom, NoAttach, Attempted
<1>24. ASSUME NEW r \in Room, PersonJoins(r) PROVE Errands'
  BY <1>0, <1>24 DEF PersonJoins, NoAttach
<1>25. CASE UNCHANGED fvars
  BY <1>0, <1>25
<1> QED BY <1>1, <1>2, <1>3, <1>4, <1>5, <1>6, <1>7, <1>8, <1>9, <1>10, <1>11, <1>12,
  <1>13, <1>14, <1>15, <1>16, <1>17, <1>18, <1>19, <1>20, <1>21, <1>22, <1>23, <1>24,
  <1>25 DEF NextFront

(* The lock is taken from nobody only, so one adopts or joins at a time. *)
LEMMA LockedNext == FrontInv /\ [NextFront]_fvars => Locked' /\ AdoptsAlone'
<1> SUFFICES ASSUME FrontInv, [NextFront]_fvars PROVE Locked' /\ AdoptsAlone'
  OBVIOUS
<1> USE DEF fvars, daemonVars, history, FrontEndTypeOK, Errands, Locked, AdoptsAlone, Settling,
  Adopting
<1>0. FrontEndTypeOK /\ Errands /\ Locked /\ AdoptsAlone
  BY DEF FrontInv
<1>1. CASE Handshake
  BY <1>0, <1>1 DEF Handshake, NoAttach
<1>2. CASE StartupAttaches
  BY <1>0, <1>2 DEF StartupAttaches, Attach, AttachFails
<1>3. CASE StartupLands
  BY <1>0, <1>3 DEF StartupLands, NoAttach
<1>4. CASE CallTool
  BY <1>0, <1>4 DEF CallTool, NoAttach, Attempted, LockFree
<1>5. CASE ToolReturns
  BY <1>0, <1>5 DEF ToolReturns, NoAttach
<1>6. CASE Abandon
  BY <1>0, <1>6 DEF Abandon, NoAttach, Ended
<1>7. CASE JoinAttaches
  BY <1>0, <1>7 DEF JoinAttaches, Attach, AttachFails
<1>8. CASE Swap
  BY <1>0, <1>8 DEF Swap, NoAttach
<1>9. CASE LeavePrevious
  BY <1>0, <1>9 DEF LeavePrevious, Detach
<1>10. CASE ToolAdopts
  BY <1>0, <1>10 DEF ToolAdopts, NoAttach, Detach
<1>11. CASE Await
  BY <1>0, <1>11 DEF Await, NoAttach
<1>12. CASE Check
  BY <1>0, <1>12 DEF Check, NoAttach
<1>13. CASE Woken
  BY <1>0, <1>13 DEF Woken, NoAttach
<1>14. CASE WatchLocks
  BY <1>0, <1>14 DEF WatchLocks, NoAttach, LockFree
<1>15. CASE WatchAttaches
  BY <1>0, <1>15 DEF WatchAttaches, Attach, AttachFails, Unlocked
<1>16. CASE WatchAdopts
  BY <1>0, <1>16 DEF WatchAdopts, NoAttach, Detach, Unlocked
<1>17. CASE Announce
  BY <1>0, <1>17 DEF Announce, NoAttach, Offered
<1>18. CASE DaemonStops
  BY <1>0, <1>18 DEF DaemonStops
<1>19. CASE OthersRespawn
  BY <1>0, <1>19 DEF OthersRespawn, NoAttach
<1>20. CASE Ensure
  BY <1>0, <1>20 DEF Ensure, NoAttach
<1>21. CASE Reattach
  BY <1>0, <1>21 DEF Reattach, Attach, AttachFails
<1>22. CASE StdinCloses
  BY <1>0, <1>22 DEF StdinCloses, NoAttach, Detach
<1>23. ASSUME NEW r \in Room, JoinWarRoom(r) PROVE Locked' /\ AdoptsAlone'
  BY <1>0, <1>23 DEF JoinWarRoom, NoAttach, Attempted
<1>24. ASSUME NEW r \in Room, PersonJoins(r) PROVE Locked' /\ AdoptsAlone'
  BY <1>0, <1>24 DEF PersonJoins, NoAttach
<1>25. CASE UNCHANGED fvars
  BY <1>0, <1>25
<1> QED BY <1>1, <1>2, <1>3, <1>4, <1>5, <1>6, <1>7, <1>8, <1>9, <1>10, <1>11, <1>12,
  <1>13, <1>14, <1>15, <1>16, <1>17, <1>18, <1>19, <1>20, <1>21, <1>22, <1>23, <1>24,
  <1>25 DEF NextFront

(* An attach that the daemon answers puts its room in hand. *)
LEMMA InHandNext == FrontInv /\ [NextFront]_fvars => (~switched => InHand)'
<1> SUFFICES ASSUME FrontInv, [NextFront]_fvars PROVE (~switched => InHand)'
  OBVIOUS
<1> USE DEF fvars, daemonVars, history, FrontEndTypeOK, Errands, Locked, AdoptsAlone, Settling,
  Adopting, InHand
<1>0. FrontEndTypeOK /\ Errands /\ Locked /\ AdoptsAlone /\ (~switched => InHand /\ Connected)
  BY DEF FrontInv
<1>1. CASE Handshake
  BY <1>0, <1>1 DEF Handshake, NoAttach
<1>2. CASE StartupAttaches
  BY <1>0, <1>2 DEF StartupAttaches, Attach, AttachFails
<1>3. CASE StartupLands
  BY <1>0, <1>3 DEF StartupLands, NoAttach
<1>4. CASE CallTool
  BY <1>0, <1>4 DEF CallTool, NoAttach, Attempted, LockFree
<1>5. CASE ToolReturns
  BY <1>0, <1>5 DEF ToolReturns, NoAttach
<1>6. CASE Abandon
  BY <1>0, <1>6 DEF Abandon, NoAttach, Ended
<1>7. CASE JoinAttaches
  BY <1>0, <1>7 DEF JoinAttaches, Attach, AttachFails
<1>8. CASE Swap
  BY <1>0, <1>8 DEF Swap, NoAttach
<1>9. CASE LeavePrevious
  BY <1>0, <1>9 DEF LeavePrevious, Detach
<1>10. CASE ToolAdopts
  BY <1>0, <1>10 DEF ToolAdopts, NoAttach, Detach
<1>11. CASE Await
  BY <1>0, <1>11 DEF Await, NoAttach
<1>12. CASE Check
  BY <1>0, <1>12 DEF Check, NoAttach
<1>13. CASE Woken
  BY <1>0, <1>13 DEF Woken, NoAttach
<1>14. CASE WatchLocks
  BY <1>0, <1>14 DEF WatchLocks, NoAttach, LockFree
<1>15. CASE WatchAttaches
  BY <1>0, <1>15 DEF WatchAttaches, Attach, AttachFails, Unlocked
<1>16. CASE WatchAdopts
  BY <1>0, <1>16 DEF WatchAdopts, NoAttach, Detach, Unlocked
<1>17. CASE Announce
  BY <1>0, <1>17 DEF Announce, NoAttach, Offered
<1>18. CASE DaemonStops
  BY <1>0, <1>18 DEF DaemonStops
<1>19. CASE OthersRespawn
  BY <1>0, <1>19 DEF OthersRespawn, NoAttach
<1>20. CASE Ensure
  BY <1>0, <1>20 DEF Ensure, NoAttach
<1>21. CASE Reattach
  BY <1>0, <1>21 DEF Reattach, Attach, AttachFails
<1>22. CASE StdinCloses
  BY <1>0, <1>22 DEF StdinCloses, NoAttach, Detach
<1>23. ASSUME NEW r \in Room, JoinWarRoom(r) PROVE (~switched => InHand)'
  BY <1>0, <1>23 DEF JoinWarRoom, NoAttach, Attempted
<1>24. ASSUME NEW r \in Room, PersonJoins(r) PROVE (~switched => InHand)'
  BY <1>0, <1>24 DEF PersonJoins, NoAttach
<1>25. CASE UNCHANGED fvars
  BY <1>0, <1>25
<1> QED BY <1>1, <1>2, <1>3, <1>4, <1>5, <1>6, <1>7, <1>8, <1>9, <1>10, <1>11, <1>12,
  <1>13, <1>14, <1>15, <1>16, <1>17, <1>18, <1>19, <1>20, <1>21, <1>22, <1>23, <1>24,
  <1>25 DEF NextFront

(* Only a switch, an end or a stopped daemon disconnects the room in hand. *)
LEMMA ConnectedNext == FrontInv /\ [NextFront]_fvars => (~switched => Connected)'
<1> SUFFICES ASSUME FrontInv, [NextFront]_fvars PROVE (~switched => Connected)'
  OBVIOUS
<1> USE DEF fvars, daemonVars, history, FrontEndTypeOK, Errands, Locked, AdoptsAlone, Settling,
  Adopting, InHand, Connected
<1>0. FrontEndTypeOK /\ Errands /\ Locked /\ AdoptsAlone /\ (~switched => InHand /\ Connected)
  BY DEF FrontInv
<1>1. CASE Handshake
  BY <1>0, <1>1 DEF Handshake, NoAttach
<1>2. CASE StartupAttaches
  BY <1>0, <1>2 DEF StartupAttaches, Attach, AttachFails
<1>3. CASE StartupLands
  BY <1>0, <1>3 DEF StartupLands, NoAttach
<1>4. CASE CallTool
  BY <1>0, <1>4 DEF CallTool, NoAttach, Attempted, LockFree
<1>5. CASE ToolReturns
  BY <1>0, <1>5 DEF ToolReturns, NoAttach
<1>6. CASE Abandon
  BY <1>0, <1>6 DEF Abandon, NoAttach, Ended
<1>7. CASE JoinAttaches
  BY <1>0, <1>7 DEF JoinAttaches, Attach, AttachFails
<1>8. CASE Swap
  BY <1>0, <1>8 DEF Swap, NoAttach
<1>9. CASE LeavePrevious
  BY <1>0, <1>9 DEF LeavePrevious, Detach
<1>10. CASE ToolAdopts
  BY <1>0, <1>10 DEF ToolAdopts, NoAttach, Detach
<1>11. CASE Await
  BY <1>0, <1>11 DEF Await, NoAttach
<1>12. CASE Check
  BY <1>0, <1>12 DEF Check, NoAttach
<1>13. CASE Woken
  BY <1>0, <1>13 DEF Woken, NoAttach
<1>14. CASE WatchLocks
  BY <1>0, <1>14 DEF WatchLocks, NoAttach, LockFree
<1>15. CASE WatchAttaches
  BY <1>0, <1>15 DEF WatchAttaches, Attach, AttachFails, Unlocked
<1>16. CASE WatchAdopts
  BY <1>0, <1>16 DEF WatchAdopts, NoAttach, Detach, Unlocked
<1>17. CASE Announce
  BY <1>0, <1>17 DEF Announce, NoAttach, Offered
<1>18. CASE DaemonStops
  BY <1>0, <1>18 DEF DaemonStops
<1>19. CASE OthersRespawn
  BY <1>0, <1>19 DEF OthersRespawn, NoAttach
<1>20. CASE Ensure
  BY <1>0, <1>20 DEF Ensure, NoAttach
<1>21. CASE Reattach
  BY <1>0, <1>21 DEF Reattach, Attach, AttachFails
<1>22. CASE StdinCloses
  BY <1>0, <1>22 DEF StdinCloses, NoAttach, Detach
<1>23. ASSUME NEW r \in Room, JoinWarRoom(r) PROVE (~switched => Connected)'
  BY <1>0, <1>23 DEF JoinWarRoom, NoAttach, Attempted
<1>24. ASSUME NEW r \in Room, PersonJoins(r) PROVE (~switched => Connected)'
  BY <1>0, <1>24 DEF PersonJoins, NoAttach
<1>25. CASE UNCHANGED fvars
  BY <1>0, <1>25
<1> QED BY <1>1, <1>2, <1>3, <1>4, <1>5, <1>6, <1>7, <1>8, <1>9, <1>10, <1>11, <1>12,
  <1>13, <1>14, <1>15, <1>16, <1>17, <1>18, <1>19, <1>20, <1>21, <1>22, <1>23, <1>24,
  <1>25 DEF NextFront

(* A step of the front end, the daemon or the room keeps the invariant. *)
LEMMA NextFronted == FrontInv /\ [NextFront]_fvars => FrontInv'
<1> SUFFICES ASSUME FrontInv, [NextFront]_fvars PROVE FrontInv'
  OBVIOUS
<1>1. FrontEndTypeOK' /\ Errands' /\ Locked' /\ AdoptsAlone'
  BY FrontTypesNext, ErrandsNext, LockedNext
<1>2. ~switched' => InHand' /\ Connected'
  BY InHandNext, ConnectedNext
<1> QED BY <1>1, <1>2 DEF FrontInv

(* However the startup join, adoptions, join_war_room and re-attachments    *)
(* after a respawned daemon overlap: at rest the reader is connected in the *)
(* session's room and nowhere else, with the exceptions the property names, *)
(* and an adoption never finds that somebody else has joined meanwhile      *)
(* (frontend.go, adopt.go, joingate.go).                                    *)
THEOREM TheReaderFollows == SpecFront => []FrontEndFollows
<1>1. FrontInv => FrontEndFollows
  BY DEF FrontInv, FrontEndFollows, ReaderFollows, Quiet, InHand, Connected
<1> QED BY <1>1, InitFronted, NextFronted, PTL DEF SpecFront

(* Every room a front end deals with is one, whatever overlaps. *)
THEOREM FrontEndTypes == SpecFront => []FrontEndTypeOK
<1>1. FrontInv => FrontEndTypeOK
  BY DEF FrontInv
<1> QED BY <1>1, InitFronted, NextFronted, PTL DEF SpecFront
=============================================================================
