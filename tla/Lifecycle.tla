----------------------------- MODULE Lifecycle -------------------------------
(***************************************************************************)
(* The room daemon as processes (internal/daemon/daemon.go, state.go and   *)
(* cli/daemon.go): the lock that makes it one, the socket it is reached    *)
(* on, the state file it hands its rooms on by, and the front ends that    *)
(* start it (EnsureRunning) or ask an older one to hand over.              *)
(*                                                                         *)
(* Daemons are numbered by spawn; the first may be of an older protocol.   *)
(* SaveState replaces the file by a rename, so the file is always whole.   *)
(* Bounds: Spawns; MaxSaves, the saves under way at once; MaxFaults, the   *)
(* crashes and the rejoins that fail.                                      *)
(***************************************************************************)
EXTENDS Rooms, Integers, Sequences

Ext == INSTANCE SequencesExt

CONSTANTS Client, Spawns, MaxSaves, MaxFaults

ASSUME LifecycleAssumption ==
  /\ None \notin Client \cup (1..Spawns) /\ Client \cap (1..Spawns) = {}
  /\ Spawns \in Nat \ {0} /\ MaxSaves \in Nat /\ MaxFaults \in Nat

VARIABLES
  daemon,   \* daemon -> "none", "starting", "restoring", "listening", "closing",
            \* "unbound", "gone"
  old,      \* the first daemon speaks an older protocol
  rooms,    \* daemon -> the rooms it holds
  restore,  \* daemon -> the rooms of the file it has yet to rejoin
  stopped,  \* daemons asked to stop
  lock,     \* who holds daemon.lock: a daemon, a front end probing it, or None
  socket,   \* the daemon whose socket the path names, or None
  file,     \* the rooms of state.json
  client,   \* front end -> "idle", "stopping", "probing", "spawning", "waiting",
            \* "served", "alone"
  saving,   \* daemon -> its saves under way, in the order their rooms were taken
  owed,     \* history: rooms saved and not given up
  lost,     \* history: rooms a save that was overtaken put out of the file
  faults

saves == <<file, saving, owed, lost>>
pvars == <<daemon, old, rooms, restore, stopped, lock, socket, client, saves, faults>>

Daemon == 1..Spawns
Is(d, where) == daemon[d] = where
Becomes(d, where) == daemon' = [daemon EXCEPT ![d] = where]
Alive(d) == daemon[d] \notin {"none", "gone"}
Goes(c, where) == client' = [client EXCEPT ![c] = where]

Init ==
  /\ old \in BOOLEAN /\ file \in {{}, Room}
  /\ daemon = [d \in Daemon |-> IF old /\ d = 1 THEN "listening" ELSE "none"]
  /\ rooms = [d \in Daemon |-> IF old /\ d = 1 THEN file ELSE {}]
  /\ restore = [d \in Daemon |-> {}]
  /\ stopped = {} /\ faults = 0 /\ owed = file /\ lost = {}
  /\ saving = [d \in Daemon |-> <<>>]
  /\ lock = (IF old THEN 1 ELSE None) /\ socket = lock
  /\ client = [c \in Client |-> "idle"]

-----------------------------------------------------------------------------
(* EnsureRunning: reach; an older daemon is asked to hand over; none at    *)
(* all is spawned.  A daemon that is closing still answers.                *)
Older(d) == old /\ d = 1

Reachable == \E d \in Daemon : socket = d /\ Alive(d)

Reach(c) ==
  /\ client[c] \in {"idle", "waiting"} /\ Reachable
  /\ IF Older(socket)
     THEN client[c] = "idle" /\ Goes(c, "stopping") /\ stopped' = stopped \cup {socket}
     ELSE Goes(c, "served") /\ UNCHANGED stopped
  /\ UNCHANGED <<daemon, old, rooms, restore, lock, socket, saves, faults>>

Unreached(c) ==
  /\ client[c] = "idle" /\ ~Reachable
  /\ Goes(c, "spawning")
  /\ UNCHANGED <<daemon, old, rooms, restore, stopped, lock, socket, saves, faults>>

(* handOver: the lock is taken and let go again to see that it is free.    *)
Probe(c) ==
  /\ client[c] = "stopping" /\ lock = None
  /\ lock' = c /\ Goes(c, "probing")
  /\ UNCHANGED <<daemon, old, rooms, restore, stopped, socket, saves, faults>>

Probed(c) ==
  /\ client[c] = "probing"
  /\ lock' = None /\ Goes(c, "spawning")
  /\ UNCHANGED <<daemon, old, rooms, restore, stopped, socket, saves, faults>>

Spawn(c) ==
  /\ client[c] = "spawning" /\ Goes(c, "waiting")
  /\ \E d \in Daemon :
       /\ Is(d, "none") /\ \A e \in 1..(d - 1) : ~Is(e, "none")
       /\ Becomes(d, "starting")
  /\ UNCHANGED <<old, rooms, restore, stopped, lock, socket, saves, faults>>

(* SpawnWait or HandoverWait runs out: the serve process goes on without. *)
GivesUp(c) ==
  /\ client[c] \in {"waiting", "stopping"} /\ Goes(c, "alone")
  /\ UNCHANGED <<daemon, old, rooms, restore, stopped, lock, socket, saves, faults>>

(* Served or not, it will ask again: ensure, the next time it needs it. *)
AsksAgain(c) ==
  /\ client[c] \in {"served", "alone"} /\ Goes(c, "idle")
  /\ UNCHANGED <<daemon, old, rooms, restore, stopped, lock, socket, saves, faults>>

-----------------------------------------------------------------------------
(* save: the rooms are taken, marshalled and renamed into place by         *)
(* whichever goroutine asked; nothing orders two of them.                  *)
ToSave(what, opens) == [rooms |-> what, opens |-> opens, late |-> FALSE]

Write(d, i) ==
  LET save == saving[d][i]
      Passed(k) == [saving[d][k] EXCEPT !.late = @ \/ k < i]
  IN /\ file' = save.rooms /\ owed' = owed \cup save.opens
     /\ lost' = IF save.late THEN lost \cup (file \ save.rooms) ELSE lost \ save.rooms
     /\ saving' = [saving EXCEPT ![d] = Ext!RemoveAt([k \in DOMAIN @ |-> Passed(k)], i)]
     /\ UNCHANGED <<daemon, old, rooms, restore, stopped, lock, socket, client, faults>>

(* Run: the lock or nothing; the rooms of the file, one by one; only then  *)
(* the socket, in the place of whatever a predecessor left there.          *)
\* (Mutant: it listens at once, and restores beside that.)
ListensAtOnce(d) == Is(d, "restoring")
Restored(d) == Is(d, "restoring") /\ restore[d] = {}

Lock(d) ==
  /\ Is(d, "starting")
  /\ IF lock = None
     THEN lock' = d /\ Becomes(d, "restoring") /\ restore' = [restore EXCEPT ![d] = file]
     ELSE Becomes(d, "gone") /\ UNCHANGED <<lock, restore>>
  /\ UNCHANGED <<old, rooms, stopped, socket, client, saves, faults>>

(* A room that cannot be rejoined is forgotten by the next save. *)
Rejoin(d, r) ==
  /\ Alive(d) /\ r \in restore[d] /\ restore' = [restore EXCEPT ![d] = @ \ {r}]
  /\ \/ rooms' = [rooms EXCEPT ![d] = @ \cup {r}] /\ UNCHANGED <<owed, faults>>
     \/ /\ faults < MaxFaults /\ faults' = faults + 1
        /\ owed' = owed \ {r} /\ UNCHANGED rooms
  /\ UNCHANGED <<daemon, old, stopped, lock, socket, file, client, saving, lost>>

Listen(d) ==
  /\ Restored(d) /\ Becomes(d, "listening") /\ socket' = d
  /\ UNCHANGED <<old, rooms, restore, stopped, lock, client, saves, faults>>

(* A verb that opens a room ends in a save; requests are still answered    *)
(* while the daemon is closing.                                            *)
Answers(d) == daemon[d] \in {"listening", "closing"} /\ socket = d

Open(d, r) ==
  /\ Answers(d) /\ Len(saving[d]) < MaxSaves
  /\ rooms' = [rooms EXCEPT ![d] = @ \cup {r}]
  /\ saving' = [saving EXCEPT ![d] = Append(@, ToSave(rooms'[d], {r}))]
  /\ UNCHANGED <<daemon, old, restore, stopped, lock, socket, file, client, owed, lost, faults>>

StopVerb(d) ==
  /\ Answers(d) /\ stopped' = stopped \cup {d}
  /\ UNCHANGED <<daemon, old, rooms, restore, lock, socket, client, saves, faults>>

(* shutdown: told to stop it saves its rooms, idle it saves none; then it  *)
(* leaves them, while the socket is still there.                           *)
KeptRooms(d, kept) == IF kept THEN rooms[d] ELSE {}

Shutdown(d, kept) ==
  /\ Is(d, "listening") /\ Len(saving[d]) < MaxSaves
  /\ IF kept THEN d \in stopped ELSE rooms[d] # {}
  /\ Becomes(d, "closing") /\ rooms' = [rooms EXCEPT ![d] = IF kept THEN @ ELSE {}]
  /\ LET before == [i \in DOMAIN saving[d] |-> IF kept THEN saving[d][i]
                                                ELSE [saving[d][i] EXCEPT !.opens = {}]]
     IN saving' = [saving EXCEPT ![d] = Append(before, ToSave(KeptRooms(d, kept), {}))]
  /\ owed' = IF kept THEN owed ELSE {}
  /\ UNCHANGED <<old, restore, stopped, lock, socket, file, client, lost, faults>>

(* Run's deferred calls, last first; what else the process was doing ends  *)
(* with it.                                                                *)
Deferred == <<"socket", "lock">>

LetGo(thing) ==
  /\ socket' = IF thing = "socket" THEN None ELSE socket
  /\ lock' = IF thing = "lock" THEN None ELSE lock

Unbind(d) ==
  /\ Is(d, "closing") /\ Becomes(d, "unbound") /\ LetGo(Deferred[1])
  /\ UNCHANGED <<old, rooms, restore, stopped, client, saves, faults>>

Ends(d) ==
  /\ Becomes(d, "gone") /\ saving' = [saving EXCEPT ![d] = <<>>]
  /\ rooms' = [rooms EXCEPT ![d] = {}] /\ restore' = [restore EXCEPT ![d] = {}]
  /\ stopped' = stopped \ {d}

Exit(d) ==
  /\ Is(d, "unbound") /\ LetGo(Deferred[2]) /\ Ends(d)
  /\ UNCHANGED <<old, file, client, owed, lost, faults>>

(* The kernel frees the lock of a daemon that dies; the socket's node stays. *)
Crash(d) ==
  /\ Alive(d) /\ faults < MaxFaults /\ faults' = faults + 1
  /\ Ends(d) /\ lock' = IF lock = d THEN None ELSE lock
  /\ UNCHANGED <<old, socket, file, client, owed, lost>>

Next ==
  \/ \E c \in Client :
       \/ Reach(c) \/ Unreached(c) \/ Probe(c) \/ Probed(c) \/ Spawn(c) \/ GivesUp(c)
       \/ AsksAgain(c)
  \/ \E d \in Daemon :
       \/ Lock(d) \/ Listen(d) \/ StopVerb(d) \/ Unbind(d) \/ Exit(d) \/ Crash(d)
       \/ \E kept \in BOOLEAN : Shutdown(d, kept)
       \/ \E i \in DOMAIN saving[d] : Write(d, i)
       \/ \E r \in Room : Rejoin(d, r) \/ Open(d, r)

Spec == Init /\ [][Next]_pvars

-----------------------------------------------------------------------------
LifecycleTypeOK ==
  /\ daemon \in [Daemon -> {"none", "starting", "restoring", "listening", "closing",
                            "unbound", "gone"}]
  /\ rooms \in [Daemon -> SUBSET Room] /\ restore \in [Daemon -> SUBSET Room]
  /\ lock \in Daemon \cup Client \cup {None} /\ socket \in Daemon \cup {None}
  /\ file \subseteq Room /\ owed \subseteq Room /\ stopped \subseteq Daemon
  /\ client \in [Client -> {"idle", "stopping", "probing", "spawning", "waiting", "served",
                            "alone"}]

(* One daemon: whoever works holds the lock, and whoever listens is the    *)
(* one the socket leads to, even while a predecessor is still on its way   *)
(* out and front ends probe the lock.                                      *)
OneDaemon ==
  \A d \in Daemon :
    /\ daemon[d] \in {"restoring", "listening", "closing", "unbound"} => lock = d
    /\ Is(d, "listening") => socket = d

(* No room is lost between daemons: what was saved is in the file until an *)
(* idle exit or a failed rejoin gives it up, but for what a save that      *)
(* another one overtook put out of it.                                     *)
RoomsAreKept == owed \subseteq file \cup lost

(* Hand-overs, crashes and restarts: one daemon works, and no room is lost *)
(* between two of them.                                                    *)
RoomsSurvive == OneDaemon /\ RoomsAreKept

(* A save never puts a room out of the file (the code does not order two   *)
(* of them: an older one may land last).                                   *)
SavesInOrder == lost = {}
=============================================================================
