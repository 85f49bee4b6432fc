--------------------------------- MODULE Hold ---------------------------------
(***************************************************************************)
(* The working-directory hold, over the queue and its worker: in daemon    *)
(* mode share_with_room puts a hand-off in the queue, asks the room daemon *)
(* whether its text names the person's working directory, and if so marks  *)
(* it held (cli/frontend.go).  The person's own commands release and drop  *)
(* what is held (cli/held.go); they are processes of their own.            *)
(***************************************************************************)
EXTENDS Bridge

CONSTANTS
  Naming,        \* hand-offs whose text names the working directory
  DaemonFails    \* whether the daemon may fail to answer a match

ASSUME HoldAssumption ==
  /\ Naming \subseteq Entry
  /\ DaemonFails \in BOOLEAN

VARIABLES
  share,      \* where the share call of each process is
  shared,     \* the hand-off it made
  allowed,    \* the daemon's record of the rooms the person allowed
  command,    \* where the person's allow-cwd is
  into,       \* the room it is for
  releasing,  \* the held entries it listed and has not released yet
  told        \* hand-offs the agent was told are held

call == <<share, shared, told>>
person == <<allowed, command, into, releasing>>
hold == <<call, person>>
hvars == <<vars, hold>>

Process == {ProcOf[r] : r \in Run}

HoldTypeOK ==
  /\ TypeOK
  /\ share \in [Process -> {"none", "match", "hold"}]
  /\ shared \in [Process -> Entry]
  /\ told \subseteq Entry
  /\ allowed \subseteq Room
  /\ command \in {"none", "list", "release"}
  /\ into \in Room
  /\ releasing \subseteq Entry

HoldInit ==
  /\ Init
  /\ share = [p \in Process |-> "none"]
  /\ shared = [p \in Process |-> 1]
  /\ told = {}
  /\ allowed = {}
  /\ command = "none"
  /\ into \in Room
  /\ releasing = {}

-----------------------------------------------------------------------------
(* holdingAccepter.Accept.  A process serves one tool call at a time.      *)

\* The inner Accept: the entry is queued, and the worker nudged, first.
Queue(r, e) ==
  /\ share[ProcOf[r]] = "none"
  /\ Share(r, e)
  /\ share' = [share EXCEPT ![ProcOf[r]] = "match"]
  /\ shared' = [shared EXCEPT ![ProcOf[r]] = e]
  /\ UNCHANGED <<told, person>>

\* The daemon's answer to `match`: held, when the text names something and the
\* room is not allowed.
MustHold(e) == e \in Naming /\ RoomOf[e] \notin allowed

Match(p) ==
  /\ share[p] = "match"
  /\ share' = [share EXCEPT ![p] = IF MustHold(shared[p]) THEN "hold" ELSE "none"]
  /\ UNCHANGED <<vars, shared, told, person>>

\* A daemon that does not answer holds nothing.
MatchFails(p) ==
  /\ share[p] = "match"
  /\ DaemonFails
  /\ share' = [share EXCEPT ![p] = "none"]
  /\ UNCHANGED <<vars, shared, told, person>>

\* Spool.Hold, whatever has become of the entry meanwhile; the tool result
\* tells the agent so, unless the record could not be written.
PutHold(p) ==
  /\ share[p] = "hold"
  /\ share' = [share EXCEPT ![p] = "none"]
  /\ \/ /\ spool' = Held(spool, shared[p])
        /\ told' = told \cup {shared[p]}
        /\ UNCHANGED faults
     \/ Fault("disk") /\ UNCHANGED <<spool, told>>
  /\ UNCHANGED <<mirror, room, pc, session, cancelled, work, shared, person>>

\* A call dies with its process.
HoldCrash(p) ==
  /\ Crash(p)
  /\ share' = [share EXCEPT ![p] = "none"]
  /\ UNCHANGED <<shared, told, person>>

-----------------------------------------------------------------------------
(* The person's commands.                                                  *)

\* landfall allow-cwd: the daemon first...
AllowCwd(q) ==
  /\ command = "none"
  /\ allowed' = allowed \cup {q}
  /\ command' = "list"
  /\ into' = q
  /\ UNCHANGED <<vars, call, releasing>>

\* (Mutant: the listing takes the entries still queued.)
ListHeldQueued ==
  /\ command = "list"
  /\ releasing' = EntriesIn(spool, into, {"queued"})
  /\ command' = "release"
  /\ UNCHANGED <<vars, call, allowed, into>>

\* ... then what the queue holds for the room (ReleaseHeld)...
ListHeld ==
  /\ command = "list"
  /\ releasing' = EntriesIn(spool, into, {"held"})
  /\ command' = "release"
  /\ UNCHANGED <<vars, call, allowed, into>>

\* ... each of which is put back in the queue.
ReleaseHeld ==
  /\ command = "release" /\ releasing # {}
  /\ spool' = Released(spool, Oldest(releasing))
  /\ releasing' = releasing \ {Oldest(releasing)}
  /\ UNCHANGED <<mirror, room, pc, session, cancelled, work, faults,
                 call, allowed, command, into>>

\* A record that cannot be written ends the command.
ReleaseFails ==
  /\ command = "release" /\ releasing # {}
  /\ Fault("disk")
  /\ command' = "none"
  /\ releasing' = {}
  /\ UNCHANGED <<spool, mirror, room, pc, session, cancelled, work, call, allowed, into>>

AllowEnds ==
  /\ command = "release" /\ releasing = {}
  /\ command' = "none"
  /\ UNCHANGED <<vars, call, allowed, into, releasing>>

\* landfall held drop.
DropHeld(e) ==
  /\ spool[e].state = "held"
  /\ spool' = Dropped(spool, e)
  /\ UNCHANGED <<mirror, room, pc, session, cancelled, work, faults, hold>>

-----------------------------------------------------------------------------
\* What the worker, the room and the process do of their own accord.
Works(r) == Reconcile(r) \/ Sweep(r)

HoldNext ==
  \/ \E r \in Run, e \in Entry : Queue(r, e)
  \/ \E p \in Process : Match(p) \/ MatchFails(p) \/ PutHold(p) \/ HoldCrash(p)
  \/ \E q \in Room : AllowCwd(q)
  \/ ListHeld \/ ReleaseHeld \/ ReleaseFails \/ AllowEnds
  \/ \E e \in Entry : DropHeld(e)
  \/ /\ \/ \E r \in Run : Works(r) \/ RoomAnswers(r) \/ GiveUp(r) \/ Stop(r)
        \/ \E r \in Run, q \in Room, i \in Instance : Join(r, q, i)
        \/ \E r \in Run : SessionExpires(r)
        \/ \E x \in strays : StrayLands(x)
     /\ UNCHANGED hold

HoldSpec == HoldInit /\ [][HoldNext]_hvars

\* The call returns, the command runs to its end, and a person whose hand-offs
\* are held allows them, again if need be.
HoldFairness ==
  /\ \A p \in Process : WF_hvars(Match(p) \/ PutHold(p))
  /\ \A q \in Room : WF_hvars(AllowCwd(q))
  /\ WF_hvars(ListHeld \/ ReleaseHeld \/ AllowEnds)

FairHoldSpec == HoldSpec /\ HoldFairness

-----------------------------------------------------------------------------
(* Properties.                                                             *)

\* What the room daemon makes the agent hold is not withheld for good: with a
\* person who allows it, every hold is let go, whatever the call, the command,
\* the worker and the disk do to one another.
HeldIsLetGo ==
  \A e \in Entry : spool[e].state = "held" ~> spool[e].state # "held"

HoldIsSound == []HoldTypeOK /\ HeldIsLetGo

\* The agent is told "held -- nothing left this machine" (tools/share.go), and
\* the README promises such a share is "held [...] instead of published".
HeldStaysHere ==
  \A e \in told : RoomOf[e] \notin allowed => copies[e] = 0

\* "landfall allow-cwd [...] releases everything held" (README): once the
\* command is done and no call is under way, nothing is held for the room.
AllowReleasesAll ==
  (command = "none" /\ \A p \in Process : share[p] = "none") =>
    \A e \in Entry : spool[e].state = "held" => RoomOf[e] \notin allowed
=============================================================================
