------------------------------ MODULE FrontEnd -------------------------------
(***************************************************************************)
(* One serve process as a front end of the room daemon (cli/frontend.go):  *)
(* the ways it comes into a room, and the daemon's record of its reader.   *)
(* The room of --link is joined in the background and waited for by tool   *)
(* calls (joingate.go); a session in no room adopts the room its person    *)
(* put the folder in (adopt.go, live.go); join_war_room joins any room     *)
(* (session.go).  The MCP loop runs one tool at a time; the startup join,  *)
(* the watch for an offer and the hook socket run beside it.               *)
(*                                                                         *)
(* An attempt of the startup join ends within 15 s and a tool waits 20 s   *)
(* for it, so the wait never runs out first.  Startup holds the rooms that *)
(* --link may name, None for no link.                                      *)
(* Bounds: MaxJoins, the calls of join_war_room; MaxMishaps, the daemon's   *)
(* stops and the attaches answered too late.                               *)
(***************************************************************************)
EXTENDS Rooms, Integers, FiniteSets

CONSTANTS Startup, MaxJoins, MaxMishaps

ASSUME FrontEndAssumption ==
  /\ None \notin {"tool", "watch"} /\ Startup \subseteq Room \cup {None}
  /\ MaxJoins \in Nat /\ MaxMishaps \in Nat

VARIABLES
  up,        \* a daemon answers
  conn,      \* the daemon: the rooms where this process's reader is connected
  offer,     \* the daemon: the room on offer to this folder's agent
  announced, \* the daemon: offers announced, each wakes every await-room
  feRoom, attached,  \* the front end: the room it attached to, and still is
  sess,      \* the session: the room of its client
  link,      \* the room of --link, or None
  pending,   \* the gate: the room of the startup join, until it has landed
  startup,   \* the gate's attempt: "new", "off", "attaching", "landed"
  tool,      \* the MCP loop: "idle", "gated", "called", "joining", "swapping", ...
  toolRoom,  \* the room the tool joins
  watch,     \* the await-room loop: "off", "ask", "sleep", "got", "attaching", ...
  wake,      \* the announcement the sleeping watch has seen
  watchRoom, \* the offer it was answered with
  mu,        \* the adopter's lock: None, "tool" or "watch"
  rejoin,    \* the hook socket: the room it is about to attach to again
  over,      \* the process has ended
  joins, mishaps,
  switched,  \* history: join_war_room was called from within a room
  late,      \* history: rooms attached to after the front end had given up
  lapsed     \* history: the daemon stopped since the last attach

fvars == <<up, conn, offer, announced, feRoom, attached, sess, link, pending, startup,
           tool, toolRoom, watch, wake, watchRoom, mu, rejoin, over, joins, mishaps, switched,
           late, lapsed>>
daemonVars == <<up, offer, announced, link>>
history == <<joins, mishaps, switched, late>>

InitFront ==
  /\ up = TRUE /\ conn = {} /\ offer = None /\ announced = 0
  /\ feRoom = None /\ attached = FALSE /\ sess = None
  /\ link \in Startup /\ pending = link /\ startup = "new"
  /\ tool = "idle" /\ toolRoom = None
  /\ watch = "off" /\ wake = 0 /\ watchRoom = None
  /\ mu = None /\ rejoin = None /\ over = FALSE
  /\ joins = 0 /\ mishaps = 0 /\ switched = FALSE /\ late = {} /\ lapsed = FALSE

(* frontEnd.attach: the daemon connects the reader, and the answer names   *)
(* the room the front end is attached to from now on.                      *)
Attach(r) ==
  /\ up /\ conn' = conn \cup {r} /\ feRoom' = r /\ attached' = TRUE /\ lapsed' = FALSE

NoAttach == UNCHANGED <<conn, feRoom, attached, lapsed>>

(* An attach the front end has given up on is carried out all the same. *)
AttachFails(r) ==
  /\ UNCHANGED <<feRoom, attached, lapsed, joins, switched>>
  /\ \/ UNCHANGED <<conn, mishaps, late>>
     \/ /\ up /\ mishaps < MaxMishaps /\ mishaps' = mishaps + 1
        /\ conn' = conn \cup {r} /\ late' = late \cup {r}

(* frontEnd.detach: from the room the front end attached to last. *)
Detach ==
  /\ attached' = FALSE
  /\ conn' = IF attached /\ up THEN conn \ {feRoom} ELSE conn
  /\ UNCHANGED <<feRoom, lapsed>>

-----------------------------------------------------------------------------
(* MCP initialize: the startup join begins, or the watch for an offer.     *)
Handshake ==
  /\ ~over /\ startup = "new"
  /\ IF pending # None THEN startup' = "attaching" /\ UNCHANGED watch
     ELSE startup' = "off" /\ watch' = "ask"
  /\ NoAttach
  /\ UNCHANGED <<daemonVars, sess, pending, tool, toolRoom, wake, watchRoom, mu, rejoin, over,
                 history>>

StartupAttaches ==
  /\ ~over /\ startup = "attaching"
  /\ \/ Attach(link) /\ startup' = "landed" /\ UNCHANGED history
     \/ AttachFails(link) /\ startup' = "off"
  /\ UNCHANGED <<daemonVars, sess, pending, tool, toolRoom, watch, wake, watchRoom, mu, rejoin,
                 over>>

(* joinResolved's SetClient, then joinGate forgets the config. *)
StartupLands ==
  /\ ~over /\ startup = "landed"
  /\ sess' = link /\ pending' = None /\ startup' = "off"
  /\ NoAttach
  /\ UNCHANGED <<daemonVars, tool, toolRoom, watch, wake, watchRoom, mu, rejoin, over, history>>

(* joinGate.wait: nothing to wait for, or an attempt, a new one if need be. *)
Attempted ==
  startup' = IF pending # None /\ startup = "off" THEN "attaching" ELSE startup

-----------------------------------------------------------------------------
(* A tool other than join_war_room: the session adopts the offer if it is  *)
(* in no room (tryAdopt), and waits for the startup join.                  *)
\* (Mutant: an adoption does not mind who else is joining.)
NobodyElse(who) == TRUE
LockFree(who) == mu = None

CallTool ==
  /\ ~over /\ tool = "idle" /\ startup # "new"
  /\ \/ /\ sess = None /\ pending = None /\ LockFree("tool")
        /\ up /\ offer # None
        /\ mu' = "tool" /\ tool' = "adopting" /\ toolRoom' = offer
        /\ UNCHANGED startup
     \/ /\ pending # None
        /\ Attempted /\ tool' = "called"
        /\ UNCHANGED <<mu, toolRoom>>
  /\ NoAttach
  /\ UNCHANGED <<daemonVars, sess, pending, watch, wake, watchRoom, rejoin, over, history>>

ToolReturns ==
  /\ ~over /\ tool = "called" /\ startup = "off"
  /\ tool' = "idle"
  /\ NoAttach
  /\ UNCHANGED <<daemonVars, sess, pending, startup, toolRoom, watch, wake, watchRoom, mu,
                 rejoin, over, history>>

Ended == startup = "off"

(* join_war_room: it holds adoptions off, waits for the startup join, and  *)
(* replaces one that failed (abandon).                                     *)
JoinWarRoom(r) ==
  /\ ~over /\ tool = "idle" /\ startup # "new" /\ mu = None
  /\ joins < MaxJoins /\ joins' = joins + 1
  /\ mu' = "tool" /\ tool' = "gated" /\ toolRoom' = r
  /\ Attempted
  /\ NoAttach
  /\ UNCHANGED <<daemonVars, sess, pending, watch, wake, watchRoom, rejoin, over, mishaps,
                 switched, late>>

Abandon ==
  /\ ~over /\ tool = "gated" /\ Ended
  /\ pending' = None /\ tool' = "joining"
  /\ NoAttach
  /\ UNCHANGED <<daemonVars, sess, startup, toolRoom, watch, wake, watchRoom, mu, rejoin, over,
                 history>>

(* joinConfig: join (attach) with the new config; then swap the client,    *)
(* and leave (detach) with the one before, if any.  An adoption does so    *)
(* only for a session in no room, and else takes its own join back.        *)
JoinAttaches ==
  /\ ~over /\ tool \in {"joining", "adopting"}
  /\ \/ /\ Attach(toolRoom) /\ UNCHANGED <<mu, history>>
        /\ tool' = IF tool = "joining" THEN "swapping" ELSE "adopted"
     \/ AttachFails(toolRoom) /\ tool' = "idle" /\ mu' = None
  /\ UNCHANGED <<daemonVars, sess, pending, startup, toolRoom, watch, wake, watchRoom, rejoin,
                 over>>

Swap ==
  /\ ~over /\ tool = "swapping"
  /\ sess' = toolRoom /\ switched' = (switched \/ sess # None)
  /\ IF sess # None THEN tool' = "leaving" /\ UNCHANGED mu ELSE tool' = "idle" /\ mu' = None
  /\ NoAttach
  /\ UNCHANGED <<daemonVars, pending, startup, toolRoom, watch, wake, watchRoom, rejoin, over,
                 joins, mishaps, late>>

LeavePrevious ==
  /\ ~over /\ tool = "leaving"
  /\ Detach /\ tool' = "idle" /\ mu' = None
  /\ UNCHANGED <<daemonVars, sess, pending, startup, toolRoom, watch, wake, watchRoom, rejoin,
                 over, history>>

ToolAdopts ==
  /\ ~over /\ tool = "adopted"
  /\ IF sess = None THEN sess' = toolRoom /\ NoAttach ELSE Detach /\ UNCHANGED sess
  /\ tool' = "idle" /\ mu' = None
  /\ UNCHANGED <<daemonVars, pending, startup, toolRoom, watch, wake, watchRoom, rejoin, over,
                 history>>

-----------------------------------------------------------------------------
(* The watch: it takes the channel of the next announcement, is answered   *)
(* with an offer already there or sleeps until that announcement; a daemon *)
(* that stops ends the wait and the loop asks again.                       *)
Await ==
  /\ ~over /\ watch = "ask" /\ up
  /\ wake' = announced /\ watch' = "check"
  /\ NoAttach
  /\ UNCHANGED <<daemonVars, sess, pending, startup, tool, toolRoom, watchRoom, mu, rejoin, over,
                 history>>

Check ==
  /\ ~over /\ watch = "check" /\ up
  /\ IF offer # None THEN watch' = "got" /\ watchRoom' = offer
     ELSE watch' = "sleep" /\ UNCHANGED watchRoom
  /\ NoAttach
  /\ UNCHANGED <<daemonVars, sess, pending, startup, tool, toolRoom, wake, mu, rejoin, over,
                 history>>

Woken ==
  /\ ~over /\ watch \in {"check", "sleep"} /\ (~up \/ (watch = "sleep" /\ announced # wake))
  /\ watch' = IF up THEN "check" ELSE "ask"
  /\ wake' = announced
  /\ NoAttach
  /\ UNCHANGED <<daemonVars, sess, pending, startup, tool, toolRoom, watchRoom, mu, rejoin, over,
                 history>>

(* adoptLocked: only a session in no room, with no startup join of its own. *)
WatchLocks ==
  /\ ~over /\ watch = "got" /\ LockFree("watch")
  /\ IF sess = None /\ pending = None THEN mu' = "watch" /\ watch' = "attaching"
     ELSE watch' = "off" /\ UNCHANGED mu
  /\ NoAttach
  /\ UNCHANGED <<daemonVars, sess, pending, startup, tool, toolRoom, wake, watchRoom, rejoin,
                 over, history>>

Unlocked == mu' = IF mu = "watch" THEN None ELSE mu

WatchAttaches ==
  /\ ~over /\ watch = "attaching"
  /\ \/ Attach(watchRoom) /\ watch' = "attached" /\ UNCHANGED <<mu, history>>
     \/ AttachFails(watchRoom) /\ watch' = "ask" /\ Unlocked
  /\ UNCHANGED <<daemonVars, sess, pending, startup, tool, toolRoom, wake, watchRoom, rejoin,
                 over>>

WatchAdopts ==
  /\ ~over /\ watch = "attached"
  /\ IF sess = None THEN sess' = watchRoom /\ NoAttach ELSE Detach /\ UNCHANGED sess
  /\ watch' = "off" /\ Unlocked
  /\ UNCHANGED <<daemonVars, pending, startup, tool, toolRoom, wake, watchRoom, rejoin, over,
                 history>>

-----------------------------------------------------------------------------
(* The person joins a room from the mod; its reader is on offer, and the   *)
(* announcement follows.                                                   *)
Offered == offer # None

PersonJoins(r) ==
  /\ up /\ offer = None /\ offer' = r
  /\ NoAttach
  /\ UNCHANGED <<up, announced, link, sess, pending, startup, tool, toolRoom, watch, wake,
                 watchRoom, mu, rejoin, over, history>>

Announce ==
  /\ up /\ Offered /\ announced = 0 /\ announced' = 1
  /\ NoAttach
  /\ UNCHANGED <<up, offer, link, sess, pending, startup, tool, toolRoom, watch, wake, watchRoom,
                 mu, rejoin, over, history>>

(* The daemon stops: its readers come back detached, offers and all, with  *)
(* the next, which somebody else's front end or this one's ensure starts.  *)
DaemonStops ==
  /\ up /\ mishaps < MaxMishaps /\ mishaps' = mishaps + 1
  /\ up' = FALSE /\ conn' = {} /\ lapsed' = TRUE
  /\ UNCHANGED <<offer, announced, link, feRoom, attached, sess, pending, startup, tool, toolRoom,
                 watch, wake, watchRoom, mu, rejoin, over, joins, switched, late>>

OthersRespawn ==
  /\ ~up /\ up' = TRUE
  /\ NoAttach
  /\ UNCHANGED <<offer, announced, link, sess, pending, startup, tool, toolRoom, watch, wake,
                 watchRoom, mu, rejoin, over, history>>

(* ensure, from the hook socket's goroutines: a reachable daemon is taken  *)
(* for its own; otherwise it starts one and attaches to its room again.    *)
Ensure ==
  /\ ~over /\ ~up /\ rejoin = None /\ up' = TRUE /\ rejoin' = feRoom
  /\ NoAttach
  /\ UNCHANGED <<offer, announced, link, sess, pending, startup, tool, toolRoom, watch, wake,
                 watchRoom, mu, over, history>>

Reattach ==
  /\ ~over /\ rejoin # None
  /\ \/ Attach(rejoin) /\ UNCHANGED history
     \/ AttachFails(rejoin)
  /\ rejoin' = None
  /\ UNCHANGED <<daemonVars, sess, pending, startup, tool, toolRoom, watch, wake, watchRoom, mu,
                 over>>

(* stdin closes: the room of the session is left. *)
StdinCloses ==
  /\ ~over /\ tool = "idle" /\ over' = TRUE
  /\ IF sess # None THEN Detach ELSE NoAttach
  /\ UNCHANGED <<daemonVars, sess, pending, startup, tool, toolRoom, watch, wake, watchRoom, mu,
                 rejoin, history>>

NextFront ==
  \/ Handshake \/ StartupAttaches \/ StartupLands
  \/ CallTool \/ ToolReturns \/ Abandon \/ JoinAttaches \/ Swap \/ LeavePrevious \/ ToolAdopts
  \/ Await \/ Check \/ Woken \/ WatchLocks \/ WatchAttaches \/ WatchAdopts
  \/ Announce \/ DaemonStops \/ OthersRespawn \/ Ensure \/ Reattach \/ StdinCloses
  \/ \E r \in Room : JoinWarRoom(r) \/ PersonJoins(r)

SpecFront == InitFront /\ [][NextFront]_fvars

(* Goroutines run on, an attach is answered within its timeout and, tried  *)
(* again and again, succeeds; the lock is free again and again.            *)
WatchGoesOn == Await \/ Check \/ Woken \/ WatchAdopts
AdoptionAttaches == watch = "attaching" /\ watch' = "attached" /\ WatchAttaches
ToolGoesOn == JoinAttaches \/ Swap \/ LeavePrevious \/ ToolAdopts \/ Abandon

FrontFairness ==
  /\ WF_fvars(Handshake) /\ WF_fvars(Announce)
  /\ WF_fvars(OthersRespawn \/ Ensure)
  /\ WF_fvars(WatchGoesOn) /\ WF_fvars(ToolGoesOn)
  /\ SF_fvars(WatchLocks) /\ SF_fvars(AdoptionAttaches)

FairFront == SpecFront /\ FrontFairness

-----------------------------------------------------------------------------
Quiet ==
  /\ ~over /\ up /\ startup \in {"off", "new"} /\ tool = "idle" /\ rejoin = None
  /\ watch \notin {"attaching", "attached"}

FrontEndTypeOK ==
  /\ conn \subseteq Room /\ late \subseteq Room
  /\ {offer, feRoom, sess, pending, toolRoom, watchRoom, rejoin} \subseteq Room \cup {None}
  /\ startup \in {"new", "off", "attaching", "landed"}
  /\ tool \in {"idle", "gated", "called", "joining", "swapping", "leaving", "adopting",
               "adopted"}
  /\ watch \in {"off", "ask", "check", "sleep", "got", "attaching", "attached"}
  /\ mu \in {None, "tool", "watch"}

(* The reader follows the session: at rest, a process in a room has its    *)
(* reader connected there and nowhere else, whichever of the three ways    *)
(* brought it there and however they overlapped, unless join_war_room was  *)
(* called from within a room, an attach came late, or the daemon stopped   *)
(* and somebody else's front end started the next.                         *)
ReaderFollows ==
  Quiet /\ sess # None /\ ~switched /\ ~lapsed =>
    attached /\ feRoom = sess /\ conn \ late \subseteq {sess} /\ sess \in conn

(* An adoption has the question of the room to itself: while one attaches  *)
(* the session is in no room, nobody else is joining, and so the branch    *)
(* that takes an adoption's join back is never taken.                      *)
AdoptsAlone ==
  watch \in {"attaching", "attached"} \/ tool \in {"adopting", "adopted"} =>
    /\ sess = None /\ pending = None
    /\ watch \in {"attaching", "attached"} => tool = "idle"

(* The reader is where the session is, and an adoption is nobody's rival. *)
FrontEndFollows == ReaderFollows /\ AdoptsAlone

(* A folder's person is not left waiting: an idle session without a        *)
(* startup join gets into the room on offer without a tool call.           *)
OfferIsTaken == offer # None /\ watch # "off" ~> sess # None \/ over

(* The same without the exception for a switch: see the findings. *)
SwitchedReaderFollows ==
  Quiet /\ sess # None /\ ~lapsed /\ late = {} => attached /\ conn = {sess}
=============================================================================
