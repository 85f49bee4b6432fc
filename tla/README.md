# The Landfall CLI in TLA+

`landfall` connects a coding agent (Claude Code, Codex, ...) on a person's machine to a
shared incident room on a server. It does two things that are hard to get right: it
delivers what the agent wants to say (*hand-offs*) to a room that may be slow, down or
gone, and it tells the agent and the person what others said in the room, across
daemons that stop and come back. Around the two stand the daemon itself, the ways into a
room, what the screens show, and the commands that share files on the machine. These
modules model all of these, check them with TLC on small instances, and prove the main
safety properties with TLAPS for every instance.

Paths below are relative to the repository's `internal/` where they do not say more
(`src/internal/` in `PROJECT.json`).

## 1. The system

Processes on one machine:

| process | code | lives |
|---|---|---|
| `landfall serve`, one per agent and checkout | `internal/cli/serve.go`, `internal/mcp`, `internal/tools` | as long as the agent |
| the room daemon, one per machine | `internal/daemon` | from the first attach until idle or asked to stop |
| hook processes | `internal/hooks` | one call of the harness (a prompt, a stop, a file change) |
| commands of the person (`allow-cwd`, `held`, `join`, ...) | `internal/cli` | one command |

They share files: the queue (`spool`), the mirror of the timeline (`mirror`), the
daemon's state file, the stage files of the hooks, the credentials.

### 1.1 Components, their state and operations

| component | state | operations | what makes it correct |
|---|---|---|---|
| **spool** (`internal/spool`) | one append-only JSON-lines file per workspace and incident; an entry is queued, publishing, published, refused, held or abandoned | AcceptKind, Claim, Ack, Fail, Expire, Refuse, Hold, ReleaseHeld, DropHeld, Recover, Pending, Compact | nothing accepted is lost; nothing finished starts again; "published" is true |
| **bridge** (`internal/bridge`) | a worker: its run's goroutine, incident and session | Start, Stop, reconcile, sweep, absorb, drain, publish | every hand-off ends published or refused, as few times as possible, in its own room |
| **mirror** (`internal/mirror`) | an append-only file of events; the cursor is the highest seq it shows | Record, LastSeq, FindOwn | no event of the room is missing, or `FindOwn` fails to recognise a hand-off that landed |
| **hold** (`cli/frontend.go`, `cli/held.go`, `daemon/hold.go`) | rooms the person allowed; held entries | Accept with a match, allow-cwd, held drop | what names the working directory stays here until allowed; what is allowed is released |
| **room** (`daemon/room.go`, `reader.go`) | ring of events, cached frame, readers and cursors, seats, attention | Attach, Detach, enqueue, Untold, Advance, Delta, Frame, EnsureSeat, ReapSeats, RestoreRoom, Close | every reader is told all the news since it came in, each piece once |
| **daemon** (`daemon/daemon.go`, `state.go`) | rooms; the state file | openOrAttach, restore, save, idle exit, hand-over, shutdown | one room per incident; a restart continues where the last one stopped |
| **ipc** (`daemon/ipc.go`) | connections with deadlines | attach, detach, peek, consume, delta, match, claim, status, live frames | a request that dies leaves nothing half done that matters |
| **socket** (`internal/realtime`) | a connection, its subscription | connect, push, reconnect | events arrive in order; an outage loses the ones in between |
| **hooks** (`internal/hooks`) | stage files, doorbell | peek, emit, consume; the stop gate; the watcher | what is consumed was shown |
| **session** (`internal/session`) | pending events, told list, dropped count | FlushPending, PendingAndMark, join, leave | the loss of an event is visible |
| **links** (`daemon/links.go`) | claims on share links, with a time to live | claim, fulfil, release | one join per link |
| **client** (`internal/client`) | session token; the governor's budget | Contribute, GetUpdates, staged claims, delta | a refusal, an expiry and a failure are told apart |
| **front end** (`cli/frontend.go`, `joingate.go`, `adopt.go`) | room attached to, startup join, offer watched for | startup join, join_war_room, adoption, ensure, rejoin | the reader follows the session; one way in at a time |
| **delivery** (`internal/hooks`) | stage file, doorbell, who owes what | wake, prompt, stop, consume | no news disappears between a bell and a prompt |
| **what the screens read** (`daemon/person.go`, `live.go`, `room.go`, `cli/wall.go`, `narrate/people.go`) | cached views with marks, the wall's number, the kept conclusion | peek, watch, background reads | what is cached is fresh or marked; a number moves when what it stands for does |
| **shares, as told** (`tools/share.go`) | refusals reported, expiries told | share_with_room, the end of every tool result | told, and not nagged |
| **auth** (`internal/auth`, `internal/instance`) | one credentials file | sign in, refresh, sign out | a session is neither lost nor brought back |
| **install** (`internal/install`, `hooks/hosts`) | hosts' configuration files, which are not ours | install, uninstall | the person's entries stay; ours are whole |
| **policy** (`hooks/policy.go`, `confirm.go`) | the policy file, the terminal | match, ask, declare, print, `--init` | what leaves was confirmed, and was printed |
| **a person's commands** (`cli/vote.go`, `remediation.go`) | none | vote, approve | sent to the room shown, as the person |
| **connect aws** (`cli/connect_aws.go`) | a role and a connection | deploy, register, check | a second run puts a half-done first one right |
| narrate, tools, mcp, read-only commands | listed in `PROJECT.json` with the reason each is modelled or not | | |

### 1.2 How they interact

```
 agent ── share_with_room ──► hold ──► spool file ◄── allow-cwd, held drop
                               │match       ▲ │
                               ▼            │ ▼ list, claim, record
                            daemon        bridge run ── POST ──► room (server)
                                            │ ▲                   │
                                     mirror file ◄── GetUpdates ──┘
                                                                  │ push
 agent ── delta ──► daemon: room{ring, cursors} ◄── socket ◄──────┘
 hook ── peek, consume ──►   │  ▲
                         state file
```

### 1.3 What is hard

* **Crashes between two steps**: the write landed, the record of it did not; the cursor
  moved, the save did not; an append was cut short.
* **Overlap**: `Worker.Start` cancels the previous run without waiting for it; two serve
  processes may share a queue; commands write the queue under the worker's feet; hooks
  read twice and write once against a daemon that goes on.
* **An unreliable room**: lost answers, late requests, expired sessions, throttling.
* **Stale reads**: `drain` works from a snapshot, `reconcile` from a mirror whose refresh
  may have failed, a frame from before the last event.
* **Limits**: a full queue, a ring that drops its oldest event.
* **Something must eventually happen**: one stubborn hand-off must not starve the others;
  an untold event must survive any number of restarts; every attach is answered; an idle
  session gets into the room on offer.
* **Files without locks**: the stage, the credentials, the hosts' configuration and the
  state file are read, changed and written back by processes that do not see each other.
* **Caches and marks**: a mark cleared when a read lands may have been set again meanwhile.

`PROJECT.json` lists each at its line, under `hazards`, with the properties it is for.

## 2. The modules

| module | models | its state in the code |
|---|---|---|
| `Spool` | the content of the queue files as operators: one per method of `Spool`, each the file after one appended record | `Entry.State`, `AgentInstanceID`, `SessionExpired` |
| `Bridge` (EXTENDS `Spool`) | the worker's runs over the queue, the mirror, the room and its misfortunes | `spool` and `mirror` on disk; `timeline`, `copies`, `strays` on the server and the wire; per run `pc`, `target` (incident), `inst`, `up` (session), `cancelled` (context), `todo`/`cur`/`answer` (locals of drain and publish) |
| `Outbox` | what the queue promises: an at-least-once outbox | abstract |
| `Hold` (EXTENDS `Bridge`) | the holding accepter and the person's commands over the same queue and worker | `share` (where an Accept is), `allowed` (the daemon's), `command`/`releasing` (locals of allow-cwd) |
| `Filter` | what a loop that copies a list without some of its elements returns | operators |
| `Journal` (EXTENDS `Filter`) | a JSON-lines file with torn writes: pieces, newlines, what a reader parses | operators |
| `SpoolFile` (EXTENDS `Journal`) | the queue's file under appends, torn appends and Compact | `file`, `tmp` |
| `MirrorFile` (EXTENDS `SpoolFile`, for what the two journals lose together) | the mirror's file under overlapping absorbs | `file`, per absorb `since`, `fetched` |
| `RoomReaders` | the daemon's ring and cursors, the state file, hooks and pulls | `Room.ring`, `Room.frame`, `Room.readers` (`known`, `cursor`, `connected`), the state file (`file`), a hook process (`hook`), a delta under way (`pull`); `told`, `over`, `missed`, `start` are history |
| `Membership` | the room a serve process is in, and that "no room" is none | `Session.client` |
| `Session` (EXTENDS `Membership`) | the queue of a serve without the daemon, under the socket, the one tool call, a hook and a join | `Session.cursor`, `pending`, `told`, `dropped`, `client`; the calls' locals |
| `Snapshot` (EXTENDS `Membership`) | the coalesced read behind attention and divergence | `snapshot.value`, `dirty`, `gen`, `inFlight`; the goroutines' locals |
| `Seats` | one room's seats: attaches, single-flight joins, beat, reaping, idle exit | `Room.seats`, `seating`, `primary`; `present`, `leaving` at the server |
| `Links` | one share link and the claims on it | the daemon's book (`known`, `claim`), `spent` at the server |
| `Rooms` | the rooms, and that "no room" is none | |
| `FrontEnd` (EXTENDS `Rooms`) | one serve's ways into a room | the front end's room, the session's, the gate, the watch, the adopter's lock |
| `Lifecycle` (EXTENDS `Rooms`) | the daemon as processes: spawn, lock, restore, listen, save, hand over, crash | `daemon.lock`, the socket's path, `state.json` |
| `Delivery` | bell, wake, prompt and refused stop over the stage file | `pending-digest.json`, each queue's cursor, each hook process |
| `Glance` | what the daemon caches of a room for its readers, and the watch | frame, attention and person's views with their marks and generations |
| `Wall` | the wall's newest widget and number; a pane that reads it again | `wallState`, the seed read |
| `Beacon` | what is said of Beacon's run and of claims, folded from ring and timeline | the ring's extent, the kept conclusion |
| `Governor` | cool-downs of an edge that refuses | `until`, `failures` per host |
| `Install` | a host's configuration under runs that read and write it whole | the file, Codex's flag, each run's copy |
| `Auth` | one credentials file under refreshes, sign-ins and sign-outs | the file, each process's copy, the server's live refresh tokens |
| `Connect` | `connect aws`, run and run again | the role's external id, the connections |
| `Person` | `vote` and `approve` while rooms and sign-in change | the daemon's rooms, the sign-in, the command's locals |
| `Policy` | the pre-tool-use hook and `hooks policy` on one file and one terminal | the policy file, the terminal's mode and key, each hook |
| `Share` | what agents are told of the hand-offs in one queue | entries' `Reported` and expiry, `expiryTold`, each call |
| `MCBridge`, `MCHold`, `MCRoomReaders`, `MCSeats`, `MCDelivery` | the instances the cfg files name | |
| `MCSession`, `MCDaemon`, `MCServeLive`, `MCMachine`, `MCView` | several parts side by side: each EXTENDS parts that theorems are about (`MCMachine` and `MCView` all of theirs) and INSTANCEs the others | |
| `BridgeProofs`, `RoomReadersProofs`, `SeatsProofs`, `DeliveryProofs`, `SessionProofs`, `DaemonProofs`, `ViewProofs`, `MachineProofs` | theorems: the first four about the module each is named for, `BridgeProofs` about `Hold` too, `SessionProofs` about `Session` and `Snapshot`, `DaemonProofs` about `Lifecycle`, `Links` and `FrontEnd`, `ViewProofs` about `Glance`, `Governor`, `Beacon` and `Wall`, `MachineProofs` about `Share`, `Auth`, `Connect`, `Person`, `Policy`, `Install`, `SpoolFile` and `MirrorFile` (section 5) | |

The line before the last needs a word. The parts of the second half of the table meet through files
or the server, each seen in one module; nothing one of them does changes the variables of
another. `MCDaemon`, `MCMachine` and the like put such parts into one specification: a
constant variable `part` says which one a behaviour runs, the others keep one initial
state, and each property is `part = ... => P`. It is the disjoint sum of the parts, no
more: every behaviour of each is checked, and no interleaving of two of them is claimed.
What does interact is in one module: the hold with the worker (`Hold`), hooks with stage,
serves and daemon (`Delivery`), pulls with hooks and restarts (`RoomReaders`).

`map` in `PROJECT.json` gives the lines behind every definition. Operators marked
`(Mutant ...)` are not part of any specification: each is a plausible slip, kept to show
that the property it is paired with in `PROJECT.json` notices it.

### 2.1 The worker (`Spool`, `Bridge`)

A run goes `recover -> refresh -> resolve* -> (absorb -> list -> (drain -> wait)* -> idle)*`.
These are the points between which another goroutine, process or the room can act: each
method of `Spool` reads and appends under the package lock and is one step, each request
is two (`Send`, then `RoomAccepts`/`RoomRefuses`/`RoomFails`/`GiveUp`) and its record a
third (`Settle`). `Join` is `Worker.Start` at the end of a join (the cancelled run goes on
until it looks at its context), `Stop` cancels, `Crash` ends a process between any two
steps. The room deduplicates staged claims by author and statement, which is what the
client relies on (`AlreadyStaged`, external). `FindOwn` compares instance and words as the
code does, so a claim's event, which carries a statement, is never found.

The misfortunes are the members of `FaultKind`, each named at its definition; a run of TLC
allows `MaxFaults` of the kinds in `Faults`. A disk fault on `Settle` leaves an entry
publishing until the next join, as in the code (the error is logged and the pass goes on).

Abstracted: the words (model values; redaction is a function of them), attempts and
timestamps, the order of entries within a pass apart from oldest first, the length of
backoff and ticks. `mark` (load, then append, under one lock) is one step.

### 2.2 The hold (`Hold`)

`Queue`, `Match`, `PutHold` are the three steps of `holdingAccepter.Accept` in the order
of the code: the entry is in the queue, and the worker nudged, before the daemon is
asked. `ListHeld`, `ReleaseHeld` are `allow-cwd`, one step per record.

### 2.3 The files (`Journal`, `SpoolFile`, `MirrorFile`)

`Bridge` takes a file for a function from ids to records; these modules look below. A
write puts pieces at the end of the file; one that ends early leaves whole records, then
nothing, a cut record, or a record without its newline. A reader drops every line that is
not exactly one whole record. So what follows a cut record on its line is lost too.

### 2.4 The room's readers (`RoomReaders`)

Events are their seqs. A person is a terminal reader (one per workspace and harness), an agent the
reader of a front end. `Post`, `Subscribe`, `Outage`, `Deliver` are server and socket;
`Deliver` is `enqueue`, with the ring's limit. `FrameLands` is a frame read that comes
back, possibly overtaken by a newer one. `Open`, `Restore`, `Backfill`, `RejoinFails` are
`openOrAttach`, `restore`, `RestoreRoom`; `Crash`, `Stop`, `IdleExit` end the daemon, and
`Down` says what that does to everyone. `PeekUntold`, `PeekMax`, `Emit`, `Consume` are one
hook: the peek's two lock regions, the output, and the consume. `Ask`, `Fetch`, `Move`,
`Answer` are one delta, `Move` the point where the cursor is advanced and saved before the
answer is written.

Abstracted: the socket delivers in order; `Backfill`'s request and its end are one step (a
post in between is lost exactly as a post between the end and `Subscribe` is, which the
model has); the digest's limit of lines counts as shown, since it ends in a pointer to the
rest; each hook speaks for one person; saves that overtake one another on disk are covered
by "unsaved"; `IdleExit` needs only that no agent is connected (its grace and the watches
are left out, so it may happen earlier than in the code); what a reader is owed starts at
what the room had when it came in, the brief covering the rest. `over` collects what the
code lets a cursor pass unshown: what overtook a peek, an answer nobody waited for, and
what an agent asked past. `missed` collects what the ring dropped or never got.

### 2.5 A serve without the daemon (`Session`, `Snapshot`)

`Post`, `Subscribe`, `Outage`, `Push` are the server and the socket. The MCP loop runs one
tool call at a time, so there is one `call`, between whose steps the socket, a hook
and a join's later steps go on; a join swaps the client and empties the queue first
(`joinConfig`), says goodbye to the old room over the network next, and restarts the socket
last, so a push of the old room can land in the queue of the new one. A hook peeks, shows
and consumes by a seq that names no room. `Snapshot` is the coalesced read behind a
session's attention: a caller takes the client outside the lock, `begin`s a read or joins
the one in flight, and `settle` keeps an answer only of the newest generation. Versions
stand for answers; the text of an answer is left out.

### 2.6 The daemon (`Seats`, `Links`, `Lifecycle`)

`Seats`: an attach is `Open`, `FindSeat` (the seat, the join in flight, or a join of one's
own), `TakeSeat`, the frame's read, `Register`. The join goes on when who asked has given
up. A grace is a flag that runs out at any moment, so the ticker may reap whatever the code
allows it to. `Links`: lookup, claim, redeem, report, wait; claims run out at any moment,
since 30 s of claim stand against 60 s of redeem. `Lifecycle`: lock, restore, then listen;
a save is the copy under the lock and later the rename, two steps of one verb; a
hand-over is asked by a front end of a newer protocol; a crash leaves the socket's path.

### 2.7 A front end (`FrontEnd`)

The startup join runs in the background, a tool call waits for it; the watch wakes on an
offer and adopts it unless the session is in a room (checked, locked, checked again);
`join_war_room` attaches, then leaves what the front end is attached to. `ensure` rejoins the
room of the front end at a respawned daemon. That a startup attempt (15 s) ends before the
wait for it (20 s) is used; nothing else is assumed of time.

### 2.8 News on its way (`Delivery`)

One queue per serve and per front end, one stage file and one doorbell per checkout. A wake
peeks all sockets and replaces the stage; a prompt peeks, prefers what answers to what is
staged, shows, consumes, clears; a refused stop peeks, shows and consumes. Every answer
may be late, every consume lost, every hook killed; hooks overlap. `Fleets` are the casts:
two hooks over a serve and a front end, two hosts in a checkout, two serves.

### 2.9 What the screens read (`Glance`, `Wall`, `Beacon`)

`Glance`: an event arrives, marks, wakes and starts reads, in the order of `enqueue`; a read
lands with its generation; a peek takes what is cached. A content is the number of its
changes. `Wall`: the timeline folds to cards, the daemon keeps the newest widget and the seq
of the last change, a pane re-reads when that moves; the background read of what was there
before the daemon may land late. `Beacon`: runs, steps, hypotheses and claims as events; the
ring's window is `from`, the kept conclusion is folded again at each status.

### 2.10 The machine's files and commands (`Install`, `Auth`, `Connect`, `Person`, `Policy`, `Share`, `Governor`)

`Install`: a run reads the host's file, changes one surface, and writes it whole; others do
the same, and the person and the host edit it between. An entry is the person's or ours, in
today's or an older form. `Auth`: `Save` truncates, then writes, and the model has the file
in between; a refresh presents a token that the server takes once. `Connect`: template,
preflight, stack, role, registration, check, each may fail, and a run may be
repeated under the same or another name. `Person`: room, session, sign-in and request are
four reads of things that change. `Policy`: words of a command are matched against `allOf`
and `noneOf`, in the order of the file; the terminal has a mode and a key that may have been
typed early. `Share`: a refusal is listed, then marked, and `Reported` looks at nothing;
expiry notices are told once and their mark is cleared late. `Governor`: check and sending
are one step, time is in ticks; a refusal sets the end of the pause.

## 3. The runs

| run | instance | shows |
|---|---|---|
| `bridge_faults` | two hand-offs (one refusable, one a claim), one run at a time, two identities, nine kinds of fault, three at a time | `TypeOK`, `PublishedLanded`, `DuplicatesHaveCause`, and `ImplementsOutbox`: the worker implements an at-least-once outbox, in which also nothing finished is taken back |
| `bridge_rejoin` | two rooms, two overlapping runs of one process | `RightRoom`, `OutcomesAreTrue` |
| `serve_live` | worker and front end, each fair; three hand-offs: one the room never settles, one it refuses, one ordinary; a folder that is offered a room | `InFlightIsTended`; `ServeGetsThere`: every hand-off settles, every offer is taken |
| `hold` | two hand-offs, one naming the directory, one refusable; a daemon that may not answer; crash, lost answer, disk; fair | `HoldIsSound`: its types, and what is held is let go once the person allows it |
| `readers` | one checkout: front end, person, hook, pull from the cursor; two events, a ring of one; seven kinds of fault, one at a time | `ReadersTypeOK`, `ToldOrOwed`, `GivenOrOwed` |
| `readers_live` | without the pull, nine kinds of fault, two at a time; fair | `EventuallyTold` |
| `session` | the queue of a serve with two rooms, or its snapshot with two callers, two reads, two rooms | `SessionTypesOK`; `PassedIsOwedOrHanded`; `OnlyCurrentWrites`, `FreshOrDirty` |
| `daemon` | seats of two harnesses and three front ends, a link with three claims, a front end with two joins, or a daemon spawned again by two clients | `DaemonTypesOK`; `LinksAreSpentOnce`, `FrontEndFollows`, `RoomsSurvive` |
| `daemon_live` | seats of two harnesses and three front ends, two joins; fair | `SeatsAreKept`, `EveryAttachAnswered` |
| `hooks` | two hooks of every kind over three fleets, two events a queue, one fault | `TypeOK`, `NewsIsKept`, `TwiceForAReason`, `OwedWasRung` |
| `machine` | one of: both journals, install, auth, connect, a person's commands, policy, shares | `MachineTypesOK`; `JournalsLose`, `InstallKeeps`, `SignInKeeps`, `ConnectResumes`, `PersonActs`, `PolicyIsKept`, `ShareIsTold` |
| `view` | one of: governor, glance, wall, beacon | `ViewTypesOK`; `StaysAway`, `GlanceIsFresh`, `WallIsRight`, `SaysOfBeacon` |

A property with a name of its own at the end of an MC module is the conjunction of
the properties of one part, which are stated and explained in the part's module.

### 3.1 Bounds

`MaxEntries`, `MaxFaults`, `MaxLines`, `MaxTears`, `MaxSeq`, `Last`, `MaxEvents`, `MaxRuns`,
`MaxStarts`, `MaxCalls`, `MaxTroubles` (the wall's losses and restarts together) and the like
bound the executions; `Max`, `RingMax`, `PendingMax`,
`MemoMax` and `Shown` are limits the code has too, set small so that they bite. Two
hand-offs are enough for everything that relates one entry to another (oldest first, a claim
beside a finding, one room and the other); the third in `serve_live` is there because
starvation needs one behind two others. Three faults suffice for a crash whose recovery
meets another fault and is itself interrupted. Two events with a ring (or a queue) of one
let an untold event be dropped while another is in it. Two processes over one file are
enough for every overlap of a read with another's write; a third run (`MaxRuns`,
`MaxStarts`) comes after both and meets what they left. The wall's memo of two over two
widgets is let go of by edges only (`bySeq`). Two socket losses over five rows and a ring
of three let a run's conclusion leave the ring before another is asked for, heard or not.
For the safety properties with theorems
(section 5) the bounds do not matter at all.

`SYMMETRY` is used only in runs without temporal properties, over processes, rooms, entries
and front ends of one label, which no definition tells apart. `CHECK_DEADLOCK FALSE` stands
where all bounded events may be over and every process idle.

### 3.2 Fairness

* `Bridge`: a goroutine that can run does; the room answers a request that reaches it, or
  `RequestTimeout` (`client.go`) answers instead; the person starts the agent again and
  rejoins when the tools say that the session has expired (`AwaitingSession`). All weak.
* `Hold`: a tool call and a command run to their ends, and a person whose hand-offs are
  held allows the room, again if one is held after that (`landfall status` counts them).
* `RoomReaders`: the daemon is spawned again by the next front end, its restore
  ends, a pushed event is delivered, and the next prompt starts a hook that runs to its
  end. Nothing is assumed of the socket (`Subscribe` is not fair) or of the faults.
* `Seats`: a join is answered or times out and an attach runs on (weak); one whose lock or
  channel is free again and again gets its turn (strong: Go's mutex starves nobody).
* `FrontEnd`: its goroutines run on and some front end starts a daemon again (weak); the
  adopter gets its lock, and of attaches tried again and again one is answered in time (both
  strong). Faults are bounded and not fair. `serve_live` takes these and `Bridge`'s over one
  tuple of variables.

## 4. Where code and words part

Listed under `findings`, each with its line. A property that the code violates is stated in
its module, as the words of the docs or as one would wish it, and is in no run. To see its
counterexample, name it as INVARIANT or PROPERTY in a cfg of that module (for a part of a
sum, in the cfg of the MC module: by its name where the MC module EXTENDS the part, through
the instance where it does not):

| module | violated |
|---|---|
| `Bridge` | `AtMostOnce`, `RefusedIsTerminal`, `RoomChangeAbandons` |
| `SpoolFile`, `MirrorFile` | `TornLosesOnlyThatLine`, `NoGaps` |
| `Hold` | `HeldStaysHere`, `AllowReleasesAll` |
| `RoomReaders` | `PersonIsTold`, `AgentIsGiven` |
| `Session`, `Snapshot` | `OneRoomAtATime`, `ToldUntilShown`; `AnswersThisRoom` |
| `FrontEnd`, `Links`, `Seats`, `Lifecycle` | `SwitchedReaderFollows`; `OwnersRelease`; `AgentsHaveSeats`; `SavesInOrder` |
| `Delivery` | `SurvivesAWake`, `SurvivesAnotherHost`, `NothingSwallowed`, `NothingArrivesTwice`, `EveryOwedWasRung` |
| `Install`, `Connect` | `NothingOldIsLeft`; `WorkingStays` |
| `Auth` | `TokenGoesHome`, `LogoutHolds`, `NeverMisled` |
| `Governor` | `HonoursRetryAfter` |
| `Glance` | `SeatIsFresh`, `FrameIsFresh`, `LiveMeansUp`, `WatchIsWokenForFrame` |
| `Wall`, `Beacon` | `NeverReissued`, `PendingIsShown`; `AnswerStands`, `AnswerIsOfItsRun`, `StepIsOfTheRun` |
| `Person`, `Policy`, `Share` | `AlwaysAsShown`; `CookedAgain`, `InitKeeps`, `AsksAfresh`; `LaterExpiryIsTold`, `ToldOnce` |

What the passing properties say is therefore weaker than the words in the docs, on
purpose: `DuplicatesHaveCause` names the faults that cannot cause a duplicate,
`OneLossPerTear` and `TwoGapsPerTear` bound the loss, `ToldOrOwed` and `NewsIsKept` name what
may pass a cursor, `SessionSurvives` and `SignedOutStays` what may undo a sign-in or
sign-out. The table shows for each a behaviour at the limit.

## 5. The proofs

All are checked by TLAPS to the last leaf. They hold for every value of the constants that
the modules' assumptions allow: the `ASSUME`s of `Spool`, `Bridge`, `Hold`, `RoomReaders`, `Seats`,
`Share`, `Delivery`, `Glance`, `Governor`, `Membership`, `Session`, `Snapshot`, `Rooms`,
`Lifecycle`, `Links`, `FrontEnd`, `Auth`, `Connect`, `Person`, `Policy`, `Install`, `SpoolFile`,
`MirrorFile`, `Beacon` and `Wall`, which TLC evaluates on the instances. The assumptions say what kind
of thing each constant is (`HarnessOf` gives every serve a harness, `orgOf` every room an
organization, bounds are numbers, the names of queues do not collide, what is counted is
finite), never how many there are. Four theorems of `BridgeProofs` have a
premise of their own, explained there.

Every proof has the same layout: an inductive invariant made of named parts, a lemma per
part with one step per action, and the theorem as its consequence.

| invariant a run checks | theorem | inductive invariant |
|---|---|---|
| `Bridge!TypeOK` | `TypeCorrect` | itself |
| `OutcomesAreTrue`, `PublishedLanded` | `OutcomesAreAlwaysTrue`, `NothingIsLost` | `OutcomesAreTrue` |
| `RightRoom` | `RoomsStayApart` | `RoomInv` |
| `ImplementsOutbox` | `QueueIsAnOutbox`, `OneWorkerIsAnOutbox` | `QueueInv` |
| `DuplicatesHaveCause` | `CrashesAreInvisible` | `QueueInv`, `QuietInv` |
| `InFlightIsTended` | `NothingIsLeftInFlight` | itself, with `TypeOK` and `RoomInv` |
| `ToldOrOwed`, `GivenOrOwed` | `ThePersonIsToldOrOwed`, `TheAgentIsGivenOrOwed` | `IInv` |
| `ReadersTypeOK` | `ReadersTypes` | `IInv`, `RingFits`, `Presence`, `FaultsCounted` |
| `PassedIsOwedOrHanded` | `PassedIsAlwaysOwedOrHanded`, `QueueTypes` | `QueueInv` |
| `OnlyCurrentWrites`, `FreshOrDirty` | `OvertakenReadsAreMute`, `CleanIsFresh` | `SnapInv` |
| `RoomsSurvive` | `RoomsSurviveDaemons`, `OneDaemonAtATime` | `KeepInv`, `LifeInv` |
| `LinksAreSpentOnce` | `LinksAreNotBurned`, `LinksTypes` | `LinksInv` |
| `FrontEndFollows` | `TheReaderFollows`, `FrontEndTypes` | `FrontInv` |
| `SeatsAreKept` | `SeatsAreAlwaysKept` | `SeatsInv` |
| `ShareIsTold` | `SharesAreTold` | `ShareInv` |
| `SignInKeeps` | `SessionsAreKept` | `AuthInv` |
| `ConnectResumes` | `RunningAgainConnects` | `ConnectInv` |
| `PersonActs` | `ActsAreThePersons` | `PersonInv` |
| `PolicyIsKept` | `PolicyKept` | `PolicyInv` |
| `InstallKeeps` | `InstallsAreKept` | `InstallInv` |
| `JournalsLose` | `JournalsLoseWhatTearsPay`, `SpoolLosesOnePerTear`, `MirrorLosesTwoPerTear` | `SpoolInv`, `MirrorInv` |
| `NewsIsKept`, `TwiceForAReason`, `OwedWasRung`, `Delivery!TypeOK` | `NoNewsIsLost`, `RepeatsHaveReasons`, `BellsAreRung`, `DeliveryTypes` | `DeliveryInv` |
| `GlanceIsFresh` | `WhatIsDrawnIsFresh`, `GlanceTypes` | `GInv` |
| `StaysAway` | `RefusersAreLeftAlone`, `GovernorTypesAre` | `GovernorInv` |
| `SaysOfBeacon` | `BeaconIsTold`, `BeaconTypes` | `BeaconInv` |
| `WallIsRight` | `WallIsKept`, `WallTypes` | `WallInv` |

**`BridgeProofs`**, for any number of hand-offs, rooms, runs, processes and identities,
and any faults:

* `TypeCorrect`: `Spec => []TypeOK`. One step per action.
* `OutcomesAreAlwaysTrue`: `Spec => []OutcomesAreTrue`, the inductive invariant behind the
  next one. That "published" is true is not inductive: `Settle` acknowledges on an answer
  and `Resolve` on a line of the mirror, so both must be true (`AnswerIsTrue`,
  `MirrorIsTrue`), and the mirror is a copy of the timeline, whose events must have landed
  (`TimelineIsTrue`). That an answer is cleared whenever its run stops waiting is the part
  that a crash or a lost answer could break.
* `NothingIsLost`: `Spec => []PublishedLanded`, from it.
* `RoomsStayApart`: `Spec => []RightRoom`. The strengthening is `ListsItsRoom`: while a
  run has entries on its list they are its own room's, and only a run that is off is given
  another room.
* `QueueIsAnOutbox`: `Spec /\ []OneRunPerRoom => ImplementsOutbox`, the simulation step by
  step. What is abstract about the outbox is that each move starts from a given status; the
  worker acts on a list it made earlier, so the invariant is `ListsAreCurrent`: what a run
  has listed or waits for is still as it listed or claimed it. The premise says that of the
  runs that are on, each has its room for itself. It is needed, and not always met by the
  code (`Worker.Start` cancels a run without waiting for it): with a second run in the room
  a refused entry is taken back, which is `RefusedIsTerminal` of section 4.
  `OneWorkerIsAnOutbox` has no premise on the executions: a single run at a time, which is
  the instance `bridge_faults` checks, meets it.
* `CrashesAreInvisible`: the same premise, one seat for all runs (`OneSeatForAll`: joins of
  one harness are issued one instance id) give `DuplicatesHaveCause`. The invariant is
  `Quiet`, as long as nothing worse than the harmless faults was met: a hand-off the room
  has is one nobody will send again (`LandedIsKnown`), because whoever waits for its answer
  has it, and whoever is about to resolve it finds its event in its mirror, written under
  its owner's name.
* `NothingIsLeftInFlight`: `Spec => []InFlightIsTended` where no disk fault can happen and
  there is one room, for any number of overlapping runs (`Tends`). A disk that refuses the
  record of an answer does leave an entry mid-publish until the next join, and with a second
  room the run that would settle it may have gone there: both are the code's behaviour, and
  neither is in the instance that checks the property.

* `HoldsLoseNothing`, `HoldsStayApart` (`HoldSpec => []PublishedLanded`, `[]RightRoom`): what
  the person's commands and the holding call write falls on entries the worker has listed,
  claimed or sent, and these two survive that. `OnlyNamingIsHeld`: only what names the
  directory is held, or said to be; `HoldInv` follows a call from the daemon's answer to its
  record, and a command from its listing to each release. `HoldTypes`.

**`RoomReadersProofs`**, for any number of agents, persons, hooks, pulls and events, any
ring, any faults, and pulls from any event they name (the runs have one hook or one pull,
from the cursor):

* `ThePersonIsToldOrOwed`: `Spec => []ToldOrOwed`.
* `TheAgentIsGivenOrOwed`: `Spec => []GivenOrOwed`.
* `ReadersTypes`: `Spec => []ReadersTypeOK`, which says two things that are not types: the
  ring never holds more than it may, and only readers of a running daemon's room are
  connected. The first is a counting argument (`NewestFits`: all but the oldest of the
  newest events come after it, and fewer than `RingMax` do), the second `Presence`.

The first two follow from one inductive invariant, `IInv`. `Positions`: every cursor, saved
cursor and answer is at an event the room has reached, so that a new event is past all of
them. `CursorsInv`: what a cursor has passed is accounted for. `FileInv`: so is what a saved
cursor has passed, which is what makes any restart from any earlier save safe. `HookInv`:
what a hook's peek read is in what it is about to show, or accounted for, which is what
`Consume` relies on when it raises the cursor. `RingInv`: while the daemon is on, every
event is in the ring, on the wire or known to be missed, or no reader will ask for it
again; a backfill keeps it because it asks from the lowest cursor. The argument about time
is one lemma, `StepGrows`: no step takes back what a reader can account for, not even the
death of a daemon with an answer in hand. `BoundedExtrema` gives the facts about `Min` and
`Max` the room's helpers rest on, from the well-foundedness of the naturals.

**`SessionProofs`**, for any number of rooms and events, any limit of the queue, any
`sinceSeq` the agent names and any faults (the run has one event in the queue and no
`sinceSeq`); and for any number of callers, reads and versions:

* `PassedIsAlwaysOwedOrHanded`: `SpecSession => []PassedIsOwedOrHanded`, and `QueueTypes`.
  The property holds until another room's event or consume is in the queue (`mixed`), so
  `Ours` says what keeps it out: what is queued was pushed by the session's room, and while
  a join is between its swap and its `OnJoined` the queue is empty. `Places` says where a
  join is and whose socket is heard there. `Accounted`: what was pushed past the cursor is
  queued, was handed over, or went at the limit, which leaves something younger queued;
  that is why the count of what was dropped may be reset when a prune empties the queue.
  `HookCovers`: between a hook's peek and its consume, what the consume will pass is what
  the hook shows, or was handed over. `CappedKeepsTheNew` is the lemma about the limit.
* `SnapshotTypeCorrect`, `OvertakenReadsAreMute` (`Spec => []OnlyCurrentWrites`) and
  `CleanIsFresh` (`Spec => []FreshOrDirty`), from `SnapInv`. Its heart is `InFlightIsGood`:
  the read in flight is current, and while the snapshot is clean it knows all that has
  arrived, unless it asks a room the session has left (`stray`). `Bound`: who waits or reads
  has a read or a client. `ArrivedExists`: the socket delivers nothing the room does not
  have. Its hard step is `LandKeeps`: a read that lands may clear the mark only of an event
  that came before it began.

**`DaemonProofs`**, for any number of rooms, clients, spawns, saves under way, refused
writes, crashes and hand-overs; any number of front ends, claims and troubles of a link; and
any number of joins, offers and mishaps of a front end:

* `OneDaemonAtATime`: of daemons that probe, start and hand over at most one is past the
  lock, and the one that listens owns the socket.
* `RoomsSurviveDaemons`: `Spec => []RoomsSurvive`. What a daemon owes its successor must be
  somewhere at each moment: in every save under way that no younger one has overtaken
  (`SavesHoldWhatIsOwed`), in the rooms of a daemon that answers, from which the next save
  is taken (`RoomsHoldWhatIsOwed`), and, while a daemon restores, in its rooms or its list
  (`RestoreHoldsWhatIsOwed`). Since saves overtake one another on their way to the disk, a
  save must also hold what the older ones will make owed. `AfterAWrite` says what is left of
  a sequence of saves when one of them is written.
* `LifecycleTypes`.
* `LinksAreNotBurned`: `SpecLinks => []LinksAreSpentOnce`. Claims are numbered, so two front
  ends that redeem hold different ones; that the later of them was let in is then an
  expiry or a failure reported after its claim had run out, which is what `expired` and
  `robbed` record. `LinksTypes`: nobody holds a claim the daemon has not given.
* `TheReaderFollows`: `SpecFront => []FrontEndFollows`. The three that may attach (the startup
  join, the tool, the watch) are kept apart by a lock between the last two and by the gate
  between the first and the others (`Locked`, `Errands`). So, until `join_war_room` leaves
  one room for another, one of them at a time has a room in hand, and the hook socket
  attaches again only to that room or to the session's (`InHand`); a room in hand is
  connected unless the daemon stopped since (`Connected`).
* `FrontEndTypes`.

**`SeatsProofs`**, for any number of harnesses, front ends, joins and lost answers:

* `SeatsAreAlwaysKept`: `Spec => []SeatsAreKept`. Instances are numbered by the joins that
  made them and have one label each (`Counted`); who opens the room is alone (`RoomFirst`);
  who joins holds its label's mark, and the label has no seat yet (`MarkedJoins`), which is
  why two joins of a label never overlap; between `EnsureSeat` and `Attach` the seat is there
  or its reaping is known (`Seatable`); a seat held here is present on the server
  (`SeatsArePresent`), and what is present is held or being left.
* `SeatsTypes`.

**`MachineProofs`**, for any number of serves and shares; of processes on the credentials
file; of runs, accounts and connections; of rooms and owners; of hooks, rules and files; of
installers, edits and kills over any host's lists; and of lines, absorbs and torn writes of
the two journals:

* `SharesAreTold`: `SpecShare => []ShareIsTold`. "At most once per agent" is a tally: how
  often a refusal was heard of, plus the serves that may yet tell of it (`Telling`), never
  exceeds the number of serves, because a refusal is listed only while nobody has told of
  it. `Lapses` ties an agent's mark to the lapse of the session it was told of.
* `SessionsAreKept`: `SpecAuth => []SignInKeeps`. The property speaks of moments when all are
  done; the invariant says why the file comes to that. Of each chain one process at most
  holds a token nobody else has, and it is the live one (`OneSaver`); what others of that
  chain have asked with is spent, so their answer is a refusal (`OthersSpent`); a spent token
  in the file is about to be written over, and whoever writes over the live one's chain has
  truncated it first (`FileFollows`, `TornIsMended`). This holds until a slip that the
  property names (`slip`: a reply or a process lost past a renewal, two writes at once, a
  sign-out under a renewal). `StaysOut` is the sign-out that nothing was under way of.
* `RunningAgainConnects`: `SpecConnect => []ConnectResumes`. A run that nothing disturbed is
  the only one (`Alone`); from its deployment on the role trusts its id, whatever stack an
  earlier run left (`RoleIsOurs`); a name that was free stays free until it registers
  (`StillFree`), and then the connection of that name is the run's own (`ConnIsOurs`).
* `ActsAreThePersons`: `SpecPerson => []PersonActs`. Whoever is signed in belongs to those the
  command has seen, the token it sends is one of theirs, and of the room's organization
  while that sign-in is held (`Commanded`). That the vote goes to the room that is shown
  rests on `OneAgent`: of a folder's rooms one at most has its agent (`RoomIsShown`).
* `PolicyKept`: `SpecPolicy => []PolicyIsKept`. What was printed is of the file as it is, or
  counts for nothing (`PrintedIsNow`); a hook that asks has a rule about its command in the
  policy it read (`AsksWithReason`). "One `y` each" is a tally: the declarations sent, plus
  the hooks about to send, are at most the `y`s that were typed (`OneYesEach`).
* `InstallsAreKept`: `SpecInstall => []InstallKeeps`. The file is read whole and written whole,
  and others write it between. `Tidy` holds of the file and of every copy of it: today's entry
  stands at most once in a list, and only in lists the host has. `Knows` says what a run may
  rely on between its read and its write: the step it is at, and what its copy said of that
  surface. Of a run that nobody disturbed (`InsideAlone`) the copy is the file, what it has
  been over is done (`Midway`), and what it says at its end is so (`Honest`). That
  `ApplyHookUninstall`'s loop keeps the order and number of what it keeps is proved of `Kept`
  (`Filter`) first.
* `MirrorLosesTwoPerTear`: `SpecMirror => []TwoGapsPerTear`. A tear costs the line it cut and,
  until a newline follows, the line written onto it: `MirrorInv` counts what is missing behind
  any cursor, in the file or in an absorb's hands, and the cost still to come, against twice
  the tears. `InOrder`: what an absorb was answered follows its cursor without a gap.
  `SpoolLosesOnePerTear`: `SpecSpool => [](OneLossPerTear /\ CompactKeepsUnfinished)`. A hand-off is
  at risk (`AtRisk`) when it was accepted and the lines that a compaction would keep do not
  say so; those, and the line without a newline, are at most the tears. `Drawn`: what
  waits in `.tmp` loads as the unfinished of the file. `JournalsLoseWhatTearsPay` puts the two
  together. What a reader finds is a recursive function of the file's pieces; its lemmas
  are proved by the least prefix at which they would fail.

**`DeliveryProofs`**, for any number of serves, front ends, harnesses, hooks, events and any
faults:

* `NoNewsIsLost`, `RepeatsHaveReasons`, `BellsAreRung`, `DeliveryTypes`, from one invariant.
  Every answer in a hook's hands or in the stage is honest: what came before its first event
  was given (`AllHonest`). A hook says what it read, and from its text on that was given
  (`SaysWhatItRead`), so what it consumes it gave. What was given and no cursor has passed is
  about to be consumed, or has a reason to be given again (`GivenIsConsumed`); what a hook
  was answered and has not said, nobody else has (`AnswersAreNews`); what was parked is
  staged, given or accounted for (`StageSpeaks`); a bell that is owed is on its way (`Bells`).

**`ViewProofs`**, for any readers of the frame, peeks, events, failures and TTLs; for any
hosts, requests under way at once, jitters and cool-downs; for any events of a room, any
length of its ring and any socket losses; and for any widgets, people, posts, losses and
restarts, any memory of the daemon and any room on the pane:

* `WhatIsDrawnIsFresh`: `SpecGlance => []GlanceIsFresh`. `HeardIsTrue` says that nothing is
  heard of that did not happen: there is a numbering of the versions that the events on
  their way bring, from what was last heard of to what the server has, so a read that begins
  after an event brings at least it. `PersonInv`: a mark is served by a read under way or a
  pause, and what is neither marked, read nor failed is as new as what was heard of it, with
  the same of an answer about to land. `FrameInv` is the argument for generations: a read of
  the newest one brings what the newest mark was set for, and while there is no mark such a
  read has landed. `WatchIsWoken` is inductive as it stands.
* `GlanceTypes`.
* `RefusersAreLeftAlone`: `SpecGovernor => []StaysAway`. The governor keeps two numbers of a
  host, and the property speaks of a history: `GovernorInv` says that its failures are the
  refusals in a row, and that its cool-down is no shorter than the wait of so many, counted
  from the last of them, and no longer than one refusal gives, also when answers to requests
  sent earlier arrive late. `GovernorTypesAre`.

* `BeaconIsTold`: `SpecBeacon => []SaysOfBeacon`, and `BeaconTypes`. The ring is a window of the
  timeline, less what a lost socket missed, and an answer is folded from it twice, in the
  daemon (`narrate/people.go`) and in the dashboard. `WorkIsInRuns` and `MovesFollow` are what
  the server's order gives: a step, a finding and an end come after a start with no other
  between, and a claim moves after it was staged. So
  the newest row that says how the run stands says it of the room, if it is in the ring at
  all (`RingTellsTheState`). `ConclusionIsKept`: an end that was heard with its
  answer still in the ring is the one kept, whatever the ring lets go of later. `FoldIsView`: of a
  claim, the fold from the oldest row and the search from the newest agree.
* `WallIsKept`: `SpecWall => []WallIsRight`, and `WallTypes`. For the newest widget, `MemoInv`:
  what the daemon remembers happened, and once its read of the wall has landed it remembers
  all of it up to some event it has not yet passed, until something is forgotten or lost; so
  an execution that it takes for the first is the first (`IsNews`). `PinsFollow`: a pin is of a
  version that was there. For the pane, `PaneInv`: a change that was heard is behind the
  daemon's number, or drawn, or about to be. At rest, then, what was posted since the pane
  drew only requests widgets (`GoesOn`), and the rest is about the folds alone. A wall is
  built of slots, one an event (`BuiltBy`, `PinnedBy`): requests leave the slots there were
  and add slots without a landed card. Arranging, landing and cutting are lists of
  what a test keeps (`Kept`), so what landed is the same list (`DrawsTheSame`), and the newest
  of it survives the cut.

**Only model-checked**: all liveness and everything with fairness, which the prover does not
cover (`ServeGetsThere`, `HoldIsSound` beyond `HoldTypes`, `EventuallyTold`,
`EveryAttachAnswered`). Every safety property of a part has its theorem.
`SessionTypesOK`, `DaemonTypesOK`, `MachineTypesOK` and `ViewTypesOK` are
conjunctions in the MC modules, of parts most of which are proved of their own (`QueueTypes`,
`SnapshotTypeCorrect`, `SeatsTypes`, `SeatsAreAlwaysKept`, `LinksTypes`, `LifecycleTypes`,
`FrontEndTypes`, `GlanceTypes`, `GovernorTypesAre`, `BeaconTypes`, `WallTypes`). That the queue is an outbox,
and why a hand-off may arrive twice, is claimed of `Bridge` alone: a hold put on an entry the
worker has claimed gives it moves the outbox lacks.

What a fold or a recursive function gives for every input is proved here without an
induction theorem, whose operator parameter the provers cannot instantiate: a counterexample
would have a least prefix (the naturals are well-founded), and the step from the prefix
before it contradicts it.

## 6. Not modelled, and why

`PROJECT.json` gives a reason for each component. Outside the reach of a model: wording and
rendering (`narrate`, `tools.go`, the read-only commands, `lb`), JSON-RPC framing (`mcp`), redaction
and the static checks of a widget's script (functions of text), flag parsing, the console
panel. Of modelled components: which words make a hand-off a finding or a directory's name,
the backoff of the socket, the own-echo filter, `leave`, TOML merging, prompts and reports.

## 7. Plan

1. `Seats` with `RoomReaders`: a seat's reaping while its reader's cursor is restored.
2. `leave` among the joins of `FrontEnd`.
3. A run of a wall with more widgets than its memo holds, and the memo's order of forgetting.
4. `Session` with two events in its queue of one and a third room.
