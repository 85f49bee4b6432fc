-------------------------------- MODULE Wall --------------------------------
(***************************************************************************)
(* The widget wall of a room: the timeline's widget events, what the       *)
(* daemon remembers of them (the newest widget, and the number of the last *)
(* event that changed the wall), and a pane that reads the wall again when *)
(* that number moves.                                                      *)
(*                                                                         *)
(* The daemon hears the events posted after it subscribed, in order, but   *)
(* for those the socket loses; a read of the whole timeline, under way     *)
(* meanwhile, tells it which widgets were there before it.                 *)
(***************************************************************************)
EXTENDS Filter, FiniteSetsExt

CONSTANTS
  Widget,     \* the widgets that Beacon builds
  Sharer,     \* the people who share widgets of their own
  Shown,      \* the cards a pane has room for (wallWidgetsMax)
  MemoMax,    \* the widgets the daemon remembers (widgetMemoMax)
  MaxPosts,   \* the events of the room
  MaxTroubles \* events and reads lost, and restarts, together

ASSUME WallAssumption ==
  /\ Widget \cap {"edge", "none"} = {}
  /\ Shown \in Nat \ {0} /\ MemoMax \in Nat \ {0}
  /\ {MaxPosts, MaxTroubles} \subseteq Nat

VARIABLES
  wallTimeline,   \* the events of the room; an event's seq is its place
  wallHeard,      \* how far the socket has delivered
  wall,           \* the daemon's wallState
  seed,           \* its read of the wall as it stood before it came
  pane,           \* the widgetSeq the pane last saw, and the timeline it drew
  wallLosses, restarts,
  wallMissed      \* history: the events the daemon never heard

wallVars == <<wallTimeline, wallHeard, wall, seed, pane, wallLosses, restarts, wallMissed>>

-----------------------------------------------------------------------------
(* The timeline, folded: what `landfall wall` answers. *)
Built == {"requested", "executed", "failed"}
WallEvent ==
  [kind : Built, id : Widget]
    \cup [kind : {"edge"}, who : Sharer, title : {"t"}, data : BOOLEAN]
    \cup [kind : {"pinned", "unpinned"}, src : 1..MaxPosts]
    \cup [kind : {"saved"}, order : Widget]

Where(tl, K) == {i \in DOMAIN tl : tl[i].kind \in K}
OfWidget(tl, K, w) == {i \in Where(tl, K) : tl[i].id = w}
Earliest(S) == IF S = {} THEN 0 ELSE Min(S)
Latest(S) == IF S = {} THEN 0 ELSE Max(S)

LandedSeq(tl, w) == Earliest(OfWidget(tl, {"executed"}, w))
Failed(tl, w) ==
  Latest(OfWidget(tl, {"failed"}, w)) > Latest(OfWidget(tl, {"executed"}, w))

Card(w, n, landed) == [widget |-> w, edge |-> n, landed |-> landed]
NoCard == Card("none", 0, 0)
Cards(slots) == Kept(slots, Range(slots) \ {NoCard})

(* projectWall, but for the failed ones: in build order, each at the event *)
(* that built it.                                                          *)
BuiltBy(tl, i) ==
  IF /\ i \in Where(tl, Built) /\ i = Earliest(OfWidget(tl, Built, tl[i].id))
     /\ ~Failed(tl, tl[i].id)
  THEN Card(tl[i].id, 0, LandedSeq(tl, tl[i].id)) ELSE NoCard
projectWall(tl) == Cards([i \in DOMAIN tl |-> BuiltBy(tl, i)])

(* The same person and title supersede: the card is the latest version. *)
Versions(tl, n) ==
  {i \in Where(tl, {"edge"}) : tl[i].who = tl[n].who /\ tl[i].title = tl[n].title}
EdgeCards(tl) == {n \in Where(tl, {"edge"}) : n = Max(Versions(tl, n)) /\ tl[n].data}

(* A version is pinned when its last pin or unpin is a pin; the card of it *)
(* stands at the earliest pin of a version, and landed at the latest.      *)
PinOf(tl, n) ==
  LET At(K) == {i \in Where(tl, K) : tl[i].src = n}
  IN  IF Latest(At({"pinned"})) > Latest(At({"unpinned"})) THEN Latest(At({"pinned"})) ELSE 0
PinsOf(tl, n) == {PinOf(tl, i) : i \in Versions(tl, n)} \ {0}

PinnedBy(tl, i) ==
  LET n == Max(Versions(tl, tl[i].src))
  IN  IF i \in Where(tl, {"pinned"}) /\ n \in EdgeCards(tl) /\ i = Earliest(PinsOf(tl, n))
      THEN Card("edge", n, Max(PinsOf(tl, n))) ELSE NoCard
pinnedWall(tl) == Cards([i \in DOMAIN tl |-> PinnedBy(tl, i)])

(* The latest arrangement that was shared puts its widget first. *)
layoutOrder(tl) == LET n == Latest(Where(tl, {"saved"})) IN IF n = 0 THEN {} ELSE {tl[n].order}
arrange(cards, order) ==
  LET first == {c \in Range(cards) : c.widget \in order}
  IN  Kept(cards, first) \o Kept(cards, Range(cards) \ first)

keepNewest(cards) ==
  IF Len(cards) <= Shown THEN cards
  ELSE LET landed == {i \in DOMAIN cards : cards[i].landed > 0}
           newer == {i \in landed : \A k \in landed : cards[k].landed <= cards[i].landed}
       IN  [i \in 1..Shown |->
              IF i = Shown /\ newer # {} /\ Min(newer) > Shown THEN cards[Min(newer)]
              ELSE cards[i]]

AllCards(tl) == arrange(projectWall(tl) \o pinnedWall(tl), layoutOrder(tl))
RunWall(tl) == keepNewest(AllCards(tl))
Dashboard(tl, p) == {n \in EdgeCards(tl) : tl[n].who = p}

-----------------------------------------------------------------------------
NoMemo == [order |-> <<>>, titled |-> {}, landed |-> {}]
NoWidget == [seq |-> 0, titled |-> TRUE, early |-> FALSE]
NoWall == [seq |-> 0, newest |-> NoWidget, byID |-> NoMemo, bySeq |-> <<>>, forgot |-> FALSE,
           seeded |-> FALSE]

InitWall ==
  /\ wallTimeline \in UNION {[1..n -> [kind : Built, id : Widget]] : n \in 0..2}
  /\ wallHeard = Len(wallTimeline)
  /\ wall = NoWall /\ seed = "read"
  /\ pane = [seen |-> 0, asking |-> TRUE, drawn |-> 0]
  /\ wallLosses = 0 /\ restarts = 0 /\ wallMissed = {}

(* widgetMemo.put: past MemoMax, the oldest widget is forgotten. *)
Forgets(memo, w) == Len(memo.order) = MemoMax /\ w \notin Range(memo.order)
putID(memo, w) ==
  IF w \in Range(memo.order) THEN memo
  ELSE IF ~Forgets(memo, w) THEN [memo EXCEPT !.order = Append(@, w)]
  ELSE [order |-> Append(Tail(memo.order), w), titled |-> memo.titled \ {Head(memo.order)},
        landed |-> memo.landed \ {Head(memo.order)}]
(* (Mutant: no edge is forgotten.) *)
KeepsAll(memo, n) == IF n \in Range(memo) THEN memo ELSE Append(memo, n)
putSeq(memo, n) ==
  IF n \in Range(memo) THEN memo
  ELSE Append(IF Len(memo) = MemoMax THEN Tail(memo) ELSE memo, n)

Noted(memo, e) ==
  [putID(memo, e.id) EXCEPT !.titled = @ \cup IF e.kind = "requested" THEN {e.id} ELSE {},
                            !.landed = @ \cup IF e.kind = "executed" THEN {e.id} ELSE {}]

(* The newest widget is the newest by seq. *)
landWidget(w, n, titled) ==
  IF w.newest.seq >= n THEN w.newest
  ELSE [seq |-> n, titled |-> titled, early |-> ~w.seeded]

IsWidgetShaping(e) == e.kind # "requested"

(* noteWallLocked: the event whose seq is n. *)
noteWall(w, n) ==
  LET e == wallTimeline[n]
      id == IF e.kind \in Built THEN Noted(w.byID, e) ELSE w.byID
  IN  [seq |-> IF IsWidgetShaping(e) /\ n > w.seq THEN n ELSE w.seq,
       byID |-> id,
       bySeq |-> IF e.kind = "edge" THEN putSeq(w.bySeq, n) ELSE w.bySeq,
       newest |->
         CASE e.kind = "executed" /\ e.id \notin w.byID.landed ->
                landWidget(w, n, e.id \in id.titled)
           [] e.kind = "edge" -> landWidget(w, n, TRUE)
           [] e.kind = "pinned" -> landWidget(w, n, e.src \in Range(w.bySeq))
           [] OTHER -> w.newest,
       forgot |-> w.forgot \/ (e.kind \in Built /\ Forgets(w.byID, e.id)),
       seeded |-> w.seeded]

(* (Mutant: the widgets that stood there are remembered, not as landed.) *)
TitlesOnly(w, n) ==
  LET e == wallTimeline[n]
  IN  IF e.kind # "requested" THEN w ELSE [w EXCEPT !.byID = Noted(@, e)]
(* seedWallLocked: only the memory, not what is newest. *)
seedWall(w, n) ==
  LET e == wallTimeline[n]
  IN  CASE e.kind \in Built ->
             [w EXCEPT !.byID = Noted(@, e), !.forgot = @ \/ Forgets(w.byID, e.id)]
        [] e.kind = "edge" -> [w EXCEPT !.bySeq = putSeq(@, n)]
        [] OTHER -> w

(* What is left of w when the events after the first ones have been folded  *)
(* in one turn of the room: noted, as a restarted daemon does with those    *)
(* that came after a cursor, or remembered, as the seed is.                 *)
InOneTurn(w, first, how) ==
  LET f[n \in 0..Len(wallTimeline)] ==
        IF n <= first THEN w
        ELSE IF how = "note" THEN noteWall(f[n - 1], n) ELSE seedWall(f[n - 1], n)
  IN  f

Trouble == wallLosses + restarts < MaxTroubles

(* enqueue, or the socket loses the event. *)
HearWall ==
  /\ wallHeard < Len(wallTimeline) /\ wallHeard' = wallHeard + 1
  /\ wall' = noteWall(wall, wallHeard + 1)
  /\ UNCHANGED <<wallTimeline, seed, pane, wallLosses, restarts, wallMissed>>

LoseWall ==
  /\ wallHeard < Len(wallTimeline) /\ wallHeard' = wallHeard + 1
  /\ Trouble /\ wallLosses' = wallLosses + 1
  /\ wallMissed' = wallMissed \cup {wallHeard + 1}
  /\ UNCHANGED <<wallTimeline, wall, seed, pane, restarts>>

(* seedWallAsync: the timeline as it is when its answer comes; or the read *)
(* fails, and is not tried again.                                          *)
SeedLands ==
  /\ seed = "read"
  /\ \/ /\ seed' = "done"
        /\ wall' = [InOneTurn(wall, 0, "seed")[Len(wallTimeline)] EXCEPT !.seeded = TRUE]
        /\ UNCHANGED wallLosses
     \/ /\ Trouble /\ wallLosses' = wallLosses + 1
        /\ seed' = "failed" /\ UNCHANGED wall
  /\ UNCHANGED <<wallTimeline, wallHeard, pane, restarts, wallMissed>>

(* The daemon starts again: it remembers nothing, notes what came after    *)
(* the cursor of a reader (or fails to read it), and reads the wall.       *)
RestartWall ==
  /\ Trouble /\ restarts' = restarts + 1
  /\ wallHeard' = Len(wallTimeline) /\ seed' = "read"
  /\ \/ /\ \E after \in 0..wallHeard :
             wall' = InOneTurn(NoWall, after, "note")[Len(wallTimeline)]
        /\ UNCHANGED wallMissed
     \/ wall' = NoWall /\ wallMissed' = wallMissed \cup (wallHeard + 1)..Len(wallTimeline)
  /\ UNCHANGED <<wallTimeline, pane, wallLosses>>

(* The room. *)
PostWall(e) ==
  /\ Len(wallTimeline) < MaxPosts
  /\ e.kind \in {"pinned", "unpinned"} => e.src \in Where(wallTimeline, {"edge"})
  /\ wallTimeline' = Append(wallTimeline, e)
  /\ UNCHANGED <<wallHeard, wall, seed, pane, wallLosses, restarts, wallMissed>>

(* A pane reads the wall when it opens and when widgetSeq has moved. *)
AskPane ==
  /\ ~pane.asking /\ pane.seen # wall.seq
  /\ pane' = [pane EXCEPT !.seen = wall.seq, !.asking = TRUE]
  /\ UNCHANGED <<wallTimeline, wallHeard, wall, seed, wallLosses, restarts, wallMissed>>

DrawPane ==
  /\ pane.asking
  /\ pane' = [pane EXCEPT !.asking = FALSE, !.drawn = Len(wallTimeline)]
  /\ UNCHANGED <<wallTimeline, wallHeard, wall, seed, wallLosses, restarts, wallMissed>>

NextWall ==
  \/ HearWall \/ LoseWall \/ SeedLands \/ RestartWall \/ AskPane \/ DrawPane
  \/ \E e \in WallEvent : PostWall(e)

SpecWall == InitWall /\ [][NextWall]_wallVars

-----------------------------------------------------------------------------
WallTypeOK ==
  /\ wallTimeline \in Seq(WallEvent) /\ wallHeard \in 0..Len(wallTimeline)
  /\ {wall.seq, wall.newest.seq} \subseteq 0..wallHeard
  /\ {wall.newest.titled, wall.newest.early, wall.forgot, wall.seeded} \subseteq BOOLEAN
  /\ Len(wall.byID.order) <= MemoMax /\ Len(wall.bySeq) <= MemoMax
  /\ wall.byID.titled \cup wall.byID.landed \subseteq Range(wall.byID.order)
  /\ Range(wall.bySeq) \subseteq Where(wallTimeline, {"edge"})
  /\ seed \in {"read", "done", "failed"}
  /\ pane.seen \in 0..Len(wallTimeline) /\ pane.asking \in BOOLEAN
  /\ pane.drawn \in 0..Len(wallTimeline)
  /\ {wallLosses, restarts} \subseteq 0..MaxTroubles /\ wallLosses + restarts <= MaxTroubles
  /\ wallMissed \subseteq 1..wallHeard

(* The widget the daemon names as the newest is one that came with that    *)
(* event (a widget executed again is no news), and it goes by its title    *)
(* when the timeline has it: whatever stood on the wall before the daemon, *)
(* and whenever its read of it ended; but for what it heard before that    *)
(* read landed and what it no longer remembers.                            *)
NewestIsNew ==
  wall.newest.seq > 0 /\ ~wall.newest.early /\ ~wall.forgot /\ wallMissed = {} =>
    LET e == wallTimeline[wall.newest.seq]
    IN  e.kind = "executed" =>
          /\ LandedSeq(wallTimeline, e.id) = wall.newest.seq
          /\ wall.newest.titled =
               \E i \in OfWidget(wallTimeline, {"requested"}, e.id) : i < wall.newest.seq

(* A pane that has answered the daemon's last number shows the wall as it  *)
(* is: the cards that have landed, the pins, the arrangement and each      *)
(* person's dashboard; and what landed last is among the cards there is    *)
(* room for.  Nothing else makes it look again, so a number that did not   *)
(* move for a change would leave the pane wrong until the next one.  Only  *)
(* a pane that had seen no number yet can miss a change heard just before  *)
(* a restart, after which the number is none again.                        *)
AtRest ==
  /\ ~pane.asking /\ pane.seen = wall.seq /\ wallHeard = Len(wallTimeline) /\ wallMissed = {}
  /\ restarts > 0 => pane.seen > 0
Drawn == SubSeq(wallTimeline, 1, pane.drawn)
Landed(cards) == Kept(cards, {c \in Range(cards) : c.landed > 0})
PaneIsFresh ==
  AtRest =>
    LET all == AllCards(wallTimeline)
    IN  /\ Len(all) <= Shown => Landed(RunWall(Drawn)) = Landed(all)
        /\ \A p \in Sharer : Dashboard(Drawn, p) = Dashboard(wallTimeline, p)
        /\ \A c \in Range(all) :
             (c.landed > 0 /\ \A o \in Range(all) : o.landed <= c.landed)
               => c \in Range(RunWall(Drawn))

WallIsRight == NewestIsNew /\ PaneIsFresh

(* A widget executed again before the read landed is no news either. *)
NeverReissued ==
  wall.newest.seq > 0 /\ ~wall.forgot /\ wallMissed = {}
    /\ wallTimeline[wall.newest.seq].kind = "executed" =>
    LandedSeq(wallTimeline, wallTimeline[wall.newest.seq].id) = wall.newest.seq

(* A pane that has answered the last number shows the pending cards too. *)
PendingIsShown == AtRest => RunWall(Drawn) = RunWall(wallTimeline)
=============================================================================
