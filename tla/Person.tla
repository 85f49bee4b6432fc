------------------------------- MODULE Person -------------------------------
(***************************************************************************)
(* What a person does in a room from a terminal, as themselves: a vote, a  *)
(* line claimed or released (`vote`, `lines`), an approval (`remediation   *)
(* approve`).  The command picks a room of the folder, asks the daemon for *)
(* its session, reads the person's own sign-in, and sends one write by the *)
(* session that is theirs.  The rooms and the sign-in may change between   *)
(* any two of these.                                                       *)
(***************************************************************************)
EXTENDS Integers

CONSTANTS
  Room, Org, orgOf,   \* each room's organization
  Owner, Mate,        \* who may sign in on this machine, and who never does
  MaxCommands, MaxChanges

ASSUME PersonAssumption ==
  /\ orgOf \in [Room -> Org] /\ "none" \notin Org \cup Room /\ Mate \notin Owner
  /\ MaxCommands \in Nat /\ MaxChanges \in Nat

VARIABLES
  rooms,      \* the daemon's rooms: who their session stands for, and what it knows
  newest,     \* the room with the newest activity
  login,      \* credentials.json
  cmd,        \* the command under way, or the last one
  commands, changes

personVars == <<rooms, newest, login, cmd, commands, changes>>

People == Owner \cup {Mate}
Guest == "guest"
NoLogin == [who |-> Mate, org |-> "none", live |-> FALSE]
NoOne == "no one"
NoCmd == [at |-> "idle", kind |-> "none", room |-> "none", subject |-> NoOne,
          token |-> NoLogin, by |-> NoOne, seen |-> {}, held |-> FALSE]

InitPerson ==
  /\ rooms \in [Room -> [open : {TRUE}, mine : BOOLEAN, agent : {FALSE}, over : {FALSE},
                         subject : People \cup {Guest}]]
  /\ newest \in Room
  /\ login = NoLogin /\ cmd = NoCmd
  /\ commands = 0 /\ changes = 0

-----------------------------------------------------------------------------
Mine == {r \in Room : rooms[r].open /\ rooms[r].mine}

(* currentRooms: the room of this folder's agent, an open one, the newest. *)
FirstOf(S) == IF newest \in S THEN newest ELSE CHOOSE r \in S : TRUE
currentRooms(S, over) ==
  LET agents == {r \in S : rooms[r].agent}
      rest == IF agents = {} THEN S ELSE agents
      going == rest \ over
  IN  FirstOf(IF going = {} THEN rest ELSE going)

(* The read commands ask the daemon's peek, which knows the status; the    *)
(* person's commands have the list of rooms only, which does not.          *)
pickRoom == currentRooms(Mine, {r \in Mine : rooms[r].over})

(* (Mutant: any room of the machine will do.) *)
AnyRoom == currentRooms({r \in Room : rooms[r].open}, {})
pickPersonRoom == currentRooms(Mine, {})

To(step) == cmd' = [cmd EXCEPT !.at = step]
Fails(words) == To(words)
Waits == cmd.at \notin {"idle", "sent", "refused", "no room", "sign in", "no answer"}

StartWrite(kind) ==
  /\ ~Waits /\ commands < MaxCommands /\ commands' = commands + 1
  /\ cmd' = [NoCmd EXCEPT !.at = IF kind = "approve" THEN "token" ELSE "pick",
                          !.kind = kind, !.seen = {login.who},
                          !.held = login.live]
  /\ UNCHANGED <<rooms, newest, login, changes>>

(* The folder's room, or any room of the machine that --room names; an     *)
(* approval names its incident, and the organization is the sign-in's.     *)
Pick(sel) ==
  /\ cmd.at = "pick"
  /\ IF sel \in Room THEN IF rooms[sel].open THEN cmd' = [cmd EXCEPT !.at = "session", !.room = sel]
                          ELSE Fails("no room")
     ELSE IF Mine = {} THEN Fails("no room")
     ELSE cmd' = [cmd EXCEPT !.at = "session", !.room = pickPersonRoom]
  /\ UNCHANGED <<rooms, newest, login, commands, changes>>

daemonRoomSession ==
  /\ cmd.at = "session"
  /\ IF rooms[cmd.room].open
     THEN cmd' = [cmd EXCEPT !.at = "token", !.subject = rooms[cmd.room].subject]
     ELSE Fails("no room")
  /\ UNCHANGED <<rooms, newest, login, commands, changes>>

(* A sign-in that has expired is renewed, or it gives no token. *)
OAuthToken ==
  /\ cmd.at = "token"
  /\ IF login.live THEN cmd' = [cmd EXCEPT !.at = "slug", !.token = login]
     ELSE IF cmd.kind = "approve" THEN Fails("sign in") ELSE To("room")
  /\ UNCHANGED <<rooms, newest, login, commands, changes>>

(* The organization is read apart from the token; none at all will do for  *)
(* a vote, and not for an approval.                                        *)
OAuthSlug ==
  /\ cmd.at = "slug"
  /\ \/ /\ cmd.kind = "approve"
        /\ IF login.org = "none" THEN Fails("sign in")
           ELSE \E r \in Room : cmd' = [cmd EXCEPT !.room = r,
                  !.at = IF orgOf[r] = login.org THEN "send" ELSE "refused"]
     \/ /\ cmd.kind = "vote"
        /\ To(IF login.org \in {"none", orgOf[cmd.room]} THEN "send" ELSE "room")
  /\ UNCHANGED <<rooms, newest, login, commands, changes>>

IsThePerson(s) == s # NoOne /\ s = login.who /\ login # NoLogin

(* No sign-in for this organization: the room's session, when it is a      *)
(* guest's or its subject is the person's, as the sign-in on file says.    *)
actAsPerson ==
  /\ cmd.at = "room"
  /\ IF cmd.subject = Guest \/ IsThePerson(cmd.subject)
     THEN cmd' = [cmd EXCEPT !.at = "send", !.by = cmd.subject]
     ELSE Fails("sign in")
  /\ UNCHANGED <<rooms, newest, login, commands, changes>>

(* The answer to a write may be lost. *)
Answers == {"sent", "no answer"}
Send(by) == \E end \in Answers : cmd' = [cmd EXCEPT !.at = end, !.by = by]

(* A vote, a line claimed or released: recorded as the subject of the      *)
(* session it is sent by, and a token is good in its own organization.     *)
PersonWrite ==
  /\ cmd.at = "send" /\ cmd.kind = "vote"
  /\ IF cmd.by # NoOne THEN Send(cmd.by)
     ELSE IF cmd.token.org = orgOf[cmd.room] THEN Send(cmd.token.who) ELSE Fails("refused")
  /\ UNCHANGED <<rooms, newest, login, commands, changes>>

(* An approval goes to the organization that was read, by the token that   *)
(* was read before it.                                                     *)
Approve ==
  /\ cmd.at = "send" /\ cmd.kind = "approve"
  /\ IF cmd.token.org = orgOf[cmd.room] THEN Send(cmd.token.who) ELSE Fails("refused")
  /\ UNCHANGED <<rooms, newest, login, commands, changes>>

-----------------------------------------------------------------------------
(* The rest of the machine. *)
Changes == changes < MaxChanges /\ changes' = changes + 1 /\ UNCHANGED commands

Held(l) == l.live /\ l.who = login.who /\ l.org = login.org
SignIn(l) ==
  /\ Changes
  /\ login' = l
  /\ cmd' = [cmd EXCEPT !.seen = IF Waits THEN @ \cup {l.who} ELSE @,
                        !.held = IF Waits THEN @ /\ Held(l) ELSE @]
  /\ UNCHANGED <<rooms, newest>>

(* Renewing a session that is on file takes no one new. *)
SignInExpires == login # NoLogin /\ login.live /\ SignIn([login EXCEPT !.live = FALSE])
SignOut == login # NoLogin /\ SignIn(NoLogin)

Rooms(r, v) ==
  /\ Changes
  /\ rooms' = [rooms EXCEPT ![r] = v]
  /\ UNCHANGED <<newest, login, cmd>>
ResolveRoom(r) == rooms[r].open /\ ~rooms[r].over /\ Rooms(r, [rooms[r] EXCEPT !.over = TRUE])
Attach(r) ==
  /\ rooms[r].open /\ ~rooms[r].agent
  /\ Changes
  /\ rooms' = [q \in Room |->
       [rooms[q] EXCEPT !.agent = q = r, !.mine = @ \/ q = r]]
  /\ UNCHANGED <<newest, login, cmd>>
Close(r) == rooms[r].open /\ Rooms(r, [rooms[r] EXCEPT !.open = FALSE, !.agent = FALSE])
Active(r) == newest # r /\ Changes /\ newest' = r /\ UNCHANGED <<rooms, login, cmd>>

NextPerson ==
  \/ \E kind \in {"vote", "approve"} : StartWrite(kind)
  \/ \E sel \in Room \cup {"none"} : Pick(sel)
  \/ daemonRoomSession \/ OAuthToken \/ OAuthSlug \/ actAsPerson
  \/ PersonWrite \/ Approve
  \/ \E l \in [who : Owner, org : Org, live : {TRUE}] : SignIn(l)
  \/ SignInExpires \/ SignOut
  \/ \E r \in Room : ResolveRoom(r) \/ Attach(r) \/ Close(r) \/ Active(r)

SpecPerson == InitPerson /\ [][NextPerson]_personVars

-----------------------------------------------------------------------------
PersonTypeOK ==
  /\ \A r \in Room : /\ {rooms[r].open, rooms[r].mine, rooms[r].agent, rooms[r].over} \subseteq BOOLEAN
                     /\ rooms[r].subject \in People \cup {Guest}
  /\ newest \in Room
  /\ login.who \in People /\ login.org \in Org \cup {"none"} /\ login.live \in BOOLEAN
  /\ cmd.subject \in People \cup {Guest, NoOne} /\ cmd.by \in People \cup {Guest, NoOne}
  /\ cmd.seen \subseteq People /\ cmd.held \in BOOLEAN
  /\ commands \in 0..MaxCommands /\ changes \in 0..MaxChanges

(* A write is recorded as someone who was signed in here while the command *)
(* ran, or as the guest this machine joined as: never as the teammate      *)
(* whose link the room was joined by, however the sign-in changes between  *)
(* reading the token, its organization and its subject.                    *)
ActsAsThePerson ==
  cmd.at \in {"sent", "no answer"} =>
    cmd.by \in (cmd.seen \ {Mate}) \cup (IF cmd.subject = Guest THEN {Guest} ELSE {})

(* A person signed in to the room's organization for as long as the        *)
(* command runs is never told to sign in, nor refused.                     *)
SignedInActs ==
  cmd.held /\ cmd.at \in {"sign in", "refused"} => cmd.token.org # orgOf[cmd.room]

(* A vote goes to the room that the wall shows, when the folder's agent is *)
(* in a room or no incident of it is over.                                 *)
SameRoomAsShown ==
  /\ Mine # {}
  /\ (\E r \in Mine : rooms[r].agent) \/ (\A r \in Mine : ~rooms[r].over)
  => pickPersonRoom = pickRoom

PersonActs == ActsAsThePerson /\ SignedInActs /\ SameRoomAsShown

(* A vote goes to the room that the wall shows. *)
AlwaysAsShown == Mine # {} => pickPersonRoom = pickRoom
=============================================================================
