-------------------------------- MODULE Auth --------------------------------
(***************************************************************************)
(* The signed-in session of one machine: credentials.json, which every     *)
(* command, hook and serve of it reads, refreshes and writes with no lock. *)
(*                                                                         *)
(* A sign-in gives a chain of refresh tokens; each is good for one refresh *)
(* and the server's answer carries the next.  The file is truncated, then  *)
(* written; a reader in between finds a text that does not parse, which is *)
(* the same to it as no file.                                              *)
(*                                                                         *)
(* Bounds: MaxStarts, the commands; MaxLogins, the sign-ins, the first     *)
(* included; MaxLapses, access tokens that run out; MaxMishaps, replies    *)
(* and processes that are lost.                                            *)
(***************************************************************************)
EXTENDS Integers, Sequences

CONSTANTS Proc, MaxStarts, MaxLogins, MaxLapses, MaxMishaps

ASSUME AuthAssumption ==
  MaxStarts \in Nat /\ MaxLogins \in Nat \ {0} /\ MaxLapses \in Nat /\ MaxMishaps \in Nat

VARIABLES
  credentials, \* credentials.json
  base,      \* LANDFALL_BASE_URL, "none" when it is not set
  nominated, \* the saved nomination, "none" when there is none
  chains,   \* the server: the one live refresh token of each sign-in, 0 when revoked
  proc,     \* each process: where its command is, and the session it holds
  starts, lapses, mishaps,
  slip,     \* history: a reply or a process was lost, two writes or a logout overlapped
  out,      \* history: signed out and not in again, with a refresh on its way or none
  misled,   \* history: told to sign in although a session is alive
  astray    \* history: a token went to a Landfall that did not mint it

authVars == <<credentials, base, nominated, chains, proc, starts, lapses, mishaps, slip, out,
              misled, astray>>

Landfalls == {"hosted", "own"}
Chain == 1..MaxLogins
(* Token 0: a server too old to mint one; such a session is not renewed. *)
Session == [api : Landfalls, chain : Chain, token : Nat, fresh : BOOLEAN]
NoSession == [api |-> "hosted", chain |-> 0, token |-> 0, fresh |-> FALSE]

NoFile == NoSession
Torn == [NoSession EXCEPT !.api = "torn"]
ReadCache == IF credentials = Torn THEN NoSession ELSE credentials
Alive(s) == s.token # 0 /\ chains[s.chain] = s.token

(* A refresh is under way from its request on, a write until its bytes are in. *)
Busy(p) == proc[p].at \in {"asked", "save", "write", "revoke", "remove", "poll"}
Quiet == \A p \in Proc : ~Busy(p)

Idle == [kind |-> "none", at |-> "idle", held |-> NoSession, open |-> FALSE]

InitAuth ==
  /\ chains = <<1>>
  /\ credentials \in
       {NoFile} \cup [api : Landfalls, chain : {1}, token : {0, 1}, fresh : BOOLEAN]
  /\ base \in {"none"} \cup Landfalls /\ nominated \in {"none", "own"}
  /\ proc = [p \in Proc |-> Idle]
  /\ starts = 0 /\ lapses = 0 /\ mishaps = 0
  /\ slip = FALSE /\ out = "no" /\ misled = FALSE /\ astray = FALSE

-----------------------------------------------------------------------------
Ghosts == <<slip, out, misled, astray>>
Fixed == <<base, nominated>>

AtStep(p, step, s) == proc' = [proc EXCEPT ![p] = [@ EXCEPT !.at = step, !.held = s]]
Ends(p) == proc' = [proc EXCEPT ![p] = Idle]

(* The command says to run `landfall login`. *)
TellsToSignIn(p) ==
  /\ Ends(p)
  /\ misled' = (misled \/ Alive(ReadCache) \/
       \E q \in Proc \ {p} : /\ proc[q].kind # "login" /\ proc[q].at \in {"save", "write"}
                            /\ Alive(proc[q].held))
  /\ UNCHANGED <<credentials, chains, slip, out, astray>>

(* `join`, `serve` and `note` resolve a config; `act` stands for the       *)
(* commands of a person (declare, remediation, connect aws), which do not  *)
(* ask which Landfall the session is for.                                  *)
StartCommand(p, kind) ==
  /\ proc[p].at = "idle" /\ starts < MaxStarts
  /\ kind = "login" => Len(chains) < MaxLogins
  /\ starts' = starts + 1
  /\ proc' = [proc EXCEPT ![p] =
       [Idle EXCEPT !.kind = kind, !.at = IF kind = "login" THEN "poll" ELSE "read"]]
  /\ out' = IF kind = "login" THEN "no" ELSE out
  /\ UNCHANGED <<credentials, Fixed, chains, lapses, mishaps, slip, misled, astray>>

(* An hour passes: the access token is within the skew of its end. *)
Expire ==
  /\ lapses < MaxLapses /\ ReadCache # NoSession /\ credentials.fresh
  /\ credentials' = [credentials EXCEPT !.fresh = FALSE]
  /\ lapses' = lapses + 1
  /\ UNCHANGED <<Fixed, chains, proc, starts, mishaps, Ghosts>>

Uses(p) == IF proc[p].kind = "join" THEN "check" ELSE "slug"

GetCachedAccessToken(p) ==
  /\ proc[p].at = "read" /\ proc[p].kind \in {"join", "act"}
  /\ IF ReadCache = NoSession THEN TellsToSignIn(p)
     ELSE /\ AtStep(p, IF credentials.fresh THEN Uses(p) ELSE "refresh", credentials)
          /\ UNCHANGED <<credentials, chains, Ghosts>>
  /\ UNCHANGED <<Fixed, starts, lapses, mishaps>>

ToRefresh(p) == ReadCache

(* RefreshAccessToken reads the file again, and asks the Landfall that     *)
(* minted the session.                                                     *)
RefreshAccessToken(p) ==
  /\ proc[p].at = "refresh"
  /\ IF ToRefresh(p).token = 0 THEN TellsToSignIn(p)
     ELSE AtStep(p, "asked", ToRefresh(p)) /\ UNCHANGED <<credentials, chains, Ghosts>>
  /\ UNCHANGED <<Fixed, starts, lapses, mishaps>>

(* (Mutant: the token that was spent is saved again.) *)
KeepsToken(s) == [s EXCEPT !.fresh = TRUE]
Rotated(s) == [s EXCEPT !.token = @ + 1, !.fresh = TRUE]

(* The server takes the live token of a chain, once.  Its reply may be     *)
(* lost (the call has five seconds), and so may the request.               *)
Refreshed(p) ==
  LET s == proc[p].held
  IN  /\ proc[p].at = "asked"
      /\ \/ /\ Alive(s)
            /\ chains' = [chains EXCEPT ![s.chain] = @ + 1]
            /\ AtStep(p, "save", Rotated(s))
            /\ UNCHANGED <<credentials, mishaps, Ghosts>>
         \/ ~Alive(s) /\ TellsToSignIn(p) /\ UNCHANGED mishaps
         \/ /\ mishaps < MaxMishaps /\ mishaps' = mishaps + 1
            /\ chains' \in {chains} \cup
                 IF Alive(s) THEN {[chains EXCEPT ![s.chain] = @ + 1]} ELSE {}
            /\ slip' = TRUE
            /\ Ends(p)
            /\ UNCHANGED <<credentials, out, misled, astray>>
      /\ UNCHANGED <<Fixed, starts, lapses>>

(* The browser finished: the grant under the nonce is redeemed, once.  If  *)
(* that reply is lost, every later poll says `not yet` until the deadline. *)
PollForHandoff(p) ==
  /\ proc[p].at = "poll"
  /\ \/ \E api \in Landfalls :
          /\ Len(chains) < MaxLogins
          /\ chains' = Append(chains, 1)
          /\ AtStep(p, "save", [api |-> api, chain |-> Len(chains) + 1, token |-> 1,
                            fresh |-> TRUE])
          /\ UNCHANGED mishaps
     \/ Ends(p) /\ UNCHANGED <<chains, mishaps>>
     \/ /\ mishaps < MaxMishaps /\ mishaps' = mishaps + 1
        /\ Len(chains) < MaxLogins /\ chains' = Append(chains, 1)
        /\ Ends(p)
  /\ UNCHANGED <<credentials, Fixed, starts, lapses, Ghosts>>

(* SaveSession: the file is opened and truncated, then written.  A file    *)
(* removed in between takes the bytes with it; a file another process      *)
(* wrote in between is written over from its first byte, and keeps what is *)
(* longer of it.                                                           *)
Open(p) ==
  /\ proc[p].at = "save"
  /\ credentials' = Torn
  /\ proc' = [proc EXCEPT ![p].at = "write", ![p].open = TRUE]
  /\ UNCHANGED <<Fixed, chains, starts, lapses, mishaps, Ghosts>>

SaveSession(p) ==
  /\ proc[p].at = "write"
  /\ \/ credentials' = IF proc[p].open THEN proc[p].held ELSE credentials
     \/ proc[p].open /\ credentials # Torn /\ credentials' = Torn
  /\ slip' = (slip \/ credentials' = Torn)
  /\ proc' = [proc EXCEPT ![p] = IF @.kind = "login" THEN Idle
                                 ELSE [@ EXCEPT !.at = Uses(p), !.open = FALSE]]
  /\ UNCHANGED <<Fixed, chains, starts, lapses, mishaps, out, misled, astray>>

-----------------------------------------------------------------------------
(* Which Landfall a command is pointed at, and which one it then calls. *)
Resolve ==
  IF base # "none" THEN base ELSE IF nominated # "none" THEN nominated ELSE "hosted"
Target == IF base # "none" THEN base ELSE "hosted"

(* resolveConfig: the session on file, as it is now, is for this Landfall; *)
(* with no session on file there is nothing to object to.                  *)
ResolveConfig(p) ==
  /\ proc[p].at = "check"
  /\ astray' = (astray \/ ((ReadCache = NoSession \/ ReadCache.api = Resolve)
                           /\ proc[p].held.api # Target))
  /\ Ends(p)
  /\ UNCHANGED <<credentials, Fixed, chains, starts, lapses, mishaps, slip, out, misled>>

(* A person's command: the organization is read from the file as it is now. *)
ResolveTarget(p) ==
  /\ proc[p].at = "slug"
  /\ astray' = (astray \/ (ReadCache # NoSession /\ proc[p].held.api # Target))
  /\ Ends(p)
  /\ UNCHANGED <<credentials, Fixed, chains, starts, lapses, mishaps, slip, out, misled>>

(* Logout: the refresh token it read is revoked at the server, best effort *)
(* (it may have been rotated since), and the file is removed.              *)
Logout(p) ==
  /\ proc[p].kind = "logout"
  /\ \/ /\ proc[p].at = "read"
        /\ AtStep(p, IF ReadCache = NoSession THEN "remove" ELSE "revoke", ReadCache)
        /\ UNCHANGED <<credentials, chains, slip, out>>
     \/ /\ proc[p].at = "revoke"
        /\ chains' \in {chains, [chains EXCEPT ![proc[p].held.chain] = 0]}
        /\ AtStep(p, "remove", NoSession)
        /\ slip' = TRUE
        /\ UNCHANGED <<credentials, out>>
     \/ /\ proc[p].at = "remove"
        /\ credentials' = NoFile
        /\ out' = IF \E q \in Proc \ {p} : Busy(q) /\ proc[q].kind = "login" THEN "no"
                  ELSE IF \E q \in Proc \ {p} : Busy(q) THEN "overlapped"
                  ELSE "alone"
        /\ proc' = [q \in Proc |-> IF q = p THEN Idle ELSE [proc[q] EXCEPT !.open = FALSE]]
        /\ UNCHANGED <<chains, slip>>
  /\ UNCHANGED <<Fixed, starts, lapses, mishaps, misled, astray>>

Killed(p) ==
  /\ proc[p].at # "idle" /\ mishaps < MaxMishaps
  /\ mishaps' = mishaps + 1
  /\ slip' = (slip \/ Busy(p))
  /\ Ends(p)
  /\ UNCHANGED <<credentials, Fixed, chains, starts, lapses, out, misled, astray>>

NextAuth ==
  \/ \E p \in Proc :
       \/ \E kind \in {"join", "act", "login", "logout"} : StartCommand(p, kind)
       \/ GetCachedAccessToken(p) \/ RefreshAccessToken(p) \/ Refreshed(p)
       \/ PollForHandoff(p) \/ Open(p) \/ SaveSession(p)
       \/ ResolveConfig(p) \/ ResolveTarget(p) \/ Logout(p) \/ Killed(p)
  \/ Expire

SpecAuth == InitAuth /\ [][NextAuth]_authVars

-----------------------------------------------------------------------------
AuthTypeOK ==
  /\ credentials \in Session \cup {NoFile, Torn}
  /\ base \in {"none"} \cup Landfalls /\ nominated \in {"none", "own"}
  /\ chains \in Seq(Nat)
  /\ \A p \in Proc :
       /\ proc[p].kind \in {"none", "join", "act", "login", "logout"}
       /\ proc[p].at \in {"idle", "read", "refresh", "asked", "save", "write", "check",
                          "slug", "poll", "revoke", "remove"}
       /\ proc[p].held \in Session \cup {NoSession} /\ proc[p].open \in BOOLEAN
  /\ starts \in 0..MaxStarts /\ lapses \in 0..MaxLapses /\ mishaps \in 0..MaxMishaps
  /\ {slip, misled, astray} \subseteq BOOLEAN /\ out \in {"no", "alone", "overlapped"}

(* However many processes refresh and sign in at once: when all of them    *)
(* are done, the file holds a session the server still renews, or none,    *)
(* unless a reply or a process was lost, two writes mixed, or a sign-out   *)
(* was among them.                                                         *)
SessionSurvives ==
  Quiet /\ ~slip => credentials # Torn /\ (credentials.token # 0 => Alive(credentials))

(* Once signed out, with no refresh past its request, the machine stays    *)
(* signed out: a command that had already read the old session does not    *)
(* bring it back.                                                          *)
SignedOutStays == out = "alone" => credentials = NoFile

SignInKeeps == SessionSurvives /\ SignedOutStays

(* A sign-out leaves no credential on disk until the next sign-in. *)
LogoutHolds == out # "no" => credentials = NoFile

(* A command tells the person to sign in only when no session is alive. *)
NeverMisled == ~misled

(* A token is only ever sent to the Landfall that minted it. *)
TokenGoesHome == ~astray
=============================================================================
