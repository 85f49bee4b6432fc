-------------------------------- MODULE Links --------------------------------
(***************************************************************************)
(* One share link and the front ends of one machine that are handed it     *)
(* (internal/daemon/links.go, frontEnd.redeemLink, client/link.go).  The   *)
(* server takes the link once.  The daemon's book says who is redeeming it *)
(* and what the redeem gave; a room opened by the link remembers it too,   *)
(* over a restart, which the book does not survive.                        *)
(*                                                                         *)
(* A claim holds for 30 s, a redeem may take 60 s (client.RequestTimeout): *)
(* a claim runs out at any moment.  Bounds: MaxClaims; MaxTroubles, the      *)
(* answers and reports that are lost, the deaths and the restarts.         *)
(***************************************************************************)
EXTENDS Integers, FiniteSets

CONSTANTS Front, MaxClaims, MaxTroubles

ASSUME LinksAssumption == MaxClaims \in Nat /\ MaxTroubles \in Nat

VARIABLES
  known,    \* the book has the session the redeem gave
  claim,    \* the claim that is taken, 0 for none
  linkRoom, \* a room of the daemon was opened by this link
  at,       \* front end -> where it is
  mine,     \* front end -> the claim it holds, or waits for
  claims,   \* claims given so far
  spent,    \* the server has taken the link
  troubles,
  expired,  \* claims that have run out
  robbed,   \* history: live claims another front end let go
  astray    \* history: a session got lost on its way to the book

lvars == <<known, claim, linkRoom, at, mine, claims, spent, troubles, expired, robbed, astray>>

InitLinks ==
  /\ known = FALSE /\ claim = 0 /\ linkRoom = FALSE
  /\ at = [f \in Front |-> "away"] /\ mine = [f \in Front |-> 0]
  /\ claims = 0 /\ spent = FALSE /\ troubles = 0
  /\ expired = {} /\ robbed = {} /\ astray = FALSE

Moves(f, where) == at' = [at EXCEPT ![f] = where]

(* lookupOrClaimLink: a session this machine already has; or the claim, if *)
(* nobody has one or it has run out; or a wait for whoever has it.         *)
Free == claim = 0 \/ claim \in expired

Lookup(f) ==
  /\ \/ /\ linkRoom \/ known
        /\ Moves(f, "have") /\ UNCHANGED <<claim, mine, claims>>
     \/ /\ ~linkRoom /\ ~known /\ Free
        /\ claims < MaxClaims
        /\ claims' = claims + 1 /\ claim' = claims + 1
        /\ mine' = [mine EXCEPT ![f] = claims + 1]
        /\ Moves(f, "redeeming")
     \/ /\ ~linkRoom /\ ~known /\ ~Free
        /\ mine' = [mine EXCEPT ![f] = claim]
        /\ Moves(f, "waiting") /\ UNCHANGED <<claim, claims>>
  /\ UNCHANGED <<known, linkRoom, spent, troubles, expired, robbed, astray>>

Ask(f) == at[f] = "away" /\ Lookup(f)

(* The claim waited for has settled or been taken over: look again. *)
Wake(f) == at[f] = "waiting" /\ claim # mine[f] /\ Lookup(f)

WaitRunsOut(f) ==
  /\ at[f] = "waiting" /\ Moves(f, "away")
  /\ UNCHANGED <<known, claim, linkRoom, mine, claims, spent, troubles, expired, robbed, astray>>

Expire ==
  /\ claim # 0 /\ claim \notin expired /\ expired' = expired \cup {claim}
  /\ UNCHANGED <<known, claim, linkRoom, at, mine, claims, spent, troubles, robbed, astray>>

-----------------------------------------------------------------------------
(* The request to the server: it takes the link and answers, or the answer *)
(* is lost; it refuses a link already taken; or nothing reaches it.        *)
Redeem(f) ==
  /\ at[f] \in {"redeeming", "direct"}
  /\ \/ /\ ~spent /\ spent' = TRUE
        /\ Moves(f, IF at[f] = "direct" THEN "unlinked" ELSE "redeemed")
        /\ UNCHANGED <<troubles, astray>>
     \/ /\ ~spent /\ spent' = TRUE /\ astray' = TRUE
        /\ troubles < MaxTroubles /\ troubles' = troubles + 1
        /\ Moves(f, IF at[f] = "direct" THEN "away" ELSE "refused")
     \/ /\ spent \/ troubles < MaxTroubles
        /\ troubles' = IF spent THEN troubles ELSE troubles + 1
        /\ Moves(f, IF at[f] = "direct" THEN "away" ELSE "refused")
        /\ UNCHANGED <<spent, astray>>
  /\ UNCHANGED <<known, claim, linkRoom, mine, claims, expired, robbed>>

(* link-redeemed and link-failed: fulfil and release settle whatever claim *)
(* is there, the caller's or not.                                          *)
Others(f) == {claim} \ ({0, mine[f]} \cup expired)

Fulfil(f) ==
  /\ at[f] = "redeemed" /\ Moves(f, "have")
  /\ known' = TRUE /\ claim' = 0
  /\ UNCHANGED <<linkRoom, mine, claims, spent, troubles, expired, robbed, astray>>

\* (Mutant: a failed redeem drops the entry, session and all.)
EntryDropped == FALSE
KeptSession == known

Release(f) ==
  /\ at[f] = "refused" /\ Moves(f, "away")
  /\ known' = KeptSession /\ claim' = 0
  /\ robbed' = robbed \cup Others(f)
  /\ UNCHANGED <<linkRoom, mine, claims, spent, troubles, expired, astray>>

ReportLost(f) ==
  /\ at[f] \in {"redeemed", "refused"}
  /\ troubles < MaxTroubles /\ troubles' = troubles + 1
  /\ Moves(f, IF at[f] = "redeemed" THEN "have" ELSE "away")
  /\ astray' = (astray \/ at[f] = "redeemed")
  /\ UNCHANGED <<known, claim, linkRoom, mine, claims, spent, expired, robbed>>

(* The attach names the link, and the room it opens remembers it; one that *)
(* was redeemed without the daemon does not.  A join may fail.             *)
Join(f) ==
  /\ at[f] \in {"have", "unlinked"}
  /\ \/ Moves(f, "away") /\ UNCHANGED linkRoom
     \/ Moves(f, "joined") /\ linkRoom' = (linkRoom \/ at[f] = "have")
  /\ astray' = (astray \/ at[f] = "unlinked")
  /\ UNCHANGED <<known, claim, mine, claims, spent, troubles, expired, robbed>>

-----------------------------------------------------------------------------
(* A front end dies, or ends after having joined. *)
Die(f) ==
  /\ at[f] # "away" /\ Moves(f, "away")
  /\ IF at[f] = "joined" THEN UNCHANGED troubles
     ELSE troubles < MaxTroubles /\ troubles' = troubles + 1
  /\ astray' = (astray \/ at[f] \in {"redeemed", "unlinked"})
  /\ UNCHANGED <<known, claim, linkRoom, mine, claims, spent, expired, robbed>>

(* Another daemon: the book is gone, a room is rejoined with its links or, *)
(* after an idle exit, is not; whoever waited gets no answer and redeems.  *)
Restart ==
  /\ troubles < MaxTroubles /\ troubles' = troubles + 1
  /\ known' = FALSE /\ claim' = 0
  /\ \/ UNCHANGED linkRoom
     \/ linkRoom' = FALSE /\ \A f \in Front : at[f] # "joined"
  /\ at' = [f \in Front |-> IF at[f] = "waiting" THEN "direct" ELSE at[f]]
  /\ astray' = (astray \/ ((known \/ linkRoom) /\ ~linkRoom'))
  /\ expired' = expired \cup {mine[f] : f \in {g \in Front : at[g] = "redeeming"}}
  /\ UNCHANGED <<mine, claims, spent, robbed>>

(* No daemon answers: the link is redeemed without asking. *)
AskNobody(f) ==
  /\ at[f] = "away" /\ troubles < MaxTroubles /\ troubles' = troubles + 1
  /\ Moves(f, "direct")
  /\ UNCHANGED <<known, claim, linkRoom, mine, claims, spent, expired, robbed, astray>>

NextLinks ==
  \/ \E f \in Front :
       \/ Ask(f) \/ Wake(f) \/ WaitRunsOut(f) \/ Redeem(f) \/ Fulfil(f) \/ Release(f)
       \/ ReportLost(f) \/ Join(f) \/ Die(f) \/ AskNobody(f)
  \/ Expire \/ Restart

SpecLinks == InitLinks /\ [][NextLinks]_lvars

-----------------------------------------------------------------------------
LinksTypeOK ==
  /\ known \in BOOLEAN /\ linkRoom \in BOOLEAN /\ spent \in BOOLEAN /\ astray \in BOOLEAN
  /\ claim \in 0..claims /\ mine \in [Front -> 0..claims]
  /\ at \in [Front -> {"away", "waiting", "redeeming", "direct", "redeemed", "refused",
                       "have", "unlinked", "joined"}]
  /\ expired \subseteq 1..claims /\ robbed \subseteq 1..claims

(* A link is not burned: once the server has taken it, its session is in   *)
(* the book, in a room or on its way from the front end that redeemed it,  *)
(* whichever claims ran out and however late their holders answer, but     *)
(* for what a fault lost on the way.                                       *)
SpentIsKnown ==
  spent => known \/ linkRoom \/ astray \/ \E f \in Front : at[f] \in {"redeemed", "unlinked"}

(* Front ends started together redeem one at a time: until the session is  *)
(* known whoever redeems holds the claim, unless that ran out or the late  *)
(* failure of an earlier holder let it go.                                 *)
OneRedeems ==
  \A f \in Front :
    at[f] = "redeeming" /\ ~known => mine[f] \in {claim} \cup expired \cup robbed

(* The link is spent on a session somebody gets, and once. *)
LinksAreSpentOnce == SpentIsKnown /\ OneRedeems

(* A claim is let go by its holder only: see the findings.                 *)
OwnersRelease == robbed = {}
=============================================================================
