------------------------------ MODULE Snapshot -------------------------------
(***************************************************************************)
(* The coalesced background read behind a session's attention and          *)
(* divergence (internal/session/snapshot.go, and the Refresh and Settle    *)
(* wrappers of session.go).  Callers come from the socket (an arriving     *)
(* event), from a hook's peek and from a tool call; each takes the client  *)
(* the session has, then begins a read or joins the one in flight.  A join *)
(* swaps the client, and only some time later invalidates the snapshot.    *)
(*                                                                         *)
(* An answer is abstracted to the room it is about and the number of that  *)
(* room's attention-touching events it knows.  Bounds: LastVersion events  *)
(* a room, MaxGen overtakings (room switches and abandoned reads).         *)
(***************************************************************************)
EXTENDS Membership, Integers, FiniteSets

CONSTANTS Caller, Read, None, LastVersion, MaxGen

ASSUME SnapshotAssumption == None \notin Read /\ LastVersion \in Nat /\ MaxGen \in Nat

VARIABLES
  version,   \* room -> how many touching events its server has
  arrived,   \* how many of the joined room's the socket has delivered
  joining,   \* a join between its swap of the client and its invalidate
  value, dirty, gen, inFlight,
  reads,     \* read -> what its goroutine holds
  callers    \* caller -> what it has taken and waits for

snap == <<value, dirty, gen, inFlight, reads>>
vars == <<version, arrived, client, joining, snap, callers>>

Policy == {"always", "ifDirty", "ifDirtyOrEmpty"}

(* client: whose fetch it runs; knows: what that room had when it started; *)
(* current and stray are history: whether no room switch and no timeout    *)
(* has come since, and whether it was begun with another room's client.    *)
NoRead == [running |-> FALSE, gen |-> 0, client |-> NoRoom, knows |-> 0,
           current |-> FALSE, stray |-> FALSE]
NoAnswer == [room |-> NoRoom, knows |-> 0, current |-> TRUE, stray |-> FALSE]
Resting == [at |-> "rest", client |-> NoRoom, policy |-> "always", read |-> None]

Init ==
  /\ version = [r \in Room |-> 0] /\ arrived = 0
  /\ client = NoRoom /\ joining = FALSE
  /\ value = NoAnswer /\ dirty = TRUE /\ gen = 0 /\ inFlight = None
  /\ reads = [i \in Read |-> NoRead]
  /\ callers = [c \in Caller |-> Resting]

-----------------------------------------------------------------------------
(* A claim or a ruling is recorded in a room. *)
Change(r) ==
  /\ version[r] < LastVersion
  /\ version' = [version EXCEPT ![r] = @ + 1]
  /\ UNCHANGED <<arrived, client, joining, snap, callers>>

(* The wrappers: no client, nothing to refresh; otherwise the fetch is     *)
(* bound to the client of this moment, before the snapshot's own lock.     *)
Take(c, policy) ==
  /\ callers[c] = Resting /\ client # NoRoom
  /\ callers' = [callers EXCEPT ![c] =
       [at |-> "begin", client |-> client, policy |-> policy, read |-> None]]

Call(c, policy) ==
  /\ Take(c, policy)
  /\ UNCHANGED <<version, arrived, client, joining, snap>>

(* EnqueueEvent of a touching event: markDirty, then RefreshAttentionAsync.*)
(* Until the join is done the watch that delivers it is the old room's.    *)
Arrive(c) ==
  /\ client # NoRoom
  /\ joining \/ arrived < version[client]
  /\ arrived' = IF joining THEN arrived ELSE arrived + 1
  /\ dirty' = TRUE
  /\ Take(c, "always")
  /\ UNCHANGED <<version, client, joining, value, gen, inFlight, reads>>

(* begin, for a caller whose policy asks for nothing; settle starts nothing *)
(* on a clean snapshot but joins what is in flight.                        *)
Declines(c) ==
  \/ callers[c].policy = "ifDirtyOrEmpty" /\ ~dirty /\ value # NoAnswer
  \/ callers[c].policy = "ifDirty" /\ ~dirty /\ inFlight = None

Decline(c) ==
  /\ callers[c].at = "begin" /\ Declines(c)
  /\ callers' = [callers EXCEPT ![c] = Resting]
  /\ UNCHANGED <<version, arrived, client, joining, snap>>

Waiting(c, i) == [at |-> "wait", client |-> callers[c].client,
                  policy |-> callers[c].policy, read |-> i]

(* begin: join the read in flight ... *)
Join(c) ==
  /\ callers[c].at = "begin" /\ ~Declines(c) /\ inFlight # None
  /\ callers' = [callers EXCEPT ![c] = Waiting(c, inFlight)]
  /\ UNCHANGED <<version, arrived, client, joining, snap>>

(* ... or start one: dirty is cleared on entry, not on success. *)
Begin(c, i) ==
  /\ callers[c].at = "begin" /\ ~Declines(c) /\ inFlight = None
  /\ ~reads[i].running /\ \A d \in Caller : callers[d].read # i
  /\ dirty' = FALSE /\ inFlight' = i
  /\ reads' = [reads EXCEPT ![i] =
       [running |-> TRUE, gen |-> gen, client |-> callers[c].client,
        knows |-> version[callers[c].client], current |-> TRUE,
        stray |-> joining \/ callers[c].client # client]]
  /\ callers' = [callers EXCEPT ![c] = Waiting(c, i)]
  /\ UNCHANGED <<version, arrived, client, joining, value, gen>>

(* A read overtaken by its timeout or by a room switch. *)
Overtake == inFlight' = None /\ dirty' = TRUE /\ gen' = gen + 1

(* The goroutine's last step: only the read in flight, of the generation   *)
(* it began in, writes; a failed one leaves the old answer and re-dirties. *)
\* (Mutants: a write is never refused; success is what clears dirty.)
AnyMayWrite(i) == TRUE
MayWrite(i) == gen = reads[i].gen /\ inFlight = i

ClearOnSuccess == dirty' = FALSE
KeepMark == dirty' = dirty

Land(i, ok) ==
  /\ reads[i].running
  /\ IF MayWrite(i)
     THEN /\ inFlight' = None
          /\ IF ok THEN \E k \in reads[i].knows..version[reads[i].client] :
                          /\ value' = [room |-> reads[i].client, knows |-> k,
                                       current |-> reads[i].current,
                                       stray |-> reads[i].stray]
                          /\ KeepMark
                   ELSE value' = value /\ dirty' = TRUE
     ELSE UNCHANGED <<value, dirty, inFlight>>
  /\ reads' = [reads EXCEPT ![i] = NoRead]
  /\ UNCHANGED <<version, arrived, client, joining, gen, callers>>

(* The future is closed: a waiting caller has its answer. *)
Answered(c) ==
  /\ callers[c].at = "wait" /\ ~reads[callers[c].read].running
  /\ callers' = [callers EXCEPT ![c] = Resting]
  /\ UNCHANGED <<version, arrived, client, joining, snap>>

(* settle's budget runs out: the read is no longer the one to join. *)
Abandoned(rs, i) == [rs EXCEPT ![i].current = FALSE]

GiveUp(c) ==
  /\ callers[c].at = "wait" /\ callers[c].policy = "ifDirty" /\ gen < MaxGen
  /\ reads[callers[c].read].running
  /\ IF inFlight = callers[c].read
     THEN /\ Overtake
          /\ reads' = Abandoned(reads, callers[c].read)
     ELSE UNCHANGED <<inFlight, dirty, gen, reads>>
  /\ callers' = [callers EXCEPT ![c] = Resting]
  /\ UNCHANGED <<version, arrived, client, joining, value>>

(* joinConfig: the client is swapped under the session's lock; the old     *)
(* room's Leave is a request of its own; then invalidate.  The new socket  *)
(* hears what is recorded from then on.                                    *)
Swap(r) ==
  /\ ~joining /\ r # client /\ gen < MaxGen
  /\ client' = r /\ joining' = TRUE /\ arrived' = version[r]
  /\ UNCHANGED <<version, snap, callers>>

Invalidate ==
  /\ joining /\ joining' = FALSE
  /\ value' = NoAnswer /\ Overtake
  /\ reads' = [i \in Read |-> [reads[i] EXCEPT !.current = FALSE]]
  /\ UNCHANGED <<version, arrived, client, callers>>

Next ==
  \/ \E r \in Room : Change(r) \/ Swap(r)
  \/ Invalidate
  \/ \E c \in Caller :
       \/ Arrive(c) \/ Decline(c) \/ Join(c) \/ Answered(c) \/ GiveUp(c)
       \/ \E policy \in Policy : Call(c, policy)
       \/ \E i \in Read : Begin(c, i)
  \/ \E i \in Read, ok \in BOOLEAN : Land(i, ok)

Spec == Init /\ [][Next]_vars

-----------------------------------------------------------------------------
ReadType == [running : BOOLEAN, gen : Nat, client : Room \cup {NoRoom},
             knows : Nat, current : BOOLEAN, stray : BOOLEAN]

(* Every value is of its kind; a read in flight is running, and it began   *)
(* in the present generation.                                              *)
SnapTypeOK ==
  /\ version \in [Room -> Nat] /\ arrived \in Nat
  /\ client \in Room \cup {NoRoom} /\ joining \in BOOLEAN
  /\ value \in [room : Room \cup {NoRoom}, knows : Nat, current : BOOLEAN, stray : BOOLEAN]
  /\ dirty \in BOOLEAN /\ gen \in Nat
  /\ inFlight \in Read \cup {None}
  /\ reads \in [Read -> ReadType]
  /\ callers \in [Caller -> [at : {"rest", "begin", "wait"},
                             client : Room \cup {NoRoom}, policy : Policy,
                             read : Read \cup {None}]]
  /\ inFlight # None => reads[inFlight].running /\ reads[inFlight].gen = gen

(* Only the current read writes: no answer comes from a read that a room   *)
(* switch or a timeout has overtaken, however late it lands ("The          *)
(* generation counter bumps on EVERY invalidation").                       *)
OnlyCurrentWrites == value.current

(* A snapshot that is clean, with nothing in flight, knows every touching  *)
(* event that has arrived: marking, coalescing, clearing on entry, failing *)
(* and abandoning never lose a re-read.  A read begun with the client of   *)
(* another room, or within a join, is the one exception (the findings).    *)
FreshOrDirty ==
  ~joining /\ ~dirty /\ inFlight = None /\ ~value.stray => value.knows >= arrived

(* What snapshot.go says of a room switch: no answer of the old room is    *)
(* ever held as the new one's.                                             *)
AnswersThisRoom == ~joining /\ value # NoAnswer => value.room = client
=============================================================================
