-------------------------------- MODULE Share -------------------------------
(***************************************************************************)
(* What an agent is told of its own shares (`share_with_room` and the end  *)
(* of every narrated tool call): that a share is recorded, held or waiting *)
(* for the person to rejoin; later, once, that the room refused it; and    *)
(* that the session has expired.  The queue is one file; each serve has a  *)
(* session, a worker and an agent of its own over it.                      *)
(***************************************************************************)
EXTENDS Integers, FiniteSets

CONSTANTS Serve, Entry, QueueMax, MaxCalls, MaxFaults, MaxExpiries

ASSUME ShareAssumption ==
  /\ IsFiniteSet(Entry) /\ IsFiniteSet(Serve) /\ QueueMax \in Nat \ {0}
  /\ {MaxCalls, MaxFaults, MaxExpiries} \subseteq Nat

VARIABLES
  entry,     \* each hand-off: its state, its expiry mark, and whether it was reported
  valid,     \* whose session the room still takes
  told,      \* expiryTold of each serve
  call,      \* the tool call that each serve answers
  heard,     \* how often the agents were told of an entry's refusal
  missed,    \* the refusals that a serve took and died with
  lapse,     \* how many times the queue came to wait for a rejoin
  toldOf,    \* the lapse that each serve's agent last heard of
  nagged,    \* a notice told an agent of a lapse it had heard of
  calls, faults, expiries

shareVars == <<entry, valid, told, call, heard, missed, lapse, toldOf, nagged,
               calls, faults, expiries>>

Unborn == [state |-> "unborn", expired |-> FALSE, reported |-> FALSE]
NoCall == [at |-> "idle", entry |-> {}, load |-> {}, got |-> {}, says |-> "nothing"]

Init ==
  /\ entry = [e \in Entry |-> Unborn]
  /\ valid = [s \in Serve |-> TRUE] /\ told = [s \in Serve |-> FALSE]
  /\ call = [s \in Serve |-> NoCall]
  /\ heard = [e \in Entry |-> 0] /\ missed = {}
  /\ lapse = 0 /\ toldOf = [s \in Serve |-> 0] /\ nagged = FALSE
  /\ calls = 0 /\ faults = 0 /\ expiries = 0

-----------------------------------------------------------------------------
(* AwaitingSession: a queued entry's latest attempt met an expired session. *)
Awaiting(en) == \E e \in Entry : en[e].state = "queued" /\ en[e].expired
sessionExpired == Awaiting(entry)
Owed == {e \in Entry : entry[e].state \in {"queued", "held"}}

At(s, step) == call' = [call EXCEPT ![s].at = step]
Queue(e, v) ==
  /\ entry' = [entry EXCEPT ![e] = v]
  /\ lapse' = lapse + IF ~sessionExpired /\ Awaiting(entry') THEN 1 ELSE 0
Fault == faults < MaxFaults /\ faults' = faults + 1

Hears(s) == toldOf' = [toldOf EXCEPT ![s] = lapse]

Begin(s) == call[s].at = "idle" /\ calls < MaxCalls /\ calls' = calls + 1

(* share_with_room: a queue at its bound is said at once, as an error. *)
Accept(s, e) ==
  /\ Begin(s) /\ entry[e] = Unborn
  /\ IF Cardinality(Owed) >= QueueMax
     THEN UNCHANGED <<entry, call, lapse>>
     ELSE /\ Queue(e, [Unborn EXCEPT !.state = "queued"])
          /\ call' = [call EXCEPT ![s].at = "match", ![s].entry = {e}]
  /\ UNCHANGED <<valid, told, heard, missed, toldOf, nagged, faults, expiries>>

(* The daemon is asked what the text names; a match holds the entry, when  *)
(* it is still there to be held, and the answer names it.                  *)
Match(s) ==
  /\ call[s].at = "match"
  /\ \/ At(s, "expiry") /\ UNCHANGED <<entry, lapse>>
     \/ /\ \E e \in call[s].entry :
             IF entry[e].state = "queued" THEN Queue(e, [entry[e] EXCEPT !.state = "held"])
             ELSE UNCHANGED <<entry, lapse>>
        /\ call' = [call EXCEPT ![s].at = "load", ![s].says = "held"]
  /\ UNCHANGED <<valid, told, heard, missed, toldOf, nagged, calls, faults, expiries>>

(* (Mutant: the share's own answer does not count as telling.) *)
OnNotice(s) == told
markExpiryTold(s) == [told EXCEPT ![s] = TRUE]

(* A share that waits for the person to rejoin says so, and that counts.   *)
SayExpired(s) ==
  /\ call[s].at = "expiry"
  /\ IF sessionExpired
     THEN /\ told' = markExpiryTold(s) /\ Hears(s)
          /\ call' = [call EXCEPT ![s].at = "load", ![s].says = "waits"]
     ELSE /\ call' = [call EXCEPT ![s].at = "load", ![s].says = "shared"]
          /\ UNCHANGED <<told, toldOf>>
  /\ UNCHANGED <<entry, valid, heard, missed, lapse, nagged, calls, faults, expiries>>

(* Any other narrated tool; what a raw one says ends with its result. *)
narrated(s) ==
  /\ Begin(s) /\ At(s, "load")
  /\ UNCHANGED <<entry, valid, told, heard, missed, lapse, toldOf, nagged, faults, expiries>>

-----------------------------------------------------------------------------
Unreported == {e \in Entry : entry[e].state = "refused" /\ ~entry[e].reported}

(* TakeUnreported: the refusals are listed, and then marked one by one.    *)
TakeUnreported(s) ==
  /\ call[s].at = "load"
  /\ call' = [call EXCEPT ![s].at = "mark", ![s].load = Unreported]
  /\ UNCHANGED <<entry, valid, told, heard, missed, lapse, toldOf, nagged, calls, faults, expiries>>

Reported(e) == [entry[e] EXCEPT !.reported = TRUE]

(* A mark that cannot be written ends the list; the rest stay untold. *)
Mark(s) ==
  /\ call[s].at = "mark"
  /\ \/ \E e \in call[s].load :
          /\ entry' = [entry EXCEPT ![e] = Reported(e)]
          /\ call' = [call EXCEPT ![s].load = @ \ {e}, ![s].got = @ \cup {e}]
          /\ UNCHANGED faults
     \/ call[s].load = {} /\ At(s, "notice") /\ UNCHANGED <<entry, faults>>
     \/ call[s].load # {} /\ At(s, "notice") /\ Fault /\ UNCHANGED entry
  /\ UNCHANGED <<valid, told, heard, missed, lapse, toldOf, nagged, calls, expiries>>

(* Each refusal, with the room's reason and what to do about it. *)
RenderRefusals(s) ==
  heard' = [e \in Entry |-> heard[e] + IF e \in call[s].got THEN 1 ELSE 0]

(* expiryNotice, and the result goes out with the refusals before it. *)
withRefusals(s) ==
  /\ call[s].at = "notice"
  /\ RenderRefusals(s)
  /\ told' = [told EXCEPT ![s] = sessionExpired]
  /\ IF sessionExpired /\ ~told[s]
     THEN Hears(s) /\ nagged' = (nagged \/ toldOf[s] = lapse)
     ELSE UNCHANGED <<toldOf, nagged>>
  /\ call' = [call EXCEPT ![s] = NoCall]
  /\ UNCHANGED <<entry, valid, missed, lapse, calls, faults, expiries>>

-----------------------------------------------------------------------------
(* The worker's attempt, in one step. *)
Publish(s, e) ==
  /\ entry[e].state = "queued"
  /\ \/ ~valid[s] /\ Queue(e, [entry[e] EXCEPT !.expired = TRUE]) /\ UNCHANGED faults
     \/ /\ valid[s] /\ UNCHANGED faults
        /\ \E end \in {"published", "refused"} :
             Queue(e, [entry[e] EXCEPT !.state = end, !.expired = FALSE])
     \/ Fault /\ Queue(e, [entry[e] EXCEPT !.expired = FALSE])
  /\ UNCHANGED <<valid, told, call, heard, missed, toldOf, nagged, calls, expiries>>

SessionEnds(s) ==
  /\ valid[s] /\ expiries < MaxExpiries /\ expiries' = expiries + 1
  /\ valid' = [valid EXCEPT ![s] = FALSE]
  /\ UNCHANGED <<entry, told, call, heard, missed, lapse, toldOf, nagged, calls, faults>>

Rejoin(s) ==
  /\ ~valid[s] /\ call[s].at = "idle"
  /\ valid' = [valid EXCEPT ![s] = TRUE]
  /\ UNCHANGED <<entry, told, call, heard, missed, lapse, toldOf, nagged, calls, faults, expiries>>

(* The process dies, and the harness starts another for another agent. *)
Die(s) ==
  /\ call[s].at # "idle" /\ Fault
  /\ missed' = missed \cup call[s].got
  /\ told' = [told EXCEPT ![s] = FALSE] /\ toldOf' = [toldOf EXCEPT ![s] = 0]
  /\ call' = [call EXCEPT ![s] = NoCall]
  /\ UNCHANGED <<entry, valid, heard, lapse, nagged, calls, expiries>>

Next ==
  \E s \in Serve :
    \/ \E e \in Entry : Accept(s, e) \/ Publish(s, e)
    \/ Match(s) \/ SayExpired(s) \/ narrated(s) \/ TakeUnreported(s) \/ Mark(s)
    \/ withRefusals(s) \/ SessionEnds(s) \/ Rejoin(s) \/ Die(s)

SpecShare == Init /\ [][Next]_shareVars

-----------------------------------------------------------------------------
ShareTypeOK ==
  /\ \A e \in Entry :
       /\ entry[e].state \in {"unborn", "queued", "held", "published", "refused"}
       /\ {entry[e].expired, entry[e].reported} \subseteq BOOLEAN
       /\ heard[e] \in 0..MaxCalls
  /\ \A s \in Serve :
       /\ call[s].at \in {"idle", "match", "expiry", "load", "mark", "notice"}
       /\ call[s].entry \cup call[s].load \cup call[s].got \subseteq Entry
       /\ toldOf[s] <= lapse
  /\ Cardinality(Owed) <= QueueMax
  /\ calls <= MaxCalls /\ faults <= MaxFaults /\ expiries <= MaxExpiries

(* A refusal stays untold until a result is about to carry it: only a      *)
(* serve that dies in between loses one.                                   *)
NoneLost ==
  \A e \in Entry :
    entry[e].reported =>
      heard[e] > 0 \/ e \in missed \/ \E s \in Serve : e \in call[s].got

(* No agent is told of one refusal twice. *)
EachOnce ==
  \A e \in Entry :
    /\ heard[e] <= Cardinality(Serve)
    /\ \A s \in Serve : e \in call[s].got => heard[e] < Cardinality(Serve)

(* Nor of one expiry: not in the answer to a share and again in the notice *)
(* that ends it, and not on each result while it lasts.                    *)
NotNagged == ~nagged

(* An agent is told of its shares, and told once.                          *)
ShareIsTold == NoneLost /\ EachOnce /\ NotNagged

(* A result that goes out while the queue waits for a rejoin has said so   *)
(* of this expiry, and not only of an earlier one.                         *)
LaterExpiryIsTold ==
  [][\A s \in Serve : call[s].at = "notice" /\ call'[s].at = "idle" /\ faults' = faults
       /\ sessionExpired => toldOf'[s] = lapse]_shareVars

(* Each refusal reaches a tool result exactly once. *)
ToldOnce == \A e \in Entry : heard[e] <= 1
=============================================================================
