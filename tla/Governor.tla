------------------------------ MODULE Governor ------------------------------
(***************************************************************************)
(* One process's requests to the rooms' edges, and the governor that keeps *)
(* it away from an edge that answered 429.  The check and the sending are  *)
(* one step, so a request that is under way when the refusal of another    *)
(* lands is not held back, and its answer, late, counts like any other.    *)
(*                                                                         *)
(* Time is in ticks; Base, Cap and Longest are govBase, govMax and         *)
(* govRetryAfterMax, Jitter the most that the jitter adds.  Bound: MaxTime.*)
(***************************************************************************)
EXTENDS Integers

CONSTANTS Request, Host, Base, Cap, Longest, Jitter, RetryAfter, MaxTime

ASSUME GovernorAssumption ==
  /\ Base \in Nat \ {0} /\ Cap \in Nat /\ Base <= Cap
  /\ Longest \in Nat /\ Jitter \in Nat /\ MaxTime \in Nat \ {0}
  /\ RetryAfter \subseteq Nat /\ "none" \notin Host

VARIABLES
  now,
  gov,     \* governor: per host, the end of its cool-down and the refusals in a row
  sent,    \* the host a request is under way to, "none"
  row,     \* history: per host, the refusals since it last answered anything else
  refusedAt, \* history: when the last of them landed
  asked,   \* history: until when those answers asked to be left alone
  hasty    \* history: a request left before what GapGrows allows, before Retry-After

governorVars == <<now, gov, sent, row, refusedAt, asked, hasty>>

Greater(m, n) == IF m > n THEN m ELSE n
Lesser(m, n) == IF m < n THEN m ELSE n

(* The wait doubles with each refusal in a row, from Base up to Cap. *)
Backoff(failures) == Lesser(Cap, Base * 2 ^ (failures - 1))

Free == [until |-> 0, failures |-> 0]

InitGovernor ==
  /\ now = 1
  /\ gov = [h \in Host |-> Free] /\ sent = [q \in Request |-> "none"]
  /\ row = [h \in Host |-> 0] /\ refusedAt = [h \in Host |-> 0]
  /\ asked = [h \in Host |-> 0] /\ hasty = {}

-----------------------------------------------------------------------------

cooldown(h) == Greater(gov[h].until - now, 0)

(* Do: a request of a host that cools down is answered here, as a 429. *)
Send(q, h) ==
  /\ sent[q] = "none" /\ cooldown(h) = 0
  /\ sent' = [sent EXCEPT ![q] = h]
  /\ hasty' = hasty
       \cup (IF row[h] > 0 /\ now < refusedAt[h] + Backoff(row[h]) THEN {"backoff"} ELSE {})
       \cup (IF now < asked[h] THEN {"retry-after"} ELSE {})
  /\ UNCHANGED <<now, gov, row, refusedAt, asked>>

(* A Retry-After beyond Longest is not believed. *)
parseRetryAfter(ra) == Lesser(ra, Longest)

(* (Mutant: a refusal that names its wait is not counted.) *)
CountsUnnamed(g, ra, jitter) ==
  [until |-> now + Greater(Backoff(g.failures + 1) + jitter, parseRetryAfter(ra)),
   failures |-> IF ra = 0 THEN g.failures + 1 ELSE g.failures]

refused(g, ra, jitter) ==
  [until |-> now + Greater(Backoff(g.failures + 1) + jitter, parseRetryAfter(ra)),
   failures |-> g.failures + 1]

Refused(q, ra, jitter) ==
  LET h == sent[q] IN
  /\ h # "none"
  /\ gov' = [gov EXCEPT ![h] = refused(@, ra, jitter)]
  /\ sent' = [sent EXCEPT ![q] = "none"]
  /\ row' = [row EXCEPT ![h] = @ + 1] /\ refusedAt' = [refusedAt EXCEPT ![h] = now]
  /\ asked' = [asked EXCEPT ![h] = Greater(@, now + parseRetryAfter(ra))]
  /\ UNCHANGED <<now, hasty>>

(* Any other answer ends the cool-down, the late answer of a request that  *)
(* left before the refusal too; ok(g) is what it leaves of the governor.   *)
ok(g) == Free

Answered(q) ==
  LET h == sent[q] IN
  /\ h # "none"
  /\ gov' = [gov EXCEPT ![h] = ok(@)] /\ sent' = [sent EXCEPT ![q] = "none"]
  /\ row' = [row EXCEPT ![h] = 0] /\ asked' = [asked EXCEPT ![h] = 0]
  /\ UNCHANGED <<now, refusedAt, hasty>>

(* No answer at all: the governor learns nothing. *)
Lost(q) ==
  /\ sent[q] # "none" /\ sent' = [sent EXCEPT ![q] = "none"]
  /\ UNCHANGED <<now, gov, row, refusedAt, asked, hasty>>

Tick ==
  /\ now < MaxTime /\ now' = now + 1
  /\ UNCHANGED <<gov, sent, row, refusedAt, asked, hasty>>

NextGovernor ==
  \/ Tick
  \/ \E q \in Request :
       \/ \E h \in Host : Send(q, h)
       \/ \E ra \in RetryAfter, j \in 0..Jitter : Refused(q, ra, j)
       \/ Answered(q) \/ Lost(q)

SpecGovernor == InitGovernor /\ [][NextGovernor]_governorVars

-----------------------------------------------------------------------------
GovernorTypeOK ==
  /\ now \in 1..MaxTime
  /\ gov \in [Host -> [until : Nat, failures : Nat]]
  /\ sent \in [Request -> Host \cup {"none"}]
  /\ row \in [Host -> Nat] /\ refusedAt \in [Host -> 0..now] /\ asked \in [Host -> Nat]
  /\ hasty \subseteq {"backoff", "retry-after"}

(* Client: however many requests are under way at once and in whatever     *)
(* order their answers land, no request leaves for a host before the wait  *)
(* that the refusals in a row make, counted from the last of them; and     *)
(* a host that has refused nothing since it last answered, or refused long *)
(* ago, is not kept waiting: no cool-down outlasts what one refusal gives. *)
StaysAway ==
  /\ "backoff" \notin hasty
  /\ \A h \in Host :
       /\ row[h] = 0 => cooldown(h) = 0
       /\ gov[h].until <= refusedAt[h] + Greater(Cap + Jitter, Longest)

(* Client: the cool-down never undercuts a Retry-After the edge sent.      *)
(* (governor.go:30-31 says so; a second refusal, of a request that was     *)
(* under way, shortens it.)                                                *)
HonoursRetryAfter == "retry-after" \notin hasty
=============================================================================
