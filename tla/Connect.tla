------------------------------- MODULE Connect ------------------------------
(***************************************************************************)
(* `landfall connect aws`: one command makes a role in the person's own    *)
(* account, by their own tools, and registers it with the organization.    *)
(* The role trusts one external id, which every run draws anew; the        *)
(* connection carries the id it was registered with, and works while the   *)
(* role trusts it.  Any step may fail, and runs may be repeated, with      *)
(* another name, or at once.  Bounds: MaxRuns; MaxSnags, the steps that fail. *)
(***************************************************************************)
EXTENDS Integers

CONSTANTS Run, Account, Other, MaxRuns, MaxSnags

ASSUME ConnectAssumption ==
  Other \notin Account /\ MaxRuns \in Nat /\ MaxSnags \in Nat

VARIABLES
  role,     \* the external id that an account's role trusts, 0 when there is no role
  conns,    \* the connections of the organization: by name, the account and the id
  run,      \* each run: where it is, and what it last said
  ids,      \* the external ids drawn: one for each run
  snags,
  works     \* history: the connections that a run called connected, and nobody removed

connectVars == <<role, conns, run, ids, snags, works>>

(* A connection is named for its account, unless --name says otherwise. *)
Names == Account \cup {Other}
NoRun == [at |-> "idle", name |-> Other, account |-> Other, id |-> 0, tf |-> FALSE,
          free |-> FALSE, clean |-> FALSE, says |-> "nothing"]
Going(p) == run[p].at # "idle"

InitConnect ==
  /\ role = [a \in Account |-> 0]
  /\ conns = [n \in {} |-> 0]
  /\ run = [p \in Run |-> NoRun]
  /\ ids = 0 /\ snags = 0 /\ works = {}

-----------------------------------------------------------------------------
Onto(p, step) == run' = [run EXCEPT ![p].at = step]
Ended(p, words, clean) ==
  [run EXCEPT ![p] = [NoRun EXCEPT !.free = run[p].free, !.tf = run[p].tf,
                                   !.clean = clean, !.says = words]]
Says(p, words) == run' = Ended(p, words, run[p].clean)

(* A step that fails, and the words the person is left with. *)
Breaks(p, words) ==
  /\ snags < MaxSnags /\ snags' = snags + 1
  /\ run' = Ended(p, words, FALSE)

Step(p, step, words) == (Onto(p, step) /\ UNCHANGED snags) \/ Breaks(p, words)

Overlaps(p) == [q \in Run |-> [run[q] EXCEPT !.clean = @ /\ ~Going(q)]]

(* Session, organization, platform, and the external id of this run.  The  *)
(* account is the one the person's tools are signed in to.                 *)
StartConnect(p, a, n, tf) ==
  /\ ~Going(p) /\ ids < MaxRuns
  /\ ids' = ids + 1
  /\ run' = [Overlaps(p) EXCEPT ![p] =
       [at |-> IF tf THEN "prompt" ELSE "preflight", name |-> n, account |-> a,
        id |-> ids + 1, tf |-> tf, free |-> n \notin DOMAIN conns,
        clean |-> \A q \in Run : ~Going(q), says |-> "nothing"]]
  /\ UNCHANGED <<role, conns, snags, works>>

awsPreflight(p) ==
  /\ run[p].at = "preflight"
  /\ Step(p, "template", "fix your AWS tools")
  /\ UNCHANGED <<role, conns, ids, works>>

(* A template that is not the pinned one byte for byte is a fault as well. *)
fetchTemplate(p) ==
  /\ run[p].at = "template"
  /\ Step(p, "deploy", "by hand")
  /\ UNCHANGED <<role, conns, ids, works>>

(* (Mutant: a stack that is there is left as it is.) *)
CreatesOnly(a, id) == [role EXCEPT ![a] = IF @ = 0 THEN id ELSE @]
(* Create or update: the stack has one name in an account. *)
deploy(a, id) == [role EXCEPT ![a] = id]

deployRoleStack(p) ==
  /\ run[p].at = "deploy"
  /\ \/ /\ role' = deploy(run[p].account, run[p].id)
        /\ Onto(p, "read") /\ UNCHANGED snags
     \/ /\ role' \in {role, deploy(run[p].account, run[p].id)}
        /\ Breaks(p, "run again")
  /\ UNCHANGED <<conns, ids, works>>

readRoleArn(p) ==
  /\ run[p].at = "read"
  /\ Step(p, "list", "run again")
  /\ UNCHANGED <<role, conns, ids, works>>

(* --terraform: the person applies the snippet, with this run's id in it,  *)
(* or only pastes the ARN of a role that is there, or gives up.            *)
Prompt(p) ==
  /\ run[p].at = "prompt" /\ UNCHANGED snags
  /\ \/ role' = deploy(run[p].account, run[p].id) /\ Onto(p, "list")
     \/ role[run[p].account] # 0 /\ Onto(p, "list") /\ UNCHANGED role
     \/ Says(p, "no ARN") /\ UNCHANGED role
  /\ UNCHANGED <<conns, ids, works>>

(* The names that are taken; a listing that fails is not in the way. *)
Collides(p) ==
  /\ run[p].at = "list"
  /\ \/ /\ run[p].name \in DOMAIN conns
        /\ Says(p, "nothing was changed") /\ UNCHANGED snags
     \/ run[p].name \notin DOMAIN conns /\ Onto(p, "register") /\ UNCHANGED snags
     \/ /\ snags < MaxSnags /\ snags' = snags + 1
        /\ run' = [run EXCEPT ![p].at = "register", ![p].clean = FALSE]
  /\ UNCHANGED <<role, conns, ids, works>>

Registered(p) ==
  [n \in DOMAIN conns \cup {run[p].name} |->
     IF n = run[p].name THEN [account |-> run[p].account, id |-> run[p].id] ELSE conns[n]]

(* The server creates a connection and refuses a name it has. *)
Register(p) ==
  /\ run[p].at = "register"
  /\ \/ /\ run[p].name \notin DOMAIN conns
        /\ conns' = Registered(p) /\ Onto(p, "health") /\ UNCHANGED snags
     \/ /\ run[p].name \in DOMAIN conns
        /\ Says(p, "registering failed") /\ UNCHANGED <<conns, snags>>
     \/ /\ conns' \in {conns} \cup
             IF run[p].name \in DOMAIN conns THEN {} ELSE {Registered(p)}
        /\ Breaks(p, "registering failed")
  /\ UNCHANGED <<role, ids, works>>

Healthy(n) == n \in DOMAIN conns /\ role[conns[n].account] = conns[n].id

(* The server assumes the role, by the connection's name. *)
HealthCheck(p) ==
  /\ run[p].at = "health"
  /\ \/ /\ Healthy(run[p].name)
        /\ Says(p, "connected") /\ works' = works \cup {run[p].name}
        /\ UNCHANGED snags
     \/ ~Healthy(run[p].name) /\ Says(p, "not healthy") /\ UNCHANGED <<works, snags>>
     \/ Breaks(p, "not healthy") /\ UNCHANGED works
  /\ UNCHANGED <<role, conns, ids>>

(* The person removes a connection on the integrations page. *)
Remove(n) ==
  /\ n \in DOMAIN conns
  /\ conns' = [k \in DOMAIN conns \ {n} |-> conns[k]]
  /\ works' = works \ {n}
  /\ run' = [p \in Run |-> [run[p] EXCEPT !.clean = @ /\ ~Going(p)]]
  /\ UNCHANGED <<role, ids, snags>>

NextConnect ==
  \/ \E p \in Run :
       \/ \E a \in Account : \E n \in {a, Other} : \E tf \in BOOLEAN : StartConnect(p, a, n, tf)
       \/ awsPreflight(p) \/ fetchTemplate(p) \/ deployRoleStack(p) \/ readRoleArn(p)
       \/ Prompt(p) \/ Collides(p) \/ Register(p) \/ HealthCheck(p)
  \/ \E n \in Names : Remove(n)

SpecConnect == InitConnect /\ [][NextConnect]_connectVars

-----------------------------------------------------------------------------
ConnectTypeOK ==
  /\ role \in [Account -> 0..ids]
  /\ DOMAIN conns \subseteq Names
  /\ \A n \in DOMAIN conns : conns[n].account \in Account /\ conns[n].id \in 1..ids
  /\ \A p \in Run :
       /\ run[p].at \in {"idle", "preflight", "template", "deploy", "read", "prompt",
                         "list", "register", "health"}
       /\ run[p].name \in Names /\ run[p].account \in Names /\ run[p].id \in 0..ids
       /\ {run[p].tf, run[p].free, run[p].clean} \subseteq BOOLEAN
  /\ ids \in 0..MaxRuns /\ snags \in 0..MaxSnags /\ works \subseteq DOMAIN conns

(* Whatever earlier runs left half done (a role with another id, a stack   *)
(* nobody registered), running the command again for a name that is not    *)
(* taken ends with a connection that works, unless something fails or      *)
(* another run or the person interferes.                                   *)
ConnectResumes ==
  \A p \in Run :
    ~Going(p) /\ run[p].clean /\ run[p].free /\ ~run[p].tf /\ run[p].says # "nothing" =>
      run[p].says = "connected"

(* A run that refuses changed nothing that works. *)
WorkingStays == \A n \in works : Healthy(n)
=============================================================================
