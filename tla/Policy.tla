------------------------------- MODULE Policy -------------------------------
(***************************************************************************)
(* What a shell command of the agent may say about itself: the             *)
(* pre-tool-use hook reads the person's policy file, takes the first rule  *)
(* that matches the command, asks on the terminal, and on a `y` declares   *)
(* what the rule says.  Several hooks may ask at once on one terminal,     *)
(* keys may be typed before the question, and the file may be edited,      *)
(* printed (`hooks policy`) or made (`--init`) at any moment.              *)
(***************************************************************************)
EXTENDS Integers, Sequences, FiniteSets

CONSTANTS
  Hook, Line,         \* the hooks, and the command lines, as sequences of words
  File,               \* the policy files a person writes: sequences of raw rules
  Starter,            \* the file that --init writes
  Category,           \* IntentCategories
  Assignment,         \* the words that are a NAME=value
  holds,              \* what a word contains
  MaxHooks, MaxKeys, MaxEdits

(* A raw rule: what it matches, what it would say, and whether what it says *)
(* is made of the words a rule may use (`bare`).                           *)
Rule ==
  [id : STRING, command : STRING, allOf : SUBSET STRING, noneOf : SUBSET STRING,
   category : STRING, hints : SUBSET STRING, bare : BOOLEAN]

ASSUME PolicyAssumption ==
  /\ IsFiniteSet(Hook) /\ Starter \in File /\ File \subseteq Seq(Rule)
  /\ MaxHooks \in Nat /\ MaxKeys \in Nat /\ MaxEdits \in Nat

VARIABLES
  file,      \* the policy file: none, one that cannot be read, or the rules in it
  printed,   \* what `hooks policy` printed that the present file would send
  init,      \* is a `hooks policy --init` between its look and its write?
  key,       \* the key that waits in the terminal
  tty,       \* the terminal's mode
  hook,      \* each hook's run
  sent,      \* the intents that left the machine, in order
  started, keys, yeses, edits

policyVars == <<file, printed, init, key, tty, hook, sent, started, keys, yeses, edits>>

Files == [is : {"rules"}, rules : File] \cup [is : {"none", "broken"}, rules : {<<>>}]
Nothing == [is |-> "nothing", says |-> {}]
NoHook == [at |-> "idle", line |-> <<>>, rules |-> <<>>, told |-> {}, knows |-> FALSE,
           intent |-> Nothing, old |-> "cooked"]

InitPolicy ==
  /\ file \in Files
  /\ printed = {Nothing} /\ init = FALSE
  /\ key = "none" /\ tty = "cooked"
  /\ hook = [h \in Hook |-> NoHook]
  /\ sent = <<>> /\ started = 0 /\ keys = 0 /\ yeses = 0 /\ edits = 0

-----------------------------------------------------------------------------
(* A rule is taken whole or refused whole. *)
ValidateRule(raw) ==
  raw.id # "" /\ raw.command # "" /\ raw.category \in Category /\ raw.bare

(* The rules taken, each at its place in the file: a bad rule does not     *)
(* disarm the others; a file that cannot be read does.                     *)
LoadPolicy(f) ==
  [i \in {k \in DOMAIN f.rules : ValidateRule(f.rules[k])} |-> f.rules[i]]

ProgramName(line) ==
  LET rest == SelectSeq(line, LAMBDA w : w \notin Assignment)
  IN  IF rest = <<>> THEN "" ELSE rest[1]

Contains(line, needle) == \E i \in DOMAIN line : needle \in holds[line[i]]

RuleMatches(rule, line) ==
  /\ ProgramName(line) = rule.command
  /\ \A needle \in rule.allOf : Contains(line, needle)
  /\ \A needle \in rule.noneOf : ~Contains(line, needle)

Matching(rules, line) == {i \in DOMAIN rules : RuleMatches(rules[i], line)}
MatchCommand(rules, line) ==
  rules[CHOOSE i \in Matching(rules, line) : \A j \in Matching(rules, line) : i <= j]

(* Nothing of the line: the rule's own words. *)
IntentFor(rule) == [is |-> rule.category, says |-> rule.hints]

-----------------------------------------------------------------------------
Now(h, at) == [hook EXCEPT ![h].at = at]
EndsHook(h) == hook' = [hook EXCEPT ![h] = NoHook]

(* The host runs the hook before a tool: a shell command, or anything else. *)
ShellCommandOf(h, line) ==
  /\ hook[h].at = "idle" /\ started < MaxHooks /\ started' = started + 1
  /\ hook' = [hook EXCEPT ![h].at = IF line = <<>> THEN "idle" ELSE "read", ![h].line = line]
  /\ UNCHANGED <<file, printed, init, key, tty, sent, keys, yeses, edits>>

ReadPolicy(h) ==
  /\ hook[h].at = "read"
  /\ LET rules == LoadPolicy(file)
     IN  IF Matching(rules, hook[h].line) = {} THEN EndsHook(h)
         ELSE hook' = [hook EXCEPT ![h].at = "target", ![h].rules = rules,
                ![h].intent = IntentFor(MatchCommand(rules, hook[h].line)),
                ![h].told = printed, ![h].knows = printed # {Nothing}]
  /\ UNCHANGED <<file, printed, init, key, tty, sent, started, keys, yeses, edits>>

(* Nobody is asked about what could not be sent. *)
ResolveHookTarget(h) ==
  /\ hook[h].at = "target"
  /\ hook' = Now(h, "ask") \/ EndsHook(h)
  /\ UNCHANGED <<file, printed, init, key, tty, sent, started, keys, yeses, edits>>

(* No terminal is a no; a terminal is put in raw mode for one key. *)
ConfirmOnTTY(h) ==
  /\ hook[h].at = "ask"
  /\ \/ EndsHook(h) /\ UNCHANGED tty
     \/ hook' = [hook EXCEPT ![h].at = "wait", ![h].old = tty] /\ tty' = "raw"
  /\ UNCHANGED <<file, printed, init, key, sent, started, keys, yeses, edits>>

(* (Mutant: any key but an n is a yes.) *)
NotNo(k) == k # "n"
isYes(k) == k = "y"

(* The first of those who wait takes the key; silence is a no. *)
readKeystroke(h) ==
  /\ hook[h].at = "wait"
  /\ \/ /\ key # "none" /\ key' = "none"
        /\ IF isYes(key) THEN hook' = Now(h, "send") ELSE EndsHook(h)
     \/ UNCHANGED key /\ EndsHook(h)
  /\ tty' = hook[h].old
  /\ UNCHANGED <<file, printed, init, sent, started, keys, yeses, edits>>

(* The request leaves the machine once, whatever becomes of the answer. *)
SendIntent(h) ==
  /\ hook[h].at = "send"
  /\ sent' = Append(sent, [intent |-> hook[h].intent, told |-> hook[h].told, knows |-> hook[h].knows])
  /\ EndsHook(h)
  /\ UNCHANGED <<file, printed, init, key, tty, started, keys, yeses, edits>>

-----------------------------------------------------------------------------
(* `hooks policy` prints what each rule would send. *)
RunHooksPolicy ==
  /\ printed' = {IntentFor(LoadPolicy(file)[i]) : i \in DOMAIN LoadPolicy(file)}
  /\ UNCHANGED <<file, init, key, tty, hook, sent, started, keys, yeses, edits>>

(* `--init` looks, and then writes. *)
InitLooks ==
  /\ ~init /\ file.is = "none" /\ init' = TRUE
  /\ UNCHANGED <<file, printed, key, tty, hook, sent, started, keys, yeses, edits>>

writeStarterPolicy ==
  /\ init /\ init' = FALSE
  /\ file' = [is |-> "rules", rules |-> Starter] /\ printed' = {Nothing}
  /\ UNCHANGED <<key, tty, hook, sent, started, keys, yeses, edits>>

Edit(f) ==
  /\ edits < MaxEdits /\ edits' = edits + 1
  /\ file' = f /\ printed' = {Nothing}
  /\ UNCHANGED <<init, key, tty, hook, sent, started, keys, yeses>>

Type(k) ==
  /\ keys < MaxKeys /\ key = "none"
  /\ keys' = keys + 1 /\ key' = k
  /\ yeses' = yeses + IF k = "y" THEN 1 ELSE 0
  /\ UNCHANGED <<file, printed, init, tty, hook, sent, started, edits>>

(* The host's own screen reads the keys too. *)
HostReads ==
  /\ key # "none" /\ key' = "none"
  /\ UNCHANGED <<file, printed, init, tty, hook, sent, started, keys, yeses, edits>>

NextPolicy ==
  \/ \E h \in Hook : \/ \E line \in Line : ShellCommandOf(h, line)
                     \/ ReadPolicy(h) \/ ResolveHookTarget(h) \/ ConfirmOnTTY(h)
                     \/ readKeystroke(h) \/ SendIntent(h)
  \/ RunHooksPolicy \/ InitLooks \/ writeStarterPolicy
  \/ \E f \in Files : Edit(f)
  \/ \E k \in {"y", "n", "enter"} : Type(k)
  \/ HostReads

SpecPolicy == InitPolicy /\ [][NextPolicy]_policyVars

-----------------------------------------------------------------------------
PolicyTypeOK ==
  /\ file \in Files
  /\ key \in {"none", "y", "n", "enter"} /\ tty \in {"cooked", "raw"} /\ init \in BOOLEAN
  /\ \A h \in Hook : /\ hook[h].at \in {"idle", "read", "target", "ask", "wait", "send"}
                     /\ hook[h].old \in {"cooked", "raw"}
  /\ Len(sent) <= started /\ started <= MaxHooks
  /\ keys <= MaxKeys /\ yeses <= keys /\ edits <= MaxEdits

(* Each declaration that leaves has a `y` of its own, however many hooks   *)
(* wait on the one terminal.                                               *)
OneYesEach ==
  Len(sent) + Cardinality({h \in Hook : hook[h].at = "send"})
    + (IF key = "y" THEN 1 ELSE 0) <= yeses

(* What leaves is among what `hooks policy` printed of the file, when it   *)
(* was not changed between the two.                                        *)
PrintedIsSent ==
  \A i \in DOMAIN sent : sent[i].knows => sent[i].intent \in sent[i].told

(* Nobody is asked about a command that the rules are not about. *)
AskedForAReason ==
  \A h \in Hook : hook[h].at \in {"ask", "wait", "send"} =>
    \E i \in DOMAIN hook[h].rules :
      hook[h].rules[i].command = ProgramName(hook[h].line) /\ IntentFor(hook[h].rules[i]) = hook[h].intent

PolicyIsKept == OneYesEach /\ PrintedIsSent /\ AskedForAReason

(* The terminal is as it was found once nobody asks. *)
CookedAgain == (\A h \in Hook : hook[h].at # "wait") => tty = "cooked"

(* A key that was typed before a question is no answer to it: no hook that *)
(* begins to wait finds one.                                               *)
AsksAfresh == [][\A h \in Hook :
  hook[h].at = "ask" /\ hook'[h].at = "wait" => key = "none"]_policyVars

(* --init writes only where there is no file. *)
InitKeeps == [][writeStarterPolicy => file.is = "none"]_policyVars
=============================================================================
