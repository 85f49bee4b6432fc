------------------------------ MODULE Install ------------------------------
(***************************************************************************)
(* What `landfall install` and `landfall hooks install` do to a host's     *)
(* configuration, and what the matching uninstalls undo.                   *)
(*                                                                         *)
(* The file belongs to the host and to the person, who edit it as well.    *)
(* A run reads it, decides, and writes it back whole, once for each of its *)
(* surfaces: lists of hooks, one entry in each list; one key (Claude       *)
(* Code's status line, or the server entry of an MCP host); Cursor's       *)
(* version stamp; Codex's feature flag, in another file.  Nothing locks    *)
(* the file and nothing compares it before the write.  "json" is an MCP    *)
(* host whose file landfall writes itself, "tool" one whose own command    *)
(* does it.                                                                *)
(***************************************************************************)
EXTENDS Filter, FiniteSets

CONSTANTS Installer, MaxInstalls, MaxHostEdits, MaxKills

ASSUME InstallAssumption ==
  IsFiniteSet(Installer) /\ {MaxInstalls, MaxHostEdits, MaxKills} \subseteq Nat

VARIABLES
  host,     \* the host this behaviour configures
  conf,     \* its configuration file
  flag,     \* Codex's codex_hooks
  install,  \* each run: what it is, the steps it has left, the file as it read it
  begun,    \* how many runs were started
  hostEdits, kills,
  left,     \* history: the person's part of the file as they left it
  trampled  \* history: a run wrote over an edit it had not read

installVars == <<host, conf, flag, install, begun, hostEdits, kills, left, trampled>>

Hosts == {"claude-code", "codex", "cursor", "json", "tool"}

(* An element of a hook list: somebody else's, landfall's as it is written *)
(* today, as an earlier version wrote it, or edited since.                 *)
Element == {"theirs", "ours", "stale", "edited"}
IsOurs(x) == x \in {"ours", "stale", "edited"}

(* The person's: landfall never writes these again, nor takes them away.   *)
Persons == {"theirs", "edited"}

registrations(h) ==
  CASE h = "claude-code" -> {"stop", "prompt"}
    [] h \in {"codex", "cursor"} -> {"stop"}
    [] OTHER -> {}

Events == {"stop", "prompt"}
HostFiles ==
  [ok : BOOLEAN, list : [Events -> Seq(Element)],
   key : {"none", "theirs", "stale", "ours"}, version : {"none", "theirs", "ours"}]

-----------------------------------------------------------------------------
(* Deciding: what one list, and the file as a whole, is found to be. *)

Has(list, x) == \E i \in DOMAIN list : list[i] = x

Classify(list) ==
  IF Has(list, "stale") THEN "outdated"
  ELSE IF Has(list, "ours") THEN "present"
  ELSE IF \E i \in DOMAIN list : IsOurs(list[i]) THEN "conflict"
  ELSE "absent"

States(h, f) == {Classify(f.list[e]) : e \in registrations(h)}

PlanHookInstall(h, f) ==
  IF "conflict" \in States(h, f) THEN "conflict"
  ELSE IF States(h, f) \cap {"absent", "outdated"} # {} THEN "write"
  ELSE "already-installed"

PlanHookUninstall(h, f) ==
  IF States(h, f) \cap {"present", "outdated"} # {} THEN "remove"
  ELSE IF "conflict" \in States(h, f) THEN "left-in-place"
  ELSE "not-installed"

(* The single key; only Claude Code's has a form an earlier version wrote. *)
planStatusLine(f) ==
  CASE f.key \in {"none", "stale"} -> "write"
    [] f.key = "ours" -> "already-installed"
    [] OTHER -> "conflict"

PlanUninstall(f) ==
  CASE f.key = "none" -> "not-installed"
    [] f.key = "ours" -> "remove"
    [] OTHER -> "left-in-place"

-----------------------------------------------------------------------------
(* Writing: a list, and the whole file, with one surface changed. *)

(* (Mutant: every old entry becomes today's.) *)
UpgradeEach(list) == [i \in DOMAIN list |-> IF list[i] = "stale" THEN "ours" ELSE list[i]]

(* The first entry of ours, old or current, stays where it is in today's   *)
(* form; the others go.                                                    *)
upgradeInPlace(list) ==
  LET mine(i) == list[i] \in {"stale", "ours"}
      first == CHOOSE i \in DOMAIN list : mine(i) /\ \A j \in 1..(i - 1) : ~mine(j)
      kept == Kept([i \in DOMAIN list |-> IF i = first THEN "first" ELSE list[i]],
                   Persons \cup {"first"})
  IN  [i \in DOMAIN kept |-> IF kept[i] = "first" THEN "ours" ELSE kept[i]]

Installed(list) ==
  CASE Classify(list) = "absent" -> Append(list, "ours")
    [] Classify(list) = "outdated" -> upgradeInPlace(list)
    [] OTHER -> list

Uninstalled(list) == Kept(list, Persons)

Lists(h, f, new) ==
  [f EXCEPT !.list =
     [e \in Events |-> IF e \in registrations(h) THEN new[e] ELSE f.list[e]]]

Rewritten(h, step, f) ==
  CASE step = "hooks" -> Lists(h, f, [e \in Events |-> Installed(f.list[e])])
    [] step = "unhook" -> Lists(h, f, [e \in Events |-> Uninstalled(f.list[e])])
    [] step = "key" -> [f EXCEPT !.key = "ours"]
    [] step = "unkey" -> [f EXCEPT !.key = "none"]
    [] step = "version" -> [f EXCEPT !.version = "ours"]

(* The person's part of a file, a text that does not parse included. *)
Theirs(f) ==
  [ok |-> f.ok, list |-> [e \in Events |-> Kept(f.list[e], Persons)],
   key |-> f.key = "theirs", version |-> f.version = "theirs"]

-----------------------------------------------------------------------------
(* A run. *)

Install(h) ==
  CASE h = "claude-code" -> <<"plan", "hooks", "key">>
    [] h = "codex" -> <<"hooks", "flag">>
    [] h = "cursor" -> <<"hooks", "version">>
    [] OTHER -> <<"plan", "key">>

Uninstall(h) ==
  CASE h = "claude-code" -> <<"peek", "unhook", "unkey">>
    [] h \in {"codex", "cursor"} -> <<"peek", "unhook">>
    [] OTHER -> <<"peek", "unkey">>

Blank ==
  [ok |-> TRUE, list |-> [e \in Events |-> <<>>], key |-> "none", version |-> "none"]
NoInstall ==
  [kind |-> "none", todo |-> <<>>, seen |-> Blank, reading |-> TRUE, said |-> {},
   wrote |-> FALSE, alone |-> FALSE]

Starts ==
  [ok : BOOLEAN, key : {"none", "theirs", "stale"}, version : {"none", "theirs"},
   list : [Events -> {<<>>, <<"theirs">>, <<"stale", "theirs">>, <<"stale", "ours">>}]]

InitInstall ==
  /\ host \in Hosts
  /\ conf \in {f \in Starts :
        /\ host # "claude-code" => f.list["prompt"] = <<>> /\ f.key # "stale"
        /\ host # "cursor" =>
             f.version = "none" /\ \A e \in Events : f.list[e] \in {<<>>, <<"theirs">>}
        /\ host \in {"codex", "cursor"} => f.key = "none"
        /\ host \in {"json", "tool"} => f.list["stop"] = <<>>}
  /\ flag \in IF host = "codex" THEN BOOLEAN ELSE {FALSE}
  /\ install = [r \in Installer |-> NoInstall]
  /\ begun = 0 /\ hostEdits = 0 /\ kills = 0
  /\ left = Theirs(conf) /\ trampled = FALSE

Running(r) == install[r].todo # <<>>
StepOf(r) == Head(install[r].todo)
Others(r) == {q \in Installer \ {r} : Running(q)}

(* Detect, selection and sign-in have passed; they write nothing. *)
BeginInstall(r, kind) ==
  /\ ~Running(r) /\ begun < MaxInstalls
  /\ begun' = begun + 1
  /\ install' = [q \in Installer |->
       IF q = r
       THEN [NoInstall EXCEPT !.kind = kind, !.alone = Others(r) = {},
                          !.todo = IF kind = "install" THEN Install(host)
                                   ELSE Uninstall(host)]
       ELSE IF Running(q) THEN [install[q] EXCEPT !.alone = FALSE] ELSE NoInstall]
  /\ UNCHANGED <<host, conf, flag, hostEdits, kills, left, trampled>>

(* The step is done, having reported `said`; or the run ends here. *)
Reports(r, said, rest) ==
  install' = [install EXCEPT ![r].said = @ \cup {said}, ![r].todo = rest,
                             ![r].reading = TRUE, ![r].seen = Blank]

(* The step goes on to write the file it has just read. *)
Goes(r) == install' = [install EXCEPT ![r].seen = conf, ![r].reading = FALSE]

(* A file that does not parse is never written; only a peek goes on past it. *)
Parsed(f) == f.ok

Plan(r) ==
  LET rest == Tail(install[r].todo)
      found == {planStatusLine(conf)} \cup {PlanHookInstall(host, conf)}
  IN  /\ StepOf(r) = "plan"
      /\ IF "conflict" \in found THEN Reports(r, "conflict", <<>>)
         ELSE IF found = {"already-installed"} THEN Reports(r, "already-installed", rest)
         ELSE Reports(r, "plan", rest)

(* HasEntry: is there anything of ours; of the key only in today's form. *)
HasEntry(r) ==
  /\ StepOf(r) = "peek"
  /\ IF PlanHookUninstall(host, conf) # "not-installed" \/ PlanUninstall(conf) # "not-installed"
     THEN Reports(r, "peek", Tail(install[r].todo))
     ELSE Reports(r, "not-installed", <<>>)

ReadHooks(r) ==
  LET rest == Tail(install[r].todo)
      found == IF StepOf(r) = "hooks" THEN PlanHookInstall(host, conf)
               ELSE PlanHookUninstall(host, conf)
  IN  /\ StepOf(r) \in {"hooks", "unhook"}
      /\ IF found \in {"write", "remove"} THEN Goes(r)
         ELSE IF host = "cursor" \/ (host = "codex" /\ found = "conflict")
         THEN Reports(r, found, <<>>)
         ELSE Reports(r, found, rest)

ReadKey(r) ==
  LET found == IF StepOf(r) = "key" THEN planStatusLine(conf) ELSE PlanUninstall(conf)
  IN  /\ StepOf(r) \in {"key", "unkey"}
      /\ IF found \in {"write", "remove"} THEN Goes(r)
         ELSE Reports(r, found, Tail(install[r].todo))

(* EnableFlagText: the root key is set, whatever it was. *)
SetFlag(r) ==
  /\ Running(r) /\ StepOf(r) = "flag"
  /\ flag' = TRUE
  /\ Reports(r, "flag", <<>>)
  /\ UNCHANGED <<host, conf, begun, hostEdits, kills, left, trampled>>

Read(r) ==
  /\ Running(r) /\ install[r].reading /\ StepOf(r) # "flag"
  /\ IF Parsed(conf) THEN Plan(r) \/ HasEntry(r) \/ ReadHooks(r) \/ ReadKey(r)
     ELSE IF StepOf(r) = "peek" THEN Reports(r, "peek", Tail(install[r].todo))
     ELSE Reports(r, "failed", <<>>)
  /\ UNCHANGED <<host, conf, flag, begun, hostEdits, kills, left, trampled>>

(* The file is written back; Cursor's version then goes into the data just *)
(* written, without another read.  A host's own command does the write by  *)
(* itself: it reads what is there.                                         *)
Write(r) ==
  LET from == IF host = "tool" THEN conf ELSE install[r].seen
      f == Rewritten(host, StepOf(r), from)
      rest == Tail(install[r].todo)
      stamps == rest # <<>> /\ Head(rest) = "version" /\ f.version = "none"
  IN  /\ Running(r) /\ ~install[r].reading
      /\ conf' = f
      /\ trampled' = (trampled \/ Theirs(install[r].seen) # Theirs(conf))
      /\ install' = [install EXCEPT
           ![r].seen = IF stamps THEN f ELSE Blank, ![r].reading = ~stamps,
           ![r].wrote = TRUE, ![r].said = @ \cup {"written"},
           ![r].todo = IF host = "cursor" /\ ~stamps THEN <<>> ELSE rest]
      /\ UNCHANGED <<host, flag, begun, hostEdits, kills, left>>

(* The process is killed, or a write (or the host's command) fails. *)
FailInstall(r) ==
  /\ Running(r) /\ kills < MaxKills
  /\ kills' = kills + 1
  /\ Reports(r, "failed", <<>>)
  /\ UNCHANGED <<host, conf, flag, begun, hostEdits, left, trampled>>

Edited ==
  LET AtList(e, s) == [conf EXCEPT !.list[e] = s]
  IN  {AtList(e, Append(conf.list[e], "theirs")) : e \in registrations(host)}
      \cup (UNION {{AtList(e, [conf.list[e] EXCEPT ![i] = "edited"]) :
                      i \in {j \in DOMAIN conf.list[e] : conf.list[e][j] = "ours"}} :
                   e \in registrations(host)})
      \cup (IF host \in {"codex", "cursor"} THEN {}
            ELSE {[conf EXCEPT !.key = k] : k \in {"none", "theirs"}})
      \cup {[conf EXCEPT !.ok = ~@]}

(* The person, or the host, edits the file or turns the flag off. *)
EditConfig ==
  /\ hostEdits < MaxHostEdits
  /\ hostEdits' = hostEdits + 1
  /\ \/ conf' \in Edited /\ flag' = flag
     \/ conf' = conf /\ flag /\ flag' = FALSE
  /\ left' = Theirs(conf')
  /\ install' = [q \in Installer |->
       IF Running(q) THEN [install[q] EXCEPT !.alone = FALSE] ELSE NoInstall]
  /\ UNCHANGED <<host, begun, kills, trampled>>

NextInstall ==
  \/ \E r \in Installer, kind \in {"install", "uninstall"} : BeginInstall(r, kind)
  \/ \E r \in Installer : Read(r) \/ SetFlag(r) \/ Write(r) \/ FailInstall(r)
  \/ EditConfig

-----------------------------------------------------------------------------
Finished(r) == install[r].kind # "none" /\ ~Running(r)

InstallTypeOK ==
  /\ host \in Hosts /\ conf \in HostFiles /\ flag \in BOOLEAN
  /\ \A r \in Installer :
       /\ install[r].kind \in {"none", "install", "uninstall"} /\ install[r].seen \in HostFiles
       /\ {install[r].reading, install[r].wrote, install[r].alone} \subseteq BOOLEAN
       /\ Running(r) => StepOf(r) \in {"plan", "peek", "hooks", "unhook", "key", "unkey",
                                     "flag", "version"}
  /\ <<begun, hostEdits, kills>> \in (0..MaxInstalls) \X (0..MaxHostEdits) \X (0..MaxKills)
  /\ left \in [ok : BOOLEAN, list : [Events -> Seq(Persons)],
               key : BOOLEAN, version : BOOLEAN]
  /\ trampled \in BOOLEAN

(* Whatever runs overlap, fail or are killed: what the person has in the   *)
(* file, their edits of landfall's own entries and a text that does not    *)
(* parse included, is as they left it, in their order; unless they edited  *)
(* it between a run's read and its write.                                  *)
UsersStay == ~trampled => Theirs(conf) = left

(* What a run says of a file nobody else touched meanwhile is so, also     *)
(* after runs that were killed half way: installed means every surface     *)
(* holds today's entry and no old one; uninstalled means none of them is   *)
(* left; a conflict means that not one byte was written.  And no list ever *)
(* holds landfall's entry twice, whatever runs overlap.                    *)
WhatItSaysIsSo ==
  /\ \A e \in Events :
       Cardinality({i \in DOMAIN conf.list[e] : conf.list[e][i] = "ours"}) <= 1
  /\ \A r \in Installer : Finished(r) /\ install[r].alone /\ "failed" \notin install[r].said =>
       /\ "conflict" \in install[r].said => ~install[r].wrote
       /\ install[r].kind = "install" /\ "conflict" \notin install[r].said =>
            /\ \A e \in registrations(host) :
                 Has(conf.list[e], "ours") /\ ~Has(conf.list[e], "stale")
            /\ host \notin {"codex", "cursor"} => conf.key = "ours"
            /\ host = "codex" => flag
       /\ install[r].kind = "uninstall" =>
            conf.key # "ours" /\ \A e \in Events :
                 ~Has(conf.list[e], "ours") /\ ~Has(conf.list[e], "stale")

(* Of an uninstall: nothing that an earlier version wrote is left.         *)
NothingOldIsLeft ==
  \A r \in Installer : Finished(r) /\ install[r].alone /\ install[r].kind = "uninstall"
    /\ "failed" \notin install[r].said => conf.key # "stale"

(* Of an install for Cursor: the file it leaves carries a schema version.  *)
AlwaysStamped ==
  \A r \in Installer : Finished(r) /\ install[r].alone /\ install[r].kind = "install" /\ host = "cursor"
    /\ install[r].said \cap {"failed", "conflict"} = {} => conf.version # "none"

(* The two together: what a run checks of this module.                     *)
InstallKeeps == UsersStay /\ WhatItSaysIsSo

SpecInstall == InitInstall /\ [][NextInstall]_installVars
=============================================================================
