----------------------------- MODULE MCMachine ------------------------------
(***************************************************************************)
(* What the commands and the processes of one machine share, checked side  *)
(* by side: the two journals, the hosts' configuration, the signed-in      *)
(* session, a connected account, what a person's command names, the policy *)
(* of the hooks, and what an agent is told of its shares.  A behaviour     *)
(* runs one of them; the others keep their initial state.                  *)
(***************************************************************************)
EXTENDS Share, Auth, Connect, Person, Policy, Install, MirrorFile, TLC

CONSTANTS a, b, p, q, r1, r2, other

VARIABLE part

Orgs == (r1 :> "ours") @@ (r2 :> "theirs")

(* Three hooks of a policy file: one that holds for a word, one that holds *)
(* unless one is there, and one that the reader drops.                     *)
MadeRule(id, allOf, noneOf, category, hints, bare) ==
  [id |-> id, command |-> "kubectl", allOf |-> allOf, noneOf |-> noneOf,
   category |-> category, hints |-> hints, bare |-> bare]
Prod == MadeRule("prod", {"prod"}, {}, "kubernetes", {"cluster"}, TRUE)
AnyWet == MadeRule("any", {}, {"dry"}, "cloud", {}, TRUE)
Broken == MadeRule("broken", {}, {}, "cloud", {"a b"}, FALSE)
ThreeFiles == {<<Prod>>, <<Broken, Prod>>, <<AnyWet, Prod>>}
OneRule == <<Prod>>
FourLines == {<<>>, <<"K=v", "kubectl", "production">>, <<"kubectl", "dry">>,
              <<"sudo", "kubectl", "production">>}
Words == {"K=v", "kubectl", "dry", "sudo"}
Holds == [w \in Words |-> {w}] @@ ("production" :> {"prod", "production"})

Symmetry == Permutations({a, b}) \cup Permutations({p, q})

Parts == {"spool", "mirror", "install", "auth", "connect", "person", "policy", "share"}

(* The parts that do not run are pinned to one initial state. *)
InitMachine ==
  /\ part \in Parts
  /\ Init /\ InitSpool /\ InitMirror /\ InitConnect
  /\ InitInstall /\ (part # "install" => host = "json" /\ conf = Blank)
  /\ InitAuth /\ (part # "auth" => credentials = NoFile /\ base = "none" /\ nominated = "none")
  /\ InitPolicy /\ (part # "policy" => file.is = "none")
  /\ InitPerson /\ (part # "person" => newest = r1 /\ \A r \in {r1, r2} :
                                      ~rooms[r].mine /\ rooms[r].subject = other)

NextMachine ==
  /\ UNCHANGED part
  /\ \/ part = "spool" /\ NextSpool
        /\ UNCHANGED <<mirrorVars, installVars, authVars, connectVars, personVars, policyVars, shareVars>>
     \/ part = "mirror" /\ NextMirror
        /\ UNCHANGED <<spoolVars, installVars, authVars, connectVars, personVars, policyVars, shareVars>>
     \/ part = "install" /\ NextInstall
        /\ UNCHANGED <<spoolVars, mirrorVars, authVars, connectVars, personVars, policyVars, shareVars>>
     \/ part = "auth" /\ NextAuth
        /\ UNCHANGED <<spoolVars, mirrorVars, installVars, connectVars, personVars, policyVars, shareVars>>
     \/ part = "connect" /\ NextConnect
        /\ UNCHANGED <<spoolVars, mirrorVars, installVars, authVars, personVars, policyVars, shareVars>>
     \/ part = "person" /\ NextPerson
        /\ UNCHANGED <<spoolVars, mirrorVars, installVars, authVars, connectVars, policyVars, shareVars>>
     \/ part = "policy" /\ NextPolicy
        /\ UNCHANGED <<spoolVars, mirrorVars, installVars, authVars, connectVars, personVars, shareVars>>
     \/ part = "share" /\ Next
        /\ UNCHANGED <<spoolVars, mirrorVars, installVars, authVars, connectVars, personVars, policyVars>>

SpecMachine ==
  InitMachine
  /\ [][NextMachine]_<<part, spoolVars, mirrorVars, installVars, authVars, connectVars,
                     personVars, policyVars, shareVars>>

(* The types of the part that runs. *)
MachineTypesOK ==
  CASE part = "spool" -> SpoolFileTypeOK
    [] part = "mirror" -> MirrorFileTypeOK
    [] part = "install" -> InstallTypeOK
    [] part = "auth" -> AuthTypeOK
    [] part = "connect" -> ConnectTypeOK
    [] part = "person" -> PersonTypeOK
    [] part = "policy" -> PolicyTypeOK
    [] part = "share" -> ShareTypeOK
=============================================================================
