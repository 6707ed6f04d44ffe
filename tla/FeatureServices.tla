-------------------------- MODULE FeatureServices --------------------------
(***************************************************************************)
(* feat-dynamic-boot: install.sh, enable.sh, disable.sh and uninstall.sh   *)
(* on the registry keys of the two watcher services.  Every script is two  *)
(* commands, one per service, and stops at the first that fails; it may be *)
(* killed between any two steps and run again.  reg is external: `reg set` *)
(* of an absent key creates it or is refused; `reg del` exits 2 for a key  *)
(* that is absent.  A recursive delete lists the key's descendants,        *)
(* deletes them and then the key, and exits 2 as well when a listed one is *)
(* gone before it gets there.  Others may delete keys and add descendants. *)
(***************************************************************************)
EXTENDS Naturals

CONSTANT MaxScripts     \* bound: scripts run

Service == {1, 2}       \* mkirf-watch, mkuki-watch, in the scripts' order
Key == {"absent", "disabled", "enabled"}
Script == {"install", "enable", "disable", "uninstall"}

VARIABLES
  key,       \* service |-> its key, and its Disabled flag
  child,     \* service |-> the key has a descendant
  script,    \* the script under way, or the last one
  pc,        \* "idle", a command's step, "done" or "failed"
  at,        \* the service of the command under way
  status,    \* what `reg del` exited with
  scripts    \* scripts run so far

vars == <<key, child, script, pc, at, status, scripts>>

Init ==
  /\ key = [s \in Service |-> "absent"] /\ child = [s \in Service |-> FALSE]
  /\ script = "none" /\ pc = "idle" /\ at = 1 /\ status = 0 /\ scripts = 0

Run(name) ==
  /\ pc \in {"idle", "done", "failed"} /\ scripts < MaxScripts
  /\ script' = name /\ pc' = "command" /\ at' = 1 /\ status' = 0
  /\ scripts' = scripts + 1
  /\ UNCHANGED <<key, child>>

\* The command for a service has succeeded, or ended the script (set -e).
NextService == IF at = 1 THEN pc' = "command" /\ at' = 2 ELSE pc' = "done" /\ UNCHANGED at
Fail == pc' = "failed" /\ UNCHANGED at

(* reg apply: the key with all its values, Disabled among them.            *)
Apply ==
  /\ pc = "command" /\ script = "install"
  /\ key' = [key EXCEPT ![at] = "disabled"]
  /\ NextService
  /\ UNCHANGED <<child, script, status, scripts>>

Flag == IF script = "enable" THEN "enabled" ELSE "disabled"

Set ==
  /\ pc = "command" /\ script \in {"enable", "disable"}
  /\ key' = [key EXCEPT ![at] = Flag]
  /\ NextService
  /\ UNCHANGED <<child, script, status, scripts>>

(* Any write may be refused (no authority over the hive, no such key).     *)
Refused ==
  /\ pc = "command"
  /\ Fail
  /\ UNCHANGED <<key, child, script, status, scripts>>

Killed ==
  /\ pc \in {"command", "descend", "info"}
  /\ Fail
  /\ UNCHANGED <<key, child, script, status, scripts>>

-----------------------------------------------------------------------------
(* remove_service.  reg del lists the descendants first.                   *)
List ==
  /\ pc = "command" /\ script = "uninstall"
  /\ IF key[at] = "absent" THEN status' = 2 /\ pc' = "info" /\ UNCHANGED <<key, at>>
     ELSE IF child[at] THEN pc' = "descend" /\ UNCHANGED <<key, at, status>>
     ELSE key' = [key EXCEPT ![at] = "absent"] /\ NextService /\ UNCHANGED status
  /\ UNCHANGED <<child, script, scripts>>

Descend ==
  /\ pc = "descend"
  /\ IF child[at]
       THEN /\ child' = [child EXCEPT ![at] = FALSE]
            /\ key' = [key EXCEPT ![at] = "absent"]
            /\ NextService /\ UNCHANGED status
       ELSE status' = 2 /\ pc' = "info" /\ UNCHANGED <<key, child, at>>
  /\ UNCHANGED <<script, scripts>>

\* Exit 2 is taken for an absent key.
InfoUnasked ==
  /\ pc = "info"
  /\ IF status = 2 THEN NextService ELSE Fail
  /\ UNCHANGED <<key, child, script, status, scripts>>

(* Exit 2 counts as removed only when the service's own key is gone.       *)
Info ==
  /\ pc = "info"
  /\ IF status = 2 /\ key[at] = "absent" THEN NextService ELSE Fail
  /\ UNCHANGED <<key, child, script, status, scripts>>

-----------------------------------------------------------------------------
(* Whoever else uses the registry.                                         *)
OthersAdd(s) ==
  /\ key[s] # "absent" /\ ~child[s]
  /\ child' = [child EXCEPT ![s] = TRUE]
  /\ UNCHANGED <<key, script, pc, at, status, scripts>>

OthersDelete(s) ==
  /\ key[s] # "absent"
  /\ child' = [child EXCEPT ![s] = FALSE]
  /\ key' \in {key, [key EXCEPT ![s] = "absent"]}
  /\ UNCHANGED <<script, pc, at, status, scripts>>

Next ==
  \/ \E name \in Script : Run(name)
  \/ Apply \/ Set \/ Refused \/ Killed
  \/ List \/ Descend \/ Info
  \/ \E s \in Service : OthersAdd(s) \/ OthersDelete(s)

Spec == Init /\ [][Next]_vars

-----------------------------------------------------------------------------
Contrary ==
  [install |-> {"enabled"}, enable |-> {"disabled"}, disable |-> {"enabled"},
   uninstall |-> {"enabled", "disabled"}]

(* A script that reports success speaks for both services, though it may   *)
(* have been interrupted before and others deleted keys under it: none is  *)
(* left in a state the script is there to end.  (uninstall.sh: "accept it  *)
(* only if this service key is absent")                                    *)
SuccessSpeaksForBoth ==
  pc = "done" => \A s \in Service : key[s] \notin Contrary[script]
=============================================================================
