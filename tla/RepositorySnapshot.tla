------------------------- MODULE RepositorySnapshot -------------------------
(***************************************************************************)
(* snapshot-repository.py: the targets of one job, each with a process of  *)
(* its own, freeze the metadata of the native repository beneath the job's *)
(* state directory, while a publisher (peipkg-repo publish, external)      *)
(* replaces it.  A generation's descriptor and its index are two files:    *)
(* whoever reads between the two writes holds a torn pair.                 *)
(***************************************************************************)
EXTENDS Naturals

CONSTANTS
  Target, None,
  MaxPublished,   \* bound: publications
  MaxRuns         \* bound: runs of the script per target

VARIABLES
  source,      \* [repo, index]: the generation of each in the repository
  publishing,  \* the publisher holds the exclusive lock
  snapshot,    \* native-repository: [repo, index], or None
  pc,          \* target |-> where its process stands
  copy,        \* target |-> its temporary directory, or None
  runs,        \* target |-> runs begun
  answers      \* target |-> the snapshot it printed, or None

own == <<pc, copy, runs>>
vars == <<source, publishing, snapshot, own, answers>>

Init ==
  /\ source = [repo |-> 0, index |-> 0] /\ publishing = FALSE
  /\ snapshot = None
  /\ pc = [t \in Target |-> "idle"] /\ copy = [t \in Target |-> None]
  /\ runs = [t \in Target |-> 0] /\ answers = [t \in Target |-> None]

Holders == {t \in Target : pc[t] \in {"locked", "half"}}

Goto(t, place) == pc' = [pc EXCEPT ![t] = place]

-----------------------------------------------------------------------------
(* The publisher rewrites the descriptor, then the index.                  *)

BeginPublish ==
  /\ ~publishing /\ Holders = {} /\ source.repo < MaxPublished
  /\ publishing' = TRUE
  /\ source' = [source EXCEPT !.repo = @ + 1]
  /\ UNCHANGED <<snapshot, own, answers>>

EndPublish ==
  /\ publishing
  /\ publishing' = FALSE
  /\ source' = [source EXCEPT !.index = source.repo]
  /\ UNCHANGED <<snapshot, own, answers>>

-----------------------------------------------------------------------------
(* A target's first run, or another after one that failed or died.         *)
Start(t) ==
  /\ pc[t] \in {"idle", "failed"} /\ runs[t] < MaxRuns
  /\ runs' = [runs EXCEPT ![t] = @ + 1]
  /\ Goto(t, "look")
  /\ UNCHANGED <<source, publishing, snapshot, copy, answers>>

Look(t) ==
  /\ pc[t] = "look"
  /\ IF snapshot # None
       THEN Goto(t, "print") /\ UNCHANGED copy
       ELSE Goto(t, "lock") /\ copy' = [copy EXCEPT ![t] = [repo |-> None, index |-> None]]
  /\ UNCHANGED <<source, publishing, snapshot, runs, answers>>

(* The shared lock is not waited for. *)
LockAnyway(t) ==
  /\ pc[t] = "lock"
  /\ Goto(t, "locked")
  /\ UNCHANGED <<source, publishing, snapshot, copy, runs, answers>>

(* The shared lock is granted while no publisher holds the exclusive one.  *)
Lock(t) ==
  /\ pc[t] = "lock" /\ ~publishing
  /\ Goto(t, "locked")
  /\ UNCHANGED <<source, publishing, snapshot, copy, runs, answers>>

CopyDescriptor(t) ==
  /\ pc[t] = "locked"
  /\ copy' = [copy EXCEPT ![t].repo = source.repo]
  /\ Goto(t, "half")
  /\ UNCHANGED <<source, publishing, snapshot, runs, answers>>

(* The index and the keys; the lock is released as the file closes.        *)
CopyIndex(t) ==
  /\ pc[t] = "half"
  /\ copy' = [copy EXCEPT ![t].index = source.index]
  /\ Goto(t, "copied")
  /\ UNCHANGED <<source, publishing, snapshot, runs, answers>>

(* A directory is not renamed onto one that has entries: the target that   *)
(* comes second fails.  The copy is removed on every way out but success.  *)
Rename(t) ==
  /\ pc[t] = "copied"
  /\ IF snapshot = None
       THEN snapshot' = copy[t] /\ Goto(t, "print")
       ELSE Goto(t, "failed") /\ UNCHANGED snapshot
  /\ copy' = [copy EXCEPT ![t] = None]
  /\ UNCHANGED <<source, publishing, runs, answers>>

Report(t) ==
  /\ pc[t] = "print"
  /\ answers' = [answers EXCEPT ![t] = snapshot]
  /\ Goto(t, "done")
  /\ UNCHANGED <<source, publishing, snapshot, copy, runs>>

(* A copy fails: the finally clause removes the temporary directory.       *)
Fails(t) ==
  /\ pc[t] \in {"lock", "locked", "half", "copied"}
  /\ copy' = [copy EXCEPT ![t] = None]
  /\ Goto(t, "failed")
  /\ UNCHANGED <<source, publishing, snapshot, runs, answers>>

(* A kill leaves the temporary directory, of a name no other run will use; *)
(* the lock goes with the process.                                         *)
Dies(t) ==
  /\ pc[t] \in {"look", "lock", "locked", "half", "copied", "print"}
  /\ Goto(t, "failed")
  /\ UNCHANGED <<source, publishing, snapshot, copy, runs, answers>>

Next ==
  \/ BeginPublish \/ EndPublish
  \/ \E t \in Target :
       \/ Start(t) \/ Look(t) \/ Lock(t) \/ CopyDescriptor(t) \/ CopyIndex(t)
       \/ Rename(t) \/ Report(t) \/ Fails(t) \/ Dies(t)

Spec == Init /\ [][Next]_vars

-----------------------------------------------------------------------------
(* The absence of a file is neither a generation nor metadata.             *)
NoneIsApart == None \notin Nat /\ None \notin [repo : Nat \cup {None}, index : Nat \cup {None}]

Torn == MaxPublished + 1
Generation(metadata) ==
  IF metadata = None THEN None
  ELSE IF metadata.repo = metadata.index THEN metadata.repo ELSE Torn

Promise == INSTANCE FrozenRepository WITH
  published <- source.index,
  frozen    <- Generation(snapshot),
  answers   <- [t \in Target |-> Generation(answers[t])]

(* All targets of a job work on one published generation, whole, whatever  *)
(* is published meanwhile and wherever a target fails or is killed.        *)
(* (snapshot-repository.py's docstring and the comment at its lock)        *)
OneGenerationPerJob == Promise!Spec
=============================================================================
