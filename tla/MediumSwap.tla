----------------------------- MODULE MediumSwap -----------------------------
(***************************************************************************)
(* finish_medium_packages of peios-install: the target, a copy of the live *)
(* system, exchanges the packages that only make sense on the medium for   *)
(* disk-boot, and then forgets the medium's repository.  The function runs *)
(* as a sequence of peipkg commands and file operations, any of which can  *)
(* fail or be cut short by a kill; a checkpoint file on the target tells a *)
(* later invocation where to resume.                                       *)
(*                                                                         *)
(* Target state: the checkpoint and its temporary, the packages of the two *)
(* package roots, the medium repository's configuration file and database  *)
(* entry.  Process state: pc, what write_medium_checkpoint is writing and  *)
(* the two package listings.  peipkg itself is external: a command that is *)
(* cut short may have done any part of its work.                           *)
(***************************************************************************)
EXTENDS Naturals, Sequences

CONSTANTS
  Package,    \* package names
  LiveBoot, LiveBootIrf, DiskBoot, DiskBootIrf,
  BadName,    \* stands for every name the validation refuses
  Lists,      \* lists an image may declare: sequences of entries
  MaxFaults   \* bound: failed commands and kills in one behaviour

Scope == {"root", "initramfs"}

Entry == [scope : Scope \cup {"elsewhere"}, name : Package \cup {BadName},
          extra : BOOLEAN]

ASSUME PackageAssumption ==
  /\ {LiveBoot, LiveBootIrf, DiskBoot, DiskBootIrf} \subseteq Package
  /\ LiveBoot # DiskBoot /\ LiveBootIrf # DiskBootIrf
  /\ BadName \notin Package
ASSUME ListsAssumption  == Lists \subseteq Seq(Entry)
ASSUME FaultsAssumption == MaxFaults \in Nat

VARIABLES
  declared,   \* history: the file the image shipped
  finished,   \* history: an invocation has removed the checkpoint
  ckpt, tmp,  \* lcl/policy/medium-only-packages and its .tmp
  installed,  \* per scope, the packages in that root's database
  repoConfig, \* the medium's .repo file is on the target
  repoEntry,  \* the medium has an entry in the target's database
  pc,
  pending,    \* content write_medium_checkpoint is about to put in place
  listing,    \* per scope, what `peipkg list` printed
  faults

target == <<ckpt, tmp, installed, repoConfig, repoEntry>>
vars   == <<declared, finished, target, pc, pending, listing, faults>>
-----------------------------------------------------------------------------
(* Contents of the checkpoint file.                                        *)

File(header, body) == [header |-> header, body |-> body]
Absent   == File("absent", <<>>)
Partial  == File("partial", <<>>)      \* a .tmp whose printf was cut short
Complete == File("complete-v1", <<>>)
ListFile(l) == File("v1", l)

DefaultList ==
  <<[scope |-> "root",      name |-> LiveBoot,    extra |-> FALSE],
    [scope |-> "initramfs", name |-> LiveBootIrf, extra |-> FALSE]>>

(* What an image may ship: nothing, a list, a file with an unknown header, *)
(* or a completion marker with something after it.                         *)
Shipped == {Absent, File("unsupported", <<>>)}
             \cup {ListFile(l) : l \in Lists}
             \cup {File("complete-v1", l) : l \in Lists \ {<<>>}}

Content == Shipped \cup {ListFile(DefaultList), Complete, Partial}

(* validate_medium_packages: header, root, no extra field, name, no        *)
(* duplicate.                                                              *)
Valid(f) ==
  /\ f.header = "v1"
  /\ \A i \in DOMAIN f.body :
       /\ f.body[i].scope \in Scope
       /\ ~f.body[i].extra
       /\ f.body[i].name # BadName
       /\ \A j \in DOMAIN f.body :
            f.body[i].scope = f.body[j].scope /\ f.body[i].name = f.body[j].name
              => i = j

(* ma_system and ma_irf: the names a list gives for one root.              *)
Wanted(s, f) == {f.body[i].name : i \in {j \in DOMAIN f.body : f.body[j].scope = s}}

Unlisted == {}   \* a listing not taken, or of a root with nothing installed
-----------------------------------------------------------------------------
Init ==
  /\ declared \in Shipped
  /\ finished = FALSE
  /\ ckpt = declared
  /\ tmp = Absent
  /\ installed \in [Scope -> SUBSET Package]
  /\ LiveBoot \in installed["root"] /\ DiskBoot \notin installed["root"]
  /\ LiveBootIrf \in installed["initramfs"] /\ DiskBootIrf \notin installed["initramfs"]
  /\ repoConfig = TRUE
  /\ repoEntry = FALSE
  /\ pc = "begin"
  /\ pending = Absent
  /\ listing = [s \in Scope |-> Unlisted]
  /\ faults = 0

Goto(from, to) == pc = from /\ pc' = to

(* Fault-seeded variants of a definition stand before it, named after the  *)
(* slip they make; the specification does not use them.                    *)

(* The test that a checkpoint exists is dropped.                           *)
BeginAfresh ==
  /\ Goto("begin", "writeTmp")
  /\ pending' = ListFile(DefaultList)
  /\ UNCHANGED <<declared, finished, target, listing, faults>>

(* No checkpoint: write the default list first.                            *)
Begin ==
  /\ pc = "begin"
  /\ IF ckpt = Absent
       THEN pc' = "writeTmp" /\ pending' = ListFile(DefaultList)
       ELSE pc' = "read" /\ UNCHANGED pending
  /\ UNCHANGED <<declared, finished, target, listing, faults>>

WriteTmp ==
  /\ Goto("writeTmp", "moveTmp")
  /\ tmp' = pending
  /\ UNCHANGED <<declared, finished, ckpt, installed, repoConfig, repoEntry, pending, listing, faults>>

MoveTmp ==
  /\ Goto("moveTmp", IF pending = Complete THEN "removeConfig" ELSE "read")
  /\ ckpt' = tmp
  /\ tmp' = Absent
  /\ UNCHANGED <<declared, finished, installed, repoConfig, repoEntry, pending, listing, faults>>

(* The header decides: a completed swap resumes at the cleanup, a valid    *)
(* list at the swap, anything else dies.                                   *)
Read ==
  /\ pc = "read"
  /\ pc' = IF ckpt = Complete THEN "removeConfig"
           ELSE IF Valid(ckpt) THEN "repoAdd" ELSE "failed"
  /\ UNCHANGED <<declared, finished, target, pending, listing, faults>>

RepoAdd ==
  /\ Goto("repoAdd", IF repoConfig THEN "listRoot" ELSE "failed")
  /\ repoEntry' = (repoEntry \/ repoConfig)
  /\ UNCHANGED <<declared, finished, ckpt, tmp, installed, repoConfig, pending, listing, faults>>

(* Both roots are listed before anything is removed; a root the list does  *)
(* not mention is not asked.                                               *)
List(s, from, to) ==
  /\ Goto(from, to)
  /\ listing' = [listing EXCEPT ![s] = IF Wanted(s, ckpt) = {} THEN Unlisted
                                       ELSE installed[s]]
  /\ UNCHANGED <<declared, finished, target, pending, faults>>

ListRoot      == List("root", "listRoot", "listInitramfs")
ListInitramfs == List("initramfs", "listInitramfs", "removeRoot")

(* remove_medium_scope: one uninstall of every wanted package the listing  *)
(* showed, or nothing when there is none.                                  *)
DoomedByName(s) == UNION {Wanted(r, ckpt) : r \in Scope} \cap listing[s]

Doomed(s) == Wanted(s, ckpt) \cap listing[s]

Remove(s, from, to) ==
  /\ Goto(from, to)
  /\ installed' = [installed EXCEPT ![s] = @ \ Doomed(s)]
  /\ UNCHANGED <<declared, finished, ckpt, tmp, repoConfig, repoEntry, pending, listing, faults>>

(* `peipkg uninstall ... || true`. *)
RemoveRootOrNot ==
  \/ Remove("root", "removeRoot", "removeInitramfs")
  \/ /\ Goto("removeRoot", "removeInitramfs")
     /\ UNCHANGED <<declared, finished, target, pending, listing, faults>>

RemoveRoot      == Remove("root", "removeRoot", "removeInitramfs")
RemoveInitramfs == Remove("initramfs", "removeInitramfs", "install")

(* disk-boot brings disk-boot-irf into the initramfs root, which conflicts *)
(* with live-boot-irf; both come from the medium's repository.             *)
Installable == repoConfig /\ repoEntry /\ LiveBootIrf \notin installed["initramfs"]

Halves == [root |-> {DiskBoot}, initramfs |-> {DiskBootIrf}]

(* A failed install does not end the invocation. *)
InstallUnchecked ==
  /\ Goto("install", "removeConfig")
  /\ UNCHANGED <<declared, finished, target, pending, listing, faults>>

(* The repository is removed before the completion marker is written. *)
InstallUnmarked ==
  /\ Goto("install", IF Installable THEN "removeConfig" ELSE "failed")
  /\ installed' = IF Installable THEN [s \in Scope |-> installed[s] \cup Halves[s]]
                                 ELSE installed
  /\ UNCHANGED <<declared, finished, ckpt, tmp, repoConfig, repoEntry, pending, listing, faults>>

Install ==
  /\ Goto("install", IF Installable THEN "writeTmp" ELSE "failed")
  /\ IF Installable
       THEN /\ installed' = [s \in Scope |-> installed[s] \cup Halves[s]]
            /\ pending' = Complete
       ELSE UNCHANGED <<installed, pending>>
  /\ UNCHANGED <<declared, finished, ckpt, tmp, repoConfig, repoEntry, listing, faults>>

(* peipkg repo remove: configuration first, then the database entry.       *)
RemoveConfig ==
  /\ Goto("removeConfig", "removeEntry")
  /\ repoConfig' = FALSE
  /\ UNCHANGED <<declared, finished, ckpt, tmp, installed, repoEntry, pending, listing, faults>>

RemoveEntry ==
  /\ Goto("removeEntry", "rmCheckpoint")
  /\ repoEntry' = FALSE
  /\ UNCHANGED <<declared, finished, ckpt, tmp, installed, repoConfig, pending, listing, faults>>

RmCheckpoint ==
  /\ Goto("rmCheckpoint", "exit")
  /\ ckpt' = Absent
  /\ finished' = TRUE
  /\ UNCHANGED <<declared, tmp, installed, repoConfig, repoEntry, pending, listing, faults>>

Exit ==
  /\ Goto("exit", "done")
  /\ UNCHANGED <<declared, finished, target, pending, listing, faults>>

Step == \/ Begin \/ WriteTmp \/ MoveTmp \/ Read \/ RepoAdd \/ ListRoot \/ ListInitramfs
        \/ RemoveRoot \/ RemoveInitramfs \/ Install
        \/ RemoveConfig \/ RemoveEntry \/ RmCheckpoint \/ Exit
-----------------------------------------------------------------------------
(* A command fails, or the installer is killed: whatever was running may   *)
(* have done part of its work, and no later step of this invocation runs.  *)
Fault ==
  /\ pc \notin {"failed", "done"}
  /\ faults < MaxFaults
  /\ faults' = faults + 1
  /\ pc' = "failed"
  /\ UNCHANGED <<declared, finished, pending, listing>>

FaultIdle == Fault /\ UNCHANGED target

(* The checkpoint is written in place. *)
FaultWritingInPlace ==
  /\ pc = "writeTmp"
  /\ Fault
  /\ ckpt' = Partial
  /\ UNCHANGED <<tmp, installed, repoConfig, repoEntry>>

FaultWriting ==
  /\ pc = "writeTmp"
  /\ Fault
  /\ tmp' = Partial
  /\ UNCHANGED <<ckpt, installed, repoConfig, repoEntry>>

FaultRemoving(s) ==
  /\ pc = IF s = "root" THEN "removeRoot" ELSE "removeInitramfs"
  /\ Fault
  /\ \E gone \in SUBSET Doomed(s) :
       installed' = [installed EXCEPT ![s] = @ \ gone]
  /\ UNCHANGED <<ckpt, tmp, repoConfig, repoEntry>>

FaultInstalling ==
  /\ pc = "install"
  /\ Installable
  /\ Fault
  /\ \E s \in Scope : installed' = [installed EXCEPT ![s] = @ \cup Halves[s]]
  /\ UNCHANGED <<ckpt, tmp, repoConfig, repoEntry>>

(* The phase is run again on the same target: what the checkpoint is kept  *)
(* for.  Nothing in the script does it (main formats the target before it  *)
(* comes here), so it may happen and is never assumed to.                  *)
Retry ==
  /\ Goto("failed", "begin")
  /\ pending' = Absent
  /\ listing' = [s \in Scope |-> Unlisted]
  /\ UNCHANGED <<declared, finished, target, faults>>

Next == \/ Step \/ Retry
        \/ FaultIdle \/ FaultWriting \/ FaultInstalling
        \/ \E s \in Scope : FaultRemoving(s)

Spec     == Init /\ [][Next]_vars
FairSpec == Spec /\ WF_vars(Step)
-----------------------------------------------------------------------------
PCs == {"begin", "writeTmp", "moveTmp", "read", "repoAdd", "listRoot", "listInitramfs",
        "removeRoot", "removeInitramfs", "install", "removeConfig", "removeEntry",
        "rmCheckpoint", "exit", "done", "failed"}

(* Every variable keeps its type; a checkpoint in place is never a file    *)
(* whose printf was cut short (write_medium_checkpoint renames a .tmp).    *)
TypeOK ==
  /\ declared \in Shipped /\ finished \in BOOLEAN
  /\ ckpt \in Content \ {Partial}
  /\ tmp \in Content
  /\ installed \in [Scope -> SUBSET Package]
  /\ repoConfig \in BOOLEAN /\ repoEntry \in BOOLEAN
  /\ pc \in PCs
  /\ pending \in {Absent, ListFile(DefaultList), Complete}
  /\ listing \in [Scope -> SUBSET Package]
  /\ faults \in 0..MaxFaults

(* disk-boot is in both roots and the list's medium-only packages are out. *)
Swapped(f) ==
  /\ \A s \in Scope : Halves[s] \subseteq installed[s]
  /\ \A s \in Scope : (Wanted(s, f) \ Halves[s]) \cap installed[s] = {}

(* The list the swap works from.                                           *)
Agreed == IF declared = Absent THEN ListFile(DefaultList) ELSE declared

(* The medium's repository stays configured until the swap is finished:    *)
(* whatever fails or is killed before that, a retry still has the          *)
(* repository it installs disk-boot from (finish_medium_packages).         *)
RepositoryKeptUntilSwapped == ~repoConfig => Swapped(Agreed)

(* A completion marker on the target means the swap really is complete, so *)
(* skipping repo add and install on a resumed run loses nothing.           *)
CompleteMeansSwapped == ckpt = Complete => Swapped(Agreed)

(* An image's own list is worked off, never displaced: a list that differs *)
(* from it appears on the target only after the whole phase had finished.  *)
DeclaredListNeverLost ==
  (declared # Absent /\ ckpt # declared /\ ckpt # Complete)
    => Swapped(declared) /\ ~repoConfig /\ ~repoEntry

(* A package leaves a root only if a well-formed list names it for that    *)
(* root, and only once this invocation has read the listing of every root  *)
(* the list mentions (apply_medium_packages asks both before it removes).  *)
OnlyListedRemoved ==
  [][\A s \in Scope : installed[s] \ installed'[s] # {} =>
       /\ Valid(ckpt)
       /\ installed[s] \ installed'[s] \subseteq Wanted(s, ckpt)
       /\ \A r \in Scope : Wanted(r, ckpt) # {} => installed[r] \subseteq listing[r]]_vars

(* Once the completion marker is in place, nothing is installed, removed   *)
(* or trusted again: a cleanup retry only forgets the repository.          *)
CleanupOnlyForgets ==
  [][ckpt = Complete => /\ installed' = installed
                        /\ ckpt' \in {Complete, Absent}
                        /\ repoEntry' => repoEntry
                        /\ repoConfig' => repoConfig]_vars

Clean == ckpt = Absent /\ ~repoConfig /\ ~repoEntry /\ Swapped(Agreed)

(* The list is one the phase can finish from: it is well formed and takes  *)
(* out the package that conflicts with disk-boot-irf.                      *)
Completable == Valid(Agreed) /\ LiveBootIrf \in Wanted("initramfs", Agreed)

(* An invocation that meets no further fault ends, and leaves the target   *)
(* clean, wherever the ones before it were cut short; unless one of those  *)
(* had already removed the checkpoint, and only then died: the next one    *)
(* takes the target for an untouched one and has no repository to add.     *)
FinishesUnlessCut ==
  \A n \in 0..MaxFaults :
    (Completable /\ ~finished /\ pc = "begin" /\ faults = n)
      ~> (faults > n \/ (pc = "done" /\ Clean))
=============================================================================
