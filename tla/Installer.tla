------------------------------ MODULE Installer ------------------------------
(***************************************************************************)
(* main of peios-install: from the arguments to "done".  One action per    *)
(* command that changes something and one per group of checks.  What the   *)
(* commands write goes to the place that is visible under /run/peios-      *)
(* install at that moment: the partition while it is mounted there, the    *)
(* live system's tmpfs otherwise.                                          *)
(*                                                                         *)
(* The package exchange (finish_medium_packages) is one action here with   *)
(* the outcomes module MediumSwap establishes; the disk tools, peipkg, reg,*)
(* cp, mkirf and mkuki are external and may fail.                          *)
(***************************************************************************)
EXTENDS Naturals

CONSTANTS
  Entry,       \* top-level directories of the live system
  Boot, Usr,   \* those holding the initramfs root and the kernel
  System,      \* the one holding the packed initramfs (/system/boot)
  Hive,        \* the one holding the live registry (/var)
  MaxFaults,   \* bound: failing commands in one behaviour
  MaxTerms,    \* bound: TERM signals
  MaxRuns      \* bound: invocations

ASSUME EntryAssumption  == {Boot, Usr, System, Hive} \subseteq Entry
ASSUME BoundsAssumption == {MaxFaults, MaxTerms} \subseteq Nat /\ MaxRuns \in Nat \ {0}

VARIABLES
  args,      \* [wholeDisk, force]
  live,      \* what the installer finds: needs and registry key (changes: key)
  table,     \* the disk's partition table: "foreign", "blank" or "ours"
  parts,     \* per partition, whether the kernel shows a node for it
  mounted,   \* mounted[p]: partition p is mounted under /run/peios-install
  root,      \* per place, the tree under ROOT_MNT
  esp,       \* per place, the hooks packed into the UKI under ESP_MNT
  pc, todo,  \* where main is, and the entries its copy loop has left
  trapped,   \* `trap cleanup EXIT INT TERM` is in force
  faults, terms, runs,
  erased,    \* history: this invocation has wiped a table or a partition
  infoFailed \* history: a `reg info` failed for another reason than absence

machine  == <<args, live, table, parts, mounted>>
counters == <<faults, terms, runs, infoFailed>>
vars     == <<machine, root, esp, pc, todo, trapped, erased, counters>>

Partition == {"esp", "root"}
Place     == {"partition", "tmpfs"}
LiveHook  == "mount-root.sh"
DiskHook  == "mount-root-disk.sh"
Hook      == {LiveHook, DiskHook}

(* The archive and the UKI are images packed from a set of hooks: {H}, or  *)
(* {} while the file does not exist.                                       *)
NoImage == {}
Image   == {NoImage} \cup {{h} : h \in SUBSET Hook}

(* A tree: the entries copied, whether its hive defines the first-account  *)
(* service, the root-mount hooks of its initramfs root, the written        *)
(* cmdline and the hooks packed into its initramfs archive.                *)
EmptyTree == [entries |-> {}, key |-> FALSE, hooks |-> {}, cmdline |-> FALSE,
              archive |-> NoImage]

Here(p) == IF mounted[p] THEN "partition" ELSE "tmpfs"
Tree    == root[Here("root")]

(* Everything the swap needs: peipkg, its repository, exactly one kernel   *)
(* and the live initramfs archive.                                         *)
NeedsMet == live.peipkg /\ live.repo /\ live.kernels = 1 /\ live.initramfs
-----------------------------------------------------------------------------
Live == [peipkg : BOOLEAN, repo : BOOLEAN, kernels : 0..2, initramfs : BOOLEAN,
         busy : BOOLEAN, key : BOOLEAN]

Init ==
  /\ args \in [wholeDisk : BOOLEAN, force : BOOLEAN]
  /\ args.force => args.wholeDisk
  /\ live \in Live
  /\ table \in {"foreign", "blank", "ours"}
  /\ parts \in {[p \in Partition |-> b] : b \in BOOLEAN}
  /\ mounted = [p \in Partition |-> FALSE]
  /\ root = [x \in Place |-> EmptyTree]
  /\ esp = [x \in Place |-> NoImage]
  /\ pc = "start" /\ todo = Entry /\ trapped = FALSE /\ erased = FALSE
  /\ faults = 0 /\ terms = 0 /\ runs = 1 /\ infoFailed = FALSE

Goto(from, to) == pc = from /\ pc' = to

(* A group of checks: go on, or die.                                       *)
Check(from, ok, to) ==
  /\ Goto(from, IF ok THEN to ELSE "exiting")
  /\ UNCHANGED <<machine, root, esp, todo, trapped, erased, counters>>

Start == Check("start", TRUE, IF args.wholeDisk THEN "create" ELSE "devices")

Wiped == [esp  |-> [esp  EXCEPT !["partition"] = NoImage],
          root |-> [root EXCEPT !["partition"] = EmptyTree]]

(* part create refuses a disk in use and, unless forced, a table it did    *)
(* not write; otherwise everything on the disk is gone.                    *)
PartRefuses ==
  \/ table = "foreign" /\ ~args.force
  \/ live.busy \/ \E p \in Partition : mounted[p]

CreateTable ==
  /\ ~PartRefuses
  /\ Goto("create", "add")
  /\ table' = "ours"
  /\ parts' = [p \in Partition |-> FALSE]
  /\ root' = Wiped.root /\ esp' = Wiped.esp
  /\ erased' = TRUE
  /\ UNCHANGED <<args, live, mounted, todo, trapped, counters>>

PartitionRefused == PartRefuses /\ Check("create", FALSE, "add")

(* Two `part add`, after which the kernel shows both nodes or neither.     *)
AddPartitions ==
  /\ pc = "add"
  /\ \E seen \in BOOLEAN :
       /\ parts' = [p \in Partition |-> seen]
       /\ pc' = IF seen THEN "devices" ELSE "exiting"
  /\ UNCHANGED <<args, live, table, mounted, root, esp, todo, trapped, erased, counters>>

(* The test against /proc/mounts never fires.                              *)
DevicesUnguarded == Check("devices", \A p \in Partition : parts[p], "needs")

(* Both are block devices, neither is mounted anywhere.                    *)
CheckDevices ==
  Check("devices", ~live.busy /\ \A p \in Partition : parts[p] /\ ~mounted[p], "needs")

CheckNeeds == Check("needs", NeedsMet, "info")

(* `if reg info KEY`: any failure takes the branch that finds nothing to   *)
(* retire.                                                                 *)
RegInfo == Check("info", TRUE, IF live.key THEN "del" ELSE "mkfsEsp")

RegInfoFails ==
  /\ faults < MaxFaults
  /\ pc \in {"info", "verify"}
  /\ pc' = "mkfsEsp"
  /\ faults' = faults + 1
  /\ infoFailed' = TRUE
  /\ UNCHANGED <<machine, root, esp, todo, trapped, erased, terms, runs>>

(* reg del may report success and leave the key.                           *)
RegDel ==
  /\ Goto("del", "verify")
  /\ \E left \in BOOLEAN : live' = [live EXCEPT !.key = left]
  /\ UNCHANGED <<args, table, parts, mounted, root, esp, todo, trapped, erased, counters>>

RegVerify == Check("verify", ~live.key, "mkfsEsp")

MkfsEsp ==
  /\ Goto("mkfsEsp", "mkfsRoot")
  /\ esp' = Wiped.esp
  /\ erased' = TRUE
  /\ UNCHANGED <<machine, root, todo, trapped, counters>>

MkfsRoot ==
  /\ Goto("mkfsRoot", "setTrap")
  /\ root' = Wiped.root
  /\ erased' = TRUE
  /\ UNCHANGED <<machine, esp, todo, trapped, counters>>

(* mkdir of the mountpoints, trap cleanup EXIT INT TERM.                   *)
SetTrap ==
  /\ Goto("setTrap", "mountRoot")
  /\ trapped' = TRUE
  /\ UNCHANGED <<machine, root, esp, todo, erased, counters>>

Mount(p, from, to) ==
  /\ Goto(from, to)
  /\ mounted' = [mounted EXCEPT ![p] = TRUE]
  /\ UNCHANGED <<args, live, table, parts, root, esp, todo, trapped, erased, counters>>

MountRoot == Mount("root", "mountRoot", "mountEsp")
MountEsp  == Mount("esp", "mountEsp", "copy")

(* A write under ROOT_MNT, at whatever is mounted there now.               *)
Write(tree) == root' = [root EXCEPT ![Here("root")] = tree]

(* What the copy of one entry makes of the tree.  The initramfs root brings*)
(* the live hook along, /system the archive the live system booted from,   *)
(* the hive the key if it is still there; mountpoints come empty.          *)
Copied(e) ==
  [Tree EXCEPT !.entries = @ \cup {e},
               !.key     = @ \/ (e = Hive /\ live.key),
               !.hooks   = IF e = Boot THEN @ \cup {LiveHook} ELSE @,
               !.archive = IF e = System THEN {{LiveHook}} ELSE @]

CopyEntry(e) ==
  /\ pc = "copy" /\ e \in todo
  /\ todo' = todo \ {e}
  /\ Write(Copied(e))
  /\ UNCHANGED <<machine, esp, pc, trapped, erased, counters>>

(* A copy that fails has left a part of its entry behind.                  *)
CopyFails(e) ==
  /\ Goto("copy", "exiting") /\ e \in todo
  /\ faults < MaxFaults
  /\ faults' = faults + 1
  /\ Write([Copied(e) EXCEPT !.entries = Tree.entries])
  /\ UNCHANGED <<machine, esp, todo, trapped, erased, terms, runs, infoFailed>>

CopyDone == todo = {} /\ Check("copy", TRUE, "finish")

(* finish_medium_packages swaps the packages, or dies with any part of the *)
(* exchange done.  Which hooks the package manager really left is its own  *)
(* affair: a swap that succeeds may have removed nothing, or placed        *)
(* nothing; over the pieces of a copy (a TERM came in the middle of it) it *)
(* may do either, and failing there is no fault.                           *)
Swap ==
  /\ Goto("finish", "cmdline")
  /\ \E left \in SUBSET Hook : Write([Tree EXCEPT !.hooks = left])
  /\ UNCHANGED <<machine, esp, todo, trapped, erased, counters>>

SwapDies ==
  LET cost == IF Tree.entries = Entry THEN 1 ELSE 0 IN
  /\ Goto("finish", "exiting")
  /\ faults + cost <= MaxFaults
  /\ faults' = faults + cost
  /\ \E left \in SUBSET Hook : Write([Tree EXCEPT !.hooks = left])
  /\ UNCHANGED <<machine, esp, todo, trapped, erased, terms, runs, infoFailed>>

(* disk-boot's template, which comes with its hook, and the UUID.          *)
Template == DiskHook \in Tree.hooks

WriteCmdline ==
  /\ Template
  /\ Goto("cmdline", "mkirf")
  /\ Write([Tree EXCEPT !.cmdline = TRUE])
  /\ UNCHANGED <<machine, esp, todo, trapped, erased, counters>>

NoTemplate == ~Template /\ Check("cmdline", FALSE, "mkirf")

(* The archive is packed whatever hooks the tree holds.                    *)
MkirfUnguarded ==
  /\ Goto("mkirf", "mkuki")
  /\ Write([Tree EXCEPT !.archive = {Tree.hooks}])
  /\ UNCHANGED <<machine, esp, todo, trapped, erased, counters>>

Swapped == Tree.hooks = {DiskHook}

(* disk-boot's hook present and live-boot's absent, then mkirf.            *)
Mkirf ==
  /\ Swapped
  /\ Goto("mkirf", "mkuki")
  /\ Write([Tree EXCEPT !.archive = {Tree.hooks}])
  /\ UNCHANGED <<machine, esp, todo, trapped, erased, counters>>

HooksWrong == ~Swapped /\ Check("mkirf", FALSE, "mkuki")

(* Kernel, archive and cmdline are read from the target.                   *)
Inputs == Usr \in Tree.entries /\ Tree.archive # NoImage /\ Tree.cmdline

(* The initramfs is taken from the live system. *)
MkukiFromLive ==
  /\ Inputs
  /\ Goto("mkuki", "finished")
  /\ esp' = [esp EXCEPT ![Here("esp")] = {{LiveHook}}]
  /\ UNCHANGED <<machine, root, todo, trapped, erased, counters>>

Mkuki ==
  /\ Inputs
  /\ Goto("mkuki", "finished")
  /\ esp' = [esp EXCEPT ![Here("esp")] = Tree.archive]
  /\ UNCHANGED <<machine, root, todo, trapped, erased, counters>>

MkukiFails == ~Inputs /\ Check("mkuki", FALSE, "finished")
-----------------------------------------------------------------------------
Running == {"start", "create", "add", "devices", "needs", "info", "del", "verify",
            "mkfsEsp", "mkfsRoot", "setTrap", "mountRoot", "mountEsp", "copy", "cmdline",
            "mkirf", "mkuki"}

(* Any command fails: set -e or die.  A tool that wipes may have wiped.    *)
CommandFails ==
  /\ pc \in Running
  /\ faults < MaxFaults
  /\ faults' = faults + 1
  /\ pc' = "exiting"
  /\ IF pc \in {"create", "mkfsEsp", "mkfsRoot"} /\ ~(pc = "create" /\ PartRefuses)
       THEN /\ root' = IF pc = "mkfsEsp"  THEN root ELSE Wiped.root
            /\ esp'  = IF pc = "mkfsRoot" THEN esp  ELSE Wiped.esp
            /\ erased' = TRUE
       ELSE UNCHANGED <<root, esp, erased>>
  /\ UNCHANGED <<machine, todo, trapped, terms, runs, infoFailed>>

NothingMounted == [p \in Partition |-> FALSE]

(* cleanup: two umounts, each of which may fail unnoticed (`|| true`).     *)
Cleanup ==
  \E stuck \in SUBSET {p \in Partition : mounted[p]} :
    LET cost == IF stuck = {} THEN 0 ELSE 1 IN
    /\ faults + cost <= MaxFaults
    /\ faults' = faults + cost
    /\ mounted' = [p \in Partition |-> p \in stuck]

(* The shell exits and runs cleanup if the trap is set.                    *)
ExitTrap ==
  /\ pc \in {"exiting", "finished"}
  /\ pc' = IF pc = "finished" THEN "done" ELSE "failed"
  /\ IF trapped THEN Cleanup ELSE UNCHANGED <<mounted, faults>>
  /\ UNCHANGED <<args, live, table, parts, root, esp, todo, trapped, erased, terms, runs,
                 infoFailed>>

(* TERM.  Untrapped it ends the shell; trapped, the shell waits for the    *)
(* command in hand, runs cleanup and carries on with the next one.         *)
Term ==
  /\ pc \in Running \cup {"finish", "finished"}
  /\ terms < MaxTerms
  /\ terms' = terms + 1
  /\ IF trapped THEN Cleanup /\ UNCHANGED pc
                ELSE pc' = "failed" /\ UNCHANGED <<mounted, faults>>
  /\ UNCHANGED <<args, live, table, parts, root, esp, todo, trapped, erased, runs,
                 infoFailed>>

(* SIGKILL: no trap runs.                                                  *)
Kill ==
  /\ pc \in Running \cup {"finish"}
  /\ faults < MaxFaults
  /\ faults' = faults + 1
  /\ pc' = "killed"
  /\ UNCHANGED <<machine, root, esp, todo, trapped, erased, terms, runs, infoFailed>>

(* The machine boots the medium again: the live root is a fresh overlay.   *)
Reboot ==
  /\ pc \in {"failed", "killed"}
  /\ pc' = "rebooted"
  /\ mounted' = NothingMounted
  /\ \E key \in BOOLEAN : live' = [live EXCEPT !.key = key, !.busy = FALSE]
  /\ root' = [root EXCEPT !["tmpfs"] = EmptyTree]
  /\ esp' = [esp EXCEPT !["tmpfs"] = NoImage]
  /\ UNCHANGED <<args, table, parts, todo, trapped, erased, counters>>

(* The operator runs the installer again.                                  *)
Rerun ==
  /\ pc \in {"failed", "killed", "rebooted"}
  /\ runs < MaxRuns
  /\ runs' = runs + 1
  /\ pc' = "start" /\ todo' = Entry /\ trapped' = FALSE /\ erased' = FALSE
  /\ \E a \in [wholeDisk : BOOLEAN, force : BOOLEAN] :
       (a.force => a.wholeDisk) /\ args' = a
  /\ UNCHANGED <<live, table, parts, mounted, root, esp, faults, terms, infoFailed>>

Next == \/ Start \/ CreateTable \/ PartitionRefused \/ AddPartitions
        \/ CheckDevices \/ CheckNeeds
        \/ RegInfo \/ RegInfoFails \/ RegDel \/ RegVerify
        \/ MkfsEsp \/ MkfsRoot \/ SetTrap \/ MountRoot \/ MountEsp
        \/ (\E e \in Entry : CopyEntry(e) \/ CopyFails(e)) \/ CopyDone
        \/ Swap \/ SwapDies \/ WriteCmdline \/ NoTemplate
        \/ Mkirf \/ HooksWrong \/ Mkuki \/ MkukiFails
        \/ CommandFails \/ ExitTrap \/ Term \/ Kill \/ Reboot \/ Rerun

Spec == Init /\ [][Next]_vars
-----------------------------------------------------------------------------
Tree0 == [entries : SUBSET Entry, key : BOOLEAN, hooks : SUBSET Hook, cmdline : BOOLEAN,
          archive : Image]

(* Every variable keeps its type; only partitions the kernel shows are     *)
(* ever mounted.                                                           *)
TypeOK ==
  /\ args \in [wholeDisk : BOOLEAN, force : BOOLEAN]
  /\ live \in Live
  /\ table \in {"foreign", "blank", "ours"}
  /\ parts \in [Partition -> BOOLEAN] /\ mounted \in [Partition -> BOOLEAN]
  /\ \A p \in Partition : mounted[p] => parts[p]
  /\ root \in [Place -> Tree0]
  /\ esp \in [Place -> Image]
  /\ pc \in Running \cup {"finish", "finished", "exiting", "done", "failed", "killed",
                          "rebooted"}
  /\ todo \subseteq Entry
  /\ {trapped, erased, infoFailed} \subseteq BOOLEAN
  /\ faults \in 0..MaxFaults /\ terms \in 0..MaxTerms /\ runs \in 1..MaxRuns

(* What the installed machine boots from: a whole copy with disk-boot's    *)
(* hook alone, its cmdline, and a UKI packed from that same initramfs.     *)
Installed ==
  /\ root["partition"].entries = Entry
  /\ root["partition"].hooks = {DiskHook}
  /\ root["partition"].cmdline
  /\ esp["partition"] = {root["partition"].hooks}

(* "done" is reported only over a disk that boots, whatever failed before  *)
(* in this or an earlier invocation (unless TERM came: see below), and     *)
(* never over one that carries the first-account service, as long as reg   *)
(* info fails only for an absent key.                                      *)
DoneMeansInstalled ==
  pc = "done" =>
    /\ terms = 0 => Installed
    /\ infoFailed \/ ~root["partition"].key

(* No UKI, on the ESP or in the tmpfs, is packed from live-boot's hook or  *)
(* from no hook (the checks of lines 634-638), although the target starts  *)
(* with the live system's archive under the name mkuki reads.  One TERM    *)
(* does not change that.  Two do: the first invocation's copy goes to the  *)
(* tmpfs, archive included, and when the second invocation is unmounted    *)
(* between mkirf and mkuki, that is the archive mkuki finds.               *)
UkiHasDiskHookOnly == terms <= 1 => \A x \in Place : esp[x] \subseteq {{DiskHook}}

(* Neither partition is mounted, here or elsewhere, while it is formatted, *)
(* also after an invocation that was killed with both still mounted; and   *)
(* named partitions are wiped only when everything the swap needs has been *)
(* found (the checks of lines 343-383).                                    *)
FormatsOnlyWhenReady ==
  /\ pc \in {"mkfsEsp", "mkfsRoot"} => ~live.busy /\ mounted = NothingMounted
  /\ erased /\ ~args.wholeDisk => NeedsMet

(* What "done" says to the operator, TERM or not.                          *)
DoneIsDone == pc = "done" => Installed

(* "Verified rather than assumed": a target never carries the service.     *)
RetirementVerified == pc = "done" => ~root["partition"].key
=============================================================================
