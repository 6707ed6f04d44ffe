--------------------------- MODULE InstallerProofs ---------------------------
(***************************************************************************)
(* The safety properties of Installer, proved for every set of entries and *)
(* every number of faults, TERM signals and invocations.                   *)
(***************************************************************************)
EXTENDS Installer, TLAPS

(* The stretches of main.                                                  *)
Formatting == {"mkfsEsp", "mkfsRoot", "setTrap"}
Checked    == {"needs", "info", "del", "verify"} \cup Formatting
Mounting   == {"mountRoot", "mountEsp"}
Early      == {"start", "create", "add", "devices"} \cup Checked \cup Mounting
Filling    == {"copy", "finish", "cmdline", "mkirf", "mkuki", "finished"}

DiskHookOnly == {DiskHook}

Trapping ==
  /\ pc \in Mounting \cup Filling => trapped
  /\ pc \in {"start", "create", "add", "devices"} \cup Checked => ~trapped

(* What the checks before the formatting establish, and what of it lasts.  *)
Checks ==
  /\ pc = "create" => args.wholeDisk
  /\ pc = "add" => mounted = NothingMounted
  /\ pc \in Checked => ~live.busy /\ mounted = NothingMounted
  /\ pc \in Checked \cup Mounting => \A p \in Partition : parts[p]
  /\ pc \in Checked \ {"needs"} => NeedsMet
  /\ erased /\ ~args.wholeDisk => NeedsMet

(* The key is gone from the live registry before the target is formatted,  *)
(* and the formatted target never gets it.                                 *)
Retired ==
  infoFailed \/
    /\ pc \in Formatting \cup Mounting \cup Filling => ~live.key
    /\ pc \in {"setTrap", "done"} \cup Mounting \cup Filling => ~root["partition"].key

(* Until the copy begins it has every entry before it.                     *)
Begun == pc \in Early => todo = Entry

(* Before the first TERM the tmpfs is bare, so one that comes between mkirf*)
(* and mkuki leaves mkuki without a kernel.                                *)
Images ==
  /\ terms = 0 => root["tmpfs"] = EmptyTree
  /\ terms <= 1 /\ pc = "mkuki" =>
       Usr \notin Tree.entries \/ Tree.archive \subseteq {DiskHookOnly}
  /\ terms <= 1 => \A x \in Place : esp[x] \subseteq {DiskHookOnly}

(* Without TERM the target stays mounted, and holds what was written.      *)
Progress ==
  terms = 0 =>
    /\ pc \in {"mountEsp"} \cup Filling => mounted["root"]
    /\ pc \in Filling => mounted["esp"]
    /\ pc = "copy" => Entry \subseteq root["partition"].entries \cup todo
    /\ pc \in {"finish", "cmdline", "mkirf", "mkuki", "finished", "done"}
         => root["partition"].entries = Entry
    /\ pc \in {"mkirf", "mkuki", "finished", "done"} => root["partition"].cmdline
    /\ pc \in {"mkuki", "finished", "done"} =>
         root["partition"].hooks = DiskHookOnly /\ root["partition"].archive = {DiskHookOnly}
    /\ pc \in {"finished", "done"} => esp["partition"] = {DiskHookOnly}

IInv == TypeOK /\ Trapping /\ Begun /\ Checks /\ Retired /\ Images /\ Progress
-----------------------------------------------------------------------------
(* A tree that nothing was written to, and the places there are.           *)
LEMMA TreeFacts ==
  /\ EmptyTree \in Tree0 /\ EmptyTree.key = FALSE /\ EmptyTree.archive = {}
  /\ "partition" \in Place /\ "tmpfs" \in Place /\ "esp" \in Partition /\ "root" \in Partition
  /\ NoImage \in Image /\ NoImage = {}
  /\ NothingMounted \in [Partition -> BOOLEAN] /\ \A p \in Partition : ~NothingMounted[p]
BY DEF EmptyTree, Tree0, Place, Partition, NoImage, Image, NothingMounted

LEMMA HereFacts ==
  ASSUME TypeOK, NEW p \in Partition
  PROVE  Here(p) \in Place /\ (mounted[p] => Here(p) = "partition")
BY DEF Here, Place

(* Writing a tree changes one place, the partition if it is mounted.       *)
LEMMA WriteFacts ==
  ASSUME TypeOK, NEW t \in Tree0, Write(t)
  PROVE  /\ root' \in [Place -> Tree0]
         /\ \A x \in Place : root'[x] = root[x] \/ (x = Here("root") /\ root'[x] = t)
         /\ mounted["root"] => root'["partition"] = t
         /\ Tree \in Tree0
BY HereFacts, TreeFacts DEF TypeOK, Write, Tree

LEMMA WipedFacts ==
  ASSUME TypeOK
  PROVE  /\ Wiped.root \in [Place -> Tree0] /\ Wiped.esp \in [Place -> Image]
         /\ Wiped.root["partition"] = EmptyTree /\ Wiped.esp["partition"] = NoImage
         /\ \A x \in Place : x # "partition" => Wiped.root[x] = root[x] /\ Wiped.esp[x] = esp[x]
BY TreeFacts DEF TypeOK, Wiped

(* Images, for the steps that write no tree and end before mkuki...        *)
LEMMA ImagesAside ==
  ASSUME IInv, terms' = terms, pc' # "mkuki", root'["tmpfs"] = root["tmpfs"],
         \A x \in Place : esp'[x] \in {esp[x], NoImage}
  PROVE  Images'
BY TreeFacts DEF IInv, Images

(* ... and for those that write one: to the partition, until TERM came.    *)
LEMMA ImagesWritten ==
  ASSUME IInv, UNCHANGED <<terms, esp>>, pc \in Filling, pc' # "mkuki",
         NEW t \in Tree0, Write(t)
  PROVE  Images'
<1>1. terms = 0 => mounted["root"]
  BY DEF IInv, Progress
<1>2. mounted["root"] => root'["tmpfs"] = root["tmpfs"]
  BY DEF Write, Here, IInv, TypeOK
<1> QED
  BY <1>1, <1>2 DEF IInv, Images

LEMMA InitIInv == Init => IInv
<1> SUFFICES ASSUME Init PROVE IInv
  OBVIOUS
<1>1. TypeOK
  <2>1. parts \in [Partition -> BOOLEAN] /\ mounted \in [Partition -> BOOLEAN]
    BY DEF Init
  <2>2. \A p \in Partition : ~mounted[p]
    BY DEF Init
  <2>3. root \in [Place -> Tree0] /\ esp \in [Place -> Image]
    BY TreeFacts DEF Init
  <2>4. faults \in 0..MaxFaults /\ terms \in 0..MaxTerms /\ runs \in 1..MaxRuns
    BY BoundsAssumption DEF Init
  <2> QED
    BY <2>1, <2>2, <2>3, <2>4 DEF Init, TypeOK, Running
<1>2. Trapping /\ Begun /\ Checks /\ Retired /\ Progress
  BY DEF Init, Trapping, Begun, Early, Checks, Retired, Progress, Checked, Formatting, Mounting,
         Filling
<1>3. Images
  BY TreeFacts DEF Init, Images
<1> QED
  BY <1>1, <1>2, <1>3 DEF IInv
-----------------------------------------------------------------------------
(* The steps that only look and decide where to go.                        *)
LEMMA ChecksInv ==
  ASSUME IInv,
         \/ Start \/ PartitionRefused \/ CheckDevices \/ CheckNeeds \/ RegInfo \/ RegVerify
         \/ CopyDone \/ NoTemplate \/ HooksWrong \/ MkukiFails
  PROVE  IInv'
<1> USE DEF IInv
<1>1. UNCHANGED <<machine, root, esp, todo, trapped, erased, counters>>
  BY DEF Start, PartitionRefused, CheckDevices, CheckNeeds, RegInfo, RegVerify, CopyDone,
         NoTemplate, HooksWrong, MkukiFails, Check
<1>2. TypeOK'
  BY <1>1 DEF Start, PartitionRefused, CheckDevices, CheckNeeds, RegInfo, RegVerify, CopyDone,
              NoTemplate, HooksWrong, MkukiFails, Check, Goto, TypeOK, machine, counters, Running
<1>3. Trapping' /\ Begun'
  BY <1>1 DEF Start, PartitionRefused, CheckDevices, CheckNeeds, RegInfo, RegVerify, CopyDone,
              NoTemplate, HooksWrong, MkukiFails, Check, Goto, machine, counters,
              Trapping, Begun, Early, Checked, Formatting, Mounting, Filling
<1>4. Checks'
  <2>1. (\A p \in Partition : ~mounted[p]) => mounted = NothingMounted
    BY DEF TypeOK, NothingMounted
  <2>2. NeedsMet' <=> NeedsMet
    BY <1>1 DEF NeedsMet, machine
  <2> QED
    BY <1>1, <2>1, <2>2
       DEF Start, PartitionRefused, CheckDevices, CheckNeeds, RegInfo, RegVerify, CopyDone,
           NoTemplate, HooksWrong, MkukiFails, Check, Goto, machine, counters, Checks,
           Checked, Formatting, Mounting, Filling, TypeOK
<1>5. Retired'
  BY <1>1 DEF Start, PartitionRefused, CheckDevices, CheckNeeds, RegInfo, RegVerify, CopyDone,
              NoTemplate, HooksWrong, MkukiFails, Check, Goto, machine, counters, Retired,
              Checked, Formatting, Mounting, Filling, TypeOK
<1>6. pc' # "mkuki"
  BY DEF Start, PartitionRefused, CheckDevices, CheckNeeds, RegInfo, RegVerify, CopyDone,
         NoTemplate, HooksWrong, MkukiFails, Check, Goto
<1>7. Images'
  BY <1>1, <1>6, ImagesAside DEF counters
<1>8. Progress'
  BY <1>1 DEF Start, PartitionRefused, CheckDevices, CheckNeeds, RegInfo, RegVerify, CopyDone,
              NoTemplate, HooksWrong, MkukiFails, Check, Goto, machine, counters, Progress,
              Filling, TypeOK, Tree0, Place
<1> QED
  BY <1>2, <1>3, <1>4, <1>5, <1>7, <1>8

(* The partition table is rewritten only while nothing is mounted.         *)
LEMMA PartitioningInv ==
  ASSUME IInv, CreateTable \/ AddPartitions
  PROVE  IInv'
<1> USE DEF IInv
<1>1. mounted = NothingMounted /\ \A p \in Partition : ~mounted[p]
  <2>1. CASE CreateTable
    BY <2>1 DEF CreateTable, PartRefuses, TypeOK, NothingMounted
  <2>2. CASE AddPartitions
    BY <2>2, TreeFacts DEF AddPartitions, Checks
  <2> QED
    BY <2>1, <2>2
<1>2. /\ UNCHANGED <<args, live, mounted, todo, trapped, faults, terms, runs, infoFailed>>
      /\ parts' \in [Partition -> BOOLEAN] /\ table' \in {"foreign", "blank", "ours"}
      /\ pc' \in {"add", "exiting", "devices"} /\ erased' \in BOOLEAN
  BY DEF CreateTable, AddPartitions, Goto, counters, TypeOK
<1>3. root' \in {root, Wiped.root} /\ esp' \in {esp, Wiped.esp}
  BY DEF CreateTable, AddPartitions
<1>4. TypeOK'
  BY <1>1, <1>2, <1>3, WipedFacts DEF TypeOK, Running
<1>5. Trapping' /\ Begun'
  BY <1>2 DEF CreateTable, AddPartitions, Goto, Trapping, Begun, Early, Checked, Formatting,
              Mounting, Filling
<1>6. Checks'
  <2>1. erased' /\ ~args'.wholeDisk => NeedsMet'
    BY <1>2 DEF CreateTable, AddPartitions, Goto, Checks, NeedsMet
  <2> QED
    BY <1>1, <1>2, <2>1 DEF Checks, Checked, Formatting, Mounting, NothingMounted
<1>7. Images'
  BY <1>2, <1>3, WipedFacts, TreeFacts, ImagesAside
<1>8. Retired' /\ Progress'
  BY <1>2 DEF Retired, Progress, Formatting, Mounting, Filling
<1> QED
  BY <1>4, <1>5, <1>6, <1>7, <1>8

(* Retiring the key: what is left in the live registry is looked at again. *)
LEMMA RetiringInv ==
  ASSUME IInv, RegInfoFails \/ RegDel
  PROVE  IInv'
<1> USE DEF IInv
<1>1. /\ UNCHANGED <<args, table, parts, mounted, root, esp, todo, trapped, erased, terms, runs>>
      /\ pc \in {"info", "del", "verify"} /\ pc' \in {"mkfsEsp", "verify"}
  BY DEF RegInfoFails, RegDel, Goto, machine, counters
<1>2. live' \in Live /\ live'.busy = live.busy /\ (NeedsMet' <=> NeedsMet)
  BY DEF RegInfoFails, RegDel, machine, TypeOK, Live, NeedsMet
<1>3. faults' \in 0..MaxFaults /\ infoFailed' \in BOOLEAN
  <2>1. faults' \in 0..MaxFaults
    BY BoundsAssumption DEF RegInfoFails, RegDel, counters, TypeOK
  <2>2. infoFailed' \in BOOLEAN
    BY DEF RegInfoFails, RegDel, counters, TypeOK
  <2> QED
    BY <2>1, <2>2
<1>4. TypeOK'
  BY <1>1, <1>2, <1>3 DEF TypeOK, Running
<1>5. Trapping' /\ Begun'
  BY <1>1 DEF Trapping, Begun, Early, Checked, Formatting, Mounting, Filling
<1>6. Checks'
  BY <1>1, <1>2 DEF Checks, Checked, Formatting, Mounting, NothingMounted
<1>7. Retired'
  BY <1>1 DEF RegInfoFails, RegDel, Goto, Retired, Formatting, Mounting, Filling
<1>8. Images' /\ Progress'
  BY <1>1, ImagesAside DEF Progress, Filling
<1> QED
  BY <1>4, <1>5, <1>6, <1>7, <1>8

(* Formatting, behind all the checks; the trap is set right after it.      *)
LEMMA FormattingInv ==
  ASSUME IInv, MkfsEsp \/ MkfsRoot \/ SetTrap
  PROVE  IInv'
<1> USE DEF IInv
<1>1. /\ UNCHANGED <<args, live, table, parts, mounted, todo, faults, terms, runs, infoFailed>>
      /\ pc \in Formatting /\ pc' \in {"mkfsRoot", "setTrap", "mountRoot"}
      /\ erased' \in BOOLEAN /\ trapped' \in BOOLEAN
  BY DEF MkfsEsp, MkfsRoot, SetTrap, Goto, machine, counters, Formatting, TypeOK
<1>2. root' \in {root, Wiped.root} /\ esp' \in {esp, Wiped.esp}
  BY DEF MkfsEsp, MkfsRoot, SetTrap
<1>3. TypeOK'
  BY <1>1, <1>2, WipedFacts DEF TypeOK, Running
<1>4. Trapping' /\ Begun'
  BY <1>1 DEF MkfsEsp, MkfsRoot, SetTrap, Goto, Trapping, Begun, Early, Checked, Formatting,
              Mounting, Filling
<1>5. Checks'
  BY <1>1 DEF Checks, Checked, Formatting, Mounting, NothingMounted, NeedsMet
<1>6. Retired'
  <2>1. pc = "setTrap" => root' = root
    BY DEF MkfsEsp, MkfsRoot, SetTrap, Goto
  <2>2. pc = "mkfsRoot" => ~root'["partition"].key
    BY WipedFacts, TreeFacts DEF MkfsEsp, MkfsRoot, SetTrap, Goto
  <2>3. pc = "mkfsEsp" => pc' = "mkfsRoot"
    BY DEF MkfsEsp, MkfsRoot, SetTrap, Goto
  <2> QED
    BY <1>1, <2>1, <2>2, <2>3 DEF Retired, Formatting, Mounting, Filling
<1>7. Images'
  BY <1>1, <1>2, WipedFacts, TreeFacts, ImagesAside
<1>8. Progress'
  BY <1>1 DEF Progress, Filling
<1> QED
  BY <1>3, <1>4, <1>5, <1>6, <1>7, <1>8

LEMMA MountingInv ==
  ASSUME IInv, MountRoot \/ MountEsp
  PROVE  IInv'
<1> USE DEF IInv
<1>1. /\ UNCHANGED <<args, live, table, parts, root, esp, todo, trapped, erased, counters>>
      /\ pc \in Mounting /\ pc' \in {"mountEsp", "copy"}
  BY DEF MountRoot, MountEsp, Mount, Goto, Mounting
<1>2. mounted' \in [Partition -> BOOLEAN] /\ \A p \in Partition : parts[p]
  BY <1>1 DEF MountRoot, MountEsp, Mount, TypeOK, Checks, Mounting
<1>3. TypeOK'
  BY <1>1, <1>2 DEF TypeOK, counters, Running
<1>4. Trapping' /\ Begun'
  BY <1>1 DEF Trapping, Begun, Early, Checked, Formatting, Mounting, Filling
<1>5. Checks'
  BY <1>1, <1>2 DEF Checks, Checked, Formatting, Mounting, NeedsMet
<1>6. Retired' /\ Images'
  BY <1>1, ImagesAside DEF Retired, Formatting, Mounting, Filling, counters
<1>7. Progress'
  <2>1. pc = "mountRoot" => pc' = "mountEsp" /\ mounted'["root"]
    BY DEF MountRoot, MountEsp, Mount, Goto, TypeOK, Partition
  <2>2. pc = "mountEsp" => pc' = "copy" /\ mounted'["esp"] /\ mounted'["root"] = mounted["root"]
    BY DEF MountRoot, MountEsp, Mount, Goto, TypeOK, Partition
  <2>3. pc = "mountEsp" => todo = Entry
    BY DEF Begun, Early, Mounting
  <2> QED
    BY <1>1, <2>1, <2>2, <2>3 DEF Progress, Filling, Mounting, counters
<1> QED
  BY <1>3, <1>4, <1>5, <1>6, <1>7
-----------------------------------------------------------------------------
(* What every write of a tree leaves alone.                                *)
Kept == UNCHANGED <<machine, trapped, erased, terms, runs, infoFailed>>

(* A step that writes a tree, or the UKI, on the way through the copy.     *)
LEMMA WritingInv ==
  ASSUME IInv, Kept, pc \in Filling, pc' \in Filling \cup {"exiting"},
         todo' \subseteq Entry, faults' \in 0..MaxFaults,
         root' \in [Place -> Tree0], esp' \in [Place -> Image],
         Images', Retired', Progress'
  PROVE  IInv'
<1> USE DEF IInv, Kept, machine
<1>1. TypeOK'
  BY DEF TypeOK, Running, Filling
<1>2. Trapping' /\ Begun'
  BY DEF Trapping, Begun, Early, Checked, Formatting, Mounting, Filling
<1>3. Checks'
  BY DEF Checks, NeedsMet, Checked, Formatting, Mounting, Filling
<1> QED
  BY <1>1, <1>2, <1>3

(* The copy brings the key along only if it is still in the live hive, and *)
(* what it leaves when it fails is no more than that.                      *)
LEMMA CopyInv ==
  ASSUME IInv, NEW e \in Entry, CopyEntry(e) \/ CopyFails(e)
  PROVE  IInv'
<1> USE DEF IInv
<1>1. Tree \in Tree0 /\ live.key \in BOOLEAN
  BY HereFacts, TreeFacts DEF Tree, TypeOK, Live
<1>2. Copied(e) \in Tree0 /\ [Copied(e) EXCEPT !.entries = Tree.entries] \in Tree0
  BY <1>1 DEF Copied, Tree0, Hook, LiveHook, Image
<1>3. Copied(e).key => Tree.key \/ live.key
  BY <1>1 DEF Copied, Tree0
<1>4. Copied(e).entries = Tree.entries \cup {e}
  BY <1>1 DEF Copied, Tree0
<1>5. PICK t \in Tree0 :
        /\ Write(t) /\ (t.key => Tree.key \/ live.key)
        /\ pc' = "copy" => t.entries = Tree.entries \cup {e}
  BY <1>2, <1>3, <1>4 DEF CopyEntry, CopyFails, Goto, Tree0
<1>6. /\ pc = "copy" /\ todo' \subseteq Entry
      /\ UNCHANGED <<machine, esp, trapped, erased, terms, runs, infoFailed>>
      /\ \/ pc' = "copy" /\ todo' = todo \ {e}
         \/ pc' = "exiting"
  BY DEF CopyEntry, CopyFails, Goto, TypeOK, counters
<1>7. faults' \in 0..MaxFaults
  BY BoundsAssumption DEF CopyEntry, CopyFails, TypeOK, counters
<1>8. Images'
  BY <1>5, <1>6, ImagesWritten DEF Filling
<1>9. Retired'
  BY <1>5, <1>6, WriteFacts, HereFacts, TreeFacts
     DEF Retired, Tree, Formatting, Mounting, Filling, machine
<1>10. Progress'
  BY <1>5, <1>6, WriteFacts DEF Progress, Tree, Here, Filling, machine
<1> QED
  BY <1>5, <1>6, <1>7, <1>8, <1>9, <1>10, WriteFacts, WritingInv DEF Kept, Filling, TypeOK

LEMMA SwapInv ==
  ASSUME IInv, Swap \/ SwapDies
  PROVE  IInv'
<1> USE DEF IInv
<1> DEFINE t(left) == [Tree EXCEPT !.hooks = left]
<1>1. PICK left \in SUBSET Hook : Write(t(left))
  BY DEF Swap, SwapDies
<1>2. /\ UNCHANGED <<machine, esp, todo, trapped, erased, terms, runs, infoFailed>>
      /\ pc = "finish" /\ pc' \in {"cmdline", "exiting"}
  BY DEF Swap, SwapDies, Goto, counters
<1>3. faults' \in 0..MaxFaults
  BY BoundsAssumption DEF Swap, SwapDies, counters, TypeOK
<1>4. Tree \in Tree0
  BY HereFacts, TreeFacts DEF Tree, TypeOK
<1>5. /\ t(left) \in Tree0 /\ t(left).key = Tree.key /\ t(left).archive = Tree.archive
      /\ t(left).entries = Tree.entries
  BY <1>4 DEF Tree0
<1> HIDE DEF t
<1>6. Images'
  BY <1>1, <1>2, <1>5, ImagesWritten DEF Filling
<1>7. Retired'
  BY <1>1, <1>2, <1>5, WriteFacts, HereFacts, TreeFacts
     DEF Retired, Tree, Formatting, Mounting, Filling, machine
<1>8. Progress'
  BY <1>1, <1>2, <1>5, WriteFacts DEF Progress, Tree, Here, Filling, machine
<1> QED
  BY <1>1, <1>2, <1>3, <1>5, <1>6, <1>7, <1>8, WriteFacts, WritingInv
     DEF Kept, Filling, TypeOK

LEMMA CmdlineInv ==
  ASSUME IInv, WriteCmdline
  PROVE  IInv'
<1> USE DEF IInv
<1> DEFINE t == [Tree EXCEPT !.cmdline = TRUE]
<1>1. /\ pc = "cmdline" /\ pc' = "mkirf" /\ Write(t)
      /\ UNCHANGED <<machine, esp, todo, trapped, erased, counters>>
  BY DEF WriteCmdline, Goto
<1>2. Tree \in Tree0
  BY HereFacts, TreeFacts DEF Tree, TypeOK
<1>3. /\ t \in Tree0 /\ t.key = Tree.key /\ t.archive = Tree.archive
      /\ t.entries = Tree.entries /\ t.cmdline
  BY <1>2 DEF Tree0
<1> HIDE DEF t
<1>4. Images'
  BY <1>1, <1>3, ImagesWritten DEF Filling, counters
<1>5. Retired'
  BY <1>1, <1>3, WriteFacts, HereFacts, TreeFacts
     DEF Retired, Tree, Formatting, Mounting, Filling, machine, counters
<1>6. Progress'
  BY <1>1, <1>3, WriteFacts DEF Progress, Tree, Here, Filling, machine, counters
<1> QED
  BY <1>1, <1>3, <1>4, <1>5, <1>6, WriteFacts, WritingInv
     DEF Kept, Filling, TypeOK, counters

(* The archive is packed from disk-boot's hook alone...                    *)
LEMMA MkirfInv ==
  ASSUME IInv, Mkirf
  PROVE  IInv'
<1> USE DEF IInv
<1> DEFINE t == [Tree EXCEPT !.archive = {Tree.hooks}]
<1>1. /\ pc = "mkirf" /\ pc' = "mkuki" /\ Write(t) /\ Tree.hooks = DiskHookOnly
      /\ UNCHANGED <<machine, esp, todo, trapped, erased, counters>>
  BY DEF Mkirf, Goto, Swapped, DiskHookOnly
<1>2. Tree \in Tree0 /\ {DiskHookOnly} \in Image
  BY HereFacts, TreeFacts DEF Tree, TypeOK, Image, Hook, DiskHookOnly
<1>3. /\ t \in Tree0 /\ t.key = Tree.key /\ t.archive = {DiskHookOnly}
      /\ t.entries = Tree.entries /\ t.cmdline = Tree.cmdline /\ t.hooks = DiskHookOnly
  BY <1>1, <1>2 DEF Tree0
<1> HIDE DEF t
<1>4. Images'
  <2>1. terms' = terms /\ esp' = esp /\ mounted' = mounted
    BY <1>1 DEF machine, counters
  <2>2. Tree' = t
    BY <1>1, <2>1, HereFacts, TreeFacts DEF Write, Tree, Here, TypeOK
  <2>3. terms = 0 => root'["tmpfs"] = root["tmpfs"]
    BY <1>1 DEF Write, Here, TypeOK, Progress, Filling
  <2> QED
    BY <1>3, <2>1, <2>2, <2>3 DEF Images
<1>5. Retired'
  BY <1>1, <1>3, WriteFacts, HereFacts, TreeFacts
     DEF Retired, Tree, Formatting, Mounting, Filling, machine, counters
<1>6. Progress'
  BY <1>1, <1>3, WriteFacts DEF Progress, Tree, Here, Filling, machine, counters
<1> QED
  BY <1>1, <1>3, <1>4, <1>5, <1>6, WriteFacts, WritingInv
     DEF Kept, Filling, TypeOK, counters

(* ... and the UKI from that archive.                                      *)
LEMMA MkukiInv ==
  ASSUME IInv, Mkuki
  PROVE  IInv'
<1> USE DEF IInv
<1>1. /\ pc = "mkuki" /\ pc' = "finished"
      /\ esp' = [esp EXCEPT ![Here("esp")] = Tree.archive]
      /\ UNCHANGED <<machine, root, todo, trapped, erased, counters>>
  BY DEF Mkuki, Goto
<1>2. Here("esp") \in Place /\ Here("root") \in Place
  BY HereFacts, TreeFacts
<1>3. Tree.archive \in Image /\ (terms <= 1 => Tree.archive \subseteq {DiskHookOnly})
  BY <1>1, <1>2 DEF Mkuki, Inputs, Tree, TypeOK, Tree0, Images
<1>4. esp' \in [Place -> Image] /\ Images'
  BY <1>1, <1>2, <1>3 DEF TypeOK, Images, counters
<1>5. Retired'
  BY <1>1 DEF Retired, Formatting, Mounting, Filling, machine, counters
<1>6. Progress'
  BY <1>1, TreeFacts DEF Progress, Tree, Here, Filling, machine, counters, TypeOK
<1> QED
  BY <1>1, <1>4, <1>5, <1>6, WritingInv DEF Kept, Filling, TypeOK, counters
-----------------------------------------------------------------------------
(* A command that fails may have wiped what it was to wipe.                *)
LEMMA CommandFailsInv ==
  ASSUME IInv, CommandFails
  PROVE  IInv'
<1> USE DEF IInv
<1>1. /\ UNCHANGED <<machine, todo, trapped, terms, runs, infoFailed>>
      /\ pc \in Running /\ pc' = "exiting"
      /\ erased' # erased => pc \in {"create", "mkfsEsp", "mkfsRoot"}
      /\ erased' \in BOOLEAN
  BY DEF CommandFails, TypeOK
<1>2. faults' \in 0..MaxFaults
  BY BoundsAssumption DEF CommandFails, TypeOK
<1>3. root' \in {root, Wiped.root} /\ esp' \in {esp, Wiped.esp}
  BY DEF CommandFails
<1>4. TypeOK'
  BY <1>1, <1>2, <1>3, WipedFacts DEF TypeOK, machine
<1>5. Trapping' /\ Begun'
  BY <1>1 DEF Trapping, Begun, Early, Checked, Formatting, Mounting, Filling
<1>6. Checks'
  BY <1>1 DEF Checks, Checked, Formatting, Mounting, NeedsMet, machine, TypeOK
<1>7. Images'
  BY <1>1, <1>3, WipedFacts, TreeFacts, ImagesAside
<1>8. Retired' /\ Progress'
  BY <1>1 DEF Retired, Progress, Formatting, Mounting, Filling
<1> QED
  BY <1>4, <1>5, <1>6, <1>7, <1>8

(* cleanup unmounts what it can.                                           *)
LEMMA CleanupFacts ==
  ASSUME TypeOK, Cleanup
  PROVE  /\ mounted' \in [Partition -> BOOLEAN] /\ faults' \in 0..MaxFaults
         /\ \A p \in Partition : mounted'[p] => mounted[p]
<1>1. PICK stuck \in SUBSET {p \in Partition : mounted[p]} :
        /\ faults + (IF stuck = {} THEN 0 ELSE 1) <= MaxFaults
        /\ faults' = faults + (IF stuck = {} THEN 0 ELSE 1)
        /\ mounted' = [p \in Partition |-> p \in stuck]
  BY DEF Cleanup
<1>2. faults' \in 0..MaxFaults
  BY <1>1, BoundsAssumption DEF TypeOK
<1>3. ASSUME NEW p \in Partition, mounted'[p] PROVE mounted[p]
  BY <1>1, <1>3
<1> QED
  BY <1>1, <1>2, <1>3

(* Exit, TERM and KILL: the trap decides what stays mounted.               *)
LEMMA StopsInv ==
  ASSUME IInv, ExitTrap \/ Term \/ Kill
  PROVE  IInv'
<1> USE DEF IInv
<1>1. /\ UNCHANGED <<args, live, table, parts, root, esp, todo, trapped, erased, runs, infoFailed>>
      /\ \/ pc' = pc /\ trapped
         \/ pc' = "failed"
         \/ pc = "finished" /\ pc' = "done" /\ terms' = terms
         \/ pc' = "killed"
  BY DEF ExitTrap, Term, Kill, machine, counters, TypeOK
<1>2. /\ mounted' \in [Partition -> BOOLEAN] /\ faults' \in 0..MaxFaults
      /\ \A p \in Partition : mounted'[p] => mounted[p]
      /\ mounted' # mounted => trapped
  <2>1. CASE ExitTrap \/ Term
    BY <2>1, CleanupFacts DEF ExitTrap, Term, TypeOK
  <2>2. CASE Kill
    BY <2>2, BoundsAssumption DEF Kill, machine, TypeOK
  <2> QED
    BY <2>1, <2>2
<1>3. /\ terms' \in 0..MaxTerms /\ (terms' = 0 => terms = 0)
      /\ terms' = terms \/ (terms' = terms + 1 /\ pc' \in {pc, "failed"} /\ Term)
      /\ terms' <= 1 => terms <= 1
  BY BoundsAssumption DEF ExitTrap, Term, Kill, counters, TypeOK
<1>4. TypeOK'
  BY <1>1, <1>2, <1>3 DEF TypeOK
<1>5. Trapping' /\ Begun'
  BY <1>1 DEF Trapping, Begun, Early, Checked, Formatting, Mounting, Filling
<1>6. Checks'
  BY <1>1, <1>2 DEF Checks, Trapping, Checked, Formatting, Mounting, NeedsMet
<1>7. Images'
  <2>1. CASE pc' = "mkuki" /\ terms' <= 1
    <3>1. terms = 0 /\ pc = "mkuki" /\ mounted["root"]
      BY <1>1, <1>3, <2>1 DEF TypeOK, Kill, ExitTrap, Term, Progress, Filling
    <3>2. Tree' = Tree \/ Tree' = EmptyTree
      BY <1>1, <3>1 DEF Tree, Here, Images
    <3> QED
      BY <1>1, <1>3, <3>1, <3>2, TreeFacts DEF Images
  <2>2. CASE ~(pc' = "mkuki" /\ terms' <= 1)
    BY <1>1, <1>3, <2>2 DEF Images
  <2> QED
    BY <2>1, <2>2
<1>8. Retired'
  BY <1>1 DEF Retired, Formatting, Mounting, Filling
<1>9. Progress'
  <2>1. CASE terms' = terms
    BY <1>1, <2>1 DEF Progress, Filling, ExitTrap, Term, Kill, machine, TypeOK
  <2>2. CASE terms' # terms
    BY <1>3, <2>2 DEF Progress, TypeOK
  <2> QED
    BY <2>1, <2>2
<1> QED
  BY <1>4, <1>5, <1>6, <1>7, <1>8, <1>9

(* The medium is booted again, or the installer run again as things are.   *)
LEMMA AgainInv ==
  ASSUME IInv, Reboot \/ Rerun
  PROVE  IInv'
<1> USE DEF IInv
<1>1. CASE Reboot
  <2>1. /\ UNCHANGED <<args, table, parts, todo, trapped, erased, counters>>
        /\ pc' = "rebooted" /\ mounted' = NothingMounted
    BY <1>1 DEF Reboot
  <2>2. live' \in Live /\ (NeedsMet' <=> NeedsMet)
    BY <1>1 DEF Reboot, TypeOK, Live, NeedsMet
  <2>3. root' \in [Place -> Tree0] /\ esp' \in [Place -> Image]
    BY <1>1, TreeFacts DEF Reboot, TypeOK
  <2>4. TypeOK'
    BY <2>1, <2>2, <2>3, TreeFacts DEF TypeOK, counters
  <2>5. Trapping' /\ Begun'
    BY <2>1 DEF Trapping, Begun, Early, Checked, Formatting, Mounting, Filling
  <2>6. Checks'
    BY <2>1, <2>2 DEF Checks, Checked, Formatting, Mounting
  <2>7. Images'
    BY <1>1, <2>1, TreeFacts DEF Reboot, Images, TypeOK, counters
  <2>8. Retired' /\ Progress'
    BY <2>1 DEF Retired, Progress, Formatting, Mounting, Filling
  <2> QED
    BY <2>4, <2>5, <2>6, <2>7, <2>8
<1>2. CASE Rerun
  <2>1. /\ UNCHANGED <<live, table, parts, mounted, root, esp, faults, terms, infoFailed>>
        /\ pc' = "start" /\ todo' = Entry /\ trapped' = FALSE /\ erased' = FALSE
        /\ args' \in [wholeDisk : BOOLEAN, force : BOOLEAN]
    BY <1>2 DEF Rerun
  <2>2. runs' \in 1..MaxRuns
    BY <1>2, BoundsAssumption DEF Rerun, TypeOK
  <2>3. TypeOK'
    BY <2>1, <2>2 DEF TypeOK, Running
  <2>4. Trapping' /\ Begun' /\ Checks'
    BY <2>1 DEF Trapping, Begun, Early, Checks, Checked, Formatting, Mounting, Filling
  <2>5. Images' /\ Retired' /\ Progress'
    BY <2>1, ImagesAside DEF Retired, Progress, Formatting, Mounting, Filling
  <2> QED
    BY <2>3, <2>4, <2>5
<1> QED
  BY <1>1, <1>2

LEMMA StutterInv ==
  ASSUME IInv, UNCHANGED vars
  PROVE  IInv'
BY DEF IInv, vars, machine, counters, TypeOK, Trapping, Begun, Early, Checks, Retired, Images,
       Progress, NeedsMet, Tree, Here

LEMMA NextIInv == IInv /\ [Next]_vars => IInv'
BY ChecksInv, PartitioningInv, RetiringInv, FormattingInv, MountingInv, CopyInv, SwapInv,
   CmdlineInv, MkirfInv, MkukiInv, CommandFailsInv, StopsInv, AgainInv, StutterInv DEF Next

LEMMA Invariance == Spec => []IInv
  BY InitIInv, NextIInv, PTL DEF Spec
-----------------------------------------------------------------------------
(* Type correctness; only partitions the kernel shows are ever mounted.    *)
THEOREM TypeCorrect == Spec => []TypeOK
<1>1. IInv => TypeOK
  BY DEF IInv
<1> QED
  BY <1>1, Invariance, PTL

(* "done" stands for an installed disk unless TERM came, and for a retired *)
(* key unless reg info failed.                                             *)
THEOREM DoneIsInstalled == Spec => []DoneMeansInstalled
<1>1. IInv => DoneMeansInstalled
  BY DEF IInv, Progress, Retired, DoneMeansInstalled, Installed, DiskHookOnly, Formatting,
         Mounting, Filling
<1> QED
  BY <1>1, Invariance, PTL

(* No UKI anywhere carries live-boot's hook, whatever else fails, as long  *)
(* as TERM comes no more than once in all the invocations.                 *)
THEOREM UkiBootsTheDisk == Spec => []UkiHasDiskHookOnly
<1>1. IInv => UkiHasDiskHookOnly
  BY DEF IInv, Images, UkiHasDiskHookOnly, DiskHookOnly
<1> QED
  BY <1>1, Invariance, PTL

(* Nothing mounted is formatted, and no named partition is wiped before    *)
(* all that the swap needs was found.                                      *)
THEOREM FormatsWhenReady == Spec => []FormatsOnlyWhenReady
<1>1. IInv => FormatsOnlyWhenReady
  BY DEF IInv, Checks, FormatsOnlyWhenReady, Checked, Formatting
<1> QED
  BY <1>1, Invariance, PTL
=============================================================================
