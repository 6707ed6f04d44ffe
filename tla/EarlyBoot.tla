----------------------------- MODULE EarlyBoot -----------------------------
(***************************************************************************)
(* The initramfs from the first hook to the pivot: load-drivers, one root- *)
(* mount hook and the two StrataFS hooks of fsbase, run by prelude one     *)
(* after the other in an order that their capabilities allow.  Every hook  *)
(* follows the suppliers of initramfs-ready; the mounted root's StrataFS   *)
(* hook follows all suppliers of rootfs-ready; nothing orders load-drivers *)
(* and the root-mount hook, which both supply rootfs-ready.  Exit 69 means *)
(* declined, any other failure halts the boot.  prelude is external.       *)
(***************************************************************************)
EXTENDS Coldplug, LiveRoot, DiskRoot

CONSTANT View   \* the mountpoints of the base views: /bin, /etc, ...

VARIABLES
  kind,       \* the root-mount hook of this image: "live" or "disk"
  running,    \* {h}: the hook at work
  ran,        \* the hooks that have ended
  views,      \* per root, the views mounted in it
  boot        \* "hooks", "pivoted" or "halted"

prelude == <<kind, running, ran, views, boot>>
vars    == <<devices, coldplug, liveRoot, diskRoot, prelude>>

Hook == {"stratafs-initramfs", "load-drivers", "mount-root", "stratafs-rootfs"}

Init ==
  /\ DevicesInit /\ ColdplugInit /\ LiveInit /\ DiskInit
  /\ kind \in {"live", "disk"}
  /\ kind = "live" => words = <<>> /\ ~fsck
  /\ running = {} /\ ran = {} /\ boot = "hooks"
  /\ views = [r \in {"initramfs", "rootfs"} |-> {}]

(* What has to have ended before a hook starts.                            *)
Order(h) == IF h = "stratafs-initramfs" THEN {}
            ELSE IF h = "stratafs-rootfs" THEN Hook \ {h}
            ELSE {"stratafs-initramfs"}

RunHook ==
  /\ boot = "hooks" /\ running = {}
  /\ \E h \in Hook \ ran : Order(h) \subseteq ran /\ running' = {h}
  /\ UNCHANGED <<devices, coldplug, liveRoot, diskRoot, kind, ran, views, boot>>

At(h) == running = {h}

RunColdplug == At("load-drivers") /\ ColdplugStep /\ UNCHANGED <<liveRoot, diskRoot, prelude>>

RunLive == /\ At("mount-root") /\ kind = "live" /\ (LiveStep \/ LiveFault)
           /\ UNCHANGED <<coldplug, diskRoot, prelude>>

RunDisk == /\ At("mount-root") /\ kind = "disk" /\ (DiskStep \/ DiskFault)
           /\ UNCHANGED <<coldplug, liveRoot, prelude>>

(* mkdir of the mountpoints, then one mount per view; set -e.              *)
MountView(r, v) ==
  /\ At(IF r = "rootfs" THEN "stratafs-rootfs" ELSE "stratafs-initramfs")
  /\ boot = "hooks"
  /\ views' = [views EXCEPT ![r] = @ \cup {v}]
  /\ UNCHANGED <<devices, coldplug, liveRoot, diskRoot, kind, running, ran, boot>>

Ended == \/ At("load-drivers") /\ cpc \in {"ok", "declined"}
         \/ At("mount-root") /\ (lpc = "ok" \/ dpc = "ok")
         \/ At("stratafs-initramfs") /\ views["initramfs"] = View
         \/ At("stratafs-rootfs") /\ views["rootfs"] = View

EndHook ==
  /\ Ended /\ boot = "hooks"
  /\ ran' = ran \cup running
  /\ running' = {}
  /\ UNCHANGED <<devices, coldplug, liveRoot, diskRoot, kind, views, boot>>

(* A hook exits with a failure: the root was not mounted, or a view.       *)
Halt ==
  /\ boot = "hooks"
  /\ \/ At("mount-root") /\ (lpc = "failed" \/ dpc = "failed")
     \/ running \cap {"stratafs-initramfs", "stratafs-rootfs"} # {}
  /\ boot' = "halted"
  /\ UNCHANGED <<devices, coldplug, liveRoot, diskRoot, kind, running, ran, views>>

RootMounted == overlay \/ rootDisk # {}

Pivot ==
  /\ boot = "hooks" /\ ran = Hook
  /\ boot' = IF RootMounted THEN "pivoted" ELSE "halted"
  /\ UNCHANGED <<devices, coldplug, liveRoot, diskRoot, kind, running, ran, views>>

Probing == boot = "hooks" /\ ShowsUp /\ UNCHANGED <<coldplug, liveRoot, diskRoot, prelude>>

HookStep == RunHook \/ RunColdplug \/ RunLive \/ RunDisk \/ EndHook \/ Halt \/ Pivot
              \/ \E r \in {"initramfs", "rootfs"}, v \in View :
                   v \notin views[r] /\ MountView(r, v)

Next == HookStep \/ Probing

Spec     == Init /\ [][Next]_vars
FairSpec == Spec /\ WF_vars(HookStep) /\ WF_vars(Probing)
-----------------------------------------------------------------------------
(* Every variable keeps its type; a hook that runs has not run before.     *)
TypeOK ==
  /\ DevicesOK /\ ColdplugOK /\ LiveOK /\ DiskOK
  /\ kind \in {"live", "disk"}
  /\ running \subseteq Hook /\ ran \subseteq Hook /\ running \cap ran = {}
  /\ Cardinality(running) <= 1
  /\ views \in [{"initramfs", "rootfs"} -> SUBSET View]
  /\ boot \in {"hooks", "pivoted", "halted"}

(* The drivers the image can load for what hangs off loaded buses.         *)
Drivers == IF tree THEN Reachable ELSE {}

Available(S) == {d \in S \ Missing : Parent[d] \in Drivers \cup {Bus}}

(* With load-drivers run first and everything enumerated within the two    *)
(* windows, no boot gives up on storage the image has the drivers for,     *)
(* however deep the chain of buses before it.                              *)
NeverGivesUpOnStorage ==
  /\ lpc # "idle" \/ dpc # "idle"
  /\ "load-drivers" \in ran
  /\ tree => scans < ScanLimit /\ MaxDelay < QuietLimit
  => /\ MaxDelay < LiveRetries /\ liveTries = LiveRetries => Available(Medium) = {}
     /\ MaxDelay < DiskRetries /\ diskTries = DiskRetries => Available(Tagged[RootSpec]) = {}

(* However devices come and go late, every boot ends: pivoted or halted.   *)
EveryBootEnds == <>(boot \in {"pivoted", "halted"})
=============================================================================
