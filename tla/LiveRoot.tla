------------------------------ MODULE LiveRoot ------------------------------
(***************************************************************************)
(* mount-root.sh of live-boot: find the medium, mount the squashfs it      *)
(* carries, put a tmpfs overlay over it, and take the medium along.        *)
(***************************************************************************)
EXTENDS Devices, Sequences, SequencesExt

CONSTANTS
  Iso,          \* block devices that hold an ISO9660 filesystem
  MaxStacked,   \* bound: wrong media that stay mounted
  Medium,       \* those that carry rootfs.squashfs
  LiveRetries   \* PEIOS_LIVE_BOOT_RETRY_LIMIT

ASSUME MediumAssumption == Medium \subseteq Iso /\ Iso \subseteq Block
ASSUME LiveRetriesAssumption == LiveRetries \in Nat \ {0} /\ MaxStacked \in Nat

VARIABLES
  lpc,
  mediumStack,  \* devices mounted on /mnt/medium, the visible one last
  candidates,   \* block devices this scan has still to try
  liveTries,
  lower,        \* {d}: the squashfs of device d is on /mnt/rootfs.lower
  overlay,      \* the merged root is on /mnt/rootfs
  carried       \* {d}: device d's mount is the new root's /media/peios

liveRoot == <<lpc, mediumStack, candidates, liveTries, lower, overlay, carried>>

LiveInit ==
  /\ lpc = "idle"
  /\ mediumStack = <<>> /\ candidates = {} /\ liveTries = 0
  /\ lower = {} /\ overlay = FALSE /\ carried = {}

LGoto(from, to) == lpc = from /\ lpc' = to

(* Tools, mountpoints and the retry limit.                                 *)
LiveStart ==
  /\ LGoto("idle", "glob")
  /\ UNCHANGED <<devices, mediumStack, candidates, liveTries, lower, overlay, carried>>

(* The glob of /sys/block.                                                 *)
Glob ==
  /\ LGoto("glob", "scan")
  /\ Punctual
  /\ candidates' = present \cap Block
  /\ UNCHANGED <<devices, mediumStack, liveTries, lower, overlay, carried>>

(* The first ISO9660 is taken for the medium. *)
TryAnyIso ==
  /\ lpc = "scan"
  /\ \E d \in candidates :
       /\ candidates' = candidates \ {d}
       /\ IF d \in Iso THEN mediumStack' = Append(mediumStack, d) /\ lpc' = "squashfs"
                       ELSE UNCHANGED <<mediumStack, lpc>>
  /\ UNCHANGED <<devices, liveTries, lower, overlay, carried>>

(* Mount a device; keep it if rootfs.squashfs is visible below it, unmount *)
(* it otherwise - an unmount that fails is ignored and the next mount goes *)
(* on top.                                                                 *)
TryDevice ==
  /\ lpc = "scan"
  /\ \E d \in candidates :
       /\ candidates' = candidates \ {d}
       /\ IF d \in Medium THEN mediumStack' = Append(mediumStack, d) /\ lpc' = "squashfs"
          ELSE /\ \/ UNCHANGED mediumStack
                  \/ d \in Iso /\ Len(mediumStack) < MaxStacked
                       /\ mediumStack' = Append(mediumStack, d)
               /\ UNCHANGED lpc
  /\ UNCHANGED <<devices, liveTries, lower, overlay, carried>>

(* The scan is repeated without counting. *)
ScanAgainForever ==
  /\ LGoto("scan", "glob") /\ candidates = {}
  /\ Sleep
  /\ UNCHANGED <<mediumStack, candidates, liveTries, lower, overlay, carried>>

ScanAgain ==
  /\ LGoto("scan", "glob") /\ candidates = {}
  /\ liveTries + 1 < LiveRetries
  /\ liveTries' = liveTries + 1
  /\ Sleep
  /\ UNCHANGED <<mediumStack, candidates, lower, overlay, carried>>

(* One scan too few. *)
NoMediumEarly ==
  /\ LGoto("scan", "failed")
  /\ candidates = {}
  /\ liveTries + 2 >= LiveRetries
  /\ liveTries' = LiveRetries
  /\ UNCHANGED <<devices, mediumStack, candidates, lower, overlay, carried>>

NoMedium ==
  /\ LGoto("scan", "failed")
  /\ candidates = {}
  /\ liveTries + 1 >= LiveRetries
  /\ liveTries' = liveTries + 1
  /\ UNCHANGED <<devices, mediumStack, candidates, lower, overlay, carried>>

MountSquashfs ==
  /\ LGoto("squashfs", "overlay")
  /\ lower' = {Last(mediumStack)}
  /\ UNCHANGED <<devices, mediumStack, candidates, liveTries, overlay, carried>>

(* tmpfs, seed-sd, upper and work, then the overlay: all or the hook fails.*)
MountOverlay ==
  /\ LGoto("overlay", "move")
  /\ overlay' = TRUE
  /\ UNCHANGED <<devices, mediumStack, candidates, liveTries, lower, carried>>

(* mount --move of the medium; failing only costs /media/peios.            *)
MoveMedium ==
  /\ LGoto("move", "ok")
  /\ \/ carried' = {Last(mediumStack)} /\ mediumStack' = Front(mediumStack)
     \/ UNCHANGED <<carried, mediumStack>>
  /\ UNCHANGED <<devices, candidates, liveTries, lower, overlay>>

LiveStep == LiveStart \/ Glob \/ TryDevice \/ ScanAgain \/ NoMedium \/ MountSquashfs
              \/ MountOverlay \/ MoveMedium

(* Any of its mounts or tools fails.                                       *)
LiveFault ==
  /\ lpc \in {"idle", "squashfs", "overlay"}
  /\ lpc' = "failed"
  /\ UNCHANGED <<devices, mediumStack, candidates, liveTries, lower, overlay, carried>>

LiveOK ==
  /\ lpc \in {"idle", "glob", "scan", "squashfs", "overlay", "move", "ok", "failed"}
  /\ mediumStack \in Seq(Iso) /\ Len(mediumStack) <= MaxStacked + 1
  /\ candidates \subseteq Block
  /\ liveTries \in 0..LiveRetries
  /\ lower \subseteq Block /\ carried \subseteq Block /\ overlay \in BOOLEAN

(* The root booted from, and what the new root shows as the medium, is a   *)
(* device that carries rootfs.squashfs, and the same one, although wrong   *)
(* media are mounted on the way and may fail to unmount.                   *)
LiveRootIsTheMedium ==
  lpc = "ok" => /\ overlay
                /\ lower # {} /\ lower \subseteq Medium
                /\ carried \subseteq lower
=============================================================================
