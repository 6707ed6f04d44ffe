------------------------------ MODULE DiskRoot ------------------------------
(***************************************************************************)
(* mount-root-disk.sh of disk-boot: resolve root=, check the filesystem,   *)
(* mount it at /mnt/rootfs.                                                *)
(***************************************************************************)
EXTENDS Devices, Sequences, SequencesExt

CONSTANTS
  Tagged,       \* Tagged[t]: the block devices a root= value names
  BadForm,      \* stands for a root= of an unsupported form
  Cmdline,      \* the root= words of the command lines considered, in order
  DiskRetries   \* PEIOS_DISK_BOOT_RETRY_LIMIT

ASSUME TaggedAssumption ==
  /\ \A t \in DOMAIN Tagged : Tagged[t] \subseteq Block
  /\ BadForm \notin DOMAIN Tagged
  /\ Cmdline \subseteq Seq(DOMAIN Tagged \cup {BadForm})
ASSUME DiskRetriesAssumption == DiskRetries \in Nat \ {0}

VARIABLES
  words,        \* root= words of this boot
  fsck,         \* fsck is in the initramfs
  dpc, diskTries,
  dev,          \* {d}: what root= resolved to
  status,       \* what fsck exited with: 0 clean, 1 corrected, 2 worse
  rootDisk      \* {d}: what is mounted on /mnt/rootfs

diskRoot == <<words, fsck, dpc, diskTries, dev, status, rootDisk>>

DiskInit ==
  /\ words \in Cmdline /\ fsck \in BOOLEAN
  /\ dpc = "idle" /\ diskTries = 0 /\ dev = {} /\ status = 0 /\ rootDisk = {}

DGoto(from, to) == dpc = from /\ dpc' = to

(* The last root= wins.                                                    *)
RootSpec == Last(words)

Matches == Tagged[RootSpec] \cap present

(* No root=, or a form resolve_root does not know: an error at once.       *)
DiskStart ==
  /\ DGoto("idle", IF words = <<>> THEN "failed"
                   ELSE IF RootSpec = BadForm THEN "failed" ELSE "resolve")
  /\ UNCHANGED <<devices, words, fsck, diskTries, dev, status, rootDisk>>

(* lsblk lists the devices in an order of its own: the first match.        *)
Resolve ==
  /\ DGoto("resolve", "check")
  /\ Punctual
  /\ \E d \in Matches : dev' = {d}
  /\ UNCHANGED <<devices, words, fsck, diskTries, status, rootDisk>>

ResolveAgain ==
  /\ dpc = "resolve" /\ Matches = {}
  /\ diskTries + 1 < DiskRetries
  /\ diskTries' = diskTries + 1
  /\ Sleep
  /\ UNCHANGED <<words, fsck, dpc, dev, status, rootDisk>>

NoDevice ==
  /\ DGoto("resolve", "failed")
  /\ Punctual /\ Matches = {}
  /\ diskTries + 1 >= DiskRetries
  /\ diskTries' = diskTries + 1
  /\ UNCHANGED <<devices, words, fsck, dev, status, rootDisk>>

(* `fsck -p DEV || true`. *)
CheckIgnored ==
  /\ DGoto("check", "mount")
  /\ status' \in IF fsck THEN 0..2 ELSE {0}
  /\ UNCHANGED <<devices, words, fsck, diskTries, dev, rootDisk>>

(* fsck -p; 1 means corrected; without fsck the journal has to do.         *)
CheckDisk ==
  /\ dpc = "check"
  /\ status' \in IF fsck THEN 0..2 ELSE {0}
  /\ dpc' = IF status' > 1 THEN "failed" ELSE "mount"
  /\ UNCHANGED <<devices, words, fsck, diskTries, dev, rootDisk>>

MountDisk ==
  /\ DGoto("mount", "ok")
  /\ rootDisk' = dev
  /\ UNCHANGED <<devices, words, fsck, diskTries, dev, status>>

DiskStep == DiskStart \/ Resolve \/ ResolveAgain \/ NoDevice \/ CheckDisk \/ MountDisk

DiskFault ==
  /\ dpc \in {"idle", "mount"}
  /\ dpc' = "failed"
  /\ UNCHANGED <<devices, words, fsck, diskTries, dev, status, rootDisk>>

DiskOK ==
  /\ words \in Cmdline /\ fsck \in BOOLEAN
  /\ dpc \in {"idle", "resolve", "check", "mount", "ok", "failed"}
  /\ diskTries \in 0..DiskRetries
  /\ dev \subseteq Block /\ rootDisk \subseteq dev
  /\ Cardinality(dev) <= 1
  /\ status \in 0..2

(* The installed root is a device the last root= names, and never one that *)
(* fsck left unfit to mount.                                               *)
DiskRootIsNamed ==
  dpc = "ok" => /\ rootDisk # {} /\ rootDisk \subseteq Tagged[words[Len(words)]]
                /\ status <= 1
=============================================================================
