# A verification project for peios/pkgs

`peios/pkgs` is the package farm of the Peios operating system: several hundred
declarative recipes, and around them the programs this project is about. They
install the system, find its root at boot, prepare the roots packages are built
in, and drive or check builds. This directory holds TLA+ modules for those
programs, TLC configurations that check them on small instances, and theorems
that TLAPS checks for every instance.

Paths below are relative to the repository.

## 1. The system

| Part | Source | State it keeps | Operations | Who it talks to |
|---|---|---|---|---|
| Installer, package exchange | `dev.peios.peios-install/src/peios-install.sh` `finish_medium_packages` and its helpers | on the target: checkpoint file and its temporary, packages of the system root and of the initramfs root, the medium repository's configuration and database entry | write/move checkpoint, validate, repo add, list, uninstall, install, repo remove, rm | `peipkg` |
| Installer, main | same file | partition table, mounts, target tree, UKI, registry key, its own trap | part create/add, checks, `reg`, mkfs, mount, copy, exchange, cmdline, mkirf, mkuki, cleanup | disk tools, registry, an operator who reruns it |
| Debian build roots | `_debroot_/prepare.py` | content-addressed archive store, per-job base pin, per-job cached records, per-target records, a lock per job | resolve base, run APT in a container, publish, record, verify, extract, replay | pekit, Docker/containerd, concurrent preparations |
| Reference toolchains | `_debroot_/reference.py` | overlay and its cache | split a target's requests between APT, the catalogue and a pinned toolchain; fetch, place, check collisions, copy, check again | prepare.py, `docker cp` |
| Native build roots | `_peiroot_/*.sh`, `snapshot-repository.py` | per-job frozen copy of the repository metadata | snapshot under a shared lock, compose, enter | the repository publisher, the other targets of the job, `peipkg-compose` |
| Build-root resolver | `_peiroot_/buildroot-resolver.py` | per lookup: candidate, record types left, addresses, servers tried | read a request, query over UDP, retry over TCP, read a response, next server, next candidate, reply | glibc's NSS shim (MessagePack frames), DNS servers |
| Early boot: coldplug | `dev.peios.coldplug/src/load-drivers.sh` | modaliases seen, quiet count, scan count | scan, modprobe, sleep | kernel, prelude |
| Early boot: live root | `dev.peios.live-boot/src/mount-root.sh` | mounts of the medium, squashfs, overlay, retry count | scan, mount, unmount, overlay, move | kernel, prelude |
| Early boot: disk root | `dev.peios.disk-boot/src/mount-root-disk.sh` | resolved device, retry count, fsck status | parse `root=`, resolve, fsck, mount | kernel, prelude |
| Early boot: StrataFS views | `dev.peios.fsbase` mount hooks | mounted views | mount | prelude |
| dynamic-boot feature | `dev.peios.feat-dynamic-boot/src/*.sh` | two service keys in the registry | install, enable, disable, uninstall | `reg`, peinit, whoever else writes the registry |
| Rust stage0 acquisition | `org.rust-lang.rust*/acquire-stage0.py`, `verify-stage0.py` | installed binaries, retained archives, two record files | download, authenticate, retain, install, identify, record; verify in each worker | mirrors, `install.sh`, a rerun or another process in the directory |
| pty-drive | `_pkgtools_/pty-drive.c` | transcript, search mark, script position, deadline | send, expect, pump, drain, wait | the driven command through a pseudo-terminal |
| linux-firmware sorting | `org.kernel.linux-firmware/tools/sort-firmware.py` | per run: what WHENCE lists and states, the packages' directories | read, assign, account, sort | build recipe, upstream's `copy-firmware.sh` |
| Data converters and checkers | `certdata-to-pem.py`, the microcode validators, `install-wheel`, `split-debug`, `collect-rust-licences` | none between runs | one sequential pass over their input | build recipes |
| Recipes, patches, keys, tests | `*/package.pekit.toml` and below | declarative | none of their own | pekit, which is another repository |

Which of it is hard: the installer can be killed, signalled, made to fail and
run again at every point; preparations of build roots run concurrently and
share a store, and a machine can lose power under them; boot hooks race with
asynchronous device enumeration; the resolver and pty-drive talk to parties
that answer late, partly, or never. The converters are sequential; what is
hard in them is to say what the right answer is.

What makes each part correct:

* **Exchange.** Whatever is interrupted before the checkpoint is cleaned up, a
  later run can finish; the medium's
  repository is not forgotten before the exchange is complete; only listed
  packages go.
* **Installer.** "done" means an installed system whose UKI finds the disk; a
  mounted partition is never formatted; nothing is destroyed before the checks
  that can refuse; nothing of the first-account service is copied.
* **Debian roots.** A completed record is whole and its archive exists; one job
  stands on one base image; archives are immutable; the root unpacked is the
  one recorded.
* **Early boot.** Drivers of a chain of buses are all loaded; the root mounted
  is the medium or the disk named; no boot gives up on storage that would have
  come within the window; every boot ends.
* **Reference toolchains.** Each line of a target's requests is served by one
  source and constrained by what it says; the overlay adds to the Debian root
  and changes nothing in it.
* **Native roots.** All targets of a job see one published generation, whole.
* **Resolver.** A reply is what DNS says, "unavailable" or an error; never an
  invented absence; one good server is enough not to be unavailable; every lookup
  returns. Records are read as
  they were written, and a client can read every reply.
* **pty-drive.** Output answers at most one expect; the reported status is
  earned; the run ends by its deadline.
* **Firmware sorting.** Every file carries the licence WHENCE states for it; an
  accepted release declares exactly those; a package holds what it ships and no
  link leaves it.
* **CA bundle.** The bundle holds the certificates the store delegates, no other,
  or there is no bundle.
* **Microcode.** A container is read to its end or refused, never past it.
* **dynamic-boot.** A script that reports success speaks for both services.
* **Stage0.** What a worker accepts is one release, the recorded one, in every
  file that is recognized as an ELF file or an archive.

`PROJECT.json` lists the hazards behind these at their lines, each with the
properties that would catch it.

## 2. Modules and how they correspond to the code

**`MediumSwap`**, the package exchange. One action per command of
`finish_medium_packages`, `apply_medium_packages`, `remove_medium_scope` and
`write_medium_checkpoint`, in order; `pc` names the command about to run. A
checkpoint file is a header and a sequence of entries. `Fault*` is a command
that fails or is killed with any part of its effect done; `Retry` is the phase
begun again on the target as it is. Nothing in the repository makes that happen
(a rerun of `main` formats the partitions first, lines 446-461), so `Retry` is
possible and never fair: what the properties say of a second invocation holds if
there is one. An invocation cut short after it removed the checkpoint leaves
nothing to resume from: the next one takes the default list and stops at
`repo add`, as the repository's description is gone from the target. `peipkg` is external: an uninstall removes
what it is told, an install of disk-boot places both halves if the repository
is configured and nothing conflicts.

**`Installer`**, `main`. Writes go to *places*: a path under
`/run/peios-install` is the partition while it is mounted and the live tmpfs
otherwise, which is what makes the signal trap interesting. The copy brings
along what the live system has: live-boot's hook with the initramfs root, the
service key if it is still there, and with `/system` the archive the live system
was booted from, under the very name `mkuki` reads. The trap's unmounts are
`|| true`: `Cleanup` may leave any of the mounted partitions mounted, on exit and
after a TERM, and the next invocation meets them. The exchange is one action
whose outcomes are the ones `MediumSwap` allows and more (any set of hooks may be
left), because `main` checks the hooks itself; after a TERM it may run over the
pieces of a copy.

**`DebianRoots`**, `prepare.py`. A *process* is one run of it for a job and a
target, one action per durable effect: taking the lock (a kernel lock, which
death releases), deciding on a cached or replayed record, pinning the base, the
APT transaction, `os.link`, the directory sync, the digest comparison when the
name is taken, `installed.tsv`, the completion marker, opening and verifying,
extracting, recording. An archive is identified by what its bytes depend on, as
its digest is: the base, the mirror, the policy, the requests and whether its
target was given a toolchain (`WithToolchain`). The copy of
`reference-prerequisites.json` into a record (lines 265 and 308) is left out:
nothing reads it back. Process deaths, power losses,
upstream changes, policy changes and tampering are actions of the environment.

**`AptSelection`** and **`ReferenceOverlay`** look inside one preparation.
The first follows a target's dependency lines from `requests` through the split
between the catalogue, a toolchain and APT, to the pins and the transaction of
`install_script`; what APT does under pins is external. The second is the
staged tree: `place` entry by entry, `COLLISION_CHECK` against the container,
the copy, which replaces files and may lose some, `RUNTIME_CHECK` after it.
`ldconfig` writes the loader's cache in between: `OverlayOnlyAdds` speaks of
every file of the Debian root but that one.

**`RepositorySnapshot`** and **`FrozenRepository`**. The second is the promise
`snapshot-repository.py` makes to a job: at most one generation is frozen, one
that was published by then, and every target is answered with it. The first is
the script in several targets at once, one action per step that another process
can come between, with a publisher that writes two files under its exclusive
lock, failures and kills. It implements the promise under the mapping
`published <- source.index`, `frozen <- Generation(snapshot)`, where a pair of
files of different generations maps to `Torn`, a generation no publisher ever
reaches. Where two targets both find no snapshot, the second rename fails.

**`Devices`**, **`Coldplug`**, **`LiveRoot`**, **`DiskRoot`** and
**`EarlyBoot`**. `Devices` is the kernel as the hooks see it: what a driver
exposes shows up at most `MaxDelay` sleeps later. The three hooks are one
module each over the same device state; `Coldplug`'s property speaks of the
least set of devices closed under driving a bus (`Reachable`). `EarlyBoot`
composes them with
prelude, which runs each hook once in an order the capabilities allow, and with
the StrataFS hooks. That order is taken from the hooks' capabilities; prelude
itself is another repository's. A mount of the right medium that fails on the
kernel's side (`mount-root.sh:101`) is not modelled: a medium in the model mounts.

**`PtyDrive`**. The driver, the command, the two bounded queues between them
and the deadline. The command does what it likes and exits with any status,
those the driver uses itself (1, 124, 125, and 137 for a killed command) included.
A send blocks while the command lives and the terminal is full; once the command has gone the write is refused and the driver ends with 125
(`SendRefused`). The terminal's echo is not modelled.

**`LookupService`** and **`Resolver`**. The first is the abstract
specification: one reply, equal to the answer the DNS defines for the request,
`unavailable` or an error. The second is `lookup`, `query` and `exchange` with
retries, truncation and unusable answers, and with the two ways into the error:
a candidate no message can carry (`BadLabel`) and an answer whose alias does not
decode (`MalformedAlias`), which ends the lookup where any other unusable answer
sends it to the next server. It implements the first with the state it has
(`Service == INSTANCE LookupService`, no mapping is needed because request,
zone and reply are its own variables).

**`DnsMessage`** and **`MessagePack`** are what `Resolver` abstracts from: an
answer that is usable is one `DnsMessage` reads, and a reply is one that
`MessagePack` frames. `DnsMessage` decodes names with compression pointers,
records, alias chains and reverse answers; the writing server is external.
`MessagePack` packs and unpacks octet by octet, and `Handler.handle` serves a
request, with what a lookup finds as a parameter. A family that is a list or a
map gets no answer at all (`Raises`: the TypeError of line 297 is caught
nowhere). Python's recursion limit on nested lists is not modelled.

**`FirmwareSorting`** reads WHENCE one line per step (`Preamble`, `Rule`,
`DriverLine`, `FileLine`, `LinkLine`, `CiteLine`, `WordLine`), with the group of
paths that wait for a licence and the pending declarations as `parse_whence`
keeps them; `Account` runs `assign`, `derive` and `account` on what was read,
and `Sort` is the rest of `main`: everything `copy-firmware.sh` produced goes to
its package's shelf, or the run fails.
Patterns are the sets of drivers and paths they match, licences are names. The
properties compare the result with a declarative reading of the same lines
(`Statement`, `Stated`, `LicenceOf`), which has no group and nothing pending.

**`CertData`** reads a text line by line with `parse_objects`' state (the open
object, the open octal block) and converts it; the property reads the same text
by position. **`Microcode`** walks a sequence of octets with the offsets of
`parse_container_file`; the radix of an octet is a parameter, so that sizes at
the limits stay small.

**`FeatureServices`**. Every script is two commands, one per service, and stops
at the first that fails; it may be killed between any two steps, and others
write the registry meanwhile. `reg del` exits 2 for an absent key and for a
descendant that vanished under it, which is what `remove_service` must tell
apart.

**`Stage0`**. One action per step of `acquire-stage0.py`, each able to fail or
be killed, rerun for the same release or another in the same directory, and the
verification every worker runs on what it finds. Both scripts look only at files
that begin as an ELF file or an archive does (`Recognized`): one that was left
out, or that lost its magic before it was recorded, goes by unseen.

**`Subjects`** brings together the parts that are short or sequential. It
declares their variables, instantiates `CertData`, `Microcode`, `AptSelection`,
`ReferenceOverlay`, `RepositorySnapshot`, `FeatureServices` and `Stage0`, and
states the seven properties of theirs that are both checked and proved:
`BundleIsTheStore`, `MicrocodeWalksWhole`, `RequestsServed`, `OverlayOnlyAdds`,
`OneGenerationPerJob`, `SuccessSpeaksForBoth`, `OnlyAuthenticStage0`.
**`MCTools`** extends it and puts all nine subjects into one run. A behaviour has one `subject`: for a document
tool the sample is a valid document and every step an edit of it (damage, one
more entry, one more record); for the three protocols the steps are the
module's own. The subjects do not mix: nothing in the code connects them.

A `*Proofs` module holds the theorems about the module it is named for, and
`ToolProofs` those about `Subjects`. An `MC*` module gives the constants of one
instance; its `.cfg` names the properties. Definitions whose name adds a slip to another's (`BeginAfresh`,
`PublishOver`, ...) stand before the definition they vary and are not used by a
specification; substituting one shows that a property notices that mistake.

## 3. What the runs check

| Run | Shows | Bounds and why they are enough |
|---|---|---|
| `medium_swap` | `RepositoryKeptUntilSwapped`, `CompleteMeansSwapped`, `DeclaredListNeverLost`, `OnlyListedRemoved`, `CleanupOnlyForgets`, and that an invocation that meets no further fault finishes, clean, unless an earlier one died after it removed the checkpoint (`FinishesUnlessCut`) | six package names, eight image lists (well-formed, incomplete, every kind of malformed), three faults: one in the exchange, one in the cleanup, one after the checkpoint is gone |
| `installer` | `DoneMeansInstalled`, `UkiHasDiskHookOnly`, `FormatsOnlyWhenReady` | two faults (commands that fail, kills, unmounts that fail), two TERMs, two invocations: a killed run meets a second one, and what a TERM sent to the tmpfs in the first is still there in the second. `UkiHasDiskHookOnly` is claimed for at most one TERM: with one in each of two invocations `mkuki` packs the live archive the first left in the tmpfs |
| `installer_term` | `DoneIsDone` fails: after a TERM the trap unmounts and the script carries on | one signal is enough |
| `debian_roots` | `MarkerIsLast`, `OneBasePerJob`, `RecordsHaveArchives`, `RootIsItsRecord`, `ArchivesImmutable` | two processes at a time, three in all, two jobs, two dependency sets, one change of each kind, one death or power loss; processes, jobs and dependency sets are symmetric |
| `debian_roots_power` | `RecordsSurvivePowerLoss` fails: the loser of a publication race relies on a directory entry its winner has not synced | one power loss |
| `debian_roots_targets` | `RootIsTheTargets` fails: a job's cached record is chosen by its requests alone, and a target with another toolchain selection gets it | two targets of one job |
| `early_boot` | `ChainLoaded`, `LiveRootIsTheMedium`, `DiskRootIsNamed`, `NeverGivesUpOnStorage`, `EveryBootEnds` | storage behind two modular buses and without any; windows of two scans against a delay of one sleep, the tightest pair the design allows |
| `pty_drive` | `MatchesAreDisjoint`, `OwnStatusMeansMatched`, `TranscriptIsOutput`, `EndsUnlessSendBlocks` | texts that overlap, a send longer than the terminal takes, queues of two characters so that a text straddles reads; a command's statuses are 0 and two the driver uses itself, 1 and 125 |
| `pty_drive_send` | `EndsByTheDeadline` fails: `send` looks at no deadline | one send longer than the queue, to a command that lives and does not read |
| `resolver` | the refinement `Implements`, `OneGoodServerSuffices`, `EveryLookupReplies` | every zone over three candidates and two types, any of the candidates without an encoding, two servers of which any may fail or answer nonsense, two rounds |
| `firmware_sorting` | `Attributed`, `AcceptedRelease` | every WHENCE of up to six lines over two packages and the ignore list: enough for two drivers, two files, a link before or after its target and two statements, or two sections; a path is listed once, as upstream's own checker demands, and what stands before the first driver is one line; two tables of declared licences, each accepted for some WHENCE; upstream copies any subset of the paths |
| `tools` | nine properties, one per subject: see below | see below |

`tools`, subject by subject:

| Subject | Property | Samples and why they are enough |
|---|---|---|
| certificates | `BundleIsTheStore` | a store of two certificates, one trusted, and one whose trust objects come in another order and whose serial numbers differ only in the order of their rows; the first damaged twice, the second once: a line lost, doubled or swapped with the next, anywhere |
| microcode | `MicrocodeWalksWhole` | one container with one patch; two edits, each rewriting a word that is read with the values about every limit, cutting about the end of a section, or adding a section |
| apt | `RequestsServed` | every pair of lines over five names, with and without a constraint, in five families; and every pair of constraints on one name against every set of three versions offered and every version installed |
| overlay | `OverlayOnlyAdds` | two packages, one of them a reviewed subtree, with and without a toolchain; two edits that add an entry of any kind to a package or to the Debian root (the loader's cache and a pkg-config name without `.pc` among them), or lose a file in the copy |
| dns | `ReadsWhatWasWritten` | a question and up to three answers, each name in full or as short as compression allows, so that names run through several pointers |
| protocol | `AnsweredInFull` | requests with values at each width of a header, of every type the protocol has, families that cannot be looked up among them; lookups that find, find nothing or are unavailable, names without an encoding; replies of up to seventeen records, past the limit of a short list |
| snapshot | `OneGenerationPerJob` | two targets, two publications, two runs of each |
| services | `SuccessSpeaksForBoth` | four scripts in any order |
| stage0 | `OnlyAuthenticStage0` | two releases, three components of two binaries, any of which may be left out, changed or lose its magic; three runs |

`medium_swap` and `resolver` also check their modules' `TypeOK`, which says more
than types (a checkpoint in place is never a half-written file; a query stays
within its rounds). The other modules' `TypeOK` documents what each variable
holds. Deadlock checking is off because each of these programs ends.

### What the violations mean

`PROJECT.json` "findings" quotes the lines. In short: a TERM does not stop the
installer, it only unmounts its target under it; a root prepared for one target
of a job is handed to another whose toolchain selection differs; a record can
outlive its archive after a power loss; `pty-drive` can block for ever in a send.
The others were met while reading and have no run:

* `--whole-disk` partitions before the checks that are said to come before
  anything is destroyed;
* a failing `reg info` is read as "no such key";
* `pty-drive` does not close the terminal after the script as its header says;
* it ends with a status 1 of its own, which the header does not list;
* one malformed alias ends a lookup that other servers might have answered;
* a family that is a list closes the client's connection without a reply;
* a bootstrap binary that is left out, or truncated before its magic, is accepted
  by both scripts.

The models contain each of the last four, and the properties say what is left of
the promise: `OwnStatusMeansMatched` excepts 1, 124 and 125,
`OneGoodServerSuffices` is about "unavailable" and says what an error needs,
`AnsweredInFull` expects no reply there, `OnlyAuthenticStage0` speaks of
recognized files.

### Fairness

* `MediumSwap`: weak fairness of `Step`: a running script goes on. There is none
  of `Retry`, because nobody is bound to run the installer again;
  `FinishesUnlessCut` starts where an invocation begins, whoever began it, and
  ends with it or with its next fault.
* `EarlyBoot`: weak fairness of the hooks and of the kernel showing devices.
* `PtyDrive`: weak fairness of the driver and of the clock; none of the command.
* `Resolver`: weak fairness of `Next`; every exchange has a socket timeout, so
  it ends one way or the other.

`Installer`, `DebianRoots`, `FirmwareSorting` and the subjects of `tools` have
safety properties only.

## 4. What is proved

`MediumSwapProofs` proves, for every set of packages, every set of declared
lists and every number of faults (assumptions `PackageAssumption`,
`ListsAssumption`, `FaultsAssumption`):

| Theorem | Property |
|---|---|
| `TypeCorrect` | `TypeOK`: a checkpoint in place is never a half-written file |
| `RepositoryKept` | `RepositoryKeptUntilSwapped` |
| `MarkerIsTrue` | `CompleteMeansSwapped` |
| `DeclaredListKept` | `DeclaredListNeverLost` |
| `RemovalsAreListed` | the action property `OnlyListedRemoved` |
| `CleanupForgets` | the action property `CleanupOnlyForgets` |

None of the properties is inductive: they speak of the files on the target,
while what makes them true is where the running script is. The invariant `IInv`
adds that. `Writing` says what a pending checkpoint stands for (the marker is
only pending after the swap, the default list only when nothing was there).
`Working` says that the swap runs on a valid list, with the repository in place,
on listings that are still current, and that a removal has been done once it is
passed. `Cleaning` ties the cleanup steps to the marker. `Resumable` is what a
later invocation can rely on whatever this one does: it is stated of the target
alone, so a crash, which forgets everything else, keeps it. `InitIInv` and
`NextIInv` (one step per action) make it inductive; the theorems follow by
temporal logic, the two action properties from the invariant and one more case
analysis of the actions that touch packages or the repository.

`ResolverProofs` proves, for every number of servers and rounds, every search
list, every set of record types, every request (with any of its candidates without an
encoding) and zone (assumptions `CountsAssumption`, `DomainAssumption`,
`FamiliesAssumption` and `ReplyAssumption`, which says that no reply yet is none
of the replies: no answer, not "unavailable", not an error):

| Theorem | Property |
|---|---|
| `TypeCorrect` | `TypeOK`: a query stays within its rounds and its candidate |
| `OneGoodServer` | `OneGoodServerSuffices` |
| `Refinement` | `Implements`: every behaviour of the lookup is one of `LookupService` |

`TypeOK` is not inductive: the position stays in range only because a query
never leaves its candidate (`Querying`). `Tried` adds that every server the
current query has turned to failed an exchange; once `asked` reaches
`Servers * Attempts`, `RoundsVisitAll` shows that this is all of them. For the
refinement, `Passed` says that no candidate behind the position has addresses
and that `nodata` holds the first that exists, and `Learnt` ties `exists` and
`addresses` to the zone and the types still pending. `FoundIsAnswer` and
`RestIsAnswer` then turn the two ways a lookup ends into the service's answer;
`LeastNatural` supplies the least index both need. A lookup that ends in an error
has met a server in `unsteady` or stands at a candidate without an encoding. Every
step is the service's
`Reply` or leaves its variables alone (`StepRefines`).

`DebianRootsProofs` proves, for every set of processes, jobs, targets and
dependency sets, and every number of runs, failures, power losses, upstream and
policy changes and corruptions (`BoundsAssumption`, and `NoneAssumption`, which
keeps "nothing" apart from what can be there):

| Theorem | Property |
|---|---|
| `TypeCorrect` | `TypeOK`, and every process in a state a process can be in |
| `RecordsAreWhole` | `MarkerIsLast` |
| `JobsHaveOneBase` | `OneBasePerJob` |
| `ArchivesComeFirst` | `RecordsHaveArchives` |
| `RootsAreRecorded` | `RootIsItsRecord` |
| `PublishedStays` | the action property `ArchivesImmutable` |

The argument is the lock's: `Exclusive` shows that two working processes are
never of one job, so what a process has found out about its job's files stays
true until it acts. `PInv` says what that is at each place of the program: no
record is complete while one is being acquired (`Missing`), `installed.tsv`
names the archive before the marker does (`HalfWritten`), the image is the
job's pin (`OnPin`), the archive is of the requests asked for (`ForRequests`)
and is in the store unless power was lost (`InStore`), and what is extracted was
verified (`Verified`). `CachePinned` ties every complete record of a job to its
pin. `Untouched` is what lets each action be proved for the one process that
takes it: all others keep their `PInv`.

`InstallerProofs` proves, for every set of entries of the medium and every
number of faults, TERM signals and invocations (`EntryAssumption`,
`BoundsAssumption`):

| Theorem | Property |
|---|---|
| `TypeCorrect` | `TypeOK` |
| `DoneIsInstalled` | `DoneMeansInstalled` |
| `UkiBootsTheDisk` | `UkiHasDiskHookOnly`: with at most one TERM |
| `FormatsWhenReady` | `FormatsOnlyWhenReady` |

`Trapping` says where the trap is set, `Checks` what the checks established and
what of it lasts, `Retired` how far the service key is gone, and `Progress` what
the target holds at each step. `Progress` is stated for `terms = 0`: a TERM
unmounts the target under the running script, which is what the run
`installer_term` shows. `Images` is about the archive `mkuki` reads. The copy has
put the live system's there, so that `mkirf` wrote the tree `mkuki` reads has to
be shown: without a TERM it is the same tree, and the tmpfs is bare until the
first TERM, so after one that comes between the two `mkuki` finds no kernel and
refuses. `Begun` says that the copy begins with everything to do.

`EarlyBootProofs` proves, for every tree of devices, every delay, every window,
every `root=` and every order of the hooks the capabilities allow
(`ParentAssumption`, `DelayAssumption`, `ScanAssumption`, `MediumAssumption`,
`LiveRetriesAssumption`, `TaggedAssumption`, `DiskRetriesAssumption`):

| Theorem | Property |
|---|---|
| `TypeCorrect` | `TypeOK` |
| `ChainsAreLoaded` | `ChainLoaded` |
| `LiveRootIsMedium` | `LiveRootIsTheMedium` |
| `DiskRootIsTheNamed` | `DiskRootIsNamed` |
| `StorageIsWaitedFor` | `NeverGivesUpOnStorage` |

What makes the windows work is `WaitedFor(n)`: whatever a loaded driver still
owes has been owed for as many sleeps as the hook has counted. `NothingDue`
turns a count beyond `MaxDelay` into "everything shows"; `Calm` is that and no
alias unhandled, and with it the loaded drivers are closed under `Parent`, which
is `ChainLoaded`'s least set (`Drives`). Each hook has its invariant
(`ColdplugInv`, `LiveInv`, `DiskInv`) with a lemma that the other hooks' steps
keep it, because all three look at the same devices; `PreludeInv` says which
hook is running and which have run. Nothing here assumes that a window exceeds
the delay: the properties carry that condition themselves.

`PtyDriveProofs` proves, for every alphabet, every set of scripts and every size
of the terminal's queues (`ScriptAssumption`, `CapAssumption`,
`StatusAssumption`):

| Theorem | Property |
|---|---|
| `TypeCorrect` | `TypeOK` |
| `MatchesNeverOverlap` | `MatchesAreDisjoint` |
| `StatusMeansMatched` | `OwnStatusMeansMatched` |
| `NothingIsLost` | `TranscriptIsOutput` |

`Scripted` says where the driver stands in its script, `Matched` that the matches
so far are the expects so far, each behind the one before and no further than
`mark`; `Transcribed` that transcript and queue together are what the command
wrote; `Reported` when there is a status. `StatusAssumption` asks only that
a command's statuses are bytes: it may exit with 1, 124, 125 or 137 in the proofs
too. `HitFacts` (the search finds the first
occurrence) and `TakeFacts` (a read moves a prefix of the queue to the end of the
transcript and changes no stretch matched before) are about sequences and rest
on the library's `SequenceTheorems`.

`FirmwareSortingProofs` proves, of every WHENCE of every length, for every set of
drivers, paths and licences and every table of families (`FamilyAssumption`,
`LicenceAssumption`, `LinesAssumption`):

| Theorem | Property |
|---|---|
| `EveryPathAttributed` | `Attributed` |
| `EveryReleaseAccounted` | `AcceptedRelease` |

For `EveryPathAttributed` the parser's state has to be shown equal to a reading of the whole text. The statement that
may still grow is the one the text ends in (`Growing`); `Heard` says that what is
pending is what it says, `Given` that an entry's items are what the *settled*
statements say of its paths, and that a path is in the group exactly as long as
a later statement may still speak for it (`Waits`). `LicenceIs` joins the two:
the licence of a listing is what is pending if it waits and what it was given
otherwise, which is what `close_group` would do at that point (`ClosedGives`).
`Continues` shows that a licence line or a driver settles nothing, `Settles` that
a rule or a listing settles everything pending. `Listed` adds that a path is
listed once and every driver has its entry; without it two listings could be
mistaken for one.

`EveryReleaseAccounted` is about `assign`, a fold over the entries and, in each,
over its files and its links. Its invariant `AInv` adds two parts to the
parser's: `Complete` (the entries hold the listings of the text, each once, in
their order, and nothing else) and `Judged` (a verdict stands for what the
accounting asks of the assignment, and a shelf is what the accounting gave it).
A fold is the last of the values it goes through (`FoldIs`), and `Claims` says of
each value what the listings claimed so far amount to: who owns a path, and what
terms and texts a family carries. `FilesClaimed`, `LinksClaimed` and `EntriesFold`
take `Claims` over one entry's files, its links and all entries, `AssignedClaims`
is the end of it; `AccountedDeclares` and `SortedHolds` read the two halves of the
property off that. The induction is over a *set* of positions that contains 0 and
with each number the next (`Climbs`), so no induction rule with an operator for a
parameter is needed.

`ToolProofs` proves eight theorems about the instances of `Subjects`:

| Theorem | Property | For every |
|---|---|---|
| `OneGeneration` | `OneGenerationPerJob`: `RepositorySnapshot` implements `FrozenRepository` | set of targets, number of publications, runs, failures and kills |
| `SuccessIsForBoth` | `SuccessSpeaksForBoth` | number of scripts, killed and rerun anywhere, while others write the registry |
| `Stage0IsAuthentic` | `OnlyAuthenticStage0` | set of releases, number of runs |
| `EveryRequestServed` | `RequestsServed` | set of lines, catalogue, mirror and image |
| `BundleHoldsTheStore` | `BundleIsTheStore` | text: lines of any shape, number and order |
| `MicrocodeIsWalkedWhole` | `MicrocodeWalksWhole` | file, of bytes of any width above 3 (`RadixAssumption`: the magic's bytes) |
| `AnyAssemblyPasses` | files that pass one by one pass as their assembly | finite directory of files with distinct names |
| `OverlayKeepsTheRoot` | `OverlayOnlyAdds` | list of packages, toolchain tree and Debian root |

For the snapshot, `Locked` says that the descriptor is ahead of the index only
while the publisher has the lock, and that no target then does; `Copied` that a
copy made under the lock is whole; `Frozen` that the job's snapshot is, and that
every target that answers answers with it. Publishing the index, the first
rename and the printing are the abstract `Publish`, `Freeze` and `Report`; all
other steps stutter (`HiddenSteps`, `StepRefines`). For the services, the
services a script has dealt with stay so, because whoever else writes only makes
states no running script is there to end (`DealtWith`). For stage0, `Acquired(i)`
says that a component's archive is kept, and `Recorded` that what is on record,
whichever files there were, was found equal to one release, and that the inputs
name no other. Nothing is assumed of what is installed: a worker compares what it
recognizes with the record, so what passes is what is on record. For APT, `CandidateIsGreatest` is about pins (the candidate is the
greatest version all clauses allow), `AptIsAskedAllClauses` that a name is asked
for with the clauses of all its lines, `LinesAreServedOnce` that the split
between catalogue, toolchain and APT is one. `EveryRequestServed` has one
hypothesis beyond `AptAssumption`: the versions offered or installed of each name
asked for are bounded, as those of a finite mirror are; otherwise there would be
no greatest.

For the microcode walk, `HeaderOf` and `PatchOf` say what a section that is
accepted looks like and how far it takes the walk; `Inside` and `Forward` are the
walk's invariant: it has read nothing past the end, and while there is something
left it has come eight bytes a section, so `Bound` sections are enough for any
file. For two files one after the other, `In` relates the walk of both to the walk
of the first and `Past`, once that has ended, to the walk of the second with the
first one's inventory added; a section of either file is one of both
(`JoinedSections`), which is where the check of what remains, with its header,
is needed. `GoodFilesJoin` is the result for two files; `AnyAssemblyPasses` takes
it over a directory, for which the files have to be put in order (`Sortable`) and
flattened (`FlattenIs`). The only hypothesis of `MicrocodeIsWalkedWhole` is that
the sample is bytes.

For the certificate store, the text is read twice, by `parse_objects` line by line
and by the property from one CKA_CLASS line to the next. A line that is not
refused does one of four things (`ReadOne`), and a text that is not refused had no
attribute line inside a block: such a row would spoil the block (`StaysSpoilt`). The
invariant (`Kept`) says of the first n lines that the objects so far hold exactly
what their attribute lines say, each at most once, but for the line whose block is
open, which has collected its rows so far (`KeepRow`, `KeepBlock`, `KeepAttribute`).
As an object is opened at each CKA_CLASS line that follows an attribute and nowhere
else (`NumberSteps`), the lines of one object are those of one stretch
(`StretchIs`), and the objects are the stretches, one to one (`StoreIs`). What
`convert` asks of the objects (`ConvertIs`) then carries over (`StoreHeld`):
`Paired` makes the certificates and the trust objects match one to one. The
hypothesis is that the sample is lines (`CertLine`), named and valued as the
parser's regular expression lets them be.

For the overlay, `PlaceOne` says that placing an entry keeps every file and link
already placed (`Grows`) and has the entry (`Put`); both last through the fold over
a package's files, the fold over the packages (`InstallAll`) and the fold that adds
the pkg-config links in whatever order (`LinkAll`). What is then copied is judged
by the collision check before and the runtime check after: the first keeps
Debian's files (but for the loader's cache, which `ldconfig` writes), the second
rules out a lost one. `IsAsk` is what a request is: trees
of nodes, and packages that list `usr` itself, which `install_catalogue` passes
over, as a directory.

The assumptions (`SnapshotAssumption`, `Stage0Assumption`,
`AptAssumption`) only keep "none" apart from the values it stands beside.

Each of these invariants was checked by TLC on a small instance before it was
proved. One was wrong as first written: in `EarlyBoot` it said of a hook that has
failed, too, that it waited for everything due; a driver loaded after the failure
refutes that.

## 5. What is only model-checked, and what is not modelled

* Liveness stays with TLC: the prover does not do fairness or `ENABLED`. These
  are `FinishesUnlessCut`, `EveryBootEnds`, `EndsUnlessSendBlocks` and
  `EveryLookupReplies`.
* External programs (`peipkg`, `reg`, `part`, mkfs, Docker, `tar`, the kernel,
  DNS) are modelled as far as the code relies on them, with their failures.
* `DnsMessage` and `MessagePack` hold recursive operators, out of the prover's
  reach: `ReadsWhatWasWritten` and `AnsweredInFull` are checked only.
* Text: quoting, messages, PEM and the wording of refusals.
* Left out of modelled parts: the terminal's echo (`pty-drive`), a kernel that
  fails to mount the right medium (`mount-root.sh:101`), prelude's own ordering of
  the hooks, the prerequisites file kept with a record (`prepare.py:265` and
  `308`), the recursion limit on nested MessagePack values.
* Of `reference.py`, the downloads, the signature check, the repository index
  and the preflight commands: I/O whose results the model takes as given.
* Of the native roots, the composition, one run of `peipkg-compose` followed by
  straight-line copies, and entering the root. Of the resolver, reading
  `resolv.conf`, international names and the sockets' own failures beyond a lost
  exchange.
* The Intel microcode scripts, which read sizes and checksums with `od` and
  `awk`.
* `split-debug`, `collect-rust-licences`, `install-wheel`, `gen-members.py` and
  the launchers: one pass over files, whose rules concern the contents of ELF
  files, wheels and recipes and leave nothing to interleave or recover.
* Running a sorting again into an output directory that an earlier run filled:
  the output directory a build is given is assumed to be empty.
* The components listed with status `not_modelled`, with the reason, in
  `PROJECT.json`.

## 6. Plan

Modelled first, because a mistake there loses data or a machine: the installer,
the build-root store, early boot. Then the programs that wait for others:
pty-drive, the resolver. Then `FirmwareSorting`, the largest of the checkers.
The programs that work on one document or run
one short protocol came last and share a run.

Every module with a step relation has its safety properties proved, and so have
`CertData`, `AptSelection`, `Microcode` and `ReferenceOverlay`. What remains:
`DnsMessage` and `MessagePack` with their recursion written as recursive functions
over the octets left, so that the prover can be used on them.
