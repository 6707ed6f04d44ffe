----------------------------- MODULE DebianRoots -----------------------------
(***************************************************************************)
(* prepare.py: the Debian roots packages are built in.  A process prepares *)
(* the root of one target of one job: from the job's cached record if it   *)
(* is complete, from a record to replay, or by running APT in a container  *)
(* and publishing the result in the store that all jobs share.  Processes  *)
(* of one job take turns (debian.lock); processes of different jobs meet   *)
(* in the store.                                                           *)
(*                                                                         *)
(* An archive is what went into it; its digest names it, so the digest is  *)
(* the archive itself.  What the store holds under that name is the        *)
(* archive or something corrupt.  Directory entries become durable at      *)
(* sync_directory; a power loss forgets any others.                        *)
(***************************************************************************)
EXTENDS Naturals

CONSTANTS
  Process, Job, Target,
  WithToolchain,  \* the targets toolchain_for gives a pinned Rust (AptSelection)
  Deps,         \* the dependency lists a target may have
  None,
  MaxUpstream,  \* bound: moves of the image tag and of the APT mirror
  MaxPolicy,    \* bound: changes of this directory's scripts and keys
  MaxRuns,      \* bound: preparations
  MaxFailures,  \* bound: processes that fail or are killed, and power losses
  MaxCorrupt    \* bound: archives replaced in the store from outside

ASSUME BoundsAssumption ==
  {MaxUpstream, MaxPolicy, MaxRuns, MaxFailures, MaxCorrupt} \subseteq Nat
ASSUME TargetsAssumption == WithToolchain \subseteq Target

Archive == [deps : Deps, policy : 0..MaxPolicy, base : 0..MaxUpstream, apt : 0..MaxUpstream,
            toolchain : BOOLEAN]

Pin == [image : 0..MaxUpstream, policy : 0..MaxPolicy]

ASSUME NoneAssumption == None \notin Archive \cup Pin \cup Job \cup Process

VARIABLES
  upstream,   \* what the image tag and the mirror stand at
  policy,     \* policy_id() of the scripts on disk
  basePin,    \* per job, debian-base.json: [image, policy] or None
  cached,     \* per job, deps and policy: the record acquire writes
  record,     \* per job and target: the dependency record to replay from
  store,      \* per archive: "absent", "good" or "corrupt"
  volatile,   \* store entries not yet on disk
  lock,       \* per job, the process that holds debian.lock
  proc,       \* per process: pc, job, target, deps, replayed record, ...
  runs, failures, losses, corruptions

world == <<upstream, policy>>
disk  == <<basePin, cached, record, store, volatile>>
counters == <<runs, failures, losses, corruptions>>
vars  == <<world, disk, lock, proc, counters>>

Maybe(S) == S \cup {None}

(* A record directory: its installed.tsv and its completion marker.        *)
Record  == [installed : Maybe(Archive), marker : Maybe(Archive)]
Nothing == [installed |-> None, marker |-> None]

PCs == {"idle", "locked", "base", "apt", "publish", "sync", "compare", "installed", "marker",
        "open", "extract", "recordInstalled", "recordMarker"}

Idle == [pc |-> "idle", job |-> None, target |-> None, deps |-> None, replay |-> Nothing,
         isReplay |-> FALSE, policy |-> 0, image |-> None, archive |-> None,
         bytes |-> None, root |-> None]
-----------------------------------------------------------------------------
Init ==
  /\ upstream = 0 /\ policy = 0
  /\ basePin = [j \in Job |-> None]
  /\ cached = [j \in Job |-> [d \in Deps |-> [q \in 0..MaxPolicy |-> Nothing]]]
  /\ record = [j \in Job |-> [t \in Target |-> Nothing]]
  /\ store = [a \in Archive |-> "absent"]
  /\ volatile = {}
  /\ lock = [j \in Job |-> None]
  /\ proc = [p \in Process |-> Idle]
  /\ runs = 0 /\ failures = 0 /\ losses = 0 /\ corruptions = 0

At(p, pc) == proc[p].pc = pc

Working(p) == ~At(p, "idle")

Move(p, pc) == proc' = [proc EXCEPT ![p].pc = pc]

(* The process raises: the container and its temporary directory go, the   *)
(* lock is released.                                                       *)
Raise(p) ==
  /\ proc' = [proc EXCEPT ![p] = Idle]
  /\ lock' = [lock EXCEPT ![proc[p].job] = None]
  /\ UNCHANGED <<world, disk, counters>>

Only(p, pc) == Move(p, pc) /\ UNCHANGED <<world, disk, lock, counters>>

(* What a preparation starts from: its arguments, the policy, and the      *)
(* record to replay, if it is given one.                                   *)
Begun(j, t, d, b, r) ==
  [Idle EXCEPT !.pc = "locked", !.job = j, !.target = t, !.deps = d, !.policy = policy,
               !.isReplay = b, !.replay = r]

(* pekit runs the preparation for a target, perhaps replaying a record of  *)
(* an earlier job; the job's lock is taken and the policy read.            *)
Start(p) ==
  /\ At(p, "idle")
  /\ runs < MaxRuns
  /\ runs' = runs + 1
  /\ \E j \in Job, t \in Target, d \in Deps :
       /\ lock[j] = None
       /\ lock' = [lock EXCEPT ![j] = p]
       /\ \/ proc' = [proc EXCEPT ![p] = Begun(j, t, d, FALSE, Nothing)]
          \/ \E from \in Job :
               proc' = [proc EXCEPT ![p] = Begun(j, t, d, TRUE, record[from][t])]
  /\ UNCHANGED <<world, disk, failures, losses, corruptions>>

Cache(p) == cached[proc[p].job][proc[p].deps][proc[p].policy]

Loaded(p) == IF proc[p].isReplay THEN proc[p].replay ELSE Cache(p)

(* load_record: the marker's schema, requests and policy are the ones      *)
(* asked for, and installed.tsv is the file it was written with.           *)
Acceptable(p) ==
  LET r == Loaded(p)
  IN /\ r.marker # None
     /\ r.marker.deps = proc[p].deps
     /\ r.marker.policy = proc[p].policy
     /\ r.installed = r.marker

Decide(p) ==
  /\ At(p, "locked")
  /\ proc[p].isReplay \/ Cache(p).marker # None
  /\ Acceptable(p)
  /\ proc' = [proc EXCEPT ![p].pc = "open", ![p].archive = Loaded(p).marker]
  /\ UNCHANGED <<world, disk, lock, counters>>

Reject(p) ==
  /\ At(p, "locked")
  /\ proc[p].isReplay \/ Cache(p).marker # None
  /\ ~Acceptable(p)
  /\ Raise(p)

Miss(p) ==
  /\ At(p, "locked")
  /\ ~proc[p].isReplay /\ Cache(p).marker = None
  /\ Only(p, "base")

(* The tag is resolved again for every root. *)
ResolveAlways(p) ==
  /\ At(p, "base")
  /\ basePin' = [basePin EXCEPT ![proc[p].job] = [image |-> upstream, policy |-> proc[p].policy]]
  /\ proc' = [proc EXCEPT ![p].pc = "apt", ![p].image = upstream]
  /\ UNCHANGED <<world, cached, record, store, volatile, lock, counters>>

(* docker pull and inspect, kept in the job's debian-base.json.            *)
ResolveBase(p) ==
  /\ At(p, "base")
  /\ basePin[proc[p].job] = None
  /\ basePin' = [basePin EXCEPT ![proc[p].job] = [image |-> upstream, policy |-> proc[p].policy]]
  /\ proc' = [proc EXCEPT ![p].pc = "apt", ![p].image = upstream]
  /\ UNCHANGED <<world, cached, record, store, volatile, lock, counters>>

PinnedBase(p) ==
  /\ At(p, "base")
  /\ basePin[proc[p].job] # None
  /\ IF basePin[proc[p].job].policy = proc[p].policy
       THEN /\ proc' = [proc EXCEPT ![p].pc = "apt", ![p].image = basePin[proc[p].job].image]
            /\ UNCHANGED <<world, disk, lock, counters>>
       ELSE Raise(p)

(* The records are written before the archive is published. *)
RunAptRecordsFirst(p) ==
  /\ At(p, "apt")
  /\ proc' = [proc EXCEPT ![p].pc = "installed",
       ![p].archive = [deps |-> proc[p].deps, policy |-> proc[p].policy,
                       base |-> proc[p].image, apt |-> upstream,
                       toolchain |-> proc[p].target \in WithToolchain]]
  /\ UNCHANGED <<world, disk, lock, counters>>

(* One APT transaction in a container of the pinned image, the toolchain   *)
(* copied into it (ReferenceOverlay), exported and compressed beside the   *)
(* store.                                                                  *)
RunApt(p) ==
  /\ At(p, "apt")
  /\ proc' = [proc EXCEPT ![p].pc = "publish",
       ![p].archive = [deps |-> proc[p].deps, policy |-> proc[p].policy,
                       base |-> proc[p].image, apt |-> upstream,
                       toolchain |-> proc[p].target \in WithToolchain]]
  /\ UNCHANGED <<world, disk, lock, counters>>

(* os.replace instead of os.link. *)
PublishOver(p) ==
  /\ At(p, "publish")
  /\ store' = [store EXCEPT ![proc[p].archive] = "good"]
  /\ volatile' = volatile \cup {proc[p].archive}
  /\ Move(p, "sync")
  /\ UNCHANGED <<world, basePin, cached, record, lock, counters>>

(* os.link publishes, or fails because the name is taken.                  *)
Publish(p) ==
  /\ At(p, "publish")
  /\ store[proc[p].archive] = "absent"
  /\ store' = [store EXCEPT ![proc[p].archive] = "good"]
  /\ volatile' = volatile \cup {proc[p].archive}
  /\ Move(p, "sync")
  /\ UNCHANGED <<world, basePin, cached, record, lock, counters>>

NameTaken(p) ==
  /\ At(p, "publish")
  /\ store[proc[p].archive] # "absent"
  /\ Only(p, "compare")

SyncStore(p) ==
  /\ At(p, "sync")
  /\ volatile' = {}
  /\ Move(p, "installed")
  /\ UNCHANGED <<world, basePin, cached, record, store, lock, counters>>

(* A digest of what is there already: the same archive, or an error.       *)
SameArchive(p) ==
  /\ At(p, "compare")
  /\ IF store[proc[p].archive] = "good" THEN Only(p, "installed") ELSE Raise(p)

CacheUpdate(p, r) ==
  cached' = [cached EXCEPT ![proc[p].job][proc[p].deps][proc[p].policy] = r]

(* The completion marker goes first. *)
WriteMarkerFirst(p) ==
  /\ At(p, "installed")
  /\ CacheUpdate(p, [Cache(p) EXCEPT !.marker = proc[p].archive])
  /\ Move(p, "marker")
  /\ UNCHANGED <<world, basePin, record, store, volatile, lock, counters>>

WriteInstalled(p) ==
  /\ At(p, "installed")
  /\ CacheUpdate(p, [Cache(p) EXCEPT !.installed = proc[p].archive])
  /\ Move(p, "marker")
  /\ UNCHANGED <<world, basePin, record, store, volatile, lock, counters>>

WriteMarker(p) ==
  /\ At(p, "marker")
  /\ CacheUpdate(p, [Cache(p) EXCEPT !.marker = proc[p].archive])
  /\ Move(p, "open")
  /\ UNCHANGED <<world, basePin, record, store, volatile, lock, counters>>

(* The archive is opened and its digest taken...                           *)
OpenVerify(p) ==
  /\ At(p, "open")
  /\ IF store[proc[p].archive] = "good"
       THEN /\ proc' = [proc EXCEPT ![p].pc = "extract", ![p].bytes = "good"]
            /\ UNCHANGED <<world, disk, lock, counters>>
       ELSE Raise(p)

(* The path is opened again for tar. *)
ExtractByPath(p) ==
  /\ At(p, "extract")
  /\ proc' = [proc EXCEPT ![p].pc = "recordInstalled", ![p].root = store[proc[p].archive]]
  /\ UNCHANGED <<world, disk, lock, counters>>

(* ... and tar reads the same open file, whatever the path names by then.  *)
Extract(p) ==
  /\ At(p, "extract")
  /\ proc' = [proc EXCEPT ![p].pc = "recordInstalled", ![p].root = proc[p].bytes]
  /\ UNCHANGED <<world, disk, lock, counters>>

RecordOf(p) == record[proc[p].job][proc[p].target]

RecordUpdate(p, r) == record' = [record EXCEPT ![proc[p].job][proc[p].target] = r]

(* installed.tsv is read again from the record that was loaded or written. *)
(* (reference-prerequisites.json, of a root with a toolchain, goes the same*)
(* way between the two and is left out.)                                   *)
RecordInstalled(p) ==
  /\ At(p, "recordInstalled")
  /\ RecordUpdate(p, [RecordOf(p) EXCEPT !.installed = Loaded(p).installed])
  /\ Move(p, "recordMarker")
  /\ UNCHANGED <<world, basePin, cached, store, volatile, lock, counters>>

RecordMarker(p) ==
  /\ At(p, "recordMarker")
  /\ RecordUpdate(p, [RecordOf(p) EXCEPT !.marker = proc[p].archive])
  /\ lock' = [lock EXCEPT ![proc[p].job] = None]
  /\ proc' = [proc EXCEPT ![p] = Idle]
  /\ UNCHANGED <<world, basePin, cached, store, volatile, counters>>

Step(p) ==
  \/ Decide(p) \/ Reject(p) \/ Miss(p) \/ ResolveBase(p) \/ PinnedBase(p) \/ RunApt(p)
  \/ Publish(p) \/ NameTaken(p) \/ SyncStore(p) \/ SameArchive(p)
  \/ WriteInstalled(p) \/ WriteMarker(p) \/ OpenVerify(p) \/ Extract(p)
  \/ RecordInstalled(p) \/ RecordMarker(p)
-----------------------------------------------------------------------------
(* A tool fails or the process is killed: the kernel drops its lock.       *)
Dies(p) ==
  /\ Working(p)
  /\ failures + losses < MaxFailures
  /\ failures' = failures + 1
  /\ proc' = [proc EXCEPT ![p] = Idle]
  /\ lock' = [lock EXCEPT ![proc[p].job] = None]
  /\ UNCHANGED <<world, disk, runs, losses, corruptions>>

(* The machine loses power.  mkdir of a job's directories is not synced:   *)
(* a job's records may be lost whole; what atomic() wrote is on disk.      *)
PowerLoss ==
  /\ failures + losses < MaxFailures
  /\ losses' = losses + 1
  /\ proc' = [p \in Process |-> Idle]
  /\ lock' = [j \in Job |-> None]
  /\ \E lost \in SUBSET volatile :
       store' = [a \in Archive |-> IF a \in lost THEN "absent" ELSE store[a]]
  /\ volatile' = {}
  /\ UNCHANGED <<world, basePin, cached, record, runs, failures, corruptions>>

(* The tag and the mirror move on.                                         *)
UpstreamMoves ==
  /\ upstream < MaxUpstream
  /\ upstream' = upstream + 1
  /\ UNCHANGED <<policy, disk, lock, proc, counters>>

(* The scripts, pins or the repository anchor are edited.                  *)
PolicyChanges ==
  /\ policy < MaxPolicy
  /\ policy' = policy + 1
  /\ UNCHANGED <<upstream, disk, lock, proc, counters>>

(* Something else replaces an archive in the store.                        *)
Corruption ==
  /\ corruptions < MaxCorrupt
  /\ \E a \in {b \in Archive : store[b] = "good"} : store' = [store EXCEPT ![a] = "corrupt"]
  /\ corruptions' = corruptions + 1
  /\ UNCHANGED <<world, basePin, cached, record, volatile, lock, proc, runs, failures, losses>>

Next == \/ \E p \in Process : Start(p) \/ Step(p) \/ Dies(p)
        \/ PowerLoss \/ UpstreamMoves \/ PolicyChanges \/ Corruption

Spec == Init /\ [][Next]_vars
-----------------------------------------------------------------------------
(* Every variable keeps its type; a job's lock is held by a process that   *)
(* works for that job, and a process at work holds its job's lock.         *)
TypeOK ==
  /\ upstream \in 0..MaxUpstream /\ policy \in 0..MaxPolicy
  /\ basePin \in [Job -> Maybe(Pin)]
  /\ cached \in [Job -> [Deps -> [0..MaxPolicy -> Record]]]
  /\ record \in [Job -> [Target -> Record]]
  /\ store \in [Archive -> {"absent", "good", "corrupt"}]
  /\ volatile \subseteq {a \in Archive : store[a] # "absent"}
  /\ lock \in [Job -> Maybe(Process)]
  /\ \A p \in Process : proc[p].pc \in PCs
  /\ \A p \in Process, j \in Job :
       lock[j] = p <=> proc[p].job = j /\ Working(p)
  /\ runs \in 0..MaxRuns /\ failures \in 0..MaxFailures /\ losses \in 0..MaxFailures /\ corruptions \in 0..MaxCorrupt

(* A cached record with a completion marker is whole: installed.tsv is the *)
(* one of the same acquisition, for the requests and policy of its key,    *)
(* whatever died between the two writes or in an earlier attempt.          *)
MarkerIsLast ==
  \A j \in Job, d \in Deps, q \in 0..MaxPolicy :
    LET r == cached[j][d][q]
    IN r.marker # None => r.installed = r.marker /\ r.marker.deps = d /\ r.marker.policy = q

(* All roots one job acquires stand on one base image, although targets    *)
(* are prepared at different times and the tag moves (debian-base.json).   *)
OneBasePerJob ==
  \A j \in Job, d, e \in Deps, q, r \in 0..MaxPolicy :
    LET m == cached[j][d][q].marker
        n == cached[j][e][r].marker
    IN m # None /\ n # None => m.base = n.base /\ m.policy = n.policy

(* Every completed record names an archive the store still has.            *)
Archived ==
  \A j \in Job :
    /\ \A d \in Deps, q \in 0..MaxPolicy :
         cached[j][d][q].marker # None => store[cached[j][d][q].marker] # "absent"
    /\ \A t \in Target :
         record[j][t].marker # None => store[record[j][t].marker] # "absent"

(* While nothing loses power, a record that can be cached or replayed      *)
(* never precedes its archive, whichever process failed where.             *)
RecordsHaveArchives == losses = 0 => Archived

(* A root handed to the builder is the archive its record names, for the   *)
(* requests asked for, even if the store is tampered with while tar runs.  *)
RootIsItsRecord ==
  \A p \in Process : proc[p].pc \in {"recordInstalled", "recordMarker"} =>
    /\ proc[p].root = "good"
    /\ proc[p].archive.deps = proc[p].deps
    /\ proc[p].archive.policy = proc[p].policy

(* Published archives are immutable: nothing the program does replaces or  *)
(* repairs what stands under a digest ("never an excuse to silently change *)
(* a historic environment").                                               *)
ArchivesImmutable ==
  [][\A a \in Archive :
       store[a] # "absent" /\ corruptions' = corruptions /\ losses' = losses
         => store'[a] = store[a]]_vars

(* A root holds the pinned toolchain exactly when its target is one that   *)
(* runs rustc ("the rest keep plain Debian roots").                        *)
RootIsTheTargets ==
  \A p \in Process : proc[p].pc = "recordMarker" =>
    proc[p].archive.toolchain = (proc[p].target \in WithToolchain)

(* "Each prepared root is automatically retained": a completed record      *)
(* names an archive that is in the store, also after a power loss.         *)
RecordsSurvivePowerLoss == Archived
=============================================================================
