-------------------------- MODULE DebianRootsProofs --------------------------
(***************************************************************************)
(* The safety properties of DebianRoots, proved for every set of           *)
(* processes, jobs, targets and dependency lists, and for every number of  *)
(* failures, power losses, upstream moves and corruptions.                 *)
(***************************************************************************)
EXTENDS DebianRoots, TLAPS

Slot == [pc : PCs, job : Maybe(Job), target : Maybe(Target), deps : Maybe(Deps),
         replay : Record, isReplay : BOOLEAN, policy : 0..MaxPolicy,
         image : Maybe(0..MaxUpstream), archive : Maybe(Archive),
         bytes : Maybe({"good"}), root : Maybe({"good"})]

(* From the container to the completion marker of the job's record, and    *)
(* wherever else a process has an archive.                                 *)
Acquiring == {"publish", "sync", "compare", "installed", "marker"}
Holding   == Acquiring \cup {"open", "extract", "recordInstalled", "recordMarker"}

Asked(p) == Working(p) => proc[p].job \in Job /\ proc[p].target \in Target /\ proc[p].deps \in Deps

(* Whoever acquires found no complete record, and the lock keeps it so.    *)
Missing(p) == proc[p].pc \in {"base", "apt"} \cup Acquiring => Cache(p).marker = None

HalfWritten(p) == At(p, "marker") => Cache(p).installed = proc[p].archive

(* What it acquires stands on the job's pinned image.                      *)
OnPin(p) ==
  proc[p].pc \in {"apt"} \cup Acquiring =>
    /\ basePin[proc[p].job] \in Pin
    /\ basePin[proc[p].job].policy = proc[p].policy
    /\ At(p, "apt") => proc[p].image = basePin[proc[p].job].image
    /\ ~At(p, "apt") => proc[p].archive.base = basePin[proc[p].job].image

ForRequests(p) ==
  proc[p].pc \in Holding =>
    /\ proc[p].archive \in Archive
    /\ proc[p].archive.deps = proc[p].deps
    /\ proc[p].archive.policy = proc[p].policy

(* Past publication, and in a record read for replay, the archive is there.*)
InStore(p) ==
  losses = 0 =>
    /\ proc[p].pc \in Holding \ {"publish"} => store[proc[p].archive] # "absent"
    /\ proc[p].replay.marker # None => store[proc[p].replay.marker] # "absent"

Verified(p) ==
  /\ At(p, "extract") => proc[p].bytes = "good"
  /\ proc[p].pc \in {"recordInstalled", "recordMarker"} => proc[p].root = "good"

PInv(p) == /\ Asked(p) /\ Missing(p) /\ HalfWritten(p) /\ OnPin(p)
           /\ ForRequests(p) /\ InStore(p) /\ Verified(p)

(* A job's records stand on the job's pinned image and policy.             *)
CachePinned ==
  \A j \in Job, d \in Deps, q \in 0..MaxPolicy :
    LET m == cached[j][d][q].marker
    IN m # None => /\ basePin[j] \in Pin
                   /\ m.base = basePin[j].image
                   /\ m.policy = basePin[j].policy

Shared == MarkerIsLast /\ CachePinned /\ RecordsHaveArchives

IInv == /\ TypeOK /\ proc \in [Process -> Slot]
        /\ Shared
        /\ \A p \in Process : PInv(p)
-----------------------------------------------------------------------------
(* The lock of a job is held by at most one working process.               *)
LEMMA Exclusive ==
  ASSUME IInv, NEW p \in Process, NEW q \in Process, p # q, Working(p), Working(q)
  PROVE  proc[p].job # proc[q].job
BY DEF IInv, PInv, Asked, TypeOK

(* The states of a process, told apart.                                    *)
LEMMA IdleFacts ==
  /\ Idle.pc = "idle" /\ Idle.replay = Nothing /\ Nothing.marker = None
  /\ Nothing.installed = None /\ Nothing \in Record
  /\ Idle \in Slot
<1>1. 0 \in 0..MaxPolicy
  BY BoundsAssumption
<1>2. Nothing \in Record
  BY DEF Nothing, Record, Maybe
<1> QED
  BY <1>1, <1>2 DEF Idle, Slot, PCs, Maybe, Nothing

(* An idle process has nothing to keep.                                    *)
LEMMA IdleInv ==
  ASSUME NEW p \in Process, proc'[p] = Idle
  PROVE  PInv(p)'
BY IdleFacts DEF PInv, Asked, Missing, HalfWritten, OnPin, ForRequests, InStore, Verified,
                 Working, At, Holding, Acquiring

(* A process keeps its part of the invariant through the steps of others:  *)
(* they leave its job's files alone and take nothing from the store.       *)
LEMMA Untouched ==
  ASSUME IInv, NEW p \in Process, proc'[p] = proc[p],
         Working(p) => /\ cached'[proc[p].job] = cached[proc[p].job]
                       /\ basePin'[proc[p].job] = basePin[proc[p].job],
         losses' = losses,
         \A a \in Archive : store[a] # "absent" => store'[a] # "absent"
  PROVE  PInv(p)'
<1> USE DEF IInv, PInv
<1>1. Asked(p)' /\ Verified(p)' /\ ForRequests(p)'
  BY DEF Asked, Verified, ForRequests, Working, At
<1>2. Missing(p)' /\ HalfWritten(p)' /\ OnPin(p)'
  BY DEF Missing, HalfWritten, OnPin, Cache, Working, At, Acquiring
<1>3. InStore(p)'
  <2>1. proc[p].replay.marker \in Maybe(Archive)
    BY DEF Slot, Record
  <2> QED
    BY <2>1 DEF InStore, ForRequests, Holding, Maybe
<1> QED
  BY <1>1, <1>2, <1>3
-----------------------------------------------------------------------------
LEMMA InitIInv == Init => IInv
<1> SUFFICES ASSUME Init PROVE IInv
  OBVIOUS
<1> USE IdleFacts DEF Init
<1>1. TypeOK /\ proc \in [Process -> Slot]
  <2>1. \A p \in Process, j \in Job : lock[j] = p <=> proc[p].job = j /\ Working(p)
    BY NoneAssumption DEF Working, At
  <2>2. cached \in [Job -> [Deps -> [0..MaxPolicy -> Record]]]
    OBVIOUS
  <2>3. basePin \in [Job -> Maybe(Pin)] /\ lock \in [Job -> Maybe(Process)]
    BY DEF Maybe
  <2> QED
    BY <2>1, <2>2, <2>3, BoundsAssumption DEF TypeOK, PCs
<1>2. Shared
  BY DEF Shared, MarkerIsLast, CachePinned, RecordsHaveArchives, Archived
<1>3. \A p \in Process : PInv(p)
  BY DEF PInv, Asked, Missing, HalfWritten, OnPin, ForRequests, InStore, Verified,
         Working, At, Holding, Acquiring
<1> QED
  BY <1>1, <1>2, <1>3 DEF IInv

(* Only the working process itself touches the files of its job.           *)
LEMMA OthersUntouched ==
  ASSUME IInv, NEW p \in Process, Working(p),
         \A q \in Process : q # p => proc'[q] = proc[q],
         \A j \in Job : j # proc[p].job => cached'[j] = cached[j] /\ basePin'[j] = basePin[j],
         losses' = losses,
         \A a \in Archive : store[a] # "absent" => store'[a] # "absent"
  PROVE  \A q \in Process : q # p => PInv(q)'
<1> SUFFICES ASSUME NEW q \in Process, q # p PROVE PInv(q)'
  OBVIOUS
<1>1. Working(q) => proc[q].job \in Job /\ proc[q].job # proc[p].job
  BY Exclusive DEF IInv, PInv, Asked
<1> QED
  BY <1>1, Untouched

(* What the records of the jobs can hold.                                  *)
LEMMA RecordTypes ==
  ASSUME IInv
  PROVE  /\ \A j \in Job, d \in Deps, q \in 0..MaxPolicy :
              cached[j][d][q] \in Record /\ cached[j][d][q].marker \in Maybe(Archive)
         /\ \A j \in Job, t \in Target :
              record[j][t] \in Record /\ record[j][t].marker \in Maybe(Archive)
<1>1. \A j \in Job : cached[j] \in [Deps -> [0..MaxPolicy -> Record]]
  BY DEF IInv, TypeOK
<1>2. \A j \in Job, d \in Deps, q \in 0..MaxPolicy : cached[j][d][q] \in Record
  BY <1>1
<1>3. \A j \in Job, t \in Target : record[j][t] \in Record
  BY DEF IInv, TypeOK
<1>4. \A r \in Record : r.marker \in Maybe(Archive)
  BY DEF Record
<1> QED
  BY <1>2, <1>3, <1>4

(* Whoever stops, of itself or killed, leaves the job's files as they are. *)
LEMMA Leaves ==
  ASSUME IInv, NEW p \in Process, Working(p),
         proc' = [proc EXCEPT ![p] = Idle],
         lock' = [lock EXCEPT ![proc[p].job] = None],
         UNCHANGED <<world, basePin, cached, store, volatile, runs, losses, corruptions>>,
         failures' \in 0..MaxFailures,
         record' \in [Job -> [Target -> Record]], RecordsHaveArchives'
  PROVE  IInv'
<1> USE DEF IInv, world
<1>1. proc' \in [Process -> Slot]
  BY IdleFacts
<1>2. \A q \in Process, j \in Job : lock'[j] = q <=> proc'[q].job = j /\ Working(q)'
  <2> SUFFICES ASSUME NEW q \in Process, NEW j \in Job
               PROVE  lock'[j] = q <=> proc'[q].job = j /\ Working(q)'
    OBVIOUS
  <2>1. proc[p].job \in Job
    BY DEF PInv, Asked
  <2>2. lock[proc[p].job] = p
    BY <2>1 DEF TypeOK
  <2>3. CASE q = p
    BY <2>1, <2>2, <2>3, IdleFacts, NoneAssumption DEF TypeOK, Working, At
  <2>4. CASE q # p
    BY <2>1, <2>2, <2>4, NoneAssumption DEF TypeOK, Working, At
  <2> QED
    BY <2>3, <2>4
<1>3. TypeOK'
  BY <1>1, <1>2 DEF TypeOK, Maybe, Slot
<1>4. Shared'
  BY DEF Shared, MarkerIsLast, CachePinned
<1>5. \A q \in Process : PInv(q)'
  <2>1. PInv(p)'
    BY IdleInv
  <2>2. \A q \in Process : q # p => proc'[q] = proc[q]
    OBVIOUS
  <2>3. \A q \in Process : q # p => PInv(q)'
    BY <2>2, OthersUntouched
  <2> QED
    BY <2>1, <2>3
<1> QED
  BY <1>1, <1>3, <1>4, <1>5

LEMMA RaiseInv ==
  ASSUME IInv, NEW p \in Process, Working(p), Raise(p)
  PROVE  IInv'
<1>1. record' = record /\ failures' = failures /\ RecordsHaveArchives'
  BY DEF Raise, counters, disk, IInv, Shared, RecordsHaveArchives, Archived
<1>2. failures \in 0..MaxFailures /\ record \in [Job -> [Target -> Record]]
  BY DEF IInv, TypeOK
<1> QED
  BY <1>1, <1>2, Leaves DEF Raise, counters, disk

(* The files of the state, and the part of one job in them.                *)
FilesOK ==
  /\ basePin \in [Job -> Maybe(Pin)]
  /\ cached \in [Job -> [Deps -> [0..MaxPolicy -> Record]]]
  /\ record \in [Job -> [Target -> Record]]
  /\ store \in [Archive -> {"absent", "good", "corrupt"}]
  /\ volatile \subseteq {a \in Archive : store[a] # "absent"}

SameButJob(k) ==
  \A j \in Job : j # k => cached'[j] = cached[j] /\ basePin'[j] = basePin[j]

StoreGrows == \A a \in Archive : store[a] # "absent" => store'[a] # "absent"

(* A step of a process that goes on working: what has to be shown of it.   *)
LEMMA Works ==
  ASSUME IInv, NEW p \in Process, Working(p), NEW s \in Slot,
         proc' = [proc EXCEPT ![p] = s], s.job = proc[p].job, s.pc # "idle",
         UNCHANGED <<world, lock, counters>>,
         FilesOK', SameButJob(proc[p].job), StoreGrows,
         Shared', PInv(p)'
  PROVE  IInv'
<1> USE DEF IInv, world, counters
<1>1. proc' \in [Process -> Slot]
  OBVIOUS
<1>2. \A q \in Process, j \in Job : lock'[j] = q <=> proc'[q].job = j /\ Working(q)'
  BY DEF TypeOK, Working, At
<1>3. TypeOK'
  BY <1>1, <1>2 DEF TypeOK, FilesOK, Slot
<1>4. \A q \in Process : PInv(q)'
  BY OthersUntouched DEF SameButJob, StoreGrows
<1> QED
  BY <1>1, <1>3, <1>4

(* A step that changes nothing but what the process knows and where it is. *)
LEMMA Advances ==
  ASSUME IInv, NEW p \in Process, Working(p), NEW s \in Slot,
         proc' = [proc EXCEPT ![p] = s], s.job = proc[p].job, s.pc # "idle",
         UNCHANGED <<world, disk, lock, counters>>,
         PInv(p)'
  PROVE  IInv'
<1>1. FilesOK' /\ SameButJob(proc[p].job) /\ StoreGrows
  BY DEF FilesOK, SameButJob, StoreGrows, IInv, TypeOK, disk
<1>2. Shared'
  BY DEF IInv, disk, counters, Shared, MarkerIsLast, CachePinned, RecordsHaveArchives, Archived
<1> QED
  BY <1>1, <1>2, Works

(* What a step to a place in the program is, whole.                        *)
LEMMA MoveFacts ==
  ASSUME IInv, NEW p \in Process, NEW pc \in PCs, Move(p, pc)
  PROVE  LET s == [proc[p] EXCEPT !.pc = pc]
         IN /\ proc' = [proc EXCEPT ![p] = s] /\ proc'[p] = s
            /\ s \in Slot /\ s.pc = pc /\ s.job = proc[p].job
BY DEF IInv, Move, Slot
-----------------------------------------------------------------------------
LEMMA CacheType ==
  ASSUME IInv, NEW p \in Process, Working(p)
  PROVE  Cache(p) \in Record /\ Loaded(p) \in Record
<1>1. proc[p] \in Slot /\ proc[p].job \in Job /\ proc[p].deps \in Deps
  BY DEF IInv, PInv, Asked
<1>2. proc[p].policy \in 0..MaxPolicy /\ proc[p].replay \in Record
  BY <1>1 DEF Slot
<1>3. cached[proc[p].job] \in [Deps -> [0..MaxPolicy -> Record]]
  BY <1>1 DEF IInv, TypeOK
<1>4. Cache(p) \in Record
  BY <1>1, <1>2, <1>3 DEF Cache
<1> QED
  BY <1>2, <1>4 DEF Loaded

LEMMA StartInv ==
  ASSUME IInv, NEW p \in Process, Start(p)
  PROVE  IInv'
<1> USE DEF IInv, world, disk
<1>0. PICK j \in Job, t \in Target, d \in Deps :
        /\ lock[j] = None
        /\ lock' = [lock EXCEPT ![j] = p]
        /\ \/ proc' = [proc EXCEPT ![p] = Begun(j, t, d, FALSE, Nothing)]
           \/ \E from \in Job : proc' = [proc EXCEPT ![p] = Begun(j, t, d, TRUE, record[from][t])]
  BY DEF Start
<1> DEFINE Given(b, r) == /\ proc' = [proc EXCEPT ![p] = Begun(j, t, d, b, r)]
                          /\ losses = 0 /\ r.marker # None => store[r.marker] # "absent"
<1>1. PICK b \in BOOLEAN, r \in Record : Given(b, r)
  <2>1. CASE proc' = [proc EXCEPT ![p] = Begun(j, t, d, FALSE, Nothing)]
    <3>1. Given(FALSE, Nothing)
      BY <2>1, IdleFacts
    <3> HIDE DEF Given
    <3> QED
      BY <3>1, IdleFacts
  <2>2. ASSUME NEW from \in Job, proc' = [proc EXCEPT ![p] = Begun(j, t, d, TRUE, record[from][t])]
        PROVE  \E b \in BOOLEAN, r \in Record : Given(b, r)
    <3>1. Given(TRUE, record[from][t]) /\ record[from][t] \in Record
      BY <2>2 DEF TypeOK, Shared, RecordsHaveArchives, Archived
    <3> HIDE DEF Given
    <3> QED
      BY <3>1
  <2> QED
    BY <1>0, <2>1, <2>2
<1> DEFINE s == Begun(j, t, d, b, r)
<1>2. /\ s \in Slot /\ s.pc = "locked" /\ s.job = j /\ s.target = t /\ s.deps = d
      /\ s.replay = r
  BY IdleFacts, ZenonT(40) DEF TypeOK, Begun, Slot, PCs, Maybe, Idle
<1> HIDE DEF s
<1>3. proc' = [proc EXCEPT ![p] = s]
  BY <1>1 DEF s
<1>4. proc' \in [Process -> Slot]
  BY <1>2, <1>3
<1>5. UNCHANGED <<world, disk, failures, losses, corruptions>> /\ runs' \in 0..MaxRuns
  <2>1. UNCHANGED <<world, disk, failures, losses, corruptions>>
    BY DEF Start
  <2>2. runs < MaxRuns /\ runs' = runs + 1 /\ runs \in 0..MaxRuns /\ MaxRuns \in Nat
    BY BoundsAssumption DEF Start, TypeOK
  <2> QED
    BY <2>1, <2>2
<1>6. \A q \in Process, k \in Job : lock'[k] = q <=> proc'[q].job = k /\ Working(q)'
  <2>1. ~Working(p)
    BY DEF Start, Working
  <2> QED
    BY <1>0, <1>2, <1>3, <2>1, NoneAssumption DEF TypeOK, Working, At
<1>7. TypeOK'
  BY <1>0, <1>4, <1>5, <1>6 DEF TypeOK, Slot, Maybe
<1>8. Shared'
  BY <1>5 DEF Shared, MarkerIsLast, CachePinned, RecordsHaveArchives, Archived
<1>9. \A q \in Process : PInv(q)'
  <2>1. PInv(p)'
    BY <1>1, <1>2, <1>3, <1>5 DEF PInv, Asked, Missing, HalfWritten, OnPin, ForRequests,
          InStore, Verified, Working, At, Acquiring, Holding
  <2>2. ASSUME NEW q \in Process, q # p PROVE PInv(q)'
    BY <1>3, <1>5, <2>2, Untouched
  <2> QED
    BY <2>1, <2>2
<1> QED
  BY <1>4, <1>7, <1>8, <1>9
-----------------------------------------------------------------------------
(* What the process goes on with, its archive aside, is what it was.       *)
LEMMA ReadingInv ==
  ASSUME IInv, NEW p \in Process, Decide(p) \/ Reject(p) \/ Miss(p)
  PROVE  IInv'
<1> USE DEF IInv
<1>1. CASE Decide(p)
  <2> DEFINE m == Loaded(p).marker
             s == [proc[p] EXCEPT !.pc = "open", !.archive = m]
  <2>1. Working(p) /\ At(p, "locked")
    BY <1>1 DEF Decide, Working, At
  <2>2. Loaded(p) \in Record
    BY <2>1, CacheType
  <2>3. m \in Archive /\ m.deps = proc[p].deps /\ m.policy = proc[p].policy
    BY <1>1, <2>2 DEF Decide, Acceptable, Record, Maybe
  <2>4. losses = 0 => store[m] # "absent"
    BY <1>1, <2>1 DEF Decide, Acceptable, Loaded, Cache, PInv, Asked, InStore, Shared,
                      RecordsHaveArchives, Archived, Slot
  <2>5. s \in Slot /\ s.pc = "open" /\ s.job = proc[p].job /\ s.archive = m
    <3>1. proc[p] \in Slot /\ "open" \in PCs /\ m \in Maybe(Archive)
      BY <2>3 DEF PCs, Maybe
    <3> HIDE DEF m, IInv
    <3> QED
      BY <3>1 DEF Slot
  <2>6. proc' = [proc EXCEPT ![p] = s] /\ UNCHANGED <<world, disk, lock, counters>>
    BY <1>1 DEF Decide
  <2>7. PInv(p)'
    BY <2>1, <2>3, <2>4, <2>6 DEF PInv, Asked, Missing, HalfWritten, OnPin, ForRequests,
          InStore, Verified, Working, At, Acquiring, Holding, disk, counters, Slot
  <2> HIDE DEF s, m
  <2> QED
    BY <2>1, <2>5, <2>6, <2>7, Advances
<1>2. CASE Reject(p)
  BY <1>2, RaiseInv DEF Reject, Working, At
<1>3. CASE Miss(p)
  <2>1. Working(p) /\ Cache(p).marker = None
    BY <1>3 DEF Miss, Working, At
  <2>2. Move(p, "base") /\ UNCHANGED <<world, disk, lock, counters>>
    BY <1>3 DEF Miss, Only
  <2>3. PInv(p)'
    BY <2>1, <2>2, ZenonT(40) DEF Move, PInv, Asked, Missing, HalfWritten, OnPin, ForRequests, Cache,
          InStore, Verified, Working, At, Acquiring, Holding, disk, counters, Slot
  <2> QED
    BY <2>1, <2>2, <2>3, MoveFacts, Advances DEF PCs
<1> QED
  BY <1>1, <1>2, <1>3

(* Pinning the base: the job has no record to disagree with.               *)
LEMMA ResolveBaseInv ==
  ASSUME IInv, NEW p \in Process, ResolveBase(p)
  PROVE  IInv'
<1> USE DEF IInv
<1> DEFINE s == [proc[p] EXCEPT !.pc = "apt", !.image = upstream]
           pin == [image |-> upstream, policy |-> proc[p].policy]
<1>1. Working(p) /\ At(p, "base") /\ proc[p].job \in Job
  BY DEF ResolveBase, Working, At, PInv, Asked
<1>2. proc' = [proc EXCEPT ![p] = s] /\ basePin' = [basePin EXCEPT ![proc[p].job] = pin]
  BY DEF ResolveBase
<1>3. UNCHANGED <<world, cached, record, store, volatile, lock, counters>>
  BY DEF ResolveBase
<1>4. s \in Slot /\ s.pc = "apt" /\ s.job = proc[p].job
  <2>1. upstream \in Maybe(0..MaxUpstream)
    BY DEF TypeOK, Maybe
  <2>2. proc[p] \in Slot /\ "apt" \in PCs
    BY DEF PCs
  <2> HIDE DEF IInv
  <2> QED
    BY <2>1, <2>2 DEF Slot
<1>5. pin \in Pin /\ pin.image = upstream /\ pin.policy = proc[p].policy
  BY DEF TypeOK, Slot, Pin
<1>6. PInv(p)'
  <2>1. basePin'[proc[p].job] = pin
    BY <1>1, <1>2 DEF TypeOK
  <2>2. /\ proc'[p].pc = "apt" /\ proc'[p].image = pin.image
        /\ proc'[p].job = proc[p].job /\ proc'[p].target = proc[p].target
        /\ proc'[p].deps = proc[p].deps /\ proc'[p].policy = proc[p].policy
        /\ proc'[p].replay = proc[p].replay
    <3>1. proc \in [Process -> Slot]
      OBVIOUS
    <3> HIDE DEF IInv
    <3> QED
      BY <1>2, <1>5, <3>1 DEF Slot
  <2> HIDE DEF pin
  <2>3. (Asked(p) /\ Verified(p) /\ ForRequests(p) /\ HalfWritten(p))'
    BY <1>1, <2>1, <2>2 DEF PInv, Asked, Verified, ForRequests, HalfWritten, Working, At,
       Holding, Acquiring
  <2>4. Missing(p)'
    BY <1>1, <1>3, <2>1, <2>2 DEF PInv, Missing, Cache, At
  <2>5. (OnPin(p) /\ InStore(p))'
    BY <1>1, <1>3, <1>5, <2>1, <2>2 DEF PInv, OnPin, InStore, At, Holding, Acquiring, counters
  <2> QED
    BY <2>3, <2>4, <2>5 DEF PInv
<1>7. Shared'
  <2>1. basePin[proc[p].job] = None
    BY DEF ResolveBase
  <2>2. \A d \in Deps, q \in 0..MaxPolicy : cached[proc[p].job][d][q].marker = None
    BY <1>1, <2>1, NoneAssumption DEF Shared, CachePinned
  <2>3. CachePinned'
    BY <1>1, <1>2, <1>3, <2>2 DEF TypeOK, Shared, CachePinned
  <2>4. MarkerIsLast' /\ RecordsHaveArchives'
    BY <1>3 DEF Shared, MarkerIsLast, RecordsHaveArchives, Archived, counters
  <2> QED
    BY <2>3, <2>4 DEF Shared
<1>8. FilesOK' /\ SameButJob(proc[p].job) /\ StoreGrows
  BY <1>1, <1>2, <1>3, <1>5 DEF TypeOK, FilesOK, SameButJob, StoreGrows, Maybe
<1> HIDE DEF s, pin
<1> QED
  BY <1>1, <1>2, <1>3, <1>4, <1>6, <1>7, <1>8, Works

LEMMA PinnedBaseInv ==
  ASSUME IInv, NEW p \in Process, PinnedBase(p)
  PROVE  IInv'
<1> USE DEF IInv
<1>1. Working(p) /\ At(p, "base") /\ proc[p].job \in Job
  BY DEF PinnedBase, Working, At, PInv, Asked
<1>2. CASE basePin[proc[p].job].policy = proc[p].policy
  <2> DEFINE s == [proc[p] EXCEPT !.pc = "apt", !.image = basePin[proc[p].job].image]
  <2>1. proc' = [proc EXCEPT ![p] = s] /\ UNCHANGED <<world, disk, lock, counters>>
    BY <1>2 DEF PinnedBase
  <2>2. basePin[proc[p].job] \in Pin
    BY <1>1 DEF PinnedBase, TypeOK, Maybe
  <2>3. s \in Slot /\ s.pc = "apt" /\ s.job = proc[p].job
    <3>1. basePin[proc[p].job].image \in Maybe(0..MaxUpstream)
      BY <2>2 DEF Pin, Maybe
    <3>2. proc[p] \in Slot /\ "apt" \in PCs
      BY DEF PCs
    <3> HIDE DEF IInv
    <3> QED
      BY <3>1, <3>2 DEF Slot
  <2>4. PInv(p)'
    BY <1>1, <1>2, <2>1, <2>2, ZenonT(40) DEF PInv, Asked, Missing, HalfWritten, OnPin, ForRequests,
       Cache, InStore, Verified, Working, At, Acquiring, Holding, disk, counters, Slot
  <2> HIDE DEF s
  <2> QED
    BY <1>1, <2>1, <2>3, <2>4, Advances
<1>3. CASE basePin[proc[p].job].policy # proc[p].policy
  BY <1>1, <1>3, RaiseInv DEF PinnedBase
<1> QED
  BY <1>2, <1>3

(* The archive is of the requests asked for, on the pinned image.          *)
LEMMA RunAptInv ==
  ASSUME IInv, NEW p \in Process, RunApt(p)
  PROVE  IInv'
<1> USE DEF IInv
<1> DEFINE a == [deps |-> proc[p].deps, policy |-> proc[p].policy, base |-> proc[p].image,
                 apt |-> upstream, toolchain |-> proc[p].target \in WithToolchain]
           s == [proc[p] EXCEPT !.pc = "publish", !.archive = a]
<1>1. Working(p) /\ At(p, "apt")
  BY DEF RunApt, Working, At
<1>2. proc' = [proc EXCEPT ![p] = s] /\ UNCHANGED <<world, disk, lock, counters>>
  BY DEF RunApt
<1>3. proc[p].deps \in Deps /\ proc[p].policy \in 0..MaxPolicy
  BY <1>1 DEF PInv, Asked, Slot
<1>4. proc[p].image \in 0..MaxUpstream
  BY <1>1 DEF At, PInv, OnPin, Pin
<1>5. /\ a \in Archive /\ a.deps = proc[p].deps /\ a.policy = proc[p].policy
      /\ a.base = proc[p].image
  BY <1>3, <1>4 DEF TypeOK, Archive
<1> HIDE DEF a
<1>6. s \in Slot /\ s.pc = "publish" /\ s.job = proc[p].job /\ s.archive = a
  <2>1. proc[p] \in Slot /\ "publish" \in PCs /\ a \in Maybe(Archive)
    BY <1>5 DEF PCs, Maybe
  <2> HIDE DEF IInv
  <2> QED
    BY <2>1 DEF Slot
<1>7. PInv(p)'
  BY <1>1, <1>2, <1>5, ZenonT(40) DEF PInv, Asked, Missing, HalfWritten, OnPin, ForRequests,
     Cache, InStore, Verified, Working, At, Acquiring, Holding, disk, counters, Slot
<1> HIDE DEF s
<1> QED
  BY <1>1, <1>2, <1>6, <1>7, Advances

(* Publication adds to the store and to nothing else.                      *)
LEMMA PublishInv ==
  ASSUME IInv, NEW p \in Process, Publish(p)
  PROVE  IInv'
<1> USE DEF IInv
<1>1. Working(p) /\ At(p, "publish") /\ proc[p].archive \in Archive
  BY DEF Publish, Working, At, PInv, ForRequests, Holding, Acquiring
<1>2. Move(p, "sync") /\ store' = [store EXCEPT ![proc[p].archive] = "good"]
  BY DEF Publish
<1>3. UNCHANGED <<world, basePin, cached, record, lock, counters>>
  BY DEF Publish
<1>4. FilesOK' /\ SameButJob(proc[p].job) /\ StoreGrows
  BY <1>1, <1>2, <1>3 DEF Publish, TypeOK, FilesOK, SameButJob, StoreGrows
<1>5. Shared'
  <2>1. RecordsHaveArchives'
    <3> SUFFICES ASSUME losses = 0 PROVE Archived'
      BY <1>3 DEF RecordsHaveArchives, counters
    <3>1. \A b \in Archive : store[b] # "absent" => store'[b] # "absent"
      BY <1>4 DEF StoreGrows
    <3> QED
      BY <1>3, <3>1, RecordTypes DEF Shared, RecordsHaveArchives, Archived, Maybe
  <2>2. MarkerIsLast' /\ CachePinned'
    BY <1>3 DEF Shared, MarkerIsLast, CachePinned
  <2> QED
    BY <2>1, <2>2 DEF Shared
<1>6. PInv(p)'
  <2>1. InStore(p)'
    BY <1>1, <1>2, <1>3 DEF Move, TypeOK, PInv, InStore, Slot, Record, Maybe, Holding, Acquiring,
                            At, counters
  <2> QED
    BY <1>1, <1>2, <1>3, <2>1, ZenonT(40) DEF Move, PInv, Asked, Missing, HalfWritten, OnPin, ForRequests,
       Cache, Verified, Working, At, Acquiring, Holding, counters, Slot
<1> QED
  BY <1>1, <1>2, <1>3, <1>4, <1>5, <1>6, MoveFacts, Works DEF PCs

LEMMA NameTakenInv ==
  ASSUME IInv, NEW p \in Process, NameTaken(p)
  PROVE  IInv'
<1>1. Working(p) /\ At(p, "publish")
  BY DEF NameTaken, Working, At
<1>2. Move(p, "compare") /\ UNCHANGED <<world, disk, lock, counters>>
  BY DEF NameTaken, Only
<1>3. PInv(p)'
  BY <1>1, <1>2, ZenonT(40) DEF IInv, NameTaken, Move, PInv, Asked, Missing, HalfWritten, OnPin,
     ForRequests, Cache, InStore, Verified, Working, At, Acquiring, Holding, disk, counters, Slot
<1> QED
  BY <1>1, <1>2, <1>3, MoveFacts, Advances DEF PCs

LEMMA SyncStoreInv ==
  ASSUME IInv, NEW p \in Process, SyncStore(p)
  PROVE  IInv'
<1> USE DEF IInv
<1>1. Working(p) /\ At(p, "sync")
  BY DEF SyncStore, Working, At
<1>2. /\ Move(p, "installed") /\ volatile' = {}
      /\ UNCHANGED <<world, basePin, cached, record, store, lock, counters>>
  BY DEF SyncStore
<1>3. FilesOK' /\ SameButJob(proc[p].job) /\ StoreGrows
  BY <1>2 DEF TypeOK, FilesOK, SameButJob, StoreGrows
<1>4. Shared'
  BY <1>2 DEF counters, Shared, MarkerIsLast, CachePinned, RecordsHaveArchives, Archived
<1>5. PInv(p)'
  BY <1>1, <1>2, ZenonT(40) DEF Move, PInv, Asked, Missing, HalfWritten, OnPin, ForRequests,
     Cache, InStore, Verified, Working, At, Acquiring, Holding, counters, Slot
<1> QED
  BY <1>1, <1>2, <1>3, <1>4, <1>5, MoveFacts, Works DEF PCs

LEMMA SameArchiveInv ==
  ASSUME IInv, NEW p \in Process, SameArchive(p)
  PROVE  IInv'
<1>1. Working(p) /\ At(p, "compare")
  BY DEF SameArchive, Working, At
<1>2. CASE Raise(p)
  BY <1>1, <1>2, RaiseInv
<1>3. CASE Only(p, "installed")
  <2>1. Move(p, "installed") /\ UNCHANGED <<world, disk, lock, counters>>
    BY <1>3 DEF Only
  <2>2. PInv(p)'
    BY <1>1, <2>1, ZenonT(40) DEF IInv, Move, PInv, Asked, Missing, HalfWritten, OnPin, ForRequests,
       Cache, InStore, Verified, Working, At, Acquiring, Holding, disk, counters, Slot
  <2> QED
    BY <1>1, <2>1, <2>2, MoveFacts, Advances DEF PCs
<1> QED
  BY <1>2, <1>3 DEF SameArchive
-----------------------------------------------------------------------------
(* The place of a process's record among the job's.                        *)
LEMMA CacheUpdateFacts ==
  ASSUME IInv, NEW p \in Process, Working(p), NEW r \in Record, CacheUpdate(p, r)
  PROVE  /\ cached' \in [Job -> [Deps -> [0..MaxPolicy -> Record]]]
         /\ cached'[proc[p].job][proc[p].deps][proc[p].policy] = r
         /\ \A j \in Job, d \in Deps, q \in 0..MaxPolicy :
              \/ j = proc[p].job /\ d = proc[p].deps /\ q = proc[p].policy
              \/ cached'[j][d][q] = cached[j][d][q]
         /\ \A j \in Job : j # proc[p].job => cached'[j] = cached[j]
<1> DEFINE k == proc[p].job  e == proc[p].deps  o == proc[p].policy
<1>1. k \in Job /\ e \in Deps /\ o \in 0..MaxPolicy
  BY DEF IInv, PInv, Asked, Slot
<1>2. cached \in [Job -> [Deps -> [0..MaxPolicy -> Record]]]
  BY DEF IInv, TypeOK
<1>3. cached' = [cached EXCEPT ![k][e][o] = r]
  BY DEF CacheUpdate
<1> HIDE DEF k, e, o
<1>4. cached[k] \in [Deps -> [0..MaxPolicy -> Record]] /\ cached[k][e] \in [0..MaxPolicy -> Record]
  BY <1>1, <1>2
<1> DEFINE g == [cached[k][e] EXCEPT ![o] = r]
           h == [cached[k] EXCEPT ![e] = g]
<1>5. cached' = [cached EXCEPT ![k] = h]
  BY <1>3
<1>6. g \in [0..MaxPolicy -> Record] /\ g[o] = r /\ \A q \in 0..MaxPolicy : q # o => g[q] = cached[k][e][q]
  BY <1>1, <1>4
<1> HIDE DEF g
<1>7. /\ h \in [Deps -> [0..MaxPolicy -> Record]] /\ h[e] = g
      /\ \A d \in Deps : d # e => h[d] = cached[k][d]
  BY <1>1, <1>4, <1>6
<1> HIDE DEF h
<1>8. /\ cached' \in [Job -> [Deps -> [0..MaxPolicy -> Record]]]
      /\ cached'[k] = h
      /\ \A j \in Job : j # k => cached'[j] = cached[j]
  BY <1>1, <1>2, <1>5, <1>7
<1>9. cached'[k][e][o] = r
  BY <1>6, <1>7, <1>8
<1>10. ASSUME NEW j \in Job, NEW d \in Deps, NEW q \in 0..MaxPolicy, ~(j = k /\ d = e /\ q = o)
       PROVE  cached'[j][d][q] = cached[j][d][q]
  BY <1>6, <1>7, <1>8, <1>10
<1> QED
  BY <1>8, <1>9, <1>10 DEF k, e, o

(* installed.tsv goes first; no marker speaks for it yet.                  *)
LEMMA WriteInstalledInv ==
  ASSUME IInv, NEW p \in Process, WriteInstalled(p)
  PROVE  IInv'
<1> USE DEF IInv
<1> DEFINE r == [Cache(p) EXCEPT !.installed = proc[p].archive]
<1>1. /\ Working(p) /\ At(p, "installed") /\ proc[p].archive \in Archive
      /\ Cache(p).marker = None
  BY DEF WriteInstalled, Working, At, PInv, ForRequests, Missing, Holding, Acquiring
<1>2. /\ CacheUpdate(p, r) /\ Move(p, "marker")
      /\ UNCHANGED <<world, basePin, record, store, volatile, lock, counters>>
  BY DEF WriteInstalled
<1>3. r \in Record /\ r.marker = None /\ r.installed = proc[p].archive
  BY <1>1, CacheType DEF Record, Maybe
<1> HIDE DEF r
<1>4. /\ proc'[p].job = proc[p].job /\ proc'[p].deps = proc[p].deps
      /\ proc'[p].target = proc[p].target /\ proc'[p].policy = proc[p].policy /\ proc'[p].archive = proc[p].archive
      /\ proc'[p].replay = proc[p].replay /\ proc'[p].pc = "marker"
  BY <1>2 DEF Move, Slot
<1>5. Cache(p)' = r
  BY <1>1, <1>2, <1>3, <1>4, CacheUpdateFacts DEF Cache
<1>6. FilesOK' /\ SameButJob(proc[p].job) /\ StoreGrows
  BY <1>1, <1>2, <1>3, CacheUpdateFacts DEF TypeOK, FilesOK, SameButJob, StoreGrows
<1>7. Shared'
  <2>1. \A j \in Job, d \in Deps, q \in 0..MaxPolicy :
          cached'[j][d][q].marker # None => cached'[j][d][q] = cached[j][d][q]
    <3> DEFINE k == proc[p].job  e == proc[p].deps  o == proc[p].policy
    <3>1. /\ cached'[k][e][o] = r
          /\ \A j \in Job, d \in Deps, q \in 0..MaxPolicy :
               \/ j = k /\ d = e /\ q = o
               \/ cached'[j][d][q] = cached[j][d][q]
      BY <1>1, <1>2, <1>3, CacheUpdateFacts
    <3> HIDE DEF IInv, k, e, o
    <3> QED
      BY <1>3, <3>1
  <2>2. MarkerIsLast' /\ CachePinned'
    BY <1>2, <2>1 DEF Shared, MarkerIsLast, CachePinned
  <2>3. RecordsHaveArchives'
    BY <1>2, <2>1 DEF Shared, RecordsHaveArchives, Archived, counters
  <2> QED
    BY <2>2, <2>3 DEF Shared
<1>8. PInv(p)'
  BY <1>1, <1>2, <1>3, <1>4, <1>5 DEF PInv, Asked, Missing, HalfWritten, OnPin, ForRequests,
     InStore, Verified, Working, At, Acquiring, Holding, counters
<1> QED
  BY <1>1, <1>2, <1>6, <1>7, <1>8, MoveFacts, Works DEF PCs

(* The marker completes the record: of its own archive, on the job's pin.  *)
LEMMA WriteMarkerInv ==
  ASSUME IInv, NEW p \in Process, WriteMarker(p)
  PROVE  IInv'
<1> USE DEF IInv
<1> DEFINE a == proc[p].archive
           r == [Cache(p) EXCEPT !.marker = a]
<1>1. Working(p) /\ At(p, "marker")
  BY DEF WriteMarker, Working, At
<1>2. /\ CacheUpdate(p, r) /\ Move(p, "open")
      /\ UNCHANGED <<world, basePin, record, store, volatile, lock, counters>>
  BY DEF WriteMarker
<1>3. /\ a \in Archive /\ a.deps = proc[p].deps /\ a.policy = proc[p].policy
      /\ Cache(p).installed = a
  BY <1>1 DEF At, PInv, ForRequests, HalfWritten, Holding, Acquiring
<1>4. r \in Record /\ r.marker = a /\ r.installed = a
  BY <1>1, <1>3, CacheType DEF Record, Maybe
<1>5. /\ basePin[proc[p].job] \in Pin /\ a.base = basePin[proc[p].job].image
      /\ a.policy = basePin[proc[p].job].policy
  BY <1>1, <1>3 DEF At, PInv, OnPin, Acquiring
<1>6. losses = 0 => store[a] # "absent"
  BY <1>1 DEF At, PInv, InStore, Holding, Acquiring
<1> HIDE DEF r
<1>7. FilesOK' /\ SameButJob(proc[p].job) /\ StoreGrows
  BY <1>1, <1>2, <1>4, CacheUpdateFacts DEF TypeOK, FilesOK, SameButJob, StoreGrows
<1>8. Shared'
  <2>1. ASSUME NEW j \in Job, NEW d \in Deps, NEW q \in 0..MaxPolicy
        PROVE  \/ /\ j = proc[p].job /\ d = proc[p].deps /\ q = proc[p].policy
                  /\ cached'[j][d][q] = r
               \/ cached'[j][d][q] = cached[j][d][q]
    BY <1>1, <1>2, <1>4, CacheUpdateFacts
  <2>2. MarkerIsLast'
    BY <1>3, <1>4, <2>1 DEF Shared, MarkerIsLast
  <2>3. CachePinned'
    BY <1>2, <1>4, <1>5, <2>1 DEF Shared, CachePinned
  <2>4. RecordsHaveArchives'
    BY <1>2, <1>4, <1>6, <2>1 DEF Shared, RecordsHaveArchives, Archived, counters
  <2> QED
    BY <2>2, <2>3, <2>4 DEF Shared
<1>9. PInv(p)'
  <2>1. /\ proc'[p].job = proc[p].job /\ proc'[p].deps = proc[p].deps
        /\ proc'[p].target = proc[p].target /\ proc'[p].policy = proc[p].policy
        /\ proc'[p].archive = a /\ proc'[p].replay = proc[p].replay /\ proc'[p].pc = "open"
    BY <1>2 DEF Move, Slot
  <2> HIDE DEF a
  <2> QED
    BY <1>1, <1>2, <1>3, <1>6, <2>1 DEF PInv, Asked, Missing, HalfWritten, OnPin, ForRequests,
       InStore, Verified, Working, At, Acquiring, Holding, counters
<1> QED
  BY <1>1, <1>2, <1>7, <1>8, <1>9, MoveFacts, Works DEF PCs
-----------------------------------------------------------------------------
LEMMA OpenVerifyInv ==
  ASSUME IInv, NEW p \in Process, OpenVerify(p)
  PROVE  IInv'
<1> USE DEF IInv
<1>1. Working(p) /\ At(p, "open")
  BY DEF OpenVerify, Working, At
<1>2. CASE Raise(p)
  BY <1>1, <1>2, RaiseInv
<1>3. CASE ~Raise(p)
  <2> DEFINE s == [proc[p] EXCEPT !.pc = "extract", !.bytes = "good"]
  <2>1. proc' = [proc EXCEPT ![p] = s] /\ UNCHANGED <<world, disk, lock, counters>>
    BY <1>3 DEF OpenVerify
  <2>2. s \in Slot /\ s.pc = "extract" /\ s.job = proc[p].job
    <3>1. proc[p] \in Slot /\ "extract" \in PCs /\ "good" \in Maybe({"good"})
      BY DEF PCs, Maybe
    <3> HIDE DEF IInv
    <3> QED
      BY <3>1 DEF Slot
  <2>3. PInv(p)'
    BY <1>1, <2>1, ZenonT(40) DEF PInv, Asked, Missing, HalfWritten, OnPin, ForRequests,
       Cache, InStore, Verified, Working, At, Acquiring, Holding, disk, counters, Slot
  <2> HIDE DEF s
  <2> QED
    BY <1>1, <2>1, <2>2, <2>3, Advances
<1> QED
  BY <1>2, <1>3

LEMMA ExtractInv ==
  ASSUME IInv, NEW p \in Process, Extract(p)
  PROVE  IInv'
<1> USE DEF IInv
<1> DEFINE s == [proc[p] EXCEPT !.pc = "recordInstalled", !.root = proc[p].bytes]
<1>1. Working(p) /\ At(p, "extract") /\ proc[p].bytes = "good"
  BY DEF Extract, Working, At, PInv, Verified
<1>2. proc' = [proc EXCEPT ![p] = s] /\ UNCHANGED <<world, disk, lock, counters>>
  BY DEF Extract
<1>3. s \in Slot /\ s.pc = "recordInstalled" /\ s.job = proc[p].job
  <2>1. proc[p] \in Slot /\ "recordInstalled" \in PCs /\ "good" \in Maybe({"good"})
    BY DEF PCs, Maybe
  <2> HIDE DEF IInv
  <2> QED
    BY <1>1, <2>1 DEF Slot
<1>4. PInv(p)'
  BY <1>1, <1>2, ZenonT(40) DEF PInv, Asked, Missing, HalfWritten, OnPin, ForRequests,
     Cache, InStore, Verified, Working, At, Acquiring, Holding, disk, counters, Slot
<1> HIDE DEF s
<1> QED
  BY <1>1, <1>2, <1>3, <1>4, Advances

(* The place of a target's record among the job's.                         *)
LEMMA RecordUpdateFacts ==
  ASSUME IInv, NEW p \in Process, Working(p), NEW r \in Record, RecordUpdate(p, r)
  PROVE  /\ record' \in [Job -> [Target -> Record]]
         /\ \A j \in Job, t \in Target :
              \/ j = proc[p].job /\ t = proc[p].target /\ record'[j][t] = r
              \/ record'[j][t] = record[j][t]
<1> DEFINE k == proc[p].job  e == proc[p].target
<1>1. k \in Job /\ e \in Target /\ record \in [Job -> [Target -> Record]]
  BY DEF IInv, PInv, Asked, TypeOK
<1>2. record' = [record EXCEPT ![k][e] = r]
  BY DEF RecordUpdate
<1> HIDE DEF k, e
<1> DEFINE g == [record[k] EXCEPT ![e] = r]
<1>3. record' = [record EXCEPT ![k] = g]
  BY <1>2
<1>4. g \in [Target -> Record] /\ \A t \in Target : (t = e /\ g[t] = r) \/ g[t] = record[k][t]
  BY <1>1
<1> HIDE DEF g
<1> QED
  BY <1>1, <1>3, <1>4 DEF k, e

LEMMA RecordInstalledInv ==
  ASSUME IInv, NEW p \in Process, RecordInstalled(p)
  PROVE  IInv'
<1> USE DEF IInv
<1> DEFINE r == [RecordOf(p) EXCEPT !.installed = Loaded(p).installed]
<1>1. /\ Working(p) /\ At(p, "recordInstalled") /\ proc[p].archive \in Archive
      /\ proc[p].job \in Job /\ proc[p].target \in Target
  BY DEF RecordInstalled, Working, At, PInv, Asked, ForRequests, Holding, Acquiring
<1>2. /\ RecordUpdate(p, r) /\ Move(p, "recordMarker")
      /\ UNCHANGED <<world, basePin, cached, store, volatile, lock, counters>>
  BY DEF RecordInstalled
<1>3. r \in Record /\ r.marker = record[proc[p].job][proc[p].target].marker
  <2>1. RecordOf(p) \in Record
    BY <1>1, RecordTypes DEF RecordOf
  <2>2. Loaded(p) \in Record
    <3>1. proc[p] \in Slot
      OBVIOUS
    <3>2. proc[p].deps \in Deps /\ proc[p].policy \in 0..MaxPolicy
      BY <1>1, <3>1 DEF PInv, Asked, Slot
    <3>3. Cache(p) \in Record
      BY <1>1, <3>2, RecordTypes DEF Cache
    <3> QED
      BY <3>1, <3>3 DEF Slot, Loaded
  <2>3. Loaded(p).installed \in Maybe(Archive)
    BY <2>2 DEF Record
  <2> QED
    BY <1>1, <2>1, <2>3 DEF RecordOf, Record
<1> HIDE DEF r
<1>4. FilesOK' /\ SameButJob(proc[p].job) /\ StoreGrows
  BY <1>1, <1>2, <1>3, RecordUpdateFacts DEF TypeOK, FilesOK, SameButJob, StoreGrows
<1>5. Shared'
  <2>1. MarkerIsLast' /\ CachePinned'
    BY <1>2 DEF Shared, MarkerIsLast, CachePinned
  <2>2. \A j \in Job, t \in Target : record'[j][t].marker = record[j][t].marker
    BY <1>1, <1>2, <1>3, RecordUpdateFacts
  <2>3. RecordsHaveArchives'
    BY <1>2, <2>2 DEF Shared, RecordsHaveArchives, Archived, counters
  <2> QED
    BY <2>1, <2>3 DEF Shared
<1>6. PInv(p)'
  BY <1>1, <1>2, ZenonT(40) DEF Move, PInv, Asked, Missing, HalfWritten, OnPin, ForRequests,
     Cache, InStore, Verified, Working, At, Acquiring, Holding, counters, Slot
<1> QED
  BY <1>1, <1>2, <1>4, <1>5, <1>6, MoveFacts, Works DEF PCs

(* The last step completes the target's record and lets the lock go.       *)
LEMMA RecordMarkerInv ==
  ASSUME IInv, NEW p \in Process, RecordMarker(p)
  PROVE  IInv'
<1> USE DEF IInv
<1> DEFINE a == proc[p].archive
           r == [RecordOf(p) EXCEPT !.marker = a]
<1>1. /\ Working(p) /\ At(p, "recordMarker") /\ a \in Archive
      /\ proc[p].job \in Job /\ proc[p].target \in Target
  BY DEF RecordMarker, Working, At, PInv, Asked, ForRequests, Holding, Acquiring
<1>2. /\ RecordUpdate(p, r)
      /\ lock' = [lock EXCEPT ![proc[p].job] = None] /\ proc' = [proc EXCEPT ![p] = Idle]
      /\ UNCHANGED <<world, basePin, cached, store, volatile, counters>>
  BY DEF RecordMarker
<1>3. r \in Record /\ r.marker = a
  <2>1. RecordOf(p) \in Record
    BY <1>1, RecordTypes DEF RecordOf
  <2> QED
    BY <1>1, <2>1 DEF Record, Maybe
<1>4. losses = 0 => store[a] # "absent"
  BY <1>1 DEF At, PInv, InStore, Holding, Acquiring
<1> HIDE DEF r
<1>5. RecordsHaveArchives'
  <2>1. \A j \in Job, t \in Target :
          record'[j][t].marker = a \/ record'[j][t].marker = record[j][t].marker
    BY <1>1, <1>2, <1>3, RecordUpdateFacts
  <2> QED
    BY <1>2, <1>4, <2>1 DEF Shared, RecordsHaveArchives, Archived, counters
<1>6. record' \in [Job -> [Target -> Record]]
  BY <1>1, <1>2, <1>3, RecordUpdateFacts
<1> QED
  BY <1>1, <1>2, <1>5, <1>6, Leaves DEF TypeOK, counters, disk, world
-----------------------------------------------------------------------------
LEMMA DiesInv ==
  ASSUME IInv, NEW p \in Process, Dies(p)
  PROVE  IInv'
<1>1. failures' \in 0..MaxFailures
  BY BoundsAssumption DEF Dies, IInv, TypeOK
<1>2. record' = record /\ RecordsHaveArchives'
  BY DEF Dies, disk, IInv, Shared, RecordsHaveArchives, Archived
<1>3. record \in [Job -> [Target -> Record]]
  BY DEF IInv, TypeOK
<1> QED
  BY <1>1, <1>2, <1>3, Leaves DEF Dies, disk

(* After a power loss nobody works, and archives may be missing.           *)
LEMMA PowerLossInv ==
  ASSUME IInv, PowerLoss
  PROVE  IInv'
<1> USE DEF IInv
<1>1. losses' \in 0..MaxFailures /\ losses' # 0
  BY BoundsAssumption DEF PowerLoss, TypeOK
<1>2. /\ proc' = [p \in Process |-> Idle] /\ lock' = [j \in Job |-> None] /\ volatile' = {}
      /\ UNCHANGED <<world, basePin, cached, record, runs, failures, corruptions>>
  BY DEF PowerLoss
<1>3. store' \in [Archive -> {"absent", "good", "corrupt"}]
  BY DEF PowerLoss, TypeOK
<1>4. \A p \in Process, j \in Job : lock'[j] = p <=> proc'[p].job = j /\ Working(p)'
  BY <1>2, IdleFacts, NoneAssumption DEF Working, At
<1>5. proc' \in [Process -> Slot]
  BY <1>2, IdleFacts
<1>6. TypeOK'
  BY <1>1, <1>2, <1>3, <1>4, <1>5 DEF TypeOK, Slot, Maybe, world
<1>7. Shared'
  BY <1>1, <1>2 DEF Shared, MarkerIsLast, CachePinned, RecordsHaveArchives
<1>8. \A p \in Process : PInv(p)'
  BY <1>2, IdleInv
<1> QED
  BY <1>5, <1>6, <1>7, <1>8

(* What moves around the processes touches none of their files.            *)
LEMMA SurroundingsInv ==
  ASSUME IInv, UpstreamMoves \/ PolicyChanges \/ Corruption \/ UNCHANGED vars
  PROVE  IInv'
<1> USE DEF IInv
<1>1. /\ UNCHANGED <<basePin, cached, record, volatile, lock, proc, runs, failures, losses>>
      /\ store' \in [Archive -> {"absent", "good", "corrupt"}]
      /\ \A a \in Archive : store'[a] = "absent" <=> store[a] = "absent"
  BY DEF UpstreamMoves, PolicyChanges, Corruption, vars, world, disk, counters, TypeOK
<1>2. upstream' \in 0..MaxUpstream /\ policy' \in 0..MaxPolicy /\ corruptions' \in 0..MaxCorrupt
  BY BoundsAssumption, SMTT(20) DEF UpstreamMoves, PolicyChanges, Corruption, vars, world, disk, counters,
                          TypeOK
<1>3. \A p \in Process : Working(p)' <=> Working(p)
  BY <1>1 DEF Working, At
<1>4. TypeOK'
  BY <1>1, <1>2, <1>3 DEF TypeOK
<1>5. RecordsHaveArchives'
  BY <1>1, RecordTypes DEF Shared, RecordsHaveArchives, Archived, Maybe
<1>6. MarkerIsLast' /\ CachePinned'
  BY <1>1 DEF Shared, MarkerIsLast, CachePinned
<1>7. \A p \in Process : PInv(p)'
  BY <1>1, Untouched
<1> QED
  BY <1>1, <1>4, <1>5, <1>6, <1>7 DEF Shared

LEMMA NextIInv == IInv /\ [Next]_vars => IInv'
<1> SUFFICES ASSUME IInv, [Next]_vars PROVE IInv'
  OBVIOUS
<1>1. ASSUME NEW p \in Process, Start(p) \/ Dies(p) PROVE IInv'
  BY <1>1, StartInv, DiesInv
<1>2. ASSUME NEW p \in Process, Step(p) PROVE IInv'
  BY <1>2, ReadingInv, ResolveBaseInv, PinnedBaseInv, RunAptInv, PublishInv, NameTakenInv,
     SyncStoreInv, SameArchiveInv, WriteInstalledInv, WriteMarkerInv, OpenVerifyInv, ExtractInv,
     RecordInstalledInv, RecordMarkerInv DEF Step
<1> QED
  BY <1>1, <1>2, PowerLossInv, SurroundingsInv DEF Next

LEMMA Invariance == Spec => []IInv
  BY InitIInv, NextIInv, PTL DEF Spec
-----------------------------------------------------------------------------
(* Type correctness, with the whole of a process's state; the lock of a    *)
(* job is held by the one process that works for it.                       *)
THEOREM TypeCorrect == Spec => [](TypeOK /\ proc \in [Process -> Slot])
<1>1. IInv => TypeOK /\ proc \in [Process -> Slot]
  BY DEF IInv
<1> QED
  BY <1>1, Invariance, PTL

(* A completed record of a job is whole, and of its key, however many      *)
(* processes died between its two writes.                                  *)
THEOREM RecordsAreWhole == Spec => []MarkerIsLast
<1>1. IInv => MarkerIsLast
  BY DEF IInv, Shared
<1> QED
  BY <1>1, Invariance, PTL

(* All roots a job has acquired stand on one base image and one policy.    *)
THEOREM JobsHaveOneBase == Spec => []OneBasePerJob
<1>1. IInv => OneBasePerJob
  BY DEF IInv, Shared, CachePinned, OneBasePerJob
<1> QED
  BY <1>1, Invariance, PTL

(* Until the power fails, no completed record precedes its archive.        *)
THEOREM ArchivesComeFirst == Spec => []RecordsHaveArchives
<1>1. IInv => RecordsHaveArchives
  BY DEF IInv, Shared
<1> QED
  BY <1>1, Invariance, PTL

(* What is handed out is the verified archive of the requests asked for.   *)
THEOREM RootsAreRecorded == Spec => []RootIsItsRecord
<1>1. IInv => RootIsItsRecord
  BY DEF IInv, PInv, Verified, ForRequests, RootIsItsRecord, Holding
<1> QED
  BY <1>1, Invariance, PTL

(* No step of any process replaces or repairs a published archive.         *)
THEOREM PublishedStays == Spec => ArchivesImmutable
<1> DEFINE Kept == \A a \in Archive :
                     store[a] # "absent" /\ corruptions' = corruptions /\ losses' = losses
                       => store'[a] = store[a]
<1>1. ASSUME IInv, [Next]_vars PROVE Kept
  <2> USE <1>1
  <2>1. CASE store' = store
    BY <2>1
  <2>2. ASSUME NEW p \in Process, Publish(p) PROVE Kept
    BY <2>2 DEF Publish, IInv, TypeOK
  <2>3. CASE PowerLoss \/ Corruption
    BY <2>3 DEF PowerLoss, Corruption, IInv, TypeOK
  <2>4. ASSUME NEW p \in Process, Step(p), ~Publish(p) PROVE store' = store
    BY <2>4 DEF Step, Decide, Reject, Raise, Miss, Only, ResolveBase, PinnedBase, RunApt,
       NameTaken, SyncStore, SameArchive, WriteInstalled, WriteMarker, OpenVerify, Extract,
       RecordInstalled, RecordMarker, disk
  <2>5. ASSUME NEW p \in Process, Start(p) \/ Dies(p) PROVE store' = store
    BY <2>5 DEF Start, Dies, disk
  <2>6. CASE UpstreamMoves \/ PolicyChanges \/ UNCHANGED vars
    BY <2>6 DEF UpstreamMoves, PolicyChanges, vars, disk
  <2> QED
    BY <2>1, <2>2, <2>3, <2>4, <2>5, <2>6 DEF Next
<1>2. IInv /\ [Next]_vars => [Kept]_vars
  BY <1>1
<1>3. Spec => [][Kept]_vars
  BY <1>2, Invariance, PTL DEF Spec
<1> QED
  BY <1>3 DEF ArchivesImmutable
=============================================================================
