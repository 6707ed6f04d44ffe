----------------------------- MODULE ToolProofs -----------------------------
(***************************************************************************)
(* RepositorySnapshot implements FrozenRepository; the safety of           *)
(* FeatureServices and of Stage0; what AptSelection serves, what Microcode *)
(* accepts, what ReferenceOverlay adds and what CertData trusts: for every *)
(* set of targets and of source releases, every number of publications,    *)
(* runs and scripts, every request, catalogue and mirror, every file, every*)
(* overlay and root, and every certificate store.                          *)
(***************************************************************************)
EXTENDS Subjects, Integers, Sequences, SequenceTheorems, FiniteSetTheorems,
        WellFoundedInduction, NaturalsInduction, TLAPS

-----------------------------------------------------------------------------
Place == {"idle", "look", "lock", "locked", "half", "copied", "print", "done", "failed"}

Metadata == [repo : Nat, index : Nat]
Partial  == [repo : Nat \cup {None}, index : Nat \cup {None}]

(* A published generation's own descriptor and its own index.              *)
Whole(m) == m \in Metadata /\ m.repo = m.index /\ m.index <= source.index

Typed ==
  /\ source \in Metadata /\ publishing \in BOOLEAN
  /\ pc \in [BuildTarget -> Place]
  /\ copy \in [BuildTarget -> Partial \cup {None}]
  /\ answers \in [BuildTarget -> Metadata \cup {None}]

(* The descriptor is ahead of the index while the publisher holds the lock,*)
(* and then no target does.                                                *)
Locked ==
  /\ source.repo = IF publishing THEN source.index + 1 ELSE source.index
  /\ publishing => Snapshot!Holders = {}

Copied ==
  \A t \in BuildTarget :
    /\ pc[t] \in {"lock", "locked", "half"} => copy[t] \in Partial
    /\ pc[t] = "half" => copy[t].repo = source.repo
    /\ pc[t] = "copied" => Whole(copy[t])

Frozen ==
  /\ snapshot # None => Whole(snapshot)
  /\ \A t \in BuildTarget : pc[t] = "print" => snapshot # None

SnapshotInv == Typed /\ Locked /\ Copied /\ Frozen
-----------------------------------------------------------------------------
(* A step of one target keeps the invariant if it keeps the target's part. *)
LEMMA OneTarget ==
  ASSUME SnapshotInv, NEW t \in BuildTarget, UNCHANGED <<source, publishing>>,
         pc' \in [BuildTarget -> Place], copy' \in [BuildTarget -> Partial \cup {None}],
         answers' \in [BuildTarget -> Metadata \cup {None}],
         \A u \in BuildTarget \ {t} : pc'[u] = pc[u] /\ copy'[u] = copy[u],
         pc'[t] \in {"locked", "half"} => ~publishing,
         pc'[t] \in {"lock", "locked", "half"} => copy'[t] \in Partial,
         pc'[t] = "half" => copy'[t].repo = source.repo,
         pc'[t] = "copied" => Whole(copy'[t]),
         pc'[t] = "print" => snapshot' # None,
         snapshot' = snapshot \/ (snapshot' # None /\ Whole(snapshot'))
  PROVE  SnapshotInv'
<1>1. Typed'
  BY DEF SnapshotInv, Typed
<1>2. Locked'
  <2>1. publishing => Snapshot!Holders' = {}
    BY DEF SnapshotInv, Locked, Snapshot!Holders
  <2> QED
    BY <2>1 DEF SnapshotInv, Locked
<1>3. Copied'
  BY DEF SnapshotInv, Copied, Whole
<1>4. Frozen'
  BY DEF SnapshotInv, Frozen, Whole
<1> QED
  BY <1>1, <1>2, <1>3, <1>4 DEF SnapshotInv

LEMMA SnapshotInit == Snapshot!Init => SnapshotInv
<1> SUFFICES ASSUME Snapshot!Init PROVE SnapshotInv
  OBVIOUS
<1>1. source = [repo |-> 0, index |-> 0] /\ publishing = FALSE /\ snapshot = None
  BY DEF Snapshot!Init
<1>2. \A t \in BuildTarget : pc[t] = "idle" /\ copy[t] = None
  BY DEF Snapshot!Init
<1>3. Typed
  <2>1. source \in Metadata
    BY <1>1 DEF Metadata
  <2>2. pc \in [BuildTarget -> Place] /\ copy \in [BuildTarget -> Partial \cup {None}]
    BY DEF Snapshot!Init, Place
  <2>3. answers \in [BuildTarget -> Metadata \cup {None}]
    BY DEF Snapshot!Init
  <2> QED
    BY <1>1, <2>1, <2>2, <2>3 DEF Typed
<1>4. Locked
  BY <1>1 DEF Locked
<1>5. Copied /\ Frozen
  BY <1>1, <1>2 DEF Copied, Frozen
<1> QED
  BY <1>3, <1>4, <1>5 DEF SnapshotInv

(* No target holds the lock while the publisher writes.                    *)
LEMMA PublishInv ==
  ASSUME SnapshotInv, Snapshot!BeginPublish \/ Snapshot!EndPublish
  PROVE  SnapshotInv'
<1>1. UNCHANGED <<snapshot, pc, copy, runs, answers>>
  BY DEF Snapshot!BeginPublish, Snapshot!EndPublish, Snapshot!own
<1>2. /\ source.repo \in Nat /\ source.index \in Nat
      /\ source = [repo |-> source.repo, index |-> source.index]
  BY DEF SnapshotInv, Typed, Metadata
<1>3. CASE Snapshot!BeginPublish
  <2>1. /\ ~publishing /\ Snapshot!Holders = {} /\ publishing' = TRUE
        /\ source' = [source EXCEPT !.repo = @ + 1]
    BY <1>3 DEF Snapshot!BeginPublish
  <2>2. /\ source' \in Metadata /\ source'.repo = source.repo + 1
        /\ source'.index = source.index
    BY <1>2, <2>1 DEF SnapshotInv, Typed, Metadata
  <2>3. Locked'
    <3>1. Snapshot!Holders' = {} /\ source.repo = source.index
      BY <1>1, <2>1 DEF Snapshot!Holders, SnapshotInv, Locked
    <3> QED
      BY <2>1, <2>2, <3>1 DEF Locked
  <2>4. Typed'
    BY <1>1, <2>1, <2>2 DEF SnapshotInv, Typed
  <2>5. Copied'
    <3>1. \A t \in BuildTarget : pc[t] # "half"
      BY <2>1 DEF Snapshot!Holders
    <3> QED
      BY <1>1, <2>2, <3>1 DEF SnapshotInv, Copied, Whole
  <2>6. Frozen'
    BY <1>1, <2>2 DEF SnapshotInv, Frozen, Whole
  <2> QED
    BY <2>3, <2>4, <2>5, <2>6 DEF SnapshotInv
<1>4. CASE Snapshot!EndPublish
  <2>1. /\ publishing /\ publishing' = FALSE
        /\ source' = [source EXCEPT !.index = source.repo]
    BY <1>4 DEF Snapshot!EndPublish
  <2>2. /\ source' \in Metadata /\ source'.repo = source.repo
        /\ source'.index = source.index + 1 /\ source.repo = source.index + 1
    BY <1>2, <2>1 DEF SnapshotInv, Typed, Locked, Metadata
  <2>3. Locked'
    BY <2>1, <2>2 DEF Locked
  <2>4. Typed'
    BY <1>1, <2>1, <2>2 DEF SnapshotInv, Typed
  <2>5. Copied'
    <3>1. \A t \in BuildTarget : Whole(copy[t]) => Whole(copy[t])'
      BY <1>1, <1>2, <2>2 DEF Whole, Metadata
    <3> QED
      BY <1>1, <2>1, <2>2, <3>1 DEF SnapshotInv, Copied, Locked, Snapshot!Holders
  <2>6. Frozen'
    BY <1>1, <1>2, <2>2 DEF SnapshotInv, Frozen, Whole, Metadata
  <2> QED
    BY <2>3, <2>4, <2>5, <2>6 DEF SnapshotInv
<1> QED
  BY <1>3, <1>4
-----------------------------------------------------------------------------
(* The steps of a target that are not seen from outside.                   *)
LEMMA HiddenSteps ==
  ASSUME SnapshotInv, NEW t \in BuildTarget,
         \/ Snapshot!Start(t) \/ Snapshot!Look(t) \/ Snapshot!Lock(t)
         \/ Snapshot!CopyDescriptor(t) \/ Snapshot!CopyIndex(t)
         \/ Snapshot!Fails(t) \/ Snapshot!Dies(t)
  PROVE  SnapshotInv' /\ UNCHANGED <<source, snapshot, answers>>
<1>1. UNCHANGED <<source, publishing, snapshot, answers>>
  BY DEF Snapshot!Start, Snapshot!Look, Snapshot!Lock, Snapshot!CopyDescriptor,
         Snapshot!CopyIndex, Snapshot!Fails, Snapshot!Dies
<1>2. /\ pc \in [BuildTarget -> Place] /\ copy \in [BuildTarget -> Partial \cup {None}]
      /\ answers \in [BuildTarget -> Metadata \cup {None}] /\ source \in Metadata
  BY DEF SnapshotInv, Typed
<1> DEFINE Part ==
      /\ pc' \in [BuildTarget -> Place] /\ copy' \in [BuildTarget -> Partial \cup {None}]
      /\ \A u \in BuildTarget \ {t} : pc'[u] = pc[u] /\ copy'[u] = copy[u]
      /\ pc'[t] \in {"locked", "half"} => ~publishing
      /\ pc'[t] \in {"lock", "locked", "half"} => copy'[t] \in Partial
      /\ pc'[t] = "half" => copy'[t].repo = source.repo
      /\ pc'[t] = "copied" => Whole(copy'[t])
      /\ pc'[t] = "print" => snapshot' # None
<1>3. ASSUME Snapshot!Start(t) \/ Snapshot!Dies(t) PROVE Part
  BY <1>1, <1>2, <1>3 DEF Snapshot!Start, Snapshot!Dies, Snapshot!Goto, Place
<1>4. ASSUME Snapshot!Look(t) PROVE Part
  <2>1. CASE snapshot # None
    BY <1>1, <1>2, <1>4, <2>1 DEF Snapshot!Look, Snapshot!Goto, Place
  <2>2. CASE snapshot = None
    <3>1. /\ pc' = [pc EXCEPT ![t] = "lock"]
          /\ copy' = [copy EXCEPT ![t] = [repo |-> None, index |-> None]]
      BY <1>4, <2>2 DEF Snapshot!Look, Snapshot!Goto, Place
    <3>2. [repo |-> None, index |-> None] \in Partial
      BY DEF Partial
    <3> QED
      BY <1>1, <1>2, <3>1, <3>2 DEF Place
  <2> QED
    BY <2>1, <2>2
<1>5. ASSUME Snapshot!Lock(t) PROVE Part
  BY <1>1, <1>2, <1>5 DEF Snapshot!Lock, Snapshot!Goto, Place, SnapshotInv, Copied
<1>6. ASSUME Snapshot!CopyDescriptor(t) PROVE Part
  <2>1. /\ pc[t] = "locked" /\ pc' = [pc EXCEPT ![t] = "half"]
        /\ copy' = [copy EXCEPT ![t].repo = source.repo]
    BY <1>6 DEF Snapshot!CopyDescriptor, Snapshot!Goto
  <2>2. copy[t] \in Partial /\ ~publishing
    BY <2>1 DEF SnapshotInv, Copied, Locked, Snapshot!Holders
  <2>3. source.repo \in Nat
    BY <1>2 DEF Metadata
  <2>4. copy'[t] = [copy[t] EXCEPT !.repo = source.repo]
    BY <1>2, <2>1
  <2>5. copy'[t] \in Partial /\ copy'[t].repo = source.repo
    BY <2>2, <2>3, <2>4 DEF Partial
  <2> QED
    BY <1>1, <1>2, <2>1, <2>2, <2>5 DEF Place
<1>7. ASSUME Snapshot!CopyIndex(t) PROVE Part
  <2>1. /\ pc[t] = "half" /\ pc' = [pc EXCEPT ![t] = "copied"]
        /\ copy' = [copy EXCEPT ![t].index = source.index]
    BY <1>7 DEF Snapshot!CopyIndex, Snapshot!Goto
  <2>2. copy[t] \in Partial /\ copy[t].repo = source.repo /\ source.repo = source.index
    BY <2>1 DEF SnapshotInv, Copied, Locked, Snapshot!Holders
  <2>3. source.index \in Nat
    BY <1>2 DEF Metadata
  <2>4. copy'[t] = [copy[t] EXCEPT !.index = source.index]
    BY <1>2, <2>1
  <2>5. copy'[t] = [repo |-> source.index, index |-> source.index]
    BY <2>2, <2>4 DEF Partial
  <2>6. copy'[t] \in Metadata /\ copy'[t] \in Partial /\ Whole(copy'[t])
    BY <2>3, <2>5 DEF Metadata, Partial, Whole
  <2> QED
    BY <1>1, <1>2, <2>1, <2>6 DEF Place
<1>8. ASSUME Snapshot!Fails(t) PROVE Part
  BY <1>1, <1>2, <1>8 DEF Snapshot!Fails, Snapshot!Goto, Place
<1> HIDE DEF Part
<1>9. Part
  BY <1>3, <1>4, <1>5, <1>6, <1>7, <1>8
<1>10. SnapshotInv'
  BY <1>1, <1>2, <1>9, OneTarget DEF Part
<1> QED
  BY <1>1, <1>10

(* The first copy that is whole becomes the job's snapshot.                *)
LEMMA RenameStep ==
  ASSUME SnapshotInv, NEW t \in BuildTarget, Snapshot!Rename(t)
  PROVE  /\ SnapshotInv' /\ UNCHANGED <<source, answers>>
         /\ snapshot' = snapshot \/ (snapshot = None /\ snapshot' # None /\ Whole(snapshot'))
<1>1. /\ pc[t] = "copied" /\ UNCHANGED <<source, publishing, answers>>
      /\ copy' = [copy EXCEPT ![t] = None]
  BY DEF Snapshot!Rename
<1>2. /\ pc \in [BuildTarget -> Place] /\ copy \in [BuildTarget -> Partial \cup {None}]
      /\ answers \in [BuildTarget -> Metadata \cup {None}]
  BY DEF SnapshotInv, Typed
<1>3. Whole(copy[t])
  BY <1>1 DEF SnapshotInv, Copied
<1>4. copy[t] # None
  BY <1>3, SnapshotAssumption DEF Whole, Metadata, Snapshot!NoneIsApart
<1>5. \/ snapshot = None /\ snapshot' = copy[t] /\ pc' = [pc EXCEPT ![t] = "print"]
      \/ snapshot' = snapshot /\ pc' = [pc EXCEPT ![t] = "failed"]
  BY DEF Snapshot!Rename, Snapshot!Goto
<1>6. /\ pc' \in [BuildTarget -> Place] /\ copy' \in [BuildTarget -> Partial \cup {None}]
      /\ \A u \in BuildTarget \ {t} : pc'[u] = pc[u] /\ copy'[u] = copy[u]
      /\ pc'[t] \in {"print", "failed"}
      /\ pc'[t] = "print" => snapshot' # None
  BY <1>1, <1>2, <1>4, <1>5 DEF Place
<1>7. SnapshotInv'
  BY <1>1, <1>2, <1>3, <1>4, <1>5, <1>6, OneTarget
<1> QED
  BY <1>1, <1>3, <1>4, <1>5, <1>7

(* A target prints the job's snapshot.                                     *)
LEMMA ReportStep ==
  ASSUME SnapshotInv, NEW t \in BuildTarget, Snapshot!Report(t)
  PROVE  /\ SnapshotInv' /\ UNCHANGED <<source, snapshot>>
         /\ snapshot # None /\ answers' = [answers EXCEPT ![t] = snapshot]
<1>1. /\ pc[t] = "print" /\ UNCHANGED <<source, publishing, snapshot, copy>>
      /\ pc' = [pc EXCEPT ![t] = "done"] /\ answers' = [answers EXCEPT ![t] = snapshot]
  BY DEF Snapshot!Report, Snapshot!Goto
<1>2. /\ pc \in [BuildTarget -> Place] /\ copy \in [BuildTarget -> Partial \cup {None}]
      /\ answers \in [BuildTarget -> Metadata \cup {None}]
  BY DEF SnapshotInv, Typed
<1>3. snapshot # None /\ snapshot \in Metadata
  BY <1>1 DEF SnapshotInv, Frozen, Whole
<1>4. /\ pc' \in [BuildTarget -> Place] /\ answers' \in [BuildTarget -> Metadata \cup {None}]
      /\ pc'[t] = "done" /\ \A u \in BuildTarget \ {t} : pc'[u] = pc[u] /\ copy'[u] = copy[u]
  BY <1>1, <1>2, <1>3 DEF Place
<1>5. SnapshotInv'
  BY <1>1, <1>2, <1>4, OneTarget
<1> QED
  BY <1>1, <1>3, <1>5
-----------------------------------------------------------------------------
(* What the abstract specification sees.                                   *)
Seen == <<source.index, Snapshot!Generation(snapshot),
          [t \in BuildTarget |-> Snapshot!Generation(answers[t])]>>

LEMMA Same ==
  ASSUME UNCHANGED <<source, snapshot, answers>>
  PROVE  UNCHANGED Seen
BY DEF Seen, Snapshot!Generation

(* Every step is one of the abstract specification, or none at all.        *)
LEMMA StepRefines ==
  ASSUME SnapshotInv, [Snapshot!Next]_Snapshot!vars
  PROVE  SnapshotInv' /\ [Snapshot!Promise!Next]_Seen
<1>1. CASE UNCHANGED Snapshot!vars
  <2>1. UNCHANGED <<source, publishing, snapshot, pc, copy, runs, answers>>
    BY <1>1 DEF Snapshot!vars, Snapshot!own
  <2>2. SnapshotInv'
    BY <2>1 DEF SnapshotInv, Typed, Locked, Copied, Frozen, Snapshot!Holders, Whole
  <2> QED
    BY <2>1, <2>2, Same
<1>2. CASE Snapshot!BeginPublish
  <2>1. UNCHANGED <<snapshot, answers>> /\ source' = [source EXCEPT !.repo = @ + 1]
    BY <1>2 DEF Snapshot!BeginPublish
  <2>2. source'.index = source.index
    BY <2>1 DEF SnapshotInv, Typed, Metadata
  <2>3. UNCHANGED Seen
    BY <2>1, <2>2 DEF Seen, Snapshot!Generation
  <2> QED
    BY <1>2, <2>3, PublishInv
<1>3. CASE Snapshot!EndPublish
  <2>1. /\ UNCHANGED <<snapshot, answers>> /\ publishing
        /\ source' = [source EXCEPT !.index = source.repo]
    BY <1>3 DEF Snapshot!EndPublish
  <2>2. source'.index = source.index + 1
    BY <2>1 DEF SnapshotInv, Typed, Locked, Metadata
  <2>3. Snapshot!Promise!Publish
    BY <2>1, <2>2 DEF Snapshot!Promise!Publish, Snapshot!Generation
  <2> QED
    BY <1>3, <2>3, PublishInv DEF Snapshot!Promise!Next
<1>4. ASSUME NEW t \in BuildTarget, Snapshot!Rename(t)
      PROVE  SnapshotInv' /\ [Snapshot!Promise!Next]_Seen
  <2>1. /\ SnapshotInv' /\ UNCHANGED <<source, answers>>
        /\ snapshot' = snapshot \/ (snapshot = None /\ snapshot' # None /\ Whole(snapshot'))
    BY <1>4, RenameStep
  <2>2. CASE snapshot' = snapshot
    BY <2>1, <2>2, Same
  <2>3. CASE snapshot = None /\ snapshot' # None /\ Whole(snapshot')
    <3>1. Snapshot!Generation(snapshot) = None /\ Snapshot!Generation(snapshot)' = snapshot'.repo
      BY <2>3 DEF Snapshot!Generation, Whole
    <3>2. snapshot'.repo \in 0..source.index
      BY <2>3 DEF Whole, Metadata, SnapshotInv, Typed
    <3>3. Snapshot!Promise!Freeze
      BY <2>1, <3>1, <3>2 DEF Snapshot!Promise!Freeze, Snapshot!Generation
    <3> QED
      BY <2>1, <3>3 DEF Snapshot!Promise!Next
  <2> QED
    BY <2>1, <2>2, <2>3
<1>5. ASSUME NEW t \in BuildTarget, Snapshot!Report(t)
      PROVE  SnapshotInv' /\ [Snapshot!Promise!Next]_Seen
  <2>1. /\ SnapshotInv' /\ UNCHANGED <<source, snapshot>>
        /\ snapshot # None /\ answers' = [answers EXCEPT ![t] = snapshot]
    BY <1>5, ReportStep
  <2>2. Snapshot!Generation(snapshot) # None
    <3>1. Whole(snapshot)
      BY <2>1 DEF SnapshotInv, Frozen
    <3> QED
      BY <2>1, <3>1, SnapshotAssumption
      DEF Whole, Metadata, Snapshot!Generation, Snapshot!NoneIsApart
  <2>3. answers \in [BuildTarget -> Metadata \cup {None}]
    BY DEF SnapshotInv, Typed
  <2>4. \A u \in BuildTarget : answers'[u] = IF u = t THEN snapshot ELSE answers[u]
    BY <2>1, <2>3
  <2>5. [u \in BuildTarget |-> Snapshot!Generation(answers'[u])]
          = [[u \in BuildTarget |-> Snapshot!Generation(answers[u])]
              EXCEPT ![t] = Snapshot!Generation(snapshot)]
    BY <2>4
  <2>6. Snapshot!Promise!Hand(t)
    BY <2>1, <2>2, <2>5 DEF Snapshot!Promise!Hand, Snapshot!Generation
  <2> QED
    BY <2>1, <2>6 DEF Snapshot!Promise!Next
<1>6. ASSUME NEW t \in BuildTarget,
             \/ Snapshot!Start(t) \/ Snapshot!Look(t) \/ Snapshot!Lock(t)
             \/ Snapshot!CopyDescriptor(t) \/ Snapshot!CopyIndex(t)
             \/ Snapshot!Fails(t) \/ Snapshot!Dies(t)
      PROVE  SnapshotInv' /\ [Snapshot!Promise!Next]_Seen
  BY <1>6, HiddenSteps, Same
<1> QED
  BY <1>1, <1>2, <1>3, <1>4, <1>5, <1>6 DEF Snapshot!Next

(* Whatever is published meanwhile, and wherever targets fail or die: the  *)
(* targets of a job are handed one published generation, whole.            *)
THEOREM OneGeneration == Snapshot!Spec => OneGenerationPerJob
<1>1. Snapshot!Init => Snapshot!Promise!Init
  BY DEF Snapshot!Init, Snapshot!Promise!Init, Snapshot!Generation
<1>2. SnapshotInv /\ [Snapshot!Next]_Snapshot!vars => SnapshotInv' /\ [Snapshot!Promise!Next]_Seen
  BY StepRefines
<1> QED
  BY <1>1, <1>2, SnapshotInit, PTL
  DEF Snapshot!Spec, OneGenerationPerJob, Snapshot!OneGenerationPerJob,
      Snapshot!Promise!Spec, Seen
-----------------------------------------------------------------------------
(* The services a script has dealt with stay so: whoever else deletes a    *)
(* key leaves it in no state that any script is there to end.              *)
DealtWith(s) == key[s] \notin Services!Contrary[script]

ServicesInv ==
  /\ key \in [Services!Service -> Services!Key]
  /\ step \in {"idle", "command", "descend", "info", "done", "failed"} /\ at \in Services!Service
  /\ step # "idle" => script \in Services!Script
  /\ step \in {"descend", "info"} => script = "uninstall"
  /\ step \in {"command", "descend", "info"} /\ at = 2 => DealtWith(1)
  /\ step = "done" => DealtWith(1) /\ DealtWith(2)

LEMMA Contraries ==
  /\ Services!Contrary["install"] = {"enabled"} /\ Services!Contrary["enable"] = {"disabled"}
  /\ Services!Contrary["disable"] = {"enabled"}
  /\ Services!Contrary["uninstall"] = {"enabled", "disabled"}
  /\ \A name \in Services!Script : "absent" \notin Services!Contrary[name]
BY DEF Services!Contrary, Services!Script

(* A command that succeeds for its service, and the script goes on.        *)
LEMMA Succeeds ==
  ASSUME ServicesInv, step \in {"command", "descend", "info"}, Services!NextService,
         UNCHANGED script, key' \in [Services!Service -> Services!Key],
         key'[at] \notin Services!Contrary[script],
         \A s \in Services!Service \ {at} : key'[s] = key[s]
  PROVE  ServicesInv'
<1>1. CASE at = 1
  BY <1>1 DEF ServicesInv, DealtWith, Services!NextService, Services!Service
<1>2. CASE at = 2
  BY <1>2 DEF ServicesInv, DealtWith, Services!NextService, Services!Service
<1> QED
  BY <1>1, <1>2 DEF ServicesInv, Services!Service

LEMMA ServicesStep ==
  ASSUME ServicesInv, [Services!Next]_Services!vars
  PROVE  ServicesInv'
<1> USE Contraries DEF Services!Service, Services!Key
<1>1. ASSUME NEW name \in Services!Script, Services!Run(name) PROVE ServicesInv'
  BY <1>1 DEF Services!Run, ServicesInv
<1>2. CASE Services!Apply
  BY <1>2, Succeeds DEF Services!Apply, ServicesInv
<1>3. CASE Services!Set
  <2>1. key' = [key EXCEPT ![at] = Services!Flag] /\ UNCHANGED script
    BY <1>3 DEF Services!Set
  <2>2. Services!Flag \in Services!Key /\ Services!Flag \notin Services!Contrary[script]
    BY <1>3 DEF Services!Flag, Services!Set
  <2> QED
    BY <1>3, <2>1, <2>2, Succeeds DEF Services!Set, ServicesInv
<1>4. CASE Services!Refused \/ Services!Killed
  BY <1>4 DEF Services!Refused, Services!Killed, Services!Fail, ServicesInv
<1>5. CASE Services!List
  <2>1. step = "command" /\ script = "uninstall" /\ UNCHANGED script
    BY <1>5 DEF Services!List
  <2>2. CASE key' = key /\ step' \in {"info", "descend"} /\ UNCHANGED at
    BY <2>1, <2>2 DEF ServicesInv, DealtWith
  <2>3. CASE key' = [key EXCEPT ![at] = "absent"] /\ Services!NextService
    BY <2>1, <2>3, Succeeds DEF ServicesInv
  <2> QED
    BY <1>5, <2>2, <2>3 DEF Services!List
<1>6. CASE Services!Descend
  <2>1. step = "descend" /\ script = "uninstall" /\ UNCHANGED script
    BY <1>6 DEF Services!Descend, ServicesInv
  <2>2. CASE key' = key /\ step' = "info" /\ UNCHANGED at
    BY <2>1, <2>2 DEF ServicesInv, DealtWith
  <2>3. CASE key' = [key EXCEPT ![at] = "absent"] /\ Services!NextService
    BY <2>1, <2>3, Succeeds DEF ServicesInv
  <2> QED
    BY <1>6, <2>2, <2>3 DEF Services!Descend
<1>7. CASE Services!Info
  <2>1. step = "info" /\ script = "uninstall" /\ UNCHANGED <<key, script>>
    BY <1>7 DEF Services!Info, ServicesInv
  <2>2. CASE key[at] = "absent" /\ Services!NextService
    BY <2>1, <2>2, Succeeds DEF ServicesInv
  <2>3. CASE Services!Fail
    BY <2>1, <2>3 DEF Services!Fail, ServicesInv
  <2> QED
    BY <1>7, <2>2, <2>3 DEF Services!Info
<1>8. ASSUME NEW s \in Services!Service, Services!OthersAdd(s) \/ Services!OthersDelete(s)
      PROVE  ServicesInv'
  <2>1. /\ UNCHANGED <<script, step, at>>
        /\ key' = key \/ key' = [key EXCEPT ![s] = "absent"]
    BY <1>8 DEF Services!OthersAdd, Services!OthersDelete
  <2>2. /\ key' \in [Services!Service -> Services!Key]
        /\ \A x \in Services!Service : key'[x] = key[x] \/ key'[x] = "absent"
    BY <2>1 DEF ServicesInv
  <2>3. \A x \in Services!Service : script \in Services!Script /\ DealtWith(x) => DealtWith(x)'
    BY <2>1, <2>2 DEF DealtWith
  <2> QED
    BY <2>1, <2>2, <2>3 DEF ServicesInv
<1>9. CASE UNCHANGED Services!vars
  BY <1>9 DEF Services!vars, ServicesInv, DealtWith
<1> QED
  BY <1>1, <1>2, <1>3, <1>4, <1>5, <1>6, <1>7, <1>8, <1>9 DEF Services!Next

(* A feature script that reports success leaves neither service in a state *)
(* that it is there to end, whoever else writes or deletes keys meanwhile. *)
THEOREM SuccessIsForBoth == Services!Spec => []SuccessSpeaksForBoth
<1>1. Services!Init => ServicesInv
  BY DEF Services!Init, ServicesInv, Services!Service, Services!Key
<1>2. ServicesInv /\ [Services!Next]_Services!vars => ServicesInv'
  BY ServicesStep
<1>3. ServicesInv => SuccessSpeaksForBoth
  BY DEF SuccessSpeaksForBoth, ServicesInv, DealtWith, Services!SuccessSpeaksForBoth,
         Services!Service
<1> QED
  BY <1>1, <1>2, <1>3, PTL DEF Services!Spec
-----------------------------------------------------------------------------
Bytes == Release \cup {Seed!Changed, Seed!Garbled, None}
Archive(i) == Seed!Components[i]

(* The i-th component's archive is kept.                                   *)
Acquired(i) == retained[Archive(i)] = release

(* What is on record is of one release, whichever files there were.        *)
Recorded ==
  identities # None =>
    \E r \in Release, S \in SUBSET Seed!Binary :
      /\ identities = [b \in S |-> r]
      /\ place = "versions" => r = release
      /\ inputs \in {None, r}

Stage0Typed ==
  /\ release \in Release /\ next \in 1..3
  /\ stage0 \in [Seed!Binary -> Bytes]
  /\ retained \in [Seed!Range(Seed!Components) -> Bytes]
  /\ place \in {"ended", "download", "retain", "install", "identify", "versions"}

Stage0Inv ==
  /\ Stage0Typed
  /\ place \in {"download", "retain", "install"} => \A i \in 1..3 : i < next => Acquired(i)
  /\ place = "install" => retained[Archive(next)] = release
  /\ place \in {"identify", "versions"} => \A i \in 1..3 : Acquired(i)
  /\ place = "versions" => identities # None
  /\ Recorded
  /\ inputs # None => /\ place = "ended" /\ stage0 # Seed!Empty
                        /\ retained = [c \in Seed!Range(Seed!Components) |-> inputs]

LEMMA Names ==
  /\ Archive(1) = "rustc" /\ Archive(2) = "cargo" /\ Archive(3) = "rust-std"
  /\ Seed!Range(Seed!Components) = {"rustc", "cargo", "rust-std"}
  /\ Len(Seed!Components) = 3
  /\ Seed!Binary = {"rustc", "cargo", "rust-std"} \X {1, 2}
<1>1. /\ Archive(1) = "rustc" /\ Archive(2) = "cargo" /\ Archive(3) = "rust-std"
      /\ Len(Seed!Components) = 3 /\ DOMAIN Seed!Components = 1..3
  BY DEF Archive, Seed!Components
<1>2. Seed!Range(Seed!Components) = {"rustc", "cargo", "rust-std"}
  <2>1. 1..3 = {1, 2, 3}
    OBVIOUS
  <2> QED
    BY <1>1, <2>1 DEF Seed!Range, Archive
<1>3. Seed!Binary = {"rustc", "cargo", "rust-std"} \X {1, 2}
  BY <1>2 DEF Seed!Binary
<1> QED
  BY <1>1, <1>2, <1>3

(* A step within a run that installs nothing.                              *)
LEMMA Stage0Frame ==
  ASSUME Stage0Inv, UNCHANGED <<release, stage0, retained>>
  PROVE  \A i \in 1..3 : Acquired(i)' <=> Acquired(i)
BY DEF Acquired

LEMMA Stage0Init ==
  ASSUME Seed!Init
  PROVE  Stage0Inv
<1>1. Stage0Typed
  BY DEF Seed!Init, Seed!Empty, Stage0Typed, Bytes
<1> QED
  BY <1>1 DEF Seed!Init, Stage0Inv, Recorded

(* A run that begins finds nothing to build on.                            *)
LEMMA BeginInv ==
  ASSUME Stage0Inv, Seed!Begin
  PROVE  Stage0Inv'
<1>1. /\ place = "ended" /\ release' \in Release /\ next' = 1
      /\ UNCHANGED <<stage0, retained, identities, inputs>>
      /\ place' = "ended" \/ (place' = "download" /\ stage0 = Seed!Empty)
  BY DEF Seed!Begin, Seed!disk
<1>2. Stage0Typed'
  BY <1>1 DEF Stage0Inv, Stage0Typed
<1>3. inputs # None => place' = "ended"
  BY <1>1 DEF Stage0Inv
<1>4. Recorded'
  BY <1>1 DEF Stage0Inv, Recorded
<1> QED
  BY <1>1, <1>2, <1>3, <1>4 DEF Stage0Inv, Seed!Empty

(* Whatever ends a run leaves what is there as it is.                      *)
LEMMA EndedInv ==
  ASSUME Stage0Inv, Seed!Ended
  PROVE  Stage0Inv'
<1>1. place' = "ended" /\ UNCHANGED <<release, next, stage0, retained, identities, inputs>>
  BY DEF Seed!Ended, Seed!disk
<1>2. Stage0Typed'
  BY <1>1 DEF Stage0Inv, Stage0Typed
<1>3. Recorded'
  BY <1>1 DEF Stage0Inv, Recorded
<1> QED
  BY <1>1, <1>2, <1>3 DEF Stage0Inv, Acquired, Seed!Empty

LEMMA DownloadInv ==
  ASSUME Stage0Inv, Seed!Download
  PROVE  Stage0Inv'
<1>1. CASE Seed!Ended
  BY <1>1, EndedInv
<1>2. CASE place' = "retain" /\ UNCHANGED <<release, next, Seed!disk, begun>>
  <2>1. /\ place = "download" /\ UNCHANGED <<release, next, stage0, retained, identities, inputs>>
    BY <1>2 DEF Seed!Download, Seed!disk
  <2>2. Stage0Typed'
    BY <1>2, <2>1 DEF Stage0Inv, Stage0Typed
  <2>3. \A i \in 1..3 : i < next => Acquired(i)'
    BY <2>1, Stage0Frame DEF Stage0Inv
  <2>4. Recorded'
    BY <1>2, <2>1 DEF Stage0Inv, Recorded
  <2> QED
    BY <1>2, <2>1, <2>2, <2>3, <2>4 DEF Stage0Inv
<1> QED
  BY <1>1, <1>2 DEF Seed!Download

LEMMA RetainInv ==
  ASSUME Stage0Inv, Seed!Retain
  PROVE  Stage0Inv'
<1>1. PICK whole \in BOOLEAN :
        /\ retained' = [retained EXCEPT ![Seed!Components[next]] =
                         IF whole THEN release ELSE Seed!Changed]
        /\ place' = IF whole THEN "install" ELSE "ended"
  BY DEF Seed!Retain
<1>2. /\ place = "retain" /\ UNCHANGED <<release, next, stage0, identities, inputs>>
  BY DEF Seed!Retain
<1>3. next \in 1..3 /\ retained \in [Seed!Range(Seed!Components) -> Bytes] /\ release \in Release
  BY DEF Stage0Inv, Stage0Typed
<1>4. retained' \in [Seed!Range(Seed!Components) -> Bytes]
  BY <1>1, <1>3 DEF Bytes
<1>5. Archive(next) \in Seed!Range(Seed!Components)
      /\ \A i \in 1..3 : i # next => Archive(i) # Archive(next)
  BY <1>3, Names
<1>6. Stage0Typed'
  BY <1>1, <1>2, <1>4 DEF Stage0Inv, Stage0Typed
<1>7. place' = "install" => retained'[Archive(next)] = release
  BY <1>1, <1>3, <1>5 DEF Archive
<1>8. \A i \in 1..3 : i # next => (Acquired(i)' <=> Acquired(i))
  BY <1>1, <1>2, <1>3, <1>5, Names DEF Acquired, Archive
<1>9. \A i \in 1..3 : i < next => Acquired(i)'
  BY <1>2, <1>3, <1>8 DEF Stage0Inv
<1>10. inputs = None
  BY <1>2 DEF Stage0Inv
<1>11. Recorded'
  BY <1>1, <1>2 DEF Stage0Inv, Recorded
<1> QED
  BY <1>1, <1>2, <1>6, <1>7, <1>9, <1>10, <1>11 DEF Stage0Inv, Archive

(* install.sh: a component counts when it has been through its binaries.   *)
LEMMA InstallInv ==
  ASSUME Stage0Inv, Seed!Install
  PROVE  Stage0Inv'
<1>1. PICK n \in 0..2, odd \in 1..2, bytes \in {release, Seed!Changed, Seed!Garbled, None} :
        /\ stage0' = [b \in Seed!Binary |-> IF b[1] = Seed!Components[next] /\ b[2] <= n
                                               THEN IF b[2] = odd THEN bytes ELSE release
                                               ELSE stage0[b]]
        /\ IF n < 2 THEN place' = "ended" /\ UNCHANGED next
           ELSE /\ place' = IF next = Len(Seed!Components) THEN "identify" ELSE "download"
                /\ next' = IF next = Len(Seed!Components) THEN next ELSE next + 1
  BY DEF Seed!Install
<1>2. place = "install" /\ UNCHANGED <<release, retained, identities, inputs>>
  BY DEF Seed!Install
<1>3. /\ next \in 1..3 /\ stage0 \in [Seed!Binary -> Bytes] /\ release \in Release
      /\ inputs = None /\ retained[Archive(next)] = release
      /\ \A i \in 1..3 : i < next => Acquired(i)
  BY <1>2 DEF Stage0Inv, Stage0Typed
<1>4. bytes \in Bytes /\ release \in Bytes
  BY <1>3 DEF Bytes
<1>5. stage0' \in [Seed!Binary -> Bytes]
  BY <1>1, <1>3, <1>4
<1>6. Stage0Typed'
  BY <1>1, <1>2, <1>3, <1>5, Names DEF Stage0Inv, Stage0Typed
<1>7. \A i \in 1..3 : i <= next => Acquired(i)'
  BY <1>2, <1>3 DEF Acquired
<1>8. Recorded'
  BY <1>1, <1>2, <1>3, Names DEF Stage0Inv, Recorded
<1>9. CASE n < 2
  BY <1>1, <1>2, <1>3, <1>6, <1>8, <1>9 DEF Stage0Inv
<1>10. CASE n = 2
  <2>1. CASE next = 3
    BY <1>1, <1>2, <1>3, <1>6, <1>7, <1>8, <1>10, <2>1, Names DEF Stage0Inv
  <2>2. CASE next < 3
    <3>1. place' = "download" /\ next' = next + 1
      BY <1>1, <1>10, <2>2, Names
    <3>2. \A i \in 1..3 : i < next' => Acquired(i)'
      BY <1>3, <1>7, <3>1
    <3> QED
      BY <1>2, <1>3, <1>6, <1>8, <3>1, <3>2 DEF Stage0Inv
  <2> QED
    BY <1>3, <2>1, <2>2
<1> QED
  BY <1>9, <1>10

(* What is recorded was equal, file by file, to the release's own.         *)
LEMMA IdentifyInv ==
  ASSUME Stage0Inv, Seed!Identify
  PROVE  Stage0Inv'
<1>1. CASE Seed!Ended
  BY <1>1, EndedInv
<1>2. CASE ~ Seed!Ended
  <2> DEFINE Found == Seed!Recognized
  <2>1. /\ place = "identify" /\ identities' = [b \in Found |-> stage0[b]]
        /\ place' = "versions"
        /\ UNCHANGED <<release, next, stage0, retained, inputs>>
        /\ \A b \in Found : stage0[b] = release
    BY <1>2 DEF Seed!Identify, Seed!Restrict
  <2>2. Stage0Typed /\ inputs = None /\ \A i \in 1..3 : Acquired(i)
    BY <2>1 DEF Stage0Inv
  <2>3. Found \in SUBSET Seed!Binary
    BY DEF Seed!Recognized
  <2> HIDE DEF Found
  <2>4. identities' = [b \in Found |-> release] /\ release \in Release
    BY <2>1, <2>2 DEF Stage0Typed
  <2>5. identities' # None
    <3>1. identities' \in [Found -> Release \cup {Seed!Changed}]
      BY <2>4
    <3> QED
      BY <2>3, <3>1, Stage0Assumption DEF Seed!AbsentIsApart
  <2>6. Recorded'
    BY <2>1, <2>2, <2>3, <2>4 DEF Recorded
  <2>7. Stage0Typed'
    BY <2>1, <2>2 DEF Stage0Typed
  <2>8. \A i \in 1..3 : Acquired(i)'
    BY <2>1, <2>2, Stage0Frame
  <2> QED
    BY <2>1, <2>2, <2>5, <2>6, <2>7, <2>8 DEF Stage0Inv
<1> QED
  BY <1>1, <1>2

LEMMA ConcludeInv ==
  ASSUME Stage0Inv, Seed!Conclude
  PROVE  Stage0Inv'
<1>1. CASE Seed!Ended
  BY <1>1, EndedInv
<1>2. CASE ~ Seed!Ended
  <2>1. /\ place = "versions" /\ inputs' = release /\ place' = "ended"
        /\ UNCHANGED <<release, next, stage0, retained, identities>>
        /\ \A b \in Seed!Executables : stage0[b] # None
    BY <1>2 DEF Seed!Conclude
  <2>2. Stage0Typed /\ Recorded /\ identities # None /\ \A i \in 1..3 : Acquired(i)
    BY <2>1 DEF Stage0Inv
  <2>3. Stage0Typed'
    BY <2>1, <2>2 DEF Stage0Typed
  <2>4. retained = [c \in Seed!Range(Seed!Components) |-> release]
    BY <2>2, Names DEF Acquired, Stage0Typed
  <2>5. stage0 # Seed!Empty
    BY <2>1, Names DEF Seed!Executables, Seed!Empty
  <2>6. Recorded'
    BY <2>1, <2>2 DEF Recorded
  <2> QED
    BY <2>1, <2>3, <2>4, <2>5, <2>6 DEF Stage0Inv, Seed!Empty
<1> QED
  BY <1>1, <1>2

(* What is changed afterwards is not what is on record.                    *)
LEMMA TamperedInv ==
  ASSUME Stage0Inv, Seed!Tampered
  PROVE  Stage0Inv'
<1>1. PICK b \in {i \in Seed!Binary : stage0[i] # None}, bytes \in {Seed!Changed, Seed!Garbled} :
        stage0' = [stage0 EXCEPT ![b] = bytes]
  BY DEF Seed!Tampered
<1>2. /\ place \in {"ended", "versions"}
      /\ UNCHANGED <<release, place, next, retained, identities, inputs>>
  BY DEF Seed!Tampered
<1>3. b \in Seed!Binary /\ stage0 \in [Seed!Binary -> Bytes] /\ bytes # None
  BY Stage0Assumption DEF Stage0Inv, Stage0Typed, Seed!AbsentIsApart
<1>4. stage0' \in [Seed!Binary -> Bytes] /\ stage0'[b] # None
  BY <1>1, <1>3 DEF Bytes
<1>5. stage0' # Seed!Empty
  BY <1>3, <1>4 DEF Seed!Empty
<1>6. Stage0Typed'
  BY <1>2, <1>4 DEF Stage0Inv, Stage0Typed
<1>7. \A i \in 1..3 : Acquired(i) => Acquired(i)'
  BY <1>2 DEF Acquired
<1>8. Recorded'
  BY <1>2 DEF Stage0Inv, Recorded
<1> QED
  BY <1>2, <1>5, <1>6, <1>7, <1>8 DEF Stage0Inv, Seed!Empty

LEMMA Stage0Step ==
  ASSUME Stage0Inv, [Seed!Next]_Seed!vars
  PROVE  Stage0Inv'
<1>1. CASE UNCHANGED Seed!vars
  BY <1>1 DEF Seed!vars, Seed!disk, Stage0Inv, Stage0Typed, Acquired, Recorded, Seed!Empty
<1>2. Seed!Killed => Stage0Inv'
  BY EndedInv DEF Seed!Killed
<1> QED
  BY <1>1, <1>2, BeginInv, DownloadInv, RetainInv, InstallInv, IdentifyInv, ConcludeInv,
     TamperedInv DEF Seed!Next

(* What a worker verifies, every file with ELF's or ar's magic, is of one  *)
(* release, and of the one the inputs name; a concluded acquisition keeps  *)
(* that release's archives.  Files without the magic, or left out, are not *)
(* spoken of: neither script looks at them.                                *)
THEOREM Stage0IsAuthentic == Seed!Spec => []OnlyAuthenticStage0
<1>1. Seed!Init => Stage0Inv
  BY Stage0Init
<1>2. Stage0Inv /\ [Seed!Next]_Seed!vars => Stage0Inv'
  BY Stage0Step
<1>3. Stage0Inv => OnlyAuthenticStage0
  <2> SUFFICES ASSUME Stage0Inv PROVE OnlyAuthenticStage0
    OBVIOUS
  <2> DEFINE One == \E r \in Release : /\ \A b \in Seed!Recognized : stage0[b] = r
                                       /\ inputs \in {None, r}
             Kept == retained = [c \in Seed!Range(Seed!Components) |-> inputs]
  <2>1. ASSUME Seed!Verifies PROVE One
    <3>1. identities # None /\ [b \in Seed!Recognized |-> stage0[b]] = identities
      BY <2>1 DEF Seed!Verifies, Seed!Restrict
    <3>2. PICK r \in Release, S \in SUBSET Seed!Binary :
            identities = [b \in S |-> r] /\ inputs \in {None, r}
      BY <3>1 DEF Stage0Inv, Recorded
    <3> QED
      BY <3>1, <3>2
  <2>2. inputs # None => Kept
    BY DEF Stage0Inv
  <2>3. OnlyAuthenticStage0 <=> (Seed!Verifies => One) /\ (inputs # None => Kept)
    BY DEF OnlyAuthenticStage0, Seed!OnlyAuthenticStage0
  <2> HIDE DEF One, Kept
  <2> QED
    BY <2>1, <2>2, <2>3
<1> QED
  BY <1>1, <1>2, <1>3, PTL DEF Seed!Spec

-----------------------------------------------------------------------------
(* A set of naturals that is not empty and has a bound has a greatest.     *)
LEMMA Greatest ==
  ASSUME NEW top \in Nat, NEW S \in SUBSET (0..top), S # {}
  PROVE  \E m \in S : \A k \in S : k <= m
<1> DEFINE T == {i \in 0..top : top - i \in S}
<1>1. T \in SUBSET Nat
  OBVIOUS
<1>2. T # {}
  <2>1. PICK k \in S : TRUE
    OBVIOUS
  <2>2. top - k \in 0..top /\ top - (top - k) = k
    OBVIOUS
  <2> QED
    BY <2>1, <2>2
<1>3. PICK i \in T : \A j \in T : ~ (<<j, i>> \in OpToRel(<, Nat))
  BY <1>1, <1>2, NatLessThanWellFounded, WFMin
<1>4. ASSUME NEW k \in S PROVE k <= top - i
  <2>1. top - k \in T
    <3>1. top - k \in 0..top /\ top - (top - k) = k
      OBVIOUS
    <3> QED
      BY <3>1
  <2>2. ~ (top - k < i)
    BY <1>1, <1>3, <2>1 DEF OpToRel
  <2> QED
    BY <2>1, <2>2
<1> QED
  BY <1>3, <1>4

(* The versions of a name that satisfy all the clauses.                    *)
Meets(world, n, checks) ==
  {v \in Apt!Offered(world, n) : \A c \in checks : Apt!Compare(v, c.op, c.version)}

(* Pinned as install_script pins, APT's candidate is the greatest version  *)
(* that satisfies all the clauses.                                         *)
LEMMA CandidateIsGreatest ==
  ASSUME NEW world, NEW n, NEW checks, NEW top \in Nat,
         world.archive[n] \in SUBSET (1..top), world.base[n] \in 0..top
  PROVE  /\ Apt!Candidates(world, n, checks) # {} <=> Meets(world, n, checks) # {}
         /\ \A v \in Apt!Candidates(world, n, checks) :
              /\ v \in Meets(world, n, checks)
              /\ \A w \in Meets(world, n, checks) : w <= v
<1> DEFINE O == Apt!Offered(world, n)
           M == Meets(world, n, checks)
           P(v) == Apt!Priority(world, n, checks, v)
           May == {v \in O : P(v) >= 0 /\ (P(v) >= 1000 \/ v >= world.base[n])}
           C == Apt!Candidates(world, n, checks)
<1>1. O \in SUBSET (0..top)
  BY DEF Apt!Offered
<1>2. C = {v \in May : \A w \in May : P(v) > P(w) \/ (P(v) = P(w) /\ v >= w)}
  BY DEF Apt!Candidates
<1>3. M \subseteq O
  BY DEF Meets
<1>4. CASE checks # {}
  <2>1. \A v \in O : P(v) = IF v \in M THEN 1001 ELSE -1
    BY <1>4 DEF Apt!Priority, Meets
  <2>2. May = M
    BY <1>3, <2>1
  <2>3. C = {v \in M : \A w \in M : v >= w}
    BY <1>1, <1>2, <1>3, <2>1, <2>2
  <2>4. M # {} => C # {}
    <3> HIDE DEF C, M, O
    <3> QED
      BY <1>1, <1>3, <2>3, Greatest
  <2>5. /\ C # {} => M # {}
        /\ \A v \in C : v \in M /\ \A w \in M : w <= v
    <3> HIDE DEF C, M, O
    <3> QED
      BY <1>1, <1>3, <2>3
  <2> QED
    BY <2>4, <2>5
<1>5. CASE checks = {}
  <2>1. M = O
    BY <1>5 DEF Meets
  <2>2. \A v \in O : P(v) = IF v \in world.archive[n] THEN 500 ELSE 100
    BY <1>5 DEF Apt!Priority
  <2>3. May = {v \in O : v >= world.base[n]}
    BY <2>2
  <2>4. \A v \in O : v \in world.archive[n] \/ v = world.base[n]
    BY DEF Apt!Offered
  <2>5. \A v \in C : v \in O /\ \A w \in O : w <= v
    <3>0. SUFFICES ASSUME NEW v \in C PROVE v \in O /\ \A w \in O : w <= v
      BY Zenon
    <3>1. v \in O /\ v >= world.base[n]
      BY <1>2, <2>3
    <3> SUFFICES ASSUME NEW w \in O PROVE w <= v
      BY <3>1
    <3>2. CASE w >= world.base[n]
      <4>1. w \in May
        BY <2>3, <3>2
      <4>2. P(v) > P(w) \/ (P(v) = P(w) /\ v >= w)
        BY <1>2, <4>1
      <4>3. CASE v \in world.archive[n] /\ w \notin world.archive[n]
        BY <2>4, <3>1, <4>3
      <4>4. CASE ~ (v \in world.archive[n] /\ w \notin world.archive[n])
        BY <1>1, <2>2, <3>1, <4>2, <4>4
      <4> QED
        BY <4>3, <4>4
    <3>3. CASE ~ (w >= world.base[n])
      BY <1>1, <3>1, <3>3
    <3> QED
      BY <3>1, <3>2, <3>3
  <2>6. O # {} => C # {}
    <3> SUFFICES ASSUME O # {} PROVE C # {}
      OBVIOUS
    <3>1. PICK m \in O : \A k \in O : k <= m
      BY <1>1, Greatest
    <3>2. m >= world.base[n]
      BY <1>1, <3>1 DEF Apt!Offered
    <3>3. ASSUME NEW w \in May PROVE P(m) > P(w) \/ (P(m) = P(w) /\ m >= w)
      <4>1. w \in O /\ w >= world.base[n] /\ m >= w
        BY <1>1, <2>3, <3>1
      <4>2. CASE m \in world.archive[n]
        BY <2>2, <4>1, <4>2
      <4>3. CASE m \notin world.archive[n]
        BY <1>1, <2>4, <3>1, <4>1, <4>3
      <4> QED
        BY <4>2, <4>3
    <3> QED
      BY <1>2, <2>3, <3>2, <3>3
  <2>7. C # {} => O # {}
    BY <2>5
  <2> QED
    BY <2>1, <2>5, <2>6, <2>7, Zenon
<1> QED
  BY <1>4, <1>5

-----------------------------------------------------------------------------
(* All the lines of a name say of its version.                             *)
ClausesOf(ask, n) == UNION {l.clauses : l \in Apt!Wanted(ask, n)}

(* What APT is asked for a name, if it is asked, is what the lines say.    *)
LEMMA AptIsAskedAllClauses ==
  ASSUME NEW ask, NEW n \in DOMAIN Apt!Plan(ask).apt
  PROVE  Apt!Plan(ask).apt[n] = ClausesOf(ask, n)
<1> DEFINE deps == Apt!requests(ask.lines).deps
           named == {l.name : l \in Apt!Range(ask.lines)}
           selected == Apt!selection(ask.family, ask.target, deps, ask.index)
           apt == Apt!split_catalogue(deps, ask.index).apt
<1>1. DOMAIN deps = named /\ \A m \in named : deps[m] = ClausesOf(ask, m)
  BY DEF Apt!requests, ClausesOf, Apt!Wanted
<1>2. Apt!Plan(ask).apt = Apt!effective_requests(deps, selected, ask.index).deps
  BY DEF Apt!Plan
<1>3. apt = named \ ReverseDns
  BY <1>1 DEF Apt!split_catalogue
<1>4. \A m : m \notin named => ClausesOf(ask, m) = {}
  BY DEF ClausesOf, Apt!Wanted
<1> HIDE DEF deps, named, selected, apt
<1>5. CASE ~selected.overlay
  BY <1>1, <1>2, <1>5 DEF Apt!effective_requests
<1>6. CASE selected.overlay
  <2> DEFINE replaced == IF selected.toolchain = Apt!NoToolchain THEN {} ELSE Apt!TOOLCHAIN_REPLACES
  <2>1. /\ Apt!Plan(ask).apt = [m \in (apt \ replaced) \cup Apt!RUNTIME_APT |->
                                  IF m \in apt THEN deps[m] ELSE {}]
    BY <1>2, <1>6 DEF Apt!effective_requests, apt
  <2>2. n \in apt \/ (n \in Apt!RUNTIME_APT /\ n \notin named)
    BY <1>3, <2>1, AptAssumption DEF Apt!NamesApart
  <2> QED
    BY <1>1, <1>3, <1>4, <2>1, <2>2
<1> QED
  BY <1>5, <1>6

LEMMA LinesAreServedOnce ==
  ASSUME NEW ask
  PROVE  Apt!EveryLineServedOnce(ask)
<1> DEFINE plan == Apt!Plan(ask)
           deps == Apt!requests(ask.lines).deps
           named == {l.name : l \in Apt!Range(ask.lines)}
           selected == Apt!selection(ask.family, ask.target, deps, ask.index)
           apt == Apt!split_catalogue(deps, ask.index).apt
           replaced == IF selected.toolchain = Apt!NoToolchain THEN {} ELSE Apt!TOOLCHAIN_REPLACES
           byApt(l) == l.name \in DOMAIN plan.apt /\ l.clauses \subseteq plan.apt[l.name]
           byCatalogue(l) == l.name \in plan.selected.catalogue
           byToolchain(l) == /\ plan.selected.toolchain # Apt!NoToolchain /\ l.clauses = {}
                             /\ l.name \in Apt!TOOLCHAIN_REPLACES /\ l.name \notin DOMAIN plan.apt
           served(l) == <<byApt(l), byCatalogue(l), byToolchain(l)>>
<1> SUFFICES ASSUME plan.ok, NEW l \in Apt!Range(ask.lines)
             PROVE  \E s \in 1..3 : \A other \in 1..3 : served(l)[other] <=> other = s
  BY DEF Apt!EveryLineServedOnce
<1>1. /\ selected.ok /\ Apt!effective_requests(deps, selected, ask.index).ok
      /\ plan.selected = selected
      /\ plan.apt = Apt!effective_requests(deps, selected, ask.index).deps
  BY DEF Apt!Plan
<1>2. /\ l.name \in named /\ DOMAIN deps = named
      /\ l.clauses \subseteq ClausesOf(ask, l.name) /\ deps[l.name] = ClausesOf(ask, l.name)
  BY DEF Apt!requests, ClausesOf, Apt!Wanted
<1>3. /\ apt = named \ ReverseDns /\ named \cap ReverseDns \subseteq ask.index
      /\ selected.catalogue = named \cap ReverseDns
      /\ selected.overlay <=> selected.toolchain # Apt!NoToolchain \/ selected.catalogue # {}
  BY <1>1, <1>2 DEF Apt!split_catalogue, Apt!selection
<1>4. l.name \in DOMAIN plan.apt => byApt(l)
  BY <1>2, AptIsAskedAllClauses
<1>5. ASSUME selected.overlay
      PROVE  /\ DOMAIN plan.apt = (apt \ replaced) \cup Apt!RUNTIME_APT
             /\ \A n \in apt \cap replaced : deps[n] = {}
  BY <1>1, <1>5 DEF Apt!effective_requests
<1>6. ~selected.overlay => DOMAIN plan.apt = named
  BY <1>1, <1>2 DEF Apt!effective_requests
<1>7. ReverseDns \cap (Apt!RUNTIME_APT \cup Apt!TOOLCHAIN_REPLACES) = {}
      /\ Apt!RUNTIME_APT \cap Apt!TOOLCHAIN_REPLACES = {}
  BY AptAssumption DEF Apt!NamesApart, Apt!RUNTIME_APT, Apt!TOOLCHAIN_REPLACES
<1>8. \/ byApt(l) /\ ~byCatalogue(l) /\ ~byToolchain(l)
      \/ ~byApt(l) /\ byCatalogue(l) /\ ~byToolchain(l)
      \/ ~byApt(l) /\ ~byCatalogue(l) /\ byToolchain(l)
  <2> HIDE DEF deps, named, selected, apt, plan
  <2>1. CASE ~selected.overlay
    BY <1>1, <1>2, <1>3, <1>4, <1>6, <2>1
  <2>2. CASE selected.overlay /\ l.name \in ReverseDns
    BY <1>1, <1>2, <1>3, <1>5, <1>7, <2>2
  <2>3. CASE selected.overlay /\ l.name \notin ReverseDns /\ l.name \in replaced
    <3>1. l.name \notin DOMAIN plan.apt /\ l.clauses = {}
      BY <1>2, <1>3, <1>5, <1>7, <2>3
    <3> QED
      BY <1>1, <1>3, <2>3, <3>1
  <2>4. CASE selected.overlay /\ l.name \notin ReverseDns /\ l.name \notin replaced
    BY <1>1, <1>2, <1>3, <1>4, <1>5, <2>4
  <2> QED
    BY <2>1, <2>2, <2>3, <2>4
<1> QED
  <2> HIDE DEF byApt, byCatalogue, byToolchain
  <2>1. ASSUME NEW s \in 1..3, \A other \in 1..3 : served(l)[other] <=> other = s
        PROVE  \E t \in 1..3 : \A other \in 1..3 : served(l)[other] <=> other = t
    BY <2>1
  <2>2. 1..3 = {1, 2, 3}
    OBVIOUS
  <2>3. served(l)[1] = byApt(l) /\ served(l)[2] = byCatalogue(l) /\ served(l)[3] = byToolchain(l)
    OBVIOUS
  <2> HIDE DEF served
  <2> QED
    BY <1>8, <2>2, <2>3

(* Every line of a target is served, and by one source; and the one        *)
(* transaction succeeds exactly when each name has a version all of its    *)
(* lines allow, and installs the greatest such.  Whatever the lines, the   *)
(* catalogue, the mirror and the image, if the mirror offers finitely many *)
(* versions of a name: so that each name asked for has a greatest one.     *)
(* (prepare.py requests, install_script; reference.py selection,           *)
(* effective_requests)                                                     *)
THEOREM EveryRequestServed ==
  ASSUME NEW top \in Nat,
         \A n \in DOMAIN Apt!Plan(sample.ask).apt :
            sample.world.archive[n] \in SUBSET (1..top) /\ sample.world.base[n] \in 0..top
  PROVE  RequestsServed
<1> DEFINE ask == sample.ask
           world == sample.world
           deps == Apt!Plan(ask).apt
           C(n) == Apt!Candidates(world, n, deps[n])
           A(n) == Apt!Allowed(ask, world, n)
           result == Apt!install_script(world, deps)
<1>1. ASSUME NEW n \in DOMAIN deps
      PROVE  A(n) = Meets(world, n, deps[n])
  BY AptIsAskedAllClauses DEF ClausesOf, Meets, Apt!Allowed
<1>2. ASSUME NEW n \in DOMAIN deps
      PROVE  /\ C(n) # {} <=> A(n) # {}
             /\ \A v \in C(n) : v \in A(n) /\ \A w \in A(n) : w <= v
  BY <1>1, CandidateIsGreatest
<1>3. ASSUME NEW n \in DOMAIN deps, C(n) # {}
      PROVE  result.final[n] \in C(n)
  <2>1. result.final[n] = CHOOSE v \in C(n) : TRUE
    BY <1>3 DEF Apt!install_script
  <2> QED
    BY <1>3, <2>1
<1>4. ASSUME NEW n \in DOMAIN deps, NEW v \in A(n), NEW c \in deps[n]
      PROVE  Apt!Compare(v, c.op, c.version)
  BY <1>1 DEF Meets
<1>5. result.ok <=> \A n \in DOMAIN deps :
                       C(n) # {} /\ \A c \in deps[n] : Apt!Compare(result.final[n], c.op, c.version)
  BY DEF Apt!install_script
<1>6. Apt!GreatestAllowedVersion(ask, world)
  <2> HIDE DEF deps, C, A, result
  <2>1. result.ok <=> \A n \in DOMAIN deps : A(n) # {}
    BY <1>2, <1>3, <1>4, <1>5
  <2>2. result.ok => \A n \in DOMAIN deps :
          result.final[n] \in A(n) /\ \A v \in A(n) : v <= result.final[n]
    BY <1>2, <1>3, <1>5
  <2> QED
    BY <2>1, <2>2 DEF Apt!GreatestAllowedVersion, deps, A, result
<1> QED
  BY <1>6, LinesAreServedOnce DEF RequestsServed, Apt!RequestsServed

-----------------------------------------------------------------------------
LEMMA Least ==
  ASSUME NEW S \in SUBSET Nat, S # {}
  PROVE  \E m \in S : \A k \in S : m <= k
<1>1. PICK m \in S : \A k \in S : ~ (<<k, m>> \in OpToRel(<, Nat))
  BY NatLessThanWellFounded, WFMin
<1>2. \A k \in S : ~ (k < m)
  BY <1>1 DEF OpToRel
<1> QED
  BY <1>2

(* What 0 has, and each number passes to the next, all have.               *)
LEMMA Climbs ==
  ASSUME NEW N \in Nat, NEW T, 0 \in T, \A n \in 1..N : n - 1 \in T => n \in T
  PROVE  \A n \in 0..N : n \in T
<1> SUFFICES ASSUME (0..N) \ T # {} PROVE FALSE
  OBVIOUS
<1>1. PICK m \in (0..N) \ T : \A k \in (0..N) \ T : m <= k
  <2>1. (0..N) \ T \in SUBSET Nat
    OBVIOUS
  <2> QED
    BY <2>1, Least
<1> QED
  BY <1>1

(* The library's Max, of which a set of positions has one.                 *)
Highest(S) == CHOOSE x \in S : \A y \in S : x >= y

LEMMA LastPosition ==
  ASSUME NEW N \in Nat, NEW S \in SUBSET (1..N), S # {}
  PROVE  Highest(S) \in S /\ \A i \in S : i <= Highest(S)
<1>1. S \in SUBSET (0..N)
  OBVIOUS
<1>2. PICK m \in S : \A k \in S : k <= m
  BY <1>1, Greatest
<1>3. Highest(S) \in S /\ \A k \in S : Highest(S) >= k
  <2>1. \A k \in S : m >= k
    BY <1>2
  <2> QED
    BY <2>1 DEF Highest
<1> QED
  BY <1>3

(* A fold over positions 1..N: a step is a function of the value so far and*)
(* of the position.                                                        *)
Steps(N, A) == [A \X (1..N) -> A]

(* The library's recursion over sets of positions, last position first.    *)
Recurs(h, N, A, base, move) ==
  /\ h[{}] = base
  /\ \A s \in SUBSET (1..N) :
       s # {} /\ h[s \ {Highest(s)}] \in A => h[s] = move[<<h[s \ {Highest(s)}], Highest(s)>>]

(* The values it goes through, first to last.                              *)
IsRun(g, N, A, base, move) ==
  /\ g \in [0..N -> A] /\ g[0] = base
  /\ \A n \in 1..N : g[n] = move[<<g[n - 1], n>>]

LEMMA FoldExists ==
  ASSUME NEW N \in Nat, NEW A, NEW base \in A, NEW move \in Steps(N, A)
  PROVE  \E h : h \in [SUBSET (1..N) -> A] /\ Recurs(h, N, A, base, move)
<1> DEFINE Good(n, h) == \A s \in SUBSET (1..n) :
                           h[s] = IF s = {} THEN base ELSE move[<<h[s \ {Highest(s)}], Highest(s)>>]
           T == {n \in 0..N : \E h \in [SUBSET (1..n) -> A] : Good(n, h)}
<1>1. 0 \in T
  <2> DEFINE h == [s \in SUBSET (1..0) |-> base]
  <2>1. h \in [SUBSET (1..0) -> A] /\ Good(0, h)
    <3>1. \A s \in SUBSET (1..0) : s = {}
      OBVIOUS
    <3> QED
      BY <3>1
  <2> HIDE DEF h, Good
  <2>2. \E x \in [SUBSET (1..0) -> A] : Good(0, x)
    BY <2>1
  <2>3. 0 \in 0..N
    OBVIOUS
  <2> QED
    BY <2>2, <2>3, Zenon
<1>2. ASSUME NEW n \in 1..N, n - 1 \in T
      PROVE  n \in T
  <2> DEFINE m == n - 1
  <2>1. PICK h \in [SUBSET (1..m) -> A] : Good(m, h)
    BY <1>2
  <2> DEFINE g == [s \in SUBSET (1..n) |-> IF n \in s THEN move[<<h[s \ {n}], n>>] ELSE h[s]]
  <2>2. ASSUME NEW s \in SUBSET (1..n)
        PROVE  s \ {n} \in SUBSET (1..m) /\ (n \notin s => s \in SUBSET (1..m))
    OBVIOUS
  <2>3. g \in [SUBSET (1..n) -> A]
    <3> SUFFICES ASSUME NEW s \in SUBSET (1..n)
                 PROVE  (IF n \in s THEN move[<<h[s \ {n}], n>>] ELSE h[s]) \in A
      OBVIOUS
    <3>1. n \in s => <<h[s \ {n}], n>> \in A \X (1..N)
      BY <2>2
    <3> QED
      BY <2>2, <3>1 DEF Steps
  <2>4. ASSUME NEW s \in SUBSET (1..m)
        PROVE  g[s] = h[s]
    <3>1. n \notin s /\ s \in SUBSET (1..n)
      OBVIOUS
    <3> QED
      BY <3>1
  <2>5. ASSUME NEW s \in SUBSET (1..n)
        PROVE  g[s] = IF s = {} THEN base ELSE move[<<g[s \ {Highest(s)}], Highest(s)>>]
    <3>1. CASE n \in s
      <4>1. Highest(s) = n
        <5>1. Highest(s) \in s /\ n <= Highest(s) /\ Highest(s) \in 1..n
          <6>1. n \in Nat /\ s # {}
            BY <3>1
          <6>2. Highest(s) \in s /\ \A i \in s : i <= Highest(s)
            BY <6>1, LastPosition
          <6> QED
            BY <3>1, <6>2
        <5> QED
          BY <5>1
      <4>2. g[s \ {n}] = h[s \ {n}]
        BY <2>2, <2>4
      <4>3. g[s] = move[<<h[s \ {n}], n>>]
        BY <3>1
      <4> HIDE DEF g
      <4> QED
        BY <3>1, <4>1, <4>2, <4>3
    <3>2. CASE n \notin s
      <4>1. s \in SUBSET (1..m)
        BY <2>2, <3>2
      <4>2. s \ {Highest(s)} \in SUBSET (1..m)
        BY <4>1
      <4>3. g[s] = h[s] /\ g[s \ {Highest(s)}] = h[s \ {Highest(s)}]
        BY <2>4, <4>1, <4>2
      <4> HIDE DEF g
      <4> QED
        BY <2>1, <4>1, <4>3
    <3> QED
      BY <3>1, <3>2
  <2>6. Good(n, g)
    BY <2>5
  <2> HIDE DEF g, Good
  <2> QED
    BY <2>3, <2>6
<1>3. N \in T
  <2> HIDE DEF T
  <2> QED
    BY <1>1, <1>2, Climbs
<1>4. PICK h \in [SUBSET (1..N) -> A] : Good(N, h)
  BY <1>3
<1>5. Recurs(h, N, A, base, move)
  BY <1>4 DEF Recurs
<1> QED
  BY <1>5

(* A fold is the last of its values, each of them one step from the one    *)
(* before.                                                                 *)
LEMMA FoldIs ==
  ASSUME NEW N \in Nat, NEW A, NEW base \in A, NEW move \in Steps(N, A),
         NEW iter, Recurs(iter, N, A, base, move)
  PROVE  \E g : IsRun(g, N, A, base, move) /\ g[N] = iter[1..N]
<1> DEFINE T == {n \in 0..N : iter[1..n] \in A}
           g == [n \in 0..N |-> iter[1..n]]
<1>1. ASSUME NEW n \in 1..N
      PROVE  /\ 1..n \in SUBSET (1..N) /\ 1..n # {} /\ Highest(1..n) = n
             /\ (1..n) \ {Highest(1..n)} = 1..(n - 1)
  <2>1. 1..n \in SUBSET (1..N) /\ 1..n # {} /\ n \in 1..n
    OBVIOUS
  <2>2. Highest(1..n) \in 1..n /\ n <= Highest(1..n)
    BY <2>1, LastPosition
  <2>3. Highest(1..n) = n
    BY <2>2
  <2>4. (1..n) \ {n} = 1..(n - 1)
    OBVIOUS
  <2> QED
    BY <2>1, <2>3, <2>4
<1>2. 0 \in T
  <2>1. 1..0 = {}
    OBVIOUS
  <2> QED
    BY <2>1 DEF Recurs
<1>3. ASSUME NEW n \in 1..N, n - 1 \in T
      PROVE  n \in T
  <2>1. iter[1..n] = move[<<iter[1..(n - 1)], n>>] /\ iter[1..(n - 1)] \in A
    BY <1>1, <1>3 DEF Recurs
  <2> QED
    BY <2>1 DEF Steps
<1>4. \A n \in 0..N : iter[1..n] \in A
  <2>1. \A n \in 0..N : n \in T
    <3> HIDE DEF T
    <3> QED
      BY <1>2, <1>3, Climbs
  <2> QED
    BY <2>1
<1>5. g \in [0..N -> A]
  BY <1>4
<1>6. g[0] = base /\ g[N] = iter[1..N]
  <2>1. 1..0 = {}
    OBVIOUS
  <2> QED
    BY <2>1 DEF Recurs
<1>7. ASSUME NEW n \in 1..N
      PROVE  g[n] = move[<<g[n - 1], n>>]
  <2>1. n - 1 \in 0..N /\ n \in 0..N
    OBVIOUS
  <2>2. iter[1..n] = move[<<iter[1..(n - 1)], n>>]
    BY <1>1, <1>4, <2>1 DEF Recurs
  <2> QED
    BY <2>1, <2>2
<1> HIDE DEF g
<1> QED
  BY <1>5, <1>6, <1>7 DEF IsRun

-----------------------------------------------------------------------------
Walk == [ok : BOOLEAN, offset : Nat, containers : Nat, patches : Nat, here : Nat, read : Nat]
Blob == Seq(0..(Radix - 1))

LEMMA U32Typed ==
  ASSUME NEW data \in Blob, NEW o \in Nat
  PROVE  Ucode!u32(data, o) \in Nat
<1>1. \A i \in Nat : Ucode!ByteAt(data, i) \in Nat
  BY RadixAssumption DEF Ucode!ByteAt, Blob
<1>2. \A i \in Nat : Radix * i \in Nat
  BY RadixAssumption
<1>3. o + 1 \in Nat /\ o + 2 \in Nat /\ o + 3 \in Nat
  OBVIOUS
<1> DEFINE b0 == Ucode!ByteAt(data, o)
           b1 == Ucode!ByteAt(data, o + 1)
           b2 == Ucode!ByteAt(data, o + 2)
           b3 == Ucode!ByteAt(data, o + 3)
<1>4. b0 \in Nat /\ b1 \in Nat /\ b2 \in Nat /\ b3 \in Nat
  BY <1>1, <1>3
<1>5. Ucode!u32(data, o) = b0 + Radix * (b1 + Radix * (b2 + Radix * b3))
  BY DEF Ucode!u32
<1> HIDE DEF b0, b1, b2, b3
<1>6. b2 + Radix * b3 \in Nat
  BY <1>2, <1>4
<1>7. b1 + Radix * (b2 + Radix * b3) \in Nat
  BY <1>2, <1>4, <1>6
<1> QED
  BY <1>2, <1>4, <1>5, <1>7

(* The two sections an accepted file is made of, and their sizes.          *)
HeadSize(data, o) == 12 + Ucode!u32(data, o + 8)
BodySize(data, o) == 8 + Ucode!u32(data, o + 4)

HeadAt(data, o) ==
  /\ Ucode!MagicAt(data, o) /\ o + 12 <= Len(data)
  /\ Ucode!u32(data, o + 4) = 0 /\ Ucode!u32(data, o + 8) % 16 = 0
  /\ o + HeadSize(data, o) <= Len(data)

BodyAt(data, o) ==
  /\ ~Ucode!MagicAt(data, o) /\ o + 8 <= Len(data)
  /\ Ucode!u32(data, o) = 1 /\ Ucode!u32(data, o + 4) >= 64
  /\ o + BodySize(data, o) <= Len(data)
  /\ Ucode!u32(data, o + 12) # 0 /\ Ucode!u32(data, o + 24) = 0 /\ Ucode!u32(data, o + 28) = 0

Opens(data, s) == HeadAt(data, s.offset) /\ (s.containers = 0 \/ s.here > 0)
Continues(data, s) == BodyAt(data, s.offset) /\ s.containers > 0

LEMMA HeaderOf ==
  ASSUME NEW data \in Blob, NEW s \in Walk, s.ok, s.offset < Len(data),
         NEW t, t = Ucode!ContainerHeader(data, s)
  PROVE  /\ t \in Walk
         /\ s.read <= Len(data) => t.read <= Len(data)
         /\ t.ok <=> HeadAt(data, s.offset) /\ ~ (s.containers > 0 /\ s.here = 0)
         /\ t.ok => /\ t.offset = s.offset + HeadSize(data, s.offset)
                    /\ t.containers = s.containers + 1 /\ t.patches = s.patches /\ t.here = 0
<1> DEFINE o == s.offset
           kind == Ucode!u32(data, o + 4)
           size == Ucode!u32(data, o + 8)
           read == Ucode!Reading(s, o + 12)
           bad == (s.containers > 0 /\ s.here = 0) \/ Len(data) - o < 12 \/ ~Ucode!MagicAt(data, o)
<1>1. /\ o \in Nat /\ o + 4 \in Nat /\ o + 8 \in Nat /\ Len(data) \in Nat
      /\ s.containers \in Nat /\ s.patches \in Nat /\ s.here \in Nat /\ s.read \in Nat
  BY DEF Walk, Blob
<1>2. kind \in Nat /\ size \in Nat
  BY <1>1, U32Typed
<1>3. bad => t = [s EXCEPT !.ok = FALSE]
  BY DEF Ucode!ContainerHeader, Ucode!Fail, Ucode!CONTAINER_HEADER_SIZE
<1>4. ~bad => t = [read EXCEPT !.ok = kind = 0 /\ size % 16 = 0 /\ size <= (Len(data) - o) - 12,
                               !.offset = @ + 12 + size, !.containers = @ + 1, !.here = 0]
  BY DEF Ucode!ContainerHeader, Ucode!CONTAINER_HEADER_SIZE, Ucode!EQUIV_TABLE_TYPE,
         Ucode!EQUIV_ENTRY_SIZE
<1>5. read = [s EXCEPT !.read = IF o + 12 > @ THEN o + 12 ELSE @]
  BY DEF Ucode!Reading
<1>6. HeadAt(data, o) <=> /\ Ucode!MagicAt(data, o) /\ o + 12 <= Len(data)
                        /\ kind = 0 /\ size % 16 = 0 /\ o + (12 + size) <= Len(data)
  BY DEF HeadAt, HeadSize
<1>7. HeadSize(data, s.offset) = 12 + size
  BY DEF HeadSize
<1> HIDE DEF kind, size
<1>8. CASE bad
  <2>1. t \in Walk /\ t.read = s.read /\ ~t.ok
    BY <1>3, <1>8 DEF Walk
  <2>2. ~ (HeadAt(data, o) /\ ~ (s.containers > 0 /\ s.here = 0))
    BY <1>1, <1>6, <1>8
  <2> QED
    BY <1>1, <2>1, <2>2
<1>9. CASE ~bad
  <2> DEFINE fits == kind = 0 /\ size % 16 = 0 /\ size <= (Len(data) - o) - 12
             far == IF o + 12 > s.read THEN o + 12 ELSE s.read
  <2>1. HeadAt(data, o) <=> fits
    <3>1. size <= (Len(data) - o) - 12 <=> o + (12 + size) <= Len(data)
      <4>1. \A i, j, l \in Nat : j <= (l - i) - 12 <=> i + (12 + j) <= l
        OBVIOUS
      <4>2. o \in Nat /\ size \in Nat /\ Len(data) \in Nat
        BY <1>1, <1>2
      <4> HIDE DEF o
      <4> QED
        BY <4>1, <4>2
    <3>2. size <= (Len(data) - o) - 12 => o + 12 <= Len(data)
      <4>1. \A i, j, l \in Nat : j <= (l - i) - 12 => i + 12 <= l
        OBVIOUS
      <4>2. o \in Nat /\ size \in Nat /\ Len(data) \in Nat
        BY <1>1, <1>2
      <4> HIDE DEF o
      <4> QED
        BY <4>1, <4>2
    <3> QED
      BY <1>6, <1>9, <3>1, <3>2
  <2>2. fits \in BOOLEAN /\ far \in Nat /\ (s.read <= Len(data) => far <= Len(data))
    BY <1>1, <1>9
  <2>3. t = [read EXCEPT !.ok = fits, !.offset = @ + 12 + size, !.containers = @ + 1, !.here = 0]
    BY <1>4, <1>9
  <2>4. read = [s EXCEPT !.read = far]
    BY <1>5
  <2> HIDE DEF fits, far, read
  <2>7. read = [ok |-> s.ok, offset |-> o, containers |-> s.containers, patches |-> s.patches,
                here |-> s.here, read |-> far]
    BY <2>4 DEF Walk
  <2>8. t = [ok |-> fits, offset |-> o + 12 + size, containers |-> s.containers + 1,
             patches |-> s.patches, here |-> 0, read |-> far]
    BY <2>3, <2>7
  <2>9. o + 12 + size \in Nat /\ s.containers + 1 \in Nat
    <3>1. \A i, j \in Nat : i + 12 + j \in Nat /\ i + 1 \in Nat
      OBVIOUS
    <3> QED
      BY <1>1, <1>2, <3>1
  <2>5. /\ t \in Walk /\ t.ok = fits /\ t.offset = o + 12 + size /\ t.containers = s.containers + 1
        /\ t.patches = s.patches /\ t.here = 0 /\ t.read = far
    BY <1>1, <2>2, <2>8, <2>9 DEF Walk
  <2>6. t.offset = o + (12 + size)
    <3>1. \A i, j \in Nat : i + 12 + j = i + (12 + j)
      OBVIOUS
    <3>2. o \in Nat /\ size \in Nat
      BY <1>1, <1>2
    <3>3. o + 12 + size = o + (12 + size)
      BY <3>1, <3>2
    <3>4. t.offset = o + 12 + size
      BY <2>5
    <3> HIDE DEF o
    <3> QED
      BY <3>3, <3>4
  <2> QED
    BY <1>7, <1>9, <2>1, <2>2, <2>5, <2>6
<1> QED
  BY <1>8, <1>9

LEMMA PatchOf ==
  ASSUME NEW data \in Blob, NEW s \in Walk, s.ok, s.offset < Len(data),
         ~Ucode!MagicAt(data, s.offset),
         NEW t, t = Ucode!Patch(data, s)
  PROVE  /\ t \in Walk
         /\ s.read <= Len(data) => t.read <= Len(data)
         /\ t.ok <=> BodyAt(data, s.offset)
         /\ t.ok => /\ t.offset = s.offset + BodySize(data, s.offset)
                    /\ t.containers = s.containers /\ t.patches = s.patches + 1
                    /\ t.here = s.here + 1
<1> DEFINE o == s.offset
           kind == Ucode!u32(data, o)
           size == Ucode!u32(data, o + 4)
           short == Len(data) - o < 8
           bad == kind # 1 \/ size < 64 \/ size > (Len(data) - o) - 8
           good == /\ Ucode!u32(data, o + 8 + 4) # 0
                   /\ Ucode!u32(data, o + 8 + 16) = 0 /\ Ucode!u32(data, o + 8 + 20) = 0
<1>1. /\ o \in Nat /\ o + 4 \in Nat /\ Len(data) \in Nat
      /\ s.containers \in Nat /\ s.patches \in Nat /\ s.here \in Nat /\ s.read \in Nat
  BY DEF Walk, Blob
<1>2. kind \in Nat /\ size \in Nat
  BY <1>1, U32Typed
<1>3. BodyAt(data, o) <=> /\ o + 8 <= Len(data) /\ kind = 1 /\ size >= 64
                        /\ o + (8 + size) <= Len(data) /\ good
  <2>1. o + 8 + 4 = o + 12 /\ o + 8 + 16 = o + 24 /\ o + 8 + 20 = o + 28
    BY <1>1
  <2> QED
    BY <2>1 DEF BodyAt, BodySize
<1>4. BodySize(data, s.offset) = 8 + size
  BY DEF BodySize
<1>5. short => t = Ucode!Fail(s)
  BY <1>1 DEF Ucode!Patch, Ucode!PATCH_SECTION_HEADER_SIZE
<1>6. ~short /\ bad => t = Ucode!Fail(Ucode!Reading(s, o + 8))
  BY <1>1 DEF Ucode!Patch, Ucode!PATCH_SECTION_HEADER_SIZE,
         Ucode!PATCH_SECTION_TYPE, Ucode!PATCH_HEADER_SIZE
<1>7. ~short /\ ~bad => t = [Ucode!Reading(s, o + 8 + 24) EXCEPT
                              !.ok = good, !.offset = @ + 8 + size,
                              !.here = @ + 1, !.patches = @ + 1]
  BY <1>1 DEF Ucode!Patch, Ucode!PATCH_SECTION_HEADER_SIZE,
         Ucode!PATCH_SECTION_TYPE, Ucode!PATCH_HEADER_SIZE
<1>8. good \in BOOLEAN
  OBVIOUS
<1> HIDE DEF kind, size, good
<1>9. CASE short
  <2>1. t \in Walk /\ t.read = s.read /\ ~t.ok
    BY <1>5, <1>9 DEF Walk, Ucode!Fail
  <2> QED
    BY <1>1, <1>3, <1>9, <2>1
<1>10. CASE ~short /\ bad
  <2> DEFINE far == IF o + 8 > s.read THEN o + 8 ELSE s.read
  <2>1. t = [[s EXCEPT !.read = far] EXCEPT !.ok = FALSE]
    BY <1>6, <1>10 DEF Ucode!Fail, Ucode!Reading
  <2>2. far \in Nat /\ (s.read <= Len(data) => far <= Len(data))
    BY <1>1, <1>10
  <2> HIDE DEF far
  <2>3. t \in Walk /\ t.read = far /\ ~t.ok
    BY <2>1, <2>2 DEF Walk
  <2> QED
    BY <1>1, <1>2, <1>3, <1>10, <2>2, <2>3
<1>11. CASE ~short /\ ~bad
  <2> DEFINE far == IF o + 8 + 24 > s.read THEN o + 8 + 24 ELSE s.read
  <2>1. t = [[s EXCEPT !.read = far] EXCEPT !.ok = good, !.offset = @ + 8 + size,
                                            !.here = @ + 1, !.patches = @ + 1]
    BY <1>7, <1>11 DEF Ucode!Reading
  <2>2. far \in Nat /\ (s.read <= Len(data) => far <= Len(data))
    <3>1. size >= 64 /\ size <= (Len(data) - o) - 8
      BY <1>1, <1>2, <1>11
    <3>2. \A i, j, l \in Nat : j >= 64 /\ j <= (l - i) - 8
                               => i + 8 + 24 \in Nat /\ i + 8 + 24 <= l
      OBVIOUS
    <3>3. o + 8 + 24 \in Nat /\ o + 8 + 24 <= Len(data)
      BY <1>1, <1>2, <3>1, <3>2
    <3> QED
      BY <1>1, <3>3
  <2> HIDE DEF far
  <2>3. /\ t \in Walk /\ t.ok = good /\ t.offset = o + 8 + size /\ t.containers = s.containers
        /\ t.patches = s.patches + 1 /\ t.here = s.here + 1 /\ t.read = far
    <3>1. s = [ok |-> s.ok, offset |-> o, containers |-> s.containers, patches |-> s.patches,
               here |-> s.here, read |-> s.read]
      BY DEF Walk
    <3>2. PICK r : r = [s EXCEPT !.read = far]
      OBVIOUS
    <3>5. r = [ok |-> s.ok, offset |-> o, containers |-> s.containers,
               patches |-> s.patches, here |-> s.here, read |-> far]
      BY <3>2 DEF Walk
    <3>3. t = [ok |-> good, offset |-> o + 8 + size, containers |-> s.containers,
               patches |-> s.patches + 1, here |-> s.here + 1, read |-> far]
      BY <2>1, <3>2, <3>5
    <3>4. o + 8 + size \in Nat /\ s.patches + 1 \in Nat /\ s.here + 1 \in Nat
      <4>1. \A i, j \in Nat : i + 8 + j \in Nat /\ i + 1 \in Nat
        OBVIOUS
      <4> QED
        BY <1>1, <1>2, <4>1
    <3> QED
      BY <1>1, <1>8, <2>2, <3>3, <3>4 DEF Walk
  <2>4. t.offset = o + (8 + size)
    <3>1. \A i, j \in Nat : i + 8 + j = i + (8 + j)
      OBVIOUS
    <3> QED
      BY <1>1, <1>2, <2>3, <3>1
  <2>5. BodyAt(data, o) <=> good
    BY <1>1, <1>2, <1>3, <1>11
  <2> QED
    BY <1>4, <2>2, <2>3, <2>4, <2>5
<1> QED
  BY <1>9, <1>10, <1>11

(* One section.                                                            *)
LEMMA SectionOf ==
  ASSUME NEW data \in Blob, NEW s \in Walk, NEW t, t = Ucode!Section(data, s)
  PROVE  /\ t \in Walk
         /\ ~s.ok \/ s.offset >= Len(data) => t = s
         /\ s.read <= Len(data) => t.read <= Len(data)
         /\ s.ok /\ s.offset < Len(data) =>
              /\ t.ok <=> Opens(data, s) \/ Continues(data, s)
              /\ Opens(data, s) =>
                   /\ t.offset = s.offset + HeadSize(data, s.offset)
                   /\ t.containers = s.containers + 1 /\ t.patches = s.patches /\ t.here = 0
              /\ Continues(data, s) =>
                   /\ t.offset = s.offset + BodySize(data, s.offset)
                   /\ t.containers = s.containers /\ t.patches = s.patches + 1
                   /\ t.here = s.here + 1
<1>1. s.offset \in Nat /\ Len(data) \in Nat /\ s.containers \in Nat /\ s.here \in Nat /\ s.read \in Nat
  BY DEF Walk, Blob
<1>2. CASE ~s.ok \/ s.offset >= Len(data)
  BY <1>1, <1>2 DEF Ucode!Section
<1>3. CASE s.ok /\ s.offset < Len(data) /\ (s.containers = 0 \/ Ucode!MagicAt(data, s.offset))
  <2>1. t = Ucode!ContainerHeader(data, s)
    BY <1>1, <1>3 DEF Ucode!Section
  <2>2. Opens(data, s) <=> HeadAt(data, s.offset) /\ ~ (s.containers > 0 /\ s.here = 0)
    BY <1>1 DEF Opens
  <2>3. ~Continues(data, s)
    BY <1>1, <1>3 DEF Continues, BodyAt
  <2> QED
    BY <1>1, <1>3, <2>1, <2>2, <2>3, HeaderOf
<1>4. CASE s.ok /\ s.offset < Len(data) /\ ~ (s.containers = 0 \/ Ucode!MagicAt(data, s.offset))
  <2>1. t = Ucode!Patch(data, s)
    BY <1>1, <1>4 DEF Ucode!Section
  <2>2. ~Opens(data, s) /\ (Continues(data, s) <=> BodyAt(data, s.offset))
    BY <1>1, <1>4 DEF Opens, Continues, HeadAt
  <2> QED
    BY <1>1, <1>4, <2>1, <2>2, PatchOf
<1> QED
  BY <1>1, <1>2, <1>3, <1>4

-----------------------------------------------------------------------------
(* The walk of a file: the values parse_container_file goes through.       *)
Bound(data) == Len(data) \div 8 + 1

Walks(g, data) ==
  /\ g \in [0..Bound(data) -> Walk] /\ g[0] = Ucode!Start
  /\ \A n \in 1..Bound(data) : g[n] = Ucode!Section(data, g[n - 1])

LEMMA ParseIs ==
  ASSUME NEW data \in Blob
  PROVE  /\ Bound(data) \in Nat /\ Len(data) < 8 * Bound(data)
         /\ \E g : /\ Walks(g, data)
                   /\ Ucode!parse_container_file(data)
                        = [g[Bound(data)] EXCEPT !.ok = @ /\ data # <<>> /\ g[Bound(data)].here > 0]
<1> DEFINE N == Bound(data)
           move == [x \in Walk \X (1..N) |-> Ucode!Section(data, x[1])]
           Folds(iter) ==
             iter = [s \in SUBSET (1..N) |->
                       IF s = {} THEN Ucode!Start ELSE Ucode!Section(data, iter[s \ {Highest(s)}])]
           it == CHOOSE iter : Folds(iter)
<1>1. N \in Nat /\ Len(data) < 8 * N
  <2>1. Len(data) \in Nat
    BY DEF Blob
  <2> QED
    BY <2>1 DEF Bound
<1>2. Ucode!Start \in Walk
  BY DEF Ucode!Start, Walk
<1>3. move \in Steps(N, Walk)
  BY SectionOf DEF Steps
<1>4. \A x \in Walk, n \in 1..N : move[<<x, n>>] = Ucode!Section(data, x)
  OBVIOUS
<1>5. Ucode!parse_container_file(data)
        = [it[1..N] EXCEPT !.ok = @ /\ data # <<>> /\ it[1..N].here > 0]
  BY DEF Ucode!parse_container_file, Ucode!FoldLeft, Ucode!MapThenFoldSet, Ucode!Max, Highest,
         Ucode!PATCH_SECTION_HEADER_SIZE, Bound
<1> HIDE DEF move, N
<1>6. \A s \in SUBSET (1..N) : s # {} => Highest(s) \in 1..N /\ s \ {Highest(s)} \in SUBSET (1..N)
  BY <1>1, LastPosition
<1>7. Folds(it)
  <2>1. PICK h : h \in [SUBSET (1..N) -> Walk] /\ Recurs(h, N, Walk, Ucode!Start, move)
    BY <1>1, <1>2, <1>3, FoldExists
  <2>2. \A s \in SUBSET (1..N) :
          h[s] = IF s = {} THEN Ucode!Start ELSE Ucode!Section(data, h[s \ {Highest(s)}])
    BY <1>4, <1>6, <2>1 DEF Recurs
  <2>3. Folds(h)
    BY <2>1, <2>2
  <2> HIDE DEF Folds
  <2> QED
    BY <2>3
<1> HIDE DEF it
<1>8. Recurs(it, N, Walk, Ucode!Start, move)
  BY <1>4, <1>6, <1>7 DEF Recurs
<1>9. PICK g : IsRun(g, N, Walk, Ucode!Start, move) /\ g[N] = it[1..N]
  BY <1>1, <1>2, <1>3, <1>8, FoldIs
<1>10. ASSUME NEW n \in 1..N
       PROVE  g[n] = Ucode!Section(data, g[n - 1])
  <2>1. n - 1 \in 0..N
    BY <1>1
  <2> QED
    BY <1>4, <1>9, <2>1 DEF IsRun
<1>11. Walks(g, data)
  BY <1>9, <1>10 DEF Walks, N, IsRun
<1> QED
  BY <1>1, <1>5, <1>9, <1>11 DEF N

(* It stays inside; a walk that is well so far is at the end of the file   *)
(* or has come at least a header's length for each section; and what ends  *)
(* well was well all along.                                                *)
Inside(data, s) == s.read <= Len(data) /\ (s.ok => s.offset <= Len(data))
Forward(data, s, n) == s.ok /\ s.offset < Len(data) => s.offset >= 8 * n

LEMMA StaysInside ==
  ASSUME NEW data \in Blob, NEW g, Walks(g, data)
  PROVE  \A n \in 0..Bound(data) : Inside(data, g[n]) /\ Forward(data, g[n], n)
<1> DEFINE N == Bound(data)
           T == {n \in 0..N : Inside(data, g[n]) /\ Forward(data, g[n], n)}
<1>1. N \in Nat /\ Len(data) \in Nat
  BY ParseIs DEF Blob
<1> HIDE DEF N
<1>2. g \in [0..N -> Walk] /\ g[0] = Ucode!Start /\ \A n \in 1..N : g[n] = Ucode!Section(data, g[n - 1])
  BY DEF Walks, N
<1>3. 0 \in T
  BY <1>1, <1>2 DEF Inside, Forward, Ucode!Start
<1>4. ASSUME NEW n \in 1..N, n - 1 \in T
      PROVE  n \in T
  <2>1. n - 1 \in 0..N /\ n \in 0..N /\ 8 * n = 8 * (n - 1) + 8
    BY <1>1
  <2>2. PICK s \in Walk : s = g[n - 1]
    BY <1>2, <2>1
  <2>3. PICK t \in Walk : t = g[n]
    BY <1>2, <2>1
  <2>4. t = Ucode!Section(data, s)
    BY <1>2, <2>2, <2>3
  <2>5. Inside(data, s) /\ Forward(data, s, n - 1)
    BY <1>4, <2>2
  <2>6. /\ s.offset \in Nat /\ t.offset \in Nat /\ s.offset + 4 \in Nat /\ s.offset + 8 \in Nat
    BY DEF Walk
  <2>7. CASE ~s.ok \/ s.offset >= Len(data)
    <3>1. t = s
      BY <2>4, <2>7, SectionOf
    <3>2. Inside(data, t) /\ Forward(data, t, n)
      BY <1>1, <2>5, <2>6, <2>7, <3>1 DEF Inside, Forward
    <3> QED
      BY <2>1, <2>3, <3>2
  <2>8. CASE s.ok /\ s.offset < Len(data) /\ ~t.ok
    <3>1. t.read <= Len(data)
      BY <2>4, <2>5, SectionOf DEF Inside
    <3> QED
      BY <2>1, <2>3, <2>8, <3>1 DEF Inside, Forward
  <2>9. CASE s.ok /\ s.offset < Len(data) /\ t.ok
    <3>1. t.read <= Len(data) /\ s.offset >= 8 * (n - 1)
      BY <2>4, <2>5, <2>9, SectionOf DEF Inside, Forward
    <3>2. Opens(data, s) \/ Continues(data, s)
      BY <2>4, <2>9, SectionOf
    <3>3. t.offset <= Len(data) /\ t.offset >= s.offset + 8
      <4>1. CASE Opens(data, s)
        <5>1. t.offset = s.offset + HeadSize(data, s.offset)
          BY <2>4, <2>9, <4>1, SectionOf
        <5>2. s.offset + HeadSize(data, s.offset) <= Len(data)
          BY <4>1 DEF Opens, HeadAt
        <5>3. HeadSize(data, s.offset) >= 8 /\ HeadSize(data, s.offset) \in Nat
          BY <2>6, U32Typed DEF HeadSize
        <5> QED
          BY <2>6, <5>1, <5>2, <5>3
      <4>2. CASE Continues(data, s)
        <5>1. t.offset = s.offset + BodySize(data, s.offset)
          BY <2>4, <2>9, <4>2, SectionOf
        <5>2. s.offset + BodySize(data, s.offset) <= Len(data)
          BY <4>2 DEF Continues, BodyAt
        <5>3. BodySize(data, s.offset) >= 8 /\ BodySize(data, s.offset) \in Nat
          BY <2>6, U32Typed DEF BodySize
        <5> QED
          BY <2>6, <5>1, <5>2, <5>3
      <4> QED
        BY <3>2, <4>1, <4>2
    <3>4. t.offset >= 8 * n
      <4>1. 8 * (n - 1) \in Int /\ 8 * n \in Int
        BY <1>1
      <4> QED
        BY <2>1, <2>6, <3>1, <3>3, <4>1
    <3> QED
      BY <2>1, <2>3, <3>1, <3>3, <3>4 DEF Inside, Forward
  <2>10. s.offset < Len(data) \/ s.offset >= Len(data)
    BY <1>1, <2>6
  <2> QED
    BY <2>7, <2>8, <2>9, <2>10
<1>5. \A n \in 0..N : n \in T
  <2> HIDE DEF T
  <2> QED
    BY <1>1, <1>3, <1>4, Climbs
<1> QED
  BY <1>5 DEF N

(* A walk that has ended, or failed, is over.                              *)
LEMMA EndsThere ==
  ASSUME NEW data \in Blob, NEW g, Walks(g, data), NEW k \in 0..Bound(data),
         ~g[k].ok \/ g[k].offset >= Len(data)
  PROVE  g[Bound(data)] = g[k]
<1> DEFINE N == Bound(data)
           T == {n \in 0..N : n >= k => g[n] = g[k]}
<1>1. N \in Nat
  BY ParseIs
<1> HIDE DEF N
<1>2. g \in [0..N -> Walk] /\ \A n \in 1..N : g[n] = Ucode!Section(data, g[n - 1])
  BY DEF Walks, N
<1>3. 0 \in T
  BY <1>1 DEF N
<1>4. ASSUME NEW n \in 1..N, n - 1 \in T
      PROVE  n \in T
  <2>1. n - 1 \in 0..N /\ n \in 0..N /\ k \in 0..N
    BY <1>1 DEF N
  <2>2. CASE n - 1 >= k
    <3>1. g[n - 1] = g[k] /\ g[k] \in Walk /\ g[n] = Ucode!Section(data, g[n - 1])
      BY <1>2, <1>4, <2>1, <2>2
    <3>2. Ucode!Section(data, g[k]) = g[k]
      BY <3>1, SectionOf
    <3> QED
      BY <2>1, <3>1, <3>2
  <2>3. CASE n - 1 < k
    <3>1. n >= k => n = k
      BY <1>1, <2>1, <2>3
    <3> QED
      BY <2>1, <3>1
  <2>4. n - 1 >= k \/ n - 1 < k
    <3>1. n \in Int /\ k \in Int
      BY <1>1, <2>1
    <3> QED
      BY <3>1
  <2> HIDE DEF T
  <2> QED
    BY <2>2, <2>3, <2>4
<1>5. \A n \in 0..N : n \in T
  <2> HIDE DEF T
  <2> QED
    BY <1>1, <1>3, <1>4, Climbs
<1>6. N \in 0..N /\ N >= k
  BY <1>1 DEF N
<1> QED
  BY <1>5, <1>6 DEF N

LEMMA EndsWell ==
  ASSUME NEW data \in Blob, NEW g, Walks(g, data)
  PROVE  /\ g[Bound(data)] \in Walk /\ g[Bound(data)].read <= Len(data)
         /\ g[Bound(data)].ok => /\ g[Bound(data)].offset = Len(data)
                                 /\ \A n \in 0..Bound(data) : g[n].ok /\ g[n].offset <= Len(data)
<1> DEFINE N == Bound(data)
<1>1. N \in Nat /\ N \in 0..N /\ Len(data) \in Nat /\ Len(data) < 8 * N
  BY ParseIs DEF Blob
<1>2. g[N] \in Walk /\ g[N].offset \in Nat
  BY <1>1 DEF Walks, Walk
<1>3. Inside(data, g[N]) /\ Forward(data, g[N], N)
  BY <1>1, StaysInside
<1>4. g[N].ok => g[N].offset = Len(data)
  <2> HIDE DEF N
  <2> QED
    BY <1>1, <1>2, <1>3 DEF Inside, Forward
<1>5. ASSUME g[N].ok, NEW n \in 0..N
      PROVE  g[n].ok /\ g[n].offset <= Len(data)
  <2>1. g[n].ok
    BY <1>5, EndsThere
  <2> QED
    BY <2>1, StaysInside DEF Inside
<1> QED
  BY <1>2, <1>3, <1>4, <1>5 DEF Inside

-----------------------------------------------------------------------------
(* One file after another: a section of either is one of both.             *)
LEMMA Joined ==
  ASSUME NEW a \in Blob, NEW b \in Blob
  PROVE  /\ a \o b \in Blob /\ Len(a \o b) = Len(a) + Len(b) /\ Len(a) \in Nat /\ Len(b) \in Nat
         /\ \A o \in Nat : o < Len(a) => Ucode!ByteAt(a \o b, o) = Ucode!ByteAt(a, o)
         /\ \A o \in Nat : Ucode!ByteAt(a \o b, Len(a) + o) = Ucode!ByteAt(b, o)
<1>1. /\ a \o b \in Blob /\ Len(a \o b) = Len(a) + Len(b) /\ Len(a) \in Nat /\ Len(b) \in Nat
  BY DEF Blob
<1>2. ASSUME NEW o \in Nat, o < Len(a)
      PROVE  Ucode!ByteAt(a \o b, o) = Ucode!ByteAt(a, o)
  <2>1. o + 1 \in 1..Len(a) /\ o < Len(a \o b)
    BY <1>1, <1>2
  <2>2. (a \o b)[o + 1] = a[o + 1]
    BY <2>1 DEF Blob
  <2> QED
    BY <1>2, <2>1, <2>2 DEF Ucode!ByteAt
<1>3. ASSUME NEW o \in Nat
      PROVE  Ucode!ByteAt(a \o b, Len(a) + o) = Ucode!ByteAt(b, o)
  <2>1. CASE o < Len(b)
    <3>1. Len(a) + o + 1 \in Len(a) + 1..Len(a) + Len(b) /\ Len(a) + o < Len(a \o b)
      BY <1>1, <2>1
    <3>2. (a \o b)[Len(a) + o + 1] = b[o + 1]
      <4>1. Len(a) + o + 1 - Len(a) = o + 1
        BY <1>1
      <4> QED
        BY <1>1, <3>1, <4>1 DEF Blob
    <3> QED
      BY <2>1, <3>1, <3>2 DEF Ucode!ByteAt
  <2>2. CASE ~ (o < Len(b))
    <3>1. ~ (Len(a) + o < Len(a \o b))
      BY <1>1, <2>2
    <3> QED
      BY <2>2, <3>1 DEF Ucode!ByteAt
  <2> QED
    BY <2>1, <2>2
<1> QED
  BY <1>1, <1>2, <1>3

LEMMA JoinedU32 ==
  ASSUME NEW a \in Blob, NEW b \in Blob, NEW o \in Nat
  PROVE  /\ o + 4 <= Len(a) => Ucode!u32(a \o b, o) = Ucode!u32(a, o)
         /\ Ucode!u32(a \o b, Len(a) + o) = Ucode!u32(b, o)
<1>1. Len(a) \in Nat /\ o + 1 \in Nat /\ o + 2 \in Nat /\ o + 3 \in Nat
  BY Joined
<1>2. ASSUME o + 4 <= Len(a)
      PROVE  Ucode!u32(a \o b, o) = Ucode!u32(a, o)
  <2>1. o < Len(a) /\ o + 1 < Len(a) /\ o + 2 < Len(a) /\ o + 3 < Len(a)
    BY <1>1, <1>2
  <2> QED
    BY <1>1, <2>1, Joined DEF Ucode!u32
<1>3. Ucode!u32(a \o b, Len(a) + o) = Ucode!u32(b, o)
  <2>1. /\ Len(a) + o + 1 = Len(a) + (o + 1) /\ Len(a) + o + 2 = Len(a) + (o + 2)
        /\ Len(a) + o + 3 = Len(a) + (o + 3)
    BY <1>1
  <2> QED
    BY <1>1, <2>1, Joined DEF Ucode!u32
<1> QED
  BY <1>2, <1>3

(* The magic, byte by byte.                                                *)
LEMMA MagicIs ==
  ASSUME NEW data \in Blob, NEW o \in Nat
  PROVE  Ucode!MagicAt(data, o) <=> /\ o + 4 <= Len(data)
                                    /\ Ucode!ByteAt(data, o) = 3 /\ Ucode!ByteAt(data, o + 1) = 2
                                    /\ Ucode!ByteAt(data, o + 2) = 1 /\ Ucode!ByteAt(data, o + 3) = 0
<1>1. Len(data) \in Nat
  BY DEF Blob
<1>2. CASE o + 4 <= Len(data)
  <2> DEFINE m == SubSeq(data, o + 1, o + 4)
  <2>1. /\ o < Len(data) /\ o + 1 < Len(data) /\ o + 2 < Len(data) /\ o + 3 < Len(data)
        /\ o + 1 + 1 = o + 2 /\ o + 2 + 1 = o + 3 /\ o + 3 + 1 = o + 4
    BY <1>1, <1>2
  <2>2. /\ m \in Seq(0..(Radix - 1)) /\ Len(m) = 4
        /\ m[1] = data[o + 1] /\ m[2] = data[o + 2] /\ m[3] = data[o + 3] /\ m[4] = data[o + 4]
    <3>1. /\ o + 1 \in Int /\ o + 4 \in Int /\ o + 1 <= o + 4
          /\ (o + 4) - (o + 1) + 1 = 4
      OBVIOUS
    <3>2. \A i \in (o + 1)..(o + 4) : data[i] \in 0..(Radix - 1)
      <4>1. \A i \in (o + 1)..(o + 4) : i \in 1..Len(data)
        BY <1>1, <1>2
      <4>2. \A i \in 1..Len(data) : data[i] \in 0..(Radix - 1)
        BY ElementOfSeq DEF Blob
      <4> QED
        BY <4>1, <4>2
    <3>3. /\ m \in Seq(0..(Radix - 1)) /\ Len(m) = 4
          /\ \A i \in 1..4 : m[i] = data[o + 1 + i - 1]
      BY <3>1, <3>2, SubSeqProperties
    <3>4. /\ o + 1 + 1 - 1 = o + 1 /\ o + 1 + 2 - 1 = o + 2
          /\ o + 1 + 3 - 1 = o + 3 /\ o + 1 + 4 - 1 = o + 4
      OBVIOUS
    <3> HIDE DEF m
    <3> QED
      BY <3>3, <3>4
  <2>3. m = <<3, 2, 1, 0>> <=> m[1] = 3 /\ m[2] = 2 /\ m[3] = 1 /\ m[4] = 0
    <3> HIDE DEF m
    <3> QED
      BY <2>2
  <2> QED
    BY <1>2, <2>1, <2>2, <2>3 DEF Ucode!MagicAt, Ucode!CONTAINER_MAGIC, Ucode!ByteAt
<1>3. CASE ~ (o + 4 <= Len(data))
  BY <1>3 DEF Ucode!MagicAt
<1> QED
  BY <1>2, <1>3

LEMMA JoinedMagic ==
  ASSUME NEW a \in Blob, NEW b \in Blob, NEW o \in Nat
  PROVE  /\ o + 4 <= Len(a) => (Ucode!MagicAt(a \o b, o) <=> Ucode!MagicAt(a, o))
         /\ Ucode!MagicAt(a \o b, Len(a) + o) <=> Ucode!MagicAt(b, o)
<1>1. Len(a) \in Nat /\ Len(b) \in Nat /\ a \o b \in Blob /\ Len(a \o b) = Len(a) + Len(b)
  BY Joined
<1>2. PICK o1 \in Nat, o2 \in Nat, o3 \in Nat : o1 = o + 1 /\ o2 = o + 2 /\ o3 = o + 3
  OBVIOUS
<1>3. PICK p \in Nat : p = Len(a) + o
  BY <1>1
<1>4. ASSUME o + 4 <= Len(a)
      PROVE  Ucode!MagicAt(a \o b, o) <=> Ucode!MagicAt(a, o)
  <2>1. o < Len(a) /\ o1 < Len(a) /\ o2 < Len(a) /\ o3 < Len(a) /\ o + 4 <= Len(a \o b)
    BY <1>1, <1>2, <1>4
  <2>2. /\ Ucode!ByteAt(a \o b, o) = Ucode!ByteAt(a, o)
        /\ Ucode!ByteAt(a \o b, o1) = Ucode!ByteAt(a, o1)
        /\ Ucode!ByteAt(a \o b, o2) = Ucode!ByteAt(a, o2)
        /\ Ucode!ByteAt(a \o b, o3) = Ucode!ByteAt(a, o3)
    BY <1>2, <2>1, Joined
  <2> QED
    BY <1>1, <1>2, <1>4, <2>1, <2>2, MagicIs
<1>5. Ucode!MagicAt(a \o b, Len(a) + o) <=> Ucode!MagicAt(b, o)
  <2>1. /\ p + 1 = Len(a) + o1 /\ p + 2 = Len(a) + o2 /\ p + 3 = Len(a) + o3
        /\ p + 4 <= Len(a \o b) <=> o + 4 <= Len(b)
    BY <1>1, <1>2, <1>3
  <2>2. /\ Ucode!ByteAt(a \o b, p) = Ucode!ByteAt(b, o)
        /\ Ucode!ByteAt(a \o b, p + 1) = Ucode!ByteAt(b, o1)
        /\ Ucode!ByteAt(a \o b, p + 2) = Ucode!ByteAt(b, o2)
        /\ Ucode!ByteAt(a \o b, p + 3) = Ucode!ByteAt(b, o3)
    <3>1. \A i \in Nat : Ucode!ByteAt(a \o b, Len(a) + i) = Ucode!ByteAt(b, i)
      BY Joined
    <3>2. /\ Ucode!ByteAt(a \o b, Len(a) + o) = Ucode!ByteAt(b, o)
          /\ Ucode!ByteAt(a \o b, Len(a) + o1) = Ucode!ByteAt(b, o1)
          /\ Ucode!ByteAt(a \o b, Len(a) + o2) = Ucode!ByteAt(b, o2)
          /\ Ucode!ByteAt(a \o b, Len(a) + o3) = Ucode!ByteAt(b, o3)
      BY <3>1, Zenon
    <3> QED
      BY <1>3, <2>1, <3>2
  <2>3. Ucode!MagicAt(a \o b, p) <=> Ucode!MagicAt(b, o)
    BY <1>1, <1>2, <2>1, <2>2, MagicIs
  <2> QED
    BY <1>3, <2>3
<1> QED
  BY <1>4, <1>5

LEMMA JoinedSections ==
  ASSUME NEW a \in Blob, NEW b \in Blob, NEW o \in Nat
  PROVE  /\ HeadAt(a, o) => HeadAt(a \o b, o) /\ HeadSize(a \o b, o) = HeadSize(a, o)
         /\ BodyAt(a, o) => BodyAt(a \o b, o) /\ BodySize(a \o b, o) = BodySize(a, o)
         /\ HeadAt(b, o) => /\ HeadAt(a \o b, Len(a) + o)
                            /\ HeadSize(a \o b, Len(a) + o) = HeadSize(b, o)
         /\ BodyAt(b, o) => /\ BodyAt(a \o b, Len(a) + o)
                            /\ BodySize(a \o b, Len(a) + o) = BodySize(b, o)
<1>1. Len(a) \in Nat /\ Len(b) \in Nat /\ Len(a \o b) = Len(a) + Len(b)
  BY Joined
<1>2. PICK o4 \in Nat, o8 \in Nat, o12 \in Nat, o24 \in Nat, o28 \in Nat :
         o4 = o + 4 /\ o8 = o + 8 /\ o12 = o + 12 /\ o24 = o + 24 /\ o28 = o + 28
  OBVIOUS
<1>3. PICK p \in Nat : p = Len(a) + o
  BY <1>1
<1>4. /\ p + 4 = Len(a) + o4 /\ p + 8 = Len(a) + o8 /\ p + 12 = Len(a) + o12
      /\ p + 24 = Len(a) + o24 /\ p + 28 = Len(a) + o28
  BY <1>1, <1>2, <1>3
<1>5. PICK a4 \in Nat, a8 \in Nat, b4 \in Nat, b8 \in Nat :
         /\ a4 = Ucode!u32(a, o4) /\ a8 = Ucode!u32(a, o8)
         /\ b4 = Ucode!u32(b, o4) /\ b8 = Ucode!u32(b, o8)
  BY U32Typed
<1>6. /\ HeadSize(a, o) = 12 + a8 /\ BodySize(a, o) = 8 + a4
      /\ HeadSize(b, o) = 12 + b8 /\ BodySize(b, o) = 8 + b4
  BY <1>2, <1>5 DEF HeadSize, BodySize
<1>7. ASSUME HeadAt(a, o)
      PROVE  HeadAt(a \o b, o) /\ HeadSize(a \o b, o) = HeadSize(a, o)
  <2>1. /\ Ucode!MagicAt(a, o) /\ o + 12 <= Len(a) /\ Ucode!u32(a, o4) = 0
        /\ a8 % 16 = 0 /\ o + (12 + a8) <= Len(a)
    BY <1>2, <1>5, <1>6, <1>7 DEF HeadAt
  <2>2. o + 4 <= Len(a) /\ o4 + 4 <= Len(a) /\ o8 + 4 <= Len(a) /\ o + 12 <= Len(a \o b)
    BY <1>1, <1>2, <2>1
  <2>3. /\ Ucode!MagicAt(a \o b, o) /\ Ucode!u32(a \o b, o4) = 0
        /\ Ucode!u32(a \o b, o8) = a8
    <3>1. Ucode!MagicAt(a \o b, o)
      BY <2>1, <2>2, JoinedMagic
    <3>2. Ucode!u32(a \o b, o4) = Ucode!u32(a, o4)
      BY <2>2, JoinedU32
    <3>3. Ucode!u32(a \o b, o8) = Ucode!u32(a, o8)
      BY <2>2, JoinedU32
    <3> QED
      BY <1>5, <2>1, <3>1, <3>2, <3>3
  <2>4. HeadSize(a \o b, o) = 12 + a8 /\ o + (12 + a8) <= Len(a \o b)
    BY <1>1, <1>2, <2>1, <2>3 DEF HeadSize
  <2> QED
    BY <1>2, <1>6, <2>1, <2>2, <2>3, <2>4 DEF HeadAt
<1>8. ASSUME BodyAt(a, o)
      PROVE  BodyAt(a \o b, o) /\ BodySize(a \o b, o) = BodySize(a, o)
  <2>1. /\ ~Ucode!MagicAt(a, o) /\ o + 8 <= Len(a) /\ Ucode!u32(a, o) = 1 /\ a4 >= 64
        /\ o + (8 + a4) <= Len(a) /\ Ucode!u32(a, o12) # 0 /\ Ucode!u32(a, o24) = 0
        /\ Ucode!u32(a, o28) = 0
    BY <1>2, <1>5, <1>6, <1>8 DEF BodyAt
  <2>2. /\ o + 4 <= Len(a) /\ o4 + 4 <= Len(a) /\ o12 + 4 <= Len(a) /\ o24 + 4 <= Len(a)
        /\ o28 + 4 <= Len(a) /\ o + 8 <= Len(a \o b)
    BY <1>1, <1>2, <2>1
  <2>3. /\ ~Ucode!MagicAt(a \o b, o) /\ Ucode!u32(a \o b, o) = 1 /\ Ucode!u32(a \o b, o4) = a4
        /\ Ucode!u32(a \o b, o12) # 0 /\ Ucode!u32(a \o b, o24) = 0 /\ Ucode!u32(a \o b, o28) = 0
    <3>1. \A i \in Nat : i + 4 <= Len(a) => Ucode!u32(a \o b, i) = Ucode!u32(a, i)
      BY JoinedU32
    <3>2. /\ Ucode!u32(a \o b, o) = Ucode!u32(a, o) /\ Ucode!u32(a \o b, o4) = Ucode!u32(a, o4)
          /\ Ucode!u32(a \o b, o12) = Ucode!u32(a, o12)
          /\ Ucode!u32(a \o b, o24) = Ucode!u32(a, o24)
          /\ Ucode!u32(a \o b, o28) = Ucode!u32(a, o28)
      BY <2>2, <3>1, Zenon
    <3>3. ~Ucode!MagicAt(a \o b, o)
      BY <2>1, <2>2, JoinedMagic
    <3> QED
      BY <1>5, <2>1, <3>2, <3>3
  <2>4. BodySize(a \o b, o) = 8 + a4 /\ o + (8 + a4) <= Len(a \o b)
    BY <1>1, <1>2, <2>1, <2>3 DEF BodySize
  <2> QED
    BY <1>2, <1>6, <2>1, <2>2, <2>3, <2>4 DEF BodyAt
<1>9. /\ Ucode!MagicAt(a \o b, p) <=> Ucode!MagicAt(b, o)
      /\ Ucode!u32(a \o b, p) = Ucode!u32(b, o) /\ Ucode!u32(a \o b, p + 4) = b4
      /\ Ucode!u32(a \o b, p + 8) = b8 /\ Ucode!u32(a \o b, p + 12) = Ucode!u32(b, o12)
      /\ Ucode!u32(a \o b, p + 24) = Ucode!u32(b, o24)
      /\ Ucode!u32(a \o b, p + 28) = Ucode!u32(b, o28)
  <2>1. \A i \in Nat : Ucode!u32(a \o b, Len(a) + i) = Ucode!u32(b, i)
    BY JoinedU32
  <2>2. /\ Ucode!u32(a \o b, Len(a) + o) = Ucode!u32(b, o)
        /\ Ucode!u32(a \o b, Len(a) + o4) = Ucode!u32(b, o4)
        /\ Ucode!u32(a \o b, Len(a) + o8) = Ucode!u32(b, o8)
        /\ Ucode!u32(a \o b, Len(a) + o12) = Ucode!u32(b, o12)
        /\ Ucode!u32(a \o b, Len(a) + o24) = Ucode!u32(b, o24)
        /\ Ucode!u32(a \o b, Len(a) + o28) = Ucode!u32(b, o28)
    BY <2>1, Zenon
  <2>3. Ucode!MagicAt(a \o b, p) <=> Ucode!MagicAt(b, o)
    BY <1>3, JoinedMagic
  <2> QED
    BY <1>3, <1>4, <1>5, <2>2, <2>3
<1>10. HeadSize(a \o b, p) = HeadSize(b, o) /\ BodySize(a \o b, p) = BodySize(b, o)
  BY <1>6, <1>9 DEF HeadSize, BodySize
<1>11. /\ p + 12 <= Len(a \o b) <=> o + 12 <= Len(b)
       /\ p + 8 <= Len(a \o b) <=> o + 8 <= Len(b)
       /\ p + (12 + b8) <= Len(a \o b) <=> o + (12 + b8) <= Len(b)
       /\ p + (8 + b4) <= Len(a \o b) <=> o + (8 + b4) <= Len(b)
  BY <1>1, <1>3
<1>12. HeadAt(b, o) => HeadAt(a \o b, p)
  BY <1>2, <1>5, <1>6, <1>9, <1>10, <1>11 DEF HeadAt
<1>13. BodyAt(b, o) => BodyAt(a \o b, p)
  BY <1>2, <1>5, <1>6, <1>9, <1>10, <1>11 DEF BodyAt
<1> QED
  BY <1>3, <1>7, <1>8, <1>10, <1>12, <1>13

-----------------------------------------------------------------------------
(* The walk of two files: in the first as in it alone; past it as in the   *)
(* second alone, what the first holds added.                               *)
In(s, t) ==
  /\ s.ok /\ s.offset = t.offset /\ s.containers = t.containers
  /\ s.patches = t.patches /\ s.here = t.here

Past(first, length, s, t) ==
  /\ s.ok /\ s.offset = length + t.offset /\ s.containers = first.containers + t.containers
  /\ s.patches = first.patches + t.patches
  /\ IF t.containers = 0 THEN s.here > 0 ELSE s.here = t.here

LEMMA Sizes ==
  ASSUME NEW data \in Blob, NEW o \in Nat
  PROVE  HeadSize(data, o) \in Nat /\ BodySize(data, o) \in Nat
<1>1. Ucode!u32(data, o + 8) \in Nat /\ Ucode!u32(data, o + 4) \in Nat
  BY U32Typed
<1> QED
  BY <1>1 DEF HeadSize, BodySize

LEMMA InFirst ==
  ASSUME NEW a \in Blob, NEW b \in Blob, NEW s \in Walk, NEW t \in Walk, t.ok, t.offset < Len(a),
         In(s, t), NEW s1, s1 = Ucode!Section(a \o b, s), NEW t1, t1 = Ucode!Section(a, t), t1.ok
  PROVE  In(s1, t1)
<1>1. PICK c \in Blob : c = a \o b /\ Len(c) = Len(a) + Len(b)
  BY Joined
<1>2. PICK o \in Nat : o = t.offset /\ o = s.offset
  BY DEF In, Walk
<1>3. s.ok /\ s.offset < Len(c) /\ s1 = Ucode!Section(c, s)
  <2>1. PICK la \in Nat, lb \in Nat : la = Len(a) /\ lb = Len(b)
    BY Joined
  <2>2. o < la + lb
    BY <1>2, <2>1
  <2> QED
    BY <1>1, <1>2, <2>1, <2>2 DEF In
<1>4. CASE Opens(a, t)
  <2>1. HeadAt(c, o) /\ HeadSize(c, o) = HeadSize(a, o)
    BY <1>1, <1>2, <1>4, JoinedSections DEF Opens
  <2>2. Opens(c, s)
    BY <1>2, <1>4, <2>1 DEF In, Opens
  <2>3. /\ s1.ok /\ s1.offset = o + HeadSize(c, o) /\ s1.containers = s.containers + 1
        /\ s1.patches = s.patches /\ s1.here = 0
    BY <1>2, <1>3, <2>2, SectionOf
  <2>4. /\ t1.offset = t.offset + HeadSize(a, t.offset) /\ t1.containers = t.containers + 1
        /\ t1.patches = t.patches /\ t1.here = 0
    BY <1>4, SectionOf
  <2> QED
    BY <1>2, <2>1, <2>3, <2>4 DEF In
<1>5. CASE Continues(a, t)
  <2>1. BodyAt(c, o) /\ BodySize(c, o) = BodySize(a, o)
    BY <1>1, <1>2, <1>5, JoinedSections DEF Continues
  <2>2. Continues(c, s)
    BY <1>2, <1>5, <2>1 DEF In, Continues
  <2>3. /\ s1.ok /\ s1.offset = o + BodySize(c, o) /\ s1.containers = s.containers
        /\ s1.patches = s.patches + 1 /\ s1.here = s.here + 1
    BY <1>2, <1>3, <2>2, SectionOf
  <2>4. /\ t1.offset = t.offset + BodySize(a, t.offset) /\ t1.containers = t.containers
        /\ t1.patches = t.patches + 1 /\ t1.here = t.here + 1
    BY <1>5, SectionOf
  <2> QED
    BY <1>2, <2>1, <2>3, <2>4 DEF In
<1> QED
  BY <1>4, <1>5, SectionOf

LEMMA InSecond ==
  ASSUME NEW a \in Blob, NEW b \in Blob, NEW first \in Walk, NEW s \in Walk, NEW t \in Walk,
         t.ok, t.offset < Len(b), Past(first, Len(a), s, t),
         NEW s1, s1 = Ucode!Section(a \o b, s), NEW t1, t1 = Ucode!Section(b, t), t1.ok
  PROVE  Past(first, Len(a), s1, t1)
<1>1. PICK c \in Blob : c = a \o b /\ Len(c) = Len(a) + Len(b)
  BY Joined
<1>2. PICK o \in Nat, l \in Nat : o = t.offset /\ l = Len(a) /\ s.offset = l + o
  BY Joined DEF Past, Walk
<1>3. s.ok /\ s.offset < Len(c) /\ s1 = Ucode!Section(c, s)
  <2>1. PICK lb \in Nat : lb = Len(b)
    BY Joined
  <2>2. l + o < l + lb
    BY <1>2, <2>1
  <2> QED
    BY <1>1, <1>2, <2>1, <2>2 DEF Past
<1>4. /\ t.containers \in Nat /\ t.patches \in Nat /\ t.here \in Nat
      /\ first.containers \in Nat /\ first.patches \in Nat
  BY DEF Walk
<1>5. CASE Opens(b, t)
  <2>0. HeadAt(b, o)
    BY <1>2, <1>5 DEF Opens
  <2>1. HeadAt(c, s.offset) /\ HeadSize(c, s.offset) = HeadSize(b, o)
    <3>1. HeadAt(a \o b, Len(a) + o) /\ HeadSize(a \o b, Len(a) + o) = HeadSize(b, o)
      BY <2>0, JoinedSections
    <3> QED
      BY <1>1, <1>2, <3>1
  <2>2. s.here > 0
    BY <1>4, <1>5 DEF Past, Opens
  <2>3. Opens(c, s)
    BY <2>1, <2>2 DEF Opens
  <2>4. PICK size \in Nat : size = HeadSize(b, o)
    BY Sizes
  <2>5. /\ s1.ok /\ s1.offset = l + o + size /\ s1.containers = s.containers + 1
        /\ s1.patches = s.patches /\ s1.here = 0
    BY <1>2, <1>3, <2>1, <2>3, <2>4, SectionOf
  <2>6. /\ t1.offset = o + size /\ t1.containers = t.containers + 1
        /\ t1.patches = t.patches /\ t1.here = 0
    BY <1>2, <1>5, <2>4, SectionOf
  <2>7. /\ s.containers = first.containers + t.containers
        /\ s.patches = first.patches + t.patches
    BY DEF Past
  <2>8. /\ s1.offset = l + t1.offset /\ s1.containers = first.containers + t1.containers
        /\ s1.patches = first.patches + t1.patches
    BY <1>4, <2>5, <2>6, <2>7
  <2>9. t1.containers # 0
    BY <1>4, <2>6
  <2> QED
    BY <1>2, <2>5, <2>6, <2>8, <2>9 DEF Past
<1>6. CASE Continues(b, t)
  <2>0. BodyAt(b, o)
    BY <1>2, <1>6 DEF Continues
  <2>1. BodyAt(c, s.offset) /\ BodySize(c, s.offset) = BodySize(b, o)
    <3>1. BodyAt(a \o b, Len(a) + o) /\ BodySize(a \o b, Len(a) + o) = BodySize(b, o)
      BY <2>0, JoinedSections
    <3> QED
      BY <1>1, <1>2, <3>1
  <2>2. t.containers > 0 /\ s.containers > 0 /\ s.here = t.here
    BY <1>4, <1>6 DEF Past, Continues
  <2>3. Continues(c, s)
    BY <2>1, <2>2 DEF Continues
  <2>4. PICK size \in Nat : size = BodySize(b, o)
    BY Sizes
  <2>5. /\ s1.ok /\ s1.offset = l + o + size /\ s1.containers = s.containers
        /\ s1.patches = s.patches + 1 /\ s1.here = s.here + 1
    BY <1>2, <1>3, <2>1, <2>3, <2>4, SectionOf
  <2>6. /\ t1.offset = o + size /\ t1.containers = t.containers
        /\ t1.patches = t.patches + 1 /\ t1.here = t.here + 1
    BY <1>2, <1>6, <2>4, SectionOf
  <2>7. /\ s.containers = first.containers + t.containers
        /\ s.patches = first.patches + t.patches
    BY DEF Past
  <2>8. /\ s1.offset = l + t1.offset /\ s1.containers = first.containers + t1.containers
        /\ s1.patches = first.patches + t1.patches
    <3>1. \A i, j, k \in Nat : i + j + k = i + (j + k) /\ i + j + 1 = i + (j + 1)
      OBVIOUS
    <3>2. s1.offset = l + t1.offset
      BY <1>2, <2>4, <2>5, <2>6, <3>1
    <3>3. s1.containers = first.containers + t1.containers
      BY <2>5, <2>6, <2>7
    <3>4. s1.patches = first.patches + t1.patches
      BY <1>4, <2>5, <2>6, <2>7, <3>1
    <3> QED
      BY <3>2, <3>3, <3>4
  <2>9. t1.containers # 0 /\ s1.here = t1.here
    BY <1>4, <2>2, <2>5, <2>6
  <2> QED
    BY <1>2, <2>5, <2>8, <2>9 DEF Past
<1> QED
  BY <1>5, <1>6, SectionOf

LEMMA WalkOf ==
  ASSUME NEW data \in Blob
  PROVE  \E g : /\ Walks(g, data)
                /\ Ucode!parse_container_file(data).ok <=>
                     g[Bound(data)].ok /\ data # <<>> /\ g[Bound(data)].here > 0
                /\ Ucode!parse_container_file(data).containers = g[Bound(data)].containers
                /\ Ucode!parse_container_file(data).patches = g[Bound(data)].patches
                /\ Ucode!parse_container_file(data).offset = g[Bound(data)].offset
                /\ Ucode!parse_container_file(data).read = g[Bound(data)].read
<1>1. PICK g : /\ Walks(g, data)
               /\ Ucode!parse_container_file(data)
                    = [g[Bound(data)] EXCEPT !.ok = @ /\ data # <<>> /\ g[Bound(data)].here > 0]
  BY ParseIs
<1>2. PICK s \in Walk : s = g[Bound(data)]
  BY <1>1, EndsWell
<1>3. PICK p : p = Ucode!parse_container_file(data)
  OBVIOUS
<1>4. p = [s EXCEPT !.ok = @ /\ data # <<>> /\ s.here > 0]
  BY <1>1, <1>2, <1>3
<1>5. /\ p.ok <=> s.ok /\ data # <<>> /\ s.here > 0
      /\ p.containers = s.containers /\ p.patches = s.patches /\ p.offset = s.offset
      /\ p.read = s.read
  BY <1>4 DEF Walk
<1> QED
  BY <1>1, <1>2, <1>3, <1>5

(* Two files that pass pass as one, with all they hold.                    *)
LEMMA GoodFilesJoin ==
  ASSUME NEW a \in Blob, NEW b \in Blob,
         Ucode!parse_container_file(a).ok, Ucode!parse_container_file(b).ok
  PROVE  /\ Ucode!parse_container_file(a \o b).ok
         /\ Ucode!parse_container_file(a \o b).containers
              = Ucode!parse_container_file(a).containers + Ucode!parse_container_file(b).containers
         /\ Ucode!parse_container_file(a \o b).patches
              = Ucode!parse_container_file(a).patches + Ucode!parse_container_file(b).patches
<1> DEFINE c == a \o b
           A == Bound(a)
           B == Bound(b)
           C == Bound(c)
<1>1. /\ c \in Blob /\ Len(c) = Len(a) + Len(b) /\ Len(a) \in Nat /\ Len(b) \in Nat
      /\ A \in Nat /\ B \in Nat /\ C \in Nat
  BY Joined, ParseIs
<1>2. PICK ga : /\ Walks(ga, a) /\ ga[A].ok /\ a # <<>> /\ ga[A].here > 0
                /\ Ucode!parse_container_file(a).containers = ga[A].containers
                /\ Ucode!parse_container_file(a).patches = ga[A].patches
  BY WalkOf
<1>3. PICK gb : /\ Walks(gb, b) /\ gb[B].ok /\ b # <<>> /\ gb[B].here > 0
                /\ Ucode!parse_container_file(b).containers = gb[B].containers
                /\ Ucode!parse_container_file(b).patches = gb[B].patches
  BY WalkOf
<1>4. PICK gc : /\ Walks(gc, c)
                /\ Ucode!parse_container_file(c).ok <=> gc[C].ok /\ c # <<>> /\ gc[C].here > 0
                /\ Ucode!parse_container_file(c).containers = gc[C].containers
                /\ Ucode!parse_container_file(c).patches = gc[C].patches
  BY <1>1, WalkOf
<1>5. /\ ga \in [0..A -> Walk] /\ gb \in [0..B -> Walk] /\ gc \in [0..C -> Walk]
      /\ ga[0] = Ucode!Start /\ gb[0] = Ucode!Start /\ gc[0] = Ucode!Start
  BY <1>2, <1>3, <1>4 DEF Walks
<1>6. /\ \A n \in 1..A : ga[n] = Ucode!Section(a, ga[n - 1])
      /\ \A n \in 1..B : gb[n] = Ucode!Section(b, gb[n - 1])
      /\ \A n \in 1..C : gc[n] = Ucode!Section(c, gc[n - 1])
  BY <1>2, <1>3, <1>4 DEF Walks
<1>7. /\ ga[A].offset = Len(a) /\ \A n \in 0..A : ga[n].ok /\ ga[n].offset <= Len(a)
      /\ gb[B].offset = Len(b) /\ \A n \in 0..B : gb[n].ok /\ gb[n].offset <= Len(b)
  BY <1>2, <1>3, EndsWell
<1>8. /\ \A k \in 0..A : ga[k].offset >= Len(a) => ga[A] = ga[k]
      /\ \A k \in 0..B : gb[k].offset >= Len(b) => gb[B] = gb[k]
  BY <1>2, <1>3, EndsThere
<1>9. Len(a) > 0 /\ Len(b) > 0
  BY <1>1, <1>2, <1>3, EmptySeq DEF Blob
<1> HIDE DEF A, B, C, c
<1>10. PICK first \in Walk : first = ga[A]
  BY <1>1, <1>5
<1> DEFINE Before(n) == \E i \in 0..A : ga[i].offset < Len(a) /\ In(gc[n], ga[i])
           After(n) == \E j \in 0..B : Past(first, Len(a), gc[n], gb[j])
           T == {n \in 0..C : Before(n) \/ After(n)}
<1>11. 0 \in T
  <2>1. In(gc[0], ga[0]) /\ ga[0].offset = 0
    BY <1>5 DEF In, Ucode!Start
  <2>2. 0 \in 0..A /\ 0 \in 0..C
    BY <1>1
  <2>3. Before(0)
    BY <1>9, <2>1, <2>2
  <2> QED
    BY <2>2, <2>3
<1>12. ASSUME NEW n \in 1..C, Before(n - 1)
       PROVE  Before(n) \/ After(n)
  <2>1. n - 1 \in 0..C /\ n \in 0..C
    BY <1>1
  <2>2. PICK i \in 0..A : ga[i].offset < Len(a) /\ In(gc[n - 1], ga[i])
    BY <1>12
  <2>3. PICK k \in 1..A : k = i + 1
    <3>1. i # A
      BY <1>1, <1>7, <2>2
    <3> QED
      BY <1>1, <3>1
  <2>4. k \in 0..A /\ k - 1 = i
    BY <1>1, <2>3
  <2>5. /\ gc[n - 1] \in Walk /\ ga[i] \in Walk /\ ga[i].ok /\ ga[k].ok
        /\ gc[n] = Ucode!Section(c, gc[n - 1]) /\ ga[k] = Ucode!Section(a, ga[i])
    BY <1>5, <1>6, <1>7, <2>1, <2>4
  <2>6. In(gc[n], ga[k])
    BY <2>2, <2>5, InFirst DEF c
  <2>7. CASE ga[k].offset < Len(a)
    BY <2>4, <2>6, <2>7
  <2>8. CASE ~ (ga[k].offset < Len(a))
    <3>1. ga[k].offset = Len(a) /\ first = ga[k]
      <4>1. ga[k] \in Walk /\ ga[k].offset \in Nat /\ ga[k].offset <= Len(a)
        BY <1>5, <1>7, <2>4 DEF Walk
      <4>2. ga[k].offset = Len(a) /\ ga[k].offset >= Len(a)
        BY <1>1, <2>8, <4>1
      <4> QED
        BY <1>8, <1>10, <2>4, <4>2
    <3>2. first.containers \in Nat /\ first.patches \in Nat /\ first.here > 0
      BY <1>2, <1>10 DEF Walk
    <3>3. Past(first, Len(a), gc[n], gb[0])
      BY <1>1, <1>5, <2>6, <3>1, <3>2 DEF Past, In, Ucode!Start
    <3>4. 0 \in 0..B
      BY <1>1
    <3> QED
      BY <3>3, <3>4
  <2> QED
    BY <2>7, <2>8
<1>13. ASSUME NEW n \in 1..C, After(n - 1)
       PROVE  After(n)
  <2>1. n - 1 \in 0..C /\ n \in 0..C
    BY <1>1
  <2>2. PICK j \in 0..B : Past(first, Len(a), gc[n - 1], gb[j])
    BY <1>13
  <2>3. gc[n - 1] \in Walk /\ gb[j] \in Walk /\ gb[j].ok /\ gc[n] = Ucode!Section(c, gc[n - 1])
    BY <1>5, <1>6, <1>7, <2>1
  <2>4. CASE gb[j].offset < Len(b)
    <3>1. PICK k \in 1..B : k = j + 1
      <4>1. j # B
        BY <1>1, <1>7, <2>4
      <4> QED
        BY <1>1, <4>1
    <3>2. k \in 0..B /\ k - 1 = j
      BY <1>1, <3>1
    <3>3. gb[k].ok /\ gb[k] = Ucode!Section(b, gb[j])
      BY <1>6, <1>7, <3>2
    <3>4. Past(first, Len(a), gc[n], gb[k])
      BY <2>2, <2>3, <2>4, <3>3, InSecond DEF c
    <3> QED
      BY <3>2, <3>4
  <2>5. CASE ~ (gb[j].offset < Len(b))
    <3>1. gb[j].offset \in Nat /\ gc[n - 1].offset = Len(a) + gb[j].offset
      BY <2>2, <2>3 DEF Walk, Past
    <3>2. gc[n - 1].offset >= Len(c)
      BY <1>1, <2>5, <3>1
    <3>3. gc[n] = gc[n - 1]
      BY <1>1, <2>3, <3>2, SectionOf
    <3> QED
      BY <2>2, <3>3
  <2> QED
    BY <2>4, <2>5
<1>14. C \in T
  <2>1. ASSUME NEW n \in 1..C, n - 1 \in T
        PROVE  n \in T
    <3>1. n \in 0..C
      BY <1>1
    <3> QED
      BY <1>12, <1>13, <2>1, <3>1
  <2>2. C \in 0..C
    BY <1>1
  <2> HIDE DEF T
  <2>3. \A n \in 0..C : n \in T
    BY <1>1, <1>11, <2>1, Climbs
  <2> QED
    BY <2>2, <2>3
<1>15. PICK s \in Walk : s = gc[C]
  BY <1>1, <1>5
<1>16. s.ok
  BY <1>14, <1>15 DEF In, Past
<1>17. s.offset = Len(c)
  BY <1>1, <1>4, <1>15, <1>16, EndsWell DEF C
<1>18. ~Before(C)
  BY <1>1, <1>9, <1>15, <1>17 DEF In
<1>19. PICK j \in 0..B : Past(first, Len(a), s, gb[j])
  BY <1>14, <1>15, <1>18
<1>20. gb[j] = gb[B]
  <2>1. gb[j] \in Walk /\ gb[j].offset \in Nat /\ s.offset = Len(a) + gb[j].offset
    BY <1>5, <1>19 DEF Walk, Past
  <2>2. gb[j].offset >= Len(b)
    BY <1>1, <1>17, <2>1
  <2> QED
    BY <1>8, <2>2
<1>21. PICK last \in Walk : last = gb[B]
  BY <1>1, <1>5
<1>22. last.here > 0
  BY <1>3, <1>21
<1>23. Past(first, Len(a), s, last)
  BY <1>19, <1>20, <1>21
<1>24. s.containers = first.containers + last.containers /\ s.patches = first.patches + last.patches
  BY <1>23 DEF Past
<1>25. s.here > 0
  BY <1>22, <1>23 DEF Past
<1>26. c # <<>>
  BY <1>1, <1>9
<1> QED
  BY <1>2, <1>3, <1>4, <1>10, <1>15, <1>16, <1>21, <1>24, <1>25, <1>26 DEF c

-----------------------------------------------------------------------------
(* The source files, in the order of their names.                          *)
Directory == [name : Nat, named : BOOLEAN, file : BOOLEAN, data : Blob]
InOrder(s) == \A i, j \in DOMAIN s : i < j => s[i].name < s[j].name

LEMMA Sortable ==
  ASSUME NEW S \in SUBSET Directory, IsFiniteSet(S),
         \A d, e \in S : d.name = e.name => d = e
  PROVE  \E s \in [1..Cardinality(S) -> S] : InOrder(s)
<1> DEFINE N == Cardinality(S)
           T == {n \in 0..N : \A R \in SUBSET S :
                                Cardinality(R) = n => \E s \in [1..n -> R] : InOrder(s)}
<1>1. N \in Nat
  BY FS_CardinalityType
<1> HIDE DEF N
<1>2. 0 \in T
  <2>1. ASSUME NEW R \in SUBSET S
        PROVE  \E s \in [1..0 -> R] : InOrder(s)
    <3>1. [i \in 1..0 |-> 0] \in [1..0 -> R] /\ InOrder([i \in 1..0 |-> 0])
      BY DEF InOrder
    <3> QED
      BY <3>1
  <2> QED
    BY <1>1, <2>1
<1>3. ASSUME NEW n \in 1..N, n - 1 \in T
      PROVE  n \in T
  <2>1. n \in 0..N /\ n - 1 \in 0..N /\ n \in Nat /\ n # 0
    BY <1>1
  <2> SUFFICES ASSUME NEW R \in SUBSET S, Cardinality(R) = n
               PROVE  \E s \in [1..n -> R] : InOrder(s)
    BY <2>1
  <2>2. IsFiniteSet(R) /\ R # {}
    BY <2>1, FS_Subset, FS_EmptySet
  <2>3. PICK e \in R : \A d \in R : e.name <= d.name
    <3> DEFINE names == {d.name : d \in R}
    <3>1. names \in SUBSET Nat /\ names # {}
      BY <2>2 DEF Directory
    <3> HIDE DEF names
    <3>2. PICK m \in names : \A k \in names : m <= k
      BY <3>1, Least
    <3> QED
      BY <3>2 DEF names
  <2>4. R \ {e} \in SUBSET S /\ Cardinality(R \ {e}) = n - 1
    BY <2>2, FS_RemoveElement
  <2>5. PICK r \in [1..(n - 1) -> R \ {e}] : InOrder(r)
    BY <1>3, <2>4
  <2>6. PICK s : s = [i \in 1..n |-> IF i = 1 THEN e ELSE r[i - 1]]
    OBVIOUS
  <2>7. ASSUME NEW i \in 2..n
        PROVE  i - 1 \in 1..(n - 1) /\ i \in 1..n /\ s[i] = r[i - 1] /\ r[i - 1] \in R \ {e}
    <3>1. i - 1 \in 1..(n - 1) /\ i \in 1..n /\ i # 1
      BY <2>1
    <3> QED
      BY <2>6, <3>1
  <2>8. ASSUME NEW i \in 1..n
        PROVE  i = 1 \/ i \in 2..n
    OBVIOUS
  <2>9. s[1] = e /\ 1 \in 1..n /\ DOMAIN s = 1..n
    BY <2>1, <2>6
  <2>10. s \in [1..n -> R]
    BY <2>6, <2>7, <2>8, <2>9
  <2>11. ASSUME NEW i \in 1..n, NEW j \in 1..n, i < j
         PROVE  s[i].name < s[j].name
    <3>1. j \in 2..n
      BY <2>8, <2>11
    <3>2. CASE i = 1
      <4>1. s[j] \in R /\ s[j] # e /\ s[j] \in S /\ e \in S
        BY <2>7, <3>1
      <4>2. e.name <= s[j].name /\ e.name # s[j].name /\ e.name \in Nat /\ s[j].name \in Nat
        BY <2>3, <4>1 DEF Directory
      <4> QED
        BY <2>9, <3>2, <4>2
    <3>3. CASE i \in 2..n
      <4>1. i - 1 < j - 1 /\ i - 1 \in DOMAIN r /\ j - 1 \in DOMAIN r
        BY <2>5, <2>7, <2>11, <3>1, <3>3
      <4> QED
        BY <2>5, <2>7, <3>1, <3>3, <4>1 DEF InOrder
    <3> QED
      BY <2>8, <3>2, <3>3
  <2> QED
    BY <2>9, <2>10, <2>11 DEF InOrder
<1>4. N \in T
  <2> HIDE DEF T
  <2> QED
    BY <1>1, <1>2, <1>3, Climbs
<1> QED
  BY <1>4 DEF N

(* What is flattened grows by a sequence at a time.                        *)
LEMMA FlattenIs ==
  ASSUME NEW S, NEW files \in Seq(Seq(S)), files # <<>>
  PROVE  \E f : /\ f \in [1..Len(files) -> Seq(S)] /\ f[1] = files[1]
                /\ \A n \in 2..Len(files) : f[n] = f[n - 1] \o files[n]
                /\ Ucode!FlattenSeq(files) = f[Len(files)]
<1> DEFINE Rows == Seq(S)
           N == Len(files)
           move == [x \in Rows \X (1..N) |-> x[1] \o files[x[2]]]
           Flat(f) == f = [i \in 1..N |-> IF i = 1 THEN files[i] ELSE f[i - 1] \o files[i]]
           flat == CHOOSE f : Flat(f)
<1>1. N \in Nat /\ N > 0 /\ \A n \in 1..N : files[n] \in Rows
  BY ElementOfSeq, EmptySeq
<1>2. Ucode!FlattenSeq(files) = flat[N]
  BY <1>1 DEF Ucode!FlattenSeq
<1>3. move \in Steps(N, Rows) /\ <<>> \in Rows
  <2>1. \A x \in Rows, n \in 1..N : x \o files[n] \in Rows
    BY <1>1, ConcatProperties
  <2> QED
    BY <2>1, EmptySeq DEF Steps
<1>4. \A x \in Rows, n \in 1..N : move[<<x, n>>] = x \o files[n]
  OBVIOUS
<1> HIDE DEF N, move
<1>5. PICK g : IsRun(g, N, Rows, <<>>, move)
  <2>1. PICK h : Recurs(h, N, Rows, <<>>, move)
    BY <1>1, <1>3, FoldExists
  <2> QED
    BY <1>1, <1>3, <2>1, FoldIs
<1>6. ASSUME NEW n \in 1..N
      PROVE  g[n] \in Rows /\ g[n] = g[n - 1] \o files[n] /\ n - 1 \in 0..N
  <2>1. n - 1 \in 0..N /\ n \in 0..N
    BY <1>1
  <2> QED
    BY <1>4, <1>5, <2>1 DEF IsRun
<1>7. g[1] = files[1]
  <2>1. 1 \in 1..N /\ 1 - 1 = 0
    BY <1>1
  <2>2. g[1] = <<>> \o files[1]
    BY <1>5, <1>6, <2>1 DEF IsRun
  <2>3. <<>> \o files[1] = files[1]
    BY <1>1, <2>1, ConcatEmptySeq
  <2> QED
    BY <2>2, <2>3
<1>8. ASSUME NEW n \in 2..N
      PROVE  n \in 1..N /\ n # 1 /\ n - 1 \in 1..N
  BY <1>1
<1>9. Flat(flat)
  <2> DEFINE k == [i \in 1..N |-> g[i]]
  <2>1. \A i \in 1..N : k[i] = IF i = 1 THEN files[i] ELSE k[i - 1] \o files[i]
    <3>1. \A i \in 1..N : i = 1 \/ i \in 2..N
      BY <1>1
    <3> QED
      BY <1>6, <1>7, <1>8, <3>1
  <2>2. Flat(k)
    BY <2>1
  <2> HIDE DEF Flat, k
  <2> QED
    BY <2>2
<1> HIDE DEF flat
<1>10. DOMAIN flat = 1..N /\ flat[1] = files[1] /\ \A n \in 2..N : flat[n] = flat[n - 1] \o files[n]
  <2>1. 1 \in 1..N
    BY <1>1
  <2> QED
    BY <1>8, <1>9, <2>1
<1>11. \A n \in 1..N : flat[n] \in Rows
  <2> DEFINE T == {n \in 0..N : n # 0 => flat[n] \in Rows}
  <2>1. 0 \in T
    BY <1>1
  <2>2. ASSUME NEW n \in 1..N, n - 1 \in T
        PROVE  n \in T
    <3>1. n \in 0..N
      BY <1>1
    <3>2. CASE n = 1
      BY <1>1, <1>10, <3>1, <3>2
    <3>3. CASE n # 1
      <4>1. n \in 2..N /\ n - 1 # 0
        BY <1>1, <3>3
      <4>2. flat[n - 1] \in Rows /\ flat[n] = flat[n - 1] \o files[n] /\ files[n] \in Rows
        BY <1>1, <1>10, <2>2, <4>1
      <4> QED
        BY <3>1, <4>2, ConcatProperties
    <3> QED
      BY <3>2, <3>3
  <2>3. \A n \in 0..N : n \in T
    <3> HIDE DEF T
    <3> QED
      BY <1>1, <2>1, <2>2, Climbs
  <2>4. \A n \in 1..N : n \in 0..N /\ n # 0
    BY <1>1
  <2> QED
    BY <2>3, <2>4
<1>12. flat \in [1..N -> Rows]
  <2>1. flat = [i \in 1..N |-> flat[i]]
    BY <1>9
  <2> QED
    BY <1>11, <2>1
<1> QED
  BY <1>2, <1>10, <1>12 DEF N
(* What is flattened grows by a file at a time, and so does what is summed.*)
LEMMA Flattens ==
  ASSUME NEW files \in Seq(Blob), files # <<>>
  PROVE  \E f : /\ f \in [1..Len(files) -> Blob] /\ f[1] = files[1]
                /\ \A n \in 2..Len(files) : f[n] = f[n - 1] \o files[n]
                /\ Ucode!FlattenSeq(files) = f[Len(files)]
BY FlattenIs DEF Blob

Total(files, what) ==
  Ucode!FoldLeft(LAMBDA n, data : n + Ucode!parse_container_file(data)[what], 0, files)

LEMMA Sums ==
  ASSUME NEW files \in Seq(Blob), NEW what,
         \A data \in Blob : Ucode!parse_container_file(data)[what] \in Nat
  PROVE  \E g \in [0..Len(files) -> Nat] :
           /\ g[0] = 0
           /\ \A n \in 1..Len(files) : g[n] = g[n - 1] + Ucode!parse_container_file(files[n])[what]
           /\ g[Len(files)] = Total(files, what)
<1> DEFINE N == Len(files)
           count(n) == Ucode!parse_container_file(files[n])[what]
           move == [x \in Nat \X (1..N) |-> x[1] + count(x[2])]
           Folds(iter) ==
             iter = [s \in SUBSET (1..N) |->
                       IF s = {} THEN 0 ELSE iter[s \ {Highest(s)}] + count(Highest(s))]
           it == CHOOSE iter : Folds(iter)
<1>1. N \in Nat /\ DOMAIN files = 1..N /\ \A n \in 1..N : count(n) \in Nat
  BY ElementOfSeq
<1>2. Total(files, what) = it[1..N]
  BY <1>1 DEF Total, Ucode!FoldLeft, Ucode!MapThenFoldSet, Ucode!Max, Highest
<1> HIDE DEF count
<1>3. move \in Steps(N, Nat)
  BY <1>1 DEF Steps
<1>4. \A x \in Nat, n \in 1..N : move[<<x, n>>] = x + count(n)
  OBVIOUS
<1> HIDE DEF move, N
<1>5. \A s \in SUBSET (1..N) : s # {} => Highest(s) \in 1..N /\ s \ {Highest(s)} \in SUBSET (1..N)
  BY <1>1, LastPosition
<1>6. Folds(it)
  <2>1. PICK h : h \in [SUBSET (1..N) -> Nat] /\ Recurs(h, N, Nat, 0, move)
    BY <1>1, <1>3, FoldExists
  <2>2. \A s \in SUBSET (1..N) :
          h[s] = IF s = {} THEN 0 ELSE h[s \ {Highest(s)}] + count(Highest(s))
    BY <1>4, <1>5, <2>1 DEF Recurs
  <2>3. Folds(h)
    BY <2>1, <2>2
  <2> HIDE DEF Folds
  <2> QED
    BY <2>3
<1> HIDE DEF it
<1>7. Recurs(it, N, Nat, 0, move)
  BY <1>4, <1>5, <1>6 DEF Recurs
<1>8. PICK g : IsRun(g, N, Nat, 0, move) /\ g[N] = it[1..N]
  <2>1. PICK A, zero : A = Nat /\ zero = 0
    OBVIOUS
  <2>2. zero \in A /\ move \in Steps(N, A) /\ Recurs(it, N, A, zero, move)
    BY <1>3, <1>7, <2>1
  <2>3. \E g : IsRun(g, N, A, zero, move) /\ g[N] = it[1..N]
    BY <1>1, <2>2, FoldIs
  <2> QED
    BY <2>1, <2>3
<1>9. ASSUME NEW n \in 1..N
      PROVE  g[n] = g[n - 1] + count(n)
  <2>1. n - 1 \in 0..N
    BY <1>1
  <2> QED
    BY <1>4, <1>8, <2>1 DEF IsRun
<1> QED
  BY <1>2, <1>8, <1>9 DEF N, count, IsRun

(* The plain files of a directory whose names are the microcode's, and     *)
(* their bytes in the order of those names.                                *)
Containers(entries) == {e \in entries : e.named /\ e.file}
Files(entries) ==
  [i \in DOMAIN Ucode!source_containers(entries) |-> Ucode!source_containers(entries)[i].data]

LEMMA SameCardinality ==
  ASSUME NEW S
  PROVE  Ucode!Cardinality(S) = Cardinality(S)
BY DEF Ucode!Cardinality, Cardinality

LEMMA SourcesInOrder ==
  ASSUME NEW entries \in SUBSET Directory, IsFiniteSet(entries),
         \A d, e \in entries : d.name = e.name => d = e
  PROVE  /\ Ucode!source_containers(entries)
              \in [1..Cardinality(Containers(entries)) -> Containers(entries)]
         /\ InOrder(Ucode!source_containers(entries))
         /\ Files(entries) \in Seq(Blob)
         /\ Len(Files(entries)) = Cardinality(Containers(entries))
<1> DEFINE found == Containers(entries)
           s == Ucode!source_containers(entries)
<1>1. found \in SUBSET Directory /\ found \subseteq entries
  BY DEF Containers
<1>2. IsFiniteSet(found) /\ Cardinality(found) \in Nat
  BY <1>1, FS_Subset, FS_CardinalityType
<1>3. s = CHOOSE r \in [1..Cardinality(found) -> found] :
             \A i, j \in DOMAIN r : i < j => r[i].name < r[j].name
  BY SameCardinality DEF Ucode!source_containers, Containers
<1>4. \E r \in [1..Cardinality(found) -> found] : InOrder(r)
  BY <1>1, <1>2, Sortable
<1> HIDE DEF found, s
<1>5. s \in [1..Cardinality(found) -> found] /\ InOrder(s)
  BY <1>3, <1>4 DEF InOrder
<1>6. Files(entries) = [i \in 1..Cardinality(found) |-> s[i].data]
  BY <1>5 DEF Files, s
<1>7. \A i \in 1..Cardinality(found) : s[i].data \in Blob
  BY <1>1, <1>5 DEF Directory
<1>8. Files(entries) \in [1..Cardinality(found) -> Blob]
  BY <1>6, <1>7
<1>9. Files(entries) \in Seq(Blob) /\ Len(Files(entries)) = Cardinality(found)
  BY <1>2, <1>8
<1> QED
  BY <1>5, <1>9 DEF found, s

(* Whatever the files of a directory, if each passes by itself then their  *)
(* concatenation in the order of their names passes as the assembled blob: *)
(* it is walked whole and holds as many containers and patches as they do. *)
(* (validate-amd-ucode.py: parse_container_file, main)                     *)
THEOREM AnyAssemblyPasses ==
  ASSUME NEW entries \in SUBSET Directory, IsFiniteSet(entries),
         \A d, e \in entries : d.name = e.name => d = e,
         Containers(entries) # {},
         \A e \in Containers(entries) : Ucode!parse_container_file(e.data).ok
  PROVE  Ucode!main(entries, Ucode!FlattenSeq(Files(entries)))
<1> DEFINE files == Files(entries)
           N == Len(files)
           P(data) == Ucode!parse_container_file(data)
<1>1. files \in Seq(Blob) /\ N \in Nat /\ DOMAIN files = 1..N
  BY SourcesInOrder
<1>2. N > 0 /\ files # <<>>
  <2>1. IsFiniteSet(Containers(entries)) /\ Cardinality(Containers(entries)) # 0
    BY FS_Subset, FS_EmptySet DEF Containers
  <2>2. N # 0
    BY <2>1, SourcesInOrder
  <2> QED
    BY <1>1, <2>2
<1>3. \A n \in 1..N : files[n] \in Blob /\ P(files[n]).ok
  <2>1. ASSUME NEW n \in 1..N
        PROVE  P(files[n]).ok
    <3>1. /\ Ucode!source_containers(entries)[n] \in Containers(entries)
          /\ files[n] = Ucode!source_containers(entries)[n].data
      BY <1>1, <2>1, SourcesInOrder DEF Files
    <3> QED
      BY <3>1
  <2> QED
    BY <1>1, <2>1, ElementOfSeq
<1>4. \A data \in Blob : P(data).containers \in Nat /\ P(data).patches \in Nat
  <2> SUFFICES ASSUME NEW data \in Blob
               PROVE  P(data).containers \in Nat /\ P(data).patches \in Nat
    OBVIOUS
  <2>1. PICK g : /\ Walks(g, data) /\ P(data).containers = g[Bound(data)].containers
                 /\ P(data).patches = g[Bound(data)].patches
    BY WalkOf
  <2> QED
    BY <2>1, EndsWell DEF Walk
<1> DEFINE Sum(what) == Total(files, what)
<1>5. PICK c \in [0..N -> Nat] :
        /\ c[0] = 0 /\ \A n \in 1..N : c[n] = c[n - 1] + P(files[n])["containers"]
        /\ c[N] = Sum("containers")
  BY <1>1, <1>4, Sums
<1>6. PICK p \in [0..N -> Nat] :
        /\ p[0] = 0 /\ \A n \in 1..N : p[n] = p[n - 1] + P(files[n])["patches"]
        /\ p[N] = Sum("patches")
  BY <1>1, <1>4, Sums
<1>7. PICK f \in [1..N -> Blob] :
        /\ f[1] = files[1] /\ \A n \in 2..N : f[n] = f[n - 1] \o files[n]
        /\ Ucode!FlattenSeq(files) = f[N]
  BY <1>1, <1>2, Flattens
<1>8. Ucode!main(entries, Ucode!FlattenSeq(files)) <=>
        /\ files # <<>> /\ \A data \in Ucode!Range(files) : P(data).ok
        /\ P(Ucode!FlattenSeq(files)).ok
        /\ P(Ucode!FlattenSeq(files)).containers = Sum("containers")
        /\ P(Ucode!FlattenSeq(files)).patches = Sum("patches")
  BY DEF Ucode!main, Files, Total
<1>9. \A data \in Ucode!Range(files) : P(data).ok
  BY <1>1, <1>3 DEF Ucode!Range
<1> HIDE DEF files, N, P, Sum
<1> DEFINE Summed(n) == P(f[n]).ok /\ P(f[n]).containers = c[n] /\ P(f[n]).patches = p[n]
           T == {n \in 0..N : n # 0 => Summed(n)}
<1>10. 0 \in T
  BY <1>1
<1>11. ASSUME NEW n \in 1..N, n - 1 \in T
       PROVE  n \in T
  <2>1. n \in 0..N /\ n - 1 \in 0..N
    BY <1>1
  <2>2. c[n] = c[n - 1] + P(files[n]).containers /\ p[n] = p[n - 1] + P(files[n]).patches
    BY <1>5, <1>6
  <2>3. CASE n = 1
    <3>1. c[n - 1] = 0 /\ p[n - 1] = 0 /\ f[n] = files[n]
      BY <1>5, <1>6, <1>7, <2>3
    <3>2. P(files[n]).ok /\ P(files[n]).containers \in Nat /\ P(files[n]).patches \in Nat
      BY <1>3, <1>4
    <3> QED
      BY <2>1, <2>2, <3>1, <3>2
  <2>4. CASE n # 1
    <3>1. n \in 2..N /\ n - 1 # 0 /\ n - 1 \in 1..N
      BY <1>1, <2>4
    <3>2. /\ f[n - 1] \in Blob /\ files[n] \in Blob /\ P(files[n]).ok
          /\ f[n] = f[n - 1] \o files[n]
      BY <1>3, <1>7, <3>1
    <3>3. Summed(n - 1)
      BY <1>11, <3>1
    <3>4. /\ P(f[n]).ok /\ P(f[n]).containers = P(f[n - 1]).containers + P(files[n]).containers
          /\ P(f[n]).patches = P(f[n - 1]).patches + P(files[n]).patches
      BY <3>2, <3>3, GoodFilesJoin DEF P
    <3> QED
      BY <2>1, <2>2, <3>3, <3>4
  <2> QED
    BY <2>3, <2>4
<1>12. Summed(N)
  <2>1. \A n \in 0..N : n \in T
    <3> HIDE DEF T
    <3> QED
      BY <1>1, <1>10, <1>11, Climbs
  <2>2. N \in 0..N /\ N # 0
    BY <1>1, <1>2
  <2> QED
    BY <2>1, <2>2
<1>13. /\ P(Ucode!FlattenSeq(files)).ok
       /\ P(Ucode!FlattenSeq(files)).containers = Sum("containers")
       /\ P(Ucode!FlattenSeq(files)).patches = Sum("patches")
  BY <1>5, <1>6, <1>7, <1>12
<1>14. Ucode!main(entries, Ucode!FlattenSeq(files))
  BY <1>2, <1>8, <1>9, <1>13
<1> QED
  BY <1>14 DEF files

LEMMA TwoFiles ==
  ASSUME NEW data \in Blob, NEW other \in Blob
  PROVE  Ucode!WalkStaysInside(data) /\ Ucode!AssemblyOfGoodFilesPasses(data, other)
<1>1. Ucode!WalkStaysInside(data)
  <2>1. PICK g : /\ Walks(g, data)
                 /\ Ucode!parse_container_file(data).ok => g[Bound(data)].ok
                 /\ Ucode!parse_container_file(data).offset = g[Bound(data)].offset
                 /\ Ucode!parse_container_file(data).read = g[Bound(data)].read
    BY WalkOf
  <2> QED
    BY <2>1, EndsWell DEF Ucode!WalkStaysInside
<1> DEFINE e1 == [name |-> 1, named |-> TRUE, file |-> TRUE, data |-> other]
           e2 == [name |-> 2, named |-> TRUE, file |-> TRUE, data |-> data]
           e3 == [name |-> 3, named |-> FALSE, file |-> TRUE, data |-> other]
           entries == {e2, e1, e3}
           s == Ucode!source_containers(entries)
<1>2. /\ entries \in SUBSET Directory
      /\ \A d, e \in entries : d.name = e.name => d = e
      /\ Containers(entries) = {e1, e2} /\ e1 # e2
      /\ e1.name = 1 /\ e2.name = 2 /\ e1.data = other /\ e2.data = data
  BY DEF Directory, Containers
<1>3. Ucode!AssemblyOfGoodFilesPasses(data, other) <=>
        (Ucode!parse_container_file(data).ok /\ Ucode!parse_container_file(other).ok
           => Ucode!main(entries, other \o data))
  BY DEF Ucode!AssemblyOfGoodFilesPasses
<1>4. IsFiniteSet(entries)
  <2>1. ASSUME NEW a, NEW b, NEW c
        PROVE  IsFiniteSet({a, b, c})
    <3>1. IsFiniteSet({a})
      BY FS_Singleton
    <3>2. IsFiniteSet({a} \cup {b})
      BY <3>1, FS_AddElement
    <3>3. IsFiniteSet(({a} \cup {b}) \cup {c})
      BY <3>2, FS_AddElement
    <3>4. ({a} \cup {b}) \cup {c} = {a, b, c}
      OBVIOUS
    <3> QED
      BY <3>3, <3>4
  <2> HIDE DEF e1, e2, e3
  <2> QED
    BY <2>1
<1> HIDE DEF e1, e2, entries, s
<1>5. Cardinality(Containers(entries)) = 2
  <2>1. IsFiniteSet({e1}) /\ Cardinality({e1}) = 1
    BY FS_Singleton
  <2>2. e2 \notin {e1}
    BY <1>2
  <2>3. Cardinality({e1} \cup {e2}) = Cardinality({e1}) + 1
    BY <2>1, <2>2, FS_AddElement
  <2>4. Containers(entries) = {e1} \cup {e2}
    BY <1>2
  <2> QED
    BY <2>1, <2>3, <2>4
<1>6. s[1] = e1 /\ s[2] = e2 /\ Len(Files(entries)) = 2 /\ Files(entries) \in Seq(Blob)
      /\ Files(entries)[1] = other /\ Files(entries)[2] = data
  <2>1. /\ s \in [1..2 -> {e1, e2}] /\ InOrder(s)
        /\ Len(Files(entries)) = 2 /\ Files(entries) \in Seq(Blob)
    BY <1>2, <1>4, <1>5, SourcesInOrder DEF s
  <2>2. s[1].name < s[2].name /\ s[1] \in {e1, e2} /\ s[2] \in {e1, e2}
    BY <2>1 DEF InOrder
  <2>3. s[1] = e1 /\ s[2] = e2
    BY <1>2, <2>2
  <2>4. Files(entries) = [i \in 1..2 |-> s[i].data]
    BY <2>1 DEF Files, s
  <2> QED
    BY <1>2, <2>1, <2>3, <2>4
<1>7. Ucode!FlattenSeq(Files(entries)) = other \o data
  <2>1. Files(entries) # <<>>
    BY <1>6, EmptySeq
  <2>2. PICK f : /\ f[1] = Files(entries)[1]
                 /\ \A n \in 2..2 : f[n] = f[n - 1] \o Files(entries)[n]
                 /\ Ucode!FlattenSeq(Files(entries)) = f[2]
    BY <1>6, <2>1, Flattens
  <2>3. f[2] = f[1] \o Files(entries)[2]
    <3>1. 2 \in 2..2 /\ 2 - 1 = 1
      OBVIOUS
    <3> QED
      BY <2>2, <3>1
  <2> QED
    BY <1>6, <2>2, <2>3
<1>8. ASSUME Ucode!parse_container_file(data).ok, Ucode!parse_container_file(other).ok
      PROVE  Ucode!main(entries, other \o data)
  <2>1. /\ Containers(entries) # {}
        /\ \A e \in Containers(entries) : Ucode!parse_container_file(e.data).ok
    BY <1>2, <1>8
  <2> QED
    BY <1>2, <1>4, <1>7, <2>1, AnyAssemblyPasses
<1> QED
  BY <1>1, <1>3, <1>8

LEMMA GoodFileTyped == GoodFile \in Blob
<1> DEFINE byte == 0..(Radix - 1)
<1>1. Radix \in Nat /\ Radix > 3
  BY RadixAssumption
<1>2. Radix * Radix \in Nat /\ Radix * Radix >= 16
  BY <1>1
<1>3. Radix * Radix * Radix \in Nat /\ Radix * Radix * Radix >= 64
  BY <1>1, <1>2
<1>4. ASSUME NEW n \in 0..64
      PROVE  Word(n) \in Seq(byte)
  <2>1. \A k \in Nat : k > 0 => n % Radix \in byte /\ (n \div k) % Radix \in byte
    BY <1>1
  <2>2. \A k \in Nat : k >= 64 => n \div k \in 0..1
    OBVIOUS
  <2>3. n \div (Radix * Radix * Radix) \in byte
    BY <1>1, <1>3, <2>2
  <2>4. /\ n % Radix \in byte /\ (n \div Radix) % Radix \in byte
        /\ (n \div (Radix * Radix)) % Radix \in byte
    BY <1>1, <1>2, <2>1
  <2> QED
    BY <2>3, <2>4 DEF Word
<1>5. ASSUME NEW n \in Nat
      PROVE  Zeros(n) \in Seq(byte)
  BY <1>1 DEF Zeros
<1>6. Ucode!CONTAINER_MAGIC \in Seq(byte)
  BY <1>1 DEF Ucode!CONTAINER_MAGIC
<1> HIDE DEF byte
<1>7. /\ Word(0) \in Seq(byte) /\ Word(1) \in Seq(byte) /\ Word(16) \in Seq(byte)
      /\ Word(64) \in Seq(byte) /\ Zeros(16) \in Seq(byte) /\ Zeros(56) \in Seq(byte)
  BY <1>4, <1>5
<1>8. Container \in Seq(byte) /\ MicrocodePatch \in Seq(byte)
  BY <1>6, <1>7, ConcatProperties DEF Container, MicrocodePatch
<1>9. GoodFile \in Seq(byte)
  BY <1>8, ConcatProperties DEF GoodFile
<1> QED
  BY <1>9 DEF Blob, byte

(* For every byte width and every file, the walk reads no byte past the    *)
(* end, leaves none behind in a file it accepts, and accepts two good files*)
(* assembled with the sum of what they hold.  (validate-amd-ucode.py:      *)
(* parse_container_file, main)                                             *)
THEOREM MicrocodeIsWalkedWhole ==
  ASSUME subject = "microcode" => sample \in Seq(0..(Radix - 1))
  PROVE  MicrocodeWalksWhole
BY TwoFiles, GoodFileTyped DEF MicrocodeWalksWhole, Blob

-----------------------------------------------------------------------------
(* Names are strings, and the provers know these five only as themselves.  *)
Name == STRING \cup {"usr", "lib", "pkgconfig", "..", "x86_64-linux-peios"}
Path == Seq(Name)
Node == {[kind |-> "dir"], [kind |-> "special"]}
          \cup [kind : {"file"}, body : STRING] \cup [kind : {"link"}, to : Path]
Tree == UNION {[D -> Node] : D \in {D \in SUBSET Path : IsFiniteSet(D)}}
State == [ok : BOOLEAN, tree : Tree]
Entry == [path : Path, node : Node]
Package == [name : Name, files : Seq(Entry)]

(* A later state still has every file and link of an earlier one.          *)
Grows(s, t) ==
  t.ok => /\ s.ok
          /\ \A p \in DOMAIN s.tree : s.tree[p].kind # "dir" =>
               p \in DOMAIN t.tree /\ t.tree[p] = s.tree[p]

(* An entry that is not a directory is where it belongs, and may be.       *)
Put(s, e) ==
  s.ok /\ e.node.kind # "dir" =>
    /\ e.path \in DOMAIN s.tree /\ s.tree[e.path] = e.node
    /\ Overlay!relative(e.path) /\ e.node.kind # "special"
    /\ e.node.kind = "link" => Overlay!SafeLink(e.path, e.node)

LEMMA TreeIs ==
  ASSUME NEW tree
  PROVE  tree \in Tree <=> /\ DOMAIN tree \in SUBSET Path /\ IsFiniteSet(DOMAIN tree)
                           /\ tree \in [DOMAIN tree -> Node]
<1>1. ASSUME tree \in Tree
      PROVE  /\ DOMAIN tree \in SUBSET Path /\ IsFiniteSet(DOMAIN tree)
             /\ tree \in [DOMAIN tree -> Node]
  <2>1. PICK D \in SUBSET Path : IsFiniteSet(D) /\ tree \in [D -> Node]
    BY <1>1 DEF Tree
  <2>2. DOMAIN tree = D
    BY <2>1
  <2> QED
    BY <2>1, <2>2
<1> QED
  BY <1>1 DEF Tree

LEMMA OverTree ==
  ASSUME NEW new \in Tree, NEW tree \in Tree
  PROVE  /\ Overlay!Over(new, tree) \in Tree
         /\ DOMAIN Overlay!Over(new, tree) = DOMAIN new \cup DOMAIN tree
         /\ \A p \in DOMAIN new : Overlay!Over(new, tree)[p] = new[p]
         /\ \A p \in DOMAIN tree \ DOMAIN new : Overlay!Over(new, tree)[p] = tree[p]
<1> DEFINE over == Overlay!Over(new, tree)
           D == DOMAIN new \cup DOMAIN tree
<1>1. /\ DOMAIN new \in SUBSET Path /\ IsFiniteSet(DOMAIN new) /\ new \in [DOMAIN new -> Node]
      /\ DOMAIN tree \in SUBSET Path /\ IsFiniteSet(DOMAIN tree)
      /\ tree \in [DOMAIN tree -> Node]
  BY TreeIs
<1>2. D \in SUBSET Path /\ IsFiniteSet(D)
  BY <1>1, FS_Union
<1>3. over = [p \in D |-> IF p \in DOMAIN new THEN new[p] ELSE tree[p]]
  BY DEF Overlay!Over
<1>4. over \in [D -> Node] /\ DOMAIN over = D
  BY <1>1, <1>3
<1> HIDE DEF over
<1>5. over \in Tree
  BY <1>2, <1>4, TreeIs
<1> QED
  BY <1>3, <1>4, <1>5 DEF over

LEMMA ParentsTree ==
  ASSUME NEW path \in Path
  PROVE  [p \in Overlay!Parents(path) |-> Overlay!Dir] \in Tree
<1> DEFINE n == Len(path) - 1
           prefix == [i \in 1..n |-> SubSeq(path, 1, i)]
           D == Overlay!Parents(path)
<1>1. Len(path) \in Nat /\ n \in Int
  BY DEF Path
<1>2. ASSUME NEW i \in 1..n PROVE SubSeq(path, 1, i) \in Path
  <2>1. \A k \in 1..i : path[k] \in Name
    BY <1>1 DEF Path
  <2> QED
    BY <2>1, SubSeqProperties DEF Path
<1>3. D = {SubSeq(path, 1, i) : i \in 1..n}
  BY DEF Overlay!Parents
<1>4. D \in SUBSET Path
  BY <1>2, <1>3
<1>5. IsFiniteSet(D)
  <2>1. prefix \in Surjection(1..n, D)
    BY <1>3 DEF Surjection
  <2>2. IsFiniteSet(1..n)
    BY <1>1, FS_Interval
  <2> QED
    BY <2>1, <2>2, FS_Surjection
<1>6. Overlay!Dir \in Node
  BY DEF Overlay!Dir, Node
<1> HIDE DEF D
<1> QED
  BY <1>4, <1>5, <1>6, TreeIs DEF D

(* One entry: the tree keeps its type and its files, and has the entry.    *)
LEMMA PlaceOne ==
  ASSUME NEW s \in State, NEW path \in Path, NEW node \in Node
  PROVE  /\ Overlay!place(s, path, node) \in State
         /\ Grows(s, Overlay!place(s, path, node))
         /\ Put(Overlay!place(s, path, node), [path |-> path, node |-> node])
<1> DEFINE t == Overlay!place(s, path, node)
           here == [p \in {path} |-> node]
           parents == [p \in Overlay!Parents(path) |-> Overlay!Dir]
           below == Overlay!Over(s.tree, parents)
<1>1. s.ok \in BOOLEAN /\ s.tree \in Tree /\ s = [ok |-> s.ok, tree |-> s.tree]
  BY DEF State
<1>2. CASE ~(s.ok /\ Overlay!MayPlace(s.tree, path, node))
  <2>1. t = [s EXCEPT !.ok = FALSE]
    BY <1>2 DEF Overlay!place
  <2>2. t = [ok |-> FALSE, tree |-> s.tree]
    BY <1>1, <2>1
  <2>3. t \in State /\ ~t.ok
    BY <1>1, <2>2 DEF State
  <2> QED
    BY <2>3 DEF Grows, Put
<1>3. CASE s.ok /\ Overlay!MayPlace(s.tree, path, node)
  <2>1. t = [s EXCEPT !.tree = Overlay!Over(here, below)]
    BY <1>3 DEF Overlay!place
  <2>2. t = [ok |-> TRUE, tree |-> Overlay!Over(here, below)]
    BY <1>1, <1>3, <2>1
  <2>3. here \in Tree /\ DOMAIN here = {path} /\ here[path] = node
    <3>1. IsFiniteSet({path})
      BY FS_Singleton
    <3> QED
      BY <3>1, TreeIs
  <2>4. parents \in Tree
    BY ParentsTree
  <2> HIDE DEF here, parents
  <2>5. /\ below \in Tree /\ DOMAIN below = DOMAIN s.tree \cup DOMAIN parents
        /\ \A p \in DOMAIN s.tree : below[p] = s.tree[p]
    BY <1>1, <2>4, OverTree
  <2> HIDE DEF below
  <2>6. /\ t.tree \in Tree /\ DOMAIN t.tree = {path} \cup DOMAIN below
        /\ t.tree[path] = node /\ \A p \in DOMAIN below \ {path} : t.tree[p] = below[p]
    <3>1. t.tree = Overlay!Over(here, below)
      BY <2>2
    <3>2. /\ Overlay!Over(here, below) \in Tree
          /\ DOMAIN Overlay!Over(here, below) = DOMAIN here \cup DOMAIN below
          /\ \A p \in DOMAIN here : Overlay!Over(here, below)[p] = here[p]
          /\ \A p \in DOMAIN below \ DOMAIN here : Overlay!Over(here, below)[p] = below[p]
      BY <2>3, <2>5, OverTree
    <3> HIDE DEF t
    <3> QED
      BY <2>3, <3>1, <3>2
  <2>7. t \in State
    BY <2>2, <2>6 DEF State
  <2>8. ASSUME NEW p \in DOMAIN s.tree, s.tree[p].kind # "dir"
        PROVE  p \in DOMAIN t.tree /\ t.tree[p] = s.tree[p]
    <3>1. p # path
      BY <1>3, <2>8 DEF Overlay!MayPlace, Overlay!IsDir
    <3> QED
      BY <2>5, <2>6, <3>1
  <2>9. Grows(s, t)
    BY <1>3, <2>8 DEF Grows
  <2>10. Put(t, [path |-> path, node |-> node])
    BY <1>3, <2>6 DEF Put, Overlay!MayPlace
  <2> QED
    BY <2>7, <2>9, <2>10
<1> QED
  BY <1>2, <1>3

LEMMA GrowsOn ==
  ASSUME NEW s, NEW t, NEW u, Grows(s, t), Grows(t, u)
  PROVE  Grows(s, u)
BY DEF Grows

LEMMA PutStays ==
  ASSUME NEW s, NEW t, NEW e, Put(s, e), Grows(s, t)
  PROVE  Put(t, e)
BY DEF Grows, Put

LEMMA RunGrows ==
  ASSUME NEW N \in Nat, NEW g, \A n \in 0..N : Grows(g[n], g[n]),
         \A n \in 1..N : Grows(g[n - 1], g[n])
  PROVE  \A m, n \in 0..N : m <= n => Grows(g[m], g[n])
<1> SUFFICES ASSUME NEW m \in 0..N
             PROVE  \A n \in 0..N : m <= n => Grows(g[m], g[n])
  OBVIOUS
<1> DEFINE T == {n \in 0..N : m <= n => Grows(g[m], g[n])}
<1>1. 0 \in T
  <2>1. m <= 0 => m = 0
    OBVIOUS
  <2> QED
    BY <2>1
<1>2. ASSUME NEW n \in 1..N, n - 1 \in T
      PROVE  n \in T
  <2>1. CASE m = n
    BY <2>1
  <2>2. CASE m # n /\ m <= n
    <3>1. m <= n - 1 /\ n \in 0..N
      BY <2>2
    <3>2. Grows(g[m], g[n - 1]) /\ Grows(g[n - 1], g[n])
      BY <1>2, <3>1
    <3>3. Grows(g[m], g[n])
      BY <3>2, GrowsOn
    <3> QED
      BY <3>1, <3>3
  <2>3. CASE ~ (m <= n)
    BY <2>3
  <2> QED
    BY <2>1, <2>2, <2>3
<1> HIDE DEF T
<1>3. \A n \in 0..N : n \in T
  BY <1>1, <1>2, Climbs
<1> QED
  BY <1>3 DEF T

(* One package: every entry of it that is wanted is placed in its turn.    *)
Placed(s, files, package) ==
  Overlay!FoldLeft(LAMBDA t, e : IF Overlay!Owned(package, e)
                                 THEN Overlay!place(t, e.path, e.node) ELSE t,
                   s, files)

LEMMA PackageOne ==
  ASSUME NEW s \in State, NEW package, NEW files \in Seq(Entry)
  PROVE  /\ Placed(s, files, package) \in State /\ Grows(s, Placed(s, files, package))
         /\ \A i \in DOMAIN files : Overlay!Owned(package, files[i]) =>
              Put(Placed(s, files, package), files[i])
<1> DEFINE N == Len(files)
           turn(t, n) == IF Overlay!Owned(package, files[n])
                          THEN Overlay!place(t, files[n].path, files[n].node) ELSE t
           move == [x \in State \X (1..N) |-> turn(x[1], x[2])]
           Folds(iter) ==
             iter = [c \in SUBSET (1..N) |->
                       IF c = {} THEN s ELSE turn(iter[c \ {Highest(c)}], Highest(c))]
           it == CHOOSE iter : Folds(iter)
<1>1. N \in Nat /\ DOMAIN files = 1..N /\ \A n \in 1..N : files[n] \in Entry
  BY ElementOfSeq
<1>2. Placed(s, files, package) = it[1..N]
  BY <1>1 DEF Placed, Overlay!FoldLeft, Overlay!MapThenFoldSet, Overlay!Max, Highest
<1>3. ASSUME NEW t \in State, NEW n \in 1..N
      PROVE  /\ turn(t, n) \in State /\ Grows(t, turn(t, n))
             /\ Overlay!Owned(package, files[n]) => Put(turn(t, n), files[n])
  <2>1. /\ files[n].path \in Path /\ files[n].node \in Node
        /\ files[n] = [path |-> files[n].path, node |-> files[n].node]
    BY <1>1 DEF Entry
  <2>2. Grows(t, t)
    BY DEF Grows
  <2> QED
    BY <2>1, <2>2, PlaceOne
<1> HIDE DEF turn
<1>4. move \in Steps(N, State)
  BY <1>3 DEF Steps
<1>5. \A t \in State, n \in 1..N : move[<<t, n>>] = turn(t, n)
  OBVIOUS
<1> HIDE DEF move, N
<1>6. \A c \in SUBSET (1..N) : c # {} => Highest(c) \in 1..N /\ c \ {Highest(c)} \in SUBSET (1..N)
  BY <1>1, LastPosition
<1>7. Folds(it)
  <2>1. PICK h : h \in [SUBSET (1..N) -> State] /\ Recurs(h, N, State, s, move)
    BY <1>1, <1>4, FoldExists
  <2>2. \A c \in SUBSET (1..N) :
          h[c] = IF c = {} THEN s ELSE turn(h[c \ {Highest(c)}], Highest(c))
    BY <1>5, <1>6, <2>1 DEF Recurs
  <2>3. Folds(h)
    BY <2>1, <2>2
  <2> HIDE DEF Folds
  <2> QED
    BY <2>3
<1> HIDE DEF it
<1>8. Recurs(it, N, State, s, move)
  BY <1>5, <1>6, <1>7 DEF Recurs
<1>9. PICK g : IsRun(g, N, State, s, move) /\ g[N] = it[1..N]
  BY <1>1, <1>4, <1>8, FoldIs
<1>10. g \in [0..N -> State] /\ g[0] = s
  BY <1>9 DEF IsRun
<1>11. ASSUME NEW n \in 1..N
       PROVE  /\ g[n] = turn(g[n - 1], n) /\ n \in 0..N /\ Grows(g[n - 1], g[n])
              /\ Overlay!Owned(package, files[n]) => Put(g[n], files[n])
  <2>1. n - 1 \in 0..N /\ n \in 0..N
    BY <1>1
  <2>2. g[n - 1] \in State /\ g[n] = move[<<g[n - 1], n>>]
    BY <1>9, <1>10, <2>1 DEF IsRun
  <2>3. g[n] = turn(g[n - 1], n)
    BY <1>5, <2>2
  <2> QED
    BY <1>3, <2>1, <2>2, <2>3
<1>12. \A m, n \in 0..N : m <= n => Grows(g[m], g[n])
  <2>1. \A n \in 0..N : Grows(g[n], g[n])
    BY DEF Grows
  <2> QED
    BY <1>1, <1>11, <2>1, RunGrows
<1>13. N \in 0..N /\ 0 \in 0..N /\ \A n \in 1..N : n <= N /\ n \in 0..N /\ 0 <= N
  BY <1>1
<1>14. g[N] \in State /\ Grows(s, g[N])
  <2>1. 0 <= N
    BY <1>1
  <2> QED
    BY <1>10, <1>12, <1>13, <2>1
<1>15. ASSUME NEW n \in 1..N, Overlay!Owned(package, files[n])
       PROVE  Put(g[N], files[n])
  <2>1. Put(g[n], files[n]) /\ Grows(g[n], g[N])
    BY <1>11, <1>12, <1>13, <1>15
  <2> QED
    BY <2>1, PutStays
<1> QED
  BY <1>1, <1>2, <1>9, <1>14, <1>15

(* The entries of a package that are taken; all there, once it is.         *)
Taken(package) == {i \in DOMAIN package.files : Overlay!Owned(package, package.files[i])}
Has(s, package) == \A i \in Taken(package) : Put(s, package.files[i])

LEMMA InstallOne ==
  ASSUME NEW s \in State, NEW package \in Package
  PROVE  /\ Overlay!install_package(s, package) \in State
         /\ Grows(s, Overlay!install_package(s, package))
         /\ Has(Overlay!install_package(s, package), package)
<1> DEFINE end == Placed(s, package.files, package)
           t == Overlay!install_package(s, package)
           any == \E e \in Overlay!Range(package.files) : Overlay!Owned(package, e)
<1>1. package.files \in Seq(Entry)
  BY DEF Package
<1>2. end \in State /\ Grows(s, end)
      /\ \A i \in Taken(package) : Put(end, package.files[i])
  BY <1>1, PackageOne DEF Taken
<1>3. t = [end EXCEPT !.ok = @ /\ any]
  BY DEF Overlay!install_package, Placed
<1> HIDE DEF end, t
<1>4. end = [ok |-> end.ok, tree |-> end.tree] /\ end.ok \in BOOLEAN /\ end.tree \in Tree
  BY <1>2 DEF State
<1>5. PICK both \in BOOLEAN : both <=> end.ok /\ any
  OBVIOUS
<1>6. (end.ok /\ any) = both
  <2>1. any \in BOOLEAN
    OBVIOUS
  <2> HIDE DEF any
  <2> QED
    BY <1>4, <1>5, <2>1
<1> HIDE DEF any
<1>7. t = [ok |-> both, tree |-> end.tree]
  BY <1>3, <1>4, <1>6
<1>8. t \in State /\ Grows(end, t)
  BY <1>4, <1>5, <1>7 DEF State, Grows
<1>9. Grows(s, t) /\ Has(t, package)
  BY <1>2, <1>8, GrowsOn, PutStays DEF Has
<1> QED
  BY <1>8, <1>9 DEF t

(* And of all the packages, in their turns.                                *)
LEMMA InstallAll ==
  ASSUME NEW tree \in Tree, NEW packages \in Seq(Package)
  PROVE  /\ Overlay!install_catalogue(tree, packages) \in State
         /\ \A k \in DOMAIN packages : Has(Overlay!install_catalogue(tree, packages), packages[k])
<1> DEFINE N == Len(packages)
           s == [ok |-> TRUE, tree |-> tree]
           turn(t, n) == Overlay!install_package(t, packages[n])
           move == [x \in State \X (1..N) |-> turn(x[1], x[2])]
           Folds(iter) ==
             iter = [c \in SUBSET (1..N) |->
                       IF c = {} THEN s ELSE turn(iter[c \ {Highest(c)}], Highest(c))]
           it == CHOOSE iter : Folds(iter)
<1>1. N \in Nat /\ DOMAIN packages = 1..N /\ \A n \in 1..N : packages[n] \in Package
  BY ElementOfSeq
<1>2. s \in State
  BY DEF State
<1>3. Overlay!install_catalogue(tree, packages) = it[1..N]
  BY <1>1 DEF Overlay!install_catalogue, Overlay!FoldLeft, Overlay!MapThenFoldSet, Overlay!Max, Highest
<1>4. ASSUME NEW t \in State, NEW n \in 1..N
      PROVE  turn(t, n) \in State /\ Grows(t, turn(t, n)) /\ Has(turn(t, n), packages[n])
  BY <1>1, InstallOne
<1> HIDE DEF turn
<1>5. move \in Steps(N, State)
  BY <1>4 DEF Steps
<1>6. \A t \in State, n \in 1..N : move[<<t, n>>] = turn(t, n)
  OBVIOUS
<1> HIDE DEF move, N, s
<1>7. \A c \in SUBSET (1..N) : c # {} => Highest(c) \in 1..N /\ c \ {Highest(c)} \in SUBSET (1..N)
  BY <1>1, LastPosition
<1>8. Folds(it)
  <2>1. PICK h : h \in [SUBSET (1..N) -> State] /\ Recurs(h, N, State, s, move)
    BY <1>1, <1>2, <1>5, FoldExists
  <2>2. \A c \in SUBSET (1..N) :
          h[c] = IF c = {} THEN s ELSE turn(h[c \ {Highest(c)}], Highest(c))
    BY <1>6, <1>7, <2>1 DEF Recurs
  <2>3. Folds(h)
    BY <2>1, <2>2
  <2> HIDE DEF Folds
  <2> QED
    BY <2>3
<1> HIDE DEF it
<1>9. Recurs(it, N, State, s, move)
  BY <1>6, <1>7, <1>8 DEF Recurs
<1>10. PICK g : IsRun(g, N, State, s, move) /\ g[N] = it[1..N]
  BY <1>1, <1>2, <1>5, <1>9, FoldIs
<1>11. g \in [0..N -> State]
  BY <1>10 DEF IsRun
<1>12. ASSUME NEW n \in 1..N
       PROVE  n \in 0..N /\ Grows(g[n - 1], g[n]) /\ Has(g[n], packages[n])
  <2>1. n - 1 \in 0..N /\ n \in 0..N
    BY <1>1
  <2>2. g[n - 1] \in State /\ g[n] = move[<<g[n - 1], n>>]
    BY <1>10, <1>11, <2>1 DEF IsRun
  <2>3. g[n] = turn(g[n - 1], n)
    BY <1>6, <2>2
  <2> QED
    BY <1>4, <2>1, <2>2, <2>3
<1>13. \A m, n \in 0..N : m <= n => Grows(g[m], g[n])
  <2>1. \A n \in 0..N : Grows(g[n], g[n])
    BY DEF Grows
  <2> QED
    BY <1>1, <1>12, <2>1, RunGrows
<1>14. ASSUME NEW n \in 1..N
       PROVE  Has(g[N], packages[n])
  <2>1. n <= N /\ N \in 0..N
    BY <1>1
  <2>2. Has(g[n], packages[n]) /\ Grows(g[n], g[N])
    BY <1>12, <1>13, <2>1
  <2> QED
    BY <2>2, PutStays DEF Has
<1>15. g[N] \in State
  BY <1>1, <1>11
<1> QED
  BY <1>1, <1>3, <1>10, <1>14, <1>15

(* A fold over a finite set, in whatever order its elements are picked.    *)
Pick(S) == CHOOSE x \in S : TRUE

SetRecurs(h, S, A, base, move) ==
  /\ h[{}] = base
  /\ \A c \in SUBSET S :
       c # {} /\ h[c \ {Pick(c)}] \in A => h[c] = move[<<Pick(c), h[c \ {Pick(c)}]>>]

LEMMA OneFewer ==
  ASSUME NEW S, IsFiniteSet(S), NEW c \in SUBSET S, c # {}
  PROVE  /\ Pick(c) \in S /\ c \ {Pick(c)} \in SUBSET S
         /\ Cardinality(c) \in Nat /\ Cardinality(c \ {Pick(c)}) = Cardinality(c) - 1
<1>1. Pick(c) \in c
  BY DEF Pick
<1>2. IsFiniteSet(c)
  BY FS_Subset
<1>3. /\ Cardinality(c) \in Nat
      /\ Cardinality(c \ {Pick(c)}) = Cardinality(c) - 1
  BY <1>1, <1>2, FS_CardinalityType, FS_RemoveElement
<1> QED
  BY <1>1, <1>3

LEMMA SetFoldExists ==
  ASSUME NEW S, IsFiniteSet(S), NEW A, NEW base \in A, NEW move \in [S \X A -> A]
  PROVE  \E h \in [SUBSET S -> A] : SetRecurs(h, S, A, base, move)
<1> DEFINE N == Cardinality(S)
           Value(h, c) == IF c = {} THEN base ELSE move[<<Pick(c), h[c \ {Pick(c)}]>>]
           Good(n, h) == \A c \in SUBSET S : Cardinality(c) <= n => h[c] = Value(h, c)
           T == {n \in 0..N : \E h \in [SUBSET S -> A] : Good(n, h)}
<1>1. N \in Nat /\ \A c \in SUBSET S : Cardinality(c) \in 0..N
  <2>1. ASSUME NEW c \in SUBSET S PROVE Cardinality(c) \in 0..N
    <3>1. IsFiniteSet(c) /\ Cardinality(c) <= N
      BY FS_Subset
    <3> QED
      BY <3>1, FS_CardinalityType
  <2> QED
    BY <2>1, FS_CardinalityType
<1>2. ASSUME NEW h \in [SUBSET S -> A], NEW c \in SUBSET S
      PROVE  Value(h, c) \in A
  <2>1. CASE c = {}
    BY <2>1
  <2>2. CASE c # {}
    <3>1. <<Pick(c), h[c \ {Pick(c)}]>> \in S \X A
      BY <2>2, OneFewer
    <3> QED
      BY <2>2, <3>1
  <2> QED
    BY <2>1, <2>2
<1>3. 0 \in T
  <2> DEFINE h == [c \in SUBSET S |-> base]
  <2>1. h \in [SUBSET S -> A]
    OBVIOUS
  <2>2. Good(0, h)
    <3> SUFFICES ASSUME NEW c \in SUBSET S, Cardinality(c) <= 0
                 PROVE  h[c] = Value(h, c)
      OBVIOUS
    <3>1. c = {}
      <4>1. IsFiniteSet(c) /\ Cardinality(c) = 0
        BY <1>1, FS_Subset
      <4> QED
        BY <4>1, FS_EmptySet
    <3> QED
      BY <3>1
  <2>3. 0 \in 0..N
    BY <1>1
  <2> HIDE DEF h, Good
  <2> QED
    BY <2>1, <2>2, <2>3
<1>4. ASSUME NEW n \in 1..N, n - 1 \in T
      PROVE  n \in T
  <2>1. PICK h \in [SUBSET S -> A] : Good(n - 1, h)
    BY <1>4
  <2> DEFINE g == [c \in SUBSET S |-> Value(h, c)]
  <2>2. g \in [SUBSET S -> A]
    BY <1>2
  <2>3. ASSUME NEW c \in SUBSET S, Cardinality(c) <= n
        PROVE  g[c] = Value(g, c)
    <3>1. CASE c = {}
      BY <3>1
    <3>2. CASE c # {}
      <4>1. /\ c \ {Pick(c)} \in SUBSET S
            /\ Cardinality(c \ {Pick(c)}) <= n - 1
        BY <2>3, <3>2, OneFewer
      <4>2. h[c \ {Pick(c)}] = g[c \ {Pick(c)}]
        <5> HIDE DEF Value
        <5>1. h[c \ {Pick(c)}] = Value(h, c \ {Pick(c)})
          BY <2>1, <4>1
        <5> QED
          BY <4>1, <5>1
      <4>3. g[c] = move[<<Pick(c), h[c \ {Pick(c)}]>>]
        BY <3>2
      <4> HIDE DEF g
      <4> QED
        BY <3>2, <4>2, <4>3
    <3> QED
      BY <3>1, <3>2
  <2>4. Good(n, g)
    <3> HIDE DEF g, Value
    <3> QED
      BY <2>3
  <2>5. n \in 0..N
    BY <1>1
  <2> HIDE DEF g, Good
  <2> QED
    BY <2>2, <2>4, <2>5
<1>5. N \in T
  <2> HIDE DEF T
  <2>1. \A n \in 0..N : n \in T
    BY <1>1, <1>3, <1>4, Climbs
  <2> QED
    BY <1>1, <2>1
<1>6. PICK h \in [SUBSET S -> A] : Good(N, h)
  BY <1>5
<1>7. SetRecurs(h, S, A, base, move)
  <2>1. ASSUME NEW c \in SUBSET S PROVE h[c] = Value(h, c)
    <3>1. Cardinality(c) <= N
      BY <1>1
    <3> HIDE DEF Value
    <3> QED
      BY <1>6, <3>1
  <2> QED
    BY <2>1 DEF SetRecurs
<1> QED
  BY <1>7

LEMMA SetFoldIn ==
  ASSUME NEW S, IsFiniteSet(S), NEW A, NEW base \in A, NEW move \in [S \X A -> A],
         NEW iter, SetRecurs(iter, S, A, base, move)
  PROVE  iter[S] \in A
<1> DEFINE N == Cardinality(S)
           T == {n \in 0..N : \A c \in SUBSET S : Cardinality(c) = n => iter[c] \in A}
<1>1. N \in Nat
  BY FS_CardinalityType
<1>2. 0 \in T
  <2>1. ASSUME NEW c \in SUBSET S, Cardinality(c) = 0
        PROVE  iter[c] \in A
    <3>1. c = {}
      BY <2>1, FS_Subset, FS_EmptySet
    <3> QED
      BY <3>1 DEF SetRecurs
  <2> QED
    BY <1>1, <2>1
<1>3. ASSUME NEW n \in 1..N, n - 1 \in T
      PROVE  n \in T
  <2>1. ASSUME NEW c \in SUBSET S, Cardinality(c) = n
        PROVE  iter[c] \in A
    <3>1. c # {}
      <4>1. Cardinality(c) # 0
        BY <2>1
      <4> QED
        BY <4>1, FS_EmptySet
    <3>2. /\ Pick(c) \in S /\ c \ {Pick(c)} \in SUBSET S
          /\ Cardinality(c \ {Pick(c)}) = n - 1
      BY <2>1, <3>1, OneFewer
    <3>3. iter[c \ {Pick(c)}] \in A
      BY <1>3, <3>2
    <3>4. iter[c] = move[<<Pick(c), iter[c \ {Pick(c)}]>>]
      BY <3>1, <3>2, <3>3 DEF SetRecurs
    <3> QED
      BY <3>2, <3>3, <3>4
  <2> QED
    BY <1>1, <2>1
<1>4. N \in T
  <2> HIDE DEF T
  <2>1. \A n \in 0..N : n \in T
    BY <1>1, <1>2, <1>3, Climbs
  <2>2. N \in 0..N
    BY <1>1
  <2> QED
    BY <2>1, <2>2
<1> QED
  BY <1>4

(* The pkg-config links disturb nothing.                                   *)
Linked(filled, pcs) == Overlay!FoldSet(Overlay!CompatLink, filled, pcs)

LEMMA LinkOne ==
  ASSUME NEW s \in State, NEW pc0 \in Path, pc0 # <<>>
  PROVE  Overlay!CompatLink(pc0, s) \in State /\ Grows(s, Overlay!CompatLink(pc0, s))
<1> DEFINE name == Overlay!Last(pc0)
           path == <<"usr", "lib", "pkgconfig", name>>
           to == <<"..", "x86_64-linux-peios", "pkgconfig", name>>
           node == [kind |-> "link", to |-> to]
<1>1. name \in Name
  <2>1. pc0 \in Seq(Name) /\ Len(pc0) \in 1..Len(pc0)
    BY EmptySeq DEF Path
  <2> QED
    BY <2>1 DEF Overlay!Last
<1> HIDE DEF name
<1>2. path \in Path /\ to \in Path
  <2>1. ASSUME NEW S
        PROVE  \A a, b, c, d \in S : <<a, b, c, d>> \in Seq(S)
    OBVIOUS
  <2>2. \A a, b, c, d \in Name : <<a, b, c, d>> \in Path
    BY <2>1 DEF Path
  <2>3. {"usr", "lib", "pkgconfig", "..", "x86_64-linux-peios"} \subseteq Name
    BY DEF Name
  <2> QED
    BY <1>1, <2>2, <2>3
<1>3. node \in Node
  BY <1>2 DEF Node
<1>4. Overlay!CompatLink(pc0, s) = Overlay!place(s, path, node)
  BY DEF Overlay!CompatLink, name
<1> HIDE DEF path, node
<1> QED
  BY <1>2, <1>3, <1>4, PlaceOne

LEMMA LinkAll ==
  ASSUME NEW filled \in State, NEW pcs \in SUBSET Path, IsFiniteSet(pcs), <<>> \notin pcs
  PROVE  Linked(filled, pcs) \in State /\ Grows(filled, Linked(filled, pcs))
<1> DEFINE A == {s \in State : Grows(filled, s)}
           move == [x \in pcs \X A |-> Overlay!CompatLink(x[1], x[2])]
           Folds(iter) ==
             iter = [c \in SUBSET pcs |->
                       IF c = {} THEN filled
                       ELSE Overlay!CompatLink(Pick(c), iter[c \ {Pick(c)}])]
           it == CHOOSE iter : Folds(iter)
<1>1. Linked(filled, pcs) = it[pcs]
  BY DEF Linked, Overlay!FoldSet, Overlay!MapThenFoldSet, Pick
<1>2. filled \in A
  BY DEF Grows
<1>3. ASSUME NEW p \in pcs, NEW s \in A
      PROVE  Overlay!CompatLink(p, s) \in A
  <2>1. p \in Path /\ p # <<>>
    OBVIOUS
  <2>2. Overlay!CompatLink(p, s) \in State /\ Grows(s, Overlay!CompatLink(p, s))
    BY <2>1, LinkOne
  <2> QED
    BY <2>2, GrowsOn
<1>4. move \in [pcs \X A -> A]
  BY <1>3
<1>5. \A p \in pcs, s \in A : move[<<p, s>>] = Overlay!CompatLink(p, s)
  OBVIOUS
<1> HIDE DEF move, A
<1>6. PICK h \in [SUBSET pcs -> A] : SetRecurs(h, pcs, A, filled, move)
  BY <1>2, <1>4, SetFoldExists
<1>7. \A c \in SUBSET pcs : c # {} => Pick(c) \in pcs /\ c \ {Pick(c)} \in SUBSET pcs
  BY OneFewer
<1>8. Folds(it)
  <2>1. \A c \in SUBSET pcs :
          h[c] = IF c = {} THEN filled ELSE Overlay!CompatLink(Pick(c), h[c \ {Pick(c)}])
    BY <1>5, <1>6, <1>7 DEF SetRecurs
  <2>2. Folds(h)
    BY <2>1
  <2> HIDE DEF Folds
  <2> QED
    BY <2>2
<1>9. \A c \in SUBSET pcs :
        it[c] = IF c = {} THEN filled ELSE Overlay!CompatLink(Pick(c), it[c \ {Pick(c)}])
  <2> HIDE DEF it
  <2> QED
    BY <1>8
<1> HIDE DEF it
<1>10. SetRecurs(it, pcs, A, filled, move)
  BY <1>5, <1>7, <1>9 DEF SetRecurs
<1>11. it[pcs] \in A
  BY <1>2, <1>4, <1>10, SetFoldIn
<1> QED
  BY <1>1, <1>11 DEF A

LEMMA BuildOverlay ==
  ASSUME NEW staged \in Tree, NEW packages \in Seq(Package)
  PROVE  /\ Overlay!build_overlay(staged, packages) \in State
         /\ \A k \in DOMAIN packages : Has(Overlay!build_overlay(staged, packages), packages[k])
<1> DEFINE o == Overlay!build_overlay(staged, packages)
           filled == Overlay!install_catalogue(staged, packages)
           pcs == {p \in DOMAIN filled.tree :
                     Len(p) = Len(Overlay!PkgConfig) + 1 /\ Overlay!Below(p, Overlay!PkgConfig)
                     /\ Overlay!Last(p) \in PcNames}
<1>1. CASE packages = <<>>
  <2>1. o = [ok |-> TRUE, tree |-> staged]
    BY <1>1 DEF Overlay!build_overlay
  <2>2. o \in State
    BY <2>1 DEF State
  <2>3. DOMAIN packages = {}
    BY <1>1
  <2> QED
    BY <2>2, <2>3
<1>2. CASE packages # <<>>
  <2>1. o = Linked(filled, pcs)
    BY <1>2 DEF Overlay!build_overlay, Linked
  <2>2. filled \in State /\ \A k \in DOMAIN packages : Has(filled, packages[k])
    BY InstallAll
  <2> HIDE DEF o, filled
  <2>3. filled.tree \in Tree
    BY <2>2 DEF State
  <2>4. DOMAIN filled.tree \in SUBSET Path /\ IsFiniteSet(DOMAIN filled.tree)
    BY <2>3, TreeIs
  <2>5. pcs \in SUBSET Path /\ IsFiniteSet(pcs)
    BY <2>4, FS_Subset
  <2>6. <<>> \notin pcs
    <3>1. Len(Overlay!PkgConfig) = 4
      BY DEF Overlay!PkgConfig, Overlay!LIBDIR
    <3>2. Len(<<>>) = 0
      OBVIOUS
    <3> QED
      BY <3>1, <3>2
  <2> HIDE DEF pcs
  <2>7. o \in State /\ Grows(filled, o)
    BY <2>1, <2>2, <2>5, <2>6, LinkAll
  <2> QED
    BY <2>2, <2>7, PutStays DEF Has, o
<1> QED
  BY <1>1, <1>2

(* What the coordinator is asked: trees of nodes, packages that list what  *)
(* they own, usr (which every package may list) as a directory.            *)
IsAsk(ask) ==
  /\ ask.staged \in Tree /\ ask.debian \in Tree
  /\ ask.packages \in Seq(Package)
  /\ \A k \in DOMAIN ask.packages : \A i \in DOMAIN ask.packages[k].files :
       ask.packages[k].files[i].path \in {<<>>, <<"usr">>}
         => ask.packages[k].files[i].node.kind = "dir"

LEMMA Kinds ==
  ASSUME NEW n \in Node
  PROVE  /\ n.kind \in {"dir", "special", "file", "link"}
         /\ n.kind = "dir" => n = [kind |-> "dir"]
BY DEF Node

LEMMA OnlyAdds ==
  ASSUME NEW ask, IsAsk(ask)
  PROVE  Overlay!OverlayOnlyAdds(ask)
<1> DEFINE result == Overlay!install_container(ask)
           overlay == Overlay!build_overlay(ask.staged, ask.packages)
           root == Overlay!Copied(overlay.tree, ask.debian, ask.lost)
           own == {Overlay!ldso : path \in {p \in DOMAIN overlay.tree :
                      Overlay!Below(p, Overlay!LIBDIR) /\ p # Overlay!LIBDIR}}
           created == [p \in own \cup {Overlay!ldcache, Overlay!Evidence} |->
                         [kind |-> "file", body |-> "coordinator"]]
           Checked == /\ overlay.ok
                      /\ Overlay!COLLISION_CHECK(overlay.tree, ask.debian)
                      /\ Overlay!Copies(overlay.tree, ask.debian)
                      /\ Overlay!RUNTIME_CHECK(overlay.tree, ask.toolchain, root)
                      /\ Overlay!Evidence \notin DOMAIN root
<1>1. result = IF Checked THEN [ok |-> TRUE, payload |-> overlay.tree,
                                root |-> Overlay!Over(created, root)]
               ELSE [ok |-> FALSE]
  BY DEF Overlay!install_container
<1>2. /\ overlay \in State
      /\ \A k \in DOMAIN ask.packages : Has(overlay, ask.packages[k])
  BY BuildOverlay DEF IsAsk
<1>3. own \subseteq {Overlay!ldso}
  OBVIOUS
<1> HIDE DEF own, overlay
<1>4. ask.debian \in [DOMAIN ask.debian -> Node] /\ overlay.tree \in [DOMAIN overlay.tree -> Node]
  BY <1>2, TreeIs DEF IsAsk, State
<1> SUFFICES ASSUME result.ok
             PROVE  /\ \A p \in DOMAIN ask.debian \ {Overlay!ldcache} : result.root[p] = ask.debian[p]
                    /\ \A k \in DOMAIN ask.packages :
                         \A e \in Overlay!Range(ask.packages[k].files) :
                           (Overlay!Kept(ask.packages[k].name, e.path) /\ e.node.kind # "dir") =>
                             /\ e.path \in DOMAIN result.root /\ result.root[e.path] = e.node
                             /\ e.node.kind = "link" =>
                                  Overlay!Normalized(Overlay!Front(e.path) \o e.node.to)[1] = "usr"
  BY DEF Overlay!OverlayOnlyAdds
<1>5. Checked /\ result.root = Overlay!Over(created, root)
  <2> HIDE DEF Checked
  <2> QED
    BY <1>1
<1> HIDE DEF result
<1>6. /\ DOMAIN root = (DOMAIN overlay.tree \ ask.lost) \cup DOMAIN ask.debian
      /\ \A p \in DOMAIN overlay.tree \ ask.lost : root[p] = overlay.tree[p]
      /\ \A p \in DOMAIN ask.debian : p \notin DOMAIN overlay.tree \ ask.lost
                                        => root[p] = ask.debian[p]
  BY DEF Overlay!Copied, Overlay!Over
<1> HIDE DEF root
<1>7. /\ DOMAIN root \subseteq DOMAIN result.root
      /\ \A p \in DOMAIN root : p \notin {Overlay!ldso, Overlay!ldcache} => result.root[p] = root[p]
  BY <1>3, <1>5 DEF Overlay!Over
<1>8. ASSUME NEW p \in DOMAIN ask.debian \ {Overlay!ldcache}
      PROVE  result.root[p] = ask.debian[p]
  <2>1. p \notin {Overlay!ldso, Overlay!ldcache}
    BY <1>5 DEF Overlay!COLLISION_CHECK
  <2>2. result.root[p] = root[p]
    BY <1>6, <1>7, <2>1
  <2>3. ASSUME p \in DOMAIN overlay.tree
        PROVE  overlay.tree[p] = ask.debian[p]
    <3>1. overlay.tree[p].kind = "dir" /\ ask.debian[p].kind = "dir"
      BY <1>5, <2>3 DEF Overlay!COLLISION_CHECK, Overlay!IsDir
    <3> QED
      BY <1>4, <2>3, <3>1, Kinds
  <2> QED
    BY <1>6, <2>2, <2>3
<1>9. ASSUME NEW k \in DOMAIN ask.packages, NEW e \in Overlay!Range(ask.packages[k].files),
             Overlay!Kept(ask.packages[k].name, e.path), e.node.kind # "dir"
      PROVE  /\ e.path \in DOMAIN result.root /\ result.root[e.path] = e.node
             /\ e.node.kind = "link" =>
                  Overlay!Normalized(Overlay!Front(e.path) \o e.node.to)[1] = "usr"
  <2>1. PICK i \in DOMAIN ask.packages[k].files : e = ask.packages[k].files[i]
    BY DEF Overlay!Range
  <2>2. e.path \notin {<<>>, <<"usr">>}
    BY <1>9, <2>1 DEF IsAsk
  <2>3. i \in Taken(ask.packages[k])
    BY <1>9, <2>1, <2>2 DEF Taken, Overlay!Owned
  <2>4. Put(overlay, e)
    BY <1>2, <2>1, <2>3 DEF Has
  <2>5. /\ e.path \in DOMAIN overlay.tree /\ overlay.tree[e.path] = e.node
        /\ Overlay!relative(e.path) /\ e.node.kind # "special"
        /\ e.node.kind = "link" => Overlay!SafeLink(e.path, e.node)
    BY <1>5, <1>9, <2>4 DEF Put
  <2>6. e.node.kind \in {"file", "link"}
    BY <1>4, <1>9, <2>5, Kinds
  <2>7. e.path \in DOMAIN root /\ root[e.path] = e.node
    BY <1>5, <2>5, <2>6 DEF Overlay!RUNTIME_CHECK
  <2>8. e.path \notin {Overlay!ldso, Overlay!ldcache}
    <3>1. e.path[1] = "usr" /\ Overlay!ldso[1] = "etc" /\ Overlay!ldcache[1] = "etc"
      BY <2>5 DEF Overlay!relative, Overlay!ldso, Overlay!ldcache
    <3> QED
      BY <3>1
  <2>9. e.path \in DOMAIN result.root /\ result.root[e.path] = e.node
    BY <1>7, <2>7, <2>8
  <2>10. e.node.kind = "link" =>
           Overlay!Normalized(Overlay!Front(e.path) \o e.node.to)[1] = "usr"
    BY <2>5 DEF Overlay!SafeLink
  <2> QED
    BY <2>9, <2>10
<1> QED
  BY <1>8, <1>9

(* Whatever the packages list, the toolchain's tree holds and Debian has   *)
(* installed, a root that is handed on has all of Debian's, unchanged but  *)
(* for the loader's cache, and every file and link the packages own, none  *)
(* leading out of usr.                                                     *)
(* (reference.py: place, install_catalogue, build_overlay, COLLISION_CHECK,*)
(* RUNTIME_CHECK, install_container)                                       *)
THEOREM OverlayKeepsTheRoot ==
  ASSUME subject = "overlay" => IsAsk(sample)
  PROVE  OverlayOnlyAdds
BY OnlyAdds DEF OverlayOnlyAdds
-----------------------------------------------------------------------------
LEMMA FlattenMore ==
  ASSUME NEW S, NEW files \in Seq(Seq(S)), NEW last \in Seq(S)
  PROVE  /\ Cert!FlattenSeq(files) \in Seq(S)
         /\ Cert!FlattenSeq(Append(files, last)) = Cert!FlattenSeq(files) \o last
<1> DEFINE N == Len(files)
           more == Append(files, last)
<1>1. Cert!FlattenSeq(files) = Ucode!FlattenSeq(files) /\ Cert!FlattenSeq(more) = Ucode!FlattenSeq(more)
  BY DEF Cert!FlattenSeq, Ucode!FlattenSeq
<1>2. /\ N \in Nat /\ more \in Seq(Seq(S)) /\ Len(more) = N + 1 /\ more # <<>>
      /\ more[N + 1] = last /\ \A n \in 1..N : more[n] = files[n]
  BY AppendProperties, EmptySeq
<1> HIDE DEF more
<1>6. PICK h : /\ h \in [1..Len(more) -> Seq(S)] /\ h[1] = more[1]
               /\ \A n \in 2..Len(more) : h[n] = h[n - 1] \o more[n]
               /\ Ucode!FlattenSeq(more) = h[Len(more)]
  BY <1>2, FlattenIs
<1>3. /\ h[1] = more[1] /\ Ucode!FlattenSeq(more) = h[N + 1]
      /\ \A n \in 2..(N + 1) : h[n] = h[n - 1] \o more[n]
  BY <1>2, <1>6
<1>4. CASE files = <<>>
  <2>1. N = 0 /\ Ucode!FlattenSeq(files) = files
    BY <1>4, EmptySeq DEF Ucode!FlattenSeq
  <2>2. Ucode!FlattenSeq(more) = last
    BY <1>2, <1>3, <2>1
  <2>3. files \in Seq(S) /\ files \o last = last
    BY <1>4, EmptySeq, ConcatEmptySeq
  <2> QED
    BY <1>1, <2>1, <2>2, <2>3 DEF more
<1>5. CASE files # <<>>
  <2>1. PICK f : /\ f \in [1..N -> Seq(S)] /\ f[1] = files[1]
                 /\ \A n \in 2..N : f[n] = f[n - 1] \o files[n]
                 /\ Ucode!FlattenSeq(files) = f[N]
    BY <1>5, FlattenIs
  <2>2. N > 0
    BY <1>2, <1>5, EmptySeq
  <2> HIDE DEF N, more
  <2> DEFINE T == {n \in 0..N : n # 0 => h[n] = f[n]}
  <2>3. 0 \in T
    BY <1>2
  <2>4. ASSUME NEW n \in 1..N, n - 1 \in T
        PROVE  n \in T
    <3>1. n \in 0..N /\ more[n] = files[n]
      BY <1>2
    <3>2. CASE n = 1
      BY <1>3, <2>1, <3>1, <3>2
    <3>3. CASE n # 1
      <4>1. n \in 2..N /\ n \in 2..(N + 1) /\ n - 1 # 0
        BY <1>2, <3>3
      <4>2. h[n - 1] = f[n - 1]
        BY <2>4, <4>1
      <4> QED
        BY <1>3, <2>1, <3>1, <4>1, <4>2
    <3> QED
      BY <3>2, <3>3
  <2>5. h[N] = f[N]
    <3>1. N \in 0..N /\ N # 0
      BY <1>2, <2>2
    <3>2. \A n \in 0..N : n \in T
      <4> HIDE DEF T
      <4> QED
        BY <1>2, <2>3, <2>4, Climbs
    <3> QED
      BY <3>1, <3>2
  <2>6. h[N + 1] = h[N] \o last
    <3>1. N + 1 \in 2..(N + 1) /\ (N + 1) - 1 = N
      BY <1>2, <2>2
    <3> QED
      BY <1>2, <1>3, <3>1
  <2>7. f[N] \in Seq(S)
    <3>1. N \in 1..N
      BY <1>2, <2>2
    <3> QED
      BY <2>1, <3>1
  <2> QED
    BY <1>1, <1>3, <2>1, <2>5, <2>6, <2>7 DEF more
<1> QED
  BY <1>4, <1>5

(* A store's text: any lines at all, named and valued as the parser's      *)
(* regular expression lets them be.                                        *)
Token == STRING \cup {Cert!Malformed}
CertName == STRING \ {Cert!NoBlock}
CertLine ==
  [is : {"begin", "end", "blank", "comment", "garbled"}]
    \cup [is : {"bytes"}, bytes : Seq(Token)]
    \cup [is : {"attribute"}, name : CertName, kind : STRING, value : Seq(Token)]

CertObject == UNION {[names -> Seq(Token)] : names \in SUBSET CertName}
CertState ==
  [ok : BOOLEAN, begun : BOOLEAN, objects : Seq(CertObject), current : CertObject,
   pending : CertName \cup {Cert!NoBlock}, octal : Seq(Token)]

LEMMA LineIs ==
  ASSUME NEW line \in CertLine
  PROVE  /\ line.is = "attribute" => line.name \in CertName /\ line.value \in Seq(Token)
         /\ Cert!Row(line) \in Seq(Token)
<1>1. line.is = "bytes" => line.bytes \in Seq(Token)
  BY DEF CertLine
<1>2. <<>> \in Seq(Token) /\ <<Cert!Malformed>> \in Seq(Token)
  <2>1. \A t \in Token : <<t>> \in Seq(Token)
    OBVIOUS
  <2> QED
    BY <2>1, EmptySeq DEF Token
<1>3. Cert!Row(line) \in Seq(Token)
  BY <1>1, <1>2 DEF Cert!Row
<1> QED
  BY <1>3 DEF CertLine

LEMMA ObjectIs ==
  ASSUME NEW obj
  PROVE  obj \in CertObject <=> DOMAIN obj \in SUBSET CertName /\ obj \in [DOMAIN obj -> Seq(Token)]
<1>1. ASSUME obj \in CertObject
      PROVE  DOMAIN obj \in SUBSET CertName /\ obj \in [DOMAIN obj -> Seq(Token)]
  <2>1. PICK D \in SUBSET CertName : obj \in [D -> Seq(Token)]
    BY <1>1 DEF CertObject
  <2>2. DOMAIN obj = D
    BY <2>1
  <2> QED
    BY <2>1, <2>2
<1> QED
  BY <1>1 DEF CertObject

LEMMA NoObject == <<>> \in CertObject /\ DOMAIN <<>> = {}
<1>1. DOMAIN <<>> = {}
  OBVIOUS
<1>2. <<>> \in [{} -> Seq(Token)]
  OBVIOUS
<1> QED
  BY <1>1, <1>2, ObjectIs

LEMMA WithIs ==
  ASSUME NEW obj \in CertObject, NEW name \in CertName, NEW value \in Seq(Token)
  PROVE  /\ Cert!With(obj, name, value) \in CertObject
         /\ Cert!With(obj, name, value) # <<>>
         /\ DOMAIN Cert!With(obj, name, value) = DOMAIN obj \cup {name}
         /\ Cert!With(obj, name, value)[name] = value
         /\ \A n \in DOMAIN obj \ {name} : Cert!With(obj, name, value)[n] = obj[n]
<1> DEFINE D == DOMAIN obj \cup {name}
           with == Cert!With(obj, name, value)
<1>1. DOMAIN obj \in SUBSET CertName /\ obj \in [DOMAIN obj -> Seq(Token)]
  BY ObjectIs
<1>2. with = [n \in D |-> IF n = name THEN value ELSE obj[n]]
  BY DEF Cert!With
<1>3. DOMAIN with = D /\ with \in [D -> Seq(Token)] /\ D \in SUBSET CertName
  BY <1>1, <1>2
<1>4. with \in CertObject
  BY <1>3, ObjectIs
<1>5. with # <<>>
  BY <1>3, NoObject
<1> QED
  BY <1>2, <1>3, <1>4, <1>5

(* The object a state has as its jth, the last one being the open one.     *)
Number(s) == Len(s.objects) + 1
ObjectAt(s, j) == IF j <= Len(s.objects) THEN s.objects[j] ELSE s.current

(* What one line does to a state that is not refused for it.               *)
RowRead(s, line, r) ==
  /\ s.pending # Cert!NoBlock /\ line.is # "end"
  /\ r.objects = s.objects /\ r.current = s.current /\ r.pending = s.pending
  /\ r.octal = s.octal \o Cert!Row(line)

BlockRead(s, line, r) ==
  /\ s.pending # Cert!NoBlock /\ line.is = "end" /\ ~Cert!HasToken(s.octal, Cert!Malformed)
  /\ r.objects = s.objects /\ r.current = Cert!With(s.current, s.pending, s.octal)
  /\ r.pending = Cert!NoBlock /\ r.octal = <<>>

NothingRead(s, line, r) ==
  /\ s.pending = Cert!NoBlock /\ line.is # "attribute"
  /\ r.objects = s.objects /\ r.current = s.current /\ r.pending = s.pending
  /\ r.octal = s.octal

IsNext(s, line) == line.name = "CKA_CLASS" /\ s.current # <<>>
Opened(s, line) == IF IsNext(s, line) THEN <<>> ELSE s.current

AttributeRead(s, line, r) ==
  /\ s.pending = Cert!NoBlock /\ line.is = "attribute"
  /\ line.name \notin DOMAIN Opened(s, line)
  /\ r.objects = IF IsNext(s, line) THEN Append(s.objects, s.current) ELSE s.objects
  /\ r.octal = s.octal
  /\ \/ /\ line.kind = "MULTILINE_OCTAL"
        /\ r.current = Opened(s, line) /\ r.pending = line.name
     \/ /\ line.kind # "MULTILINE_OCTAL"
        /\ r.current = Cert!With(Opened(s, line), line.name, line.value)
        /\ r.pending = Cert!NoBlock

ReadWell(s, line, r) ==
  RowRead(s, line, r) \/ BlockRead(s, line, r) \/ NothingRead(s, line, r) \/ AttributeRead(s, line, r)

LEMMA ReadOne ==
  ASSUME NEW s \in CertState, NEW line \in CertLine
  PROVE  /\ Cert!ReadLine(s, line) \in CertState
         /\ Cert!ReadLine(s, line).ok => s.ok /\ ReadWell(s, line, Cert!ReadLine(s, line))
<1> DEFINE r == Cert!ReadLine(s, line)
           Goal == r \in CertState /\ (r.ok => s.ok /\ ReadWell(s, line, r))
           block == Cert!parse_octal(s.octal)
<1>1. /\ s.ok \in BOOLEAN /\ s.begun \in BOOLEAN /\ s.objects \in Seq(CertObject)
      /\ s.current \in CertObject /\ s.pending \in CertName \cup {Cert!NoBlock}
      /\ s.octal \in Seq(Token)
      /\ s = [ok |-> s.ok, begun |-> s.begun, objects |-> s.objects, current |-> s.current,
              pending |-> s.pending, octal |-> s.octal]
  BY DEF CertState
<1>2. ASSUME ~s.ok PROVE Goal
  BY <1>2 DEF Cert!ReadLine
<1>3. ASSUME s.ok, s.pending # Cert!NoBlock, line.is # "end" PROVE Goal
  <2>1. r = [s EXCEPT !.octal = s.octal \o Cert!Row(line)]
    BY <1>3 DEF Cert!ReadLine, Cert!InBlock
  <2>2. s.octal \o Cert!Row(line) \in Seq(Token)
    BY <1>1, LineIs, ConcatProperties
  <2>3. r \in CertState
    BY <1>1, <2>1, <2>2 DEF CertState
  <2>4. RowRead(s, line, r)
    BY <1>1, <1>3, <2>1 DEF RowRead
  <2> QED
    BY <1>3, <2>3, <2>4 DEF ReadWell
<1>4. ASSUME s.ok, s.pending # Cert!NoBlock, line.is = "end" PROVE Goal
  <2>1. r = [s EXCEPT !.ok = block.ok, !.current = Cert!With(s.current, s.pending, block.value),
                      !.pending = Cert!NoBlock, !.octal = <<>>]
    BY <1>4 DEF Cert!ReadLine, Cert!InBlock
  <2>2. block.value = s.octal /\ (block.ok <=> s.octal # <<>> /\ ~Cert!HasToken(s.octal, Cert!Malformed))
        /\ block.ok \in BOOLEAN
    BY DEF Cert!parse_octal
  <2>3. Cert!With(s.current, s.pending, s.octal) \in CertObject /\ <<>> \in Seq(Token)
    BY <1>1, <1>4, WithIs, EmptySeq
  <2> HIDE DEF block, r
  <2>4. /\ r.ok = block.ok /\ r.begun = s.begun /\ r.objects = s.objects
        /\ r.current = Cert!With(s.current, s.pending, s.octal)
        /\ r.pending = Cert!NoBlock /\ r.octal = <<>>
    BY <1>1, <2>1, <2>2
  <2>5. r \in CertState
    BY <1>1, <2>1, <2>2, <2>3 DEF CertState
  <2>6. r.ok => BlockRead(s, line, r)
    BY <1>1, <1>4, <2>2, <2>4 DEF BlockRead
  <2> QED
    BY <1>4, <2>5, <2>6 DEF ReadWell
<1>5. ASSUME s.ok, s.pending = Cert!NoBlock, line.is \in {"blank", "comment"} PROVE Goal
  <2>1. r = s
    BY <1>5 DEF Cert!ReadLine
  <2> QED
    BY <1>5, <2>1 DEF ReadWell, NothingRead
<1>6. ASSUME s.ok, s.pending = Cert!NoBlock, line.is = "begin" PROVE Goal
  <2>1. PICK ok \in BOOLEAN : ok <=> (~s.begun /\ s.current = <<>> /\ s.objects = <<>>)
    OBVIOUS
  <2>2. r = [s EXCEPT !.begun = TRUE, !.ok = (~s.begun /\ s.current = <<>> /\ s.objects = <<>>)]
    BY <1>6 DEF Cert!ReadLine
  <2>3. r = [s EXCEPT !.begun = TRUE, !.ok = ok]
    BY <2>1, <2>2
  <2> QED
    BY <1>1, <1>6, <2>3 DEF ReadWell, NothingRead, CertState
<1>7. ASSUME s.ok, s.pending = Cert!NoBlock, line.is = "attribute", s.begun PROVE Goal
  <2> DEFINE anew == line.name = "CKA_CLASS" /\ s.current # <<>>
             octal == line.kind = "MULTILINE_OCTAL"
             fine == /\ line.name \in DOMAIN Cert!EXPECTED_KINDS
                          => line.kind \in Cert!EXPECTED_KINDS[line.name]
                     /\ line.name \notin DOMAIN Opened(s, line)
                     /\ octal <=> line.value = <<>>
                     /\ line.kind = "UTF8" => ~Cert!HasToken(line.value, Cert!Malformed)
             current == IF octal THEN Opened(s, line)
                        ELSE Cert!With(Opened(s, line), line.name, line.value)
             objects == IF anew THEN Append(s.objects, s.current) ELSE s.objects
             pending == IF octal THEN line.name ELSE Cert!NoBlock
  <2>1. r = Cert!Attribute(s, line)
    BY <1>7 DEF Cert!ReadLine
  <2>2. PICK ok \in BOOLEAN : ok <=> fine
    OBVIOUS
  <2>3. r = [s EXCEPT !.ok = ok, !.objects = objects, !.current = current, !.pending = pending]
    BY <2>1, <2>2 DEF Cert!Attribute, Opened, IsNext
  <2>4. Opened(s, line) \in CertObject
    BY <1>1, NoObject DEF Opened
  <2>5. line.name \in CertName /\ line.value \in Seq(Token)
    BY <1>7, LineIs
  <2>6. current \in CertObject
    BY <2>4, <2>5, WithIs
  <2>7. objects \in Seq(CertObject)
    BY <1>1, AppendProperties
  <2>8. pending \in CertName \cup {Cert!NoBlock}
    BY <2>5
  <2>9. ok => line.name \notin DOMAIN Opened(s, line)
    BY <2>2
  <2>10. /\ current = IF octal THEN Opened(s, line)
                      ELSE Cert!With(Opened(s, line), line.name, line.value)
         /\ objects = IF IsNext(s, line) THEN Append(s.objects, s.current) ELSE s.objects
         /\ pending = IF octal THEN line.name ELSE Cert!NoBlock
    BY DEF IsNext
  <2> HIDE DEF current, objects, pending, r, fine
  <2>11. /\ r.ok = ok /\ r.begun = s.begun /\ r.objects = objects /\ r.current = current
         /\ r.pending = pending /\ r.octal = s.octal /\ r \in CertState
    BY <1>1, <2>3, <2>6, <2>7, <2>8 DEF CertState
  <2>12. r.ok => AttributeRead(s, line, r)
    BY <1>7, <2>9, <2>10, <2>11 DEF AttributeRead
  <2> QED
    BY <1>7, <2>11, <2>12 DEF ReadWell
<1>8. ASSUME s.ok, s.pending = Cert!NoBlock, line.is \notin {"blank", "comment", "begin"},
             ~(line.is = "attribute" /\ s.begun)
      PROVE  Goal
  <2>1. r = [s EXCEPT !.ok = FALSE]
    BY <1>8 DEF Cert!ReadLine
  <2> QED
    BY <1>1, <2>1 DEF CertState
<1> HIDE DEF Goal
<1>9. Goal
  BY <1>2, <1>3, <1>4, <1>5, <1>6, <1>7, <1>8
<1> QED
  BY <1>9 DEF Goal

(* A row that is not octal stays in its block, which is refused with it.   *)
Spoilt(s) == s.pending # Cert!NoBlock /\ Cert!HasToken(s.octal, Cert!Malformed)

LEMMA StaysSpoilt ==
  ASSUME NEW s \in CertState, NEW line \in CertLine, NEW r \in CertState, ReadWell(s, line, r)
  PROVE  /\ Spoilt(s) => Spoilt(r)
         /\ s.pending # Cert!NoBlock /\ line.is \notin {"bytes", "blank", "end"} => Spoilt(r)
<1> DEFINE row == Cert!Row(line)
           both == s.octal \o row
<1>1. s.octal \in Seq(Token) /\ row \in Seq(Token)
  BY LineIs DEF CertState
<1> HIDE DEF row
<1>2. /\ Len(both) = Len(s.octal) + Len(row) /\ Len(s.octal) \in Nat /\ Len(row) \in Nat
      /\ \A i \in 1..Len(s.octal) : both[i] = s.octal[i]
      /\ \A i \in 1..Len(row) : both[Len(s.octal) + i] = row[i]
      /\ DOMAIN both = 1..Len(both) /\ DOMAIN s.octal = 1..Len(s.octal) /\ DOMAIN row = 1..Len(row)
  <2>1. both \in Seq(Token)
    BY <1>1, ConcatProperties
  <2> QED
    BY <1>1, <2>1, ConcatProperties, LenProperties
<1>3. Cert!HasToken(s.octal, Cert!Malformed) => Cert!HasToken(both, Cert!Malformed)
  <2> SUFFICES ASSUME NEW i \in DOMAIN s.octal, s.octal[i] = Cert!Malformed
               PROVE  Cert!HasToken(both, Cert!Malformed)
    BY DEF Cert!HasToken
  <2>1. i \in DOMAIN both /\ both[i] = Cert!Malformed
    BY <1>2
  <2> QED
    BY <2>1 DEF Cert!HasToken
<1>4. Cert!HasToken(row, Cert!Malformed) => Cert!HasToken(both, Cert!Malformed)
  <2> SUFFICES ASSUME NEW i \in DOMAIN row, row[i] = Cert!Malformed
               PROVE  Cert!HasToken(both, Cert!Malformed)
    BY DEF Cert!HasToken
  <2>1. PICK k : k = Len(s.octal) + i
    OBVIOUS
  <2>2. k \in DOMAIN both /\ both[k] = Cert!Malformed
    BY <1>2, <2>1
  <2> QED
    BY <2>2 DEF Cert!HasToken
<1>5. line.is \notin {"bytes", "blank"} => Cert!HasToken(row, Cert!Malformed)
  BY DEF Cert!HasToken, Cert!Row, row
<1>6. CASE s.pending = Cert!NoBlock
  BY <1>6 DEF Spoilt
<1>7. CASE RowRead(s, line, r)
  <2>1. r.pending # Cert!NoBlock /\ r.octal = both
    BY <1>7 DEF RowRead, row
  <2> QED
    BY <1>3, <1>4, <1>5, <2>1 DEF Spoilt
<1>8. CASE BlockRead(s, line, r)
  BY <1>8 DEF BlockRead, Spoilt
<1> QED
  BY <1>6, <1>7, <1>8 DEF ReadWell, NothingRead, AttributeRead

(* The states a store's text is read through when it is not refused.       *)
IsReading(text, g) ==
  /\ g[0] = Cert!Fresh /\ g[Len(text)].pending = Cert!NoBlock
  /\ \A n \in 0..Len(text) : g[n] \in CertState
  /\ \A n \in 1..Len(text) :
       /\ ReadWell(g[n - 1], text[n], g[n])
       /\ g[n - 1].pending # Cert!NoBlock => text[n].is # "attribute"

StoreEnd(text) == Cert!FoldLeft(Cert!ReadLine, Cert!Fresh, text)

LEMMA StoreRun ==
  ASSUME NEW text \in Seq(CertLine), StoreEnd(text).ok, StoreEnd(text).pending = Cert!NoBlock
  PROVE  \E g : IsReading(text, g) /\ g[Len(text)] = StoreEnd(text)
<1> DEFINE N == Len(text)
           turn(s, n) == Cert!ReadLine(s, text[n])
           move == [x \in CertState \X (1..N) |-> turn(x[1], x[2])]
           Folds(iter) ==
             iter = [c \in SUBSET (1..N) |->
                       IF c = {} THEN Cert!Fresh ELSE turn(iter[c \ {Highest(c)}], Highest(c))]
           it == CHOOSE iter : Folds(iter)
<1>1. N \in Nat /\ DOMAIN text = 1..N /\ \A n \in 1..N : text[n] \in CertLine
  BY ElementOfSeq
<1>2. StoreEnd(text) = it[1..N]
  BY <1>1 DEF StoreEnd, Cert!FoldLeft, Cert!MapThenFoldSet, Cert!Max, Highest
<1>3. \A s \in CertState, n \in 1..N :
        turn(s, n) \in CertState /\ (turn(s, n).ok => s.ok /\ ReadWell(s, text[n], turn(s, n)))
  BY <1>1, ReadOne
<1> HIDE DEF turn
<1>4. move \in Steps(N, CertState)
  BY <1>3 DEF Steps
<1>5. \A s \in CertState, n \in 1..N : move[<<s, n>>] = turn(s, n)
  OBVIOUS
<1> HIDE DEF move, N
<1>6. \A c \in SUBSET (1..N) : c # {} => Highest(c) \in 1..N /\ c \ {Highest(c)} \in SUBSET (1..N)
  BY <1>1, LastPosition
<1>7. Cert!Fresh \in CertState
  <2>1. <<>> \in Seq(CertObject) /\ <<>> \in Seq(Token) /\ <<>> \in CertObject
    BY EmptySeq, NoObject
  <2> QED
    BY <2>1 DEF CertState, Cert!Fresh
<1>8. Folds(it)
  <2>1. PICK h : h \in [SUBSET (1..N) -> CertState] /\ Recurs(h, N, CertState, Cert!Fresh, move)
    BY <1>1, <1>4, <1>7, FoldExists
  <2>2. \A c \in SUBSET (1..N) :
          h[c] = IF c = {} THEN Cert!Fresh ELSE turn(h[c \ {Highest(c)}], Highest(c))
    BY <1>5, <1>6, <2>1 DEF Recurs
  <2>3. Folds(h)
    BY <2>1, <2>2
  <2> HIDE DEF Folds
  <2> QED
    BY <2>3
<1> HIDE DEF it
<1>9. Recurs(it, N, CertState, Cert!Fresh, move)
  BY <1>5, <1>6, <1>8 DEF Recurs
<1>10. PICK g : IsRun(g, N, CertState, Cert!Fresh, move) /\ g[N] = it[1..N]
  BY <1>1, <1>4, <1>7, <1>9, FoldIs
<1>11. /\ g \in [0..N -> CertState] /\ g[0] = Cert!Fresh /\ g[N].ok /\ g[N].pending = Cert!NoBlock
       /\ g[N] = StoreEnd(text)
  BY <1>2, <1>10 DEF IsRun
<1>12. ASSUME NEW n \in 1..N
       PROVE  /\ n \in 0..N /\ n - 1 \in 0..N /\ g[n] \in CertState /\ g[n - 1] \in CertState
              /\ g[n].ok => g[n - 1].ok /\ ReadWell(g[n - 1], text[n], g[n])
  <2>1. n - 1 \in 0..N /\ n \in 0..N
    BY <1>1
  <2>2. g[n - 1] \in CertState /\ g[n] \in CertState /\ g[n] = move[<<g[n - 1], n>>]
    BY <1>10, <1>11, <2>1 DEF IsRun
  <2>3. g[n] = turn(g[n - 1], n)
    BY <1>5, <2>2
  <2> QED
    BY <1>3, <2>1, <2>2, <2>3
<1>13. \A n \in 0..N : g[n].ok /\ ~Spoilt(g[n])
  <2> DEFINE T == {m \in 0..N : g[N - m].ok /\ ~Spoilt(g[N - m])}
  <2>1. 0 \in T
    BY <1>1, <1>11 DEF Spoilt
  <2>2. ASSUME NEW m \in 1..N, m - 1 \in T PROVE m \in T
    <3>1. PICK n \in 1..N : n = N - (m - 1) /\ n - 1 = N - m
      BY <1>1
    <3>2. g[n].ok /\ ~Spoilt(g[n])
      BY <2>2, <3>1
    <3>3. g[n - 1].ok /\ ~Spoilt(g[n - 1])
      BY <1>1, <1>12, <3>2, StaysSpoilt
    <3>4. m \in 0..N
      BY <1>1
    <3> QED
      BY <3>1, <3>3, <3>4
  <2>3. \A m \in 0..N : m \in T
    <3> HIDE DEF T
    <3> QED
      BY <1>1, <2>1, <2>2, Climbs
  <2> TAKE n \in 0..N
  <2>4. PICK m \in 0..N : m = N - n /\ N - m = n
    BY <1>1
  <2> QED
    BY <2>3, <2>4
<1>14. ASSUME NEW n \in 1..N
       PROVE  /\ ReadWell(g[n - 1], text[n], g[n])
              /\ g[n - 1].pending # Cert!NoBlock => text[n].is # "attribute"
  BY <1>1, <1>12, <1>13, StaysSpoilt
<1>15. IsReading(text, g)
  BY <1>11, <1>14 DEF IsReading, N
<1> QED
  BY <1>11, <1>15 DEF N

Attributes(text, n) == {i \in 1..n : text[i].is = "attribute"}
RowsFrom(text, o, n) == [k \in 1..(n - o) |-> Cert!Row(text[o + k])]

(* Of the first n lines: the objects hold what the attribute lines say,    *)
(* that of the line o left out, whose block is open; none says it twice.   *)
Held(text, g, n, o) ==
  /\ \A i \in 0..n : Number(g[i]) \in 1..Number(g[n])
  /\ \A i \in Attributes(text, n) \ {o} :
       /\ text[i].name \in DOMAIN ObjectAt(g[n], Number(g[i]))
       /\ ObjectAt(g[n], Number(g[i]))[text[i].name] = Cert!ValueAt(text, i)
  /\ \A j \in 1..Number(g[n]) : \A name \in DOMAIN ObjectAt(g[n], j) :
       \E i \in Attributes(text, n) \ {o} : text[i].name = name /\ Number(g[i]) = j
  /\ \A i, k \in Attributes(text, n) :
       text[i].name = text[k].name /\ Number(g[i]) = Number(g[k]) => i = k

NoneOpen(text, g, n, o) ==
  /\ o = 0 /\ g[n].octal = <<>>
  /\ Attributes(text, n) # {} => g[n].current # <<>>

BlockOpen(text, g, n, o) ==
  /\ o \in Attributes(text, n) /\ text[o].kind = "MULTILINE_OCTAL"
  /\ text[o].name = g[n].pending /\ Number(g[o]) = Number(g[n])
  /\ \A d \in o..n : text[d].is # "end"
  /\ g[n].octal = Cert!FlattenSeq(RowsFrom(text, o, n))

Kept(text, g, n, o) ==
  /\ Held(text, g, n, o)
  /\ IF g[n].pending = Cert!NoBlock THEN NoneOpen(text, g, n, o) ELSE BlockOpen(text, g, n, o)

LEMMA SameObjects ==
  ASSUME NEW s \in CertState, NEW r \in CertState, r.objects = s.objects
  PROVE  /\ Number(s) \in Nat /\ Number(s) >= 1 /\ Number(r) = Number(s)
         /\ \A j \in 1..Number(s) : j # Number(s) => ObjectAt(r, j) = ObjectAt(s, j)
         /\ ObjectAt(s, Number(s)) = s.current /\ ObjectAt(r, Number(r)) = r.current
<1>1. Len(s.objects) \in Nat
  BY LenProperties DEF CertState
<1> QED
  BY <1>1 DEF Number, ObjectAt

LEMMA NextObject ==
  ASSUME NEW s \in CertState, NEW r \in CertState, r.objects = Append(s.objects, s.current)
  PROVE  /\ Number(s) \in Nat /\ Number(s) >= 1 /\ Number(r) = Number(s) + 1
         /\ \A j \in 1..Number(s) : ObjectAt(r, j) = ObjectAt(s, j)
         /\ ObjectAt(s, Number(s)) = s.current /\ ObjectAt(r, Number(r)) = r.current
<1>1. /\ Len(s.objects) \in Nat /\ Len(r.objects) = Len(s.objects) + 1
      /\ r.objects[Len(s.objects) + 1] = s.current
      /\ \A j \in 1..Len(s.objects) : r.objects[j] = s.objects[j]
  BY AppendProperties, LenProperties DEF CertState
<1> QED
  BY <1>1 DEF Number, ObjectAt

(* What a block's rows amount to, at the line that ends it.                *)
LEMMA BlockValue ==
  ASSUME NEW text, NEW o \in Nat, NEW n \in Nat, Len(text) \in Nat,
         o < n, n <= Len(text), text[o].kind = "MULTILINE_OCTAL", text[n].is = "end",
         \A d \in o..(n - 1) : text[d].is # "end"
  PROVE  Cert!ValueAt(text, o) = Cert!FlattenSeq(RowsFrom(text, o, n - 1))
<1> DEFINE Ends(e) == text[e].is = "end" /\ \A d \in o..(e - 1) : text[d].is # "end"
           last == CHOOSE e \in o..Len(text) : Ends(e)
<1>1. n \in o..Len(text) /\ Ends(n)
  OBVIOUS
<1>2. \A e \in o..Len(text) : Ends(e) => e = n
  <2> SUFFICES ASSUME NEW e \in o..Len(text), Ends(e) PROVE e = n
    OBVIOUS
  <2>1. ~(n < e)
    <3> SUFFICES ASSUME n < e PROVE FALSE
      OBVIOUS
    <3>1. n \in o..(e - 1)
      OBVIOUS
    <3> QED
      BY <3>1
  <2>2. ~(e < n)
    <3> SUFFICES ASSUME e < n PROVE FALSE
      OBVIOUS
    <3>1. e \in o..(n - 1)
      OBVIOUS
    <3> QED
      BY <3>1
  <2> QED
    BY <2>1, <2>2
<1>3. last = n
  <2> HIDE DEF Ends
  <2> QED
    BY <1>1, <1>2
<1>5. Cert!ValueAt(text, o)
        = Cert!FlattenSeq([k \in 1..(last - o - 1) |-> Cert!Row(text[o + k])])
  BY DEF Cert!ValueAt
<1> HIDE DEF last
<1>4. last - o - 1 = (n - 1) - o
  <2>1. n - o - 1 = (n - 1) - o
    OBVIOUS
  <2> QED
    BY <1>3, <2>1
<1> QED
  BY <1>4, <1>5 DEF RowsFrom

LEMMA AttributesMore ==
  ASSUME NEW text, NEW n \in Nat \ {0}
  PROVE  Attributes(text, n)
           = Attributes(text, n - 1) \cup IF text[n].is = "attribute" THEN {n} ELSE {}
<1>1. 1..n = 1..(n - 1) \cup {n}
  OBVIOUS
<1> QED
  BY <1>1 DEF Attributes

LEMMA HeldSame ==
  ASSUME NEW text, NEW g, NEW m \in Nat, NEW n \in Nat, n = m + 1, NEW o,
         g[m] \in CertState, g[n] \in CertState, text[n].is # "attribute",
         g[n].objects = g[m].objects, g[n].current = g[m].current, Held(text, g, m, o)
  PROVE  Held(text, g, n, o) /\ Number(g[n]) = Number(g[m]) /\ Attributes(text, n) = Attributes(text, m)
<1>1. Attributes(text, n) = Attributes(text, m)
  <2>1. n \in Nat \ {0} /\ n - 1 = m
    OBVIOUS
  <2>2. Attributes(text, n) = Attributes(text, n - 1) \cup {}
    BY <2>1, AttributesMore
  <2> QED
    BY <2>1, <2>2
<1>2. Number(g[n]) = Number(g[m]) /\ Number(g[m]) \in Nat /\ Number(g[m]) >= 1
  BY SameObjects
<1>3. \A j : ObjectAt(g[n], j) = ObjectAt(g[m], j)
  BY DEF ObjectAt
<1>4. \A i \in 0..n : i \in 0..m \/ i = n
  OBVIOUS
<1>5. \A i \in 0..n : Number(g[i]) \in 1..Number(g[n])
  BY <1>2, <1>4 DEF Held
<1> QED
  BY <1>1, <1>2, <1>3, <1>5 DEF Held

LEMMA KeepRow ==
  ASSUME NEW text \in Seq(CertLine), NEW g, NEW m \in Nat, NEW n \in 1..Len(text), n = m + 1, NEW o,
         g[m] \in CertState, g[n] \in CertState, text[n].is # "attribute",
         RowRead(g[m], text[n], g[n]), Kept(text, g, m, o)
  PROVE  Kept(text, g, n, o)
<1> DEFINE files == RowsFrom(text, o, m)
           row == Cert!Row(text[n])
<1>1. /\ g[m].pending # Cert!NoBlock /\ text[n].is # "end"
      /\ g[n].objects = g[m].objects /\ g[n].current = g[m].current /\ g[n].pending = g[m].pending
      /\ g[n].octal = g[m].octal \o row
  BY DEF RowRead
<1>2. Held(text, g, m, o) /\ BlockOpen(text, g, m, o)
  BY <1>1 DEF Kept
<1>3. /\ Held(text, g, n, o) /\ Number(g[n]) = Number(g[m])
      /\ Attributes(text, n) = Attributes(text, m)
  BY <1>1, <1>2, HeldSame
<1>4. o \in 1..m /\ g[m].octal = Cert!FlattenSeq(files)
  BY <1>2 DEF BlockOpen, Attributes
<1>5. \A k \in 1..Len(text) : Cert!Row(text[k]) \in Seq(Token)
  BY LineIs, ElementOfSeq
<1>6. PICK c \in Nat : c = m - o
  BY <1>4
<1>7. files \in Seq(Seq(Token)) /\ row \in Seq(Token) /\ Len(files) = c
  <2>1. \A k \in 1..c : o + k \in 1..Len(text)
    BY <1>4, <1>6
  <2>2. files = [k \in 1..c |-> Cert!Row(text[o + k])]
    BY <1>6 DEF RowsFrom
  <2>3. files \in [1..c -> Seq(Token)]
    BY <1>5, <2>1, <2>2
  <2> HIDE DEF files
  <2>4. files \in Seq(Seq(Token))
    BY <2>3
  <2>5. Len(files) = c
    BY <2>3, <2>4, LenProperties
  <2> QED
    BY <1>5, <2>4, <2>5
<1>8. RowsFrom(text, o, n) = Append(files, row)
  <2>1. n - o = c + 1 /\ o + (c + 1) = n
    BY <1>4, <1>6
  <2>2. RowsFrom(text, o, n) = [k \in 1..(c + 1) |-> Cert!Row(text[o + k])]
    BY <2>1 DEF RowsFrom
  <2>3. \A k \in 1..c : files[k] = Cert!Row(text[o + k])
    BY <1>6 DEF RowsFrom
  <2>4. \A k \in 1..(c + 1) : k \in 1..c \/ k = c + 1
    OBVIOUS
  <2> DEFINE more == Append(files, row)
  <2> HIDE DEF files, row
  <2>5. /\ more \in [1..(c + 1) -> Seq(Token)]
        /\ more[c + 1] = row /\ \A k \in 1..c : more[k] = files[k]
    <3>1. more \in Seq(Seq(Token)) /\ Len(more) = c + 1
      BY <1>7, AppendProperties
    <3>2. more[c + 1] = row /\ \A k \in 1..c : more[k] = files[k]
      BY <1>7, AppendProperties
    <3> QED
      BY <3>1, <3>2, LenProperties
  <2>6. \A k \in 1..(c + 1) : more[k] = Cert!Row(text[o + k])
    BY <2>1, <2>3, <2>4, <2>5 DEF row
  <2>7. more = [k \in 1..(c + 1) |-> more[k]]
    BY <2>5
  <2> HIDE DEF more
  <2>8. RowsFrom(text, o, n) = more
    BY <2>2, <2>6, <2>7
  <2> QED
    BY <2>8 DEF more
<1>9. g[n].octal = Cert!FlattenSeq(RowsFrom(text, o, n))
  <2> HIDE DEF files, row
  <2> QED
    BY <1>1, <1>4, <1>7, <1>8, FlattenMore
<1>10. \A d \in o..n : text[d].is # "end"
  <2>1. \A d \in o..n : d \in o..m \/ d = n
    BY <1>4
  <2> QED
    BY <1>1, <1>2, <2>1 DEF BlockOpen
<1>11. BlockOpen(text, g, n, o)
  BY <1>1, <1>2, <1>3, <1>9, <1>10 DEF BlockOpen
<1> QED
  BY <1>1, <1>3, <1>11 DEF Kept

LEMMA KeepNothing ==
  ASSUME NEW text, NEW g, NEW m \in Nat, NEW n \in Nat, n = m + 1, NEW o,
         g[m] \in CertState, g[n] \in CertState,
         NothingRead(g[m], text[n], g[n]), Kept(text, g, m, o)
  PROVE  Kept(text, g, n, o)
<1>1. /\ g[m].pending = Cert!NoBlock /\ text[n].is # "attribute"
      /\ g[n].objects = g[m].objects /\ g[n].current = g[m].current /\ g[n].pending = g[m].pending
      /\ g[n].octal = g[m].octal
  BY DEF NothingRead
<1>2. Held(text, g, m, o) /\ NoneOpen(text, g, m, o)
  BY <1>1 DEF Kept
<1>3. Held(text, g, n, o) /\ Attributes(text, n) = Attributes(text, m)
  BY <1>1, <1>2, HeldSame
<1> QED
  BY <1>1, <1>2, <1>3 DEF Kept, NoneOpen

LEMMA KeepBlock ==
  ASSUME NEW text, NEW g, NEW m \in Nat, NEW n \in 1..Len(text), n = m + 1, NEW o,
         Len(text) \in Nat, g[m] \in CertState, g[n] \in CertState,
         BlockRead(g[m], text[n], g[n]), Kept(text, g, m, o)
  PROVE  Kept(text, g, n, 0)
<1> DEFINE s == g[m]
           r == g[n]
           K == Number(s)
           A == Attributes(text, m)
<1>1. /\ s.pending # Cert!NoBlock /\ text[n].is = "end"
      /\ r.objects = s.objects /\ r.current = Cert!With(s.current, s.pending, s.octal)
      /\ r.pending = Cert!NoBlock /\ r.octal = <<>>
  BY DEF BlockRead
<1>2. Held(text, g, m, o) /\ BlockOpen(text, g, m, o)
  BY <1>1 DEF Kept
<1>3. s.current \in CertObject /\ s.pending \in CertName /\ s.octal \in Seq(Token)
  BY <1>1 DEF CertState
<1>4. /\ r.current # <<>> /\ DOMAIN r.current = DOMAIN s.current \cup {s.pending}
      /\ r.current[s.pending] = s.octal
      /\ \A x \in DOMAIN s.current \ {s.pending} : r.current[x] = s.current[x]
  <2>1. PICK obj \in CertObject, name \in CertName, value \in Seq(Token) :
          obj = s.current /\ name = s.pending /\ value = s.octal
    BY <1>3
  <2>2. PICK with : with = r.current
    OBVIOUS
  <2>3. with = Cert!With(obj, name, value)
    BY <1>1, <2>1, <2>2
  <2>4. with = [x \in DOMAIN obj \cup {name} |-> IF x = name THEN value ELSE obj[x]]
    BY <2>3 DEF Cert!With
  <2>5. /\ DOMAIN with = DOMAIN obj \cup {name} /\ with[name] = value
        /\ \A x \in DOMAIN obj \ {name} : with[x] = obj[x]
    BY <2>4
  <2>6. with # <<>>
    BY <2>3, WithIs
  <2> HIDE DEF s, r
  <2> QED
    BY <2>1, <2>2, <2>5, <2>6
<1>5. /\ K \in Nat /\ K >= 1 /\ Number(r) = K
      /\ \A j \in 1..K : j # K => ObjectAt(r, j) = ObjectAt(s, j)
      /\ ObjectAt(s, K) = s.current /\ ObjectAt(r, K) = r.current
  BY <1>1, SameObjects
<1>6. Attributes(text, n) = A
  <2>1. n \in Nat \ {0} /\ n - 1 = m
    OBVIOUS
  <2>2. Attributes(text, n) = Attributes(text, n - 1) \cup {}
    BY <1>1, <2>1, AttributesMore
  <2> QED
    BY <2>1, <2>2
<1>7. o \in A /\ A \in SUBSET (1..m) /\ 0 \notin A
  BY <1>2 DEF BlockOpen, Attributes
<1>8. Cert!ValueAt(text, o) = s.octal
  <2>1. o \in Nat /\ n \in Nat /\ o < n /\ n <= Len(text) /\ n - 1 = m
    BY <1>7
  <2>2. Cert!ValueAt(text, o) = Cert!FlattenSeq(RowsFrom(text, o, m))
    BY <1>1, <1>2, <2>1, BlockValue DEF BlockOpen
  <2> QED
    BY <1>2, <2>2 DEF BlockOpen
<1>9. text[o].name = s.pending /\ Number(g[o]) = K
  BY <1>2 DEF BlockOpen
<1>10. /\ \A i \in 0..m : Number(g[i]) \in 1..K
       /\ \A i \in A \ {o} : /\ text[i].name \in DOMAIN ObjectAt(s, Number(g[i]))
                             /\ ObjectAt(s, Number(g[i]))[text[i].name] = Cert!ValueAt(text, i)
       /\ \A j \in 1..K : \A name \in DOMAIN ObjectAt(s, j) :
            \E i \in A \ {o} : text[i].name = name /\ Number(g[i]) = j
       /\ \A i, k \in A : text[i].name = text[k].name /\ Number(g[i]) = Number(g[k]) => i = k
  BY <1>2 DEF Held
<1>11. \A i \in 0..n : Number(g[i]) \in 1..Number(r)
  <2>1. \A i \in 0..n : i \in 0..m \/ i = n
    OBVIOUS
  <2> QED
    BY <1>5, <1>10, <2>1
<1>12. \A i \in A : Number(g[i]) \in 1..K
  <2>1. \A i \in A : i \in 0..m
    BY <1>7
  <2> QED
    BY <1>10, <2>1
<1> HIDE DEF s, r, K, A
<1>13. ASSUME NEW i \in A \ {0}
       PROVE  /\ text[i].name \in DOMAIN ObjectAt(r, Number(g[i]))
              /\ ObjectAt(r, Number(g[i]))[text[i].name] = Cert!ValueAt(text, i)
  <2>1. CASE i = o
    BY <1>4, <1>5, <1>8, <1>9, <2>1
  <2>2. CASE i # o /\ Number(g[i]) = K
    <3>1. text[i].name # s.pending
      BY <1>7, <1>9, <1>10, <2>2
    <3>2. text[i].name \in DOMAIN s.current /\ s.current[text[i].name] = Cert!ValueAt(text, i)
      BY <1>5, <1>10, <2>2
    <3> QED
      BY <1>4, <1>5, <2>2, <3>1, <3>2
  <2>3. CASE i # o /\ Number(g[i]) # K
    BY <1>5, <1>10, <1>12, <2>3
  <2> QED
    BY <2>1, <2>2, <2>3
<1>14. ASSUME NEW j \in 1..K, NEW name \in DOMAIN ObjectAt(r, j)
       PROVE  \E i \in A \ {0} : text[i].name = name /\ Number(g[i]) = j
  <2>1. CASE name \in DOMAIN ObjectAt(s, j)
    BY <1>7, <1>10, <2>1
  <2>2. CASE name \notin DOMAIN ObjectAt(s, j)
    <3>1. j = K /\ name = s.pending
      BY <1>4, <1>5, <2>2
    <3> QED
      BY <1>7, <1>9, <3>1
  <2> QED
    BY <2>1, <2>2
<1>15. Held(text, g, n, 0)
  BY <1>5, <1>6, <1>10, <1>11, <1>13, <1>14 DEF Held, r
<1>16. NoneOpen(text, g, n, 0)
  BY <1>1, <1>4 DEF NoneOpen, r
<1> QED
  BY <1>1, <1>15, <1>16 DEF Kept, r

LEMMA KeepAttribute ==
  ASSUME NEW text \in Seq(CertLine), NEW g, NEW m \in Nat, NEW n \in 1..Len(text), n = m + 1, NEW o,
         g[m] \in CertState, g[n] \in CertState,
         AttributeRead(g[m], text[n], g[n]), Kept(text, g, m, o)
  PROVE  \E p : Kept(text, g, n, p)
<1> DEFINE s == g[m]
           r == g[n]
           line == text[n]
           K == Number(s)
           L == Number(r)
           A == Attributes(text, m)
           octal == line.kind = "MULTILINE_OCTAL"
           open == Opened(s, line)
           p == IF octal THEN n ELSE 0
<1>1. /\ s.pending = Cert!NoBlock /\ line.is = "attribute" /\ line.name \notin DOMAIN open
      /\ r.objects = IF IsNext(s, line) THEN Append(s.objects, s.current) ELSE s.objects
      /\ r.octal = s.octal
      /\ octal => r.current = open /\ r.pending = line.name
      /\ ~octal => r.current = Cert!With(open, line.name, line.value) /\ r.pending = Cert!NoBlock
  BY DEF AttributeRead
<1>2. Held(text, g, m, o) /\ NoneOpen(text, g, m, o)
  BY <1>1 DEF Kept
<1>3. line.name \in CertName /\ line.name # Cert!NoBlock /\ line.value \in Seq(Token)
  BY <1>1, LineIs, ElementOfSeq DEF CertName
<1>4. /\ s.current \in CertObject /\ open \in CertObject
      /\ IsNext(s, line) => open = <<>> /\ DOMAIN open = {}
      /\ ~IsNext(s, line) => open = s.current
  BY NoObject DEF CertState, Opened
<1>5. ASSUME ~octal
      PROVE  /\ r.current # <<>> /\ DOMAIN r.current = DOMAIN open \cup {line.name}
             /\ r.current[line.name] = line.value
             /\ \A x \in DOMAIN open : r.current[x] = open[x]
  <2>1. PICK obj \in CertObject, name \in CertName, value \in Seq(Token) :
          obj = open /\ name = line.name /\ value = line.value
    BY <1>3, <1>4
  <2>2. PICK with : with = r.current
    OBVIOUS
  <2>3. with = Cert!With(obj, name, value) /\ name \notin DOMAIN obj
    BY <1>1, <1>5, <2>1, <2>2
  <2>4. with = [x \in DOMAIN obj \cup {name} |-> IF x = name THEN value ELSE obj[x]]
    BY <2>3 DEF Cert!With
  <2>5. /\ DOMAIN with = DOMAIN obj \cup {name} /\ with[name] = value
        /\ \A x \in DOMAIN obj : with[x] = obj[x]
    BY <2>3, <2>4
  <2>6. with # <<>>
    BY <2>3, WithIs
  <2> HIDE DEF s, r, line, open
  <2> QED
    BY <2>1, <2>2, <2>5, <2>6
<1>6. /\ K \in Nat /\ K >= 1 /\ L = K + (IF IsNext(s, line) THEN 1 ELSE 0)
      /\ \A j \in 1..K : j # L => ObjectAt(r, j) = ObjectAt(s, j)
      /\ ObjectAt(s, K) = s.current /\ ObjectAt(r, L) = r.current
  <2>1. CASE IsNext(s, line)
    BY <1>1, <2>1, NextObject
  <2>2. CASE ~IsNext(s, line)
    BY <1>1, <2>2, SameObjects
  <2> QED
    BY <2>1, <2>2
<1>7. Attributes(text, n) = A \cup {n}
  <2>1. n \in Nat \ {0} /\ n - 1 = m
    OBVIOUS
  <2>2. Attributes(text, n) = Attributes(text, n - 1) \cup {n}
    BY <1>1, <2>1, AttributesMore
  <2> QED
    BY <2>1, <2>2
<1>8. A \in SUBSET (1..m) /\ 0 \notin A /\ n \notin A
  BY DEF Attributes
<1>9. /\ \A i \in 0..m : Number(g[i]) \in 1..K
      /\ \A i \in A : /\ text[i].name \in DOMAIN ObjectAt(s, Number(g[i]))
                      /\ ObjectAt(s, Number(g[i]))[text[i].name] = Cert!ValueAt(text, i)
      /\ \A j \in 1..K : \A name \in DOMAIN ObjectAt(s, j) :
           \E i \in A : text[i].name = name /\ Number(g[i]) = j
      /\ \A i, k \in A : text[i].name = text[k].name /\ Number(g[i]) = Number(g[k]) => i = k
  <2>1. o \notin A /\ A \ {o} = A
    BY <1>2, <1>8 DEF NoneOpen
  <2> QED
    BY <1>2, <2>1 DEF Held
<1>10. \A i \in 0..n : Number(g[i]) \in 1..L
  <2>1. \A i \in 0..n : i \in 0..m \/ i = n
    OBVIOUS
  <2> QED
    BY <1>6, <1>9, <2>1
<1>11. \A i \in A : Number(g[i]) \in 1..K
  <2>1. \A i \in A : i \in 0..m
    BY <1>8
  <2> QED
    BY <1>9, <2>1
<1>12. ~octal => Cert!ValueAt(text, n) = line.value
  BY DEF Cert!ValueAt
<1> HIDE DEF s, r, line, K, L, A, octal, open
<1>13. \A i \in A : Number(g[i]) = L => ~IsNext(s, line) /\ K = L
  BY <1>6, <1>11
<1>14. ASSUME NEW i \in A
       PROVE  /\ text[i].name \in DOMAIN ObjectAt(r, Number(g[i]))
              /\ ObjectAt(r, Number(g[i]))[text[i].name] = Cert!ValueAt(text, i)
  <2>1. CASE Number(g[i]) = L
    <3>1. open = s.current /\ K = L /\ ObjectAt(s, L) = open
      BY <1>4, <1>6, <1>13, <2>1
    <3>2. text[i].name \in DOMAIN open /\ open[text[i].name] = Cert!ValueAt(text, i)
      BY <1>9, <2>1, <3>1
    <3>3. text[i].name \in DOMAIN r.current /\ r.current[text[i].name] = open[text[i].name]
      BY <1>1, <1>5, <3>2
    <3> QED
      BY <1>6, <2>1, <3>2, <3>3
  <2>2. CASE Number(g[i]) # L
    BY <1>6, <1>9, <1>11, <2>2
  <2> QED
    BY <2>1, <2>2
<1>15. ASSUME ~octal
       PROVE  /\ text[n].name \in DOMAIN ObjectAt(r, Number(g[n]))
              /\ ObjectAt(r, Number(g[n]))[text[n].name] = Cert!ValueAt(text, n)
  <2>1. Number(g[n]) = L /\ text[n].name = line.name
    BY DEF L, r, line
  <2> QED
    BY <1>5, <1>6, <1>12, <1>15, <2>1
<1>16. ASSUME NEW j \in 1..L, NEW name \in DOMAIN ObjectAt(r, j)
       PROVE  \/ \E i \in A : text[i].name = name /\ Number(g[i]) = j
              \/ ~octal /\ text[n].name = name /\ Number(g[n]) = j
  <2>1. Number(g[n]) = L /\ text[n].name = line.name
    BY DEF L, r, line
  <2>2. CASE j # L
    <3>1. j \in 1..K /\ ObjectAt(r, j) = ObjectAt(s, j)
      BY <1>6, <2>2
    <3> QED
      BY <1>9, <3>1
  <2>3. CASE j = L /\ name \in DOMAIN open
    <3>1. ~IsNext(s, line) /\ open = s.current
      BY <1>4, <2>3
    <3>2. j \in 1..K /\ ObjectAt(s, j) = open
      BY <1>6, <2>3, <3>1
    <3> QED
      BY <1>9, <2>3, <3>2
  <2>4. CASE j = L /\ name \notin DOMAIN open
    <3>1. name \in DOMAIN r.current
      BY <1>6, <2>4
    <3>2. ~octal /\ name = line.name
      BY <1>1, <1>5, <2>4, <3>1
    <3> QED
      BY <2>1, <2>4, <3>2
  <2> QED
    BY <2>2, <2>3, <2>4
<1>17. ASSUME NEW i \in A, text[i].name = text[n].name, Number(g[i]) = Number(g[n]) PROVE FALSE
  <2>1. Number(g[n]) = L /\ text[n].name = line.name
    BY DEF L, r, line
  <2>2. open = s.current /\ ObjectAt(s, Number(g[i])) = open
    BY <1>4, <1>6, <1>13, <1>17, <2>1
  <2> QED
    BY <1>1, <1>9, <1>17, <2>1, <2>2
<1>18. (A \cup {n}) \ {p} = A \cup IF octal THEN {} ELSE {n}
  BY <1>8
<1>19. Held(text, g, n, p)
  <2>1. \A i \in (A \cup {n}) \ {p} :
          /\ text[i].name \in DOMAIN ObjectAt(r, Number(g[i]))
          /\ ObjectAt(r, Number(g[i]))[text[i].name] = Cert!ValueAt(text, i)
    BY <1>14, <1>15, <1>18
  <2>2. \A j \in 1..L : \A name \in DOMAIN ObjectAt(r, j) :
          \E i \in (A \cup {n}) \ {p} : text[i].name = name /\ Number(g[i]) = j
    BY <1>16, <1>18
  <2>3. \A i, k \in A \cup {n} :
          text[i].name = text[k].name /\ Number(g[i]) = Number(g[k]) => i = k
    BY <1>9, <1>17
  <2> HIDE DEF p
  <2> QED
    BY <1>7, <1>10, <2>1, <2>2, <2>3 DEF Held, r, L
<1>20. CASE octal
  <2>1. RowsFrom(text, n, n) = <<>>
    <3>1. 1..(n - n) = {}
      OBVIOUS
    <3>2. RowsFrom(text, n, n) = [k \in {} |-> Cert!Row(text[n + k])]
      BY <3>1 DEF RowsFrom
    <3> QED
      BY <3>2
  <2>2. Cert!FlattenSeq(<<>>) = <<>>
    BY DEF Cert!FlattenSeq
  <2>3. \A d \in n..n : text[d].is # "end"
    <3>1. \A d \in n..n : d = n
      OBVIOUS
    <3> QED
      BY <1>1, <3>1 DEF line
  <2>4. g[n].octal = <<>>
    BY <1>1, <1>2 DEF NoneOpen, s, r
  <2>5. BlockOpen(text, g, n, n)
    BY <1>1, <1>7, <1>20, <2>1, <2>2, <2>3, <2>4 DEF BlockOpen, r, line, octal
  <2>6. g[n].pending # Cert!NoBlock
    BY <1>1, <1>3, <1>20 DEF r
  <2> QED
    BY <1>19, <1>20, <2>5, <2>6 DEF Kept
<1>21. CASE ~octal
  <2>1. NoneOpen(text, g, n, 0)
    BY <1>1, <1>2, <1>5, <1>21 DEF NoneOpen, s, r
  <2>2. g[n].pending = Cert!NoBlock
    BY <1>1, <1>21 DEF r
  <2> QED
    BY <1>19, <1>21, <2>1, <2>2 DEF Kept
<1> QED
  BY <1>20, <1>21

LEMMA KeptAll ==
  ASSUME NEW text \in Seq(CertLine), NEW g, IsReading(text, g)
  PROVE  \A n \in 0..Len(text) : \E o : Kept(text, g, n, o)
<1> DEFINE N == Len(text)
           T == {n \in 0..N : \E o : Kept(text, g, n, o)}
<1>1. N \in Nat
  OBVIOUS
<1>2. Kept(text, g, 0, 0)
  <2>1. g[0] = Cert!Fresh /\ g[0].objects = <<>> /\ g[0].current = <<>>
        /\ g[0].pending = Cert!NoBlock /\ g[0].octal = <<>>
    BY DEF IsReading, Cert!Fresh
  <2>2. Attributes(text, 0) = {}
    BY DEF Attributes
  <2>3. Number(g[0]) = 1 /\ DOMAIN ObjectAt(g[0], 1) = {}
    BY <2>1, EmptySeq, NoObject DEF Number, ObjectAt
  <2>4. \A i \in 0..0 : Number(g[i]) \in 1..Number(g[0])
    <3>1. \A i \in 0..0 : i = 0
      OBVIOUS
    <3> QED
      BY <2>3, <3>1
  <2>5. \A j \in 1..Number(g[0]) : DOMAIN ObjectAt(g[0], j) = {}
    <3>1. \A j \in 1..1 : j = 1
      OBVIOUS
    <3> QED
      BY <2>3, <3>1
  <2>6. Held(text, g, 0, 0)
    BY <2>2, <2>4, <2>5 DEF Held
  <2>7. NoneOpen(text, g, 0, 0)
    BY <2>1, <2>2 DEF NoneOpen
  <2> QED
    BY <2>1, <2>6, <2>7 DEF Kept
<1>3. ASSUME NEW n \in 1..N, n - 1 \in T PROVE n \in T
  <2>1. PICK m \in Nat : m = n - 1 /\ n = m + 1 /\ m \in 0..N /\ n \in 0..N
    BY <1>1
  <2>2. /\ g[m] \in CertState /\ g[n] \in CertState /\ ReadWell(g[m], text[n], g[n])
        /\ g[m].pending # Cert!NoBlock => text[n].is # "attribute"
    BY <2>1 DEF IsReading
  <2>3. PICK o : Kept(text, g, m, o)
    BY <1>3, <2>1
  <2>4. \E p : Kept(text, g, n, p)
    <3>1. CASE RowRead(g[m], text[n], g[n])
      <4>1. text[n].is # "attribute"
        BY <2>2, <3>1 DEF RowRead
      <4> QED
        BY <2>1, <2>2, <2>3, <3>1, <4>1, KeepRow
    <3>2. CASE BlockRead(g[m], text[n], g[n])
      BY <1>1, <2>1, <2>2, <2>3, <3>2, KeepBlock
    <3>3. CASE NothingRead(g[m], text[n], g[n])
      <4>1. n \in Nat
        BY <2>1
      <4> QED
        BY <2>1, <2>2, <2>3, <3>3, <4>1, KeepNothing
    <3>4. CASE AttributeRead(g[m], text[n], g[n])
      BY <2>1, <2>2, <2>3, <3>4, KeepAttribute
    <3> QED
      BY <2>2, <3>1, <3>2, <3>3, <3>4 DEF ReadWell
  <2> QED
    BY <2>1, <2>4
<1>4. \A n \in 0..N : n \in T
  <2>1. 0 \in T
    BY <1>1, <1>2
  <2> HIDE DEF T
  <2> QED
    BY <1>1, <1>3, <2>1, Climbs
<1> QED
  BY <1>4

(* An object is opened at each CKA_CLASS line that follows an attribute,   *)
(* and nowhere else.                                                       *)
LEMMA NumberSteps ==
  ASSUME NEW text \in Seq(CertLine), NEW g, IsReading(text, g), NEW n \in 1..Len(text)
  PROVE  /\ Number(g[n - 1]) \in Nat
         /\ ~Cert!IsHead(text[n]) => Number(g[n]) = Number(g[n - 1])
         /\ Cert!IsHead(text[n]) /\ Attributes(text, n - 1) # {}
               => Number(g[n]) = Number(g[n - 1]) + 1
<1> DEFINE s == g[n - 1]
           r == g[n]
           line == text[n]
<1>1. n - 1 \in 0..Len(text) /\ n \in 0..Len(text)
  OBVIOUS
<1>2. /\ s \in CertState /\ r \in CertState /\ ReadWell(s, line, r)
      /\ s.pending # Cert!NoBlock => line.is # "attribute"
  BY <1>1 DEF IsReading
<1>3. PICK o : Kept(text, g, n - 1, o)
  BY <1>1, KeptAll
<1>4. s.pending = Cert!NoBlock /\ Attributes(text, n - 1) # {} => s.current # <<>>
  BY <1>3 DEF Kept, NoneOpen
<1> HIDE DEF s, r, line
<1>5. ASSUME r.objects = s.objects PROVE Number(s) \in Nat /\ Number(r) = Number(s)
  BY <1>2, <1>5, SameObjects
<1>6. ASSUME r.objects = Append(s.objects, s.current)
      PROVE  Number(s) \in Nat /\ Number(r) = Number(s) + 1
  BY <1>2, <1>6, NextObject
<1>7. CASE AttributeRead(s, line, r)
  <2>1. IsNext(s, line) <=> Cert!IsHead(line) /\ s.current # <<>>
    BY <1>7 DEF AttributeRead, IsNext, Cert!IsHead
  <2>2. s.pending = Cert!NoBlock
        /\ r.objects = IF IsNext(s, line) THEN Append(s.objects, s.current) ELSE s.objects
    BY <1>7 DEF AttributeRead
  <2> QED
    BY <1>4, <1>5, <1>6, <2>1, <2>2 DEF s, r, line
<1>8. CASE ~AttributeRead(s, line, r)
  <2>1. r.objects = s.objects /\ line.is # "attribute"
    BY <1>2, <1>8 DEF ReadWell, RowRead, BlockRead, NothingRead
  <2> QED
    BY <1>5, <2>1 DEF s, r, line, Cert!IsHead
<1> QED
  BY <1>7, <1>8

(* The lines of one object are those of one stretch.                       *)
LEMMA StretchIs ==
  ASSUME NEW text \in Seq(CertLine), NEW g, IsReading(text, g),
         NEW h \in Cert!Heads(text), NEW i \in Attributes(text, Len(text))
  PROVE  i \in Cert!Stretch(text, h) <=> Number(g[i]) = Number(g[h])
<1> DEFINE N == Len(text)
           A == Attributes(text, N)
           H == Cert!Heads(text)
<1>1. N \in Nat /\ DOMAIN text = 1..N
  OBVIOUS
<1>2. H \in SUBSET A /\ A \in SUBSET (1..N) /\ \A k \in 1..N : k \in H <=> Cert!IsHead(text[k])
  BY <1>1 DEF Cert!Heads, Cert!IsHead, Attributes
<1>3. \A k \in 0..N : \A j \in 0..k : Number(g[j]) \in 1..Number(g[k])
  BY KeptAll DEF Kept, Held
<1>4. ASSUME NEW k \in H, NEW a \in A, a < k PROVE Number(g[a]) < Number(g[k])
  <2>1. /\ k \in 1..N /\ k - 1 \in 0..N /\ a \in 0..(k - 1) /\ Cert!IsHead(text[k])
        /\ a \in Attributes(text, k - 1)
    BY <1>1, <1>2, <1>4 DEF Attributes
  <2>2. Number(g[k]) = Number(g[k - 1]) + 1 /\ Number(g[k - 1]) \in Nat
    BY <2>1, NumberSteps
  <2>3. Number(g[a]) \in 1..Number(g[k - 1])
    BY <1>3, <2>1
  <2> QED
    BY <2>2, <2>3
<1>5. ASSUME i \in Cert!Stretch(text, h) PROVE Number(g[i]) = Number(g[h])
  <2>1. i \in h..N /\ \A k \in H : ~(h < k /\ k <= i)
    BY <1>5 DEF Cert!Stretch
  <2>2. h \in 1..N /\ i \in 1..N
    BY <1>2
  <2>3. PICK c \in Nat : c = i - h
    BY <2>1, <2>2
  <2> DEFINE T == {d \in 0..c : Number(g[h + d]) = Number(g[h])}
  <2>4. 0 \in T
    BY <2>2, <2>3
  <2>5. ASSUME NEW d \in 1..c, d - 1 \in T PROVE d \in T
    <3>1. PICK n \in 1..N : n = h + d /\ n - 1 = h + (d - 1) /\ h < n /\ n <= i
      BY <2>1, <2>2, <2>3
    <3>2. ~Cert!IsHead(text[n])
      BY <1>2, <2>1, <3>1
    <3>3. Number(g[n]) = Number(g[n - 1])
      BY <3>2, NumberSteps
    <3>4. d \in 0..c
      BY <2>3
    <3> QED
      BY <2>5, <3>1, <3>3, <3>4
  <2>6. \A d \in 0..c : d \in T
    <3> HIDE DEF T
    <3> QED
      BY <2>4, <2>5, Climbs
  <2>7. c \in 0..c /\ h + c = i
    BY <2>2, <2>3
  <2> QED
    BY <2>6, <2>7
<1>6. ASSUME Number(g[i]) = Number(g[h]) PROVE i \in Cert!Stretch(text, h)
  <2>1. \A j \in 0..N : Number(g[j]) \in Nat
    <3>1. \A j \in 0..N : Number(g[j]) \in 1..Number(g[N])
      BY <1>1, <1>3
    <3> QED
      BY <3>1
  <2>2. h \in 1..N /\ i \in 1..N /\ i \in A /\ h \in 0..N /\ i \in 0..N
    BY <1>1, <1>2
  <2>3. ~(i < h)
    BY <1>4, <1>6, <2>1, <2>2
  <2>4. ASSUME NEW k \in H, h < k, k <= i PROVE FALSE
    <3>1. k \in 0..N /\ k \in 0..i /\ h \in A
      BY <1>2, <2>2, <2>4
    <3>2. Number(g[h]) < Number(g[k]) /\ Number(g[k]) \in 1..Number(g[i])
      BY <1>3, <1>4, <2>2, <2>4, <3>1
    <3> QED
      BY <1>6, <2>1, <2>2, <3>1, <3>2
  <2>5. i \in h..N
    BY <1>1, <2>2, <2>3
  <2> QED
    BY <2>4, <2>5 DEF Cert!Stretch
<1> QED
  BY <1>5, <1>6

(* A store read by lines is the store read by positions: each CKA_CLASS    *)
(* line has an object to itself, which holds what the stretch says.        *)
IsObjectOf(text, objects, obj) ==
  /\ obj \in [Cert!Heads(text) -> DOMAIN objects]
  /\ \A h, k \in Cert!Heads(text) : obj[h] = obj[k] => h = k
  /\ \A j \in DOMAIN objects : "CKA_CLASS" \in DOMAIN objects[j] =>
       \E h \in Cert!Heads(text) : obj[h] = j
  /\ \A h \in Cert!Heads(text) : \A name :
       Cert!Says(text, h, name)
         = IF name \in DOMAIN objects[obj[h]] THEN {objects[obj[h]][name]} ELSE {}

LEMMA StoreIs ==
  ASSUME NEW text \in Seq(CertLine), NEW objects, objects = Cert!parse_objects(text).objects,
         Cert!parse_objects(text).ok, \E j \in DOMAIN objects : "CKA_CLASS" \in DOMAIN objects[j]
  PROVE  /\ objects \in Seq(CertObject)
         /\ \E obj : IsObjectOf(text, objects, obj)
<1> DEFINE N == Len(text)
           end == StoreEnd(text)
           A == Attributes(text, N)
           H == Cert!Heads(text)
           K == Number(end)
           F(j) == ObjectAt(end, j)
<1>1. /\ end.ok /\ end.pending = Cert!NoBlock
      /\ objects = IF end.current = <<>> THEN end.objects ELSE Append(end.objects, end.current)
  BY DEF Cert!parse_objects, StoreEnd
<1>2. PICK g : IsReading(text, g) /\ g[N] = end
  BY <1>1, StoreRun
<1>3. N \in Nat /\ DOMAIN text = 1..N /\ N \in 0..N
  OBVIOUS
<1>4. PICK o : Kept(text, g, N, o)
  BY <1>2, <1>3, KeptAll
<1>5. NoneOpen(text, g, N, o) /\ Held(text, g, N, o)
  BY <1>1, <1>2, <1>4 DEF Kept
<1>6. /\ \A i \in 0..N : Number(g[i]) \in 1..K
      /\ \A i \in A : /\ text[i].name \in DOMAIN F(Number(g[i]))
                      /\ F(Number(g[i]))[text[i].name] = Cert!ValueAt(text, i)
      /\ \A j \in 1..K : \A name \in DOMAIN F(j) :
           \E i \in A : text[i].name = name /\ Number(g[i]) = j
      /\ \A i, k \in A : text[i].name = text[k].name /\ Number(g[i]) = Number(g[k]) => i = k
  <2>1. o \notin A /\ A \ {o} = A
    <3>1. 0 \notin A /\ o = 0
      BY <1>5 DEF NoneOpen, Attributes
    <3> QED
      BY <3>1
  <2> QED
    BY <1>2, <1>5, <2>1 DEF Held
<1>7. end \in CertState /\ end.objects \in Seq(CertObject) /\ end.current \in CertObject
      /\ Len(end.objects) \in Nat
  <2>1. end \in CertState
    BY <1>2, <1>3 DEF IsReading
  <2> QED
    BY <2>1, LenProperties DEF CertState
<1> HIDE DEF end
<1>8. end.current # <<>>
  <2> SUFFICES ASSUME end.current = <<>> PROVE FALSE
    OBVIOUS
  <2>1. A = {} /\ objects = end.objects
    BY <1>1, <1>2, <1>5 DEF NoneOpen
  <2>2. PICK j \in DOMAIN objects : "CKA_CLASS" \in DOMAIN objects[j]
    OBVIOUS
  <2>3. j \in 1..K /\ F(j) = objects[j]
    BY <1>7, <2>1, <2>2, LenProperties DEF Number, ObjectAt
  <2> QED
    BY <1>6, <2>1, <2>2, <2>3
<1>9. /\ objects \in Seq(CertObject) /\ DOMAIN objects = 1..K
      /\ \A j \in 1..K : objects[j] = F(j)
  <2>1. objects = Append(end.objects, end.current)
    BY <1>1, <1>8
  <2>2. objects \in Seq(CertObject) /\ Len(objects) = Len(end.objects) + 1
        /\ objects[Len(end.objects) + 1] = end.current
        /\ \A j \in 1..Len(end.objects) : objects[j] = end.objects[j]
    BY <1>7, <2>1, AppendProperties
  <2>3. DOMAIN objects = 1..K
    BY <2>2, LenProperties DEF Number
  <2>4. ASSUME NEW j \in 1..K PROVE objects[j] = F(j)
    <3>1. CASE j <= Len(end.objects)
      BY <1>7, <2>2, <3>1 DEF ObjectAt
    <3>2. CASE ~(j <= Len(end.objects))
      <4>1. j = Len(end.objects) + 1
        BY <1>7, <3>2 DEF Number
      <4> QED
        BY <2>2, <3>2, <4>1 DEF ObjectAt
    <3> QED
      BY <3>1, <3>2
  <2> QED
    BY <2>2, <2>3, <2>4
<1>10. /\ A \in SUBSET (1..N)
       /\ \A i \in 1..N : /\ i \in A <=> text[i].is = "attribute"
                          /\ i \in H <=> i \in A /\ text[i].name = "CKA_CLASS"
       /\ H \in SUBSET A
  BY <1>3 DEF Cert!Heads, Cert!IsHead, Attributes
<1>11. \A i \in A : Number(g[i]) \in 1..K
  <2>1. \A i \in A : i \in 0..N
    BY <1>10
  <2> QED
    BY <1>6, <2>1
<1>12. ASSUME NEW h \in H, NEW name
       PROVE  Cert!Says(text, h, name)
                = IF name \in DOMAIN F(Number(g[h])) THEN {F(Number(g[h]))[name]} ELSE {}
  <2> DEFINE J == {i \in Cert!Stretch(text, h) : text[i].is = "attribute" /\ text[i].name = name}
             S == {Cert!ValueAt(text, i) : i \in J}
             n == Number(g[h])
  <2>1. Cert!Says(text, h, name) = S
    BY DEF Cert!Says
  <2>2. \A i : i \in J <=> i \in A /\ text[i].name = name /\ Number(g[i]) = n
    <3>1. Cert!Stretch(text, h) \in SUBSET (1..N)
      BY <1>3, <1>10 DEF Cert!Stretch
    <3>2. \A i \in A : i \in Cert!Stretch(text, h) <=> Number(g[i]) = n
      BY <1>2, StretchIs
    <3> QED
      BY <1>10, <3>1, <3>2
  <2>3. n \in 1..K
    BY <1>10, <1>11
  <2> HIDE DEF J, A, H, n
  <2>4. CASE name \in DOMAIN F(n)
    <3>1. PICK i \in A : text[i].name = name /\ Number(g[i]) = n
      BY <1>6, <2>3, <2>4
    <3>2. J = {i}
      BY <1>6, <2>2, <3>1
    <3>3. S = {Cert!ValueAt(text, i)}
      BY <3>2
    <3>4. F(n)[name] = Cert!ValueAt(text, i)
      BY <1>6, <3>1
    <3> QED
      BY <2>1, <2>4, <3>3, <3>4 DEF n
  <2>5. CASE name \notin DOMAIN F(n)
    <3>1. J = {}
      BY <1>6, <2>2, <2>5
    <3>2. S = {}
      BY <3>1
    <3> QED
      BY <2>1, <2>5, <3>2 DEF n
  <2> QED
    BY <2>4, <2>5
<1> DEFINE obj == [h \in H |-> Number(g[h])]
<1>13. \A h \in H : obj[h] = Number(g[h]) /\ obj[h] \in 1..K
  BY <1>10, <1>11
<1>14. obj \in [H -> DOMAIN objects]
  BY <1>9, <1>13
<1> HIDE DEF obj, A, H
<1>15. ASSUME NEW h \in H, NEW k \in H, obj[h] = obj[k] PROVE h = k
  <2>1. h \in A /\ k \in A /\ text[h].name = "CKA_CLASS" /\ text[k].name = "CKA_CLASS"
    BY <1>10
  <2>2. Number(g[h]) = Number(g[k])
    BY <1>13, <1>15
  <2> QED
    BY <1>6, <2>1, <2>2
<1>16. ASSUME NEW j \in DOMAIN objects, "CKA_CLASS" \in DOMAIN objects[j]
       PROVE  \E h \in H : obj[h] = j
  <2>1. PICK i \in A : text[i].name = "CKA_CLASS" /\ Number(g[i]) = j
    BY <1>6, <1>9, <1>16
  <2> QED
    BY <1>10, <1>13, <2>1
<1>17. ASSUME NEW h \in H, NEW name
       PROVE  Cert!Says(text, h, name)
                = IF name \in DOMAIN objects[obj[h]] THEN {objects[obj[h]][name]} ELSE {}
  <2>1. objects[obj[h]] = F(Number(g[h]))
    BY <1>9, <1>13
  <2> QED
    BY <1>12, <2>1
<1>18. IsObjectOf(text, objects, obj)
  BY <1>14, <1>15, <1>16, <1>17 DEF IsObjectOf, H
<1> QED
  BY <1>9, <1>18

(* What convert asks of the objects before it pairs them.                  *)
Stated(objects, k, name) == Cert!Get(objects[k], name)
OfClass(objects, class) == {k \in DOMAIN objects : Stated(objects, k, "CKA_CLASS") = class}
KeyOf(objects, k) == Cert!object_key(objects[k])

Paired(objects) ==
  LET certificates == OfClass(objects, Cert!CERTIFICATE)
      trust == OfClass(objects, Cert!TRUST)
  IN /\ \A k \in DOMAIN objects :
          /\ Stated(objects, k, "CKA_CLASS") \in {Cert!ROOT_LIST, Cert!CERTIFICATE, Cert!TRUST}
          /\ k \in certificates \cup trust =>
               /\ Stated(objects, k, "CKA_ISSUER") # <<>>
               /\ Stated(objects, k, "CKA_SERIAL_NUMBER") # <<>>
     /\ \A c \in certificates : Stated(objects, c, "CKA_VALUE") # <<>>
     /\ \A a, b \in certificates : KeyOf(objects, a) = KeyOf(objects, b) => a = b
     /\ \A a, b \in trust : KeyOf(objects, a) = KeyOf(objects, b) => a = b
     /\ Cardinality(OfClass(objects, Cert!ROOT_LIST)) = 1
     /\ {KeyOf(objects, c) : c \in certificates} = {KeyOf(objects, t) : t \in trust}

ObjectsOf(text) == Cert!parse_objects(text).objects

Delegated(objects) ==
  {c \in OfClass(objects, Cert!CERTIFICATE) :
     \E t \in OfClass(objects, Cert!TRUST) :
       /\ KeyOf(objects, t) = KeyOf(objects, c)
       /\ Stated(objects, t, "CKA_TRUST_SERVER_AUTH") = Cert!TRUSTED_DELEGATOR}

LEMMA ConvertIs ==
  ASSUME NEW text, Cert!convert(text).ok
  PROVE  /\ Cert!parse_objects(text).ok /\ Paired(ObjectsOf(text))
         /\ {{e.der} : e \in Cert!convert(text).entries}
              = {{Stated(ObjectsOf(text), c, "CKA_VALUE")} : c \in Delegated(ObjectsOf(text))}
<1> DEFINE objects == ObjectsOf(text)
           certificates == OfClass(objects, Cert!CERTIFICATE)
           trust == OfClass(objects, Cert!TRUST)
           Key(k) == KeyOf(objects, k)
           Der(k) == Stated(objects, k, "CKA_VALUE")
           Auth(k) == Stated(objects, k, "CKA_TRUST_SERVER_AUTH")
           Record(c) == CHOOSE t \in trust : Key(t) = Key(c)
           Counted == {c \in certificates : Auth(Record(c)) = Cert!TRUSTED_DELEGATOR}
           Entries == {[label |-> Cert!label_of(objects[c]), der |-> Der(c)] : c \in Counted}
           other == {c \in certificates : Auth(Record(c)) = Cert!NOT_TRUSTED}
           purpose == {c \in certificates : Auth(Record(c)) = Cert!MUST_VERIFY}
           late == {c \in Counted : Stated(objects, Record(c), "CKA_NSS_SERVER_DISTRUST_AFTER")
                                      \notin {<<>>, <<"CK_FALSE">>}}
           counts == [trusted |-> Cert!Cardinality(Counted), distrusted |-> Cert!Cardinality(other),
                      other_purpose |-> Cert!Cardinality(purpose),
                      distrust_after |-> Cert!Cardinality(late)]
           fine == /\ Cert!parse_objects(text).ok
                   /\ \A k \in DOMAIN objects :
                        /\ Stated(objects, k, "CKA_CLASS")
                             \in {Cert!ROOT_LIST, Cert!CERTIFICATE, Cert!TRUST}
                        /\ k \in certificates \cup trust => Cert!HasIdentity(objects[k])
                   /\ \A c \in certificates : Der(c) # <<>>
                   /\ Cert!IsInjective([c \in certificates |-> Key(c)])
                   /\ Cert!IsInjective([t \in trust |-> Key(t)])
                   /\ Cert!Cardinality(OfClass(objects, Cert!ROOT_LIST)) = 1
                   /\ {Key(c) : c \in certificates} = {Key(t) : t \in trust}
                   /\ Cert!IsInjective([c \in certificates |-> Der(c)])
                   /\ \A t \in trust : Auth(t) \in Cert!SERVER_AUTH_VALUES
<1>1. fine /\ Cert!convert(text).entries = Entries
  <2>1. Cert!convert(text)
          = IF ~fine THEN [ok |-> FALSE]
            ELSE [ok |-> TRUE, entries |-> Entries, counts |-> counts]
    BY DEF Cert!convert, OfClass, Stated, KeyOf, ObjectsOf
  <2> HIDE DEF fine, Entries, counts
  <2> QED
    BY <2>1
<1>9. Cardinality(OfClass(objects, Cert!ROOT_LIST)) = 1
  BY <1>1 DEF Cert!Cardinality, Cardinality
<1>2. \A a, b \in certificates : Key(a) = Key(b) => a = b
  <2> HIDE DEF certificates, Key
  <2> QED
    BY <1>1 DEF Cert!IsInjective
<1>3. \A a, b \in trust : Key(a) = Key(b) => a = b
  <2> HIDE DEF trust, Key
  <2> QED
    BY <1>1 DEF Cert!IsInjective
<1>4. ASSUME NEW k \in certificates \cup trust
      PROVE  Stated(objects, k, "CKA_ISSUER") # <<>> /\ Stated(objects, k, "CKA_SERIAL_NUMBER") # <<>>
  <2>1. Cert!HasIdentity(objects[k])
    BY <1>1 DEF OfClass
  <2>2. <<>> \notin Cert!Range(<<Stated(objects, k, "CKA_ISSUER"),
                                 Stated(objects, k, "CKA_SERIAL_NUMBER")>>)
    BY <2>1 DEF Cert!HasIdentity, Cert!object_key, Stated
  <2> QED
    BY <2>2 DEF Cert!Range
<1>5. Paired(objects)
  <2> HIDE DEF fine
  <2> QED
    BY <1>1, <1>2, <1>3, <1>4, <1>9 DEF Paired, fine
<1>6. \A c \in certificates : Record(c) \in trust /\ Key(Record(c)) = Key(c)
  <2> TAKE c \in certificates
  <2>1. \E t \in trust : Key(t) = Key(c)
    <3> HIDE DEF certificates, trust, Key
    <3>1. Key(c) \in {Key(t) : t \in trust}
      BY <1>1
    <3> QED
      BY <3>1
  <2> HIDE DEF certificates, trust, Key
  <2> QED
    BY <2>1
<1>7. Counted = Delegated(objects)
  <2> HIDE DEF Record
  <2>1. \A c \in certificates, t \in trust : Key(t) = Key(c) => t = Record(c)
    BY <1>3, <1>6
  <2> QED
    BY <1>6, <2>1 DEF Delegated
<1>8. {{e.der} : e \in Entries} = {{Der(c)} : c \in Counted}
  <2> DEFINE Line(c) == [label |-> Cert!label_of(objects[c]), der |-> Der(c)]
  <2>1. Entries = {Line(c) : c \in Counted} /\ \A c \in Counted : Line(c).der = Der(c)
    OBVIOUS
  <2> HIDE DEF Counted, Der, Line, Entries
  <2> QED
    BY <2>1
<1> HIDE DEF Entries, Counted
<1> QED
  BY <1>1, <1>5, <1>7, <1>8

LEMMA SameSize ==
  ASSUME NEW S, NEW T, NEW f \in [S -> T], IsFiniteSet(T),
         \A a, b \in S : f[a] = f[b] => a = b, \A t \in T : \E s \in S : f[s] = t
  PROVE  IsFiniteSet(S) /\ Cardinality(S) = Cardinality(T)
<1>1. f \in Injection(S, T)
  BY DEF Injection, IsInjective
<1>2. f \in Surjection(S, T)
  BY DEF Surjection
<1> QED
  BY <1>1, <1>2, FS_Injection

LEMMA SizeOfBoth ==
  ASSUME NEW S, NEW T, IsFiniteSet(S), IsFiniteSet(T), S \cap T = {}
  PROVE  IsFiniteSet(S \cup T) /\ Cardinality(S \cup T) = Cardinality(S) + Cardinality(T)
<1>1. Cardinality(S \cap T) = 0
  BY FS_EmptySet
<1>2. Cardinality(S) \in Nat /\ Cardinality(T) \in Nat
  BY FS_CardinalityType
<1>3. /\ IsFiniteSet(S \cup T)
      /\ Cardinality(S \cup T) = Cardinality(S) + Cardinality(T) - Cardinality(S \cap T)
  BY FS_Union
<1> QED
  BY <1>1, <1>2, <1>3

LEMMA StoreHeld ==
  ASSUME NEW text \in Seq(CertLine)
  PROVE  Cert!BundleIsTheStore(text)
<1> SUFFICES ASSUME Cert!convert(text).ok PROVE Cert!BundleIsTheStore(text)
  BY DEF Cert!BundleIsTheStore
<1> DEFINE objects == ObjectsOf(text)
           H == Cert!Heads(text)
           V(k, name) == Stated(objects, k, name)
           Key(k) == KeyOf(objects, k)
           S(h, name) == Cert!Says(text, h, name)
           Are(class) == {h \in H : S(h, "CKA_CLASS") = {class}}
           Alike(a, b) == \A n \in {"CKA_ISSUER", "CKA_SERIAL_NUMBER"} : S(a, n) = S(b, n)
           C == Are(Cert!CERTIFICATE)
           T == Are(Cert!TRUST)
           R == Are(Cert!ROOT_LIST)
           Signed(c) == \E t \in T : Alike(c, t)
                          /\ S(t, "CKA_TRUST_SERVER_AUTH") = {Cert!TRUSTED_DELEGATOR}
           Of(class) == OfClass(objects, class)
<1>1. /\ Cert!parse_objects(text).ok /\ Paired(objects)
      /\ {{e.der} : e \in Cert!convert(text).entries}
           = {{V(c, "CKA_VALUE")} : c \in Delegated(objects)}
  BY ConvertIs
<1>2. /\ \A k \in DOMAIN objects :
           /\ V(k, "CKA_CLASS") \in {Cert!ROOT_LIST, Cert!CERTIFICATE, Cert!TRUST}
           /\ k \in Of(Cert!CERTIFICATE) \cup Of(Cert!TRUST) =>
                V(k, "CKA_ISSUER") # <<>> /\ V(k, "CKA_SERIAL_NUMBER") # <<>>
      /\ \A c \in Of(Cert!CERTIFICATE) : V(c, "CKA_VALUE") # <<>>
      /\ \A a, b \in Of(Cert!CERTIFICATE) : Key(a) = Key(b) => a = b
      /\ \A a, b \in Of(Cert!TRUST) : Key(a) = Key(b) => a = b
      /\ Cardinality(Of(Cert!ROOT_LIST)) = 1
      /\ {Key(c) : c \in Of(Cert!CERTIFICATE)} = {Key(t) : t \in Of(Cert!TRUST)}
  BY <1>1 DEF Paired
<1>3. /\ Cert!CERTIFICATE # <<>> /\ Cert!TRUST # <<>> /\ Cert!ROOT_LIST # <<>>
      /\ Cert!TRUSTED_DELEGATOR # <<>>
      /\ Cert!CERTIFICATE # Cert!TRUST /\ Cert!CERTIFICATE # Cert!ROOT_LIST
      /\ Cert!TRUST # Cert!ROOT_LIST
  BY DEF Cert!CERTIFICATE, Cert!TRUST, Cert!ROOT_LIST, Cert!TRUSTED_DELEGATOR
<1>4. \A k, name : V(k, name) # <<>> => name \in DOMAIN objects[k]
  BY DEF Stated, Cert!Get
<1>5. \A k, name : name \in DOMAIN objects[k] => V(k, name) = objects[k][name]
  BY DEF Stated, Cert!Get
<1>6. \A k \in DOMAIN objects : "CKA_CLASS" \in DOMAIN objects[k]
  <2> HIDE DEF V, objects
  <2> QED
    BY <1>2, <1>3, <1>4
<1>7. objects \in Seq(CertObject) /\ \E obj : IsObjectOf(text, objects, obj)
  <2>1. objects = Cert!parse_objects(text).objects
    BY DEF ObjectsOf
  <2>2. \E j \in DOMAIN objects : "CKA_CLASS" \in DOMAIN objects[j]
    <3>1. Of(Cert!ROOT_LIST) # {}
      <4>1. Cardinality(Of(Cert!ROOT_LIST)) = 1
        BY <1>2
      <4>2. ASSUME NEW X, Cardinality(X) = 1 PROVE X # {}
        <5> SUFFICES ASSUME X = {} PROVE FALSE
          OBVIOUS
        <5>1. Cardinality({}) = 0
          BY FS_EmptySet
        <5>2. Cardinality({}) = 1
          BY <4>2, Zenon
        <5> QED
          BY <5>1, <5>2
      <4> HIDE DEF Of
      <4> QED
        BY <4>1, <4>2
    <3> QED
      BY <1>6, <3>1 DEF OfClass
  <2> HIDE DEF objects
  <2> QED
    BY <1>1, <2>1, <2>2, StoreIs
<1>8. PICK obj : IsObjectOf(text, objects, obj)
  BY <1>7
<1> HIDE DEF objects
<1>9. /\ obj \in [H -> DOMAIN objects]
      /\ \A h, k \in H : obj[h] = obj[k] => h = k
      /\ \A j \in DOMAIN objects : \E h \in H : obj[h] = j
  BY <1>6, <1>8 DEF IsObjectOf
<1>10. \A h \in H : \A name :
         S(h, name) = IF name \in DOMAIN objects[obj[h]] THEN {objects[obj[h]][name]} ELSE {}
  BY <1>8 DEF IsObjectOf
<1> HIDE DEF S, H, V
<1>11. ASSUME NEW h \in H, NEW name, V(obj[h], name) # <<>>
       PROVE  S(h, name) = {V(obj[h], name)}
  BY <1>4, <1>5, <1>10, <1>11
<1>12. ASSUME NEW h \in H, NEW name, NEW x, x # <<>>
       PROVE  S(h, name) = {x} <=> V(obj[h], name) = x
  <2>1. S(h, name) = {x} => V(obj[h], name) = x
    BY <1>5, <1>10
  <2> QED
    BY <1>11, <1>12, <2>1
<1>13. \A h \in H : /\ h \in C <=> obj[h] \in Of(Cert!CERTIFICATE)
                    /\ h \in T <=> obj[h] \in Of(Cert!TRUST)
                    /\ h \in R <=> obj[h] \in Of(Cert!ROOT_LIST)
  <2>1. \A h \in H : \A class : class # <<>> =>
          (S(h, "CKA_CLASS") = {class} <=> V(obj[h], "CKA_CLASS") = class)
    BY <1>12
  <2> QED
    BY <1>3, <1>9, <2>1 DEF OfClass, V
<1>14. /\ C \in SUBSET H /\ T \in SUBSET H /\ R \in SUBSET H
       /\ H = C \cup T \cup R /\ C \cap T = {} /\ C \cap R = {} /\ T \cap R = {}
  <2>1. \A h \in H : obj[h] \in Of(Cert!CERTIFICATE) \cup Of(Cert!TRUST) \cup Of(Cert!ROOT_LIST)
    BY <1>2, <1>9 DEF OfClass, V
  <2>2. C \in SUBSET H /\ T \in SUBSET H /\ R \in SUBSET H
    OBVIOUS
  <2>3. C \cap T = {} /\ C \cap R = {} /\ T \cap R = {}
    BY <1>3
  <2> HIDE DEF C, T, R, Of
  <2>4. H = C \cup T \cup R
    BY <1>13, <2>1, <2>2
  <2> QED
    BY <2>2, <2>3, <2>4
<1>15. \A a, b \in C \cup T : Alike(a, b) <=> Key(obj[a]) = Key(obj[b])
  <2> TAKE a, b \in C \cup T
  <2>1. \A h \in C \cup T : /\ h \in H
                           /\ V(obj[h], "CKA_ISSUER") # <<>>
                           /\ V(obj[h], "CKA_SERIAL_NUMBER") # <<>>
    <3>1. \A h \in C \cup T : /\ h \in H /\ obj[h] \in DOMAIN objects
                             /\ obj[h] \in Of(Cert!CERTIFICATE) \cup Of(Cert!TRUST)
      <4> HIDE DEF C, T, Of
      <4> QED
        BY <1>9, <1>13, <1>14
    <3> HIDE DEF C, T, Of
    <3> QED
      BY <1>2, <3>1
  <2>2. \A h \in C \cup T : /\ S(h, "CKA_ISSUER") = {V(obj[h], "CKA_ISSUER")}
                           /\ S(h, "CKA_SERIAL_NUMBER") = {V(obj[h], "CKA_SERIAL_NUMBER")}
    <3> HIDE DEF C, T
    <3> QED
      BY <1>11, <2>1
  <2>3. Key(obj[a]) = Key(obj[b]) <=>
          /\ V(obj[a], "CKA_ISSUER") = V(obj[b], "CKA_ISSUER")
          /\ V(obj[a], "CKA_SERIAL_NUMBER") = V(obj[b], "CKA_SERIAL_NUMBER")
    BY DEF KeyOf, Cert!object_key, V, Stated
  <2> HIDE DEF C, T, Key
  <2> QED
    BY <2>2, <2>3
<1> HIDE DEF Alike, C, T, R, Key
<1>16. Cardinality(H) = Cardinality(C) + Cardinality(T) + 1
  <2>1. IsFiniteSet(H)
    <3>1. IsFiniteSet(DOMAIN objects)
      <4>1. DOMAIN objects = 1..Len(objects) /\ Len(objects) \in Nat
        BY <1>7, LenProperties
      <4> QED
        BY <4>1, FS_Interval
    <3> QED
      BY <1>9, <3>1, SameSize
  <2>2. IsFiniteSet(C) /\ IsFiniteSet(T) /\ IsFiniteSet(R) /\ IsFiniteSet(C \cup T)
    <3>1. C \cup T \in SUBSET H
      BY <1>14
    <3> QED
      BY <1>14, <2>1, <3>1, FS_Subset
  <2>3. Cardinality(C \cup T) = Cardinality(C) + Cardinality(T)
    BY <1>14, <2>2, SizeOfBoth
  <2>4. Cardinality(H) = Cardinality(C \cup T) + Cardinality(R)
    <3>1. H = (C \cup T) \cup R /\ (C \cup T) \cap R = {}
      BY <1>14
    <3> QED
      BY <2>2, <3>1, SizeOfBoth
  <2>5. Cardinality(R) = 1
    <3> DEFINE Roots == Of(Cert!ROOT_LIST)
               f == [h \in R |-> obj[h]]
    <3>1. Cardinality(Roots) = 1 /\ Roots \in SUBSET DOMAIN objects
      BY <1>2 DEF OfClass
    <3>2. IsFiniteSet(Roots)
      <4>1. DOMAIN objects = 1..Len(objects) /\ Len(objects) \in Nat
        BY <1>7, LenProperties
      <4>2. IsFiniteSet(DOMAIN objects)
        BY <4>1, FS_Interval
      <4> HIDE DEF Roots
      <4> QED
        BY <3>1, <4>2, FS_Subset
    <3>3. \A h \in R : h \in H /\ obj[h] \in Roots /\ f[h] = obj[h]
      BY <1>13, <1>14
    <3>4. \A k \in Roots : \E h \in R : obj[h] = k
      <4> HIDE DEF Of
      <4> QED
        BY <1>9, <1>13, <3>1
    <3>5. f \in [R -> Roots]
      BY <3>3
    <3>6. \A a, b \in R : f[a] = f[b] => a = b
      BY <1>9, <3>3
    <3>7. \A k \in Roots : \E h \in R : f[h] = k
      BY <3>3, <3>4
    <3> HIDE DEF f, Roots
    <3> QED
      BY <3>1, <3>2, <3>5, <3>6, <3>7, SameSize
  <2>6. Cardinality(C) \in Nat /\ Cardinality(T) \in Nat
    BY <2>2, FS_CardinalityType
  <2> QED
    BY <2>3, <2>4, <2>5, <2>6
<1> HIDE DEF Of
<1>17. \A k \in Of(Cert!CERTIFICATE) : \E h \in C : obj[h] = k
  <2>1. Of(Cert!CERTIFICATE) \in SUBSET DOMAIN objects
    BY DEF Of, OfClass
  <2> QED
    BY <1>9, <1>13, <2>1
<1>18. \A k \in Of(Cert!TRUST) : \E h \in T : obj[h] = k
  <2>1. Of(Cert!TRUST) \in SUBSET DOMAIN objects
    BY DEF Of, OfClass
  <2> QED
    BY <1>9, <1>13, <2>1
<1>19. /\ \A c \in C : c \in H /\ obj[c] \in Of(Cert!CERTIFICATE)
       /\ \A t \in T : t \in H /\ obj[t] \in Of(Cert!TRUST)
  BY <1>13, <1>14
<1>20. ASSUME NEW c \in C PROVE Cardinality({t \in T : Alike(c, t)}) = 1
  <2>1. PICK k \in Of(Cert!TRUST) : Key(k) = Key(obj[c])
    <3>1. Key(obj[c]) \in {Key(t) : t \in Of(Cert!TRUST)}
      BY <1>2, <1>19
    <3> QED
      BY <3>1
  <2>2. PICK t \in T : obj[t] = k
    BY <1>18
  <2>3. \A u \in T : Alike(c, u) <=> u = t
    <3>1. \A u \in T : Alike(c, u) <=> Key(obj[c]) = Key(obj[u])
      BY <1>15
    <3>2. \A u \in T : Key(obj[u]) = Key(obj[t]) => u = t
      BY <1>2, <1>9, <1>19
    <3> QED
      BY <2>1, <2>2, <3>1, <3>2
  <2>4. {u \in T : Alike(c, u)} = {t}
    BY <2>3
  <2> QED
    BY <2>4, FS_Singleton
<1>21. ASSUME NEW t \in T PROVE Cardinality({c \in C : Alike(c, t)}) = 1
  <2>1. PICK k \in Of(Cert!CERTIFICATE) : Key(k) = Key(obj[t])
    <3>1. Key(obj[t]) \in {Key(c) : c \in Of(Cert!CERTIFICATE)}
      <4>1. Key(obj[t]) \in {Key(u) : u \in Of(Cert!TRUST)}
        BY <1>19
      <4> QED
        BY <1>2, <4>1
    <3> QED
      BY <3>1
  <2>2. PICK c \in C : obj[c] = k
    BY <1>17
  <2>3. \A u \in C : Alike(u, t) <=> u = c
    <3>1. \A u \in C : Alike(u, t) <=> Key(obj[u]) = Key(obj[t])
      BY <1>15
    <3>2. \A u \in C : Key(obj[u]) = Key(obj[c]) => u = c
      BY <1>2, <1>9, <1>19
    <3> QED
      BY <2>1, <2>2, <3>1, <3>2
  <2>4. {u \in C : Alike(u, t)} = {c}
    BY <2>3
  <2> QED
    BY <2>4, FS_Singleton
<1>22. ASSUME NEW c \in C
       PROVE  /\ S(c, "CKA_VALUE") = {V(obj[c], "CKA_VALUE")}
              /\ Signed(c) <=> obj[c] \in Delegated(objects)
  <2>1. S(c, "CKA_VALUE") = {V(obj[c], "CKA_VALUE")}
    BY <1>2, <1>11, <1>19
  <2>2. \A t \in T : S(t, "CKA_TRUST_SERVER_AUTH") = {Cert!TRUSTED_DELEGATOR}
                     <=> V(obj[t], "CKA_TRUST_SERVER_AUTH") = Cert!TRUSTED_DELEGATOR
    BY <1>3, <1>12, <1>19
  <2>3. \A t \in T : Alike(c, t) <=> Key(obj[t]) = Key(obj[c])
    BY <1>15
  <2>4. obj[c] \in Delegated(objects) <=>
          \E k \in Of(Cert!TRUST) : /\ Key(k) = Key(obj[c])
                                   /\ V(k, "CKA_TRUST_SERVER_AUTH") = Cert!TRUSTED_DELEGATOR
    BY <1>19 DEF Delegated, Of, Key, V
  <2>5. Signed(c) <=> \E t \in T : /\ Key(obj[t]) = Key(obj[c])
                                 /\ V(obj[t], "CKA_TRUST_SERVER_AUTH") = Cert!TRUSTED_DELEGATOR
    BY <2>2, <2>3
  <2> HIDE DEF Signed
  <2>6. Signed(c) => obj[c] \in Delegated(objects)
    BY <1>19, <2>4, <2>5
  <2>7. obj[c] \in Delegated(objects) => Signed(c)
    BY <1>18, <2>4, <2>5
  <2> QED
    BY <2>1, <2>6, <2>7
<1> HIDE DEF Signed
<1>23. {{V(k, "CKA_VALUE")} : k \in Delegated(objects)}
         = {S(c, "CKA_VALUE") : c \in {d \in C : Signed(d)}}
  <2>1. \A k \in Delegated(objects) : \E c \in C : obj[c] = k
    <3>1. Delegated(objects) \in SUBSET Of(Cert!CERTIFICATE)
      BY DEF Delegated, Of
    <3> QED
      BY <1>17, <3>1
  <2>2. ASSUME NEW k \in Delegated(objects)
        PROVE  \E c \in {d \in C : Signed(d)} : S(c, "CKA_VALUE") = {V(k, "CKA_VALUE")}
    BY <1>22, <2>1
  <2>3. ASSUME NEW c \in {d \in C : Signed(d)}
        PROVE  \E k \in Delegated(objects) : S(c, "CKA_VALUE") = {V(k, "CKA_VALUE")}
    BY <1>22
  <2> QED
    BY <2>2, <2>3
<1>24. {{e.der} : e \in Cert!convert(text).entries}
         = {S(c, "CKA_VALUE") : c \in {d \in C : Signed(d)}}
  BY <1>1, <1>23 DEF V, objects
<1> DEFINE Size(X) == Cert!Cardinality(X)
<1>25. /\ Size(H) = Size(C) + Size(T) + 1
       /\ \A c \in C : Size({t \in T : Alike(c, t)}) = 1
       /\ \A t \in T : Size({c \in C : Alike(c, t)}) = 1
  <2>1. \A X : Size(X) = Cardinality(X)
    BY DEF Cert!Cardinality, Cardinality
  <2> HIDE DEF Size
  <2> QED
    BY <1>16, <1>20, <1>21, <2>1
<1> QED
  BY <1>24, <1>25 DEF Cert!BundleIsTheStore, H, C, T, S, Alike, Signed

(* Whatever the lines of a store, however malformed, repeated or damaged:  *)
(* the bundle is refused, or it holds the certificates whose one trust     *)
(* object delegates them and nothing else, each certificate and each trust *)
(* object being of one pair.  (certdata-to-pem.py: parse_objects, convert) *)
THEOREM BundleHoldsTheStore ==
  ASSUME subject = "certificates" => sample \in Seq(CertLine)
  PROVE  BundleIsTheStore
BY StoreHeld DEF BundleIsTheStore
=============================================================================
