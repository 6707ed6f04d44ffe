-------------------------- MODULE MediumSwapProofs --------------------------
(***************************************************************************)
(* The safety properties of MediumSwap, proved for every set of packages,  *)
(* every set of declared lists and every number of faults.                 *)
(***************************************************************************)
EXTENDS MediumSwap, TLAPS

Repo == repoConfig /\ repoEntry

(* The steps between a validated list and a finished install.              *)
Swapping == {"listRoot", "listInitramfs", "removeRoot", "removeInitramfs", "install"}

(* A listing that is of use still is what the root holds.                  *)
Fresh(s) == Wanted(s, ckpt) = {} \/ listing[s] = installed[s]

(* One that still tells everything the root holds.                         *)
Known(s) == Wanted(s, ckpt) = {} \/ installed[s] \subseteq listing[s]

Gone(s) == Wanted(s, ckpt) \cap installed[s] = {}

Writing ==
  pc \in {"writeTmp", "moveTmp"} =>
    /\ pending \in {ListFile(DefaultList), Complete}
    /\ pending = Complete => ckpt = Agreed /\ Swapped(Agreed)
    /\ pending # Complete => ckpt = Absent
    /\ pc = "moveTmp" => tmp = pending

Working ==
  /\ pc = "repoAdd" => Valid(ckpt)
  /\ pc \in Swapping => Repo /\ Valid(ckpt)
  /\ pc \in {"listInitramfs", "removeRoot"} => Fresh("root")
  /\ pc \in {"removeRoot", "removeInitramfs"} => Fresh("initramfs")
  /\ pc \in {"removeInitramfs", "install"} => Gone("root")
  /\ pc = "removeInitramfs" => Known("root")
  /\ pc = "install" => Gone("initramfs")

Cleaning ==
  /\ pc \in {"removeConfig", "removeEntry", "rmCheckpoint"} => ckpt = Complete
  /\ pc \in {"removeEntry", "rmCheckpoint", "exit", "done"} => ~repoConfig
  /\ pc \in {"rmCheckpoint", "exit", "done"} => ~repoEntry

(* What the checkpoint says, whoever reads it.                             *)
Resumable ==
  /\ ckpt = Complete => Swapped(Agreed)
  /\ declared = Absent => ckpt \in {Absent, ListFile(DefaultList), Complete}
  /\ ~repoConfig => Swapped(Agreed)

IInv == TypeOK /\ Writing /\ Working /\ Cleaning /\ Resumable /\ DeclaredListNeverLost
-----------------------------------------------------------------------------
(* The contents a checkpoint can have are told apart by their headers, and *)
(* neither a marker nor a missing file is a valid list.                    *)
LEMMA FileFacts ==
  /\ Absent # Complete /\ Absent # Partial /\ Complete # Partial
  /\ ListFile(DefaultList) \notin {Absent, Complete, Partial}
  /\ Absent \in Shipped /\ Complete \notin Shipped /\ Partial \notin Shipped
  /\ ~Valid(Absent) /\ ~Valid(Complete)
BY DEF Absent, Complete, Partial, ListFile, File, Shipped, Valid

(* What a step that leaves the packages alone preserves.                   *)
LEMMA SameInstalled ==
  ASSUME UNCHANGED <<declared, installed>>
  PROVE  /\ Agreed' = Agreed
         /\ Swapped(Agreed)' <=> Swapped(Agreed)
         /\ Swapped(declared)' <=> Swapped(declared)
BY DEF Agreed, Swapped

(* A step that cleans nothing up changes no promise about the swap.        *)
LEMMA SwappedFacts ==
  ASSUME declared # Absent
  PROVE  Swapped(Agreed) <=> Swapped(declared)
BY DEF Agreed

(* While the swap is at work, the checkpoint is the agreed list.           *)
LEMMA WorkingOnAgreed ==
  ASSUME IInv, pc \in Swapping
  PROVE  ckpt = Agreed /\ ckpt # Complete /\ ckpt # Absent /\ Repo
BY FileFacts DEF IInv, Working, Resumable, DeclaredListNeverLost, Agreed, Repo

-----------------------------------------------------------------------------
LEMMA InitIInv == Init => IInv
<1> SUFFICES ASSUME Init PROVE IInv
  OBVIOUS
<1>1. TypeOK
  <2>1. declared \in Shipped /\ ckpt \in Content \ {Partial} /\ tmp \in Content
    BY FileFacts DEF Init, Content
  <2>2. listing \in [Scope -> SUBSET Package]
    BY DEF Init, Unlisted
  <2>3. faults \in 0..MaxFaults
    BY FaultsAssumption DEF Init
  <2> QED
    BY <2>1, <2>2, <2>3 DEF Init, TypeOK, PCs
<1>2. Writing /\ Working /\ Cleaning
  BY DEF Init, Writing, Working, Cleaning, Swapping
<1>3. Resumable /\ DeclaredListNeverLost
  BY FileFacts DEF Init, Resumable, DeclaredListNeverLost
<1> QED
  BY <1>1, <1>2, <1>3 DEF IInv

(* The temporary file and the checkpoint only ever hold known contents.    *)
LEMMA TypeNext == IInv /\ [Next]_vars => TypeOK'
<1> SUFFICES ASSUME IInv, [Next]_vars PROVE TypeOK'
  OBVIOUS
<1> USE FileFacts, FaultsAssumption DEF IInv, TypeOK, PCs, target, Goto
<1>1. CASE Begin
  BY <1>1 DEF Begin
<1>2. CASE WriteTmp
  BY <1>2 DEF WriteTmp, Content
<1>3. CASE MoveTmp
  BY <1>3 DEF MoveTmp, Content, Writing
<1>4. CASE Read
  BY <1>4 DEF Read
<1>5. CASE RepoAdd
  BY <1>5 DEF RepoAdd
<1>6. CASE ListRoot \/ ListInitramfs
  BY <1>6 DEF ListRoot, ListInitramfs, List, Unlisted
<1>7. CASE RemoveRoot \/ RemoveInitramfs
  BY <1>7 DEF RemoveRoot, RemoveInitramfs, Remove
<1>8. CASE Install
  BY <1>8, PackageAssumption DEF Install, Halves, Scope
<1>9. CASE RemoveConfig \/ RemoveEntry \/ RmCheckpoint \/ Exit
  BY <1>9 DEF RemoveConfig, RemoveEntry, RmCheckpoint, Exit, Content
<1>10. CASE FaultIdle \/ FaultWriting
  BY <1>10 DEF FaultIdle, FaultWriting, Fault, Content
<1>11. ASSUME NEW s \in Scope, FaultRemoving(s) PROVE TypeOK'
  BY <1>11 DEF FaultRemoving, Fault
<1>12. CASE FaultInstalling
  BY <1>12, PackageAssumption DEF FaultInstalling, Fault, Halves, Scope
<1>13. CASE Retry
  BY <1>13 DEF Retry, Unlisted
<1>14. CASE UNCHANGED vars
  BY <1>14 DEF vars
<1> QED
  BY <1>1, <1>2, <1>3, <1>4, <1>5, <1>6, <1>7, <1>8, <1>9, <1>10, <1>11, <1>12,
     <1>13, <1>14 DEF Next, Step

(* A step that leaves checkpoint, packages and repository alone keeps what *)
(* a resumed invocation relies on.                                         *)
LEMMA SameTarget ==
  ASSUME IInv, UNCHANGED <<declared, ckpt, installed, repoConfig>>, repoEntry' => repoEntry
  PROVE  Resumable' /\ DeclaredListNeverLost'
BY SameInstalled DEF IInv, Resumable, DeclaredListNeverLost

(* So does a step that changes packages while the swap is at work: nothing *)
(* yet relies on the swap.                                                 *)
LEMMA WorkingTarget ==
  ASSUME IInv, pc \in Swapping,
         UNCHANGED <<declared, ckpt, repoConfig, repoEntry>>
  PROVE  Resumable' /\ DeclaredListNeverLost'
BY WorkingOnAgreed, FileFacts DEF IInv, Resumable, DeclaredListNeverLost, Agreed, Repo

LEMMA NextIInv == IInv /\ [Next]_vars => IInv'
<1> SUFFICES ASSUME IInv, [Next]_vars PROVE IInv'
  OBVIOUS
<1>0. TypeOK'
  BY TypeNext
<1> USE DEF IInv
<1>1. CASE Begin
  <2>1. Resumable' /\ DeclaredListNeverLost'
    BY <1>1, SameTarget DEF Begin, target
  <2>2. Writing' /\ Working' /\ Cleaning'
    BY <1>1, FileFacts DEF Begin, target, Writing, Working, Cleaning, Swapping
  <2> QED
    BY <1>0, <2>1, <2>2
<1>2. CASE WriteTmp
  <2>1. Resumable' /\ DeclaredListNeverLost'
    BY <1>2, SameTarget DEF WriteTmp
  <2>2. Writing' /\ Working' /\ Cleaning'
    BY <1>2, SameInstalled DEF WriteTmp, Goto, Writing, Working, Cleaning, Swapping
  <2> QED
    BY <1>0, <2>1, <2>2
<1>3. CASE MoveTmp
  <2>1. ckpt' = pending /\ UNCHANGED <<declared, installed, repoConfig, repoEntry>>
    BY <1>3 DEF MoveTmp, Writing, Goto
  <2>2. Agreed' = Agreed /\ (Swapped(Agreed)' <=> Swapped(Agreed))
    BY <2>1, SameInstalled
  <2>3. CASE pending = Complete
    <3>1. Resumable' /\ DeclaredListNeverLost'
      BY <1>3, <2>1, <2>2, <2>3
         DEF MoveTmp, Goto, Writing, Resumable, DeclaredListNeverLost
    <3>2. Writing' /\ Working' /\ Cleaning'
      BY <1>3, <2>1, <2>3 DEF MoveTmp, Goto, Writing, Working, Cleaning, Swapping
    <3> QED
      BY <1>0, <3>1, <3>2
  <2>4. CASE pending # Complete
    <3>1. pending = ListFile(DefaultList) /\ ckpt = Absent
      BY <1>3, <2>4 DEF MoveTmp, Goto, Writing
    <3>2. Resumable' /\ DeclaredListNeverLost'
      BY <2>1, <2>2, <3>1, FileFacts, SameInstalled, SwappedFacts
         DEF Resumable, DeclaredListNeverLost
    <3>3. Writing' /\ Working' /\ Cleaning'
      BY <1>3, <2>4 DEF MoveTmp, Goto, Writing, Working, Cleaning, Swapping
    <3> QED
      BY <1>0, <3>2, <3>3
  <2> QED
    BY <2>3, <2>4
<1>4. CASE Read
  <2>1. Resumable' /\ DeclaredListNeverLost'
    BY <1>4, SameTarget DEF Read, target
  <2>2. Writing' /\ Working' /\ Cleaning'
    BY <1>4 DEF Read, target, Writing, Working, Cleaning, Swapping
  <2> QED
    BY <1>0, <2>1, <2>2
<1>5. CASE RepoAdd
  <2>1. Resumable' /\ DeclaredListNeverLost'
    BY <1>5, SameInstalled DEF RepoAdd, Resumable, DeclaredListNeverLost
  <2>2. Writing' /\ Working' /\ Cleaning'
    BY <1>5 DEF RepoAdd, Goto, Writing, Working, Cleaning, Swapping, Repo, TypeOK
  <2> QED
    BY <1>0, <2>1, <2>2
<1>6. CASE ListRoot \/ ListInitramfs
  <2>1. Resumable' /\ DeclaredListNeverLost'
    BY <1>6, SameTarget DEF ListRoot, ListInitramfs, List, target
  <2>2. CASE ListRoot
    BY <1>0, <2>1, <2>2 DEF ListRoot, List, Goto, target, Writing, Working, Cleaning,
                            Swapping, Repo, Fresh, TypeOK, Scope
  <2>3. CASE ListInitramfs
    BY <1>0, <2>1, <2>3 DEF ListInitramfs, List, Goto, target, Writing, Working,
                            Cleaning, Swapping, Repo, Fresh, TypeOK, Scope
  <2> QED
    BY <1>6, <2>2, <2>3
<1>7. CASE RemoveRoot \/ RemoveInitramfs
  <2>1. Resumable' /\ DeclaredListNeverLost'
    BY <1>7, WorkingTarget DEF RemoveRoot, RemoveInitramfs, Remove, Goto, Swapping
  <2>2. CASE RemoveRoot
    BY <1>0, <2>1, <2>2 DEF RemoveRoot, Remove, Doomed, Goto, Writing, Working, Cleaning,
                            Swapping, Repo, Fresh, Known, Gone, TypeOK, Scope
  <2>3. CASE RemoveInitramfs
    BY <1>0, <2>1, <2>3 DEF RemoveInitramfs, Remove, Doomed, Goto, Writing, Working,
                            Cleaning, Swapping, Repo, Fresh, Known, Gone, TypeOK, Scope
  <2> QED
    BY <1>7, <2>2, <2>3
<1>8. CASE Install
  <2>1. Resumable' /\ DeclaredListNeverLost'
    BY <1>8, WorkingTarget DEF Install, Goto, Swapping
  <2>2. Working' /\ Cleaning'
    BY <1>8 DEF Install, Goto, Working, Cleaning, Swapping
  <2>3. CASE Installable
    <3>1. ckpt = Agreed /\ Agreed' = Agreed /\ Gone("root") /\ Gone("initramfs")
      BY <1>8, WorkingOnAgreed DEF Install, Goto, Swapping, Working, Agreed
    <3>2. Swapped(Agreed)'
      BY <1>8, <2>3, <3>1 DEF Install, Swapped, Gone, Halves, Scope
    <3>3. Writing'
      BY <1>8, <2>3, <3>1, <3>2 DEF Install, Goto, Writing
    <3> QED
      BY <1>0, <2>1, <2>2, <3>3
  <2>4. CASE ~Installable
    <3>1. Writing'
      BY <1>8, <2>4 DEF Install, Goto, Writing
    <3> QED
      BY <1>0, <2>1, <2>2, <3>1
  <2> QED
    BY <2>3, <2>4
<1>9. CASE RemoveConfig
  <2>1. Resumable' /\ DeclaredListNeverLost'
    BY <1>9, SameInstalled DEF RemoveConfig, Goto, Cleaning, Resumable, DeclaredListNeverLost
  <2>2. Writing' /\ Working' /\ Cleaning'
    BY <1>9 DEF RemoveConfig, Goto, Writing, Working, Cleaning, Swapping
  <2> QED
    BY <1>0, <2>1, <2>2
<1>10. CASE RemoveEntry
  <2>1. Resumable' /\ DeclaredListNeverLost'
    BY <1>10, SameTarget DEF RemoveEntry
  <2>2. Writing' /\ Working' /\ Cleaning'
    BY <1>10 DEF RemoveEntry, Goto, Writing, Working, Cleaning, Swapping
  <2> QED
    BY <1>0, <2>1, <2>2
<1>11. CASE RmCheckpoint
  <2>1. Resumable' /\ DeclaredListNeverLost'
    BY <1>11, SameInstalled, SwappedFacts, FileFacts
       DEF RmCheckpoint, Goto, Cleaning, Resumable, DeclaredListNeverLost
  <2>2. Writing' /\ Working' /\ Cleaning'
    BY <1>11 DEF RmCheckpoint, Goto, Writing, Working, Cleaning, Swapping
  <2> QED
    BY <1>0, <2>1, <2>2
<1>12. CASE Exit
  <2>1. Resumable' /\ DeclaredListNeverLost'
    BY <1>12, SameTarget DEF Exit, target
  <2>2. Writing' /\ Working' /\ Cleaning'
    BY <1>12 DEF Exit, Goto, target, Writing, Working, Cleaning, Swapping
  <2> QED
    BY <1>0, <2>1, <2>2
<1>13. CASE FaultIdle \/ FaultWriting
  <2>1. Resumable' /\ DeclaredListNeverLost'
    BY <1>13, SameTarget DEF FaultIdle, FaultWriting, Fault, target
  <2>2. Writing' /\ Working' /\ Cleaning'
    BY <1>13 DEF FaultIdle, FaultWriting, Fault, Writing, Working, Cleaning, Swapping
  <2> QED
    BY <1>0, <2>1, <2>2
<1>14. ASSUME NEW s \in Scope, FaultRemoving(s) PROVE IInv'
  <2>1. Resumable' /\ DeclaredListNeverLost'
    BY <1>14, WorkingTarget DEF FaultRemoving, Fault, Swapping
  <2>2. Writing' /\ Working' /\ Cleaning'
    BY <1>14 DEF FaultRemoving, Fault, Writing, Working, Cleaning, Swapping
  <2> QED
    BY <1>0, <2>1, <2>2
<1>15. CASE FaultInstalling
  <2>1. Resumable' /\ DeclaredListNeverLost'
    BY <1>15, WorkingTarget DEF FaultInstalling, Fault, Swapping
  <2>2. Writing' /\ Working' /\ Cleaning'
    BY <1>15 DEF FaultInstalling, Fault, Writing, Working, Cleaning, Swapping
  <2> QED
    BY <1>0, <2>1, <2>2
<1>16. CASE Retry
  <2>1. Resumable' /\ DeclaredListNeverLost'
    BY <1>16, SameTarget DEF Retry, target
  <2>2. Writing' /\ Working' /\ Cleaning'
    BY <1>16 DEF Retry, Goto, target, Writing, Working, Cleaning, Swapping
  <2> QED
    BY <1>0, <2>1, <2>2
<1>17. CASE UNCHANGED vars
  <2>1. Resumable' /\ DeclaredListNeverLost'
    BY <1>17, SameTarget DEF vars, target
  <2>2. Writing' /\ Working' /\ Cleaning'
    BY <1>17, SameInstalled DEF vars, target, Writing, Working, Cleaning, Swapping, Repo,
                                Fresh, Known, Gone
  <2> QED
    BY <1>0, <2>1, <2>2
<1> QED
  BY <1>1, <1>2, <1>3, <1>4, <1>5, <1>6, <1>7, <1>8, <1>9, <1>10, <1>11, <1>12, <1>13,
     <1>14, <1>15, <1>16, <1>17 DEF Next, Step

LEMMA Invariance == Spec => []IInv
  BY InitIInv, NextIInv, PTL DEF Spec
-----------------------------------------------------------------------------
(* Type correctness: the checkpoint is never a half-written file.          *)
THEOREM TypeCorrect == Spec => []TypeOK
<1>1. IInv => TypeOK
  BY DEF IInv
<1> QED
  BY <1>1, Invariance, PTL

(* A retry never lacks the repository it needs.                            *)
THEOREM RepositoryKept == Spec => []RepositoryKeptUntilSwapped
<1>1. IInv => RepositoryKeptUntilSwapped
  BY DEF IInv, Resumable, RepositoryKeptUntilSwapped
<1> QED
  BY <1>1, Invariance, PTL

(* The marker is only ever in place over a finished swap.                  *)
THEOREM MarkerIsTrue == Spec => []CompleteMeansSwapped
<1>1. IInv => CompleteMeansSwapped
  BY DEF IInv, Resumable, CompleteMeansSwapped
<1> QED
  BY <1>1, Invariance, PTL

(* An image's list is worked off before anything else replaces it.         *)
THEOREM DeclaredListKept == Spec => []DeclaredListNeverLost
<1>1. IInv => DeclaredListNeverLost
  BY DEF IInv
<1> QED
  BY <1>1, Invariance, PTL

(* Every removal is of listed packages, made in the light of both listings.*)
THEOREM RemovalsAreListed == Spec => OnlyListedRemoved
<1> DEFINE Removal(s) ==
      installed[s] \ installed'[s] # {} =>
        /\ Valid(ckpt)
        /\ installed[s] \ installed'[s] \subseteq Wanted(s, ckpt)
        /\ \A r \in Scope : Wanted(r, ckpt) # {} => installed[r] \subseteq listing[r]
<1>1. ASSUME IInv, [Next]_vars, NEW s \in Scope PROVE Removal(s)
  <2> USE <1>1 DEF IInv
  <2>1. CASE installed' = installed
    BY <2>1
  <2>2. ASSUME NEW r \in Scope, FaultRemoving(r) PROVE Removal(s)
    BY <2>2 DEF FaultRemoving, Doomed, Working, Swapping, Fresh, Known, TypeOK, Scope
  <2>3. CASE RemoveRoot \/ RemoveInitramfs
    BY <2>3 DEF RemoveRoot, RemoveInitramfs, Remove, Goto, Doomed, Working, Swapping, Fresh,
                Known, TypeOK, Scope
  <2>4. CASE Install \/ FaultInstalling
    BY <2>4 DEF Install, FaultInstalling, TypeOK, Halves, Scope
  <2>5. [Next]_vars => \/ installed' = installed
                       \/ RemoveRoot \/ RemoveInitramfs \/ Install \/ FaultInstalling
                       \/ \E r \in Scope : FaultRemoving(r)
    BY DEF Next, Step, Begin, WriteTmp, MoveTmp, Read, RepoAdd, ListRoot, ListInitramfs, List,
           RemoveConfig, RemoveEntry, RmCheckpoint, Exit, FaultIdle, FaultWriting, Retry,
           vars, target
  <2> QED
    BY <2>1, <2>2, <2>3, <2>4, <2>5
<1>2. IInv /\ [Next]_vars => [\A s \in Scope : Removal(s)]_vars
  BY <1>1
<1>3. Spec => [][\A s \in Scope : Removal(s)]_vars
  BY <1>2, Invariance, PTL DEF Spec
<1> QED
  BY <1>3 DEF OnlyListedRemoved

(* Under the marker, only the repository and the marker itself go away.    *)
THEOREM CleanupForgets == Spec => CleanupOnlyForgets
<1> DEFINE Forgets == ckpt = Complete => /\ installed' = installed
                                         /\ ckpt' \in {Complete, Absent}
                                         /\ repoEntry' => repoEntry
                                         /\ repoConfig' => repoConfig
<1>1. ASSUME IInv, [Next]_vars PROVE Forgets
  <2> SUFFICES ASSUME ckpt = Complete PROVE Forgets
    OBVIOUS
  <2> USE <1>1 DEF IInv
  <2>1. pc \notin Swapping \cup {"repoAdd", "moveTmp"}
    BY FileFacts DEF Working, Swapping, Writing, Agreed, TypeOK
  <2>2. installed' = installed
    BY <2>1 DEF Next, Step, Begin, WriteTmp, MoveTmp, Read, RepoAdd, ListRoot, ListInitramfs,
           List, RemoveRoot, RemoveInitramfs, Remove, Install, RemoveConfig, RemoveEntry,
           RmCheckpoint, Exit, Fault, FaultIdle, FaultWriting, FaultRemoving, FaultInstalling,
           Retry, Goto, Swapping, Scope, vars, target
  <2>3. ckpt' \in {Complete, Absent}
    BY <2>1 DEF Next, Step, Begin, WriteTmp, MoveTmp, Read, RepoAdd, ListRoot, ListInitramfs,
           List, RemoveRoot, RemoveInitramfs, Remove, Install, RemoveConfig, RemoveEntry,
           RmCheckpoint, Exit, FaultIdle, FaultWriting, FaultRemoving, FaultInstalling,
           Retry, Goto, vars, target
  <2>4. (repoEntry' => repoEntry) /\ (repoConfig' => repoConfig)
    BY <2>1 DEF Next, Step, Begin, WriteTmp, MoveTmp, Read, RepoAdd, ListRoot, ListInitramfs,
           List, RemoveRoot, RemoveInitramfs, Remove, Install, RemoveConfig, RemoveEntry,
           RmCheckpoint, Exit, FaultIdle, FaultWriting, FaultRemoving, FaultInstalling,
           Retry, Goto, vars, target
  <2> QED
    BY <2>2, <2>3, <2>4
<1>2. IInv /\ [Next]_vars => [Forgets]_vars
  BY <1>1
<1>3. Spec => [][Forgets]_vars
  BY <1>2, Invariance, PTL DEF Spec
<1> QED
  BY <1>3 DEF CleanupOnlyForgets
=============================================================================
