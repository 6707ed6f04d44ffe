-------------------------- MODULE EarlyBootProofs --------------------------
(***************************************************************************)
(* The safety properties of EarlyBoot, proved for every machine (aliases,  *)
(* block devices, buses however deep), every window and every delay.       *)
(***************************************************************************)
EXTENDS EarlyBoot, SequenceTheorems, FiniteSetTheorems, TLAPS

(* What the loaded drivers expose, whether it shows yet or not.            *)
Exposed(S) == {x \in S \ Missing : Parent[x] \in loaded \cup {Bus}}

(* Nothing is under way any more, and every alias that shows was handled.  *)
Calm == Due = {} /\ present \cap Alias \subseteq seen

(* A hook's window has been at least as long as its count of sleeps for    *)
(* everything that is still due.                                           *)
WaitedFor(n) == \A x \in Due : n <= age[x]

ColdplugInv ==
  /\ ColdplugOK
  /\ loaded = seen \ broken /\ seen \subseteq present /\ current \subseteq present
  /\ cpc = "load" => seen \subseteq current
  /\ cpc \in {"load", "quiet"} => scans < ScanLimit
  /\ cpc \in {"idle", "scan", "load", "quiet"} => quiet < QuietLimit /\ WaitedFor(quiet)
  /\ cpc = "quiet" /\ quiet >= MaxDelay => Calm
  /\ cpc \in {"report", "ok", "declined"} /\ tree /\ scans < ScanLimit /\ MaxDelay < QuietLimit
       => Calm

LiveInv ==
  /\ LiveOK
  /\ lpc \notin {"ok", "failed"} => WaitedFor(liveTries) /\ carried = {}
  /\ lpc = "idle" => liveTries = 0
  /\ lpc # "failed" => liveTries < LiveRetries
  /\ lpc \in {"idle", "glob", "scan"} => Len(mediumStack) <= MaxStacked
  /\ lpc = "scan" /\ liveTries >= MaxDelay => Exposed(Medium) \subseteq candidates
  /\ lpc = "failed" /\ liveTries = LiveRetries /\ MaxDelay < LiveRetries
       => Exposed(Medium) = {}
  /\ lpc \in {"squashfs", "overlay", "move"}
       => mediumStack # <<>> /\ mediumStack[Len(mediumStack)] \in Medium
  /\ lpc \in {"overlay", "move"} => lower = {mediumStack[Len(mediumStack)]}
  /\ lpc = "move" => overlay
  /\ LiveRootIsTheMedium

DiskInv ==
  /\ DiskOK
  /\ dpc \notin {"ok", "failed"} => WaitedFor(diskTries)
  /\ dpc = "idle" => diskTries = 0
  /\ dpc # "failed" => diskTries < DiskRetries
  /\ dpc \notin {"idle", "failed"} => RootSpec \in DOMAIN Tagged
  /\ dpc \in {"check", "mount", "ok"} => dev # {} /\ dev \subseteq Tagged[RootSpec]
  /\ dpc \in {"mount", "ok"} => status <= 1
  /\ rootDisk = IF dpc = "ok" THEN dev ELSE {}
  /\ dpc = "failed" /\ diskTries = DiskRetries /\ MaxDelay < DiskRetries
       => Exposed(Tagged[RootSpec]) = {}

(* One hook at a time, and each keeps its own state.                       *)
PreludeInv ==
  /\ kind \in {"live", "disk"} /\ boot \in {"hooks", "pivoted", "halted"}
  /\ ran \subseteq Hook /\ running \cap ran = {}
  /\ running = {} \/ \E h \in Hook : running = {h}
  /\ views \in [{"initramfs", "rootfs"} -> SUBSET View]
  /\ kind = "live" => dpc = "idle"
  /\ kind = "disk" => lpc = "idle"
  /\ lpc \in {"idle", "ok"} \/ At("mount-root")
  /\ dpc \in {"idle", "ok"} \/ At("mount-root")
  /\ cpc \in {"idle", "ok", "declined"} \/ At("load-drivers")
  /\ "load-drivers" \in ran => cpc \in {"ok", "declined"}

IInv == DevicesOK /\ ColdplugInv /\ LiveInv /\ DiskInv /\ PreludeInv
-----------------------------------------------------------------------------
(* What a step does to the devices that neither loads a driver nor plugs   *)
(* anything in: what is due may show up, and grows older.                  *)
Still ==
  /\ UNCHANGED <<broken, loaded>>
  /\ present \subseteq present' /\ present' \subseteq present \cup Due
  /\ Due' \subseteq Due
  /\ \A x \in Due : age[x] <= age'[x]

LEMMA Ages ==
  ASSUME DevicesOK
  PROVE  /\ \A x \in Thing : age[x] \in Nat /\ age[x] <= MaxDelay
         /\ Due \subseteq Thing /\ MaxDelay \in Nat
BY DelayAssumption DEF DevicesOK, Due

LEMMA DeviceSteps ==
  ASSUME DevicesOK, UNCHANGED devices \/ Sleep \/ ShowsUp
  PROVE  Still /\ DevicesOK'
<1>1. CASE UNCHANGED devices
  BY <1>1, Ages DEF devices, Still, Due, Missing, DevicesOK
<1>2. CASE Sleep
  <2>1. UNCHANGED <<broken, loaded, present>> /\ Due' = Due
    BY <1>2 DEF Sleep, Due, Missing
  <2>2. \A x \in Due : age[x] \in Nat /\ age[x] < MaxDelay
    BY <1>2, Ages DEF Sleep, Punctual
  <2>3. age' \in [Thing -> 0..MaxDelay] /\ \A x \in Due : age'[x] = age[x] + 1
    BY <1>2, <2>2, Ages DEF Sleep, DevicesOK
  <2> QED
    BY <2>1, <2>2, <2>3 DEF Still, DevicesOK
<1>3. CASE ShowsUp
  <2>1. PICK x \in Due : present' = present \cup {x}
    BY <1>3 DEF ShowsUp
  <2>2. UNCHANGED <<broken, loaded, age>>
    BY <1>3 DEF ShowsUp
  <2> QED
    BY <2>1, <2>2, Ages DEF Still, Due, Missing, DevicesOK
<1> QED
  BY <1>1, <1>2, <1>3

(* After a sleep everything due has waited for one sleep more.             *)
LEMMA OneMoreSleep ==
  ASSUME DevicesOK, Sleep, NEW n \in Nat, WaitedFor(n)
  PROVE  \A x \in Due' : n + 1 <= age'[x]
<1>1. Due' = Due /\ \A x \in Due : age'[x] = age[x] + 1
  BY Ages DEF Sleep, Due, Missing, DevicesOK
<1> QED
  BY <1>1, Ages DEF WaitedFor

(* A look after MaxDelay sleeps sees everything.                           *)
LEMMA NothingDue ==
  ASSUME DevicesOK, Punctual, NEW n \in Nat, WaitedFor(n), n >= MaxDelay
  PROVE  Due = {}
BY Ages DEF Punctual, WaitedFor

LEMMA WaitedKept ==
  ASSUME DevicesOK, DevicesOK', Still, NEW n \in Nat, WaitedFor(n)
  PROVE  \A x \in Due' : n <= age'[x]
<1>1. \A x \in Due' : x \in Due /\ age[x] <= age'[x] /\ n <= age[x]
  BY DEF Still, WaitedFor
<1>2. \A x \in Thing : age[x] \in Nat /\ age'[x] \in Nat
  BY DelayAssumption DEF DevicesOK
<1> QED
  BY <1>1, <1>2, Ages

LEMMA ExposedKept ==
  ASSUME UNCHANGED <<broken, loaded>>
  PROVE  \A S : Exposed(S)' = Exposed(S)
BY DEF Exposed, Missing
-----------------------------------------------------------------------------
(* Each hook's part of the invariant is kept by what other hooks do.       *)
LEMMA ColdplugKept ==
  ASSUME DevicesOK, DevicesOK', ColdplugInv, Still, UNCHANGED coldplug
  PROVE  ColdplugInv'
<1>1. UNCHANGED <<tree, cpc, seen, current, quiet, scans>>
  BY DEF coldplug
<1>2. quiet \in Nat
  BY ScanAssumption DEF ColdplugInv, ColdplugOK
<1>3. WaitedFor(quiet) => WaitedFor(quiet)'
  BY <1>1, <1>2, WaitedKept DEF WaitedFor
<1>4. Calm => Calm'
  BY <1>1 DEF Calm, Still
<1>5. ColdplugOK' /\ loaded' = seen' \ broken' /\ seen' \subseteq present'
      /\ current' \subseteq present'
  BY <1>1 DEF ColdplugInv, ColdplugOK, Still
<1> QED
  BY <1>1, <1>3, <1>4, <1>5 DEF ColdplugInv

LEMMA LiveKept ==
  ASSUME DevicesOK, DevicesOK', LiveInv, UNCHANGED liveRoot,
         Still \/ lpc \in {"idle", "ok"}
  PROVE  LiveInv'
<1>1. UNCHANGED <<lpc, mediumStack, candidates, liveTries, lower, overlay, carried>>
  BY DEF liveRoot
<1>2. liveTries \in Nat
  BY LiveRetriesAssumption DEF LiveInv, LiveOK
<1>3. lpc \notin {"ok", "failed"} => WaitedFor(liveTries)'
  <2>1. CASE Still
    BY <1>1, <1>2, <2>1, WaitedKept DEF WaitedFor, LiveInv
  <2>2. CASE lpc = "idle"
    <3>1. \A x \in Due' : age'[x] \in Nat
      BY DelayAssumption DEF DevicesOK, Due
    <3> QED
      BY <1>1, <2>2, <3>1 DEF LiveInv, WaitedFor
  <2> QED
    BY <2>1, <2>2
<1>4. lpc \in {"scan", "failed"} => Exposed(Medium)' = Exposed(Medium)
  BY ExposedKept DEF Still
<1>5. LiveOK' /\ LiveRootIsTheMedium'
  BY <1>1 DEF LiveInv, LiveOK, LiveRootIsTheMedium
<1> QED
  BY <1>1, <1>3, <1>4, <1>5 DEF LiveInv

LEMMA DiskKept ==
  ASSUME DevicesOK, DevicesOK', DiskInv, UNCHANGED diskRoot,
         Still \/ dpc \in {"idle", "ok"}
  PROVE  DiskInv'
<1>1. UNCHANGED <<words, fsck, dpc, diskTries, dev, status, rootDisk>>
  BY DEF diskRoot
<1>2. diskTries \in Nat
  BY DiskRetriesAssumption DEF DiskInv, DiskOK
<1>3. dpc \notin {"ok", "failed"} => WaitedFor(diskTries)'
  <2>1. CASE Still
    BY <1>1, <1>2, <2>1, WaitedKept DEF WaitedFor, DiskInv
  <2>2. CASE dpc = "idle"
    <3>1. \A x \in Due' : age'[x] \in Nat
      BY DelayAssumption DEF DevicesOK, Due
    <3> QED
      BY <1>1, <2>2, <3>1 DEF DiskInv, WaitedFor
  <2> QED
    BY <2>1, <2>2
<1>4. RootSpec' = RootSpec
  BY <1>1 DEF RootSpec, Last
<1>5. dpc = "failed" => Exposed(Tagged[RootSpec])' = Exposed(Tagged[RootSpec])
  BY <1>4 DEF Still, Exposed, Missing
<1>6. DiskOK'
  BY <1>1 DEF DiskInv, DiskOK
<1> QED
  BY <1>1, <1>3, <1>4, <1>5, <1>6 DEF DiskInv
-----------------------------------------------------------------------------
(* Steps of load-drivers.                                                  *)
LEMMA ColdplugTypes ==
  ASSUME ColdplugInv
  PROVE  /\ QuietLimit \in Nat \ {0} /\ ScanLimit \in Nat \ {0} /\ MaxDelay \in Nat
         /\ quiet \in Nat /\ scans \in Nat
BY ScanAssumption, DelayAssumption DEF ColdplugInv, ColdplugOK

(* All but a probe and a sleep leave the devices alone.                    *)
LEMMA ColdplugGoes ==
  ASSUME DevicesOK, ColdplugInv,
         ColdplugStart \/ Scan \/ Settled \/ ScansExhausted \/ Report
  PROVE  DevicesOK' /\ Still /\ ColdplugInv'
<1>1. UNCHANGED devices /\ UNCHANGED <<tree, seen, scans>>
  BY DEF ColdplugStart, Scan, Settled, ScansExhausted, Report
<1>2. DevicesOK' /\ Still
  BY <1>1, DeviceSteps
<1>3. UNCHANGED <<broken, loaded, present, age, Due>>
  BY <1>1 DEF devices, Due, Missing
<1>4. Calm' <=> Calm
  BY <1>1, <1>3 DEF Calm
<1>5. loaded' = seen' \ broken' /\ seen' \subseteq present'
  BY <1>1, <1>3 DEF ColdplugInv
<1> USE ColdplugTypes
<1>6. CASE ColdplugStart
  <2>1. UNCHANGED <<current, quiet>> /\ cpc = "idle" /\ cpc' = (IF tree THEN "scan" ELSE "declined")
    BY <1>6 DEF ColdplugStart, CGoto
  <2>2. ColdplugOK'
    BY <1>1, <2>1 DEF ColdplugInv, ColdplugOK
  <2>3. WaitedFor(quiet)'
    BY <1>3, <2>1 DEF ColdplugInv, WaitedFor
  <2> QED
    BY <1>1, <1>2, <1>3, <1>5, <2>1, <2>2, <2>3 DEF ColdplugInv
<1>7. CASE Scan
  <2>1. /\ cpc = "scan" /\ scans < ScanLimit /\ Punctual
        /\ current' = present \cap Alias /\ quiet' = quiet
        /\ cpc' = IF current' \ seen = {} THEN "quiet" ELSE "load"
    BY <1>7 DEF Scan
  <2>2. ColdplugOK' /\ current' \subseteq present'
    BY <1>1, <1>3, <2>1 DEF ColdplugInv, ColdplugOK
  <2>3. WaitedFor(quiet)'
    BY <1>3, <2>1 DEF ColdplugInv, WaitedFor
  <2>4. cpc' = "load" => seen' \subseteq current'
    BY <1>1, <2>1 DEF ColdplugInv, ColdplugOK
  <2>5. cpc' = "quiet" /\ quiet >= MaxDelay => Calm
    <3>1. quiet >= MaxDelay => Due = {}
      BY <2>1, NothingDue DEF ColdplugInv
    <3> QED
      BY <2>1, <3>1 DEF Calm
  <2> QED
    BY <1>1, <1>2, <1>3, <1>4, <1>5, <2>1, <2>2, <2>3, <2>4, <2>5 DEF ColdplugInv
<1>8. CASE Settled
  <2>1. /\ cpc = "quiet" /\ cpc' = "report" /\ quiet + 1 >= QuietLimit
        /\ quiet' = quiet + 1 /\ UNCHANGED current
    BY <1>8 DEF Settled, CGoto
  <2>2. quiet < QuietLimit
    BY <2>1 DEF ColdplugInv
  <2>3. ColdplugOK' /\ current' \subseteq present'
    BY <1>1, <1>3, <2>1, <2>2 DEF ColdplugInv, ColdplugOK
  <2>4. MaxDelay < QuietLimit => Calm
    BY <2>1 DEF ColdplugInv
  <2> QED
    BY <1>1, <1>2, <1>3, <1>4, <1>5, <2>1, <2>3, <2>4 DEF ColdplugInv
<1>9. CASE ScansExhausted
  <2>1. cpc' = "report" /\ scans >= ScanLimit /\ UNCHANGED <<current, quiet>>
    BY <1>9 DEF ScansExhausted, CGoto
  <2>2. ColdplugOK' /\ current' \subseteq present'
    BY <1>1, <1>3, <2>1 DEF ColdplugInv, ColdplugOK
  <2> QED
    BY <1>1, <1>2, <1>5, <2>1, <2>2 DEF ColdplugInv
<1>10. CASE Report
  <2>1. /\ cpc = "report" /\ cpc' \in {"ok", "declined"} /\ UNCHANGED <<current, quiet>>
    BY <1>10 DEF Report, CGoto
  <2>2. ColdplugOK' /\ current' \subseteq present'
    BY <1>1, <1>3, <2>1 DEF ColdplugInv, ColdplugOK
  <2> QED
    BY <1>1, <1>2, <1>4, <1>5, <2>1, <2>2 DEF ColdplugInv
<1> QED
  BY <1>2, <1>6, <1>7, <1>8, <1>9, <1>10

LEMMA QuietInv ==
  ASSUME DevicesOK, ColdplugInv, Quiet
  PROVE  DevicesOK' /\ Still /\ ColdplugInv'
<1> USE ColdplugTypes
<1>1. /\ cpc = "quiet" /\ cpc' = "scan" /\ quiet + 1 < QuietLimit /\ Sleep
      /\ quiet' = quiet + 1 /\ scans' = scans + 1 /\ UNCHANGED <<tree, seen, current>>
  BY DEF Quiet
<1>2. DevicesOK' /\ Still
  BY <1>1, DeviceSteps
<1>3. WaitedFor(quiet)'
  BY <1>1, OneMoreSleep DEF ColdplugInv, WaitedFor
<1>4. scans < ScanLimit
  BY <1>1 DEF ColdplugInv
<1>5. ColdplugOK'
  BY <1>1, <1>4 DEF ColdplugInv, ColdplugOK
<1>6. loaded' = seen' \ broken' /\ seen' \subseteq present' /\ current' \subseteq present'
  BY <1>1, <1>2 DEF ColdplugInv, Still
<1> QED
  BY <1>1, <1>2, <1>3, <1>5, <1>6 DEF ColdplugInv

LEMMA LoadInv ==
  ASSUME DevicesOK, ColdplugInv, Load
  PROVE  DevicesOK' /\ ColdplugInv'
<1> USE ColdplugTypes
<1>1. /\ cpc = "load" /\ cpc' = "scan" /\ seen' = current /\ quiet' = 0
      /\ scans' = scans + 1 /\ UNCHANGED <<tree, current, broken, present, age>>
      /\ loaded' = loaded \cup ((current \ seen) \ broken)
  BY DEF Load, CGoto, Probe
<1>2. current \subseteq Alias /\ seen \subseteq current
  BY <1>1 DEF ColdplugInv, ColdplugOK
<1>3. DevicesOK'
  BY <1>1, <1>2 DEF DevicesOK
<1>4. loaded' = seen' \ broken' /\ seen' \subseteq present' /\ current' \subseteq present'
  BY <1>1, <1>2 DEF ColdplugInv
<1>5. WaitedFor(quiet)'
  <2>1. \A x \in Due' : age'[x] \in Nat
    BY <1>3 DEF DevicesOK, Due
  <2> QED
    BY <1>1, <2>1 DEF WaitedFor
<1>6. scans < ScanLimit
  BY <1>1 DEF ColdplugInv
<1>7. ColdplugOK'
  BY <1>1, <1>2, <1>6 DEF ColdplugInv, ColdplugOK
<1> QED
  BY <1>1, <1>3, <1>4, <1>5, <1>7 DEF ColdplugInv
-----------------------------------------------------------------------------
(* Steps of the live root-mount hook.                                      *)
LEMMA LiveTypes ==
  ASSUME LiveInv
  PROVE  /\ LiveRetries \in Nat \ {0} /\ MaxStacked \in Nat /\ MaxDelay \in Nat
         /\ liveTries \in Nat /\ mediumStack \in Seq(Iso) /\ Len(mediumStack) \in Nat
         /\ Medium \subseteq Iso /\ Iso \subseteq Block
BY LiveRetriesAssumption, DelayAssumption, MediumAssumption DEF LiveInv, LiveOK

(* A step that leaves the devices alone keeps what was waited for.         *)
LEMMA AtRest ==
  ASSUME DevicesOK, UNCHANGED devices
  PROVE  /\ DevicesOK' /\ Still /\ UNCHANGED <<broken, loaded, present, age, Due>>
         /\ \A S : Exposed(S)' = Exposed(S)
<1>1. DevicesOK' /\ Still
  BY DeviceSteps
<1>2. UNCHANGED <<broken, loaded, present, age, Due>>
  BY DEF devices, Due, Missing
<1> QED
  BY <1>1, <1>2, ExposedKept

LEMMA ScanInv ==
  ASSUME DevicesOK, LiveInv, LiveStart \/ Glob \/ TryDevice \/ NoMedium
  PROVE  DevicesOK' /\ Still /\ LiveInv'
<1> USE LiveTypes
<1>1. UNCHANGED devices /\ UNCHANGED <<lower, overlay, carried>>
  BY DEF LiveStart, Glob, TryDevice, NoMedium
<1>2. /\ DevicesOK' /\ Still /\ UNCHANGED <<broken, loaded, present, age, Due>>
      /\ \A S : Exposed(S)' = Exposed(S)
  BY <1>1, AtRest
<1>3. CASE LiveStart
  <2>1. lpc = "idle" /\ lpc' = "glob" /\ UNCHANGED <<mediumStack, candidates, liveTries>>
    BY <1>3 DEF LiveStart, LGoto
  <2>2. LiveOK' /\ WaitedFor(liveTries)' /\ LiveRootIsTheMedium'
    BY <1>1, <1>2, <2>1 DEF LiveInv, LiveOK, WaitedFor, LiveRootIsTheMedium
  <2> QED
    BY <1>1, <1>2, <2>1, <2>2 DEF LiveInv
<1>4. CASE Glob
  <2>1. /\ lpc = "glob" /\ lpc' = "scan" /\ Punctual /\ candidates' = present \cap Block
        /\ UNCHANGED <<mediumStack, liveTries>>
    BY <1>4 DEF Glob, LGoto
  <2>2. LiveOK' /\ WaitedFor(liveTries)' /\ LiveRootIsTheMedium'
    BY <1>1, <1>2, <2>1 DEF LiveInv, LiveOK, WaitedFor, LiveRootIsTheMedium
  <2>3. ASSUME liveTries >= MaxDelay PROVE Exposed(Medium) \subseteq candidates'
    <3>1. Due = {}
      BY <2>1, <2>3, NothingDue DEF LiveInv
    <3>2. Medium \subseteq Thing
      BY DEF Thing
    <3> QED
      BY <2>1, <3>1, <3>2 DEF Exposed, Due
  <2> QED
    BY <1>1, <1>2, <2>1, <2>2, <2>3 DEF LiveInv
<1>5. CASE TryDevice
  <2>1. lpc = "scan" /\ UNCHANGED liveTries
    BY <1>5 DEF TryDevice
  <2>2. PICK d \in candidates :
          /\ candidates' = candidates \ {d}
          /\ IF d \in Medium THEN mediumStack' = Append(mediumStack, d) /\ lpc' = "squashfs"
             ELSE /\ \/ UNCHANGED mediumStack
                     \/ d \in Iso /\ Len(mediumStack) < MaxStacked
                          /\ mediumStack' = Append(mediumStack, d)
                  /\ UNCHANGED lpc
    BY <1>5 DEF TryDevice
  <2>3. Len(mediumStack) <= MaxStacked
    BY <2>1 DEF LiveInv
  <2>4. CASE d \in Medium
    <3>1. mediumStack' = Append(mediumStack, d) /\ lpc' = "squashfs"
      BY <2>2, <2>4
    <3>2. /\ mediumStack' \in Seq(Iso) /\ Len(mediumStack') = Len(mediumStack) + 1
          /\ mediumStack' # <<>> /\ mediumStack'[Len(mediumStack')] = d
      BY <2>4, <3>1, AppendProperties
    <3>3. LiveOK'
      BY <1>1, <2>1, <2>2, <2>3, <3>1, <3>2 DEF LiveInv, LiveOK
    <3>4. WaitedFor(liveTries)' /\ LiveRootIsTheMedium'
      BY <1>1, <1>2, <2>1, <3>1 DEF LiveInv, WaitedFor, LiveRootIsTheMedium
    <3> QED
      BY <1>1, <1>2, <2>1, <2>4, <3>1, <3>2, <3>3, <3>4 DEF LiveInv
  <2>5. CASE d \notin Medium
    <3>1. UNCHANGED lpc
      BY <2>2, <2>5
    <3>2. mediumStack' \in Seq(Iso) /\ Len(mediumStack') <= MaxStacked
      <4>1. CASE UNCHANGED mediumStack
        BY <2>3, <4>1
      <4>2. CASE d \in Iso /\ Len(mediumStack) < MaxStacked /\ mediumStack' = Append(mediumStack, d)
        BY <4>2, AppendProperties
      <4> QED
        BY <2>2, <2>5, <4>1, <4>2
    <3>3. LiveOK'
      BY <1>1, <2>1, <2>2, <3>1, <3>2 DEF LiveInv, LiveOK
    <3>4. WaitedFor(liveTries)' /\ LiveRootIsTheMedium'
      BY <1>1, <1>2, <2>1, <3>1 DEF LiveInv, WaitedFor, LiveRootIsTheMedium
    <3>5. liveTries >= MaxDelay => Exposed(Medium) \subseteq candidates'
      BY <2>1, <2>2, <2>5 DEF LiveInv, Exposed
    <3> QED
      BY <1>1, <1>2, <2>1, <3>1, <3>2, <3>3, <3>4, <3>5 DEF LiveInv
  <2> QED
    BY <2>4, <2>5
<1>6. CASE NoMedium
  <2>1. /\ lpc = "scan" /\ lpc' = "failed" /\ candidates = {}
        /\ liveTries + 1 >= LiveRetries /\ liveTries' = liveTries + 1
        /\ UNCHANGED <<mediumStack, candidates>>
    BY <1>6 DEF NoMedium, LGoto
  <2>2. liveTries < LiveRetries
    BY <2>1 DEF LiveInv
  <2>3. LiveOK' /\ LiveRootIsTheMedium'
    BY <1>1, <2>1, <2>2 DEF LiveInv, LiveOK, LiveRootIsTheMedium
  <2>4. MaxDelay < LiveRetries => Exposed(Medium) = {}
    BY <2>1 DEF LiveInv
  <2> QED
    BY <1>1, <1>2, <2>1, <2>3, <2>4 DEF LiveInv
<1> QED
  BY <1>3, <1>4, <1>5, <1>6

LEMMA ScanAgainInv ==
  ASSUME DevicesOK, LiveInv, ScanAgain
  PROVE  DevicesOK' /\ Still /\ LiveInv'
<1> USE LiveTypes
<1>1. /\ lpc = "scan" /\ lpc' = "glob" /\ liveTries + 1 < LiveRetries
      /\ liveTries' = liveTries + 1 /\ Sleep
      /\ UNCHANGED <<mediumStack, candidates, lower, overlay, carried>>
  BY DEF ScanAgain, LGoto
<1>2. DevicesOK' /\ Still
  BY <1>1, DeviceSteps
<1>3. WaitedFor(liveTries)'
  BY <1>1, OneMoreSleep DEF LiveInv, WaitedFor
<1>4. LiveOK' /\ LiveRootIsTheMedium'
  BY <1>1 DEF LiveInv, LiveOK, LiveRootIsTheMedium
<1> QED
  BY <1>1, <1>2, <1>3, <1>4 DEF LiveInv

LEMMA MountingInv ==
  ASSUME DevicesOK, LiveInv, MountSquashfs \/ MountOverlay \/ MoveMedium \/ LiveFault
  PROVE  DevicesOK' /\ Still /\ LiveInv'
<1> USE LiveTypes
<1>1. UNCHANGED devices /\ UNCHANGED <<candidates, liveTries>>
  BY DEF MountSquashfs, MountOverlay, MoveMedium, LiveFault
<1>2. /\ DevicesOK' /\ Still /\ UNCHANGED <<broken, loaded, present, age, Due>>
      /\ \A S : Exposed(S)' = Exposed(S)
  BY <1>1, AtRest
<1>3. CASE MountSquashfs
  <2>1. /\ lpc = "squashfs" /\ lpc' = "overlay" /\ lower' = {mediumStack[Len(mediumStack)]}
        /\ UNCHANGED <<mediumStack, overlay, carried>>
    BY <1>3 DEF MountSquashfs, LGoto, Last
  <2>2. mediumStack[Len(mediumStack)] \in Medium
    BY <2>1 DEF LiveInv
  <2>3. LiveOK' /\ WaitedFor(liveTries)' /\ LiveRootIsTheMedium'
    BY <1>1, <1>2, <2>1, <2>2 DEF LiveInv, LiveOK, WaitedFor, LiveRootIsTheMedium
  <2> QED
    BY <1>1, <1>2, <2>1, <2>2, <2>3 DEF LiveInv
<1>4. CASE MountOverlay
  <2>1. /\ lpc = "overlay" /\ lpc' = "move" /\ overlay' = TRUE
        /\ UNCHANGED <<mediumStack, lower, carried>>
    BY <1>4 DEF MountOverlay, LGoto
  <2>2. LiveOK' /\ WaitedFor(liveTries)' /\ LiveRootIsTheMedium'
    BY <1>1, <1>2, <2>1 DEF LiveInv, LiveOK, WaitedFor, LiveRootIsTheMedium
  <2> QED
    BY <1>1, <1>2, <2>1, <2>2 DEF LiveInv
<1>5. CASE MoveMedium
  <2>1. /\ lpc = "move" /\ lpc' = "ok" /\ UNCHANGED <<lower, overlay>>
        /\ \/ /\ carried' = {mediumStack[Len(mediumStack)]}
              /\ mediumStack' = SubSeq(mediumStack, 1, Len(mediumStack) - 1)
           \/ UNCHANGED <<carried, mediumStack>>
    BY <1>5 DEF MoveMedium, LGoto, Last, Front
  <2>2. /\ mediumStack # <<>> /\ mediumStack[Len(mediumStack)] \in Medium
        /\ lower = {mediumStack[Len(mediumStack)]} /\ overlay /\ carried = {}
    BY <2>1 DEF LiveInv
  <2>3. mediumStack' \in Seq(Iso) /\ Len(mediumStack') <= Len(mediumStack)
    <3>1. Len(mediumStack) >= 1
      BY <2>2, EmptySeq
    <3>2. CASE mediumStack' = SubSeq(mediumStack, 1, Len(mediumStack) - 1)
      BY <3>1, <3>2, SubSeqProperties, ElementOfSeq
    <3> QED
      BY <2>1, <3>2
  <2>4. carried' \subseteq lower'
    BY <2>1, <2>2
  <2>5. LiveOK' /\ LiveRootIsTheMedium'
    BY <1>1, <2>1, <2>2, <2>3, <2>4 DEF LiveInv, LiveOK, LiveRootIsTheMedium
  <2> QED
    BY <1>1, <1>2, <2>1, <2>5 DEF LiveInv
<1>6. CASE LiveFault
  <2>1. /\ lpc \in {"idle", "squashfs", "overlay"} /\ lpc' = "failed"
        /\ UNCHANGED <<mediumStack, lower, overlay, carried>>
    BY <1>6 DEF LiveFault
  <2>2. liveTries' < LiveRetries
    BY <1>1, <2>1 DEF LiveInv
  <2>3. LiveOK' /\ LiveRootIsTheMedium'
    BY <1>1, <2>1 DEF LiveInv, LiveOK, LiveRootIsTheMedium
  <2> QED
    BY <1>1, <1>2, <2>1, <2>2, <2>3 DEF LiveInv
<1> QED
  BY <1>3, <1>4, <1>5, <1>6
-----------------------------------------------------------------------------
(* Steps of the disk's root-mount hook.                                    *)
LEMMA DiskTypes ==
  ASSUME DiskInv
  PROVE  /\ DiskRetries \in Nat \ {0} /\ MaxDelay \in Nat /\ diskTries \in Nat
         /\ \A t \in DOMAIN Tagged : Tagged[t] \subseteq Block
         /\ words \in Seq(DOMAIN Tagged \cup {BadForm})
BY DiskRetriesAssumption, DelayAssumption, TaggedAssumption DEF DiskInv, DiskOK

LEMMA LastWord ==
  ASSUME DiskInv, words # <<>>, RootSpec # BadForm
  PROVE  RootSpec \in DOMAIN Tagged
<1>1. words \in Seq(DOMAIN Tagged \cup {BadForm}) /\ Len(words) \in 1..Len(words)
  BY DiskTypes, EmptySeq
<1> QED
  BY <1>1, ElementOfSeq DEF RootSpec, Last

LEMMA ResolvingInv ==
  ASSUME DevicesOK, DiskInv, DiskStart \/ Resolve \/ NoDevice
  PROVE  DevicesOK' /\ Still /\ DiskInv'
<1> USE DiskTypes
<1>1. UNCHANGED devices /\ UNCHANGED <<words, fsck, status, rootDisk>>
  BY DEF DiskStart, Resolve, NoDevice
<1>2. /\ DevicesOK' /\ Still /\ UNCHANGED <<broken, loaded, present, age, Due>>
      /\ \A S : Exposed(S)' = Exposed(S)
  BY <1>1, AtRest
<1>3. RootSpec' = RootSpec
  BY <1>1 DEF RootSpec, Last
<1>4. CASE DiskStart
  <2>1. /\ dpc = "idle" /\ UNCHANGED <<diskTries, dev>>
        /\ \/ dpc' = "failed"
           \/ dpc' = "resolve" /\ words # <<>> /\ RootSpec # BadForm
    BY <1>4 DEF DiskStart, DGoto
  <2>2. DiskOK' /\ WaitedFor(diskTries)'
    BY <1>1, <1>2, <2>1 DEF DiskInv, DiskOK, WaitedFor
  <2>3. dpc' = "resolve" => RootSpec \in DOMAIN Tagged
    BY <2>1, LastWord
  <2>4. diskTries' < DiskRetries
    BY <2>1 DEF DiskInv
  <2> QED
    BY <1>1, <1>2, <1>3, <2>1, <2>2, <2>3, <2>4 DEF DiskInv
<1>5. CASE Resolve
  <2>1. dpc = "resolve" /\ dpc' = "check" /\ UNCHANGED diskTries
    BY <1>5 DEF Resolve, DGoto
  <2>2. PICK d \in Tagged[RootSpec] : dev' = {d}
    BY <1>5 DEF Resolve, Matches
  <2>3. RootSpec \in DOMAIN Tagged /\ diskTries < DiskRetries
    BY <2>1 DEF DiskInv
  <2>4. dev' \subseteq Block /\ Cardinality(dev') <= 1
    <3>1. Cardinality({d}) = 1 /\ Tagged[RootSpec] \subseteq Block
      BY <2>3, FS_Singleton
    <3> QED
      BY <2>2, <3>1
  <2>5. rootDisk' = {}
    BY <1>1, <2>1 DEF DiskInv
  <2>6. DiskOK' /\ WaitedFor(diskTries)'
    BY <1>1, <1>2, <2>1, <2>4, <2>5 DEF DiskInv, DiskOK, WaitedFor
  <2> QED
    BY <1>1, <1>2, <1>3, <2>1, <2>2, <2>3, <2>6 DEF DiskInv
<1>6. CASE NoDevice
  <2>1. /\ dpc = "resolve" /\ dpc' = "failed" /\ Punctual /\ Matches = {}
        /\ diskTries + 1 >= DiskRetries /\ diskTries' = diskTries + 1 /\ UNCHANGED dev
    BY <1>6 DEF NoDevice, DGoto
  <2>2. RootSpec \in DOMAIN Tagged /\ diskTries < DiskRetries
    BY <2>1 DEF DiskInv
  <2>3. DiskOK'
    BY <1>1, <2>1, <2>2 DEF DiskInv, DiskOK
  <2>4. ASSUME MaxDelay < DiskRetries PROVE Exposed(Tagged[RootSpec]) = {}
    <3>1. Due = {}
      BY <2>1, <2>4, NothingDue DEF DiskInv
    <3>2. Tagged[RootSpec] \subseteq Thing
      BY <2>2 DEF Thing
    <3>3. Exposed(Tagged[RootSpec]) \subseteq Matches
      BY <3>1, <3>2 DEF Exposed, Due, Matches
    <3> QED
      BY <2>1, <3>3
  <2> QED
    BY <1>1, <1>2, <1>3, <2>1, <2>3, <2>4 DEF DiskInv
<1> QED
  BY <1>4, <1>5, <1>6

LEMMA ResolveAgainInv ==
  ASSUME DevicesOK, DiskInv, ResolveAgain
  PROVE  DevicesOK' /\ Still /\ DiskInv'
<1> USE DiskTypes
<1>1. /\ dpc = "resolve" /\ diskTries + 1 < DiskRetries /\ diskTries' = diskTries + 1 /\ Sleep
      /\ UNCHANGED <<words, fsck, dpc, dev, status, rootDisk>>
  BY DEF ResolveAgain
<1>2. DevicesOK' /\ Still
  BY <1>1, DeviceSteps
<1>3. WaitedFor(diskTries)'
  BY <1>1, OneMoreSleep DEF DiskInv, WaitedFor
<1>4. DiskOK' /\ RootSpec' = RootSpec
  BY <1>1 DEF DiskInv, DiskOK, RootSpec, Last
<1> QED
  BY <1>1, <1>2, <1>3, <1>4 DEF DiskInv

LEMMA MountingDiskInv ==
  ASSUME DevicesOK, DiskInv, CheckDisk \/ MountDisk \/ DiskFault
  PROVE  DevicesOK' /\ Still /\ DiskInv'
<1> USE DiskTypes
<1>1. UNCHANGED devices /\ UNCHANGED <<words, fsck, diskTries, dev>>
  BY DEF CheckDisk, MountDisk, DiskFault
<1>2. /\ DevicesOK' /\ Still /\ UNCHANGED <<broken, loaded, present, age, Due>>
      /\ \A S : Exposed(S)' = Exposed(S)
  BY <1>1, AtRest
<1>3. RootSpec' = RootSpec
  BY <1>1 DEF RootSpec, Last
<1>4. /\ dpc # "failed" /\ dpc # "ok"
      /\ \/ status' = status \/ (dpc = "check" /\ status' \in 0..2)
      /\ \/ rootDisk' = rootDisk /\ dpc' # "ok"
         \/ dpc = "mount" /\ rootDisk' = dev /\ dpc' = "ok" /\ status' = status
      /\ dpc' \in {"mount", "ok", "failed"}
      /\ dpc' \in {"mount", "ok"} => dpc \in {"check", "mount"}
      /\ dpc' = "mount" => status' <= 1
  <2>1. CASE CheckDisk
    <3>1. status' \in 0..2
      BY <2>1 DEF CheckDisk
    <3> QED
      BY <2>1, <3>1 DEF CheckDisk
  <2>2. CASE MountDisk
    BY <2>2 DEF MountDisk, DGoto
  <2>3. CASE DiskFault
    BY <2>3 DEF DiskFault
  <2> QED
    BY <2>1, <2>2, <2>3
<1>5. diskTries' < DiskRetries
  BY <1>1, <1>4 DEF DiskInv
<1>6. DiskOK'
  BY <1>1, <1>4 DEF DiskInv, DiskOK
<1>7. dpc' \in {"mount", "ok"} =>
        /\ RootSpec \in DOMAIN Tagged /\ dev # {} /\ dev \subseteq Tagged[RootSpec]
        /\ status' <= 1
  BY <1>4 DEF DiskInv
<1>8. rootDisk' = IF dpc' = "ok" THEN dev' ELSE {}
  BY <1>1, <1>4 DEF DiskInv
<1>9. diskTries' # DiskRetries /\ dpc' \notin {"idle", "check"}
  BY <1>1, <1>4, <1>5
<1>10. dpc' \notin {"ok", "failed"} => WaitedFor(diskTries)'
  BY <1>1, <1>2, <1>4 DEF DiskInv, WaitedFor
<1> HIDE DiskTypes
<1> QED
  BY <1>1, <1>2, <1>3, <1>4, <1>5, <1>6, <1>7, <1>8, <1>9, <1>10 DEF DiskInv
-----------------------------------------------------------------------------
LEMMA InitIInv == Init => IInv
<1> SUFFICES ASSUME Init PROVE IInv
  OBVIOUS
<1> USE ScanAssumption, DelayAssumption, LiveRetriesAssumption, DiskRetriesAssumption
<1>1. /\ loaded = {} /\ age = [x \in Thing |-> 0] /\ broken \subseteq Alias \cup Removable
      /\ present \subseteq Thing
  BY DEF Init, DevicesInit
<1>2. DevicesOK
  BY <1>1 DEF DevicesOK
<1>3. WaitedFor(0)
  BY <1>1 DEF WaitedFor, Due
<1>4. ColdplugInv
  BY <1>1, <1>3 DEF Init, ColdplugInit, ColdplugInv, ColdplugOK
<1>5. LiveInv
  <2>1. mediumStack \in Seq(Iso) /\ Len(mediumStack) = 0
    BY EmptySeq DEF Init, LiveInit
  <2> QED
    <3>1. lpc = "idle" /\ overlay \in BOOLEAN /\ candidates = {} /\ lower = {} /\ carried = {}
      BY DEF Init, LiveInit
    <3>2. liveTries = 0 /\ liveTries \in 0..LiveRetries /\ Len(mediumStack) <= MaxStacked + 1
      BY <2>1 DEF Init, LiveInit
    <3>3. LiveOK /\ LiveRootIsTheMedium
      BY <2>1, <3>1, <3>2 DEF LiveOK, LiveRootIsTheMedium
    <3> QED
      BY <1>3, <2>1, <3>2, <3>3 DEF Init, LiveInit, LiveInv
<1>6. DiskInv
  BY <1>3, FS_EmptySet DEF Init, DiskInit, DiskInv, DiskOK
<1>7. PreludeInv
  BY DEF Init, ColdplugInit, LiveInit, DiskInit, PreludeInv
<1> QED
  BY <1>2, <1>4, <1>5, <1>6, <1>7 DEF IInv

(* prelude's own steps, which no hook takes part in.                       *)
LEMMA PreludeSteps ==
  ASSUME PreludeInv, UNCHANGED <<coldplug, liveRoot, diskRoot>>,
         RunHook \/ EndHook \/ Halt \/ Pivot \/ UNCHANGED prelude
           \/ \E r \in {"initramfs", "rootfs"}, v \in View : MountView(r, v)
  PROVE  PreludeInv'
<1>1. UNCHANGED <<cpc, lpc, dpc>>
  BY DEF coldplug, liveRoot, diskRoot
<1>2. CASE RunHook
  <2>1. PICK h \in Hook \ ran : running = {} /\ running' = {h}
    BY <1>2 DEF RunHook
  <2>2. UNCHANGED <<kind, ran, views, boot>>
    BY <1>2 DEF RunHook
  <2> QED
    BY <1>1, <2>1, <2>2 DEF PreludeInv, At
<1>3. CASE EndHook
  <2>1. ran' = ran \cup running /\ running' = {} /\ UNCHANGED <<kind, views, boot>> /\ Ended
    BY <1>3 DEF EndHook
  <2>2. ran' \subseteq Hook
    BY <2>1 DEF PreludeInv
  <2>3. "load-drivers" \in ran' => cpc \in {"ok", "declined"}
    <3>1. At("load-drivers") => cpc \in {"ok", "declined"}
      BY <2>1 DEF Ended, At
    <3> QED
      BY <2>1, <3>1 DEF PreludeInv, At
  <2>4. lpc \in {"idle", "ok"} /\ dpc \in {"idle", "ok"}
    <3>1. At("mount-root") => lpc = "ok" \/ dpc = "ok"
      BY <2>1 DEF Ended, At
    <3> QED
      BY <3>1 DEF PreludeInv
  <2>5. cpc \in {"idle", "ok", "declined"}
    BY <2>1 DEF PreludeInv, Ended, At
  <2> QED
    BY <1>1, <2>1, <2>2, <2>3, <2>4, <2>5 DEF PreludeInv
<1>4. CASE Halt \/ Pivot
  <2>1. boot' \in {"pivoted", "halted"} /\ UNCHANGED <<kind, running, ran, views>>
    BY <1>4 DEF Halt, Pivot
  <2> QED
    BY <1>1, <2>1 DEF PreludeInv, At
<1>5. CASE UNCHANGED prelude
  BY <1>1, <1>5 DEF PreludeInv, At, prelude
<1>6. ASSUME NEW r \in {"initramfs", "rootfs"}, NEW v \in View, MountView(r, v)
      PROVE  PreludeInv'
  <2>1. views' = [views EXCEPT ![r] = @ \cup {v}] /\ UNCHANGED <<kind, running, ran, boot>>
    BY <1>6 DEF MountView
  <2>2. views' \in [{"initramfs", "rootfs"} -> SUBSET View]
    BY <2>1 DEF PreludeInv
  <2> QED
    BY <1>1, <2>1, <2>2 DEF PreludeInv, At
<1> QED
  BY <1>2, <1>3, <1>4, <1>5, <1>6

LEMMA RunColdplugInv ==
  ASSUME IInv, RunColdplug
  PROVE  IInv'
<1> USE DEF IInv
<1>1. /\ At("load-drivers") /\ ColdplugStep
      /\ UNCHANGED <<liveRoot, diskRoot, kind, running, ran, views, boot>>
  BY DEF RunColdplug, prelude
<1>2. UNCHANGED <<lpc, dpc>>
  BY <1>1 DEF liveRoot, diskRoot
<1>3. lpc \in {"idle", "ok"} /\ dpc \in {"idle", "ok"} /\ "load-drivers" \notin ran
  BY <1>1 DEF PreludeInv, At
<1>4. DevicesOK' /\ ColdplugInv'
  BY <1>1, ColdplugGoes, QuietInv, LoadInv DEF ColdplugStep
<1>5. LiveInv' /\ DiskInv'
  BY <1>1, <1>3, <1>4, LiveKept, DiskKept
<1>6. PreludeInv'
  BY <1>1, <1>2, <1>3 DEF PreludeInv, At
<1> QED
  BY <1>4, <1>5, <1>6

LEMMA RunRootInv ==
  ASSUME IInv, RunLive \/ RunDisk
  PROVE  IInv'
<1> USE DEF IInv
<1>1. /\ At("mount-root") /\ UNCHANGED <<coldplug, kind, running, ran, views, boot>>
      /\ \/ kind = "live" /\ (LiveStep \/ LiveFault) /\ UNCHANGED diskRoot
         \/ kind = "disk" /\ (DiskStep \/ DiskFault) /\ UNCHANGED liveRoot
  BY DEF RunLive, RunDisk, prelude
<1>2. UNCHANGED cpc /\ (UNCHANGED diskRoot => UNCHANGED dpc) /\ (UNCHANGED liveRoot => UNCHANGED lpc)
  BY <1>1 DEF coldplug, diskRoot, liveRoot
<1>3. CASE kind = "live" /\ (LiveStep \/ LiveFault) /\ UNCHANGED diskRoot
  <2>1. DevicesOK' /\ Still /\ LiveInv'
    BY <1>3, ScanInv, ScanAgainInv, MountingInv DEF LiveStep
  <2>2. DiskInv' /\ ColdplugInv'
    BY <1>1, <1>3, <2>1, DiskKept, ColdplugKept
  <2>3. PreludeInv'
    BY <1>1, <1>2, <1>3 DEF PreludeInv, At
  <2> QED
    BY <2>1, <2>2, <2>3
<1>4. CASE kind = "disk" /\ (DiskStep \/ DiskFault) /\ UNCHANGED liveRoot
  <2>1. DevicesOK' /\ Still /\ DiskInv'
    BY <1>4, ResolvingInv, ResolveAgainInv, MountingDiskInv DEF DiskStep
  <2>2. LiveInv' /\ ColdplugInv'
    BY <1>1, <1>4, <2>1, LiveKept, ColdplugKept
  <2>3. PreludeInv'
    BY <1>1, <1>2, <1>4 DEF PreludeInv, At
  <2> QED
    BY <2>1, <2>2, <2>3
<1> QED
  BY <1>1, <1>3, <1>4

LEMMA NextIInv == IInv /\ [Next]_vars => IInv'
<1> SUFFICES ASSUME IInv, [Next]_vars PROVE IInv'
  OBVIOUS
<1> USE DEF IInv
<1>1. ASSUME UNCHANGED devices \/ ShowsUp, UNCHANGED <<coldplug, liveRoot, diskRoot>>, PreludeInv'
      PROVE  IInv'
  BY <1>1, DeviceSteps, ColdplugKept, LiveKept, DiskKept
<1>2. CASE RunHook \/ EndHook \/ Halt \/ Pivot
  <2>1. UNCHANGED <<devices, coldplug, liveRoot, diskRoot>>
    BY <1>2 DEF RunHook, EndHook, Halt, Pivot
  <2> QED
    BY <1>1, <1>2, <2>1, PreludeSteps
<1>3. CASE \E r \in {"initramfs", "rootfs"}, v \in View : MountView(r, v)
  <2>1. UNCHANGED <<devices, coldplug, liveRoot, diskRoot>>
    BY <1>3 DEF MountView
  <2> QED
    BY <1>1, <1>3, <2>1, PreludeSteps
<1>4. CASE Probing
  <2>1. ShowsUp /\ UNCHANGED <<coldplug, liveRoot, diskRoot, prelude>>
    BY <1>4 DEF Probing
  <2> QED
    BY <1>1, <2>1, PreludeSteps
<1>5. CASE UNCHANGED vars
  <2>1. UNCHANGED <<devices, coldplug, liveRoot, diskRoot, prelude>>
    BY <1>5 DEF vars
  <2> QED
    BY <1>1, <2>1, PreludeSteps
<1> QED
  BY <1>2, <1>3, <1>4, <1>5, RunColdplugInv, RunRootInv DEF Next, HookStep

LEMMA Invariance == Spec => []IInv
  BY InitIInv, NextIInv, PTL DEF Spec
-----------------------------------------------------------------------------
(* Type correctness; one hook runs at a time and none runs twice.          *)
THEOREM TypeCorrect == Spec => []TypeOK
<1>1. IInv => TypeOK
  <2> SUFFICES ASSUME IInv PROVE TypeOK
    OBVIOUS
  <2>1. running \subseteq Hook /\ Cardinality(running) <= 1
    <3>1. running = {} \/ \E h \in Hook : running = {h}
      BY DEF IInv, PreludeInv
    <3>2. Cardinality({}) = 0 /\ \A h : Cardinality({h}) = 1
      BY FS_EmptySet, FS_Singleton
    <3>3. CASE running = {}
      BY <3>2, <3>3
    <3>4. ASSUME NEW h \in Hook, running = {h}
          PROVE  running \subseteq Hook /\ Cardinality(running) <= 1
      <4>1. Cardinality(running) = 1
        BY <3>2, <3>4
      <4> QED
        BY <3>4, <4>1
    <3> QED
      BY <3>1, <3>3, <3>4
  <2> QED
    BY <2>1 DEF IInv, ColdplugInv, LiveInv, DiskInv, PreludeInv, TypeOK
<1> QED
  BY <1>1, Invariance, PTL

(* Whatever set of drivers hangs off loaded buses is loaded when the hook  *)
(* has settled: what is loaded is closed, so it holds the least closed set.*)
LEMMA Drives ==
  ASSUME IInv
  PROVE  ChainLoaded
<1> SUFFICES ASSUME cpc \in {"ok", "declined"}, tree, scans < ScanLimit, MaxDelay < QuietLimit
             PROVE  Reachable \subseteq loaded
  BY DEF ChainLoaded
<1>1. Calm /\ loaded = seen \ broken
  BY DEF IInv, ColdplugInv
<1>2. Closed(loaded)
  <2> SUFFICES ASSUME NEW a \in Alias \ broken, Parent[a] \in loaded \cup {Bus}
               PROVE  a \in loaded
    BY DEF Closed
  <2>1. a \in Thing /\ a \notin Missing
    BY DEF Thing, Missing
  <2>2. a \in present
    BY <1>1, <2>1 DEF Calm, Due
  <2> QED
    BY <1>1, <2>2 DEF Calm
<1>3. loaded \in SUBSET Alias
  BY DEF IInv, DevicesOK
<1> QED
  BY <1>2, <1>3 DEF Reachable

(* A settled coldplug hook has loaded every driver that any chain of buses *)
(* calls for.                                                              *)
THEOREM ChainsAreLoaded == Spec => []ChainLoaded
  BY Drives, Invariance, PTL

(* The live root and the medium it shows are one device, a real medium.    *)
THEOREM LiveRootIsMedium == Spec => []LiveRootIsTheMedium
<1>1. IInv => LiveRootIsTheMedium
  BY DEF IInv, LiveInv
<1> QED
  BY <1>1, Invariance, PTL

(* The disk root is a device the last root= names, and fit to mount.       *)
THEOREM DiskRootIsTheNamed == Spec => []DiskRootIsNamed
<1>1. IInv => DiskRootIsNamed
  BY DEF IInv, DiskInv, DiskRootIsNamed, RootSpec, Last
<1> QED
  BY <1>1, Invariance, PTL

(* Behind load-drivers, a root-mount hook that gives up has nothing to     *)
(* mount that the image has the drivers for.                               *)
THEOREM StorageIsWaitedFor == Spec => []NeverGivesUpOnStorage
<1>1. ASSUME IInv PROVE NeverGivesUpOnStorage
  <2> SUFFICES ASSUME "load-drivers" \in ran,
                      tree => scans < ScanLimit /\ MaxDelay < QuietLimit
               PROVE  /\ MaxDelay < LiveRetries /\ liveTries = LiveRetries
                            => Available(Medium) = {}
                      /\ MaxDelay < DiskRetries /\ diskTries = DiskRetries
                            => Available(Tagged[RootSpec]) = {}
    BY DEF NeverGivesUpOnStorage
  <2>1. Drivers \subseteq loaded
    <3>1. cpc \in {"ok", "declined"}
      BY <1>1 DEF IInv, PreludeInv
    <3> QED
      BY <1>1, <3>1, Drives DEF Drivers, ChainLoaded
  <2>2. \A S : Available(S) \subseteq Exposed(S)
    BY <2>1 DEF Available, Exposed
  <2>3. liveTries = LiveRetries => lpc = "failed"
    BY <1>1, LiveTypes DEF IInv, LiveInv
  <2>4. diskTries = DiskRetries => dpc = "failed"
    BY <1>1, DiskTypes DEF IInv, DiskInv
  <2> QED
    BY <1>1, <2>2, <2>3, <2>4 DEF IInv, LiveInv, DiskInv
<1> QED
  BY <1>1, Invariance, PTL
=============================================================================
