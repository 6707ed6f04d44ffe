------------------------------ MODULE Coldplug ------------------------------
(***************************************************************************)
(* load-drivers.sh: load a driver for every modalias, again and again      *)
(* until a settling window passes without a new one, or the scans run out. *)
(***************************************************************************)
EXTENDS Devices

CONSTANTS QuietLimit, ScanLimit   \* quiet_limit and scan_limit

ASSUME ScanAssumption == {QuietLimit, ScanLimit} \subseteq Nat \ {0}

VARIABLES
  tree,      \* the image has a module tree for this kernel
  cpc, seen, current, quiet, scans

coldplug == <<tree, cpc, seen, current, quiet, scans>>

ColdplugInit ==
  /\ tree \in BOOLEAN
  /\ cpc = "idle"
  /\ seen = {} /\ current = {} /\ quiet = 0 /\ scans = 0

CGoto(from, to) == cpc = from /\ cpc' = to

(* modprobe is there by dependency; without a module tree, decline.        *)
ColdplugStart ==
  /\ CGoto("idle", IF tree THEN "scan" ELSE "declined")
  /\ UNCHANGED <<devices, tree, seen, current, quiet, scans>>

(* Every readable modalias into $current.                                  *)
Scan ==
  /\ cpc = "scan" /\ scans < ScanLimit
  /\ Punctual
  /\ current' = present \cap Alias
  /\ cpc' = IF current' \ seen = {} THEN "quiet" ELSE "load"
  /\ UNCHANGED <<devices, tree, seen, quiet, scans>>

(* The quiet count is not started again after a wave. *)
LoadKeepingQuiet ==
  /\ CGoto("load", "scan")
  /\ Probe(current \ seen)
  /\ seen' = current
  /\ scans' = scans + 1
  /\ UNCHANGED <<tree, current, quiet>>

(* modprobe -a over what is new; a driver that fails is no failure.        *)
Load ==
  /\ CGoto("load", "scan")
  /\ Probe(current \ seen)
  /\ seen' = current
  /\ quiet' = 0
  /\ scans' = scans + 1
  /\ UNCHANGED <<tree, current>>

Quiet ==
  /\ cpc = "quiet" /\ quiet + 1 < QuietLimit
  /\ cpc' = "scan"
  /\ quiet' = quiet + 1
  /\ scans' = scans + 1
  /\ Sleep
  /\ UNCHANGED <<tree, seen, current>>

Settled ==
  /\ CGoto("quiet", "report")
  /\ quiet + 1 >= QuietLimit
  /\ quiet' = quiet + 1
  /\ UNCHANGED <<devices, tree, seen, current, scans>>

ScansExhausted ==
  /\ CGoto("scan", "report")
  /\ scans >= ScanLimit
  /\ UNCHANGED <<devices, tree, seen, current, quiet, scans>>

Report ==
  /\ CGoto("report", IF seen = {} THEN "declined" ELSE "ok")
  /\ UNCHANGED <<devices, tree, seen, current, quiet, scans>>

ColdplugStep ==
  ColdplugStart \/ Scan \/ Load \/ Quiet \/ Settled \/ ScansExhausted \/ Report

ColdplugOK ==
  /\ tree \in BOOLEAN
  /\ cpc \in {"idle", "scan", "load", "quiet", "report", "declined", "ok"}
  /\ seen \subseteq Alias /\ current \subseteq Alias
  /\ quiet \in 0..QuietLimit /\ scans \in 0..ScanLimit

(* Every driver the image has for hardware behind loaded drivers, however  *)
(* deep the chain: the least set closed under loading what has enumerated. *)
Closed(S) == \A a \in Alias \ broken : Parent[a] \in S \cup {Bus} => a \in S

Reachable == {a \in Alias \ broken : \A S \in SUBSET Alias : Closed(S) => a \in S}

(* Each wave of modaliases is waited for: if the hook settled before its   *)
(* scans ran out and buses enumerate within the window of QuietLimit - 1   *)
(* sleeps, every driver that any chain of buses calls for is loaded.       *)
ChainLoaded ==
  /\ cpc \in {"ok", "declined"} /\ tree
  /\ scans < ScanLimit /\ MaxDelay < QuietLimit
  => Reachable \subseteq loaded
=============================================================================
