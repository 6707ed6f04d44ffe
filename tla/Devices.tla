------------------------------ MODULE Devices ------------------------------
(***************************************************************************)
(* What the initramfs hooks see of the machine: the modaliases under       *)
(* /sys/bus, the block devices, and the drivers that are loaded.  Drivers  *)
(* probe asynchronously, so what a driver exposes shows up some time after *)
(* it is loaded, MaxDelay sleeps later at most.  External to this          *)
(* repository: the kernel, modelled from how the hooks use it.             *)
(***************************************************************************)
EXTENDS Naturals, FiniteSets

CONSTANTS
  Alias,     \* modaliases; one driver each
  Block,     \* block devices
  Removable, \* block devices that may not be plugged in
  Bus,       \* what is there without any driver of the image
  Parent,    \* Parent[x]: the alias whose driver exposes alias or block device x
  MaxDelay   \* bound: sleeps until an exposed thing shows up

ASSUME ParentAssumption ==
  /\ Bus \notin Alias \cup Block /\ Removable \subseteq Block
  /\ Parent \in [Alias \cup Block -> Alias \cup {Bus}]
ASSUME DelayAssumption == MaxDelay \in Nat

VARIABLES
  broken,    \* aliases whose driver is missing or fails; block devices not there
  loaded,    \* aliases whose driver is loaded
  present,   \* aliases and block devices that show
  age        \* sleeps since a thing was exposed

devices == <<broken, loaded, present, age>>

Thing == Alias \cup Block

(* Not plugged in, and never will be in this boot.                         *)
Missing == broken \cap Block

DevicesInit ==
  /\ broken \in SUBSET (Alias \cup Removable)
  /\ loaded = {}
  /\ present \in SUBSET {x \in Thing \ Missing : Parent[x] = Bus}
  /\ age = [x \in Thing |-> 0]

(* What is exposed and does not show yet.                                  *)
Due == {x \in Thing \ (present \cup Missing) : Parent[x] \in loaded \cup {Bus}}

ShowsUp ==
  /\ \E x \in Due : present' = present \cup {x}
  /\ UNCHANGED <<broken, loaded, age>>

(* Nothing is still due after MaxDelay sleeps: a hook that looks now sees  *)
(* everything that has been due for so long.                               *)
Punctual == \A x \in Due : age[x] < MaxDelay

(* `sleep 0.1` in a hook.                                                  *)
Sleep ==
  /\ Punctual
  /\ age' = [x \in Thing |-> IF x \in Due THEN age[x] + 1 ELSE age[x]]
  /\ UNCHANGED <<broken, loaded, present>>

Probe(aliases) ==
  /\ loaded' = loaded \cup (aliases \ broken)
  /\ UNCHANGED <<broken, present, age>>

DevicesOK ==
  /\ broken \subseteq Alias \cup Removable /\ loaded \subseteq Alias \ broken
  /\ present \subseteq Thing
  /\ age \in [Thing -> 0..MaxDelay]
=============================================================================
