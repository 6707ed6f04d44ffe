------------------------------- MODULE Stage0 -------------------------------
(***************************************************************************)
(* acquire-stage0.py and verify-stage0.py: the bootstrap compiler of a     *)
(* Rust build.  The source release names three archives by checksum; each  *)
(* is downloaded, authenticated, unpacked and installed into a directory   *)
(* that must not exist before; every file there that begins as an ELF file *)
(* or an archive does is compared with its unpacked original and recorded; *)
(* offline workers check the record.  Any other file goes by unseen.       *)
(* A run may fail or be killed anywhere and be repeated, for the same      *)
(* source release or another, in the same output directory.                *)
(***************************************************************************)
EXTENDS Naturals, SequencesExt

CONSTANTS
  Release,     \* source releases
  Absent,      \* no file, no record
  LEAST,       \* the fewest binaries on record
  MaxRuns      \* bound: acquisitions begun

Components == <<"rustc", "cargo", "rust-std">>
Binary == Range(Components) \X {1, 2}     \* two of each
Executables == {<<"rustc", 1>>, <<"cargo", 1>>}
Changed == "changed"     \* bytes that are no release's, after ELF's or ar's magic
Garbled == "garbled"     \* bytes without the magic: a file cut short, a script

(* The absence of a file is neither a file nor a record of some; a file    *)
(* without the magic is no release's.                                      *)
AbsentIsApart ==
  /\ Absent \notin Release \cup {Changed, Garbled} /\ Garbled \notin Release
  /\ \A S \in SUBSET Binary : Absent \notin [S -> Release \cup {Changed}]

VARIABLES
  release,      \* the release whose run is under way
  pc, next,     \* where it stands, and at which component
  stage0,       \* binary |-> the release its bytes are of, Changed, Garbled or Absent
  retained,     \* component |-> the same for its archive in stage0-archives
  identities,   \* stage0-byte-identities.json: binary |-> bytes, or Absent
  inputs,       \* stage0-inputs.json: the release it names, or Absent
  runs

disk == <<stage0, retained, identities, inputs>>
vars == <<release, pc, next, disk, runs>>

Empty == [b \in Binary |-> Absent]

Init ==
  /\ release \in Release
  /\ pc = "ended" /\ next = 1 /\ runs = 0
  /\ stage0 = Empty /\ retained = [c \in Range(Components) |-> Absent]
  /\ identities = Absent /\ inputs = Absent

Ended == pc' = "ended" /\ UNCHANGED <<release, next, disk, runs>>

(* What is there is never built on; metadata that selection refuses ends   *)
(* the run before anything is written.                                     *)
Begin ==
  /\ pc = "ended" /\ runs < MaxRuns
  /\ release' \in Release /\ runs' = runs + 1
  /\ pc' \in (IF stage0 = Empty THEN {"download", "ended"} ELSE {"ended"})
  /\ next' = 1
  /\ UNCHANGED disk

(* The bytes that come must be those the release names by checksum; an     *)
(* archive from elsewhere, or another one, ends the run.                   *)
Download ==
  /\ pc = "download"
  /\ \E served \in Release \cup {Changed} :
       IF served = release THEN pc' = "retain" /\ UNCHANGED <<release, next, disk, runs>>
                           ELSE Ended

(* A copy for later verification; a kill may leave it cut short.           *)
Retain ==
  /\ pc = "retain"
  /\ \E whole \in BOOLEAN :
       /\ retained' = [retained EXCEPT ![Components[next]] = IF whole THEN release ELSE Changed]
       /\ pc' = IF whole THEN "install" ELSE "ended"
  /\ UNCHANGED <<release, next, stage0, identities, inputs, runs>>

(* install.sh writes the component's binaries one after the other: it may  *)
(* stop between two, and it may change or leave out one of them.           *)
Install ==
  /\ pc = "install"
  /\ \E n \in 0..2, odd \in 1..2, bytes \in {release, Changed, Garbled, Absent} :
       /\ stage0' = [b \in Binary |-> IF b[1] = Components[next] /\ b[2] <= n
                                        THEN IF b[2] = odd THEN bytes ELSE release
                                        ELSE stage0[b]]
       /\ IF n < 2 THEN pc' = "ended" /\ UNCHANGED next
          ELSE /\ pc' = IF next = Len(Components) THEN "identify" ELSE "download"
               /\ next' = IF next = Len(Components) THEN next ELSE next + 1
  /\ UNCHANGED <<release, retained, identities, inputs, runs>>

(* The files whose first bytes both scripts look for. *)
Recognized == {b \in Binary : stage0[b] \notin {Absent, Garbled}}

\* What is installed is recorded as it is.
IdentifyUncompared ==
  /\ pc = "identify"
  /\ IF Cardinality(Recognized) < LEAST THEN Ended
     ELSE /\ identities' = Restrict(stage0, Recognized)
          /\ pc' = "versions"
          /\ UNCHANGED <<release, next, stage0, retained, inputs, runs>>

(* Every recognized file has an unpacked original and is equal to it, and  *)
(* there are enough of them; which originals were installed is not asked.  *)
Identify ==
  /\ pc = "identify"
  /\ IF (\E b \in Recognized : stage0[b] # release) \/ Cardinality(Recognized) < LEAST THEN Ended
     ELSE /\ identities' = Restrict(stage0, Recognized)
          /\ pc' = "versions"
          /\ UNCHANGED <<release, next, stage0, retained, inputs, runs>>

(* rustc and cargo report the release's version, as a changed one also may;*)
(* then, last, the inputs.                                                 *)
Conclude ==
  /\ pc = "versions"
  /\ \/ (\E b \in Executables : stage0[b] # release) /\ Ended
     \/ /\ \A b \in Executables : stage0[b] # Absent
        /\ inputs' = release
        /\ pc' = "ended"
        /\ UNCHANGED <<release, next, stage0, retained, identities, runs>>

Killed == pc # "ended" /\ Ended

(* Between acquisition and build anyone may change the installed files.    *)
Tampered ==
  /\ pc \in {"ended", "versions"}
  /\ \E b \in {i \in Binary : stage0[i] # Absent}, bytes \in {Changed, Garbled} :
       stage0' = [stage0 EXCEPT ![b] = bytes]
  /\ UNCHANGED <<release, pc, next, retained, identities, inputs, runs>>

Next == Begin \/ Download \/ Retain \/ Install \/ Identify \/ Conclude \/ Killed \/ Tampered

Spec == Init /\ [][Next]_vars

(* verify-stage0.py, in every offline worker.                              *)
Verifies ==
  /\ identities # Absent
  /\ Restrict(stage0, Recognized) = identities /\ Cardinality(Recognized) >= LEAST

(* Every file that a worker verifies, as far as it has the magic, is of one*)
(* release, and of the one the inputs name, wherever earlier runs stopped  *)
(* and whatever was changed since; and a concluded acquisition keeps that  *)
(* release's archives.  A file that was left out, or that lost its magic   *)
(* before it was recorded, is missed by both scripts.  (acquire: "refusing *)
(* to reuse a pre-existing bootstrap installation")                        *)
OnlyAuthenticStage0 ==
  /\ Verifies => \E r \in Release : /\ \A b \in Recognized : stage0[b] = r
                                    /\ inputs \in {Absent, r}
  /\ inputs # Absent => retained = [c \in Range(Components) |-> inputs]
=============================================================================
