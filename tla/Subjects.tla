------------------------------ MODULE Subjects ------------------------------
(***************************************************************************)
(* The subjects of MCTools that proofs are about, beside each other: four  *)
(* document tools, whose sample is a certificate store's text, the bytes of*)
(* a microcode file, a request for a Debian root or an overlay for one, and*)
(* three short protocols, each with variables of its own.                  *)
(***************************************************************************)
EXTENDS Naturals, Sequences

CONSTANTS
  None,
  Radix,                               \* Microcode
  ReverseDns,                          \* AptSelection
  Subtrees, Tools, PcNames,            \* ReferenceOverlay
  BuildTarget, MaxPublished, MaxRuns,  \* RepositorySnapshot
  MaxScripts,                          \* FeatureServices
  Release, LEAST, MaxAcquisitions      \* Stage0

VARIABLES
  subject, sample,
  source, publishing, snapshot, pc, copy, runs, answers,              \* RepositorySnapshot
  key, child, script, step, at, status, scripts,                      \* FeatureServices
  release, place, next, stage0, retained, identities, inputs, begun   \* Stage0

Cert == INSTANCE CertData
Ucode == INSTANCE Microcode
Apt == INSTANCE AptSelection
Overlay == INSTANCE ReferenceOverlay
Snapshot == INSTANCE RepositorySnapshot WITH Target <- BuildTarget
Services == INSTANCE FeatureServices WITH pc <- step
Seed == INSTANCE Stage0 WITH
  pc <- place, runs <- begun, Absent <- None, MaxRuns <- MaxAcquisitions

ASSUME RadixAssumption == Radix \in Nat /\ Radix > 3     \* CONTAINER_MAGIC's bytes
ASSUME AptAssumption == Apt!NamesApart
ASSUME SnapshotAssumption == Snapshot!NoneIsApart
ASSUME Stage0Assumption == Seed!AbsentIsApart

Word(n) == <<n % Radix, (n \div Radix) % Radix, (n \div (Radix * Radix)) % Radix,
             n \div (Radix * Radix * Radix)>>
Zeros(n) == [i \in 1..n |-> 0]
Container == Ucode!CONTAINER_MAGIC \o Word(0) \o Word(16) \o Zeros(16)
MicrocodePatch == Word(1) \o Word(64) \o Word(0) \o Word(1) \o Zeros(56)
GoodFile == Container \o MicrocodePatch

\* Of the store, however it is damaged, the bundle holds what the store states,
\* or there is no bundle.  (certdata-to-pem.py: parse_objects, convert, main)
BundleIsTheStore == subject = "certificates" => Cert!BundleIsTheStore(sample)

\* A container with any sizes, cut or continued anywhere, is read to its end or
\* refused, never past it; what is read whole is assembled whole.
\* (validate-amd-ucode.py: parse_container_file, main)
MicrocodeWalksWhole ==
  subject = "microcode" =>
    Ucode!WalkStaysInside(sample) /\ Ucode!AssemblyOfGoodFilesPasses(sample, GoodFile)

\* Every line of a target is served by one source, and APT installs the greatest
\* version its lines allow.  (prepare.py and reference.py)
RequestsServed == subject = "apt" => Apt!RequestsServed(sample.ask, sample.world)

\* The overlay adds to the Debian root what the packages own and changes nothing
\* in it.  (reference.py: place, COLLISION_CHECK, install_container)
OverlayOnlyAdds == subject = "overlay" => Overlay!OverlayOnlyAdds(sample)

\* The targets of a job work on one generation of the repository, taken whole:
\* the refinement of FrozenRepository.  (snapshot-repository.py)
OneGenerationPerJob == Snapshot!OneGenerationPerJob

\* A feature script that reports success speaks for both services.
\* (install.sh, enable.sh, disable.sh, uninstall.sh)
SuccessSpeaksForBoth == Services!SuccessSpeaksForBoth

\* A worker that verifies its stage0 builds with authenticated binaries alone.
\* (acquire-stage0.py, verify-stage0.py)
OnlyAuthenticStage0 == Seed!OnlyAuthenticStage0
=============================================================================
