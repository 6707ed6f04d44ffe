SPECIFICATION Spec
CONSTANTS
  None = None
  t1 = t1
  t2 = t2
  r1 = r1
  r2 = r2
  Radix = 4
  ReverseDns = {"dev.peios.ukify", "dev.peios.gone"}
  Subtrees <- MCSubtrees
  Tools <- MCToolchains
  PcNames = {"p.pc"}
  BuildTarget = {t1, t2}
  MaxPublished = 2
  MaxRuns = 2
  MaxScripts = 4
  Release = {r1, r2}
  LEAST = 4
  MaxAcquisitions = 3
INVARIANTS
  BundleIsTheStore
  MicrocodeWalksWhole
  RequestsServed
  OverlayOnlyAdds
  ReadsWhatWasWritten
  AnsweredInFull
  SuccessSpeaksForBoth
  OnlyAuthenticStage0
PROPERTY
  OneGenerationPerJob
CHECK_DEADLOCK FALSE
