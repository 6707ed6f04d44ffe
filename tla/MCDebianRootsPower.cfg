\* Two jobs with the same requests and one power loss.
CONSTANTS
  Process = {p1, p2}
  Job = {j1, j2}
  Target = {t1}
  WithToolchain = {t1}
  Deps = {d1, d2}
  None = None
  MaxUpstream = 0
  MaxPolicy = 0
  MaxRuns = 3
  MaxFailures = 1
  MaxCorrupt = 0
SPECIFICATION Spec
SYMMETRY Symmetry
INVARIANT RecordsSurvivePowerLoss
CHECK_DEADLOCK FALSE
