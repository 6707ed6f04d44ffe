\* One job, two targets with the same requests, one of which runs rustc.
CONSTANTS
  Process = {p1, p2}
  Job = {j1}
  Target = {t1, t2}
  WithToolchain = {t1}
  Deps = {d1}
  None = None
  MaxUpstream = 0
  MaxPolicy = 0
  MaxRuns = 2
  MaxFailures = 1
  MaxCorrupt = 0
SPECIFICATION Spec
SYMMETRY Symmetry
INVARIANT RootIsTheTargets
CHECK_DEADLOCK FALSE
