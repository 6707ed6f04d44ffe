\* Three preparations, two at a time, in one job or meeting in the store, whose
\* requests differ or not; the tag, the policy and the store each change once, and
\* either a process dies or the power fails.  Runs end, so does the model.
CONSTANTS
  Process = {p1, p2}
  Job = {j1, j2}
  Target = {t1}
  WithToolchain = {t1}
  Deps = {d1, d2}
  None = None
  MaxUpstream = 1
  MaxPolicy = 1
  MaxRuns = 3
  MaxFailures = 1
  MaxCorrupt = 1
SPECIFICATION Spec
SYMMETRY Symmetry
INVARIANTS MarkerIsLast OneBasePerJob RecordsHaveArchives RootIsItsRecord
PROPERTIES ArchivesImmutable
CHECK_DEADLOCK FALSE
