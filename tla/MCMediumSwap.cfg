\* Image lists with and without the conflicting package, malformed lists, and
\* three faults: enough for a fault in the swap, one in the cleanup and one
\* after the checkpoint is gone.  The phase may stop (done), so no deadlock check.
CONSTANTS
  LiveBoot = liveBoot
  LiveBootIrf = liveBootIrf
  DiskBoot = diskBoot
  DiskBootIrf = diskBootIrf
  BadName = badName
  Extra = extra
  Keep = keep
  Package <- MCPackage
  Lists <- MCLists
  MaxFaults = 3
SPECIFICATION FairSpec
INVARIANTS TypeOK RepositoryKeptUntilSwapped CompleteMeansSwapped DeclaredListNeverLost
PROPERTIES OnlyListedRemoved CleanupOnlyForgets FinishesUnlessCut
CHECK_DEADLOCK FALSE
