\* One TERM is enough to unmount the target under the copy.
CONSTANTS
  boot = boot
  usr = usr
  system = system
  var = var
  Entry <- MCEntry
  Boot = boot
  Usr = usr
  System = system
  Hive = var
  MaxFaults = 2
  MaxTerms = 1
  MaxRuns = 2
SPECIFICATION Spec
INVARIANT DoneIsDone
CHECK_DEADLOCK FALSE
