\* One entry of each kind; two faults (a kill or failure in each of two
\* invocations), two TERMs (the second can meet what an invocation sent to the
\* tmpfs by the first has left there), two invocations.  The program ends, so
\* does the model.
CONSTANTS
  boot = boot
  usr = usr
  system = system
  var = var
  Entry <- MCEntry
  Boot = boot
  Usr = usr
  System = system
  Hive = var
  MaxFaults = 2
  MaxTerms = 2
  MaxRuns = 2
SPECIFICATION Spec
INVARIANTS DoneMeansInstalled UkiHasDiskHookOnly FormatsOnlyWhenReady
CHECK_DEADLOCK FALSE
