\* Windows of two scans against a delay of one sleep, the tightest pair the
\* design allows; four scans are enough for both waves of modaliases unless the
\* first scan is empty.  A boot ends, so does the model.
CONSTANTS
  hub = hub
  hba = hba
  cd = cd
  vcd = vcd
  iso = iso
  disk = disk
  clone = clone
  uuid = uuid
  path = path
  Bus = Bus
  BadForm = BadForm
  Alias <- MCAlias
  Block <- MCBlock
  Parent <- MCParent
  Tagged <- MCTagged
  Cmdline <- MCCmdline
  Removable = {vcd}
  Iso = {cd, vcd, iso}
  Medium = {cd, vcd}
  View = {bin, etc}
  MaxDelay = 1
  QuietLimit = 2
  ScanLimit = 4
  LiveRetries = 2
  DiskRetries = 2
  MaxStacked = 1
SPECIFICATION FairSpec
INVARIANTS ChainLoaded LiveRootIsTheMedium DiskRootIsNamed NeverGivesUpOnStorage
PROPERTIES EveryBootEnds
CHECK_DEADLOCK FALSE
