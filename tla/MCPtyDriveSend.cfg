\* A send of three characters into a terminal that takes two, with a command that
\* lives and does not read.
CONSTANTS
  a = a
  b = b
  Symbol = {a, b}
  Script <- MCScript
  Status = {0, 1, 125}
  InCap = 2
  OutCap = 2
  MaxOut = 5
SPECIFICATION FairSpec
PROPERTY EndsByTheDeadline
CHECK_DEADLOCK FALSE
