\* Terminal queues of two characters, five characters of output: every script's
\* expects can match, straddle two reads, or be left waiting.
\* The command may exit with statuses the driver uses itself.
CONSTANTS
  a = a
  b = b
  Symbol = {a, b}
  Script <- MCScript
  Status = {0, 1, 125}
  InCap = 2
  OutCap = 2
  MaxOut = 5
SPECIFICATION FairSpec
INVARIANTS MatchesAreDisjoint OwnStatusMeansMatched TranscriptIsOutput
PROPERTIES EndsUnlessSendBlocks
CHECK_DEADLOCK FALSE
