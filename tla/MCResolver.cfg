\* Every zone over three candidate names and two types, two servers of which any
\* may be unreliable, two rounds.  A lookup ends with its reply.
CONSTANTS
  Type <- MCType
  Domain <- MCDomain
  Families <- MCFamilies
  NoReply = NoReply
  Servers = 2
  Attempts = 2
SPECIFICATION FairSpec
INVARIANTS TypeOK OneGoodServerSuffices
PROPERTIES Implements EveryLookupReplies
CHECK_DEADLOCK FALSE
