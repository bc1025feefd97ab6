SPECIFICATION FairSpec
CONSTANTS
  Prefix = 2
  MaxHeader = 3
  Body = 2
CHECK_DEADLOCK FALSE
INVARIANTS TypeOK QueuedIntact NeverForgotten
PROPERTIES WholeRequestParsed ImplementsReader
