SPECIFICATION Spec
CONSTANTS
  Prefix = 2
  MaxHeader = 3
  Body = 2
CHECK_DEADLOCK FALSE
INVARIANTS PartialRequestWaits
