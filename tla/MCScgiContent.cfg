SPECIFICATION FairSpec
CONSTANTS
  MaxLength = 5
  Buffer = 2
  NoLength = NoLength
CHECK_DEADLOCK FALSE
INVARIANTS TypeOK CompleteMovesAll
PROPERTIES OnlyLateContentStalls ContentInTimeMoved
