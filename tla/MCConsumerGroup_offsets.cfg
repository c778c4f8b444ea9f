SPECIFICATION FairSpec
CONSTANTS
  c1 = c1
  c2 = c2
  NoReader = NoReader
  Readers = {c1, c2}
  Length = 4
  Skipped <- SecondMessage
  MaxFaults = 3
CHECK_DEADLOCK FALSE
INVARIANTS
  TypeOK
  OnlyFailuresSkipped
  TriedInOrder
PROPERTIES
  EveryMessageTried
  PassedOnlyBySuccessor
