SPECIFICATION Spec
CONSTANTS
  Ids <- FourIds
  Ours <- ThreeOfThem
  Expected = 2
  PageSize = 2
  MaxClock = 1
  Null = Null
INVARIANTS
  TypeOK
  ShownOnce
  ScanComplete
  WaitEndsTruthfully
PROPERTIES
  CursorLeadsOn
