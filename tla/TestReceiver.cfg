SPECIFICATION Spec
CONSTANTS
  Webhooks = {w1, w2, w3, w4}
  FailCounts = {0, 1, 2}
  Null = Null
  MaxLog = 2
  MaxChanges = 3
SYMMETRY Symmetry
INVARIANTS
  TypeOK
  FailsThenRecovers
  LogKeepsNewest
