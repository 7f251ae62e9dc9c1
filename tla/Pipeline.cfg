SPECIFICATION FairSpec
CONSTANTS
  Events = {e1, e2}
  Deliveries = {d1, d2}
  EventOf <- OneEach
  Processes = {p1, p2}
  Null = Null
  BatchSize = 1
  MaxCopies = 2
  MaxAborts = 1
  d1 = d1
  d2 = d2
  d3 = d3
  e1 = e1
  e2 = e2
  p1 = p1
  p2 = p2
INVARIANTS
  TypeOK
  NothingForgotten
PROPERTIES
  EventuallyTried
  OverdueServed
