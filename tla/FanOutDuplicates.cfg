SPECIFICATION Spec
CONSTANTS
  Endpoints = {p1, p2}
  t1 = t1
  TypeLists = {{}, {t1}}
  Urls = {u1}
  Null = Null
  Events = {e1}
  TypeOf <- OneType
  Runs = {r1, r2}
  MaxAborts = 1
  MaxRedeliveries = 0
  MaxChanges = 1
INVARIANTS
  OneRowPerEndpoint
