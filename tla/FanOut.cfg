SPECIFICATION FairSpec
CONSTANTS
  Endpoints = {p1, p2}
  t1 = t1
  TypeLists = {{}, {t1}}
  Urls = {u1}
  Null = Null
  Events = {e1}
  TypeOf <- OneType
  Runs = {r1, r2, r3}
  MaxAborts = 1
  MaxRedeliveries = 1
  MaxChanges = 3
INVARIANTS
  TypeOK
  FaithfulFanOut
  SentIsStored
  DuplicatesExplained
PROPERTIES
  EverySubscriberServed
