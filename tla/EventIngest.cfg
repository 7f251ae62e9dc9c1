SPECIFICATION FairSpec
CONSTANTS
  r1 = r1
  r2 = r2
  r3 = r3
  r4 = r4
  r5 = r5
  acme = acme
  globex = globex
  key = key
  Null = Null
  Requests = {r1, r2, r3, r4, r5}
  TenantOf <- Tenants
  KeyOf <- Keys
  MaxFailures = 1
INVARIANTS
  TypeOK
  OneEventPerKey
  AnswersAgree
  ConflictExplained
  DispatchedOnce
PROPERTIES
  ImplementsPromise
  EventuallyDispatched
  EventuallyOver
