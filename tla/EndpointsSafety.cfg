SPECIFICATION Spec
CONSTANTS
  Endpoints = {p1, p2}
  t1 = t1
  TypeLists = {{}, {t1}}
  Urls = {u1, u2}
  Requests = {r1, r2, r3}
  p1 = p1
  p2 = p2
  acme = acme
  globex = globex
  Tenants = {acme, globex}
  TenantOf <- OneEach
  Null = Null
SYMMETRY Symmetry
INVARIANTS
  TypeOK
  DisjointUpdatesKept
PROPERTIES
  DeletedIsSeen
  ImplementsTable
