SPECIFICATION Spec
CONSTANTS
  Deliveries = {d1}
  Endpoints = {e1}
  EndpointOf <- OneEndpoint
  Workers = {w1, w2}
  Null = Null
  RetryDelays <- TwoRetries
  MaxDelay = 2
  BatchSize = 1
  MaxAborts = 2
  MaxRedeliveries = 1
  MaxCopies = 1
  d1 = d1
  w1 = w1
  w2 = w2
  e1 = e1
SYMMETRY Symmetry
INVARIANTS
  TypeOK
  OneSender
  PostsAccounted
  AcceptedOnce
  SettledTruthfully
  NeverStranded
PROPERTIES
  DeactivationQuiesces
  BackoffRespected
  ImplementsLifecycle
