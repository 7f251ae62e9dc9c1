SPECIFICATION FairSpec
CONSTANTS
  Deliveries = {d1}
  Endpoints = {e1}
  EndpointOf <- OneEndpoint
  Workers = {w1}
  Null = Null
  RetryDelays <- OneRetry
  MaxDelay = 1
  BatchSize = 1
  MaxAborts = 1
  MaxRedeliveries = 0
  MaxCopies = 1
  d1 = d1
  w1 = w1
  e1 = e1
PROPERTIES
  StuckWorkRecovered
