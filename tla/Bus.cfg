SPECIFICATION FairSpec
CONSTANTS
  p1 = p1  p2 = p2  iam = iam  tenant = tenant  audit = audit
  h1 = h1  h2 = h2  h3 = h3
  Publishers = {p1, p2}
  Topics = {iam, tenant, audit}
  Subscribers <- MCSubscribers
  Capacity = 2
  MaxRequests = 5
INVARIANTS
  CleanShutdownSafe
  IndInv
PROPERTIES
  ImplementsFeed
  ShutdownEnds
  RequestsEnd
CHECK_DEADLOCK FALSE
