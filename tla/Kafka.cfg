SPECIFICATION FairSpec
CONSTANTS
  i1 = i1  i2 = i2  q1 = q1  q2 = q2  Nobody = Nobody
  Instances = {i1, i2}
  Partitions = {q1}
  Malformed = TRUE
  HandlersFail = TRUE
  Faults = TRUE
  SubscribeFirst = TRUE
  MaxMessages = 2
  MaxStops = 2
INVARIANTS
  CommittedTried
  TriedInOrder
  IndInv
PROPERTIES
  NothingBlocks
  EventuallyTried
CHECK_DEADLOCK FALSE
