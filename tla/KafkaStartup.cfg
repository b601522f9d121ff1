SPECIFICATION FairSpec
CONSTANTS
  i1 = i1  i2 = i2  q1 = q1  q2 = q2  Nobody = Nobody
  Instances = {i1}
  Partitions = {q1}
  Malformed = FALSE
  HandlersFail = FALSE
  Faults = FALSE
  SubscribeFirst = FALSE
  MaxMessages = 2
  MaxStops = 1
PROPERTIES
  EventuallyTried
CHECK_DEADLOCK FALSE
