SPECIFICATION FairSpec
CONSTANTS
  i1 = i1  i2 = i2  r1 = r1  r2 = r2  s1 = s1  s2 = s2  p1 = p1
  u1 = u1  u2 = u2  u3 = u3  u4 = u4  u5 = u5
  NoRow = NoRow  NoId = NoId  NoScores = NoScores  NoReply = NoReply
  Instances = {i1, i2}
  Requests = {r1}
  LivePoints = {}
  SeedOrder <- MCSeedOrder
  Seed <- MCSeed
  Detected = {}
  Interventions <- InstallOnly
  Ids = {u1, u2, u3}
  Faults = TRUE
  MaxLamps = 2
  MaxTrims = 0
  MaxCrashes = 2
INVARIANTS
  ChildrenOnce
  SeedPrefixWhole
  IndInv
PROPERTIES
  EventuallySeeded
CHECK_DEADLOCK FALSE
