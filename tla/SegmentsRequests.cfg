SPECIFICATION Spec
CONSTANTS
  i1 = i1  i2 = i2  r1 = r1  r2 = r2  s1 = s1  s2 = s2  p1 = p1
  u1 = u1  u2 = u2  u3 = u3  u4 = u4  u5 = u5
  NoRow = NoRow  NoId = NoId  NoScores = NoScores  NoReply = NoReply
  Instances = {i1}
  Requests = {r1, r2}
  LivePoints = {p1}
  SeedOrder <- OneSeed
  Seed <- OneSeedEntry
  Detected <- MCDetected
  Interventions <- MCInterventions
  Ids = {u1, u2, u3, u4}
  Faults = TRUE
  MaxLamps = 2
  MaxTrims = 1
  MaxCrashes = 0
SYMMETRY IdSymmetry
INVARIANTS
  ScoresMatchFeatures
PROPERTIES
  ImplementsCatalog
