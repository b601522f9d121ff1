SPECIFICATION LimiterFairSpec
CONSTANTS
  r1 = r1  r2 = r2  r3 = r3
  Requests = {r1, r2, r3}
  Limit = 2
  Window = 4
  MaxFaults = 2
  MaxCount = 6
INVARIANTS
  TwiceLimit
  LimiterInv
PROPERTIES
  NoEarlyRefusal
  WindowEnds
