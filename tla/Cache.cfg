SPECIFICATION FairSpec
CONSTANTS
  k1 = k1  k2 = k2  viewer = viewer  editor = editor
  r1 = r1  r2 = r2  a1 = a1  a2 = a2  NoEntry = NoEntry
  Keys = {k1, k2}
  Roles = {viewer, editor}
  RolePerms <- MCRolePerms
  Readers = {r1, r2}
  Assigners = {a1}
  Ttl = 2
  Faults = TRUE
INVARIANTS
  AnswersGranted
  FirstRoleNeverStale
  IndInv
PROPERTIES
  EventuallyCurrent
