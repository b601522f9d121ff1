SPECIFICATION Spec
CONSTANTS
  orders = orders
  order = order
  missing = missing
  a1 = a1
  a2 = a2
  r1 = r1
  r2 = r2
  q1 = q1
  q2 = q2
  None = None
  Requests = {q1, q2}
  Scopes = {a1, a2}
  Records = {r1, r2}
  Endpoints <- MCEndpoints
  Bodies <- MCBodies
  TextEffects <- MCTextEffects
  Tables = {orders}
  TableNamed <- MCTableNamed
  MaxLimit = 2
  DefaultLimit = 1
  Limits = {0, 2}
  Faults = TRUE
INVARIANTS
  MaskedAtRest
  IndInv
PROPERTIES
  IsolatedReads
  IsolatedWrites

SYMMETRY MCSymmetry
