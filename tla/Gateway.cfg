SPECIFICATION Spec
CONSTANTS
  read = read
  none = none
  p1 = p1
  v1 = v1
  spec1 = spec1
  e1 = e1
  e2 = e2
  pol1 = pol1
  pol2 = pol2
  a1 = a1
  a2 = a2
  q1 = q1
  q2 = q2
  NoRow = NoRow
  Places = {p1}
  Versions = {v1}
  Default = v1
  Ids = {e1, e2}
  PolicyIds = {pol1, pol2}
  Specs = {spec1}
  Policies <- MCPolicies
  NoPerm = none
  Elsewhere = 1
  Admins = {a1, a2}
  Requests = {q1}
  Faults = TRUE
SYMMETRY Symmetry
INVARIANTS
  ClosedIsRetired
  StatusIsCurrent
  PermissionEnforced
  RefusedIsNotCounted
  IndInv
