SPECIFICATION Spec
CONSTANTS
  i1 = i1
  i2 = i2
  i3 = i3
  s1 = s1
  s2 = s2
  n1 = n1
  c1 = c1
  c2 = c2
  Nil = Nil
  Ids = {i1, i2, i3}
  Slugs = {s1, s2}
  Notes = {n1}
  Clients = {c1, c2}
  Foreign = {i1, i2, i3}
  Faults = TRUE
SYMMETRY Symmetry
INVARIANTS
  IndInv
PROPERTIES
  ChangesWhatWasGiven
