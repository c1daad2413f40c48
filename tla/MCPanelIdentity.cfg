CONSTANTS
  e1 = e1
  e2 = e2
  p1 = p1
  p2 = p2
  l1 = l1
  l2 = l2
  Entries = {e1, e2}
  Panels = {p1, p2}
  Legacies = {l1, l2}
  MaxInstalls = 2
  MaxReinstalls = 3
  None = None
SYMMETRY IdSymmetry
SPECIFICATION IdSpec
INVARIANTS IdentityIsOwned OneEntitySet NeverLockedOut
PROPERTIES EntryKeepsItsPanel
CHECK_DEADLOCK FALSE
