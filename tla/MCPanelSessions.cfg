CONSTANTS
  e1 = e1
  e2 = e2
  d1 = d1
  d2 = d2
  u1 = u1
  u2 = u2
  c1 = c1
  c2 = c2
  Entries = {e1, e2}
  Dids = {d1, d2}
  Users = {u1, u2}
  Connections = {c1, c2}
  UserOf <- MCUserOf
  MaxHellos = 2
  None = None
SYMMETRY PanelSymmetry
SPECIFICATION Spec
INVARIANTS SessionIsAdmitted SessionDiesWithSocket
CHECK_DEADLOCK FALSE
