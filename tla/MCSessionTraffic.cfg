CONSTANTS
  k1 = k1
  k2 = k2
  Commands = {k1, k2}
  EventIds = {0}
  MaxLateCommands = 1
  p1 = p1
  p2 = p2
  a1 = a1
  a2 = a2
  r1 = r1
  Panels = {p1, p2}
  Announcements = {a1, a2}
  Replies = {r1}
  Target <- MCTarget
  Key <- MCKey
  Roaming = {p1}
  MaxTroubles = 2
  None = None
SPECIFICATION PartSpec
INVARIANTS WaiterIsReachable ReturnedIsSilent
PROPERTIES EveryCallReturns EndPrecedesNext AnnouncementReturns
CHECK_DEADLOCK FALSE
