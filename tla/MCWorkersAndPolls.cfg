CONSTANTS
  j1 = j1
  e1 = e1
  Jobs = {j1}
  Entries = {e1}
  Plans <- MCPlans
  MaxAttempts = 2
  MaxActive = 1
  MaxTerminal = 1
  MaxRestarts = 2
  Faults = {"store", "reader", "cleanup"}
  NoReceipt = NoReceipt
  NoWorker = NoWorker
  None = None
  NoCache = NoCache
  NoClaim = NoClaim
  a1 = a1
  a2 = a2
  a3 = a3
  q1 = q1
  Addresses = {a1, a2, a3}
  Home = a1
  Polls = {q1}
  MaxMoves = 2
  MaxLinks = 2
  Nil = Nil
  p1 = p1
  p2 = p2
  v1 = v1
  v2 = v2
  Rooms = {p1, p2}
  Players = {v1, v2}
  MuteOnly = {v2}
  MaxTurns = 2
  MaxChanges = 2
  Unheld = Unheld
SPECIFICATION PartSpec
INVARIANTS InstallAtMostOnce FinishedJobIsClean PhaseMatchesPanel NewerAddressStands TurnedDownIsRemembered
PROPERTIES EveryJobSettles RoomIsSetBack ConnectedPanelIsFound
CHECK_DEADLOCK FALSE
