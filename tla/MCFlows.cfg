CONSTANTS
  j1 = j1
  e1 = e1
  e2 = e2
  f1 = f1
  f2 = f2
  Jobs = {j1}
  Job = j1
  Entries = {e1, e2}
  Flows = {f1, f2}
  Plans <- MCPlans
  Healthy <- MCHealthy
  MaxAttempts = 1
  MaxActive = 1
  MaxTerminal = 1
  MaxRestarts = 1
  NoReceipt = NoReceipt
  NoLease = NoLease
  None = None
  NoCache = NoCache
  NoClaim = NoClaim
  Offers <- MCOffers
  MaxRuns = 2
  Nil = Nil
  u1 = u1
  u2 = u2
  x1 = x1
  x2 = x2
  a1 = a1
  a2 = a2
  Hosts = {x1, x2}
  Addresses = {a1, a2}
  Units = {u1, u2}
  Dialogs = {d1}
  Releases = {r1, r2}
  TestReleases = {r2}
  Blank = Blank
  MaxChanges = 2
SYMMETRY FlowSymmetry
SPECIFICATION PartSpec
INVARIANTS OneEntryPerInstall EntryEndsItsCards ApprovedIsShown
PROPERTIES RunningCardIsLeft
CHECK_DEADLOCK FALSE
