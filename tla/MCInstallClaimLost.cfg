CONSTANTS
  j1 = j1
  e1 = e1
  Jobs = {j1}
  Entries = {e1}
  Plans <- MCPlans
  MaxAttempts = 2
  MaxActive = 1
  MaxTerminal = 1
  MaxRestarts = 0
  Faults = {"reader"}
  NoReceipt = NoReceipt
  NoWorker = NoWorker
  None = None
  NoCache = NoCache
  NoClaim = NoClaim
SPECIFICATION ExecSpec
PROPERTIES LiveArtifactIsKept
CHECK_DEADLOCK FALSE
