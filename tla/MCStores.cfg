CONSTANTS
  j1 = j1
  j2 = j2
  e1 = e1
  g1 = g1
  g2 = g2
  Jobs = {j1, j2}
  Entries = {e1}
  Plans <- MCPlans
  MaxAttempts = 1
  MaxActive = 1
  MaxTerminal = 1
  NoReceipt = NoReceipt
  None = None
  NoCache = NoCache
  NoClaim = NoClaim
  Idle = Idle
  Size = 2
  MaxAborts = 1
  MaxReboots = 1
  Getters = {g1, g2}
  MaxGenerated = 3
  MaxStarts = 1
  Nil = Nil
  NoKey = NoKey
SPECIFICATION PartSpec
INVARIANTS ReadyIsTheRelease EndedLeavesNothing OneKey
PROPERTIES Refines TransferEnds
CHECK_DEADLOCK FALSE
