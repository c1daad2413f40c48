CONSTANTS
  j1 = j1
  j2 = j2
  j3 = j3
  e1 = e1
  Jobs = {j1, j2}
  Entries = {e1}
  Plans <- MCPlans
  MaxAttempts = 2
  MaxActive = 2
  MaxTerminal = 1
  NoReceipt = NoReceipt
  None = None
  NoCache = NoCache
  NoClaim = NoClaim
  Panel = Panel
  Stranger = Stranger
  Launcher = Launcher
  Unset = Unset
  MaxJobs = 3
  MaxLosses = 2
  MaxSwaps = 1
  MaxChoices = 1
SYMMETRY JobSymmetry
SPECIFICATION PartSpec
INVARIANTS StoreReadable AuthorityIsDurable CancelPrecedesInstall FailedJobNeverInstalls PreviousHomeIsKept
PROPERTIES TerminalIsFinal InterruptedMutationIsQuarantined
CHECK_DEADLOCK FALSE
