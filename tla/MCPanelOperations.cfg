SPECIFICATION PartSpec
CONSTANTS
  Builds = {1, 2, 3}
  Version <- VersionOf
  MaxSessions = 2
  None = None
  Free = Free
  s1 = s1
  s2 = s2
  s3 = s3
  g1 = g1
  Subscriptions = {s1, s2, s3}
  Snapshots = {g1}
  Feed <- MCFeed
  MaxUpdates = 1
  NoAnswer = NoAnswer
INVARIANTS ClaimHasHolder RemovalIsComplete UnfinishedIsRecorded OpenIsWanted
PROPERTIES ForgottenOnlyWhenReached
