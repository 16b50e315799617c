CONSTANTS
  s1 = s1
  c1 = c1
  c2 = c2
  poll1 = poll1
  poll2 = poll2
  push = push
  Boot = Boot
  NoProc = NoProc
  NoRow = NoRow
  NoCheckpoint = NoCheckpoint
  Sources <- OneSource
  Streams <- OneStream
  StreamIdOf <- StreamIds
  Specs <- TwoPollSpecs
  PollSpecs <- TwoPollSpecs
  Clients <- TwoClients
  Runs <- MCRuns
  Checkpoints <- MCCheckpoints
  Payloads <- MCPayloads
  Times <- OneTime
  RetentionMaxRows = 100
  RetentionMaxAgeSecs = 100
  MaxRuns = 2
  MaxItems = 1
  MaxEntries = 2
  MaxRequests = 2
  MaxCrashes = 0
  MaxInFlight = 2
  LateWrites = TRUE
SPECIFICATION FairSpec
CHECK_DEADLOCK FALSE
INVARIANTS
  CheckpointCovered
  PollRunsFenced
PROPERTIES
  Answered
