CONSTANTS
  s1 = s1
  c1 = c1
  c2 = c2
  poll1 = poll1
  poll2 = poll2
  push = push
  Boot = Boot
  NoProc = NoProc
  NoRow = NoRow
  NoCheckpoint = NoCheckpoint
  Sources <- OneSource
  Streams <- OneStream
  StreamIdOf <- StreamIds
  Specs <- PollAndPush
  PollSpecs <- OnePollSpec
  Clients <- OneClient
  Runs <- MCRuns
  Checkpoints <- MCCheckpoints
  Payloads <- MCPayloads
  Times <- OneTime
  RetentionMaxRows = 100
  RetentionMaxAgeSecs = 100
  MaxRuns = 3
  MaxItems = 1
  MaxEntries = 3
  MaxRequests = 3
  MaxCrashes = 1
  MaxInFlight = 1
  LateWrites = FALSE
SPECIFICATION Spec
CHECK_DEADLOCK FALSE
INVARIANTS
  NoOrphans
  StopIsFinal
  RowIsServed
  PolledOnce
