SPECIFICATION CallsSpec
CONSTANTS
  r1 = r1
  r2 = r2
  r3 = r3
  r4 = r4
  Conns = {r1, r2, r3, r4}
  Loads <- MCLoads
  GlobalLimit = 2
  QueueLimit = 1
  SourceLimit = 1
  MaxIds = 4
  NotificationLimit = 2
  MaxNotes = 3
  HttpCallers = {c1, c2}
  MaxStreams = 2
  MaxTurns = 2
  NoCaller = NoCaller
INVARIANTS
  RequestsAreTrue
  McpCallsAreTrue
PROPERTIES
  CallSteps
  CallsEnd
CHECK_DEADLOCK FALSE
