SPECIFICATION SourcesSpec
CONSTANTS
  PageSize = 2
  MaxItems = 4
  MaxFailures = 1
  PollConfigs <- MCPollConfigs
  Kinds = {"raw", "http", "slack", "feishu", "discord", "graphql", "jsonrpc"}
  MaxSockEvents = 2
  MaxCuts = 2
  MaxDelay = 2
  Capacity = 1
  MaxEvents = 2
  MaxRestarts = 2
  MaxStoreErrors = 1
  MaxMail = 3
  MaxDrops = 1
INVARIANTS
  SourcesAreTrue
PROPERTIES
  SourcesGoOn
  
CHECK_DEADLOCK FALSE
