SPECIFICATION StoresSpec
CONSTANTS
  Invokes = {1, 2}
  Shapes <- MCShapes
  EndpointKinds <- MCEndpointKinds
  MaxVersions = 1
  MaxFaults = 2
  MaxTokens = 2
  AuthProcs = {a, b}
  Creds = {"c", "d"}
  SessionIds = {"s", "t"}
  MaxGrants = 2
  MaxTurns = 2
  MaxWrites = 4
  ImportInputs <- MCImportInputs
  MaxImportFaults = 1
  MaxImports = 2
  Recipients = {r1, r2}
  MaxRecreations = 1
INVARIANTS
  InvokesAreTrue
  CredentialsAreTrue
  ImportIsTrue
  AccessIsTrue
PROPERTIES
  StoreSteps
CHECK_DEADLOCK FALSE
