SPECIFICATION HttpSpec
CONSTANTS
  j1 = j1
  j2 = j2
  j3 = j3
  k1 = k1
  ua = ua
  ub = ub
  Jobs = {j1, j2, j3}
  Callers = {k1}
  Casts = {{j1, j2}, {j1, j3}, {j1, k1}}
  UriOf <- MCUriOf
  Eras = {"modern", "legacy"}
  ReadResource = FALSE
  HistoryLimit = 1
  BufferLimit = 2
  MaxSessions = 2
  MaxIds = 6
  MaxChunk = 2
  Happenings = {"update", "break", "refusal", "expiry", "abort"}
  MaxHappenings = 1
INVARIANT SessionsAreTrue
CHECK_DEADLOCK FALSE
