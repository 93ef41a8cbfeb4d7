SPECIFICATION SocketsSpec
CONSTANTS
  Frames = 3
  Buffer = 1
  CloseCodes = {"normal", "no status"}
  Units = {1, 2}
  MaxSessions = 1
  Replay = 3
  PageBuffer = 3
  MaxAttempts = 1
  StartOf <- MCStartOf
  p1 = p1
  p2 = p2
  t1 = t1
  t2 = t2
  t3 = t3
  Keys = {1, 2, 3}
  Burst = 2
  StaleAfter = 3
  MaxBuckets = 2
  EvictSample = 2
  Callers <- MCCallers
  Lifetimes = {2}
  Skew = 1
  FetchTimeout = 1
  TokenNames <- MCTokenNames
  MaxNow = 2
  MaxRotations = 1
  MaxTokenFaults = 1
CHECK_DEADLOCK FALSE
INVARIANTS EndsSound
PROPERTIES StoredAsSent NothingTakenBack LimiterKeeps SocketsEnd
