SPECIFICATION BrowserSpec
CHECK_DEADLOCK FALSE
CONSTANTS
  Length = 1
  MaxSeq = 5
  MaxAttempts = 1
  Latency = FALSE
  Verifying = FALSE
  Caching = FALSE
INVARIANT IntentKept
