SPECIFICATION BothSpec
CHECK_DEADLOCK FALSE
CONSTANTS
  w1 = w1
  w2 = w2
  c1 = c1
  c3 = c3
  s1 = s1
  a = a
  b = b
  Workers = {w1, w2}
  Units = 2
  Claims = {c1, c3}
  UnitOf <- PairUnitOf
  TextOf <- PairTextOf
  Texts = {"a", "b"}
  Speakers = {s1}
  Unknown = Unknown
  SpeakerOf <- OneSpeaker
  States <- FastStates
  Verdicts <- DeepVerdicts
  NoVerdict = NoVerdict
  Slots = 1
  QueueDepth = 1
  CacheOn = TRUE
  Modes = {"credibility", "political", "second pass"}
  Batch <- MCBatch
  Callers = {e1, e2}
  Foreign = foreign
  MaxAttempts = 3
  BaseDelay = 1
  MaxDelay = 2
  Interval = 2
  RetryAfters = {0, 1, 3}
  ReplyEntries <- MCReplyEntries
  Budgets <- MCBudgets
  Unlimited = Unlimited
INVARIANTS VerifySound
PROPERTIES ImplementsLifecycle EmbedKept CallsSettle
