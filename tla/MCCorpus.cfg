SPECIFICATION TablesSpec
CONSTANTS
  Width = 2
  Shape <- MCShape
  None = None
  Workers = {w1}
  BatchSize = 2
  MaxAttempts = 2
  MaxFaults = 1
  Pages = {1}
  StatDoc = 2
  StatTexts = {"s"}
  Gone <- MCGone
  MaxClock = 3
  MaxRuns = 2
  PageLimit = 2
  Retention = 1
  DumpTimes = {1, 3}
  FreshDumps = TRUE
  Overlap = FALSE
  ChunkKeys = {1, 2, 3}
  ChunkTexts = {"a", "b"}
  ReadBatch = 2
  ScoreBatch = 2
  MaxClusterRuns = 2
  MaxChanges = 2
  NoVector = NoVector
CHECK_DEADLOCK FALSE
INVARIANTS CorpusSound
PROPERTIES PublishedWhole ClustersAll
