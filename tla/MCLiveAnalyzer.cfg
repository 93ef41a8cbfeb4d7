SPECIFICATION LiveSpec
CONSTANTS
  a = a
  b = b
  w1 = w1
  w2 = w2
  Speakers = {a, b}
  Unknown = Unknown
  Segments <- WideSegments
  Workers = {w1, w2}
  QueueDepth = 1
  MaxSentences = 2
  MaxIdleHolds = 1
  StanceOn = TRUE
  WordsPerSentence = 3
  MaxSegments = 3
  MaxLength = 9
SYMMETRY WorkerSymmetry
CHECK_DEADLOCK FALSE
INVARIANTS SessionSound ScansSound
PROPERTY ImplementsStatements
