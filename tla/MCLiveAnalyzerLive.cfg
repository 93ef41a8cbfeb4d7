SPECIFICATION SessionSpec
CONSTANTS
  a = a
  b = b
  w1 = w1
  w2 = w2
  Speakers = {a, b}
  Unknown = Unknown
  Segments <- MCSegments
  Workers = {w1, w2}
  QueueDepth = 1
  MaxSentences = 2
  MaxIdleHolds = 1
  StanceOn = TRUE
  WordsPerSentence = 3
  MaxSegments = 2
  MaxLength = 0
CHECK_DEADLOCK FALSE
PROPERTIES StreamsFinish
