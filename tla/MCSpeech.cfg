SPECIFICATION SpeechSpec
CONSTANTS
  ann = ann
  bob = bob
  Unlabelled = unlabelled
  FrameSize = 3
  MinFrame = 2
  MaxFrame = 5
  ChunkSizes = {5}
  Messages <- MCMessages
  MaxAudio = 10
  MaxMessages = 2
  w1 = w1
  w2 = w2
  a = a
  b = b
  Workers = {w1, w2}
  Speakers = {a, b}
  Unknown = Unknown
  NoWorker = NoWorker
  MaxStatements = 4
  Similarity <- MCSimilarity
  Floor = 1
  TopK = 2
  StanceSlots = 1
CHECK_DEADLOCK FALSE
INVARIANTS TranscriptWhole MemorySound
PROPERTY SpeechEnds
