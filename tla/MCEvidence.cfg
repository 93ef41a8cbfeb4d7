SPECIFICATION EvidenceSpec
CONSTANTS
  Modes = {"credibility", "second pass", "political", "matching"}
  Texts = {"t1", "t2"}
  Blank = "blank"
  Statement = "t1"
  Replies <- MCReplies
  MaxClaims = 2
  Hits <- MCHits
  MaxResults = 2
  ClusterSize = 1
  Threshold = 6
  WikiThreshold = 7
  BodyWeight = 5
  Pages <- MCPages
  MinResults = 2
  Answers <- MCAnswers
  Quotes <- MCQuotes
  PoliticalId = 0
  Cap = 6
  FastTau = 9
  MidLo = 4
  MidHi = 7
  VerifySlots = 1
  MaxLive = 1
  MaxUnits = 1
  MaxCallFaults = 1
  Sources = {"crawl", "factcheck", "scrutins"}
  Items = {"i"}
  Parts = {1, 2}
  Refused <- MCRefused
  Unparsable <- MCUnparsable
  Workers = {"w1", "w2"}
  Slots = {1, 2}
  MaxAttempts = 2
  MaxEdits = 1
  MaxFaults = 1
  MaxJobs = 1
  Generations = 3
  MaxMishaps = 2
  Categories = {1, 2, 3, 4, 5}
  Articles = {10, 11, 12, 13, 14, 15}
  CategoryGraphs <- MCGraphs
  SeedCategories <- MCSeeds
  Shards = 2
  MaxDepth = 2
  PageLimits = {2, 9}
  RowsPerReply = 2
  ApiRetries = 1
  MaxApiFaults = 1
CHECK_DEADLOCK FALSE
INVARIANTS JudgmentSound IngestionSound MirrorSound WalkSound
PROPERTIES NeverDowngraded EvidenceSettles
