SPECIFICATION ChannelsSpec
CONSTANTS
  f1 = f1
  f2 = f2
  v1 = v1
  ch = ch
  HubChannels = {ch}
  ChannelOf <- OneChannel
  NoFeed = NoFeed
  Nobody = Nobody
  RingSize = 1
  ViewerBuffer = 1
  AudioBuffer = 1
  Feeds = {f1, f2}
  Viewers = {v1}
  MaxEvents = 2
  MaxFrames = 0
  Tabs = {tab1, tab2}
  Slots = {1}
  Slugs = {a, b}
  Sources = {x}
  MaxChannels = 2
  MaxRequests = 2
  Nothing = Nothing
  c1 = c1
  c2 = c2
  w1 = w1
  p1 = p1
  t1 = t1
  t1spaced = t1spaced
  t2 = t2
  Claims <- MCClaims
  Chunks <- MCChunks
  Politicals <- MCPoliticals
  Texts <- MCTexts
  Normal <- MCNormal
  FirstTexts <- MCFirstTexts
  Models = {m1, m2}
  Clips = {clip1, clip2}
  Channels = {tv1, tv2}
  Selections <- MCSelections
  BatchSize = 1
  None = none
  Partial = partial
  MaxRuns = 3
  MaxEdits = 1
  MaxOps = 1
  ClipsMayChange = FALSE
  Length = 2
  MaxSeq = 4
  MaxAttempts = 1
  Latency = TRUE
  Verifying = TRUE
  Caching = TRUE
SYMMETRY FeedSymmetry
CHECK_DEADLOCK FALSE
INVARIANTS HubSound StreamWhole AdminSound SeedSound BrowserSound
PROPERTIES IdentityKept VerdictsSurvive
