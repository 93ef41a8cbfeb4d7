SPECIFICATION ChannelSpec
CONSTANTS
  c1 = c1
  live = live
  archived = archived
  s1 = s1
  s2 = s2
  f1 = f1
  v1 = v1
  Channels <- MCChannels
  Configs <- MCConfigs
  Archiving <- MCArchiving
  Sups <- MCSups
  Keys <- MCKeys
  Off = off
  NoSup = nosup
  MaxId = 3
  MaxSegments = 2
  MaxAttempts = 1
  MaxFaults = 1
  MaxCrashes = 1
  MaxChanges = 2
  HubChannels = {c1}
  ChannelOf <- OneChannel
  NoFeed = NoFeed
  Nobody = Nobody
  RingSize = 1
  ViewerBuffer = 1
  AudioBuffer = 1
  Feeds = {f1}
  Viewers = {v1}
  MaxEvents = 1
  MaxFrames = 2
CHECK_DEADLOCK FALSE
INVARIANTS CaptureSound
PROPERTIES ChannelEnds
