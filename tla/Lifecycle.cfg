CONSTANTS
  Versions = {1, 2}
  MaxSets = 2
  DefaultVersion = 1
  MaxDepth = 2
  MaxPosts = 2
  Ratio = 2
  MinWorkers = 0
  MaxWorkers = 1
  MaxAge = 2
  ZombieAge = 1
  SameAge = 1
SPECIFICATION LifecycleSpec
PROPERTIES WorkingSetDrained NewestDrains
CHECK_DEADLOCK FALSE
