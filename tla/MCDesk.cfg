SPECIFICATION DeskSpec
CONSTANTS
  s1 = s1
  s2 = s2
  q1 = q1
  q2 = q2
  Servers <- MCServers
  Requests <- MCRequests
  Sentences = 2
  MaxRuns = 2
  MaxPuts = 1
  MaxStops = 1
  MaxFaults = 1
  Submitters <- MCSubmitters
  MaxRows = 2
  MaxIngests = 3
  MaxDeletes = 1
  MaxLibraryStops = 1
  MaxLibraryFaults = 2
CHECK_DEADLOCK FALSE
INVARIANTS DeskSound
PROPERTIES RecordsKept DeskEnds
