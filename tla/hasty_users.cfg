SPECIFICATION FairSpec
CONSTANTS
  c1 = c1
  c2 = c2
  s1 = s1
  s2 = s2
  monday = monday
  tuesday = tuesday
  Clients <- OneClient
  Servers <- TwoServers
  Seed <- DifferentSeconds
  Kinds <- ListAndDelete
  MaxConnects = 2
  MaxRequests = 1
  MaxCrashes = 1
  MaxNetChanges = 1
  MaxSynchs = 0
  Hasty = {"connection", "answer", "timer"}
INVARIANTS SessionInv QuietRelease TimerOnlyWhileWaiting
PROPERTIES SessionsAreReleased
CHECK_DEADLOCK FALSE
