SPECIFICATION Spec
CONSTANTS
  c1 = c1
  c2 = c2
  s1 = s1
  s2 = s2
  monday = monday
  tuesday = tuesday
  Clients <- OneClient
  Servers <- TwoServers
  Seed <- DifferentSeconds
  Kinds <- Everything
  MaxConnects = 2
  MaxRequests = 2
  MaxCrashes = 1
  MaxNetChanges = 0
  MaxSynchs = 1
  Hasty = {}
INVARIANTS TypeOK SessionInv QuietAgreement ConnectedMeansAccepted AcksFollowAnswers
CHECK_DEADLOCK FALSE
