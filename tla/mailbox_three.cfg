SPECIFICATION Spec
CONSTANTS
  u1 = u1
  u2 = u2
  c1 = c1
  c2 = c2
  d1 = d1
  d2 = d2
  N_MACHINES = 3
  User <- OneUser
  Client <- OneClient
  Dates <- TwoSeconds
  MaxCommands = 3
  MaxSaves = 0
  Strays <- FirstOfOne
  DatesDiffer = TRUE
  UsersStay = TRUE
INVARIANTS TypeOK InboxesMatchCommands PendingAwaitsMail
SYMMETRY Symmetry
