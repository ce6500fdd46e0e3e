SPECIFICATION Spec
CONSTANTS
  u1 = u1
  u2 = u2
  c1 = c1
  c2 = c2
  d1 = d1
  d2 = d2
  N_MACHINES = 2
  User <- TwoUsers
  Client <- OneClient
  Dates <- OneSecond
  MaxCommands = 3
  MaxSaves = 1
  Strays <- FirstOfOne
  DatesDiffer = FALSE
  UsersStay = FALSE
INVARIANTS MailboxInv PendingMatchesCommands
SYMMETRY Symmetry
