SPECIFICATION Spec
CONSTANTS
  N_MACHINES = 3
  InitialPartition <- Server1Apart
  FILE_BLOCK_SIZE = 1
  MAX_UPDATES_BW_SERIALIZE = 2
  MAX_CHANGES_BW_GARBAGE = 1
  MaxCommands <- Server2Twice
  Partitions <- AnyPartition
  MaxNetChanges = 1
  MaxCrashes = 0
  ClientsWait = TRUE
INVARIANTS QuietConvergence
CHECK_DEADLOCK FALSE
