SPECIFICATION Spec
CONSTANTS
  N_MACHINES = 2
  InitialPartition <- Alone
  FILE_BLOCK_SIZE = 1
  MAX_UPDATES_BW_SERIALIZE = 2
  MAX_CHANGES_BW_GARBAGE = 1
  MaxCommands <- Server0Twice
  Partitions <- AnyPartition
  MaxNetChanges = 1
  MaxCrashes = 1
  ClientsWait = FALSE
INVARIANTS RestartLosesNothing LogCoversLaggards ReplicationInv DeliveryInv
PROPERTIES StateFilesNeverRegress DeliverySpec
CHECK_DEADLOCK FALSE
