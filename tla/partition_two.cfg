SPECIFICATION NamesSpec
CONSTANTS
  N_MACHINES = 2
  Order <- LastFirst
  InitialPartition <- Alone
  FILE_BLOCK_SIZE = 1
  MAX_UPDATES_BW_SERIALIZE = 2
  MAX_CHANGES_BW_GARBAGE = 1
  MaxCommands <- Server1Twice
  Partitions <- AnyPartition
  MaxNetChanges = 2
  MaxCrashes = 0
  ClientsWait = FALSE
INVARIANTS TypeOK KnowledgeSound QueueCoversLaggards FrontIsListed NamesInv
CHECK_DEADLOCK FALSE
