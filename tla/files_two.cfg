SPECIFICATION FairSpec
CONSTANTS
  N_MACHINES = 2
  FILE_BLOCK_SIZE = 2
  MaxIndex = 3
  MaxCrashes = 2
  Interrupts = {}
  StackIndices <- Garbage
  Counts <- SmallCounts
  Users <- TwoUsers
  Mails <- TwoMails
  MaxInbox = 2
INVARIANTS TypeOK FilesInv NothingLostNothingTwice QueuesComeBack SavedStateComesBack
PROPERTIES RecoveryEnds
CHECK_DEADLOCK FALSE
