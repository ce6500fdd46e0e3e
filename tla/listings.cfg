SPECIFICATION FairSpec
CONSTANTS
  INBOX_LIMIT = 1
  MaxMails = 3
  MaxRequests = 3
  Dates <- TwoSeconds
  Kinds <- Everything
INVARIANTS TypeOK 
PROPERTIES  RequestsNamePickedMail WaitsEnd
CHECK_DEADLOCK FALSE
