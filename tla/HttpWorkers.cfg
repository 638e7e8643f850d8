SPECIFICATION FairSpec
CONSTANTS
  Connections = {"c1", "c2", "c3"}
  MAX_HTTP_WORKERS = 2
  ACCESS_LOG_QUEUE_SIZE = 2
  MaxRequests = 5
  MaxRejections = 1
INVARIANTS
  SlotsBalance
  LogInv
PROPERTIES
  ShutdownCompletes
