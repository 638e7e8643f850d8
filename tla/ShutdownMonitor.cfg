SPECIFICATION Spec
CONSTANTS
  Connections = {"c1", "c2"}
  MAX_HTTP_WORKERS = 2
  ACCESS_LOG_QUEUE_SIZE = 2
  MaxRequests = 2
  MaxRejections = 1
INVARIANTS
  MonitorStopped
