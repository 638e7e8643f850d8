SPECIFICATION FairSpec
CONSTANTS
  k1 = k1
  k2 = k2
  k3 = k3
  alice = alice
  NoKey = NoKey
  Keys = {k1, k2}
  Actors = {alice}
  MAX_NODES = 1
  MAX_TASKS = 3
  MAX_QUEUED_TASKS_PER_NODE = 3
  MAX_QUEUED_PLAYBOOKS_PER_NODE = 2
  MAX_TASK_RESULT_TOMBSTONES = 1
  MAX_OPERATION_IDEMPOTENCY_RECORDS = 1
  MAX_EXERCISES = 2
  TASK_TIMEOUT_SECONDS = 1
  NODE_STALE_SECONDS = 1
  STALE_SESSION_TTL_SECONDS = 1
  DEFAULT_QUEUE_TTL_SECONDS = 2
  QueueTTLs = {2}
  MAX_POLL_INTERVAL = 0
  PollIntervals = {0}
  MaxLag = 1
  AttemptCap = 2
  Enrolments <- PurpleNode
  TaskRequests <- PingTasks
  OperationRequests <- None
  ExerciseRequests <- DiscoveryOnly
  Submissions <- PlaybookSubmissions
  MaxNodeIds = 1
  MaxTaskIds = 3
  MaxOperationIds = 0
  MaxExerciseIds = 1
PROPERTIES
  TasksSettle
  ExercisesConclude
  SilentSessionsClose
  PausedNodeGetsNoWork
