SPECIFICATION Spec
CONSTANTS
  k1 = k1
  k2 = k2
  k3 = k3
  alice = alice
  NoKey = NoKey
  Keys = {k1, k2, k3}
  Actors = {alice}
  MAX_NODES = 1
  MAX_TASKS = 3
  MAX_QUEUED_TASKS_PER_NODE = 2
  MAX_QUEUED_PLAYBOOKS_PER_NODE = 2
  MAX_TASK_RESULT_TOMBSTONES = 1
  MAX_OPERATION_IDEMPOTENCY_RECORDS = 1
  MAX_EXERCISES = 1
  TASK_TIMEOUT_SECONDS = 1
  NODE_STALE_SECONDS = 1
  STALE_SESSION_TTL_SECONDS = 0
  DEFAULT_QUEUE_TTL_SECONDS = 1
  QueueTTLs = {1}
  MAX_POLL_INTERVAL = 0
  PollIntervals = {0}
  MaxLag = 0
  AttemptCap = 1
  Enrolments <- PurpleNode
  TaskRequests <- KeyedPing
  OperationRequests <- KeyedOperations
  ExerciseRequests <- CanaryOnly
  Submissions <- LimitSubmissions
  MaxNodeIds = 2
  MaxTaskIds = 5
  MaxOperationIds = 2
  MaxExerciseIds = 1
INVARIANTS
  KeyNamesOneTask
  WithinLimits
PROPERTIES
  OnlySettledTasksPruned
  AckSurvivesPruning
  OperationReplayedWhileLive
