SPECIFICATION Spec
CONSTANTS
  k1 = k1
  k2 = k2
  k3 = k3
  alice = alice
  NoKey = NoKey
  Keys = {k1}
  Actors = {alice}
  MAX_NODES = 2
  MAX_TASKS = 3
  MAX_QUEUED_TASKS_PER_NODE = 2
  MAX_QUEUED_PLAYBOOKS_PER_NODE = 2
  MAX_TASK_RESULT_TOMBSTONES = 1
  MAX_OPERATION_IDEMPOTENCY_RECORDS = 1
  MAX_EXERCISES = 1
  TASK_TIMEOUT_SECONDS = 1
  NODE_STALE_SECONDS = 1
  STALE_SESSION_TTL_SECONDS = 0
  DEFAULT_QUEUE_TTL_SECONDS = 1
  QueueTTLs = {1}
  MAX_POLL_INTERVAL = 1
  PollIntervals = {0, 1}
  MaxLag = 1
  AttemptCap = 1
  Enrolments <- PurpleNode
  TaskRequests <- QuickSleep
  OperationRequests <- None
  ExerciseRequests <- DiscoveryOnly
  Submissions <- Replies
  MaxNodeIds = 2
  MaxTaskIds = 3
  MaxOperationIds = 0
  MaxExerciseIds = 1
INVARIANTS
  SingleFlight
  NoOrphanWork
  FifoDispatch
  EvidenceComplete
PROPERTIES
  TerminalIsFinal
  CountersMatchOutcomes
  ImplementsLifecycle
