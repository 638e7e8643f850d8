SPECIFICATION CrowdedSpec
CONSTANTS
  alice = alice
  NoKey = NoKey
  Keys = {}
  Actors = {alice}
  MAX_NODES = 2
  MAX_TASKS = 1
  MAX_QUEUED_TASKS_PER_NODE = 2
  MAX_QUEUED_PLAYBOOKS_PER_NODE = 1
  MAX_TASK_RESULT_TOMBSTONES = 1
  MAX_OPERATION_IDEMPOTENCY_RECORDS = 1
  MAX_EXERCISES = 1
  TASK_TIMEOUT_SECONDS = 1
  NODE_STALE_SECONDS = 1
  STALE_SESSION_TTL_SECONDS = 1
  DEFAULT_QUEUE_TTL_SECONDS = 2
  QueueTTLs = {2}
  MAX_POLL_INTERVAL = 1
  PollIntervals = {0, 1}
  MaxLag = 0
  AttemptCap = 1
  Enrolments <- OtherEnrolments
  TaskRequests <- SleepTasks
  OperationRequests <- None
  ExerciseRequests <- None
  Submissions <- OtherResults
  MaxNodeIds = 2
  MaxTaskIds = 4
  MaxOperationIds = 0
  MaxExerciseIds = 0
  Profile = "training"
  FirstInterval = 0
  MaxLate = 0
INVARIANTS
  IntervalsAgree
