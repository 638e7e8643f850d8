------------------------------ MODULE LabState ------------------------------
(***************************************************************************)
(* LabState of core.py: the Teamserver's shared state and every handler    *)
(* that changes it.  All handlers run under one re-entrant lock, so each   *)
(* is one action; what interleaves is the handlers themselves, called by   *)
(* the HTTP worker threads and by the monitor thread, each with an instant *)
(* it read before it waited for the lock.                                  *)
(*                                                                         *)
(* A call that the code refuses changes nothing but the event and audit    *)
(* logs, which this module leaves out: it is a stuttering step.  poll_node *)
(* and submit_result expire deadlines before they check anything, so when  *)
(* they refuse they behave as Expire.                                      *)
(***************************************************************************)
EXTENDS LabExercises

CONSTANTS
  MAX_OPERATION_IDEMPOTENCY_RECORDS,
  Enrolments,         \* [profile, poll_interval] nodes enrol with
  TaskRequests,       \* bodies of POST /api/tasks
  OperationRequests,  \* bodies of POST /api/operations
  ExerciseRequests,   \* bodies of POST /api/exercises
  Submissions,        \* bodies of POST /node/result that pass validate_result
  MaxNodeIds, MaxTaskIds, MaxOperationIds, MaxExerciseIds  \* bounds of a run

Results ==
  [body : ServerResults \cup NodeReplies, interval : PollIntervals \cup {0}]

TaskRequestType ==
  [type : TASK_TYPES, playbook : PLAYBOOK_NAMES \cup {""},
   interval : PollIntervals \cup {0}, created_by : Actors, ttl : QueueTTLs,
   key : Keys \cup {NoKey}]

ASSUME RequestsAssumption ==
  /\ MAX_OPERATION_IDEMPOTENCY_RECORDS \in Nat \ {0}
  /\ Enrolments \subseteq [profile : Profiles, poll_interval : PollIntervals]
  /\ TaskRequests \subseteq TaskRequestType
  /\ \A r \in TaskRequests : r.type = "SLEEP" => r.interval \in PollIntervals
  /\ OperationRequests \subseteq
       [playbooks : Seq(PLAYBOOK_NAMES), created_by : Actors, ttl : QueueTTLs,
        key : Keys \cup {NoKey}]
  /\ \A r \in OperationRequests : Len(r.playbooks) \in 1..MAX_OPERATION_STEPS
  /\ ExerciseRequests \subseteq
       [scenario : SCENARIO_IDS, created_by : Actors, key : Keys \cup {NoKey}]
  /\ Submissions \subseteq [status : {"completed", "failed"}, result : Results]

ASSUME BoundsAssumption ==
  /\ MaxNodeIds \in Nat
  /\ MaxTaskIds \in Nat
  /\ MaxOperationIds \in Nat
  /\ MaxExerciseIds \in Nat

VARIABLES
  nodes,                  \* _nodes
  tasks,                  \* _tasks
  tombstones,             \* _task_result_tombstones, oldest first
  exercises,              \* _exercises
  operation_idempotency,  \* _operation_idempotency
  exercise_idempotency,   \* _exercise_idempotency
  seq                     \* the last id given out of each kind

ledger == <<nodes, tasks, tombstones>>
replay == <<operation_idempotency, exercise_idempotency>>
vars == <<nodes, tasks, tombstones, exercises, operation_idempotency,
          exercise_idempotency, seq>>

EmptyDict == [i \in {} |-> i]

Init ==
  /\ nodes = EmptyDict
  /\ tasks = EmptyDict
  /\ tombstones = <<>>
  /\ exercises = EmptyDict
  /\ operation_idempotency = EmptyDict
  /\ exercise_idempotency = EmptyDict
  /\ seq = [node |-> 0, task |-> 0, operation |-> 0, exercise |-> 0]

-----------------------------------------------------------------------------
(* Time: timers run down and ages grow, each only as far as some handler can
   tell two values apart. *)

AgeCap == StaleLimit(MAX_POLL_INTERVAL) + STALE_SESSION_TTL_SECONDS + MaxLag

OlderNode(node) == [node EXCEPT !.age = IF @ < AgeCap THEN @ + 1 ELSE @]

OlderTask(task) ==
  [task EXCEPT !.timer = IF Live(task) /\ @ > -MaxLag THEN @ - 1 ELSE @]

Tick ==
  /\ nodes' = [n \in DOMAIN nodes |-> OlderNode(nodes[n])]
  /\ tasks' = [i \in DOMAIN tasks |-> OlderTask(tasks[i])]
  /\ UNCHANGED <<tombstones, exercises, replay, seq>>

-----------------------------------------------------------------------------
(* _expire_locked on the whole state: the node loop refreshes the exercises
   after each closing session and once more at the end.  An exercise depends
   on the tasks of one node only, so the first and the last refresh decide. *)

ExpiredExercises(lag) ==
  RefreshAll(RefreshAll(exercises, FirstExpiredTasks(nodes, tasks, lag)),
             ExpiredTasks(nodes, tasks, lag))

(* expire, called by the monitor thread; with nothing overdue it changes
   nothing, since every handler leaves the exercises refreshed. *)
Overdue(lag) ==
  \/ \E i \in DOMAIN tasks : QueueExpired(tasks[i], lag) \/ DeadlinePassed(tasks[i], lag)
  \/ \E n \in DOMAIN nodes : GoesStale(nodes[n], lag) \/ SessionExpires(nodes[n], lag)

Expire(lag) ==
  /\ Overdue(lag)
  /\ nodes' = ExpiredNodes(nodes, tasks, lag)
  /\ tasks' = ExpiredTasks(nodes, tasks, lag)
  /\ \E T \in {FirstExpiredTasks(nodes, tasks, lag)} :
       \E X \in {RefreshAll(exercises, T)} : exercises' = RefreshAll(X, tasks')
  /\ UNCHANGED <<tombstones, replay, seq>>

-----------------------------------------------------------------------------
(* Node handlers. *)

enroll_node(e, lag) ==
  LET n == seq.node + 1
  IN /\ n <= MaxNodeIds
     /\ Cardinality(DOMAIN nodes) >= MAX_NODES => ClosedNodes(nodes) # {}
     /\ nodes' = Put(NodesWithRoom(nodes), n,
                     NewNode(e.profile, e.poll_interval, lag))
     /\ seq' = [seq EXCEPT !.node = n]
     /\ UNCHANGED <<tasks, tombstones, exercises, replay>>

(* authenticate_node: a token is rotated when its session closes and the new
   one is given to nobody. *)
Authentic(N, n) == n \in DOMAIN N /\ N[n].session_active

poll_node(n, lag) ==
  LET N == ExpiredNodes(nodes, tasks, lag)
      T == ExpiredTasks(nodes, tasks, lag)
  IN /\ Authentic(N, n)
     /\ nodes' = [N EXCEPT ![n] = PolledNode(@, lag)]
     /\ tasks' = DeliveredTasks(T, n, N[n].tasking_paused, lag)
     /\ exercises' = ExpiredExercises(lag)
     /\ UNCHANGED <<tombstones, replay, seq>>

submit_result(n, i, submission, lag) ==
  LET N == ExpiredNodes(nodes, tasks, lag)
      T == ExpiredTasks(nodes, tasks, lag)
  IN /\ Authentic(N, n)
     /\ AcceptsResult(T, N[n], n, i, submission)
     /\ nodes' = [N EXCEPT ![n] = CreditedNode(@, T[i], submission, lag)]
     /\ tasks' = [T EXCEPT ![i] = AcceptedTask(@, submission)]
     /\ exercises' = RefreshAll(ExpiredExercises(lag), tasks')
     /\ UNCHANGED <<tombstones, replay, seq>>

(* A faulty disconnect_node, for checking the properties. *)
disconnect_without_refresh(n) ==
  /\ Authentic(nodes, n)
  /\ nodes' = [nodes EXCEPT ![n] =
                 CloseSession(@, Cardinality(UnfinishedOf(tasks, n)))]
  /\ tasks' = FailUnfinished(tasks, {n}, "session_closed")
  /\ UNCHANGED <<tombstones, exercises, replay, seq>>

disconnect_node(n) ==
  /\ Authentic(nodes, n)
  /\ nodes' = [nodes EXCEPT ![n] =
                 CloseSession(@, Cardinality(UnfinishedOf(tasks, n)))]
  /\ tasks' = FailUnfinished(tasks, {n}, "session_closed")
  /\ exercises' = RefreshAll(exercises, tasks')
  /\ UNCHANGED <<tombstones, replay, seq>>

-----------------------------------------------------------------------------
(* Operator handlers. *)

TaskableNode(n) ==
  n \in DOMAIN nodes /\ nodes[n].session_active /\ ~nodes[n].tasking_paused

RunningExercises == {e \in DOMAIN exercises : exercises[e].status = "running"}

CanMakeSlots(required) == HasSlots(tasks, RunningExercises, required)

(* Queue a sequence of new task records behind freshly made slots. *)
AdmitTasks(records) ==
  LET slots == MakeTaskSlots(tasks, tombstones, RunningExercises, Len(records))
  IN /\ seq.task + Len(records) <= MaxTaskIds
     /\ CanMakeSlots(Len(records))
     /\ tasks' = AddTasks(slots.tasks, seq.task + 1, records)
     /\ tombstones' = slots.tombs

(* A faulty KeyIsFree, for checking the properties. *)
KeyIsFreeOfLiveTasks(key) ==
  key = NoKey \/ \A i \in DOMAIN tasks : Live(tasks[i]) => tasks[i].key # key

(* A retained task with the key answers the request (or refuses it). *)
KeyIsFree(key) == key = NoKey \/ \A i \in DOMAIN tasks : tasks[i].key # key

queue_task(n, r, lag) ==
  LET playbooks == IF r.type = "RUN_PLAYBOOK" THEN 1 ELSE 0
  IN /\ KeyIsFree(r.key)
     /\ TaskableNode(n)
     /\ r.type \in Capabilities(nodes[n].profile)
     /\ HasQueueRoom(tasks, n, playbooks, 1 - playbooks)
     /\ AdmitTasks(<<NewTask(n, r, lag)>>)
     /\ seq' = [seq EXCEPT !.task = @ + 1]
     /\ UNCHANGED <<nodes, exercises, replay>>

PlaybookTask(n, playbook, actor, ttl, lag) ==
  NewTask(n, [type |-> "RUN_PLAYBOOK", playbook |-> playbook, interval |-> 0,
              created_by |-> actor, ttl |-> ttl, key |-> NoKey], lag)

OperationTask(n, playbook, actor, ttl, lag, op) ==
  [PlaybookTask(n, playbook, actor, ttl, lag) EXCEPT !.operation = op]

ExerciseTask(n, playbook, actor, lag, e) ==
  [PlaybookTask(n, playbook, actor, DEFAULT_QUEUE_TTL_SECONDS, lag) EXCEPT !.exercise = e]

(* A faulty Evictable, for checking the properties. *)
EvictableUnlessDispatched(record) ==
  \A i \in record.task_ids : i \in DOMAIN tasks => tasks[i].status # "dispatched"

(* _operation_idempotency_record_is_evictable_locked *)
Evictable(record) ==
  \A i \in record.task_ids : i \in DOMAIN tasks => Terminal(tasks[i])

EvictableKeys ==
  {k \in DOMAIN operation_idempotency : Evictable(operation_idempotency[k])}

RecordsToFree(key) ==
  IF key = NoKey THEN 0
  ELSE Cardinality(DOMAIN operation_idempotency) + 1
         - MAX_OPERATION_IDEMPOTENCY_RECORDS

(* Never more than one record has to go; the oldest evictable one does. *)
EvictedKeys(key) ==
  IF RecordsToFree(key) <= 0 THEN {}
  ELSE {CHOOSE k \in EvictableKeys : \A j \in EvictableKeys :
          operation_idempotency[k].operation <= operation_idempotency[j].operation}

RememberOperation(key, record) ==
  IF key = NoKey THEN operation_idempotency
  ELSE Put(Drop(operation_idempotency, EvictedKeys(key)), key, record)

queue_operation(n, r, lag) ==
  LET steps == Len(r.playbooks)
      op    == seq.operation + 1
      task(k) == OperationTask(n, r.playbooks[k], r.created_by, r.ttl, lag, op)
  IN /\ op <= MaxOperationIds
     /\ r.key \notin DOMAIN operation_idempotency
     /\ TaskableNode(n)
     /\ nodes[n].status = "online"
     /\ nodes[n].profile = "purple_lab"
     /\ HasQueueRoom(tasks, n, steps, 0)
     /\ RecordsToFree(r.key) > 0 => EvictableKeys # {}
     /\ AdmitTasks([k \in 1..steps |-> task(k)])
     /\ operation_idempotency' = RememberOperation(r.key,
          [created_by |-> r.created_by, node |-> n, playbooks |-> r.playbooks,
           ttl |-> r.ttl, operation |-> op,
           task_ids |-> (seq.task + 1)..(seq.task + steps)])
     /\ seq' = [seq EXCEPT !.task = @ + steps, !.operation = op]
     /\ UNCHANGED <<nodes, exercises, exercise_idempotency>>

cancel_task(i) ==
  /\ i \in DOMAIN tasks
  /\ tasks[i].status = "queued"
  /\ tasks' = [tasks EXCEPT ![i] = Settled(@, "cancelled", "operator_cancelled")]
  /\ exercises' = RefreshAll(exercises, tasks')
  /\ UNCHANGED <<nodes, tombstones, replay, seq>>

start_exercise(n, r, lag) ==
  LET e  == seq.exercise + 1
      t1 == seq.task + 1
      task(p) == ExerciseTask(n, p, r.created_by, lag, e)
  IN /\ e <= MaxExerciseIds
     /\ r.key \notin DOMAIN exercise_idempotency
     /\ TaskableNode(n)
     /\ nodes[n].profile = "purple_lab"
     /\ Cardinality(DOMAIN exercises) < MAX_EXERCISES
     /\ HasQueueRoom(tasks, n, 2, 0)
     /\ AdmitTasks(<<task(FirstPlaybook(r.scenario)), task(SecondPlaybook(r.scenario))>>)
     /\ exercises' = Put(exercises, e,
                         NewExercise(n, r.scenario, r.created_by, t1, t1 + 1))
     /\ exercise_idempotency' =
          IF r.key = NoKey THEN exercise_idempotency
          ELSE Put(exercise_idempotency, r.key,
                   [created_by |-> r.created_by, node |-> n,
                    scenario |-> r.scenario, exercise |-> e])
     /\ seq' = [seq EXCEPT !.task = @ + 2, !.exercise = e]
     /\ UNCHANGED <<nodes, operation_idempotency>>

contain_exercise(e, action) ==
  /\ e \in DOMAIN exercises
  /\ exercises[e].status # "contained"
  /\ exercises[e].detection_status = "detected"
  /\ tasks' = ContainedTasks(exercises[e], tasks)
  /\ nodes' = PausedNodes(nodes, exercises[e].node, action)
  /\ exercises' = [exercises EXCEPT ![e] = ContainedExercise(@, tasks, action)]
  /\ UNCHANGED <<tombstones, replay, seq>>

(* A faulty reset, for checking the properties. *)
reset_keeping_exercise_keys ==
  /\ nodes' = EmptyDict
  /\ tasks' = EmptyDict
  /\ tombstones' = <<>>
  /\ exercises' = EmptyDict
  /\ operation_idempotency' = EmptyDict
  /\ UNCHANGED <<seq, exercise_idempotency>>

reset ==
  /\ nodes' = EmptyDict
  /\ tasks' = EmptyDict
  /\ tombstones' = <<>>
  /\ exercises' = EmptyDict
  /\ operation_idempotency' = EmptyDict
  /\ exercise_idempotency' = EmptyDict
  /\ UNCHANGED seq

-----------------------------------------------------------------------------
NodeCall ==
  \/ \E e \in Enrolments, lag \in Lags : enroll_node(e, lag)
  \/ \E n \in DOMAIN nodes :
       \/ \E lag \in Lags : poll_node(n, lag)
       \/ \E i \in DOMAIN tasks, s \in Submissions, lag \in Lags :
            submit_result(n, i, s, lag)
       \/ disconnect_node(n)

OperatorCall ==
  \/ \E n \in DOMAIN nodes, lag \in Lags :
       \/ \E r \in TaskRequests : queue_task(n, r, lag)
       \/ \E r \in OperationRequests : queue_operation(n, r, lag)
       \/ \E r \in ExerciseRequests : start_exercise(n, r, lag)
  \/ \E i \in DOMAIN tasks : cancel_task(i)
  \/ \E e \in DOMAIN exercises, a \in CONTAINMENT_ACTIONS : contain_exercise(e, a)
  \/ reset

Next ==
  \/ Tick
  \/ \E lag \in Lags : Expire(lag)
  \/ NodeCall
  \/ OperatorCall

Spec == Init /\ [][Next]_vars

(* The clock keeps running and the monitor thread of LabRuntime calls expire
   in a loop; nodes and operators owe the Teamserver nothing. *)
Fairness ==
  /\ WF_vars(Tick)
  /\ WF_vars(\E lag \in Lags : Expire(lag))

FairSpec == Spec /\ Fairness
-----------------------------------------------------------------------------
(* Types. *)

NodeType ==
  [status : {"online", "offline"}, session_active : BOOLEAN, profile : Profiles,
   poll_interval : PollIntervals, tasks_completed : Nat, tasks_failed : Nat,
   tasking_paused : BOOLEAN, age : Nat]

TaskType ==
  [node : Nat, type : TASK_TYPES, playbook : PLAYBOOK_NAMES \cup {""},
   interval : PollIntervals \cup {0}, created_by : Actors, ttl : QueueTTLs,
   key : Keys \cup {NoKey}, status : LIVE_TASK_STATUSES \cup TERMINAL_TASK_STATUSES,
   result : Results, delivery_attempts : Nat, timer : Int, accepted : BOOLEAN,
   exercise : Nat, operation : Nat]

TombstoneType ==
  [id : Nat, node : Nat, status : {"completed", "failed"}, result : Results]

EntryType ==
  [kind : {"exercise.started", "task.queued", "task.completed", "task.failed",
           "task.timeout", "task.cancelled", "task.expired",
           "technique.observed", "detection.matched", "exercise.completed",
           "exercise.failed", "containment.applied"},
   task : Nat, rule : RuleIds \cup {""}, technique : TechniqueIds \cup {""},
   action : CONTAINMENT_ACTIONS \cup {""}]

AlertType == [rule_id : RuleIds, task : Nat, status : {"open", "contained"}]

ExerciseType ==
  [node : Nat, scenario : SCENARIO_IDS, created_by : Actors,
   status : {"running", "completed", "failed", "contained"},
   detection_status : {"pending", "detected"}, task_ids : Nat \X Nat,
   alerts : SUBSET AlertType, observed : SUBSET Nat,
   completion_recorded : BOOLEAN, containment : CONTAINMENT_ACTIONS \cup {""},
   timeline : Seq(EntryType)]

OperationRecordType ==
  [created_by : Actors, node : Nat, playbooks : Seq(PLAYBOOK_NAMES),
   ttl : QueueTTLs, operation : Nat, task_ids : SUBSET Nat]

ExerciseRecordType ==
  [created_by : Actors, node : Nat, scenario : SCENARIO_IDS, exercise : Nat]

(* Every record of the shared state has the shape the handlers rely on, and
   no dictionary holds an id that was not given out. *)
TypeOK ==
  /\ nodes \in [DOMAIN nodes -> NodeType] /\ DOMAIN nodes \subseteq 1..seq.node
  /\ tasks \in [DOMAIN tasks -> TaskType] /\ DOMAIN tasks \subseteq 1..seq.task
  /\ tombstones \in Seq(TombstoneType)
  /\ exercises \in [DOMAIN exercises -> ExerciseType]
  /\ DOMAIN exercises \subseteq 1..seq.exercise
  /\ operation_idempotency \in [DOMAIN operation_idempotency -> OperationRecordType]
  /\ DOMAIN operation_idempotency \subseteq Keys
  /\ exercise_idempotency \in [DOMAIN exercise_idempotency -> ExerciseRecordType]
  /\ DOMAIN exercise_idempotency \subseteq Keys
  /\ seq \in [node : Nat, task : Nat, operation : Nat, exercise : Nat]

-----------------------------------------------------------------------------
(* Ledger properties. *)

(* poll_node looks for an active task before it dispatches: whatever polls,
   redeliveries, closings and late instants interleave, no node ever has two
   tasks in flight. *)
SingleFlight == \A n \in DOMAIN nodes : Cardinality(DispatchedOf(tasks, n)) <= 1

(* Work never outlives the session that must do it: a queued or dispatched
   task belongs to a node that is present and whose session is open, so every
   way a session ends (disconnect_node, offline TTL, pruning of the node
   record, reset) takes the unfinished tasks with it. *)
NoOrphanWork ==
  \A i \in DOMAIN tasks : Live(tasks[i]) => Authentic(nodes, tasks[i].node)

(* poll_node hands out the tasks of a node in the order they were queued: a
   task that was delivered has no older one still waiting on its node. *)
FifoDispatch ==
  \A i, j \in DOMAIN tasks :
    i < j /\ tasks[i].node = tasks[j].node /\ tasks[j].delivery_attempts > 0
      => tasks[i].status # "queued"

(* The limits of queue_task, queue_operation, start_exercise and enroll_node
   hold together, however their requests interleave. *)
WithinLimits ==
  /\ Cardinality(DOMAIN nodes) <= MAX_NODES
  /\ Cardinality(DOMAIN tasks) <= MAX_TASKS
  /\ Len(tombstones) <= MAX_TASK_RESULT_TOMBSTONES
  /\ Cardinality(DOMAIN operation_idempotency) <= MAX_OPERATION_IDEMPOTENCY_RECORDS
  /\ \A n \in DOMAIN nodes :
       /\ Cardinality(QueuedOf(tasks, n)) <= MAX_QUEUED_TASKS_PER_NODE
       /\ Cardinality(QueuedPlaybooksOf(tasks, n)) <= MAX_QUEUED_PLAYBOOKS_PER_NODE

(* An Idempotency-Key names at most one retained task, so a retried
   queue_task has one answer. *)
KeyNamesOneTask ==
  \A i, j \in DOMAIN tasks :
    tasks[i].key # NoKey /\ tasks[i].key = tasks[j].key => i = j

IsReset == tasks' = EmptyDict /\ nodes' = EmptyDict

(* The outcome of a task is written once: no late result, retry, expiry,
   cancellation or closing session changes a terminal task. *)
TerminalIsFinal ==
  [][\A i \in DOMAIN tasks \cap DOMAIN tasks' :
       Terminal(tasks[i]) => tasks'[i] = tasks[i]]_vars

(* Only settled work is forgotten, oldest first, and only when the table is
   full; the tasks of a running exercise are kept. *)
OnlySettledTasksPruned ==
  [][IsReset \/ \A i \in DOMAIN tasks \ DOMAIN tasks' :
       /\ Terminal(tasks[i]) /\ tasks[i].exercise \notin RunningExercises
       /\ Cardinality(DOMAIN tasks') = MAX_TASKS
       /\ \A j \in DOMAIN tasks \cap DOMAIN tasks' :
            Terminal(tasks[j]) /\ tasks[j].exercise \notin RunningExercises => i < j]_vars

(* submit_result answers a retry of (status, result) with the stored record. *)
AnswersRetry(n, i, s) ==
  \/ /\ i \in DOMAIN tasks /\ tasks[i].node = n
     /\ tasks[i].status = s.status /\ tasks[i].result = s.result
  \/ /\ i \notin DOMAIN tasks
     /\ \E k \in 1..Len(tombstones) :
          tombstones[k] = [id |-> i, node |-> n, status |-> s.status, result |-> s.result]

TombstoneIds == {tombstones[k].id : k \in 1..Len(tombstones)}

(* A node whose acknowledgement was lost can retry: once a result is
   accepted, the same submission keeps being acknowledged through pruning,
   until a reset or until MAX_TASK_RESULT_TOMBSTONES results pruned later
   have displaced it. *)
AckSurvivesPruning ==
  [][IsReset \/
     \A i \in DOMAIN tasks \cup TombstoneIds : \A n \in DOMAIN nodes, s \in Submissions :
       AnswersRetry(n, i, s) =>
         \/ AnswersRetry(n, i, s)'
         \/ /\ Len(tombstones') = MAX_TASK_RESULT_TOMBSTONES
            /\ \A k \in 1..Len(tombstones), m \in 1..Len(tombstones') :
                 tombstones[k] = tombstones'[m] =>
                   \E h \in 1..k : tombstones[h].id = i]_vars

NewlySettled(n, statuses) ==
  {i \in DOMAIN tasks : /\ tasks[i].node = n /\ Live(tasks[i])
                        /\ i \in DOMAIN tasks' /\ tasks'[i].status \in statuses}

(* The per-node statistics agree with the ledger: each step adds to
   tasks_completed and tasks_failed exactly the tasks it brings to
   completed, and to failed or timeout. *)
CountersMatchOutcomes ==
  [][\A n \in DOMAIN nodes \cap DOMAIN nodes' :
       /\ nodes'[n].tasks_completed =
            nodes[n].tasks_completed + Cardinality(NewlySettled(n, {"completed"}))
       /\ nodes'[n].tasks_failed =
            nodes[n].tasks_failed + Cardinality(NewlySettled(n, {"failed", "timeout"}))]_vars

-----------------------------------------------------------------------------
(* Replay records of operations and exercises. *)

(* The replay record of an operation outlives its tasks: while one of them is
   live, a retried queue_operation with the key cannot queue it twice. *)
OperationReplayedWhileLive ==
  [][IsReset \/ \A k \in DOMAIN operation_idempotency :
       \/ k \in DOMAIN operation_idempotency' /\
          operation_idempotency'[k] = operation_idempotency[k]
       \/ \A i \in operation_idempotency[k].task_ids \cap DOMAIN tasks : ~Live(tasks[i])]_vars

(* A key that start_exercise remembers leads to a retained exercise that
   answers it. *)
ExerciseKeysResolve ==
  \A k \in DOMAIN exercise_idempotency :
    LET r == exercise_idempotency[k]
    IN /\ r.exercise \in DOMAIN exercises
       /\ exercises[r.exercise].node = r.node
       /\ exercises[r.exercise].scenario = r.scenario

-----------------------------------------------------------------------------
(* Exercise properties. *)

Entries(x, kinds) == {k \in 1..Len(x.timeline) : x.timeline[k].kind \in kinds}

Recorded(x, kind, i) == \E k \in Entries(x, {kind}) : x.timeline[k].task = i

TerminalKinds ==
  {"task.completed", "task.failed", "task.timeout", "task.cancelled", "task.expired"}

(* No evidence is lost: whichever handler settles an exercise's task, the
   exercise has observed it at the end of that handler; a task it has not
   observed is still there and still live.  The timeline holds one terminal
   entry per observed task. *)
EvidenceComplete ==
  \A e \in DOMAIN exercises : \A i \in TasksOf(exercises[e]) :
    LET x == exercises[e]
    IN /\ i \in x.observed \/ (i \in DOMAIN tasks /\ Live(tasks[i]))
       /\ Cardinality({k \in Entries(x, TerminalKinds) : x.timeline[k].task = i})
            = IF i \in x.observed THEN 1 ELSE 0

(* The alerts are exactly the rules of the steps that completed before
   containment, each matched once in the timeline, and detection_status
   tells whether there are any. *)
AlertsMatchEvidence ==
  \A e \in DOMAIN exercises :
    LET x == exercises[e]
        expected == {<<x.timeline[k].rule, x.timeline[k].task>> :
                       k \in Entries(x, {"detection.matched"})}
        stop == Entries(x, {"containment.applied"})
        completed(i) == \E k \in Entries(x, {"task.completed"}) :
                          x.timeline[k].task = i /\ \A c \in stop : k < c
        rules(i, p) == IF completed(i)
                       THEN LET d == detections_for_playbook(x.scenario, p)
                            IN {<<d[k].id, i>> : k \in 1..Len(d)}
                       ELSE {}
    IN /\ {<<a.rule_id, a.task>> : a \in x.alerts} = expected
       /\ expected = rules(x.task_ids[1], FirstPlaybook(x.scenario))
                       \cup rules(x.task_ids[2], SecondPlaybook(x.scenario))
       /\ Cardinality(x.alerts) = Cardinality(Entries(x, {"detection.matched"}))
       /\ (x.detection_status = "detected") = (x.alerts # {})

(* The verdict agrees with the evidence: "completed" exactly when both steps
   completed, "failed" when both ended and one did not, "running" otherwise;
   the closing entry of the timeline is never crowded out by its bound. *)
VerdictMatchesEvidence ==
  \A e \in DOMAIN exercises :
    LET x == exercises[e]
        done == TasksOf(x) \subseteq x.observed
        success == \A i \in TasksOf(x) : Recorded(x, "task.completed", i)
    IN /\ x.status = "running" => ~done
       /\ x.status = "completed" => success
       /\ x.status = "failed" => done /\ ~success
       /\ (x.status = "contained") = (Entries(x, {"containment.applied"}) # {})
       /\ x.completion_recorded =
            (Entries(x, {"exercise.completed", "exercise.failed"}) # {})

(* Containment holds: none of the exercise's tasks waits to be dispatched and
   no alert is open, and neither becomes so again. *)
ContainmentHolds ==
  \A e \in DOMAIN exercises : exercises[e].status = "contained" =>
    /\ \A i \in TasksOf(exercises[e]) \cap DOMAIN tasks : tasks[i].status # "queued"
    /\ \A a \in exercises[e].alerts : a.status = "contained"

(* A contained exercise stays contained with the action and the alerts it
   had; only the evidence of a task still in flight may be added. *)
ContainedIsFinal ==
  [][\A e \in DOMAIN exercises \cap DOMAIN exercises' :
       exercises[e].status = "contained" =>
         /\ exercises'[e].status = "contained"
         /\ exercises'[e].containment = exercises[e].containment
         /\ exercises'[e].alerts = exercises[e].alerts]_vars

(* PAUSE_NODE_TASKING stops all tasking of the node: nothing is queued for
   it, dispatched or redelivered to it any more. *)
PausedNodeGetsNoWork ==
  [][\A i \in DOMAIN tasks' : LET n == tasks'[i].node IN
       n \in DOMAIN nodes /\ nodes[n].tasking_paused =>
         /\ i \in DOMAIN tasks
         /\ tasks'[i].delivery_attempts = tasks[i].delivery_attempts]_vars

-----------------------------------------------------------------------------
(* Liveness, under FairSpec. *)

(* Every task ends, though the node never answers, redelivery goes on for
   ever or the node is paused: its deadline is never pushed back. *)
TasksSettle ==
  \A i \in 1..MaxTaskIds :
    (i \in DOMAIN tasks /\ Live(tasks[i])) ~> ~(i \in DOMAIN tasks /\ Live(tasks[i]))

(* Every exercise reaches a verdict, is contained or is reset. *)
ExercisesConclude ==
  \A e \in 1..MaxExerciseIds : (e \in RunningExercises) ~> (e \notin RunningExercises)

(* A session that is silent past its limits is closed unless the node is
   heard from again. *)
Silent(n) ==
  /\ Authentic(nodes, n)
  /\ nodes[n].age >= StaleAfter(nodes[n]) + STALE_SESSION_TTL_SECONDS

SilentSessionsClose == \A n \in 1..MaxNodeIds : Silent(n) ~> ~Silent(n)

-----------------------------------------------------------------------------
(* The life cycle of tasks that the handlers implement between them. *)

TaskLife ==
  [i \in 1..MaxTaskIds |-> IF i \in DOMAIN tasks THEN tasks[i].status
                           ELSE IF i <= seq.task THEN "forgotten" ELSE "absent"]

TaskOwner ==
  [i \in 1..MaxTaskIds |-> IF i \in DOMAIN tasks THEN tasks[i].node ELSE 0]

Lifecycle == INSTANCE TaskLifecycle WITH life <- TaskLife, owner <- TaskOwner

(* LabState implements TaskLifecycle: every handler, with the expiry, closing
   and pruning it does on the way, is one legal step of the task life cycle. *)
ImplementsLifecycle == Lifecycle!Spec
=============================================================================
