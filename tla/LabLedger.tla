----------------------------- MODULE LabLedger ------------------------------
(***************************************************************************)
(* The node and task ledger of LabState (core.py) as operators on its two  *)
(* dictionaries: N, the nodes, and T, the tasks.  LabState composes them   *)
(* into the handlers.                                                      *)
(*                                                                         *)
(* Dictionaries are functions whose domain is the set of present ids.  Ids *)
(* are numbers given in creation order, so that the order of ids is both   *)
(* the insertion order of the dictionary and the task's _sequence.         *)
(*                                                                         *)
(* Time is relative.  A task's timer is the time left until the deadline   *)
(* that applies to it (_queue_deadline while queued, _deadline while       *)
(* dispatched); a node's age is the time since _last_seen_monotonic.  A    *)
(* handler reads the clock before it takes the lock, so it works with an   *)
(* instant that lies lag time units in the past, 0 <= lag <= MaxLag.       *)
(***************************************************************************)
EXTENDS LabCatalog, Integers, FiniteSets

CONSTANTS
  MAX_NODES, MAX_TASKS, MAX_QUEUED_TASKS_PER_NODE,
  MAX_QUEUED_PLAYBOOKS_PER_NODE, MAX_TASK_RESULT_TOMBSTONES,
  TASK_TIMEOUT_SECONDS, NODE_STALE_SECONDS, STALE_SESSION_TTL_SECONDS,
  DEFAULT_QUEUE_TTL_SECONDS,
  QueueTTLs,      \* the queue_ttl_seconds operators ask for
  MAX_POLL_INTERVAL,
  PollIntervals,  \* the poll intervals nodes enrol with and SLEEP may set
  Actors,         \* operator names
  Keys,           \* Idempotency-Key values; NoKey stands for None
  NoKey,
  MaxLag,         \* the longest wait between reading the clock and the lock
  AttemptCap      \* delivery_attempts is counted up to this bound

ASSUME LimitsAssumption ==
  /\ MAX_NODES \in Nat \ {0}
  /\ MAX_TASKS \in Nat \ {0}
  /\ MAX_QUEUED_TASKS_PER_NODE \in Nat \ {0}
  /\ MAX_QUEUED_PLAYBOOKS_PER_NODE \in Nat \ {0}
  /\ MAX_TASK_RESULT_TOMBSTONES \in Nat \ {0}
  /\ AttemptCap \in Nat \ {0}

ASSUME TimeAssumption ==
  /\ TASK_TIMEOUT_SECONDS \in Nat
  /\ NODE_STALE_SECONDS \in Nat
  /\ STALE_SESSION_TTL_SECONDS \in Nat
  /\ QueueTTLs \subseteq Nat
  /\ DEFAULT_QUEUE_TTL_SECONDS \in QueueTTLs
  /\ MAX_POLL_INTERVAL \in Nat
  /\ PollIntervals \subseteq 0..MAX_POLL_INTERVAL
  /\ MaxLag \in Nat

ASSUME KeyAssumption == NoKey \notin Keys

Lags == 0..MaxLag

-----------------------------------------------------------------------------
(* Dictionaries. *)

Put(f, k, v) == [i \in DOMAIN f \cup {k} |-> IF i = k THEN v ELSE f[i]]

Drop(f, S) == [i \in DOMAIN f \ S |-> f[i]]

Least(S) == CHOOSE i \in S : \A j \in S : i <= j

-----------------------------------------------------------------------------
(* Node records. *)

NewNode(profile, interval, lag) ==
  [status |-> "online", session_active |-> TRUE, profile |-> profile,
   poll_interval |-> interval, tasks_completed |-> 0, tasks_failed |-> 0,
   tasking_paused |-> FALSE, age |-> lag]

StaleLimit(interval) ==
  IF 3 * interval > NODE_STALE_SECONDS THEN 3 * interval ELSE NODE_STALE_SECONDS

StaleAfter(node) == StaleLimit(node.poll_interval)

GoesStale(node, lag) ==
  node.status = "online" /\ node.age - lag >= StaleAfter(node)

(* A faulty SessionExpires, for checking the properties. *)
SessionExpiresOnlyWhenGoingStale(node, lag) ==
  /\ node.session_active
  /\ GoesStale(node, lag)
  /\ node.age - lag - StaleAfter(node) >= STALE_SESSION_TTL_SECONDS

SessionExpires(node, lag) ==
  /\ node.session_active
  /\ node.status = "offline" \/ GoesStale(node, lag)
  /\ node.age - lag - StaleAfter(node) >= STALE_SESSION_TTL_SECONDS

ClosedNodes(N) == {n \in DOMAIN N : ~N[n].session_active}

(* enroll_node: a full table gives up its oldest closed record. *)
NodesWithRoom(N) ==
  IF Cardinality(DOMAIN N) >= MAX_NODES
  THEN Drop(N, {Least(ClosedNodes(N))}) ELSE N

-----------------------------------------------------------------------------
(* Task records. *)

NoResult == [body |-> "none", interval |-> 0]

NewTask(n, request, lag) ==
  [node |-> n, type |-> request.type, playbook |-> request.playbook,
   interval |-> request.interval, created_by |-> request.created_by,
   ttl |-> request.ttl, key |-> request.key, status |-> "queued",
   result |-> NoResult, delivery_attempts |-> 0, timer |-> request.ttl - lag,
   accepted |-> FALSE, exercise |-> 0, operation |-> 0]

Live(task) == task.status \in LIVE_TASK_STATUSES

Terminal(task) == task.status \in TERMINAL_TASK_STATUSES

(* A task settled by the Teamserver: terminal state, a result of its own and
   no deadline. *)
Settled(task, status, body) ==
  [task EXCEPT !.status = status, !.timer = 0,
               !.result = [body |-> body, interval |-> 0]]

QueuedOf(T, n) == {i \in DOMAIN T : T[i].node = n /\ T[i].status = "queued"}

DispatchedOf(T, n) ==
  {i \in DOMAIN T : T[i].node = n /\ T[i].status = "dispatched"}

QueuedPlaybooksOf(T, n) == {i \in QueuedOf(T, n) : T[i].type = "RUN_PLAYBOOK"}

-----------------------------------------------------------------------------
(* _expire_locked. *)

QueueExpired(task, lag) == task.status = "queued" /\ task.timer <= -lag

DeadlinePassed(task, lag) == task.status = "dispatched" /\ task.timer <= -lag

ExpireTask(task, lag) ==
  IF QueueExpired(task, lag) THEN Settled(task, "expired", "queue_ttl_exceeded")
  ELSE IF DeadlinePassed(task, lag) THEN Settled(task, "timeout", "deadline_exceeded")
  ELSE task

ExpireTasks(T, lag) == [i \in DOMAIN T |-> ExpireTask(T[i], lag)]

ClosingNodes(N, lag) == {n \in DOMAIN N : SessionExpires(N[n], lag)}

UnfinishedOf(T, n) == {i \in DOMAIN T : T[i].node = n /\ Live(T[i])}

(* A faulty FailUnfinished, for checking the properties. *)
FailDispatchedOnly(T, closed, body) ==
  [i \in DOMAIN T |-> IF T[i].node \in closed /\ T[i].status = "dispatched"
                      THEN Settled(T[i], "failed", body) ELSE T[i]]

(* _fail_unfinished_tasks_locked for every node of the set closed. *)
FailUnfinished(T, closed, body) ==
  [i \in DOMAIN T |-> IF T[i].node \in closed /\ Live(T[i])
                      THEN Settled(T[i], "failed", body) ELSE T[i]]

CloseSession(node, failures) ==
  [node EXCEPT !.status = "offline", !.session_active = FALSE,
               !.tasks_failed = @ + failures]

ExpireNode(node, lag, timeouts, unfinished) ==
  IF SessionExpires(node, lag) THEN CloseSession(node, timeouts + unfinished)
  ELSE [node EXCEPT !.status = IF GoesStale(node, lag) THEN "offline" ELSE @,
                    !.tasks_failed = @ + timeouts]

TimeoutsOf(T, n, lag) ==
  {i \in DOMAIN T : T[i].node = n /\ DeadlinePassed(T[i], lag)}

(* A faulty ExpiredNodes, for checking the properties. *)
ExpiredNodesCountingTwice(N, T, lag) ==
  [n \in DOMAIN N |->
     ExpireNode(N[n], lag, Cardinality(TimeoutsOf(T, n, lag)),
                Cardinality(UnfinishedOf(T, n)))]

ExpiredNodes(N, T, lag) ==
  [n \in DOMAIN N |->
     ExpireNode(N[n], lag, Cardinality(TimeoutsOf(T, n, lag)),
                Cardinality(UnfinishedOf(ExpireTasks(T, lag), n)))]

ExpiredTasks(N, T, lag) ==
  FailUnfinished(ExpireTasks(T, lag), ClosingNodes(N, lag), "session_expired")

(* The tasks as the first _refresh_exercises_locked inside the node loop sees
   them: deadlines are applied and only the first closing node's work has
   failed yet. *)
FirstExpiredTasks(N, T, lag) ==
  LET closing == ClosingNodes(N, lag)
  IN FailUnfinished(ExpireTasks(T, lag),
                    IF closing = {} THEN {} ELSE {Least(closing)},
                    "session_expired")

-----------------------------------------------------------------------------
(* poll_node: what the poll delivers. *)

(* A faulty Redelivered, for checking the properties. *)
RedeliveredWithNewDeadline(task) ==
  [task EXCEPT !.delivery_attempts = IF @ < AttemptCap THEN @ + 1 ELSE @,
               !.timer = TASK_TIMEOUT_SECONDS]

Redelivered(task) ==
  [task EXCEPT !.delivery_attempts = IF @ < AttemptCap THEN @ + 1 ELSE @]

Dispatched(task, lag) ==
  [task EXCEPT !.status = "dispatched", !.delivery_attempts = 1,
               !.timer = TASK_TIMEOUT_SECONDS - lag]

(* A faulty NextQueued, for checking the properties. *)
NewestQueued(T, n) == CHOOSE i \in QueuedOf(T, n) : \A j \in QueuedOf(T, n) : j <= i

NextQueued(T, n) == Least(QueuedOf(T, n))

(* A faulty DeliveredTasks, for checking the properties. *)
DeliverIgnoringActive(T, n, paused, lag) ==
  IF paused \/ QueuedOf(T, n) = {} THEN T
  ELSE [T EXCEPT ![NextQueued(T, n)] = Dispatched(@, lag)]

(* A faulty DeliveredTasks, for checking the properties. *)
RedeliverWhilePaused(T, n, paused, lag) ==
  IF DispatchedOf(T, n) # {}
  THEN [T EXCEPT ![Least(DispatchedOf(T, n))] = Redelivered(@)]
  ELSE IF ~paused /\ QueuedOf(T, n) # {}
  THEN [T EXCEPT ![NextQueued(T, n)] = Dispatched(@, lag)]
  ELSE T

DeliveredTasks(T, n, paused, lag) ==
  IF paused THEN T
  ELSE IF DispatchedOf(T, n) # {}
  THEN [T EXCEPT ![Least(DispatchedOf(T, n))] = Redelivered(@)]
  ELSE IF QueuedOf(T, n) # {}
  THEN [T EXCEPT ![NextQueued(T, n)] = Dispatched(@, lag)]
  ELSE T

PolledNode(node, lag) == [node EXCEPT !.status = "online", !.age = lag]

-----------------------------------------------------------------------------
(* submit_result. *)

(* The tasks whose result the contract leaves open: RUNTIME_STATUS (uptime_ms
   and tasks_completed) and, in validate_playbook_result, the playbooks whose
   observation may be either of two. *)
HasFreeFields(task) ==
  task.type = "RUNTIME_STATUS" \/ task.playbook \in {"CREATE_CANARY", "CLEANUP"}

(* validate_task_result against the dispatched task and expected_runtime. *)
MatchesContract(task, node, submission) ==
  IF submission.status = "failed"
  THEN submission.result.body \in NODE_FAILURE_CODES
  ELSE /\ \/ submission.result.body = "reply"
          \/ submission.result.body = "other_reply" /\ HasFreeFields(task)
       /\ task.type \in {"SLEEP", "RUNTIME_STATUS"} =>
            submission.result.interval = node.poll_interval

(* A faulty AcceptsResult, for checking the properties. *)
AcceptsLateResult(T, node, n, i, submission) ==
  /\ i \in DOMAIN T
  /\ T[i].node = n
  /\ T[i].status \in {"dispatched", "timeout"}
  /\ MatchesContract(T[i], node, submission)

AcceptsResult(T, node, n, i, submission) ==
  /\ i \in DOMAIN T
  /\ T[i].node = n
  /\ T[i].status = "dispatched"
  /\ MatchesContract(T[i], node, submission)

AcceptedTask(task, submission) ==
  [task EXCEPT !.status = submission.status, !.result = submission.result,
               !.accepted = TRUE, !.timer = 0]

CreditedNode(node, task, submission, lag) ==
  [node EXCEPT
     !.age = lag,
     !.tasks_completed = IF submission.status = "completed" THEN @ + 1 ELSE @,
     !.tasks_failed = IF submission.status = "completed" THEN @ ELSE @ + 1,
     !.poll_interval = IF task.type = "SLEEP" /\ submission.status = "completed"
                       THEN task.interval ELSE @]

-----------------------------------------------------------------------------
(* Admission and retention: _make_task_slots_locked.  A slot state is the
   pair of the task dictionary and the tombstones, oldest first. *)

HasQueueRoom(T, n, playbooks, others) ==
  /\ Cardinality(QueuedOf(T, n)) + playbooks + others <= MAX_QUEUED_TASKS_PER_NODE
  /\ playbooks > 0 =>
       Cardinality(QueuedPlaybooksOf(T, n)) + playbooks
         <= MAX_QUEUED_PLAYBOOKS_PER_NODE

SlotsToFree(T, required) == Cardinality(DOMAIN T) + required - MAX_TASKS

(* A faulty Prunable, for checking the properties. *)
PrunableUnprotected(T, protected) == {i \in DOMAIN T : Terminal(T[i])}

(* A faulty Prunable, for checking the properties. *)
PrunableQueuedToo(T, protected) ==
  {i \in DOMAIN T : T[i].status # "dispatched" /\ T[i].exercise \notin protected}

(* protected: the exercises that are still running. *)
Prunable(T, protected) ==
  {i \in DOMAIN T : Terminal(T[i]) /\ T[i].exercise \notin protected}

HasSlots(T, protected, required) ==
  Cardinality(Prunable(T, protected)) >= SlotsToFree(T, required)

KeepNewest(s, k) == IF Len(s) <= k THEN s ELSE SubSeq(s, Len(s) - k + 1, Len(s))

Tombstone(i, task) ==
  [id |-> i, node |-> task.node, status |-> task.status, result |-> task.result]

(* A faulty Remember, for checking the properties. *)
RememberCompletedOnly(tombs, i, task) ==
  IF task.accepted /\ task.status = "completed"
  THEN Append(KeepNewest(tombs, MAX_TASK_RESULT_TOMBSTONES - 1), Tombstone(i, task))
  ELSE tombs

(* _remember_task_result_tombstone_locked *)
Remember(tombs, i, task) ==
  IF task.accepted
  THEN Append(KeepNewest(tombs, MAX_TASK_RESULT_TOMBSTONES - 1), Tombstone(i, task))
  ELSE tombs

(* _prune_terminal_task_locked on the oldest candidate *)
FreeOne(slots, protected) ==
  LET i == Least(Prunable(slots.tasks, protected))
  IN [tasks |-> Drop(slots.tasks, {i}),
      tombs |-> Remember(slots.tombs, i, slots.tasks[i])]

(* A faulty MakeTaskSlots, for checking the properties. *)
MakeOneTaskSlot(T, tombs, protected, required) ==
  LET s0 == [tasks |-> T, tombs |-> tombs]
  IN IF SlotsToFree(T, required) <= 0 THEN s0 ELSE FreeOne(s0, protected)

(* At most MAX_OPERATION_STEPS slots are ever requested at once. *)
MakeTaskSlots(T, tombs, protected, required) ==
  LET k  == SlotsToFree(T, required)
      s0 == [tasks |-> T, tombs |-> tombs]
      s1 == FreeOne(s0, protected)
      s2 == FreeOne(s1, protected)
  IN CASE k <= 0 -> s0
       [] k = 1  -> s1
       [] k = 2  -> s2
       [] k > 2  -> FreeOne(s2, protected)

(* The queue's new tasks: records is a sequence, next the first free id. *)
AddTasks(T, next, records) ==
  [i \in DOMAIN T \cup next..(next + Len(records) - 1) |->
     IF i >= next THEN records[i - next + 1] ELSE T[i]]
=============================================================================
