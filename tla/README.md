# C2 Lab: a TLA+ verification project

C2 Lab is a teaching lab: a Teamserver on the loopback interface keeps the
state of nodes, tasks, operations and purple-team exercises; node processes
poll it for typed tasks; operators drive it through an HTTP API and a browser
dashboard. This directory models the Teamserver's shared state (`LabState` in
`src/c2lab/core.py`), the node process composed with it, the event feed and its
reader, operator sessions, the expiry monitor, the node's workspace and the HTTP
front end. TLC checks each on small instances; TLAPS proves the properties of
the Teamserver's state (ledger, operations, exercises and their refinement of
`TaskLifecycle`), of the event feed and its readers, the session registry, the
monitor and the HTTP workers for every value of the limits.

## The system

| Part | State | Operations | Interaction | What is hard about it |
| --- | --- | --- | --- | --- |
| Node and task ledger (`core.py`, `LabState`) | `_nodes`, `_tasks`, `_task_result_tombstones`, `_task_sequence` | `enroll_node`, `poll_node`, `submit_result`, `disconnect_node`, `queue_task`, `cancel_task`, `expire`, `reset` | called by HTTP worker threads and by the monitor thread under one re-entrant lock | instants read before the lock; deadlines against late results; sessions that close with work in flight; tables at their limits |
| Operations | `_operation_idempotency` | `queue_operation` | queues up to three playbook tasks at once | retries against eviction of replay records; all-or-nothing admission |
| Exercises (`core.py`, `exercises.py`) | `_exercises`, `_exercise_idempotency` | `start_exercise`, `contain_exercise`, `_refresh_exercises_locked` | derived from the tasks by every handler that settles one | evidence observed once, in any order; containment while a task is in flight; retention of the tasks it needs |
| Protocol (`protocol.py`, `lab_runtime.py`) | none | `validate_task_payload`, `validate_task_result`, `validate_playbook_result` | called by the ledger and the node | which results a dispatched task accepts |
| Event feed and audit log | `_events`, `_audit_entries`, two sequences, `_stream_id` | `_record_locked`, `_audit_locked`, `sync` | written by every handler, paged by dashboards | cursors against trimming and reset |
| Operator notes | `_note_idempotency` | `post_operator_note` | live in the event feed | retries after the event has left the feed |
| Monitor (`LabRuntime`) | thread, `_status`, `_ready`, `_last_tick_at` | `start`, `stop`, `health`, `_run` | calls `expire` about four times a second | restart while the old thread lives; a failing loop |
| Node process (`node.py`) | session, `pending_result`, interval, counters | `run_node`, `NodeExecutor.execute`, `acknowledge` | HTTP polls and submissions | lost acknowledgements, retry, re-enrolment |
| Workspace (`lab_runtime.py`) | `_artifacts`, `_handles` | four playbooks, `close` | run by the node | partial failure of a removal |
| Operator sessions (`auth.py`) | `_sessions` | `register`, `authenticate`, `revoke` | checked twice per request by `server.py` | revocation while a request body is on its way |
| HTTP front end (`server.py`) | worker slots, access-log queue | routing, worker start and end, shutdown | owns the threads | slot accounting, shutdown with a full queue |
| Metrics, command line, dashboard | counters; none; browser state | | read-only towards the rest | |

Correctness, part by part: the ledger delivers one task at a time per node, in
queue order, gives each task one outcome within bounded time, forgets only
settled work and never loses an acknowledgement early; operations and
exercises are admitted whole or not at all and are not repeated by a retry
while they are live; an exercise's timeline, alerts and verdict say what
happened to its tasks, and containment is final. A node process runs no task
twice and agrees with the Teamserver on its interval; a reader of the feed sees
the retained entries without gaps or is told to start over; no session acts
after it was revoked or expired, and an admin is left after each revocation; a
monitor that reports ready is sweeping; a playbook reports only what is true of
its directory; slots and log lines are conserved and shutdown ends.

## Modules

| Module | Models |
| --- | --- |
| `LabCatalog` | task types, profiles, playbooks, techniques, scenarios and rules (`protocol.py`, `lab_runtime.py`, `exercises.py`) |
| `LabLedger` | operators on the node and task dictionaries: expiry, delivery, result contract, queue limits, pruning, tombstones |
| `LabExercises` | operators on one exercise record: evidence, alerts, verdict, containment |
| `LabState` | the state, one action per handler, the specification, types and properties |
| `TaskLifecycle` | the abstract specification of a task's life, which `LabState` implements |
| `NodeSession` | `run_node` with its client and executor (`node.py`), extending `LabState` |
| `SyncFeed` | event feed, audit log, notes, `sync` (`core.py`) and the dashboard's `refresh` (`static/app.js`) |
| `OperatorSessions` | the session registry (`auth.py`) and the authorisation of requests (`do_GET`, `do_POST` in `server.py`) |
| `Monitor` | `LabRuntime` (`core.py`) and `readiness` (`server.py`) |
| `Workspace` | `EphemeralLabWorkspace` (`lab_runtime.py`) and its life in `NodeExecutor` |
| `HttpWorkers` | threads, slots, access log and shutdown of `LabHTTPServer` (`server.py`, `__main__.py`, `observability.py`) |
| `MC...` | request sets and symmetry for TLC, one per specification |
| `LabStateProofs` | lemmas on the operators of `LabLedger`, the inductive invariant of the ledger and type correctness; pruning, keys, replay records, limits, pauses, statistics, acknowledgements, and the refinement of `TaskLifecycle` |
| `LabEvidenceProofs` | the inductive invariant of the exercises: evidence, alerts, verdict, containment |
| `NodeSessionProofs` | what a session may rely on from the Teamserver; no task runs twice; both sides agree on the polling interval |
| `SyncFeedProofs` | numbered logs, contiguous pages, gapless readers, findable notes |
| `MonitorProofs` | one monitor, and reports that are true of it |
| `WorkspaceProofs` | what a playbook reports is true of the directory |
| `OperatorSessionsProofs` | the invariant and the action properties of the session registry |
| `HttpWorkersProofs` | slots and log lines of the HTTP front end |

### State and time

The variables carry the names of the code's dictionaries without the leading
underscore; `seq` holds the last id of each kind. Ids are numbers in creation
order, which at once stand for the random ids, for insertion order in the
dictionaries, for `_sequence` and for the order of `created_at`. Two nodes
enrolled in the same timer tick of `utc_now` would tie in the code; `min` then
takes the first inserted, as the model does.

Every public handler takes the lock for its whole body, so it is one action,
calls such as `_expire_locked` and `_refresh_exercises_locked` included. What
interleaves are the handlers. Each reads `time.monotonic()` before it waits for
the lock; the parameter `lag` (0 to `MaxLag`) is how far that instant lies back
when the body runs.

Time is relative: a task's `timer` is the time left to the deadline in force
(`_queue_deadline`, later `_deadline`), a node's `age` the time since
`_last_seen_monotonic`. `Tick` moves both, and both stop at the point beyond
which no comparison of the code changes (`-MaxLag`, `AgeCap`). A settled task
has `timer` 0 for the code's `None`.

Calls that the code refuses leave the modelled state unchanged and are
stuttering steps. `poll_node` and `submit_result` expire deadlines before they
check anything, so a refused poll or submit, or the answer to a retry, is
`Expire`. `expire` with nothing overdue changes nothing, which is why `Expire`
has the guard `Overdue`.

### Abstractions

* A result is told apart only as far as `validate_task_result` does: `reply`
  has every field that the task fixes right, `other_reply` differs in free
  fields only, `forged` has a fixed field wrong, and failures carry one of the
  two codes. `interval` is the poll interval the result states.
* The node's token is valid exactly while `session_active` holds: it is rotated
  when the session closes and the new one is given to nobody.
* `max(NODE_STALE_SECONDS, 3 * interval)` is kept; jitter, heartbeat events,
  names, versions, wording and wall-clock stamps are left out.
* Event and audit logs are left out of `LabState`: no handler modelled here
  reads them.
* `MAX_TASK_RESULT_TOMBSTONES` and `MAX_OPERATION_IDEMPOTENCY_RECORDS` are
  constants of their own; the code sets both to `MAX_TASKS`.
* The technique filter of the evidence is the identity on this catalogue, which
  `EvidenceFilterKeepsAll` states and TLC evaluates.
* In an expiry the node loop refreshes the exercises after each closing
  session. An exercise depends on one node's tasks, so two refreshes decide:
  the one after the first closing session and the last (`ExpiredExercises`).
* No rule of a scenario belongs to two of its steps, so "this rule has an alert
  already" is decided once per step (`MatchedRules`).
* An operation frees at most one replay record and at most
  `MAX_OPERATION_STEPS` task slots, which is why `EvictedKeys` and
  `MakeTaskSlots` need no recursion.

### The other components

`NodeSession` extends `LabState` and uses its actions as the server's side of an
HTTP exchange, so a node's poll in the model is the ledger's `poll_node` with the
answer put into `call`. The process is one thread and blocks in one exchange at
a time. An exchange fails in three ways: the request is lost; the client gives
up and a server thread works on it later (`late`, up to `MaxLate`); or only the
answer is lost. `Interrupt` is Ctrl-C, `Restart` a killed process. `interval`
stands for interval and jitter, which always move together. `409` stands for
every definite refusal of a result (400, 404, 409), which `run_node` treats
alike.

`SyncFeed` keeps entries with their sequence number and kind. `key` of a note is
a history field; the code has it in the key table only. The reader works on a
copy of its committed state page by page, as `refresh` does, and commits at the
end; a restarted Teamserver has a new `stream`.

`OperatorSessions` cuts a request where other threads can run: headers, first
check, body, second check, state change. `since` is the earliest reading the
next call can make of the clock, so each check may work on an instant older than
the step. Registration after the start is part of the registry's interface but
of no route; the run allows it.

`Monitor` cuts `_run` around every use of `_runtime_lock` and around `expire`,
and lets `stop` return while the old thread lives (its two-second join).

`Workspace` treats a playbook as a list of file operations between two checks of
the directory. Each operation may fail where the code can raise; contents and
sizes are fixed by the code, so the size limits never bind.

`HttpWorkers` takes from `socketserver.ThreadingMixIn` that a worker is entered
in `_threads` before it is started, that entering one drops those not alive, and
that joining a thread never started raises. These are external definitions.

### Refinement

`TaskLifecycle` says, task by task, what a step of the Teamserver may do: admit
in id order, deliver when it is the task's turn, end with an outcome that fits
the stage, forget settled tasks only to admit new ones, or forget everything by
a reset. Several tasks may move in one step, but at most one is delivered and
one answered. `LabState` implements it with `life` read off the task table and
the counter (`TaskLife`) and `owner` off the node of the task (`TaskOwner`).

Operators whose comment begins with "A faulty" or "Fault" are variants of the operator
that follows, each with one plausible bug; every checked property is violated
when its variant replaces the original, as `PROJECT.json` lists.

## Runs

Deadlock is checked everywhere. A property with others in brackets is their
conjunction, with the module's type invariant where it has one.

| Run | Instance | Shows |
| --- | --- | --- |
| `ledger` | 2 nodes that close as soon as they are stale, 3 tasks: a keyed SLEEP, an exercise; `MaxLag` 1 | `SingleFlight`, `NoOrphanWork`, `FifoDispatch`, `EvidenceComplete`, `TerminalIsFinal`, `CountersMatchOutcomes`, `ImplementsLifecycle` |
| `limits` | 1 place for 2 nodes, table of 3 tasks with 5 ids, queue of 2, 1 tombstone, 1 replay record, operations of 2 steps and of 1, an exercise, keyed PINGs | `KeyNamesOneTask`, `WithinLimits`, `OnlySettledTasksPruned`, `AckSurvivesPruning`, `OperationReplayedWhileLive` |
| `exercises` | 1 node, 2 exercises at once, table of 4 tasks with 5 ids, an extra PING | `TypeOK`, `ExerciseKeysResolve`, `AlertsMatchEvidence`, `VerdictMatchesEvidence`, `ContainmentHolds`, `ContainedIsFinal` |
| `liveness` | 1 node, 1 exercise, a PING, `MaxLag` 1, 2 deliveries, `FairSpec` | `TasksSettle`, `ExercisesConclude`, `SilentSessionsClose`, `PausedNodeGetsNoWork` |
| `node_session` | 1 process, 2 sessions, 2 tasks (SLEEP, EXIT), table of 1, 1 late request, `FairSessionSpec` | `SessionInv` (`RunsAtMostOnce`), `IntervalsAgree`, `ExitObeyed`, `ResultsResolve` |
| `node_rejected` | the process and another node, 4 SLEEP tasks, table of 1, 1 tombstone | violates `IntervalsAgree` |
| `sync_feed` | logs of 2, 4 entries, pages of 1, refreshes of 2 pages, 1 note retained, 2 keys, 2 bodies for one of them, a note without a key, 2 Teamserver processes, `FairSpec` | `FeedInv` (`GaplessHistory`, `PagesAdvance`), `OneStory`, `NotesInv` (`KeysFindTheirNotes`, `NotesWithinLimit`), `ReadersCatchUp` |
| `operators` | 2 admins at the start, registry of 2, one more session with a third token, 2 clients that read, queue and revoke | `RegistryInv` (`OneSessionPerToken`, `OnlyLiveSessionsAct`), `AdminRemains`, `SessionsEndOnce` |
| `monitor` | 3 threads started one after the other, 4 time steps, freshness of 1, `FairSpec` | `MonitorInv` (`OneMonitor`), `ReportsAreTrue` (`HonestStatus`, `ReadyIsEarned`), `MonitorResponds` (`StopCompletes`, `SweepsOrReports`) |
| `workspace` | 12 files created, every playbook | `WorkspaceInv` (`EvidenceIsTrue`, `FixturesSurvive`) |
| `http_workers` | 3 connections, 2 slots, queue of 2, 5 responses, `FairSpec` | `SlotsBalance`, `LogInv` (`LinesAccounted`, `MarkerPlaced`), `ShutdownCompletes` (`ShutdownReturns`, `LogDrains`) |
| `shutdown_monitor` | 2 connections | violates `MonitorStopped` |

The bounds (`MaxNodeIds`, `MaxTaskIds`, `MaxOperationIds`, `MaxExerciseIds`)
limit how many ids a behaviour may use; they are large enough that the
interesting cases occur. In `limits` a second node takes the record
of a closed one, and five task ids for a table of three let accepted results be
pruned twice: in one call, when an operation or the exercise needs two places,
or one by one, so that the second tombstone displaces the first. Either
operation evicts the replay record of the other. PINGs, operations and the
exercise fill the queue through a check of their own each. Leaving out any of
these checks or evictions violates `WithinLimits`. Two things are beyond the run
and covered by the theorems only: a call that frees three places, and a playbook
limit below the queue limit (both are 2 here). In `exercises` a PING
after two exercises makes their tasks candidates for pruning while one of them
still runs. Time constants of one or two units let every deadline pass before,
at and after every other event; `MaxLag` 1 makes stale instants reach both sides
of a deadline. SLEEP moves the interval from 0 to 1, which moves the staleness
limit. `AttemptCap` saturates `delivery_attempts`, of which properties only ask
whether a delivery happened. After all ids are used the clock, `reset` and,
while sessions live, polls still run, so no run deadlocks.

In `node_session` the table of one task makes the second task prune the first
and turn its result into a tombstone while the acknowledgement is still being
retried, and two node ids allow one re-enrolment. In `sync_feed` a refresh has
just the pages that a full log needs, so that every entry written or trimmed
meanwhile makes it end early or start over, and four entries over a feed of two
let a keyed note leave the feed and its key be used again, evicted or deleted at
the limit. In `operators` both admins can have a revocation cleared for the
other or for themselves at once, before and after expiry, and a third
registration needs an eviction. A token could only be used again by a fourth; that
`OneSessionPerToken` holds then is left to the theorem `RegistryHolds`. Sessions
live for two of the two time steps, so those registered later, or on an instant
that lags, end at another time than those of the start. The routes of one run
are one of each kind: a read, a task, a revocation and an unknown path.
Connections and the two admins are symmetric.
In `http_workers` three connections for two slots cause rejections, and five
responses overfill the queue of two while the writer stalls.

In `limits` every operation has a key, a session closes as soon as its node is
stale, and nodes poll at interval 0: SLEEP is a matter of `ledger` and
`node_session`, the grace period of `liveness`.

Fairness: `WF(Tick)`, since the clock runs, and weak fairness of `Expire`, since
`LabRuntime._run` calls `expire` in a loop. It assumes that the monitor thread
is alive. Nothing is assumed of nodes and operators: a node may stay silent or
poll for ever without an answer, and an operator may reset at any time.

* `FairSessionSpec`: weak fairness of `MakeCall`, since `run_node` is a loop;
  strong fairness of `Serve` and `Receive`, since a call may fail any number of
  times but the loopback connection is not down for ever. Without the latter a
  retry loop settles nothing.
* `FairSpec` of `SyncFeed`: the dashboard refreshes on a timer (`WF`), requests
  for each page do not fail for ever (`SF`, page by page, since a refresh that
  fails starts over), and the operator does not sign in anew for ever. Writers
  pause because the bound on entries stops them; no fairness is put on them.
* `FairSpec` of `Monitor`: every started thread is scheduled (`WF`).
* `FairSpec` of `HttpWorkers`: workers and the closing main thread are scheduled,
  and a worker ends within its socket timeout (`WF`). Nothing is assumed of the
  log writer, whose stream may stall for ever; `LogDrains` states its own
  assumption on it.

### Disagreements with the documentation

* `node_rejected`: `README.md:303` of the repository says that when a result is
  refused with a definite 4xx, node and Teamserver keep the same old polling
  state. That holds when the Teamserver never accepted it. When it did, the
  acknowledgement is lost, and enough newer results displace the tombstone
  before the retry, the retry gets 404, the node drops the result and keeps the
  old interval while the Teamserver has the new one. Without the displacement
  (`node_session`) the two agree.
* `shutdown_monitor`: `SECURITY.md:226` says that the Teamserver closes the HTTP
  server and stops the monitor. A worker thread that was entered in `_threads`
  and never started (the start failed, or the signal came in between) makes
  `server_close` raise `RuntimeError`, and `runtime.stop()`, the next line of
  the `finally` block, is skipped. The monitor is a daemon thread, so the process
  still ends.

## Proofs

The theorems hold for every value of the constants under the assumptions of
their module, which TLC evaluates in every run. Those of `LabState` are
`LimitsAssumption` (limits are positive), `TimeAssumption` (times are naturals,
the default TTL is an allowed TTL), `KeyAssumption`, `ExerciseLimitAssumption`,
`RequestsAssumption` (requests have the shape the validators let through) and
`BoundsAssumption`.

* `LedgerInvariant`: `Spec => []LedgerInv`. `LedgerInv` holds the types of
  nodes, tasks and tombstones, the ids given out so far, the bound on the task
  table, and `LedgerOK`. `FlightOK` says that two dispatched tasks of one node
  are equal, without counting; `OrderOK` is the delivery order; `AcceptOK` says
  that an accepted result sits on a completed or failed task, which types the
  tombstones; `SleepOK` that SLEEP tasks carry a legal interval, which types
  the node after it is credited; `OwnedOK` that live tasks have an open session.
  `FifoDispatch` alone is not inductive: it needs that queued tasks were never
  delivered and dispatched ones were, which `FlightOK` keeps.
* `NoOrphanWorkHolds`, `SingleFlightHolds`, `FifoDispatchHolds` follow from it.
* `TerminalIsFinalHolds` (`Spec => TerminalIsFinal`): each action either settles
  live tasks only (`Settles`), keeps what it does not prune (`Kept`), or
  touches one dispatched task.
* `TypeCorrect` (`Spec => []TypeOK`) extends the invariant with the exercise and
  replay dictionaries (`TypeInv`).

The relation `Settles(T, U)` carries most of the argument: `U` has the tasks of
`T`, and any difference turns a live task into a terminal one. Expiry, closing
a session, cancelling and containing are all instances of it, and it preserves
every part of `LedgerOK`. Pruning is `Restricts`, admission `Adds`.

The second half of `LabStateProofs` sums a handler up in one of three shapes: it
moves retained tasks (`Moves`: each settles, is delivered or is answered), it admits new ones
after pruning (`Queues`, `Admits`), or it resets. What is proved from them:

* `OnlySettledTasksPrunedHolds`: `MakeTaskSlots` frees places one by one, each
  the oldest settled task outside a running exercise, and only with a full
  table.
* `KeyNamesOneTaskHolds`: an admission with a key already in the table is
  answered from it, so a new task never shares one.
* `PausedNodeGetsNoWorkHolds` and `CountersMatchOutcomesHolds`. For the latter,
  `ExpiryCounts` adds up what the task loop and the closing sessions of one
  expiry bring (`Brought`), so a task that is both overdue and orphaned counts
  once, and each handler adds its own result to that.
* `RecordsInvariant`, `OperationReplayedWhileLiveHolds`, `WithinLimitsHolds`:
  the replay table is finite and within its limit, which makes the one eviction
  of an admission enough; the eviction takes a record without live tasks.
  `WithinLimits` also needs the limits of nodes, tasks and tombstones from
  `LedgerInv`, and that no handler queues more than its own check admitted.
* `AckSurvivesPruningHolds`: the same submission keeps being acknowledged while
  its task is pruned, until as many tombstones as there is room for have
  displaced it, also when one handler prunes several tasks. Its invariant
  `AckInv` adds to `LedgerInv` that tombstones stand for distinct tasks that are
  gone from the table, and that an outcome in the words of a node was accepted
  from one. The theorem assumes `NodesSpeak`: submissions carry results of nodes
  (`NodeReplies`), as those of `NodeExecutor` do. Without it the property is false:
  `submit_result` acknowledges anything equal to the stored result
  (`core.py:541`), while tombstones remember accepted results only
  (`core.py:702`), so a submission that repeats word for word what the Teamserver
  itself wrote on a cancelled or expired task is acknowledged before pruning and
  refused after.
* `LifecycleRefinement`: `Spec => ImplementsLifecycle`. The initial states map
  to initial states; every step is a `TaskLifecycle` step or a stutter for all
  tasks at once. Deliveries need `FlightOK` and `OrderOK` of the invariant, and
  the outcomes need that only a dispatched task is answered.

`LabEvidenceProofs` proves `EvidenceInvariant`: `Spec => []EvidenceInv`, where
`EvidenceInv` says of each exercise that its timeline, observations, alerts and
status tell the same story as its tasks (`AllFine`), that it has caught up with
the task table (`AllCaughtUp`) and that its tasks were given out (`IdsGiven`).
None of the properties is inductive without the other two: the verdict is right
only because evidence was complete when it was given, and evidence is complete
only because every handler that settles a task refreshes the exercises
afterwards. The step from one refresh to the next counts the entries it may
append (`Room`), which shows that 16 places are enough and nothing is dropped.
`EvidenceCompleteHolds`, `AlertsMatchEvidenceHolds`,
`VerdictMatchesEvidenceHolds`, `ContainmentHoldsAlways`, `ContainedIsFinalHolds`
and `ExerciseKeysResolveHolds` follow. They rest on the catalogue assumption
`EvidenceFilterKeepsAll`, which TLC evaluates.

`NodeSessionProofs` is about the composition of one process with the ledger, among
any number of other nodes (`CrowdedSpec`, of which `SessionSpec` and
`FairSessionSpec` are special cases). `Steady` says what a step of the
Teamserver may do to the records a session relies on, and every handler is
shown to be steady. The invariant has three layers: `BaseInv` (numbers that
were given out, who owns what, answers under way that are true or outdated),
`OnceInv` (where a task can be that was already executed) and `IntervalInv`
(where a new polling interval can be that only one side knows).

* Whatever the connection and the other nodes do: `SessionTypeCorrect`;
  `ExecutedNeverQueued`: a queued task has never been executed;
  `OnlyReportsRepeat`: only SLEEP and RUNTIME_STATUS can run a second time, the
  two whose result tells the interval and is refused when the sides disagree.
* `SessionCorrect` and `IntervalsCorrect`: `SessionInv` and `IntervalsAgree`,
  provided that the Teamserver does not forget an accepted result the process
  still holds (`AnswerKept`). The proviso is needed: once other nodes displace
  the tombstone, the intervals differ for good (run `node_rejected`) and a
  delayed SLEEP may run again. The repository does not promise more
  (`SECURITY.md:193` disclaims exactly-once).
* `SessionHolds` and `IntervalsHold`: the two without proviso, until the
  Teamserver has given out more than `MAX_TASK_RESULT_TOMBSTONES + 1` tasks
  (`FewTasks`): a tombstone is displaced by as many younger ones, the result still
  held is of one more task, and `AckInv` keeps them distinct. This covers the
  run `node_session` (2 tasks, 1 tombstone) for every value of the other
  constants. With one task more the intervals can differ.

The other components have an invariant of their own each:

* `Monitor`, under `MonitorAssumption` (bounds are naturals): `OneMonitorHolds`
  and `ReportsHold`. `OneMonitor` is inductive with the types, since `start`
  refuses while the thread in charge is alive. The reports are not: `RunningOK`
  adds that "running" is only said of a thread at work whose ticks are sweeps
  made since it was started. A sweep has the instant that `_run` reads after
  `expire`; a thread held up between the two dates it late, in the code as in the
  model.
* `OperatorSessions`, under `SessionAssumption` (limits are naturals, the
  sessions of the start fit the registry) and `RoutesAssumption` (the tokens of
  the start differ, since `run_teamserver` registers each through `register`,
  which refuses a token in use; every route has a permission): `RegistryHolds`,
  `AdminRemainsHolds`, `SessionsEndOnceHolds`. What makes `OnlyLiveSessionsAct`
  inductive is `RequestOK`: a session seen to end is over at every instant the
  request can still read, and a cleared revocation is an admin's. From the
  latter `AdminRemains` follows for a revocation of another session, and from
  the check in `revoke` for one of one's own.
* `SyncFeed`, under `FeedAssumption` (limits and page sizes are positive):
  `FeedInvariant` is the inductive invariant (`LogsOK`, `ReadersOK`). `Logged`
  says that a log is numbered one by one up to its counter, `ResetFirst` that a
  retained `lab.reset` is the oldest event. `PageIsContiguous` derives from it
  that a page of `sync` continues the reader's cursor without a gap or starts
  over, and moves the cursor when it announces more (`PageFacts`);
  `MergeShown` that merging such a page, and dropping the oldest entries
  beyond `MAX_HISTORY_RECORDS`, keeps what a reader shows gapless (`Shown`).
  The invariant covers the refresh under way as well as what is committed,
  since trimming, `reset` and `Restart` fall between its pages: a state read
  from an older process stays in order by itself and is dropped at the next
  page. `FeedHolds` and `OneStoryHolds` follow. `NotesHold` adds `NotesOK`:
  an item of the key table names a note of that key if its event is retained
  at all, and every retained keyed note has its item. The bounded table gives
  up its oldest key; were that the key of a retained note, every younger item
  would name a retained note too, one more than `NoteRoom` admits
  (`OldestIsNotRetained`).
* `Workspace`, for every `MAX_WORKSPACE_FILES` and bound on files:
  `WorkspaceHolds`. `EvidenceIsTrue` speaks of a finished playbook only, so the
  invariant `IInv` says how far one has got (`LeftOf`: the operations from the
  k-th one are still to do) and what it has achieved by then (`Achieved`).
  `RegistryOK` adds that no two names share a file, without which removing the
  manifest could close a fixture. One lemma per operation (`Effect`) says that
  it either succeeds with what it is for or ends the playbook, and in both cases
  keeps every other file good; the plans of the four playbooks are then followed
  operation by operation (`AchievedNext`, `BuildingStep`).
* `HttpWorkers`, under `WorkersAssumption` (finitely many connections, a log
  queue of at least one entry): `SlotsBalanceHolds` and `LogHolds`. They need
  `ClosingOK`: the log is closed only when every worker is done, and after one
  entry was taken out of a full queue the marker has its place, because nobody
  else can add one.

Only model-checked are the liveness properties, since fairness is out of the
prover's reach: `TasksSettle`, `ExercisesConclude`, `SilentSessionsClose`,
`ExitObeyed`, `ResultsResolve`, `ReadersCatchUp`, `MonitorResponds` and
`ShutdownCompletes`. `SessionInv` and `IntervalsAgree` are proved under the
conditions above.

## Not modelled

* Reports, `overview`, `_counts` and the other projections change no state.
* JSON shape, text lengths, headers, origins, URLs and argument parsing are input
  validation; static files are I/O.
* Labels and durations of the request metrics are aggregates nothing reads back.
* The dashboard beyond its sync loop is presentation.
* Workspace file contents, and path checks against a second writer, are I/O; a
  second writer is outside the program's own scope.
* `flush_access_log` is called by tests only; `LinesAccounted` states what it
  waits for.
* A second interrupt during shutdown.

## What could come next

Every safety invariant and action property of the runs is a theorem. For one
process without other nodes, `FewTasks` is stronger than it needs to be: only
requests that are served late can displace what the process holds, so a bound
that relates `MaxLate` to `MAX_TASK_RESULT_TOMBSTONES` should do for any number
of tasks.
