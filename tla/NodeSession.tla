---------------------------- MODULE NodeSession -----------------------------
(***************************************************************************)
(* One node process (run_node with its NodeClient and NodeExecutor, all of *)
(* node.py) composed with the Teamserver of LabState.  The process is one  *)
(* thread that blocks in one HTTP exchange at a time.  An exchange can     *)
(* fail on either side: the request is lost, it is worked on after the     *)
(* client has given up (late), or only the answer is lost.  The process    *)
(* may be killed and started again.                                        *)
(*                                                                         *)
(* interval stands for the pair poll_interval_ms, jitter_percent, which    *)
(* SLEEP and enrolment always move together.                               *)
(***************************************************************************)
EXTENDS LabState

CONSTANTS
  Profile, FirstInterval,  \* the command line of the process
  MaxLate                  \* bound: requests given up by the client and not yet worked on

ASSUME ProcessAssumption ==
  /\ Profile \in Profiles
  /\ FirstInterval \in PollIntervals
  /\ MaxLate \in Nat
  /\ \A e \in Enrolments : e.profile # Profile

VARIABLES
  proc,       \* the local state of run_node
  call,       \* the HTTP exchange it is blocked in
  late,       \* requests it gave up that a server thread still holds
  executions  \* history: how often each task was executed, up to 2

session == <<proc, call, late, executions>>
session_vars == <<vars, session>>

NoPending == [task |-> 0, type |-> "", new_interval |-> 0, status |-> "", result |-> NoResult]

NoTask == [id |-> 0, type |-> "", interval |-> 0]

(* The request that run_node makes next; Authorization is the session's token. *)
RequestOf(kind) ==
  [kind |-> kind, node |-> proc.node, interval |-> proc.interval, pending |-> proc.pending]

NoAnswer == [status |-> 0, node |-> 0, task |-> NoTask]

(* HTTP status, told apart as far as run_node does. *)
Answer(status) == [NoAnswer EXCEPT !.status = status]

NoCall == [request |-> [kind |-> "none"], answer |-> NoAnswer]

(* A process that has just been started: NodeClient and NodeExecutor are new. *)
Started ==
  [running |-> TRUE, stop |-> FALSE, node |-> 0, interval |-> FirstInterval,
   pending |-> NoPending]

SessionInit ==
  /\ Init
  /\ proc = Started
  /\ call = NoCall
  /\ late = {}
  /\ executions = [i \in 1..MaxTaskIds |-> 0]

-----------------------------------------------------------------------------
(* The Teamserver's side of an exchange: the handler for request r on an
   instant lag ago.  Its answer is heard unless the client has given up. *)

Reply(heard, a) ==
  IF heard THEN call' = [call EXCEPT !.answer = a] ELSE UNCHANGED call

(* A handler that refuses after _expire_locked. *)
ExpireAndRefuse(lag) ==
  /\ nodes' = ExpiredNodes(nodes, tasks, lag)
  /\ tasks' = ExpiredTasks(nodes, tasks, lag)
  /\ exercises' = ExpiredExercises(lag)
  /\ UNCHANGED <<tombstones, replay, seq>>

StillAuthentic(n, lag) == Authentic(ExpiredNodes(nodes, tasks, lag), n)

ServeEnroll(r, lag, heard) ==
  \/ /\ enroll_node([profile |-> Profile, poll_interval |-> r.interval], lag)
     /\ Reply(heard, [Answer(200) EXCEPT !.node = seq.node + 1])
  \/ /\ Cardinality(DOMAIN nodes) >= MAX_NODES /\ ClosedNodes(nodes) = {}
     /\ UNCHANGED vars
     /\ Reply(heard, Answer(429))

(* _node_task of the task that the poll leaves in flight. *)
TaskFor(n) ==
  IF nodes'[n].tasking_paused \/ DispatchedOf(tasks', n) = {} THEN NoTask
  ELSE LET i == Least(DispatchedOf(tasks', n))
       IN [id |-> i, type |-> tasks'[i].type, interval |-> tasks'[i].interval]

ServePoll(r, lag, heard) ==
  \/ poll_node(r.node, lag) /\ Reply(heard, [Answer(200) EXCEPT !.task = TaskFor(r.node)])
  \/ ~StillAuthentic(r.node, lag) /\ ExpireAndRefuse(lag) /\ Reply(heard, Answer(401))

SubmissionOf(pending) == [status |-> pending.status, result |-> pending.result]

(* A result that is not accepted now: acknowledged again when it is the stored
   one, refused with 404, 409 or 400 when it is not. *)
AnswerToRepeat(r) ==
  IF AnswersRetry(r.node, r.pending.task, SubmissionOf(r.pending))
  THEN Answer(200) ELSE Answer(409)

ServeSubmit(r, lag, heard) ==
  LET s == SubmissionOf(r.pending)
      N == ExpiredNodes(nodes, tasks, lag)
      T == ExpiredTasks(nodes, tasks, lag)
  IN \/ submit_result(r.node, r.pending.task, s, lag) /\ Reply(heard, Answer(200))
     \/ /\ Authentic(N, r.node)
        /\ ~AcceptsResult(T, N[r.node], r.node, r.pending.task, s)
        /\ ExpireAndRefuse(lag)
        /\ Reply(heard, AnswerToRepeat(r))
     \/ ~Authentic(N, r.node) /\ ExpireAndRefuse(lag) /\ Reply(heard, Answer(401))

ServeDisconnect(r, heard) ==
  \/ disconnect_node(r.node) /\ Reply(heard, Answer(200))
  \/ ~Authentic(nodes, r.node) /\ UNCHANGED vars /\ Reply(heard, Answer(401))

Handle(r, lag, heard) ==
  \/ r.kind = "enroll" /\ ServeEnroll(r, lag, heard)
  \/ r.kind = "poll" /\ ServePoll(r, lag, heard)
  \/ r.kind = "submit" /\ ServeSubmit(r, lag, heard)
  \/ r.kind = "disconnect" /\ ServeDisconnect(r, heard)

InCall == call # NoCall

Unanswered == InCall /\ call.answer = NoAnswer

Serve ==
  /\ Unanswered
  /\ \E lag \in Lags : Handle(call.request, lag, TRUE)
  /\ UNCHANGED <<proc, late, executions>>

(* The client has given up: the answer reaches nobody. *)
ServeLate(r) ==
  /\ r \in late
  /\ \E lag \in Lags : Handle(r, lag, FALSE)
  /\ late' = late \ {r}
  /\ UNCHANGED <<proc, executions>>

-----------------------------------------------------------------------------
(* run_node. *)

(* One pass of the loop up to the call it blocks in; after stop is set, the
   finally clause disconnects. *)
NextRequest ==
  IF proc.stop THEN RequestOf("disconnect")
  ELSE IF proc.node = 0 THEN RequestOf("enroll")
  ELSE IF proc.pending # NoPending THEN RequestOf("submit")
  ELSE RequestOf("poll")

MakeCall ==
  /\ proc.running /\ ~InCall
  /\ proc.stop => proc.node # 0
  /\ call' = [request |-> NextRequest, answer |-> NoAnswer]
  /\ UNCHANGED <<vars, proc, late, executions>>

Exit ==
  /\ proc.running /\ ~InCall
  /\ proc.stop /\ proc.node = 0
  /\ proc' = [proc EXCEPT !.running = FALSE]
  /\ UNCHANGED <<vars, call, late, executions>>

(* NodeExecutor.execute: the fixed actions cannot fail, a playbook can. *)
ExecutionOf(task) ==
  {[status |-> "completed",
    result |-> [body |-> "reply",
                interval |-> IF task.type \in {"SLEEP", "RUNTIME_STATUS"}
                             THEN proc.interval ELSE 0]]}
  \cup {[status |-> "failed", result |-> [body |-> "HANDLER_FAILED", interval |-> 0]]
          : t \in {task.type} \cap {"RUN_PLAYBOOK"}}

Enrolled(a) ==
  /\ proc' = [proc EXCEPT !.node = a.node]
  /\ UNCHANGED executions

(* A poll without work: the process waits and goes round. *)
NothingToDo(a) ==
  /\ a.task = NoTask
  /\ UNCHANGED <<proc, executions>>

(* A faulty Execute, for checking the properties. *)
ExecuteAndApply(a) ==
  /\ a.task # NoTask
  /\ \E e \in ExecutionOf(a.task) :
       proc' = [proc EXCEPT
                  !.interval = IF a.task.type = "SLEEP" THEN a.task.interval ELSE @,
                  !.pending = [task |-> a.task.id, type |-> a.task.type,
                               new_interval |-> a.task.interval,
                               status |-> e.status, result |-> e.result]]
  /\ executions' = [executions EXCEPT ![a.task.id] = IF @ < 2 THEN @ + 1 ELSE @]

Execute(a) ==
  /\ a.task # NoTask
  /\ \E e \in ExecutionOf(a.task) :
       proc' = [proc EXCEPT !.pending =
                  [task |-> a.task.id, type |-> a.task.type,
                   new_interval |-> a.task.interval,
                   status |-> e.status, result |-> e.result]]
  /\ executions' = [executions EXCEPT ![a.task.id] = IF @ < 2 THEN @ + 1 ELSE @]

(* A faulty Acknowledged, for checking the properties. *)
AcknowledgedWithoutExit(a) ==
  LET done == proc.pending.status = "completed"
  IN /\ proc' = [proc EXCEPT
                   !.interval = IF done /\ proc.pending.type = "SLEEP"
                                THEN proc.pending.new_interval ELSE @,
                   !.pending = NoPending]
     /\ UNCHANGED executions

(* acknowledge and the rest of the loop after an accepted result. *)
Acknowledged(a) ==
  LET done == proc.pending.status = "completed"
  IN /\ proc' = [proc EXCEPT
                   !.interval = IF done /\ proc.pending.type = "SLEEP"
                                THEN proc.pending.new_interval ELSE @,
                   !.stop = @ \/ (done /\ proc.pending.type = "EXIT"),
                   !.pending = NoPending]
     /\ UNCHANGED executions

(* Status 401: clear_session; the workspace is rotated. *)
SessionLost ==
  /\ proc' = [proc EXCEPT !.node = 0, !.pending = NoPending]
  /\ UNCHANGED executions

(* A faulty ResultRejected, for checking the properties. *)
ResultKeptForRetry == UNCHANGED <<proc, executions>>

(* Any other 4xx on a result: rejected permanently. *)
ResultRejected ==
  /\ proc' = [proc EXCEPT !.pending = NoPending]
  /\ UNCHANGED executions

(* disconnect ends the process, whatever it answers. *)
Disconnected ==
  /\ proc' = [proc EXCEPT !.running = FALSE]
  /\ UNCHANGED executions

(* A faulty Retry, for checking the properties. *)
RetryWithoutResult ==
  /\ proc' = [proc EXCEPT !.pending = NoPending]
  /\ UNCHANGED executions

(* A call that failed without a status, or an enrolment refused: go round. *)
Retry == UNCHANGED <<proc, executions>>

OnAnswer(kind, a) ==
  \/ kind = "enroll" /\ IF a.status = 200 THEN Enrolled(a) ELSE Retry
  \/ kind = "poll" /\ a.status = 200 /\ (NothingToDo(a) \/ Execute(a))
  \/ kind = "submit" /\ a.status = 200 /\ Acknowledged(a)
  \/ kind = "submit" /\ a.status = 409 /\ ResultRejected
  \/ kind \in {"poll", "submit"} /\ a.status = 401 /\ SessionLost
  \/ kind = "disconnect" /\ Disconnected

Receive ==
  /\ InCall /\ call.answer # NoAnswer
  /\ OnAnswer(call.request.kind, call.answer)
  /\ call' = NoCall
  /\ UNCHANGED <<vars, late>>

(* The call ends without a status: lost before the server saw it, still held
   by a server thread, or answered in vain. *)
CallFails ==
  /\ InCall
  /\ IF call.request.kind = "disconnect" THEN Disconnected ELSE Retry
  /\ call' = NoCall
  /\ \/ late' = late
     \/ Unanswered /\ late' = late \cup {call.request}
        /\ Cardinality(late') <= MaxLate
  /\ UNCHANGED vars

(* Ctrl-C: whatever the process was doing, it goes on to its finally clause. *)
Interrupt ==
  /\ proc.running /\ ~proc.stop
  /\ proc' = [proc EXCEPT !.stop = TRUE]
  /\ call' = NoCall
  /\ UNCHANGED <<vars, late, executions>>

(* The process is killed, without disconnecting, and started again. *)
Restart ==
  /\ proc # Started
  /\ proc' = Started
  /\ call' = NoCall
  /\ UNCHANGED <<vars, late, executions>>

-----------------------------------------------------------------------------
ProcessStep == MakeCall \/ Exit \/ Receive

Environment ==
  \/ Tick
  \/ \E lag \in Lags : Expire(lag)
  \/ \E n \in DOMAIN nodes, r \in TaskRequests : queue_task(n, r, 0)
  \/ \E i \in DOMAIN tasks : cancel_task(i)
  \/ reset

SessionNext ==
  \/ ProcessStep
  \/ Serve
  \/ \E r \in late : ServeLate(r)
  \/ CallFails
  \/ Interrupt
  \/ Restart
  \/ Environment /\ UNCHANGED session

SessionSpec == SessionInit /\ [][SessionNext]_session_vars

(* Other node processes, told from this one by their profile, share the tables
   of the Teamserver. *)
OtherNodes ==
  \/ \E e \in Enrolments : enroll_node(e, 0)
  \/ \E n \in {m \in DOMAIN nodes : nodes[m].profile # Profile} :
       \/ poll_node(n, 0)
       \/ \E i \in DOMAIN tasks, s \in Submissions : submit_result(n, i, s, 0)

CrowdedSpec ==
  SessionInit /\ [][SessionNext \/ (OtherNodes /\ UNCHANGED session)]_session_vars

(* The process runs, and the loopback connection is fair: a call that is made
   again and again is some time served, and its answer received. *)
FairSessionSpec ==
  /\ SessionSpec
  /\ WF_session_vars(MakeCall)
  /\ SF_session_vars(Serve)
  /\ SF_session_vars(Receive)
-----------------------------------------------------------------------------
(* The local variables of run_node have the values its loop relies on; a
   result is only held for a task of the current session. *)
SessionTypeOK ==
  /\ proc.node \in 0..MaxNodeIds
  /\ proc.interval \in PollIntervals
  /\ \/ proc.pending = NoPending
     \/ proc.pending.task \in 1..MaxTaskIds /\ proc.node # 0
  /\ executions \in [1..MaxTaskIds -> 0..2]

(* No task runs twice: over lost requests, late requests, lost answers,
   redelivery, restarts and re-enrolments, run_node executes a task it was
   given at most once, since it keeps the pending result until the Teamserver
   has settled the task. *)
RunsAtMostOnce == \A i \in 1..MaxTaskIds : executions[i] <= 1

(* run_node holds a result only for a task of its current session, and runs
   no task a second time. *)
SessionInv == SessionTypeOK /\ RunsAtMostOnce

(* SLEEP takes effect on both sides or on neither: whenever the process has no
   result pending, its polling interval is the one its open session has on the
   Teamserver, which RUNTIME_STATUS and the next SLEEP are checked against.
   It depends on the acknowledgement being repeatable: when other nodes
   displace the result from the tombstones before the retry (CrowdedSpec), the
   retry is refused and the two sides fall apart. *)
IntervalsAgree ==
  proc.pending = NoPending /\ Authentic(nodes, proc.node)
    => nodes[proc.node].poll_interval = proc.interval

(* EXIT is obeyed although its acknowledgement may be lost: once the
   Teamserver has the completed EXIT of the process's session, the process
   stops, or that session is over. *)
ExitAccepted(i) ==
  /\ i \in DOMAIN tasks
  /\ tasks[i].type = "EXIT" /\ tasks[i].status = "completed"
  /\ proc.running /\ ~proc.stop /\ proc.node = tasks[i].node

ExitObeyed == \A i \in 1..MaxTaskIds : ExitAccepted(i) ~> ~ExitAccepted(i)

(* A running process does not hold on to a result for ever: it is
   acknowledged, rejected for good, or dropped with its session. *)
HoldsResult == proc.running /\ ~proc.stop /\ proc.pending # NoPending

ResultsResolve == HoldsResult ~> ~HoldsResult
=============================================================================
