---------------------------- MODULE HttpWorkers -----------------------------
(***************************************************************************)
(* The HTTP front end of the Teamserver (LabHTTPServer in                  *)
(* src/c2lab/server.py) as a set of threads: the accept loop takes a slot  *)
(* of _request_slots for every connection, a worker thread serves it and   *)
(* gives the slot back, every response is counted and its log line queued, *)
(* one writer thread empties the queue, and run_teamserver                 *)
(* (src/c2lab/__main__.py) ends by server_close, which waits for the       *)
(* workers and then ends the writer, and by stopping the monitor.  The     *)
(* writer's stream may stall, and the interrupt that ends the server may   *)
(* come while a worker is being started.                                   *)
(*                                                                         *)
(* Of socketserver.ThreadingMixIn the model has what the code relies on:   *)
(* a worker is entered in _threads before it is started, entering one      *)
(* drops those that are not alive, and joining a thread that was never     *)
(* started raises RuntimeError.                                            *)
(***************************************************************************)
EXTENDS Integers, Sequences, FiniteSets

CONSTANTS
    Connections,            \* connections that can be open at once
    MAX_HTTP_WORKERS,
    ACCESS_LOG_QUEUE_SIZE,
    MaxRequests,            \* bound: responses recorded
    MaxRejections           \* bound: connections turned away

ASSUME WorkersAssumption ==
    /\ IsFiniteSet(Connections)
    /\ {MAX_HTTP_WORKERS, MaxRequests, MaxRejections} \subseteq Nat
    /\ ACCESS_LOG_QUEUE_SIZE \in Nat \ {0}

VARIABLES
    free,        \* value of _request_slots
    workers,     \* what happens to each connection
    unstarted,   \* _threads ends with a thread that could not be started
    metrics,     \* the counters of RequestMetrics
    pending,     \* _access_log_queue
    unfinished,  \* its unfinished_tasks
    log_closed,  \* _access_log_closed
    writer,      \* the access-log thread: "idle", "writing", "ended"
    written,     \* history: lines the stream has taken
    main,        \* where the main thread is
    raised,      \* whether server_close is leaving with an exception
    monitor      \* "on" until runtime.stop

log == <<pending, unfinished, log_closed, writer, written>>
accept == <<free, workers, unstarted>>
shutdown == <<main, raised, monitor>>
vars == <<accept, metrics, log, shutdown>>

LINE == "line"
END == "end"     \* the None that ends the writer

Full == Len(pending) >= ACCESS_LOG_QUEUE_SIZE

Init ==
    /\ free = MAX_HTTP_WORKERS
    /\ workers = [c \in Connections |-> "none"]
    /\ metrics = [requests_total |-> 0, worker_rejections |-> 0, access_log_drops |-> 0]
    /\ pending = << >>
    /\ unfinished = 0
    /\ log_closed = FALSE
    /\ writer = "idle"
    /\ written = 0
    /\ main = "serving"
    /\ unstarted = FALSE
    /\ raised = FALSE
    /\ monitor = "on"

-----------------------------------------------------------------------------
(***************************************************************************)
(* The accept loop: process_request.                                       *)
(***************************************************************************)
Accepting == main = "serving" /\ \A c \in Connections : workers[c] # "starting"

Accept(c) ==
    /\ Accepting
    /\ workers[c] = "none"
    /\ metrics.requests_total < MaxRequests
    /\ free > 0
    /\ free' = free - 1
    /\ workers' = [workers EXCEPT ![c] = "starting"]
    /\ UNCHANGED <<unstarted, metrics, log, shutdown>>

CountRejection == metrics' = [metrics EXCEPT !.worker_rejections = @ + 1]

Reject ==
    /\ Accepting
    /\ free = 0
    /\ metrics.worker_rejections < MaxRejections
    /\ CountRejection
    /\ UNCHANGED <<accept, log, shutdown>>

\* BoundedSemaphore.release; once every slot is back it raises ValueError.
Release == free' = IF free < MAX_HTTP_WORKERS THEN free + 1 ELSE free

StartWorker(c) ==
    /\ workers[c] = "starting"
    /\ workers' = [workers EXCEPT ![c] = "serving"]
    /\ unstarted' = FALSE
    /\ UNCHANGED <<free, metrics, log, shutdown>>

\* Fault: the slot is given back by the worker only, and there is none.
StartLeaksSlot(c) ==
    /\ workers[c] = "starting"
    /\ workers' = [workers EXCEPT ![c] = "none"]
    /\ unstarted' = TRUE
    /\ UNCHANGED <<free, metrics, log, shutdown>>

\* The thread cannot be started: the slot is given back here.
StartFails(c) ==
    /\ workers[c] = "starting"
    /\ workers' = [workers EXCEPT ![c] = "none"]
    /\ unstarted' = TRUE
    /\ Release
    /\ UNCHANGED <<metrics, log, shutdown>>

\* KeyboardInterrupt inside process_request: right after the slot was taken,
\* while the thread is made (entered in _threads or not), or when it already
\* runs.  The server is on its way down.
InterruptedStart(c) ==
    /\ workers[c] = "starting"
    /\ \/ workers' = [workers EXCEPT ![c] = "none"]
          /\ UNCHANGED <<free, unstarted>>
       \/ workers' = [workers EXCEPT ![c] = "none"]
          /\ unstarted' \in {unstarted, TRUE}
          /\ Release
       \/ workers' = [workers EXCEPT ![c] = "serving"]
          /\ unstarted' = FALSE
          /\ Release
    /\ main' = "joining"
    /\ UNCHANGED <<metrics, log, raised, monitor>>

-----------------------------------------------------------------------------
(***************************************************************************)
(* A worker: process_request_thread around the handler.                    *)
(***************************************************************************)
CountRequest == metrics' = [metrics EXCEPT !.requests_total = @ + 1]

\* _send_bytes: the response is counted, once ...
Respond(c) ==
    /\ workers[c] = "serving"
    /\ metrics.requests_total < MaxRequests
    /\ CountRequest
    /\ workers' = [workers EXCEPT ![c] = "logging"]
    /\ UNCHANGED <<free, unstarted, log, shutdown>>

\* ... or the connection ends without one (timeout, reset, no request).
NoResponse(c) ==
    /\ workers[c] = "serving"
    /\ workers' = [workers EXCEPT ![c] = "finishing"]
    /\ UNCHANGED <<free, unstarted, metrics, log, shutdown>>

\* Fault: a worker waits for room in the queue.
EnqueueBlocking(c) ==
    /\ workers[c] = "queueing"
    /\ ~Full
    /\ pending' = Append(pending, LINE)
    /\ unfinished' = unfinished + 1
    /\ workers' = [workers EXCEPT ![c] = "finishing"]
    /\ UNCHANGED <<free, unstarted, metrics, log_closed, writer, written, shutdown>>

DropLine == metrics' = [metrics EXCEPT !.access_log_drops = @ + 1]

\* The rest of record_response: a closed log is noticed first ...
CheckLog(c) ==
    /\ workers[c] = "logging"
    /\ IF log_closed
         THEN DropLine /\ workers' = [workers EXCEPT ![c] = "finishing"]
         ELSE UNCHANGED metrics /\ workers' = [workers EXCEPT ![c] = "queueing"]
    /\ UNCHANGED <<free, unstarted, log, shutdown>>

\* ... and then the line is queued, or dropped when the queue is full.
Enqueue(c) ==
    /\ workers[c] = "queueing"
    /\ IF Full
         THEN DropLine /\ UNCHANGED <<pending, unfinished>>
         ELSE /\ pending' = Append(pending, LINE)
              /\ unfinished' = unfinished + 1
              /\ UNCHANGED metrics
    /\ workers' = [workers EXCEPT ![c] = "finishing"]
    /\ UNCHANGED <<free, unstarted, log_closed, writer, written, shutdown>>

Finish(c) ==
    /\ workers[c] = "finishing"
    /\ workers' = [workers EXCEPT ![c] = "none"]
    /\ Release
    /\ UNCHANGED <<unstarted, metrics, log, shutdown>>

WorkerStep(c) == Respond(c) \/ NoResponse(c) \/ CheckLog(c) \/ Enqueue(c) \/ Finish(c)

-----------------------------------------------------------------------------
(***************************************************************************)
(* _write_access_log.                                                      *)
(***************************************************************************)
Get ==
    /\ writer = "idle"
    /\ pending # << >>
    /\ pending' = Tail(pending)
    /\ IF Head(pending) = END
         THEN writer' = "ended" /\ unfinished' = unfinished - 1
         ELSE writer' = "writing" /\ UNCHANGED unfinished
    /\ UNCHANGED <<accept, metrics, log_closed, written, shutdown>>

Write ==
    /\ writer = "writing"
    /\ writer' = "idle"
    /\ written' = written + 1
    /\ unfinished' = unfinished - 1
    /\ UNCHANGED <<accept, metrics, pending, log_closed, shutdown>>

WriteFails ==
    /\ writer = "writing"
    /\ writer' = "idle"
    /\ DropLine
    /\ unfinished' = unfinished - 1
    /\ UNCHANGED <<accept, pending, log_closed, written, shutdown>>

WriterStep == Get \/ Write \/ WriteFails

-----------------------------------------------------------------------------
(***************************************************************************)
(* server_close and _close_access_log, in the main thread.                 *)
(***************************************************************************)
Shutdown ==
    /\ Accepting
    /\ main' = "joining"
    /\ UNCHANGED <<accept, metrics, log, raised, monitor>>

\* Fault: the log is closed while workers are still running.
CloseWithoutJoin ==
    /\ main = "joining"
    /\ raised' = unstarted
    /\ log_closed' = TRUE
    /\ main' = "marking"
    /\ UNCHANGED <<accept, metrics, pending, unfinished, writer, written, monitor>>

\* super().server_close joins every worker, in the order they were entered; a
\* thread that was never started is the last one.  The log is closed in any case.
JoinWorkers ==
    /\ main = "joining"
    /\ \A c \in Connections : workers[c] = "none"
    /\ raised' = unstarted
    /\ log_closed' = TRUE
    /\ main' = "marking"
    /\ UNCHANGED <<accept, metrics, pending, unfinished, writer, written, monitor>>

\* put_nowait(None), the first time and after an entry was taken out.  When the
\* queue is full again the second time, the method returns.
PutEnd(place, otherwise) ==
    /\ main = place
    /\ IF Full
         THEN main' = otherwise /\ UNCHANGED <<pending, unfinished>>
         ELSE /\ pending' = Append(pending, END)
              /\ unfinished' = unfinished + 1
              /\ main' = "waiting"
    /\ UNCHANGED <<accept, metrics, log_closed, writer, written, raised, monitor>>

\* The oldest line makes room; the writer may have emptied the queue meanwhile.
MakeRoom ==
    /\ main = "full"
    /\ main' = "again"
    /\ IF pending = << >>
         THEN UNCHANGED <<pending, unfinished, metrics>>
         ELSE /\ pending' = Tail(pending)
              /\ unfinished' = unfinished - 1
              /\ DropLine
    /\ UNCHANGED <<accept, log_closed, writer, written, raised, monitor>>

\* thread.join(timeout=...): the writer has ended, or the wait is over.
JoinWriter ==
    /\ main = "waiting"
    /\ main' = "closed"
    /\ UNCHANGED <<accept, metrics, log, raised, monitor>>

\* The end of run_teamserver's finally: an exception of server_close skips
\* runtime.stop.
StopMonitor ==
    /\ main = "closed"
    /\ main' = "exited"
    /\ monitor' = IF raised THEN monitor ELSE "off"
    /\ UNCHANGED <<accept, metrics, log, raised>>

CloseStep ==
    \/ JoinWorkers
    \/ PutEnd("marking", "full")
    \/ MakeRoom
    \/ PutEnd("again", "closed")
    \/ JoinWriter
    \/ StopMonitor

Exited == main = "exited" /\ UNCHANGED vars

Next ==
    \/ \E c \in Connections :
         \/ Accept(c)
         \/ StartWorker(c)
         \/ StartFails(c)
         \/ InterruptedStart(c)
         \/ WorkerStep(c)
    \/ Reject
    \/ WriterStep
    \/ Shutdown
    \/ CloseStep
    \/ Exited

Spec == Init /\ [][Next]_vars

\* The scheduler runs every thread; a worker never waits on its connection for
\* longer than SOCKET_TIMEOUT_SECONDS.  Nothing is assumed of the writer: its
\* stream may stall for ever.
FairSpec ==
    /\ Spec
    /\ WF_vars(CloseStep)
    /\ \A c \in Connections :
         /\ WF_vars(StartWorker(c) \/ StartFails(c))
         /\ WF_vars(WorkerStep(c))

-----------------------------------------------------------------------------
Busy == {c \in Connections : workers[c] # "none"}
LinesQueued == Cardinality({i \in DOMAIN pending : pending[i] = LINE})
InHand == IF writer = "writing" THEN 1 ELSE 0

\* While the server accepts connections every slot is free or held by one
\* connection: none is lost when a thread cannot be started or a worker fails,
\* and none is given back twice.  (An interrupt that comes while a worker is
\* being started may lose its slot or give it back twice; the server is then
\* closing.)
SlotsBalance ==
    main = "serving" => free + Cardinality(Busy) = MAX_HTTP_WORKERS

\* Every response that was counted has a log line that was written, was counted
\* as dropped, or is on its way, also while the log is being closed; and
\* flush_access_log waits for exactly the entries that are on their way.
LinesAccounted ==
    /\ metrics.requests_total
         = written + metrics.access_log_drops + LinesQueued + InHand
             + Cardinality({c \in Connections : workers[c] \in {"logging", "queueing"}})
    /\ unfinished = Len(pending) + InHand

\* Closing always gets its end marker into the queue, although it may be full
\* and the writer stalled, and no line is ever left behind the marker.
MarkerPlaced ==
    /\ main \in {"waiting", "closed", "exited"}
         => writer = "ended" \/ \E i \in DOMAIN pending : pending[i] = END
    /\ \A i \in DOMAIN pending : pending[i] = END => i = Len(pending)
    /\ writer = "ended" => pending = << >>

\* The server that has ended has stopped its monitor, as SECURITY.md says of a
\* graceful shutdown (the finally block of run_teamserver).
MonitorStopped == main = "exited" => monitor = "off"

\* A shutdown ends even when the log stream stalls for ever: no worker waits
\* for the writer and closing waits for it only a bounded time.
ShutdownReturns == (main # "serving") ~> (main = "exited")

\* With a stream that does not stall, the writer ends after the server is
\* closed, with every line written or counted as dropped.
LogDrains ==
    WF_vars(WriterStep) => ((main = "exited") ~> (writer = "ended" /\ LinesQueued + InHand = 0))

\* Log lines are conserved and none is left behind the end marker (_enqueue,
\* the writer and close of the access log).
LogInv == LinesAccounted /\ MarkerPlaced

\* server_close returns, and leaves the log written when its stream allows.
ShutdownCompletes == ShutdownReturns /\ LogDrains
=============================================================================
