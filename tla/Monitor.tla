------------------------------ MODULE Monitor -------------------------------
(***************************************************************************)
(* The expiry monitor (LabRuntime, end of src/c2lab/core.py): start, stop, *)
(* health and the loop of the background thread, _run, cut where another   *)
(* thread can run in between: around every use of _runtime_lock and around *)
(* the call of LabState.expire.  stop waits two seconds for the thread and *)
(* then gives up, so start may meet a thread that has been told to stop    *)
(* and still runs.                                                         *)
(***************************************************************************)
EXTENDS Integers, FiniteSets

CONSTANTS
    FreshFor,   \* how long a tick counts as fresh: max(1.0, tick_seconds * 4)
    MaxStarts,  \* bound: threads ever created
    MaxTime     \* bound: the last instant of the clock

ASSUME MonitorAssumption == {FreshFor, MaxStarts, MaxTime} \subseteq Nat

VARIABLES
    now,            \* the monotonic clock
    _status,
    _ready,
    _last_tick_at,  \* an instant or NoTick
    _last_error,    \* whether an error is recorded
    _stop,          \* the event
    _thread,        \* the thread in charge: its number, or NoThread
    threads,        \* every thread created: where it is, and its local tick_at
    sweeps          \* history: instants the thread in charge read after expire

fields == <<_status, _ready, _last_tick_at, _last_error>>
vars == <<now, fields, _stop, _thread, threads, sweeps>>

NoTick == -1
NoThread == 0

\* A thread waits on _stop, runs expire, has its tick to report, has caught an
\* exception, has reported it but not yet set _stop, is about to run its
\* finally block, has run it, or has ended.
Places == {"waiting", "expiring", "ticking", "caught", "reported",
           "finally", "leaving", "ended"}

Alive(t) == t \in DOMAIN threads /\ threads[t].at # "ended"

Init ==
    /\ now = 0
    /\ _status = "stopped"
    /\ _ready = FALSE
    /\ _last_tick_at = NoTick
    /\ _last_error = FALSE
    /\ _stop = FALSE
    /\ _thread = NoThread
    /\ threads = << >>
    /\ sweeps = {}

-----------------------------------------------------------------------------
(***************************************************************************)
(* Calls of the owner, each under _runtime_lock.                           *)
(***************************************************************************)
NewThread == Cardinality(DOMAIN threads) + 1

Spawn ==
    [t \in DOMAIN threads \cup {NewThread} |->
        IF t = NewThread THEN [at |-> "waiting", tick |-> NoTick] ELSE threads[t]]

\* start when no thread runs: the new thread takes over.
Launch ==
    /\ NewThread <= MaxStarts
    /\ _stop' = FALSE
    /\ _status' = "running"
    /\ _ready' = FALSE
    /\ _last_tick_at' = NoTick
    /\ _last_error' = FALSE
    /\ _thread' = NewThread
    /\ threads' = Spawn
    /\ sweeps' = {}
    /\ UNCHANGED now

\* Thread.start raises: no thread is left in charge and the error is passed on.
LaunchFails ==
    /\ _status' = "stopped"
    /\ _last_error' = TRUE
    /\ _ready' = FALSE
    /\ _last_tick_at' = NoTick
    /\ _thread' = NoThread
    /\ _stop' = TRUE
    /\ UNCHANGED <<now, threads, sweeps>>

\* Fault: a thread that was told to stop is taken for one that has ended.
StartOverStopping ==
    /\ Alive(_thread) => _stop
    /\ Launch \/ LaunchFails

\* Fault: the event is cleared before the running thread is noticed.
StartClearingFirst ==
    IF Alive(_thread)
      THEN _stop' = FALSE /\ UNCHANGED <<now, fields, _thread, threads, sweeps>>
      ELSE Launch \/ LaunchFails

\* start; while a thread is alive it returns and changes nothing.
Start ==
    /\ ~Alive(_thread)
    /\ Launch \/ LaunchFails

\* stop; the join that follows changes nothing, whether it succeeds or not.
Stop ==
    /\ _stop' = TRUE
    /\ _status' = "stopped"
    /\ _ready' = FALSE
    /\ UNCHANGED <<now, _last_tick_at, _last_error, _thread, threads, sweeps>>

-----------------------------------------------------------------------------
(***************************************************************************)
(* _run, one thread.                                                       *)
(***************************************************************************)
Move(t, place) == threads' = [threads EXCEPT ![t].at = place]

\* _stop.wait ends: with TRUE the loop is over, with FALSE expire is called.
Wake(t) ==
    /\ threads[t].at = "waiting"
    /\ Move(t, IF _stop THEN "finally" ELSE "expiring")
    /\ UNCHANGED <<now, fields, _stop, _thread, sweeps>>

\* expire has returned and the clock is read.  The step is the reading: a thread
\* held up between the two counts as still expiring.
Sweep(t) ==
    /\ threads[t].at = "expiring"
    /\ threads' = [threads EXCEPT ![t] = [at |-> "ticking", tick |-> now]]
    /\ sweeps' = IF t = _thread THEN sweeps \cup {now} ELSE sweeps
    /\ UNCHANGED <<now, fields, _stop, _thread>>

\* Fault: an exception of expire is swallowed and the loop goes on.
SweepFailsQuietly(t) ==
    /\ threads[t].at = "expiring"
    /\ threads' = [threads EXCEPT ![t] = [at |-> "ticking", tick |-> now]]
    /\ UNCHANGED <<now, fields, _stop, _thread, sweeps>>

\* expire raises.
SweepFails(t) ==
    /\ threads[t].at = "expiring"
    /\ Move(t, "caught")
    /\ UNCHANGED <<now, fields, _stop, _thread, sweeps>>

\* The tick is recorded; a monitor that is still wanted becomes ready.
Tick(t) ==
    /\ threads[t].at = "ticking"
    /\ _last_tick_at' = threads[t].tick
    /\ _ready' = (_ready \/ (~_stop /\ _status = "running"))
    /\ Move(t, "waiting")
    /\ UNCHANGED <<now, _status, _last_error, _stop, _thread, sweeps>>

\* except: the error is recorded under the lock ...
Report(t) ==
    /\ threads[t].at = "caught"
    /\ _last_error' = TRUE
    /\ _status' = "stopped"
    /\ _ready' = FALSE
    /\ Move(t, "reported")
    /\ UNCHANGED <<now, _last_tick_at, _stop, _thread, sweeps>>

\* ... and the event is set after it is released.
GiveUp(t) ==
    /\ threads[t].at = "reported"
    /\ _stop' = TRUE
    /\ Move(t, "finally")
    /\ UNCHANGED <<now, fields, _thread, sweeps>>

\* finally, under the lock; the thread is alive until it has left _run.
Finally(t) ==
    /\ threads[t].at = "finally"
    /\ _status' = "stopped"
    /\ _ready' = FALSE
    /\ Move(t, "leaving")
    /\ UNCHANGED <<now, _last_tick_at, _last_error, _stop, _thread, sweeps>>

End(t) ==
    /\ threads[t].at = "leaving"
    /\ Move(t, "ended")
    /\ UNCHANGED <<now, fields, _stop, _thread, sweeps>>

ThreadStep(t) ==
    Wake(t) \/ Sweep(t) \/ SweepFails(t) \/ Tick(t) \/ Report(t) \/ GiveUp(t)
      \/ Finally(t) \/ End(t)

Pass ==
    /\ now < MaxTime
    /\ now' = now + 1
    /\ UNCHANGED <<fields, _stop, _thread, threads, sweeps>>

Next == Start \/ Stop \/ Pass \/ \E t \in DOMAIN threads : ThreadStep(t)

Spec == Init /\ [][Next]_vars

\* The scheduler lets every thread run, and expire takes no lock that is held
\* for ever.
FairSpec ==
    Spec /\ \A t \in 1 .. MaxStarts : WF_vars(t \in DOMAIN threads /\ ThreadStep(t))

-----------------------------------------------------------------------------
\* health()["ready"].
health_ready ==
    /\ _status = "running"
    /\ _ready
    /\ _last_tick_at # NoTick
    /\ now - _last_tick_at <= FreshFor

\* Whether /readyz answers 200: the status is looked at once more.
readiness == _status = "running" /\ health_ready

\* Every field of LabRuntime has its type, ticks are not in the future, and the
\* thread in charge is one that was started.
MonitorTypeOK ==
    /\ _status \in {"running", "stopped"}
    /\ {_ready, _last_error, _stop} \subseteq BOOLEAN
    /\ _last_tick_at \in {NoTick} \cup 0 .. now
    /\ _thread \in {NoThread} \cup DOMAIN threads
    /\ \A t \in DOMAIN threads :
         threads[t] \in [at : Places, tick : {NoTick} \cup 0 .. now]

\* However start and stop interleave with a thread that is slow to end, at
\* most one monitor is alive, and it is the one in charge.
OneMonitor == \A t \in DOMAIN threads : Alive(t) => t = _thread

\* The status says "running" only while the thread in charge is alive and has
\* not been told to stop: neither a start that met a dying thread, nor one that
\* failed, nor the last steps of an old thread leave a false report.
HonestStatus == _status = "running" => Alive(_thread) /\ ~_stop

\* /readyz answers 200 only while a monitor is in charge that finished expire
\* after it was started and read the clock for it within the last FreshFor.
ReadyIsEarned ==
    readiness =>
        /\ Alive(_thread)
        /\ ~_stop
        /\ \E instant \in sweeps : now - instant <= FreshFor

\* A monitor that was told to stop ends, whatever is called meanwhile.
StopCompletes ==
    \A t \in 1 .. MaxStarts :
        (_stop /\ Alive(t)) ~> ~Alive(t)

\* A monitor that is wanted keeps applying deadlines, or says that it does not:
\* it never hangs on with status "running".
SweepsOrReports ==
    \A t \in 1 .. MaxStarts :
        (_status = "running" /\ _thread = t)
            ~> (_status = "stopped" \/ (Alive(t) /\ threads[t].at = "ticking"))

\* There is one monitor at most, and the fields of LabRuntime fit its state.
MonitorInv == MonitorTypeOK /\ OneMonitor

\* What the status report and /readyz say of the monitor is true.
ReportsAreTrue == HonestStatus /\ ReadyIsEarned

\* A monitor told to stop ends, and one that is wanted sweeps or reports that it
\* does not (stop and _run of LabRuntime).
MonitorResponds == StopCompletes /\ SweepsOrReports
=============================================================================
