--------------------------- MODULE MonitorProofs ----------------------------
(***************************************************************************)
(* Whatever start, stop and the steps of the threads do in between, there  *)
(* is one monitor at most, and status and readiness are true of it: for    *)
(* every freshness and every number of threads and instants.               *)
(***************************************************************************)
EXTENDS Monitor, TLAPS

\* Where a thread can be that has not been told to stop and has not failed.
Working == {"waiting", "expiring", "ticking", "caught"}

ThreadType == [at : Places, tick : {NoTick} \cup 0 .. now]

FieldsOK ==
    /\ now \in Nat
    /\ _status \in {"running", "stopped"}
    /\ _ready \in BOOLEAN /\ _last_error \in BOOLEAN /\ _stop \in BOOLEAN
    /\ _last_tick_at \in {NoTick} \cup 0 .. now
    /\ _thread \in {NoThread} \cup DOMAIN threads
    /\ threads \in [DOMAIN threads -> ThreadType]

\* "running" is only said of a working thread, whose ticks are sweeps of its own.
RunningOK ==
    _status = "running" =>
        /\ _thread \in DOMAIN threads
        /\ threads[_thread].at \in Working
        /\ ~_stop
        /\ _last_tick_at # NoTick => _last_tick_at \in sweeps
        /\ threads[_thread].at = "ticking" => threads[_thread].tick \in sweeps

\* The inductive invariant: OneMonitor needs no help, but the reports do, for a
\* status that says "running" has to survive every step of the thread.
IInv == FieldsOK /\ OneMonitor /\ RunningOK

-----------------------------------------------------------------------------
LEMMA InitHolds ==
  ASSUME Init
  PROVE  IInv
<1>1. DOMAIN threads = {}
  <2>1. DOMAIN << >> = 1 .. 0
    OBVIOUS
  <2>2. 1 .. 0 = {}
    OBVIOUS
  <2> QED BY <2>1, <2>2 DEF Init
<1>2. threads \in [DOMAIN threads -> ThreadType]
  <2>1. threads = [t \in DOMAIN threads |-> threads[t]]
    BY <1>1, SMTT(20) DEF Init
  <2> QED BY <1>1, <2>1
<1>3. FieldsOK
  BY <1>2 DEF Init, FieldsOK, NoTick, NoThread
<1>4. OneMonitor /\ RunningOK
  BY <1>1 DEF Init, OneMonitor, RunningOK
<1> QED BY <1>3, <1>4 DEF IInv

\* No two threads are alive, so a start that finds none in charge finds none.
LEMMA NoneAlive ==
  ASSUME IInv, ~Alive(_thread)
  PROVE  \A t \in DOMAIN threads : ~Alive(t)
  BY DEF IInv, OneMonitor

LEMMA LaunchHolds ==
  ASSUME IInv, ~Alive(_thread), Launch
  PROVE  IInv'
<1>1. NewThread \in DOMAIN threads' /\ _thread' = NewThread
  BY DEF Launch, Spawn
<1>2. threads'[NewThread] = [at |-> "waiting", tick |-> NoTick]
  BY <1>1 DEF Launch, Spawn
<1>3. \A t \in DOMAIN threads' \ {NewThread} :
        t \in DOMAIN threads /\ threads'[t] = threads[t]
  BY DEF Launch, Spawn
<1>4. FieldsOK'
  <2>1. [at |-> "waiting", tick |-> NoTick] \in ThreadType'
    BY DEF ThreadType, Places
  <2>2. ThreadType' = ThreadType
    BY DEF Launch, ThreadType
  <2>3. \A t \in DOMAIN threads' : threads'[t] \in ThreadType'
    BY <1>2, <1>3, <2>1, <2>2 DEF IInv, FieldsOK
  <2>4. threads' \in [DOMAIN threads' -> ThreadType']
    BY <2>3 DEF Launch, Spawn
  <2> QED BY <1>1, <2>4 DEF Launch, IInv, FieldsOK
<1>5. OneMonitor'
  BY <1>1, <1>3, NoneAlive DEF OneMonitor, Alive
<1>6. RunningOK'
  BY <1>1, <1>2 DEF RunningOK, Launch, Working
<1> QED BY <1>4, <1>5, <1>6 DEF IInv

LEMMA LaunchFailsHolds ==
  ASSUME IInv, ~Alive(_thread), LaunchFails
  PROVE  IInv'
<1>1. FieldsOK'
  BY DEF LaunchFails, IInv, FieldsOK, ThreadType, NoTick
<1>2. OneMonitor'
  BY NoneAlive DEF LaunchFails, OneMonitor, Alive
<1>3. RunningOK'
  BY DEF LaunchFails, RunningOK
<1> QED BY <1>1, <1>2, <1>3 DEF IInv

LEMMA StopHolds ==
  ASSUME IInv, Stop
  PROVE  IInv'
  BY DEF Stop, IInv, FieldsOK, ThreadType, OneMonitor, RunningOK, Alive

LEMMA PassHolds ==
  ASSUME IInv, Pass
  PROVE  IInv'
<1>1. FieldsOK'
  <2>1. now \in Nat /\ now' = now + 1
    BY DEF Pass, IInv, FieldsOK
  <2>2. ({NoTick} \cup 0 .. now) \subseteq ({NoTick} \cup 0 .. now')
    BY <2>1
  <2>3. \A t \in DOMAIN threads : threads[t] \in ThreadType'
    BY <2>2 DEF IInv, FieldsOK, ThreadType
  <2> QED BY <2>1, <2>2, <2>3 DEF Pass, fields, IInv, FieldsOK
<1>2. OneMonitor' /\ RunningOK'
  BY DEF Pass, fields, IInv, OneMonitor, RunningOK, Alive
<1> QED BY <1>1, <1>2 DEF IInv

-----------------------------------------------------------------------------
\* A thread that takes a step was alive, so it is the one in charge.
LEMMA StepsInCharge ==
  ASSUME IInv, NEW t \in DOMAIN threads, threads[t].at # "ended"
  PROVE  t = _thread
  BY DEF IInv, OneMonitor, Alive

\* A thread that only changes its place keeps the types and stays the only one.
LEMMA MoveHolds ==
  ASSUME IInv, NEW t \in DOMAIN threads, threads[t].at # "ended",
         NEW place \in Places, Move(t, place), UNCHANGED <<now, _thread>>
  PROVE  /\ DOMAIN threads' = DOMAIN threads
         /\ threads' \in [DOMAIN threads' -> ThreadType']
         /\ threads'[t].at = place /\ threads'[t].tick = threads[t].tick
         /\ OneMonitor'
<1>1. threads[t] \in ThreadType
  BY DEF IInv, FieldsOK
<1>2. threads'[t] = [threads[t] EXCEPT !.at = place]
  BY DEF Move, IInv, FieldsOK
<1>3. \A u \in DOMAIN threads \ {t} : threads'[u] = threads[u]
  BY DEF Move, IInv, FieldsOK
<1>4. DOMAIN threads' = DOMAIN threads
  BY DEF Move, IInv, FieldsOK
<1>5. threads' \in [DOMAIN threads' -> ThreadType']
  BY <1>1, <1>2, <1>3, <1>4 DEF Move, IInv, FieldsOK, ThreadType
<1>6. OneMonitor'
  BY <1>3, <1>4, StepsInCharge DEF IInv, OneMonitor, Alive
<1> QED BY <1>1, <1>2, <1>4, <1>5, <1>6 DEF ThreadType

LEMMA WakeHolds ==
  ASSUME IInv, NEW t \in DOMAIN threads, Wake(t)
  PROVE  IInv'
<1> DEFINE place == IF _stop THEN "finally" ELSE "expiring"
<1>1. threads[t].at # "ended" /\ place \in Places /\ Move(t, place)
      /\ UNCHANGED <<now, fields, _stop, _thread, sweeps>>
  BY DEF Wake, Places
<1>2. t = _thread
  BY <1>1, StepsInCharge
<1>3. /\ DOMAIN threads' = DOMAIN threads
      /\ threads' \in [DOMAIN threads' -> ThreadType']
      /\ threads'[t].at = place
      /\ OneMonitor'
  BY <1>1, MoveHolds
<1>4. RunningOK'
  BY <1>1, <1>2, <1>3 DEF IInv, RunningOK, fields, Working
<1> QED BY <1>1, <1>3, <1>4 DEF IInv, FieldsOK, fields

LEMMA SweepHolds ==
  ASSUME IInv, NEW t \in DOMAIN threads, Sweep(t)
  PROVE  IInv'
<1>1. threads[t].at # "ended" /\ UNCHANGED <<now, fields, _stop, _thread>>
  BY DEF Sweep
<1>2. t = _thread /\ sweeps' = sweeps \cup {now}
  BY <1>1, StepsInCharge DEF Sweep
<1>3. /\ DOMAIN threads' = DOMAIN threads
      /\ threads'[t] = [at |-> "ticking", tick |-> now]
      /\ \A u \in DOMAIN threads \ {t} : threads'[u] = threads[u]
  BY DEF Sweep, IInv, FieldsOK
<1>4. threads' \in [DOMAIN threads' -> ThreadType']
  <2>1. [at |-> "ticking", tick |-> now] \in ThreadType'
    BY <1>1 DEF ThreadType, Places, IInv, FieldsOK
  <2> QED BY <1>1, <1>3, <2>1 DEF Sweep, IInv, FieldsOK, ThreadType
<1>5. OneMonitor'
  BY <1>1, <1>2, <1>3 DEF IInv, OneMonitor, Alive
<1>6. RunningOK'
  BY <1>1, <1>2, <1>3 DEF IInv, RunningOK, fields, Working
<1> QED BY <1>1, <1>3, <1>4, <1>5, <1>6 DEF IInv, FieldsOK, fields

LEMMA SweepFailsHolds ==
  ASSUME IInv, NEW t \in DOMAIN threads, SweepFails(t)
  PROVE  IInv'
<1>1. threads[t].at # "ended" /\ "caught" \in Places /\ Move(t, "caught")
      /\ UNCHANGED <<now, fields, _stop, _thread, sweeps>>
  BY DEF SweepFails, Places
<1>2. t = _thread
  BY <1>1, StepsInCharge
<1>3. /\ DOMAIN threads' = DOMAIN threads
      /\ threads' \in [DOMAIN threads' -> ThreadType']
      /\ threads'[t].at = "caught"
      /\ OneMonitor'
  BY <1>1, MoveHolds
<1>4. RunningOK'
  BY <1>1, <1>2, <1>3 DEF IInv, RunningOK, fields, Working
<1> QED BY <1>1, <1>3, <1>4 DEF IInv, FieldsOK, fields

LEMMA TickHolds ==
  ASSUME IInv, NEW t \in DOMAIN threads, Tick(t)
  PROVE  IInv'
<1>1. threads[t].at = "ticking" /\ "waiting" \in Places /\ Move(t, "waiting")
      /\ _last_tick_at' = threads[t].tick
      /\ UNCHANGED <<now, _status, _last_error, _stop, _thread, sweeps>>
  BY DEF Tick, Places
<1>2. t = _thread
  BY <1>1, StepsInCharge
<1>3. /\ DOMAIN threads' = DOMAIN threads
      /\ threads' \in [DOMAIN threads' -> ThreadType']
      /\ threads'[t].at = "waiting"
      /\ OneMonitor'
  BY <1>1, MoveHolds
<1>4. _last_tick_at' \in {NoTick} \cup 0 .. now'
  BY <1>1 DEF IInv, FieldsOK, ThreadType
<1>5. _ready' \in BOOLEAN
  BY DEF Tick
<1>6. RunningOK'
  BY <1>1, <1>2, <1>3 DEF IInv, RunningOK, Working
<1> QED BY <1>1, <1>3, <1>4, <1>5, <1>6 DEF IInv, FieldsOK

LEMMA ReportHolds ==
  ASSUME IInv, NEW t \in DOMAIN threads, Report(t)
  PROVE  IInv'
<1>1. threads[t].at # "ended" /\ "reported" \in Places /\ Move(t, "reported")
      /\ _status' = "stopped"
      /\ UNCHANGED <<now, _last_tick_at, _stop, _thread, sweeps>>
  BY DEF Report, Places
<1>2. DOMAIN threads' = DOMAIN threads /\ OneMonitor'
      /\ threads' \in [DOMAIN threads' -> ThreadType']
  BY <1>1, MoveHolds
<1> QED BY <1>1, <1>2 DEF Report, IInv, FieldsOK, RunningOK

LEMMA GiveUpHolds ==
  ASSUME IInv, NEW t \in DOMAIN threads, GiveUp(t)
  PROVE  IInv'
<1>1. threads[t].at = "reported" /\ "finally" \in Places /\ Move(t, "finally")
      /\ _stop' = TRUE /\ UNCHANGED <<now, fields, _thread, sweeps>>
  BY DEF GiveUp, Places
<1>2. _status = "stopped"
  BY <1>1, StepsInCharge DEF IInv, FieldsOK, RunningOK, Working
<1>3. DOMAIN threads' = DOMAIN threads /\ OneMonitor'
      /\ threads' \in [DOMAIN threads' -> ThreadType']
  BY <1>1, MoveHolds
<1> QED BY <1>1, <1>2, <1>3 DEF IInv, FieldsOK, RunningOK, fields

LEMMA FinallyHolds ==
  ASSUME IInv, NEW t \in DOMAIN threads, Finally(t)
  PROVE  IInv'
<1>1. threads[t].at # "ended" /\ "leaving" \in Places /\ Move(t, "leaving")
      /\ UNCHANGED <<now, _last_tick_at, _last_error, _stop, _thread, sweeps>>
  BY DEF Finally, Places
<1>2. DOMAIN threads' = DOMAIN threads /\ OneMonitor'
      /\ threads' \in [DOMAIN threads' -> ThreadType']
  BY <1>1, MoveHolds
<1> QED BY <1>1, <1>2 DEF Finally, IInv, FieldsOK, RunningOK

LEMMA EndHolds ==
  ASSUME IInv, NEW t \in DOMAIN threads, End(t)
  PROVE  IInv'
<1>1. threads[t].at = "leaving" /\ "ended" \in Places /\ Move(t, "ended")
      /\ UNCHANGED <<now, fields, _stop, _thread, sweeps>>
  BY DEF End, Places
<1>2. _status = "stopped"
  BY <1>1, StepsInCharge DEF IInv, FieldsOK, RunningOK, Working
<1>3. DOMAIN threads' = DOMAIN threads /\ OneMonitor'
      /\ threads' \in [DOMAIN threads' -> ThreadType']
  BY <1>1, MoveHolds
<1> QED BY <1>1, <1>2, <1>3 DEF IInv, FieldsOK, RunningOK, fields

-----------------------------------------------------------------------------
LEMMA NextHolds == IInv /\ [Next]_vars => IInv'
<1> SUFFICES ASSUME IInv, [Next]_vars PROVE IInv'
  OBVIOUS
<1>1. CASE Start
  BY <1>1, LaunchHolds, LaunchFailsHolds DEF Start
<1>2. CASE Stop
  BY <1>2, StopHolds
<1>3. CASE Pass
  BY <1>3, PassHolds
<1>4. CASE \E t \in DOMAIN threads : ThreadStep(t)
  <2>1. PICK t \in DOMAIN threads : ThreadStep(t)
    BY <1>4
  <2> QED BY <2>1, WakeHolds, SweepHolds, SweepFailsHolds, TickHolds, ReportHolds,
             GiveUpHolds, FinallyHolds, EndHolds DEF ThreadStep
<1>5. CASE UNCHANGED vars
  BY <1>5 DEF vars, fields, IInv, FieldsOK, ThreadType, OneMonitor, RunningOK, Alive
<1> QED BY <1>1, <1>2, <1>3, <1>4, <1>5 DEF Next

LEMMA Invariant == Spec => []IInv
  BY InitHolds, NextHolds, PTL DEF Spec

\* However start and stop of LabRuntime interleave with a thread that is slow to
\* end, there is never a second monitor, and its fields keep their types.
THEOREM OneMonitorHolds == Spec => []MonitorInv
<1>1. IInv => MonitorInv
  BY DEF IInv, FieldsOK, ThreadType, MonitorInv, MonitorTypeOK
<1> QED BY <1>1, Invariant, PTL

\* "running" and a ready /readyz are only reported of a monitor that is alive,
\* wanted and, for the latter, swept recently.
THEOREM ReportsHold == Spec => []ReportsAreTrue
<1>1. IInv => HonestStatus
  BY DEF IInv, RunningOK, HonestStatus, Alive, Working
<1>2. IInv => ReadyIsEarned
  BY DEF IInv, RunningOK, ReadyIsEarned, readiness, health_ready, Alive, Working
<1>3. IInv => ReportsAreTrue
  BY <1>1, <1>2 DEF ReportsAreTrue
<1> QED BY <1>3, Invariant, PTL
=============================================================================
