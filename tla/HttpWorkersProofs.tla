------------------------- MODULE HttpWorkersProofs --------------------------
(***************************************************************************)
(* The slots of the HTTP front end and the lines of its access log, for    *)
(* every number of connections, slots and log entries: no slot is lost or  *)
(* given back twice while the server accepts, and every response has its   *)
(* line written, dropped and counted, or on its way, with nothing left     *)
(* behind the marker that ends the writer.                                 *)
(***************************************************************************)
EXTENDS HttpWorkers, FiniteSetTheorems, SequenceTheorems, TLAPS

Stages == {"none", "starting", "serving", "logging", "queueing", "finishing"}

Before == {"serving", "joining"}                \* main has yet to close the log
Closing == {"marking", "full", "again"}         \* main tries to place the marker
After == {"waiting", "closed", "exited"}

MetricsType == [requests_total : Nat, worker_rejections : Nat, access_log_drops : Nat]

TypesOK ==
    /\ free \in 0 .. MAX_HTTP_WORKERS
    /\ workers \in [Connections -> Stages]
    /\ metrics \in MetricsType
    /\ pending \in Seq({LINE, END})
    /\ Len(pending) <= ACCESS_LOG_QUEUE_SIZE
    /\ unfinished \in Nat
    /\ writer \in {"idle", "writing", "ended"}
    /\ written \in Nat
    /\ main \in Before \cup Closing \cup After

\* The log is closed once every worker is done, so that after the marker was
\* placed nobody adds a line; and there is room for it after one was taken out.
ClosingOK ==
    /\ main \notin Before => \A c \in Connections : workers[c] = "none"
    /\ main \notin After => writer # "ended" /\ \A i \in DOMAIN pending : pending[i] # END
    /\ main = "again" => ~Full

\* The inductive invariant.
IInv == TypesOK /\ SlotsBalance /\ LogInv /\ ClosingOK

-----------------------------------------------------------------------------
LinesOf(queue) == {i \in DOMAIN queue : queue[i] = LINE}

\* The workers that have counted a response and not yet queued its line.
Reporting == {c \in Connections : workers[c] \in {"logging", "queueing"}}

LEMMA LinesAreFinite ==
  ASSUME NEW queue \in Seq({LINE, END})
  PROVE  IsFiniteSet(LinesOf(queue)) /\ Cardinality(LinesOf(queue)) \in Nat
<1>1. IsFiniteSet(1 .. Len(queue))
  BY FS_Interval, LenProperties
<1>2. LinesOf(queue) \in SUBSET (1 .. Len(queue))
  BY LenProperties DEF LinesOf
<1> QED BY <1>1, <1>2, FS_Subset, FS_CardinalityType

LEMMA AppendedLine ==
  ASSUME NEW queue \in Seq({LINE, END})
  PROVE  /\ Append(queue, LINE) \in Seq({LINE, END})
         /\ Len(Append(queue, LINE)) = Len(queue) + 1
         /\ Cardinality(LinesOf(Append(queue, LINE))) = Cardinality(LinesOf(queue)) + 1
<1>1. LinesOf(Append(queue, LINE)) = LinesOf(queue) \cup {Len(queue) + 1}
  BY DEF LinesOf
<1>2. Len(queue) + 1 \notin LinesOf(queue)
  BY DEF LinesOf
<1>3. Cardinality(LinesOf(queue) \cup {Len(queue) + 1}) = Cardinality(LinesOf(queue)) + 1
  BY <1>2, LinesAreFinite, FS_AddElement
<1>4. Append(queue, LINE) \in Seq({LINE, END}) /\ Len(Append(queue, LINE)) = Len(queue) + 1
  OBVIOUS
<1> QED BY <1>1, <1>3, <1>4

LEMMA AppendedEnd ==
  ASSUME NEW queue \in Seq({LINE, END})
  PROVE  /\ Append(queue, END) \in Seq({LINE, END})
         /\ Len(Append(queue, END)) = Len(queue) + 1
         /\ Cardinality(LinesOf(Append(queue, END))) = Cardinality(LinesOf(queue))
<1>1. LinesOf(Append(queue, END)) = LinesOf(queue)
  BY DEF LinesOf, LINE, END
<1> QED BY <1>1

\* Taking the first entry out shifts the lines and loses at most one of them.
LEMMA TakenOut ==
  ASSUME NEW queue \in Seq({LINE, END}), queue # << >>
  PROVE  /\ Tail(queue) \in Seq({LINE, END})
         /\ Len(Tail(queue)) = Len(queue) - 1
         /\ \A i \in DOMAIN Tail(queue) : i + 1 \in DOMAIN queue /\ Tail(queue)[i] = queue[i + 1]
         /\ Cardinality(LinesOf(Tail(queue)))
              = Cardinality(LinesOf(queue)) - (IF Head(queue) = LINE THEN 1 ELSE 0)
<1> DEFINE old == LinesOf(queue) \ {1}
           new == LinesOf(Tail(queue))
           shift == [i \in new |-> i + 1]
<1>1. /\ Tail(queue) \in Seq({LINE, END}) /\ Len(Tail(queue)) = Len(queue) - 1
      /\ Len(queue) \in Nat \ {0} /\ DOMAIN queue = 1 .. Len(queue)
      /\ DOMAIN Tail(queue) = 1 .. Len(queue) - 1
      /\ \A i \in DOMAIN Tail(queue) : i + 1 \in DOMAIN queue /\ Tail(queue)[i] = queue[i + 1]
  BY DEF LINE, END
<1>2. /\ \A i \in new : i \in 1 .. Len(queue) - 1 /\ i + 1 \in old
      /\ \A j \in old : j - 1 \in new /\ shift[j - 1] = j
  BY <1>1 DEF LinesOf
<1>3. shift \in Bijection(new, old)
  <2>1. shift \in [new -> old]
    BY <1>2
  <2>2. \A i, j \in new : shift[i] = shift[j] => i = j
    BY <1>2
  <2>3. \A j \in old : \E i \in new : shift[i] = j
    BY <1>2
  <2> QED BY <2>1, <2>2, <2>3 DEF Bijection, Injection, IsInjective, Surjection
<1> HIDE DEF new, shift
<1>4. Cardinality(new) = Cardinality(old)
  <2>1. IsFiniteSet(new)
    BY <1>1, LinesAreFinite DEF new
  <2>2. ExistsBijection(new, old)
    BY <1>3 DEF ExistsBijection
  <2> QED BY <2>1, <2>2, FS_Bijection
<1>5. Cardinality(old) = IF 1 \in LinesOf(queue) THEN Cardinality(LinesOf(queue)) - 1
                                                 ELSE Cardinality(LinesOf(queue))
  BY LinesAreFinite, FS_RemoveElement
<1>6. 1 \in LinesOf(queue) <=> Head(queue) = LINE
  BY <1>1 DEF LinesOf
<1> QED BY <1>1, <1>4, <1>5, <1>6, LinesAreFinite DEF new

-----------------------------------------------------------------------------
\* What the counters add up to, in the terms of the lemmas above.
Accounts ==
    /\ metrics.requests_total
         = written + metrics.access_log_drops + Cardinality(LinesOf(pending)) + InHand
             + Cardinality(Reporting)
    /\ unfinished = Len(pending) + InHand

LEMMA AccountsAre == (Accounts <=> LinesAccounted) /\ (Accounts' <=> LinesAccounted')
  BY DEF Accounts, LinesAccounted, LinesQueued, LinesOf, Reporting, InHand

LEMMA InitHolds == Init => IInv
<1> SUFFICES ASSUME Init PROVE IInv
  OBVIOUS
<1>1. pending \in Seq({LINE, END}) /\ Len(pending) = 0 /\ DOMAIN pending = {}
  BY DEF Init
<1>2. Busy = {} /\ Reporting = {} /\ LinesOf(pending) = {}
  BY <1>1 DEF Init, Busy, Reporting, LinesOf
<1>3. Cardinality({}) = 0
  BY FS_EmptySet
<1>4. TypesOK
  BY <1>1, WorkersAssumption DEF Init, TypesOK, MetricsType, Stages, Before
<1>5. SlotsBalance
  BY <1>2, <1>3, WorkersAssumption DEF Init, SlotsBalance
<1>6. LinesAccounted
  <2>1. Cardinality(Reporting) = 0 /\ Cardinality(LinesOf(pending)) = 0
    BY <1>2, <1>3
  <2>2. InHand = 0 /\ unfinished = 0 /\ written = 0
        /\ metrics.requests_total = 0 /\ metrics.access_log_drops = 0
    BY DEF Init, InHand
  <2>3. Accounts
    BY <1>1, <2>1, <2>2 DEF Accounts
  <2> QED BY <2>3, AccountsAre
<1>7. MarkerPlaced /\ ClosingOK
  BY <1>1 DEF Init, MarkerPlaced, ClosingOK, Before, After
<1> QED BY <1>4, <1>5, <1>6, <1>7 DEF IInv, LogInv

\* Counting a set of connections with and without one of them.
LEMMA CountWith ==
  ASSUME NEW S \in SUBSET Connections, NEW T \in SUBSET Connections,
         NEW c \in Connections, T = S \cup {c}
  PROVE  /\ Cardinality(S) \in Nat /\ Cardinality(T) \in Nat
         /\ Cardinality(T) = Cardinality(S) + (IF c \in S THEN 0 ELSE 1)
<1>1. IsFiniteSet(S) /\ IsFiniteSet(T)
  BY WorkersAssumption, FS_Subset
<1>2. Cardinality(S \cup {c}) = IF c \in S THEN Cardinality(S) ELSE Cardinality(S) + 1
  BY <1>1, FS_AddElement, Zenon
<1> QED BY <1>1, <1>2, FS_CardinalityType

LEMMA CountWithout ==
  ASSUME NEW S \in SUBSET Connections, NEW T \in SUBSET Connections,
         NEW c \in Connections, T = S \ {c}
  PROVE  /\ Cardinality(S) \in Nat /\ Cardinality(T) \in Nat
         /\ Cardinality(T) = Cardinality(S) - (IF c \in S THEN 1 ELSE 0)
<1>1. IsFiniteSet(S) /\ IsFiniteSet(T)
  BY WorkersAssumption, FS_Subset
<1>2. Cardinality(S \ {c}) = IF c \in S THEN Cardinality(S) - 1 ELSE Cardinality(S)
  BY <1>1, FS_RemoveElement, Zenon
<1> QED BY <1>1, <1>2, FS_CardinalityType

\* One connection goes from one stage to another.
LEMMA WorkerMoves ==
  ASSUME TypesOK, NEW c \in Connections, NEW stage \in Stages,
         workers' = [workers EXCEPT ![c] = stage]
  PROVE  /\ workers' \in [Connections -> Stages]
         /\ workers'[c] = stage
         /\ \A d \in Connections \ {c} : workers'[d] = workers[d]
         /\ Cardinality(Busy) \in Nat
         /\ workers[c] = "none" /\ stage # "none" => Cardinality(Busy') = Cardinality(Busy) + 1
         /\ workers[c] # "none" /\ stage # "none" => Cardinality(Busy') = Cardinality(Busy)
         /\ workers[c] # "none" /\ stage = "none" => /\ Cardinality(Busy') = Cardinality(Busy) - 1
                                                    /\ Cardinality(Busy) > 0
         /\ Cardinality(Reporting) \in Nat /\ Cardinality(Reporting') \in Nat
         /\ (c \in Reporting <=> stage \in {"logging", "queueing"})
              => Cardinality(Reporting') = Cardinality(Reporting)
         /\ c \in Reporting /\ stage \notin {"logging", "queueing"}
              => Cardinality(Reporting) = Cardinality(Reporting') + 1
         /\ c \notin Reporting /\ stage \in {"logging", "queueing"}
              => Cardinality(Reporting') = Cardinality(Reporting) + 1
<1>1. /\ workers' \in [Connections -> Stages]
      /\ workers'[c] = stage
      /\ \A d \in Connections \ {c} : workers'[d] = workers[d]
  BY DEF TypesOK
<1>3. Busy \in SUBSET Connections /\ Busy' \in SUBSET Connections
  BY DEF Busy
<1>4. Busy' = IF stage = "none" THEN Busy \ {c} ELSE Busy \cup {c}
  BY <1>1 DEF Busy
<1>5. c \in Busy <=> workers[c] # "none"
  BY DEF Busy
<1>6. Reporting \in SUBSET Connections /\ Reporting' \in SUBSET Connections
  BY DEF Reporting
<1>7. Reporting' = IF stage \in {"logging", "queueing"} THEN Reporting \cup {c}
                                                       ELSE Reporting \ {c}
  BY <1>1 DEF Reporting
<1>8. /\ Cardinality(Busy) \in Nat /\ Cardinality(Busy') \in Nat
      /\ Cardinality(Busy') + (IF workers[c] = "none" THEN 0 ELSE 1)
           = Cardinality(Busy) + (IF stage = "none" THEN 0 ELSE 1)
  <2>1. CASE stage = "none"
    <3>1. /\ Cardinality(Busy) \in Nat /\ Cardinality(Busy') \in Nat
          /\ Cardinality(Busy') = Cardinality(Busy) - (IF c \in Busy THEN 1 ELSE 0)
      BY <1>3, <1>4, <2>1, CountWithout, Zenon
    <3> QED BY <1>5, <2>1, <3>1
  <2>2. CASE stage # "none"
    <3>1. /\ Cardinality(Busy) \in Nat /\ Cardinality(Busy') \in Nat
          /\ Cardinality(Busy') = Cardinality(Busy) + (IF c \in Busy THEN 0 ELSE 1)
      BY <1>3, <1>4, <2>2, CountWith, Zenon
    <3> QED BY <1>5, <2>2, <3>1
  <2> QED BY <2>1, <2>2
<1>9. /\ Cardinality(Reporting) \in Nat /\ Cardinality(Reporting') \in Nat
      /\ Cardinality(Reporting') + (IF c \in Reporting THEN 1 ELSE 0)
           = Cardinality(Reporting) + (IF stage \in {"logging", "queueing"} THEN 1 ELSE 0)
  <2>1. CASE stage \in {"logging", "queueing"}
    <3>1. /\ Cardinality(Reporting) \in Nat /\ Cardinality(Reporting') \in Nat
          /\ Cardinality(Reporting') = Cardinality(Reporting) + (IF c \in Reporting THEN 0 ELSE 1)
      BY <1>6, <1>7, <2>1, CountWith, Zenon
    <3> QED BY <2>1, <3>1
  <2>2. CASE stage \notin {"logging", "queueing"}
    <3>1. /\ Cardinality(Reporting) \in Nat /\ Cardinality(Reporting') \in Nat
          /\ Cardinality(Reporting') = Cardinality(Reporting) - (IF c \in Reporting THEN 1 ELSE 0)
      BY <1>6, <1>7, <2>2, CountWithout, Zenon
    <3> QED BY <2>2, <3>1
  <2> QED BY <2>1, <2>2
<1> QED BY <1>1, <1>8, <1>9

\* A worker's step that leaves the log alone and the server where it is, or on
\* its way down: the slots are what is left to look at.
LEMMA WorkerKeepsLog ==
  ASSUME IInv, NEW c \in Connections, NEW stage \in Stages,
         workers' = [workers EXCEPT ![c] = stage],
         workers[c] # "none" \/ main \in Before,
         c \in Reporting <=> stage \in {"logging", "queueing"},
         main' \in {main, "joining"}, main \in Before \/ main' = main,
         UNCHANGED <<metrics, log>>
  PROVE  /\ Accounts' /\ MarkerPlaced' /\ ClosingOK'
<1>1. TypesOK /\ Accounts /\ MarkerPlaced /\ ClosingOK
  BY AccountsAre DEF IInv, LogInv
<1>2. main \in Before /\ main' \in Before
  BY <1>1 DEF ClosingOK, Before
<1>3. Cardinality(Reporting') = Cardinality(Reporting)
  BY <1>1, WorkerMoves
<1>4. Accounts'
  BY <1>1, <1>3 DEF Accounts, log, LinesOf, InHand
<1>5. MarkerPlaced'
  BY <1>1, <1>2 DEF MarkerPlaced, log, Before
<1>6. ClosingOK'
  BY <1>1, <1>2 DEF ClosingOK, log, Before, After, Full
<1> QED BY <1>4, <1>5, <1>6

-----------------------------------------------------------------------------
(* The accept loop. *)

LEMMA AcceptHolds ==
  ASSUME IInv, NEW c \in Connections, Accept(c)
  PROVE  IInv'
<1>1. /\ workers[c] = "none" /\ main = "serving" /\ free > 0 /\ free' = free - 1
      /\ workers' = [workers EXCEPT ![c] = "starting"]
      /\ UNCHANGED <<unstarted, metrics, log, shutdown>>
  BY DEF Accept, Accepting
<1>2. TypesOK /\ SlotsBalance /\ "starting" \in Stages /\ c \notin Reporting
  BY <1>1 DEF IInv, Stages, Reporting
<1>3. /\ workers' \in [Connections -> Stages]
      /\ Cardinality(Busy) \in Nat /\ Cardinality(Busy') = Cardinality(Busy) + 1
  BY <1>1, <1>2, WorkerMoves
<1>4. TypesOK'
  BY <1>1, <1>2, <1>3, WorkersAssumption DEF TypesOK, log, shutdown
<1>5. SlotsBalance'
  BY <1>1, <1>2, <1>3, WorkersAssumption DEF TypesOK, SlotsBalance, shutdown
<1>6. Accounts' /\ MarkerPlaced' /\ ClosingOK'
  BY <1>1, <1>2, WorkerKeepsLog DEF shutdown, Before
<1> QED BY <1>4, <1>5, <1>6, AccountsAre DEF IInv, LogInv

\* A connection that is turned away is only counted.
LEMMA RejectHolds ==
  ASSUME IInv, Reject
  PROVE  IInv'
<1>1. /\ UNCHANGED <<accept, log, shutdown>>
      /\ metrics' = [metrics EXCEPT !.worker_rejections = @ + 1]
  BY DEF Reject, CountRejection
<1>2. TypesOK /\ Accounts /\ SlotsBalance /\ MarkerPlaced /\ ClosingOK
  BY AccountsAre DEF IInv, LogInv
<1>3. /\ metrics' \in MetricsType
      /\ metrics'.requests_total = metrics.requests_total
      /\ metrics'.access_log_drops = metrics.access_log_drops
  BY <1>1, <1>2 DEF TypesOK, MetricsType
<1>4. TypesOK' /\ SlotsBalance'
  BY <1>1, <1>2, <1>3 DEF TypesOK, SlotsBalance, Busy, accept, log, shutdown
<1>5. Accounts'
  BY <1>1, <1>2, <1>3 DEF Accounts, Reporting, LinesOf, InHand, accept, log
<1>6. MarkerPlaced' /\ ClosingOK'
  BY <1>1, <1>2 DEF MarkerPlaced, ClosingOK, Full, accept, log, shutdown
<1> QED BY <1>4, <1>5, <1>6, AccountsAre DEF IInv, LogInv

\* A step of a connection in which a slot changes hands only as it ends.
LEMMA ConnectionStep ==
  ASSUME IInv, NEW c \in Connections, NEW stage \in Stages, workers[c] # "none",
         workers' = [workers EXCEPT ![c] = stage],
         c \in Reporting <=> stage \in {"logging", "queueing"},
         UNCHANGED <<metrics, log>>, main' \in {main, "joining"},
         free' \in 0 .. MAX_HTTP_WORKERS,
         main' = "serving" =>
            IF stage = "none" THEN free < MAX_HTTP_WORKERS => free' = free + 1 ELSE free' = free
  PROVE  IInv'
<1>1. TypesOK /\ SlotsBalance /\ ClosingOK
  BY DEF IInv
<1>2. main \in Before
  BY <1>1 DEF ClosingOK
<1>3. /\ workers' \in [Connections -> Stages] /\ Cardinality(Busy) \in Nat
      /\ stage # "none" => Cardinality(Busy') = Cardinality(Busy)
      /\ stage = "none" => Cardinality(Busy') = Cardinality(Busy) - 1 /\ Cardinality(Busy) > 0
  BY <1>1, WorkerMoves
<1>4. TypesOK'
  BY <1>1, <1>3 DEF TypesOK, log, Before
<1>5. SlotsBalance'
  <2>1. SUFFICES ASSUME main' = "serving"
                 PROVE  free' + Cardinality(Busy') = MAX_HTTP_WORKERS
    BY DEF SlotsBalance
  <2>2. main = "serving" /\ free + Cardinality(Busy) = MAX_HTTP_WORKERS
    BY <1>1, <2>1 DEF SlotsBalance
  <2>3. free \in Nat
    BY <1>1, WorkersAssumption DEF TypesOK
  <2> QED BY <1>3, <2>1, <2>2, <2>3
<1>6. Accounts' /\ MarkerPlaced' /\ ClosingOK'
  BY <1>2, WorkerKeepsLog
<1> QED BY <1>4, <1>5, <1>6, AccountsAre DEF IInv, LogInv

LEMMA Released ==
  ASSUME TypesOK, Release
  PROVE  /\ free' \in 0 .. MAX_HTTP_WORKERS
         /\ free < MAX_HTTP_WORKERS => free' = free + 1
  BY WorkersAssumption DEF TypesOK, Release

LEMMA StartHolds ==
  ASSUME IInv, NEW c \in Connections, StartWorker(c) \/ StartFails(c) \/ InterruptedStart(c)
  PROVE  IInv'
<1>1. /\ workers[c] # "none" /\ c \notin Reporting /\ "none" \in Stages /\ "serving" \in Stages
      /\ free \in 0 .. MAX_HTTP_WORKERS /\ TypesOK
  BY DEF StartWorker, StartFails, InterruptedStart, Reporting, Stages, IInv, TypesOK
<1>2. CASE StartWorker(c)
  BY <1>1, <1>2, ConnectionStep DEF StartWorker, shutdown
<1>3. CASE StartFails(c)
  BY <1>1, <1>3, Released, ConnectionStep DEF StartFails, shutdown
<1>4. CASE InterruptedStart(c)
  <2>1. PICK stage \in {"none", "serving"} : workers' = [workers EXCEPT ![c] = stage]
    BY <1>4 DEF InterruptedStart
  <2>2. free' \in 0 .. MAX_HTTP_WORKERS
    BY <1>1, <1>4, Released DEF InterruptedStart
  <2>3. main' = "joining" /\ UNCHANGED <<metrics, log>>
    BY <1>4 DEF InterruptedStart
  <2> QED BY <1>1, <2>1, <2>2, <2>3, ConnectionStep
<1> QED BY <1>2, <1>3, <1>4

-----------------------------------------------------------------------------
(* The workers. *)

LEMMA NoResponseHolds ==
  ASSUME IInv, NEW c \in Connections, NoResponse(c)
  PROVE  IInv'
<1>1. workers[c] # "none" /\ c \notin Reporting /\ "finishing" \in Stages
      /\ free \in 0 .. MAX_HTTP_WORKERS
  BY DEF NoResponse, Reporting, Stages, IInv, TypesOK
<1> QED BY <1>1, ConnectionStep DEF NoResponse, shutdown

LEMMA FinishHolds ==
  ASSUME IInv, NEW c \in Connections, Finish(c)
  PROVE  IInv'
<1>1. workers[c] # "none" /\ c \notin Reporting /\ "none" \in Stages /\ TypesOK
  BY DEF Finish, Reporting, Stages, IInv
<1> QED BY <1>1, Released, ConnectionStep DEF Finish, shutdown

\* The counters that matter here, after each way to count.
LEMMA Counted ==
  ASSUME TypesOK
  PROVE  /\ metrics.requests_total \in Nat /\ metrics.access_log_drops \in Nat
         /\ CountRequest =>
              /\ metrics' \in MetricsType
              /\ metrics'.requests_total = metrics.requests_total + 1
              /\ metrics'.access_log_drops = metrics.access_log_drops
         /\ DropLine =>
              /\ metrics' \in MetricsType
              /\ metrics'.requests_total = metrics.requests_total
              /\ metrics'.access_log_drops = metrics.access_log_drops + 1
  BY DEF TypesOK, MetricsType, CountRequest, DropLine

\* The accounts before and after a step, term by term.
Tally ==
    /\ metrics.requests_total
         = written + metrics.access_log_drops + Cardinality(LinesOf(pending))
             + InHand + Cardinality(Reporting)
    /\ metrics.requests_total \in Nat /\ metrics.access_log_drops \in Nat
    /\ Cardinality(LinesOf(pending)) \in Nat /\ Cardinality(Reporting) \in Nat
    /\ InHand \in Nat /\ written \in Nat

LEMMA AccountsNow ==
  ASSUME TypesOK, Accounts
  PROVE  Tally
<1>1. IsFiniteSet(Reporting)
  BY WorkersAssumption, FS_Subset DEF Reporting
<1>2. Cardinality(Reporting) \in Nat
  BY <1>1, FS_CardinalityType
<1> QED BY <1>2, LinesAreFinite DEF TypesOK, MetricsType, InHand, Accounts, Tally

LEMMA AccountsThen ==
  ASSUME metrics'.requests_total
           = written' + metrics'.access_log_drops + Cardinality(LinesOf(pending'))
               + InHand' + Cardinality(Reporting'),
         unfinished' = Len(pending') + InHand'
  PROVE  Accounts'
  BY DEF Accounts, LinesOf

\* A step of a worker that reports a response: it keeps its slot.
LEMMA ReportingStep ==
  ASSUME IInv, NEW c \in Connections, NEW stage \in Stages, stage # "none",
         workers[c] # "none", workers' = [workers EXCEPT ![c] = stage],
         UNCHANGED <<free, log_closed, writer, written, shutdown>>,
         metrics' \in MetricsType,
         \/ pending' = pending /\ unfinished' = unfinished
         \/ ~Full /\ pending' = Append(pending, LINE) /\ unfinished' = unfinished + 1
  PROVE  TypesOK' /\ SlotsBalance' /\ MarkerPlaced' /\ ClosingOK'
<1>1. TypesOK /\ SlotsBalance /\ MarkerPlaced /\ ClosingOK
  BY DEF IInv, LogInv
<1>2. main \in Before /\ main' = main
  BY <1>1 DEF ClosingOK, shutdown
<1>3. workers' \in [Connections -> Stages] /\ Cardinality(Busy') = Cardinality(Busy)
  BY <1>1, WorkerMoves
<1>4. /\ pending' \in Seq({LINE, END}) /\ Len(pending') <= ACCESS_LOG_QUEUE_SIZE
      /\ \A i \in DOMAIN pending' : pending'[i] # END
  <2>1. \A i \in DOMAIN pending : pending[i] # END
    BY <1>1, <1>2 DEF ClosingOK, Before, After
  <2>2. CASE pending' = pending
    BY <1>1, <2>1, <2>2 DEF TypesOK
  <2>3. CASE ~Full /\ pending' = Append(pending, LINE)
    <3>1. /\ pending' \in Seq({LINE, END}) /\ Len(pending') = Len(pending) + 1
          /\ pending \in Seq({LINE, END})
      BY <1>1, <2>3, AppendedLine DEF TypesOK
    <3>2. \A i \in DOMAIN pending' : pending'[i] # END
      BY <2>1, <2>3, <3>1 DEF LINE, END
    <3> QED BY <2>3, <3>1, <3>2, WorkersAssumption DEF Full
  <2> QED BY <2>2, <2>3
<1>5. TypesOK'
  BY <1>1, <1>2, <1>3, <1>4 DEF TypesOK
<1>6. SlotsBalance'
  BY <1>1, <1>2, <1>3 DEF SlotsBalance
<1>7. writer # "ended" /\ writer' = writer
  BY <1>1, <1>2 DEF ClosingOK, Before, After
<1>8. MarkerPlaced' /\ ClosingOK'
  BY <1>2, <1>4, <1>7 DEF MarkerPlaced, ClosingOK, Before, After
<1> QED BY <1>5, <1>6, <1>8

LEMMA RespondHolds ==
  ASSUME IInv, NEW c \in Connections, Respond(c)
  PROVE  IInv'
<1>1. /\ TypesOK /\ Accounts /\ workers[c] = "serving" /\ c \notin Reporting
      /\ "logging" \in Stages \ {"none"} /\ workers' = [workers EXCEPT ![c] = "logging"]
      /\ CountRequest /\ UNCHANGED <<free, log, shutdown>>
  BY AccountsAre DEF IInv, LogInv, Respond, Reporting, Stages
<1>0. Tally
  BY <1>1, AccountsNow
<1>2. TypesOK' /\ SlotsBalance' /\ MarkerPlaced' /\ ClosingOK'
  <2>1. UNCHANGED <<free, log_closed, writer, written, shutdown>> /\ metrics' \in MetricsType
        /\ pending' = pending /\ unfinished' = unfinished
    BY <1>1, Counted DEF log
  <2> QED BY <1>1, <2>1, ReportingStep
<1>3. Cardinality(Reporting') = Cardinality(Reporting) + 1 /\ Cardinality(Reporting) \in Nat
  BY <1>1, WorkerMoves
<1>4. InHand' = InHand /\ written' = written /\ pending' = pending /\ unfinished' = unfinished
  BY <1>1 DEF log, InHand
<1>5. /\ metrics'.requests_total = metrics.requests_total + 1
      /\ metrics'.access_log_drops = metrics.access_log_drops
  BY <1>1, Counted
<1>6. Accounts'
  <2>1. metrics'.requests_total
          = written' + metrics'.access_log_drops + Cardinality(LinesOf(pending'))
              + InHand' + Cardinality(Reporting')
    BY <1>0, <1>3, <1>4, <1>5 DEF Tally
  <2>2. unfinished' = Len(pending') + InHand'
    BY <1>0, <1>1, <1>4 DEF Accounts, Tally, InHand, TypesOK
  <2> QED BY <2>1, <2>2, AccountsThen
<1> QED BY <1>2, <1>6, AccountsAre DEF IInv, LogInv

LEMMA CheckLogHolds ==
  ASSUME IInv, NEW c \in Connections, CheckLog(c)
  PROVE  IInv'
<1>1. /\ TypesOK /\ Accounts /\ workers[c] = "logging" /\ c \in Reporting
      /\ UNCHANGED <<free, log, shutdown>>
  BY AccountsAre DEF IInv, LogInv, CheckLog, Reporting
<1>0. Tally
  BY <1>1, AccountsNow
<1>2. metrics \in MetricsType
  BY <1>1 DEF TypesOK
<1>3. InHand' = InHand /\ written' = written /\ pending' = pending /\ unfinished' = unfinished
  BY <1>1 DEF log, InHand
<1>4. CASE DropLine /\ workers' = [workers EXCEPT ![c] = "finishing"]
  <2>1. "finishing" \in Stages \ {"none"}
    BY DEF Stages
  <2>2. TypesOK' /\ SlotsBalance' /\ MarkerPlaced' /\ ClosingOK'
    <3>1. UNCHANGED <<free, log_closed, writer, written, shutdown>> /\ metrics' \in MetricsType
          /\ pending' = pending /\ unfinished' = unfinished
      BY <1>1, <1>4, Counted DEF log
    <3> QED BY <1>1, <1>4, <2>1, <3>1, ReportingStep
  <2>3. Cardinality(Reporting) = Cardinality(Reporting') + 1 /\ Cardinality(Reporting') \in Nat
    BY <1>1, <1>4, <2>1, WorkerMoves
  <2>4. /\ metrics'.requests_total = metrics.requests_total
        /\ metrics'.access_log_drops = metrics.access_log_drops + 1
        /\ metrics.access_log_drops \in Nat
    BY <1>1, <1>4, Counted
  <2>5. Accounts'
    <3>1. metrics'.requests_total
            = written' + metrics'.access_log_drops + Cardinality(LinesOf(pending'))
                + InHand' + Cardinality(Reporting')
      BY <1>0, <1>3, <2>3, <2>4 DEF Tally
    <3>2. unfinished' = Len(pending') + InHand'
      BY <1>0, <1>1, <1>3, <2>3, <2>4 DEF Accounts, Tally, InHand, TypesOK
    <3> QED BY <3>1, <3>2, AccountsThen
  <2> QED BY <2>2, <2>5, AccountsAre DEF IInv, LogInv
<1>5. CASE UNCHANGED metrics /\ workers' = [workers EXCEPT ![c] = "queueing"]
  <2>1. "queueing" \in Stages \ {"none"}
    BY DEF Stages
  <2>2. TypesOK' /\ SlotsBalance' /\ MarkerPlaced' /\ ClosingOK'
    <3>1. UNCHANGED <<free, log_closed, writer, written, shutdown>> /\ metrics' \in MetricsType
          /\ pending' = pending /\ unfinished' = unfinished
      BY <1>1, <1>2, <1>5 DEF log
    <3> QED BY <1>1, <1>5, <2>1, <3>1, ReportingStep
  <2>3. Cardinality(Reporting') = Cardinality(Reporting)
    BY <1>1, <1>5, <2>1, WorkerMoves
  <2>4. Accounts'
    <3>1. metrics'.requests_total
            = written' + metrics'.access_log_drops + Cardinality(LinesOf(pending'))
                + InHand' + Cardinality(Reporting')
      BY <1>0, <1>3, <1>5, <2>3 DEF Tally
    <3>2. unfinished' = Len(pending') + InHand'
      BY <1>0, <1>1, <1>3, <1>5, <2>3 DEF Accounts, Tally, InHand, TypesOK
    <3> QED BY <3>1, <3>2, AccountsThen
  <2> QED BY <2>2, <2>4, AccountsAre DEF IInv, LogInv
<1> QED BY <1>4, <1>5 DEF CheckLog

LEMMA EnqueueHolds ==
  ASSUME IInv, NEW c \in Connections, Enqueue(c)
  PROVE  IInv'
<1>1. /\ TypesOK /\ Accounts /\ workers[c] = "queueing" /\ c \in Reporting
      /\ "finishing" \in Stages \ {"none"} /\ workers' = [workers EXCEPT ![c] = "finishing"]
      /\ UNCHANGED <<free, log_closed, writer, written, shutdown>>
  BY AccountsAre DEF IInv, LogInv, Enqueue, Reporting, Stages
<1>0. Tally
  BY <1>1, AccountsNow
<1>2. Cardinality(Reporting) = Cardinality(Reporting') + 1 /\ Cardinality(Reporting') \in Nat
  BY <1>1, WorkerMoves
<1>3. InHand' = InHand /\ written' = written
  BY <1>1 DEF InHand
<1>4. CASE DropLine /\ UNCHANGED <<pending, unfinished>>
  <2>1. TypesOK' /\ SlotsBalance' /\ MarkerPlaced' /\ ClosingOK'
    <3>1. metrics' \in MetricsType /\ pending' = pending /\ unfinished' = unfinished
      BY <1>1, <1>4, Counted
    <3> QED BY <1>1, <3>1, ReportingStep
  <2>3. /\ metrics'.requests_total = metrics.requests_total
        /\ metrics'.access_log_drops = metrics.access_log_drops + 1
        /\ metrics.access_log_drops \in Nat
    BY <1>1, <1>4, Counted
  <2>4. Accounts'
    <3>1. metrics'.requests_total
            = written' + metrics'.access_log_drops + Cardinality(LinesOf(pending'))
                + InHand' + Cardinality(Reporting')
      BY <1>0, <1>2, <1>3, <1>4, <2>3 DEF Tally
    <3>2. unfinished' = Len(pending') + InHand'
      BY <1>1, <1>3, <1>4 DEF Accounts
    <3> QED BY <3>1, <3>2, AccountsThen
  <2> QED BY <2>1, <2>4, AccountsAre DEF IInv, LogInv
<1>5. CASE /\ ~Full /\ pending' = Append(pending, LINE) /\ unfinished' = unfinished + 1
           /\ UNCHANGED metrics
  <2>1. TypesOK' /\ SlotsBalance' /\ MarkerPlaced' /\ ClosingOK'
    <3>1. metrics' \in MetricsType
      BY <1>1, <1>5 DEF TypesOK
    <3> QED BY <1>1, <1>5, <3>1, ReportingStep
  <2>2. Cardinality(LinesOf(pending')) = Cardinality(LinesOf(pending)) + 1 /\ metrics' = metrics
    BY <1>1, <1>5, AppendedLine DEF TypesOK
  <2>3. Accounts'
    <3>1. metrics'.requests_total
            = written' + metrics'.access_log_drops + Cardinality(LinesOf(pending'))
                + InHand' + Cardinality(Reporting')
      BY <1>0, <1>2, <1>3, <2>2 DEF Tally
    <3>2. unfinished' = Len(pending') + InHand'
      BY <1>1, <1>3, <1>5 DEF Accounts, InHand, TypesOK
    <3> QED BY <3>1, <3>2, AccountsThen
  <2> QED BY <2>1, <2>3, AccountsAre DEF IInv, LogInv
<1> QED BY <1>4, <1>5 DEF Enqueue

-----------------------------------------------------------------------------
(* The writer. *)

\* A step of the writer that leaves the queue alone: it is done with a line.
LEMMA LineDoneHolds ==
  ASSUME IInv, Write \/ WriteFails
  PROVE  IInv'
<1>1. /\ TypesOK /\ Accounts /\ SlotsBalance /\ MarkerPlaced /\ ClosingOK
      /\ writer = "writing" /\ writer' = "idle" /\ unfinished' = unfinished - 1
      /\ UNCHANGED <<accept, pending, log_closed, shutdown>>
  BY AccountsAre DEF IInv, LogInv, Write, WriteFails
<1>0. Tally
  BY <1>1, AccountsNow
<1>2. \/ metrics' = metrics /\ written' = written + 1
      \/ DropLine /\ written' = written
  BY DEF Write, WriteFails
<1>3. /\ metrics' \in MetricsType /\ written' \in Nat
      /\ metrics'.requests_total = metrics.requests_total
      /\ written' + metrics'.access_log_drops = written + metrics.access_log_drops + 1
      /\ metrics'.access_log_drops \in Nat
  <2>1. CASE metrics' = metrics /\ written' = written + 1
    BY <1>0, <1>1, <2>1 DEF Tally, TypesOK
  <2>2. CASE DropLine /\ written' = written
    BY <1>0, <1>1, <2>2, Counted DEF Tally
  <2> QED BY <1>2, <2>1, <2>2
<1>4. InHand = 1 /\ InHand' = 0 /\ pending' = pending
  BY <1>1 DEF InHand
<1>5. unfinished = Len(pending) + 1
  BY <1>1, <1>4 DEF Accounts
<1>6. unfinished' = Len(pending) /\ Len(pending) \in Nat
  BY <1>1, <1>5 DEF TypesOK
<1>7. TypesOK'
  BY <1>1, <1>3, <1>6 DEF TypesOK, accept, shutdown
<1>8. Cardinality(Reporting') = Cardinality(Reporting) /\ SlotsBalance'
  BY <1>1 DEF Reporting, SlotsBalance, Busy, accept, shutdown
<1>9. Accounts'
  <2>1. metrics'.requests_total
          = written' + metrics'.access_log_drops + Cardinality(LinesOf(pending'))
              + InHand' + Cardinality(Reporting')
    BY <1>0, <1>3, <1>4, <1>8 DEF Tally
  <2>2. unfinished' = Len(pending') + InHand'
    BY <1>4, <1>6
  <2> QED BY <2>1, <2>2, AccountsThen
<1>10. MarkerPlaced' /\ ClosingOK'
  BY <1>1 DEF MarkerPlaced, ClosingOK, Full, accept, shutdown
<1> QED BY <1>7, <1>8, <1>9, <1>10, AccountsAre DEF IInv, LogInv

LEMMA GetHolds ==
  ASSUME IInv, Get
  PROVE  IInv'
<1>1. /\ TypesOK /\ Accounts /\ SlotsBalance /\ MarkerPlaced /\ ClosingOK
      /\ writer = "idle" /\ pending # << >> /\ pending' = Tail(pending)
      /\ UNCHANGED <<accept, metrics, log_closed, written, shutdown>>
      /\ pending \in Seq({LINE, END})
  BY AccountsAre DEF IInv, LogInv, Get, TypesOK
<1>0. Tally
  BY <1>1, AccountsNow
<1>2. /\ pending' \in Seq({LINE, END}) /\ Len(pending') = Len(pending) - 1
      /\ \A i \in DOMAIN pending' : i + 1 \in DOMAIN pending /\ pending'[i] = pending[i + 1]
      /\ Cardinality(LinesOf(pending'))
           = Cardinality(LinesOf(pending)) - (IF Head(pending) = LINE THEN 1 ELSE 0)
  BY <1>1, TakenOut
<1>3. /\ Len(pending) \in Nat \ {0} /\ 1 \in DOMAIN pending /\ Head(pending) = pending[1]
      /\ DOMAIN pending = 1 .. Len(pending) /\ DOMAIN pending' = 1 .. Len(pending) - 1
      /\ Head(pending) \in {LINE, END}
  BY <1>1, <1>2
<1>4. InHand = 0 /\ unfinished = Len(pending)
  BY <1>1, <1>3 DEF Accounts, InHand
<1>5. Cardinality(Reporting') = Cardinality(Reporting) /\ SlotsBalance'
  BY <1>1 DEF Reporting, SlotsBalance, Busy, accept, shutdown
<1>6. Len(pending') <= ACCESS_LOG_QUEUE_SIZE
  BY <1>1, <1>2, <1>3, WorkersAssumption DEF TypesOK
<1>7. CASE Head(pending) = END
  <2>1. writer' = "ended" /\ unfinished' = unfinished - 1
    BY <1>7 DEF Get
  <2>2. Len(pending) = 1 /\ pending' = << >>
    BY <1>1, <1>2, <1>3, <1>7 DEF MarkerPlaced
  <2>3. InHand' = 0 /\ unfinished' = 0 /\ Len(pending') = 0
    BY <1>4, <2>1, <2>2 DEF InHand
  <2>4. TypesOK'
    BY <1>1, <1>2, <1>6, <2>1, <2>3 DEF TypesOK, accept, shutdown
  <2>5. Cardinality(LinesOf(pending')) = Cardinality(LinesOf(pending))
    <3>1. Head(pending) # LINE
      BY <1>7 DEF LINE, END
    <3> QED BY <1>0, <1>2, <3>1 DEF Tally
  <2>6. Accounts'
    <3>1. metrics'.requests_total
            = written' + metrics'.access_log_drops + Cardinality(LinesOf(pending'))
                + InHand' + Cardinality(Reporting')
      <4>1. metrics' = metrics /\ written' = written
        BY <1>1
      <4> QED BY <1>0, <1>4, <1>5, <2>3, <2>5, <4>1 DEF Tally
    <3>2. unfinished' = Len(pending') + InHand'
      BY <2>3
    <3> QED BY <3>1, <3>2, AccountsThen
  <2>7. main' = main /\ main \in After /\ workers' = workers
    BY <1>1, <1>3, <1>7 DEF ClosingOK, accept, shutdown
  <2>8. MarkerPlaced' /\ ClosingOK'
    BY <1>1, <2>1, <2>2, <2>7 DEF MarkerPlaced, ClosingOK, After, Before
  <2> QED BY <1>5, <2>4, <2>6, <2>8, AccountsAre DEF IInv, LogInv
<1>8. CASE Head(pending) = LINE
  <2>1. writer' = "writing" /\ unfinished' = unfinished
    BY <1>8 DEF Get, LINE, END
  <2>2. InHand' = 1
    BY <2>1 DEF InHand
  <2>3. TypesOK'
    BY <1>1, <1>2, <1>6, <2>1 DEF TypesOK, accept, shutdown
  <2>4. Cardinality(LinesOf(pending')) = Cardinality(LinesOf(pending)) - 1
    BY <1>0, <1>2, <1>8 DEF Tally
  <2>5. Accounts'
    <3>1. metrics'.requests_total
            = written' + metrics'.access_log_drops + Cardinality(LinesOf(pending'))
                + InHand' + Cardinality(Reporting')
      <4>1. metrics' = metrics /\ written' = written /\ InHand = 0
        BY <1>1 DEF InHand
      <4> QED BY <1>0, <1>5, <2>2, <2>4, <4>1 DEF Tally
    <3>2. unfinished' = Len(pending') + InHand'
      BY <1>2, <1>3, <1>4, <2>1, <2>2
    <3> QED BY <3>1, <3>2, AccountsThen
  <2>6. main' = main /\ workers' = workers
    BY <1>1 DEF accept, shutdown
  <2>7. MarkerPlaced'
    <3>1. ASSUME NEW i \in DOMAIN pending, pending[i] = END
          PROVE  i - 1 \in DOMAIN pending' /\ pending'[i - 1] = END
      BY <1>2, <1>3, <1>8, <3>1 DEF LINE, END
    <3>2. main' \in {"waiting", "closed", "exited"} => \E i \in DOMAIN pending' : pending'[i] = END
      BY <1>1, <2>6, <3>1 DEF MarkerPlaced
    <3>3. \A i \in DOMAIN pending' : pending'[i] = END => i = Len(pending')
      BY <1>1, <1>2, <1>3 DEF MarkerPlaced
    <3> QED BY <2>1, <3>2, <3>3 DEF MarkerPlaced
  <2>8. ClosingOK'
    <3>1. main' \notin After => writer' # "ended" /\ \A i \in DOMAIN pending' : pending'[i] # END
      BY <1>1, <1>2, <2>1, <2>6 DEF ClosingOK
    <3>2. main' = "again" => Len(pending') < ACCESS_LOG_QUEUE_SIZE
      BY <1>1, <1>2, <1>3, WorkersAssumption DEF TypesOK
    <3>3. main' \notin Before => \A c \in Connections : workers'[c] = "none"
      BY <1>1, <2>6 DEF ClosingOK
    <3>4. Len(pending') \in Nat
      BY <1>2, <1>3
    <3> QED BY <3>1, <3>2, <3>3, <3>4, WorkersAssumption DEF ClosingOK, Full
  <2> QED BY <1>5, <2>3, <2>5, <2>7, <2>8, AccountsAre DEF IInv, LogInv
<1> QED BY <1>3, <1>7, <1>8

-----------------------------------------------------------------------------
(* Closing. *)

\* A step of the main thread that leaves the queue and the workers alone.
LEMMA MainMoves ==
  ASSUME IInv, UNCHANGED <<accept, metrics, pending, unfinished, writer, written>>,
         main' \in Before \cup Closing \cup After, main' # "serving",
         main \in After <=> main' \in After,
         main' \notin Before => \A c \in Connections : workers[c] = "none",
         main' = "again" => ~Full
  PROVE  IInv'
<1>1. TypesOK /\ Accounts /\ MarkerPlaced /\ ClosingOK
  BY AccountsAre DEF IInv, LogInv
<1>2. TypesOK' /\ SlotsBalance'
  BY <1>1 DEF TypesOK, SlotsBalance, accept
<1>3. Accounts'
  BY <1>1 DEF Accounts, LinesOf, Reporting, InHand, accept
<1>4. MarkerPlaced'
  BY <1>1 DEF MarkerPlaced, After
<1>5. ClosingOK'
  BY <1>1 DEF ClosingOK, Full, accept
<1> QED BY <1>2, <1>3, <1>4, <1>5, AccountsAre DEF IInv, LogInv

LEMMA CloseMovesHold ==
  ASSUME IInv, Shutdown \/ JoinWorkers \/ JoinWriter \/ StopMonitor
  PROVE  IInv'
<1>1. ClosingOK
  BY DEF IInv
<1>2. CASE Shutdown
  BY <1>2, MainMoves DEF Shutdown, Accepting, log, Before, After
<1>3. CASE JoinWorkers
  BY <1>3, MainMoves DEF JoinWorkers, accept, Before, Closing, After
<1>4. CASE JoinWriter
  BY <1>1, <1>4, MainMoves DEF JoinWriter, ClosingOK, log, Before, After
<1>5. CASE StopMonitor
  BY <1>1, <1>5, MainMoves DEF StopMonitor, ClosingOK, log, Before, After
<1> QED BY <1>2, <1>3, <1>4, <1>5

\* The marker goes in at the end, where no line can follow it.
LEMMA PutEndHolds ==
  ASSUME IInv, \/ PutEnd("marking", "full")
               \/ PutEnd("again", "closed")
  PROVE  IInv'
<1>1. /\ TypesOK /\ Accounts /\ MarkerPlaced /\ ClosingOK
      /\ main \in {"marking", "again"}
      /\ main = "again" => ~Full
      /\ UNCHANGED <<accept, metrics, log_closed, writer, written, raised, monitor>>
      /\ pending \in Seq({LINE, END})
  BY AccountsAre DEF IInv, LogInv, PutEnd, TypesOK, ClosingOK
<1>2. /\ writer # "ended" /\ \A i \in DOMAIN pending : pending[i] # END
      /\ \A c \in Connections : workers[c] = "none"
  BY <1>1 DEF ClosingOK, After, Before
<1>3. CASE Full
  <2>1. main' = "full" /\ UNCHANGED <<pending, unfinished>>
    BY <1>1, <1>3 DEF PutEnd
  <2> QED BY <1>1, <1>2, <2>1, MainMoves DEF Before, Closing, After
<1>4. CASE ~Full
  <2>1. /\ main' = "waiting" /\ pending' = Append(pending, END) /\ unfinished' = unfinished + 1
    BY <1>4 DEF PutEnd
  <2>0. Tally
    BY <1>1, AccountsNow
  <2>2. /\ pending' \in Seq({LINE, END}) /\ Len(pending') = Len(pending) + 1
        /\ Cardinality(LinesOf(pending')) = Cardinality(LinesOf(pending))
    BY <1>1, <2>1, AppendedEnd
  <2>3. /\ Len(pending) \in Nat /\ DOMAIN pending = 1 .. Len(pending)
        /\ DOMAIN pending' = 1 .. Len(pending) + 1 /\ pending'[Len(pending) + 1] = END
        /\ \A i \in DOMAIN pending : pending'[i] = pending[i]
    BY <1>1, <2>1, <2>2
  <2>4. Len(pending') <= ACCESS_LOG_QUEUE_SIZE
    BY <1>4, <2>2, <2>3, WorkersAssumption DEF Full
  <2>5. TypesOK' /\ SlotsBalance'
    BY <1>1, <2>1, <2>2, <2>4 DEF TypesOK, SlotsBalance, accept, After
  <2>6. Cardinality(Reporting') = Cardinality(Reporting) /\ InHand' = InHand /\ InHand \in Nat
    BY <1>1 DEF Reporting, InHand, accept
  <2>7. Accounts'
    <3>1. metrics'.requests_total
            = written' + metrics'.access_log_drops + Cardinality(LinesOf(pending'))
                + InHand' + Cardinality(Reporting')
      <4>1. metrics' = metrics /\ written' = written
        BY <1>1
      <4>2. Cardinality(LinesOf(pending')) = Cardinality(LinesOf(pending))
        BY <2>2
      <4> QED BY <2>0, <2>6, <4>1, <4>2 DEF Tally
    <3>2. unfinished' = Len(pending') + InHand'
      BY <1>1, <2>1, <2>2, <2>3, <2>6 DEF Accounts
    <3> QED BY <3>1, <3>2, AccountsThen
  <2>8. MarkerPlaced'
    BY <1>1, <1>2, <2>2, <2>3 DEF MarkerPlaced
  <2>9. ClosingOK'
    BY <1>1, <1>2, <2>1 DEF ClosingOK, After, accept
  <2> QED BY <2>5, <2>7, <2>8, <2>9, AccountsAre DEF IInv, LogInv
<1> QED BY <1>3, <1>4

LEMMA MakeRoomHolds ==
  ASSUME IInv, MakeRoom
  PROVE  IInv'
<1>1. /\ TypesOK /\ Accounts /\ MarkerPlaced /\ ClosingOK
      /\ main = "full" /\ main' = "again"
      /\ UNCHANGED <<accept, log_closed, writer, written, raised, monitor>>
      /\ pending \in Seq({LINE, END})
  BY AccountsAre DEF IInv, LogInv, MakeRoom, TypesOK
<1>2. /\ writer # "ended" /\ \A i \in DOMAIN pending : pending[i] # END
      /\ \A c \in Connections : workers[c] = "none"
  BY <1>1 DEF ClosingOK, After, Before
<1>3. CASE pending = << >>
  <2>1. ~Full
    BY <1>3, WorkersAssumption DEF Full
  <2>2. UNCHANGED <<pending, unfinished, metrics>>
    BY <1>3 DEF MakeRoom
  <2> QED BY <1>1, <1>2, <2>1, <2>2, MainMoves DEF Before, Closing, After
<1>4. CASE pending # << >>
  <2>0. Tally
    BY <1>1, AccountsNow
  <2>1. pending' = Tail(pending) /\ unfinished' = unfinished - 1 /\ DropLine
    BY <1>4 DEF MakeRoom
  <2>2. /\ pending' \in Seq({LINE, END}) /\ Len(pending') = Len(pending) - 1
        /\ \A i \in DOMAIN pending' : i + 1 \in DOMAIN pending /\ pending'[i] = pending[i + 1]
        /\ Cardinality(LinesOf(pending'))
             = Cardinality(LinesOf(pending)) - (IF Head(pending) = LINE THEN 1 ELSE 0)
    BY <1>1, <1>4, <2>1, TakenOut
  <2>3. /\ Len(pending) \in Nat \ {0} /\ 1 \in DOMAIN pending /\ Head(pending) = pending[1]
        /\ pending[1] \in {LINE, END}
    BY <1>1, <1>4
  <2>4. Cardinality(LinesOf(pending')) = Cardinality(LinesOf(pending)) - 1
    <3>1. Head(pending) = LINE
      BY <1>2, <2>3
    <3> QED BY <2>0, <2>2, <3>1 DEF Tally
  <2>5. Len(pending') < ACCESS_LOG_QUEUE_SIZE /\ Len(pending') \in Nat
    BY <1>1, <2>2, <2>3, WorkersAssumption DEF TypesOK
  <2>6. InHand' = InHand /\ InHand \in Nat /\ Cardinality(Reporting') = Cardinality(Reporting)
    BY <1>1 DEF InHand, Reporting, accept
  <2>7. unfinished' = Len(pending') + InHand' /\ unfinished' \in Nat
    BY <1>1, <2>1, <2>2, <2>3, <2>6 DEF Accounts
  <2>8. TypesOK' /\ SlotsBalance'
    <3>1. metrics' \in MetricsType
      BY <1>1, <2>1, Counted
    <3> QED BY <1>1, <2>2, <2>5, <2>7, <3>1, WorkersAssumption
            DEF TypesOK, SlotsBalance, accept, Closing
  <2>9. Accounts'
    <3>1. /\ metrics'.requests_total = metrics.requests_total
          /\ metrics'.access_log_drops = metrics.access_log_drops + 1 /\ written' = written
      BY <1>1, <2>1, Counted
    <3>2. metrics'.requests_total
            = written' + metrics'.access_log_drops + Cardinality(LinesOf(pending'))
                + InHand' + Cardinality(Reporting')
      BY <2>0, <2>4, <2>6, <3>1 DEF Tally
    <3> QED BY <2>7, <3>2, AccountsThen
  <2>10. \A i \in DOMAIN pending' : pending'[i] # END
    BY <1>2, <2>2
  <2>11. MarkerPlaced'
    BY <1>1, <1>2, <2>10 DEF MarkerPlaced
  <2>12. ClosingOK'
    BY <1>1, <1>2, <2>5, <2>10, WorkersAssumption DEF ClosingOK, Full, accept
  <2> QED BY <2>8, <2>9, <2>11, <2>12, AccountsAre DEF IInv, LogInv
<1> QED BY <1>3, <1>4

-----------------------------------------------------------------------------
LEMMA NextHolds == IInv /\ [Next]_vars => IInv'
<1> SUFFICES ASSUME IInv, [Next]_vars PROVE IInv'
  OBVIOUS
<1>1. ASSUME NEW c \in Connections,
             \/ Accept(c) \/ StartWorker(c) \/ StartFails(c) \/ InterruptedStart(c)
             \/ WorkerStep(c)
      PROVE  IInv'
  BY <1>1, AcceptHolds, StartHolds, RespondHolds, NoResponseHolds, CheckLogHolds,
     EnqueueHolds, FinishHolds DEF WorkerStep
<1>2. CASE Reject
  BY <1>2, RejectHolds
<1>3. CASE WriterStep
  BY <1>3, GetHolds, LineDoneHolds DEF WriterStep
<1>4. CASE Shutdown \/ CloseStep
  BY <1>4, CloseMovesHold, PutEndHolds, MakeRoomHolds DEF CloseStep
<1>5. CASE UNCHANGED vars
  BY <1>5 DEF vars, accept, log, shutdown, IInv, TypesOK, SlotsBalance, Busy, LogInv,
     LinesAccounted, LinesQueued, InHand, MarkerPlaced, ClosingOK, Full
<1> QED BY <1>1, <1>2, <1>3, <1>4, <1>5 DEF Next, Exited

LEMMA Invariant == Spec => []IInv
  BY InitHolds, NextHolds, PTL DEF Spec

\* Whatever fails between taking a slot in process_request and giving it back in
\* the worker, every slot is free or held while the server accepts.
THEOREM SlotsBalanceHolds == Spec => []SlotsBalance
<1>1. IInv => SlotsBalance
  BY DEF IInv
<1> QED BY <1>1, Invariant, PTL

\* Every response has its access-log line written, counted as dropped or on its
\* way, and _close_access_log always places its marker behind the last line.
THEOREM LogHolds == Spec => []LogInv
<1>1. IInv => LogInv
  BY DEF IInv
<1> QED BY <1>1, Invariant, PTL
=============================================================================
