--------------------------- MODULE LabStateProofs ---------------------------
(***************************************************************************)
(* Theorems about the handlers of LabState, for every value of the         *)
(* constants.  The lemmas of the first part say what each operator of      *)
(* LabLedger does to the types and to the ledger invariants of the task    *)
(* dictionary T and the node dictionary N.  LedgerInv, in the second part, *)
(* is the inductive invariant of nodes, tasks and tombstones; the safety   *)
(* invariants of the ledger follow from it.  TypeInv adds the types of the *)
(* exercises and of the replay records.  The third part sums each handler  *)
(* up by what it may do to the task table, and derives from that what      *)
(* pruning, keys, limits and pauses guarantee, that an acknowledged result *)
(* stays acknowledged, and the refinement of TaskLifecycle.                *)
(***************************************************************************)
EXTENDS LabState, TLAPS, FiniteSetTheorems, SequenceTheorems, WellFoundedInduction

(* The parts of the inductive invariant, on a pair of dictionaries. *)

TaskDict(T) ==
  /\ T \in [DOMAIN T -> TaskType]
  /\ DOMAIN T \subseteq Nat /\ IsFiniteSet(DOMAIN T)

NodeDict(N) == N \in [DOMAIN N -> NodeType] /\ DOMAIN N \subseteq Nat

(* No node has two tasks in flight. *)
FlightOK(T) ==
  \A i, j \in DOMAIN T :
    /\ T[i].status = "dispatched" /\ T[j].status = "dispatched"
    /\ T[i].node = T[j].node
    => i = j

(* Dispatch in queue order; a dispatched task was delivered. *)
OrderOK(T) ==
  /\ \A i, j \in DOMAIN T :
       i < j /\ T[i].node = T[j].node /\ T[j].delivery_attempts > 0
         => T[i].status # "queued"
  /\ \A i \in DOMAIN T : T[i].status = "dispatched" => T[i].delivery_attempts > 0

(* Only a result reported by a node is marked as accepted. *)
AcceptOK(T) ==
  \A i \in DOMAIN T : T[i].accepted => T[i].status \in {"completed", "failed"}

(* A SLEEP task carries an interval that a node may be given. *)
SleepOK(T) ==
  \A i \in DOMAIN T : T[i].type = "SLEEP" => T[i].interval \in PollIntervals

(* Live work has an open session. *)
OwnedOK(N, T) == \A i \in DOMAIN T : Live(T[i]) => Authentic(N, T[i].node)

TasksOK(T) == FlightOK(T) /\ OrderOK(T) /\ AcceptOK(T) /\ SleepOK(T)

LedgerOK(N, T) == TasksOK(T) /\ OwnedOK(N, T)

(* What no handler changes of a task once it is queued. *)
SameTask(t, u) ==
  /\ u.node = t.node /\ u.type = t.type /\ u.playbook = t.playbook
  /\ u.interval = t.interval /\ u.key = t.key /\ u.exercise = t.exercise

(* The outcomes the Teamserver itself may give a task at this stage. *)
CalledOff(old, new) ==
  \/ old = "queued" /\ new \in {"cancelled", "expired", "failed"}
  \/ old = "dispatched" /\ new \in {"failed", "timeout"}

(* U is T with some live tasks settled. *)
SettledFrom(t, u) ==
  /\ Live(t) /\ Terminal(u) /\ SameTask(t, u)
  /\ CalledOff(t.status, u.status)
  /\ u.accepted = t.accepted /\ u.delivery_attempts = t.delivery_attempts
  /\ u.result.body \in ServerResults

Settles(T, U) ==
  /\ U \in [DOMAIN T -> TaskType]
  /\ \A i \in DOMAIN T : U[i] = T[i] \/ SettledFrom(T[i], U[i])

-----------------------------------------------------------------------------
(* A nonempty set of ids has a least element (oldest task, oldest node). *)
LEMMA LeastInSet ==
  ASSUME NEW S \in SUBSET Nat, S # {}
  PROVE  Least(S) \in S /\ \A j \in S : Least(S) <= j
<1>1. IsWellFoundedOn(OpToRel(<, Nat), Nat)
  BY NatLessThanWellFounded
<1>2. \E x \in S : \A y \in S : ~(<<y, x>> \in OpToRel(<, Nat))
  BY <1>1, WFMin
<1>3. PICK x \in S : \A y \in S : ~(<<y, x>> \in OpToRel(<, Nat))
  BY <1>2
<1>4. \A y \in S : x <= y
  <2>1. SUFFICES ASSUME NEW y \in S, ~(x <= y) PROVE FALSE
    OBVIOUS
  <2>2. y < x /\ x \in Nat /\ y \in Nat
    BY <2>1
  <2>3. <<y, x>> \in OpToRel(<, Nat)
    BY <2>2 DEF OpToRel
  <2>4. QED  BY <1>3, <2>3
<1>5. QED  BY <1>3, <1>4 DEF Least

(* Settling a live task keeps its type, owner and history. *)
LEMMA SettledTask ==
  ASSUME NEW t \in TaskType, NEW s \in TERMINAL_TASK_STATUSES, NEW b \in ServerResults
  PROVE  /\ Settled(t, s, b) \in TaskType
         /\ CalledOff(t.status, s) => SettledFrom(t, Settled(t, s, b))
<1>a. [body |-> b, interval |-> 0] \in Results
  BY DEF Results
<1>b. PICK r \in Results : r = [body |-> b, interval |-> 0]
  BY <1>a
<1>1. PICK z \in Int : z = 0
  OBVIOUS
<1>2. Settled(t, s, b) \in TaskType
  <2>1. [t EXCEPT !.status = s, !.timer = z, !.result = r] \in TaskType
    BY DEF TaskType
  <2>2. QED  BY <1>1, <1>b, <2>1 DEF Settled
<1>3. /\ Settled(t, s, b).status = s
      /\ SameTask(t, Settled(t, s, b))
      /\ Settled(t, s, b).delivery_attempts = t.delivery_attempts
      /\ Settled(t, s, b).result.body = b
  BY DEF TaskType, Settled, SameTask
<1>4. Settled(t, s, b).accepted = t.accepted
  BY Zenon DEF TaskType, Settled
<1>5. CalledOff(t.status, s) => Live(t)
  BY DEF CalledOff, Live, LIVE_TASK_STATUSES
<1>6. QED  BY <1>2, <1>3, <1>4, <1>5 DEF SettledFrom, Terminal

(* Settling tasks twice, as _expire_locked does (its own loops, then
   _fail_unfinished), settles them once. *)
LEMMA SettlesTransitive ==
  ASSUME NEW T, NEW U, NEW V, Settles(T, U), Settles(U, V)
  PROVE  Settles(T, V)
<1>1. DOMAIN U = DOMAIN T
  BY DEF Settles
<1>2. ASSUME NEW i \in DOMAIN T
      PROVE  V[i] = T[i] \/ SettledFrom(T[i], V[i])
  <2>1. U[i] = T[i] \/ SettledFrom(T[i], U[i])
    BY DEF Settles
  <2>2. V[i] = U[i] \/ SettledFrom(U[i], V[i])
    BY <1>1 DEF Settles
  <2>3. ~(SettledFrom(T[i], U[i]) /\ SettledFrom(U[i], V[i]))
    BY DEF SettledFrom, Live, Terminal, LIVE_TASK_STATUSES, TERMINAL_TASK_STATUSES
  <2>4. CASE U[i] = T[i]
    BY <2>2, <2>4
  <2>5. CASE SettledFrom(T[i], U[i])
    BY <2>2, <2>3, <2>5
  <2>6. QED  BY <2>1, <2>4, <2>5
<1>3. QED  BY <1>1, <1>2 DEF Settles

(* _expire_locked settles tasks and does nothing else to them. *)
LEMMA ExpireTasksSettles ==
  ASSUME NEW T, TaskDict(T), NEW lag \in Lags
  PROVE  Settles(T, ExpireTasks(T, lag))
<1>1. ASSUME NEW i \in DOMAIN T
      PROVE  /\ ExpireTask(T[i], lag) \in TaskType
             /\ ExpireTask(T[i], lag) = T[i] \/ SettledFrom(T[i], ExpireTask(T[i], lag))
  <2>1. T[i] \in TaskType
    BY DEF TaskDict
  <2>2. CASE QueueExpired(T[i], lag)
    <3>1. CalledOff(T[i].status, "expired")
      BY <2>2 DEF QueueExpired, CalledOff
    <3>2. "expired" \in TERMINAL_TASK_STATUSES /\ "queue_ttl_exceeded" \in ServerResults
      BY DEF TERMINAL_TASK_STATUSES, ServerResults
    <3>3. ExpireTask(T[i], lag) = Settled(T[i], "expired", "queue_ttl_exceeded")
      BY <2>2 DEF ExpireTask
    <3>4. QED  BY <2>1, <3>1, <3>2, <3>3, SettledTask
  <2>3. CASE ~QueueExpired(T[i], lag) /\ DeadlinePassed(T[i], lag)
    <3>1. CalledOff(T[i].status, "timeout")
      BY <2>3 DEF DeadlinePassed, CalledOff
    <3>2. "timeout" \in TERMINAL_TASK_STATUSES /\ "deadline_exceeded" \in ServerResults
      BY DEF TERMINAL_TASK_STATUSES, ServerResults
    <3>3. ExpireTask(T[i], lag) = Settled(T[i], "timeout", "deadline_exceeded")
      BY <2>3 DEF ExpireTask
    <3>4. QED  BY <2>1, <3>1, <3>2, <3>3, SettledTask
  <2>4. CASE ~QueueExpired(T[i], lag) /\ ~DeadlinePassed(T[i], lag)
    BY <2>1, <2>4 DEF ExpireTask
  <2>5. QED  BY <2>2, <2>3, <2>4
<1>2. QED  BY <1>1 DEF ExpireTasks, Settles

(* _fail_unfinished_tasks_locked settles the work of the closed sessions. *)
LEMMA FailUnfinishedSettles ==
  ASSUME NEW T, TaskDict(T), NEW closed, NEW b \in ServerResults
  PROVE  /\ Settles(T, FailUnfinished(T, closed, b))
         /\ \A i \in DOMAIN T :
              Live(FailUnfinished(T, closed, b)[i]) => T[i].node \notin closed
<1>1. ASSUME NEW i \in DOMAIN T, T[i].node \in closed, Live(T[i])
      PROVE  /\ Settled(T[i], "failed", b) \in TaskType
             /\ SettledFrom(T[i], Settled(T[i], "failed", b))
             /\ ~Live(Settled(T[i], "failed", b))
  <2>1. T[i] \in TaskType
    BY DEF TaskDict
  <2>2. "failed" \in TERMINAL_TASK_STATUSES
    BY DEF TERMINAL_TASK_STATUSES
  <2>3. Settled(T[i], "failed", b).status = "failed"
    BY <2>1 DEF Settled, TaskType
  <2>4. CalledOff(T[i].status, "failed")
    BY <1>1 DEF CalledOff, Live, LIVE_TASK_STATUSES
  <2>5. QED  BY <2>1, <2>2, <2>3, <2>4, SettledTask DEF Live, LIVE_TASK_STATUSES
<1>2. QED  BY <1>1 DEF FailUnfinished, Settles, TaskDict

(* Settling a task leaves the task dictionary well typed, with the same ids. *)
LEMMA SettlesKeepsTaskDict ==
  ASSUME NEW T, NEW U, TaskDict(T), Settles(T, U)
  PROVE  TaskDict(U) /\ DOMAIN U = DOMAIN T
BY DEF TaskDict, Settles

(* Settling tasks cannot put a second task in flight, overtake the queue or
   mark a result as accepted. *)
LEMMA SettlesKeepsOrder ==
  ASSUME NEW T, NEW U, TaskDict(T), Settles(T, U),
         TasksOK(T)
  PROVE  TasksOK(U)
<1>1. DOMAIN U = DOMAIN T
  BY DEF Settles
<1>2. ASSUME NEW i \in DOMAIN T
      PROVE  /\ U[i].node = T[i].node
             /\ U[i].delivery_attempts = T[i].delivery_attempts
             /\ U[i].status = "queued" => T[i].status = "queued"
             /\ U[i].status = "dispatched" => T[i].status = "dispatched"
             /\ U[i].type = T[i].type /\ U[i].interval = T[i].interval
  BY DEF Settles, SettledFrom, SameTask, Terminal, TERMINAL_TASK_STATUSES
<1>3. FlightOK(U)
  BY <1>1, <1>2 DEF FlightOK, TasksOK
<1>4. OrderOK(U)
  BY <1>1, <1>2 DEF OrderOK, TasksOK
<1>5. ASSUME NEW i \in DOMAIN T, U[i].accepted
      PROVE  U[i].status \in {"completed", "failed"}
  <2>1. CASE U[i] = T[i]
    BY <1>5, <2>1 DEF AcceptOK, TasksOK
  <2>2. CASE SettledFrom(T[i], U[i])
    <3>1. T[i].accepted /\ Live(T[i])
      BY <1>5, <2>2 DEF SettledFrom
    <3>2. T[i].status \in {"completed", "failed"}
      BY <3>1 DEF AcceptOK, TasksOK
    <3>3. QED  BY <3>1, <3>2 DEF Live, LIVE_TASK_STATUSES
  <2>3. QED  BY <2>1, <2>2 DEF Settles
<1>6. SleepOK(U)
  BY <1>1, <1>2 DEF SleepOK, TasksOK
<1>7. QED  BY <1>1, <1>3, <1>4, <1>5, <1>6 DEF AcceptOK, TasksOK

-----------------------------------------------------------------------------
(* Node records. *)

LEMMA CloseSessionType ==
  ASSUME NEW node \in NodeType, NEW k \in Nat
  PROVE  /\ CloseSession(node, k) \in NodeType
         /\ ~CloseSession(node, k).session_active
<1>1. PICK s \in {"online", "offline"}, a \in BOOLEAN : s = "offline" /\ a = FALSE
  OBVIOUS
<1>2. PICK f \in Nat : f = node.tasks_failed + k
  BY DEF NodeType
<1>3. CloseSession(node, k) =
        [node EXCEPT !.status = s, !.session_active = a, !.tasks_failed = f]
  BY <1>1, <1>2 DEF CloseSession
<1>4. [node EXCEPT !.status = s, !.session_active = a, !.tasks_failed = f] \in NodeType
  BY DEF NodeType
<1>5. CloseSession(node, k).session_active = FALSE
  BY DEF CloseSession, NodeType
<1>6. QED  BY <1>3, <1>4, <1>5

(* Expiry closes exactly the sessions of ClosingNodes. *)
LEMMA ExpireNodeType ==
  ASSUME NEW node \in NodeType, NEW lag \in Lags, NEW k \in Nat, NEW m \in Nat
  PROVE  /\ ExpireNode(node, lag, k, m) \in NodeType
         /\ ~SessionExpires(node, lag) =>
              ExpireNode(node, lag, k, m).session_active = node.session_active
<1>1. CASE SessionExpires(node, lag)
  BY <1>1, CloseSessionType DEF ExpireNode
<1>2. CASE ~SessionExpires(node, lag)
  <2>1. PICK s \in {"online", "offline"} :
          s = IF GoesStale(node, lag) THEN "offline" ELSE node.status
    BY DEF NodeType
  <2>2. PICK f \in Nat : f = node.tasks_failed + k
    BY DEF NodeType
  <2>3. ExpireNode(node, lag, k, m) = [node EXCEPT !.status = s, !.tasks_failed = f]
    BY <1>2, <2>1, <2>2 DEF ExpireNode
  <2>4. [node EXCEPT !.status = s, !.tasks_failed = f].session_active = node.session_active
    BY DEF NodeType
  <2>5. [node EXCEPT !.status = s, !.tasks_failed = f] \in NodeType
    BY DEF NodeType
  <2>6. QED  BY <2>3, <2>4, <2>5
<1>3. QED  BY <1>1, <1>2

(* _expire_locked keeps every node record typed and closes only the sessions
   whose grace period is over. *)
LEMMA ExpiredNodesType ==
  ASSUME NEW N, NEW T, NodeDict(N), TaskDict(T), NEW lag \in Lags
  PROVE  /\ NodeDict(ExpiredNodes(N, T, lag))
         /\ DOMAIN ExpiredNodes(N, T, lag) = DOMAIN N
         /\ \A n \in DOMAIN N : n \notin ClosingNodes(N, lag) =>
              ExpiredNodes(N, T, lag)[n].session_active = N[n].session_active
<1>1. ASSUME NEW n \in DOMAIN N
      PROVE  /\ Cardinality(TimeoutsOf(T, n, lag)) \in Nat
             /\ Cardinality(UnfinishedOf(ExpireTasks(T, lag), n)) \in Nat
  <2>1. DOMAIN ExpireTasks(T, lag) = DOMAIN T
    BY DEF ExpireTasks
  <2>2. TimeoutsOf(T, n, lag) \in SUBSET DOMAIN T
    BY DEF TimeoutsOf
  <2>3. UnfinishedOf(ExpireTasks(T, lag), n) \in SUBSET DOMAIN T
    BY <2>1 DEF UnfinishedOf
  <2>4. IsFiniteSet(DOMAIN T)
    BY DEF TaskDict
  <2>5. QED  BY <2>2, <2>3, <2>4, FS_Subset, FS_CardinalityType
<1>2. ASSUME NEW n \in DOMAIN N
      PROVE  /\ ExpiredNodes(N, T, lag)[n] \in NodeType
             /\ ~SessionExpires(N[n], lag) =>
                  ExpiredNodes(N, T, lag)[n].session_active = N[n].session_active
  <2>1. N[n] \in NodeType
    BY DEF NodeDict
  <2>2. QED  BY <1>1, <2>1, ExpireNodeType DEF ExpiredNodes
<1>3. QED  BY <1>2 DEF ExpiredNodes, NodeDict, ClosingNodes

-----------------------------------------------------------------------------
(* _expire_locked as a whole: it settles tasks, and the sessions it closes
   have no live task left. *)
LEMMA ExpiryKeepsLedger ==
  ASSUME NEW N, NEW T, NodeDict(N), TaskDict(T), LedgerOK(N, T), NEW lag \in Lags
  PROVE  /\ TaskDict(ExpiredTasks(N, T, lag))
         /\ Settles(T, ExpiredTasks(N, T, lag))
         /\ LedgerOK(ExpiredNodes(N, T, lag), ExpiredTasks(N, T, lag))
<1> DEFINE T1 == ExpireTasks(T, lag)
           closing == ClosingNodes(N, lag)
           T2 == FailUnfinished(T1, closing, "session_expired")
           N2 == ExpiredNodes(N, T, lag)
<1>1. Settles(T, T1) /\ TaskDict(T1) /\ DOMAIN T1 = DOMAIN T
  BY ExpireTasksSettles, SettlesKeepsTaskDict
<1>2. "session_expired" \in ServerResults
  BY DEF ServerResults
<1> HIDE DEF T1
<1>3. /\ Settles(T1, T2)
      /\ \A i \in DOMAIN T1 : Live(T2[i]) => T1[i].node \notin closing
  BY <1>1, <1>2, FailUnfinishedSettles
<1>4. Settles(T, T2)
  BY <1>1, <1>3, SettlesTransitive
<1>5. T2 = ExpiredTasks(N, T, lag)
  BY DEF ExpiredTasks, T1
<1> HIDE DEF T2
<1>6. TaskDict(T2) /\ DOMAIN T2 = DOMAIN T
  BY <1>4, SettlesKeepsTaskDict
<1>7. TasksOK(T2)
  BY <1>4, SettlesKeepsOrder DEF LedgerOK
<1>8. ASSUME NEW i \in DOMAIN T2, Live(T2[i])
      PROVE  Authentic(N2, T2[i].node)
  <2>1. T2[i] = T1[i] /\ T1[i] = T[i]
    BY <1>1, <1>3, <1>6, <1>8
       DEF Settles, SettledFrom, Live, Terminal, LIVE_TASK_STATUSES, TERMINAL_TASK_STATUSES
  <2>2. T[i].node \notin closing
    BY <1>1, <1>3, <1>6, <1>8, <2>1
  <2>3. Authentic(N, T[i].node)
    BY <1>6, <1>8, <2>1 DEF LedgerOK, OwnedOK
  <2>4. QED  BY <2>1, <2>2, <2>3, ExpiredNodesType DEF Authentic
<1>9. QED  BY <1>4, <1>5, <1>6, <1>7, <1>8 DEF LedgerOK, OwnedOK

(* The task dictionary seen by the first refresh of an expiry is well typed. *)
LEMMA FirstExpiredTaskDict ==
  ASSUME NEW N, NEW T, TaskDict(T), NEW lag \in Lags
  PROVE  TaskDict(FirstExpiredTasks(N, T, lag))
<1>1. TaskDict(ExpireTasks(T, lag))
  BY ExpireTasksSettles, SettlesKeepsTaskDict
<1>2. "session_expired" \in ServerResults
  BY DEF ServerResults
<1>3. QED
  BY <1>1, <1>2, FailUnfinishedSettles, SettlesKeepsTaskDict DEF FirstExpiredTasks

-----------------------------------------------------------------------------
(* poll_node *)

LEMMA RedeliveredType ==
  ASSUME NEW t \in TaskType, t.delivery_attempts > 0
  PROVE  /\ Redelivered(t) \in TaskType
         /\ Redelivered(t).node = t.node
         /\ Redelivered(t).status = t.status
         /\ Redelivered(t).accepted = t.accepted
         /\ Redelivered(t).delivery_attempts > 0
         /\ SameTask(t, Redelivered(t)) /\ Redelivered(t).result = t.result
<1>a. t.delivery_attempts \in Nat /\ AttemptCap \in Nat
  BY LimitsAssumption DEF TaskType
<1>b. PICK b \in Nat : b = t.delivery_attempts + 1 /\ b > 0
  BY <1>a
<1>1. PICK a \in Nat :
        /\ a = IF t.delivery_attempts < AttemptCap
               THEN t.delivery_attempts + 1 ELSE t.delivery_attempts
        /\ a > 0
  BY <1>a, <1>b
<1>2. Redelivered(t) = [t EXCEPT !.delivery_attempts = a]
  BY <1>1 DEF Redelivered
<1>3. [t EXCEPT !.delivery_attempts = a] \in TaskType
  BY DEF TaskType
<1>4. [t EXCEPT !.delivery_attempts = a].accepted = t.accepted
  BY Zenon DEF TaskType
<1>5. /\ [t EXCEPT !.delivery_attempts = a].node = t.node
      /\ [t EXCEPT !.delivery_attempts = a].status = t.status
      /\ [t EXCEPT !.delivery_attempts = a].delivery_attempts = a
      /\ SameTask(t, [t EXCEPT !.delivery_attempts = a])
      /\ [t EXCEPT !.delivery_attempts = a].result = t.result
  BY DEF TaskType, SameTask
<1>6. QED  BY <1>1, <1>2, <1>3, <1>4, <1>5

(* The dispatch branch of poll_node starts the first delivery of the task and
   keeps its node and request. *)
LEMMA DispatchedType ==
  ASSUME NEW t \in TaskType, NEW lag \in Lags
  PROVE  /\ Dispatched(t, lag) \in TaskType
         /\ Dispatched(t, lag).node = t.node
         /\ Dispatched(t, lag).status = "dispatched"
         /\ Dispatched(t, lag).accepted = t.accepted
         /\ Dispatched(t, lag).delivery_attempts = 1
         /\ SameTask(t, Dispatched(t, lag)) /\ Dispatched(t, lag).result = t.result
<1>1. PICK z \in Int : z = TASK_TIMEOUT_SECONDS - lag
  BY TimeAssumption DEF Lags
<1>2. PICK s \in LIVE_TASK_STATUSES, a \in Nat : s = "dispatched" /\ a = 1
  BY DEF LIVE_TASK_STATUSES
<1> DEFINE u == [t EXCEPT !.status = s, !.delivery_attempts = a, !.timer = z]
<1>3. Dispatched(t, lag) = u
  BY <1>1, <1>2 DEF Dispatched
<1>4. u \in TaskType
  BY DEF TaskType
<1>5. u.accepted = t.accepted
  BY Zenon DEF TaskType
<1>6. /\ u.node = t.node /\ u.status = s /\ u.delivery_attempts = a
      /\ SameTask(t, u) /\ u.result = t.result
  BY DEF TaskType, SameTask
<1>7. QED  BY <1>2, <1>3, <1>4, <1>5, <1>6

(* What a poll delivers: the task in flight again, or else the oldest queued
   one, and nothing that was not already live. *)
LEMMA DeliveredKeepsTasks ==
  ASSUME NEW T, TaskDict(T), TasksOK(T), NEW n, NEW paused \in BOOLEAN, NEW lag \in Lags
  PROVE  /\ TaskDict(DeliveredTasks(T, n, paused, lag))
         /\ TasksOK(DeliveredTasks(T, n, paused, lag))
         /\ DOMAIN DeliveredTasks(T, n, paused, lag) = DOMAIN T
         /\ \A i \in DOMAIN T :
              /\ DeliveredTasks(T, n, paused, lag)[i].node = T[i].node
              /\ Live(DeliveredTasks(T, n, paused, lag)[i]) => Live(T[i])
              /\ DeliveredTasks(T, n, paused, lag)[i] = T[i] \/ Live(T[i])
<1> DEFINE U == DeliveredTasks(T, n, paused, lag)
<1>1. CASE paused
  BY <1>1 DEF DeliveredTasks
<1>2. CASE ~paused /\ DispatchedOf(T, n) # {}
  <2> DEFINE a == Least(DispatchedOf(T, n))
             u == Redelivered(T[a])
  <2>1. DispatchedOf(T, n) \in SUBSET Nat
    BY DEF DispatchedOf, TaskDict
  <2>2. a \in DispatchedOf(T, n)
    BY <1>2, <2>1, LeastInSet
  <2> HIDE DEF a
  <2>3. a \in DOMAIN T /\ T[a].status = "dispatched" /\ T[a] \in TaskType
    BY <2>2 DEF DispatchedOf, TaskDict
  <2>4. T[a].delivery_attempts > 0
    BY <2>3 DEF TasksOK, OrderOK
  <2>5. /\ u \in TaskType /\ u.node = T[a].node /\ u.status = "dispatched"
        /\ u.accepted = T[a].accepted /\ u.delivery_attempts > 0
        /\ u.type = T[a].type /\ u.interval = T[a].interval
    BY <2>3, <2>4, RedeliveredType DEF SameTask
  <2> HIDE DEF u
  <2>6. U = [T EXCEPT ![a] = u]
    BY <1>2, <2>3 DEF DeliveredTasks, a, u
  <2> HIDE DEF U
  <2>7. TaskDict(U) /\ DOMAIN U = DOMAIN T
    BY <2>3, <2>5, <2>6 DEF TaskDict
  <2>8. \A i \in DOMAIN T : U[i] = IF i = a THEN u ELSE T[i]
    BY <2>6
  <2>9. FlightOK(U)
    BY <2>3, <2>5, <2>7, <2>8 DEF FlightOK, TasksOK
  <2>10. OrderOK(U)
    BY <2>3, <2>4, <2>5, <2>7, <2>8 DEF OrderOK, TasksOK
  <2>11. AcceptOK(U)
    BY <2>3, <2>5, <2>7, <2>8 DEF AcceptOK, TasksOK
  <2>12. SleepOK(U)
    BY <2>3, <2>5, <2>7, <2>8 DEF SleepOK, TasksOK
  <2>13. QED
    BY <2>3, <2>5, <2>7, <2>8, <2>9, <2>10, <2>11, <2>12
       DEF TasksOK, Live, U, LIVE_TASK_STATUSES
<1>3. CASE ~paused /\ DispatchedOf(T, n) = {} /\ QueuedOf(T, n) # {}
  <2> DEFINE a == NextQueued(T, n)
             u == Dispatched(T[a], lag)
  <2>1. QueuedOf(T, n) \in SUBSET Nat
    BY DEF QueuedOf, TaskDict
  <2>2. a \in QueuedOf(T, n) /\ \A j \in QueuedOf(T, n) : a <= j
    BY <1>3, <2>1, LeastInSet DEF NextQueued
  <2> HIDE DEF a
  <2>3. a \in DOMAIN T /\ T[a].status = "queued" /\ T[a] \in TaskType /\ T[a].node = n
    BY <2>2 DEF QueuedOf, TaskDict
  <2>5. /\ u \in TaskType /\ u.node = n /\ u.status = "dispatched"
        /\ u.accepted = T[a].accepted /\ u.delivery_attempts = 1
        /\ u.type = T[a].type /\ u.interval = T[a].interval
    BY <2>3, DispatchedType DEF SameTask
  <2> HIDE DEF u
  <2>6. U = [T EXCEPT ![a] = u]
    BY <1>3, <2>3 DEF DeliveredTasks, a, u
  <2> HIDE DEF U
  <2>7. TaskDict(U) /\ DOMAIN U = DOMAIN T
    BY <2>3, <2>5, <2>6 DEF TaskDict
  <2>8. \A i \in DOMAIN T : U[i] = IF i = a THEN u ELSE T[i]
    BY <2>6
  <2>9. FlightOK(U)
    <3>1. \A i \in DOMAIN T : T[i].node = n => T[i].status # "dispatched"
      BY <1>3 DEF DispatchedOf
    <3>2. QED  BY <2>3, <2>5, <2>7, <2>8, <3>1 DEF FlightOK, TasksOK
  <2>10. OrderOK(U)
    <3>1. \A i \in DOMAIN T : T[i].node = n /\ i < a => T[i].status # "queued"
      BY <2>2, <2>3 DEF QueuedOf, TaskDict
    <3>2. ASSUME NEW i \in DOMAIN U, NEW j \in DOMAIN U, i < j,
                 U[i].node = U[j].node, U[j].delivery_attempts > 0
          PROVE  U[i].status # "queued"
      <4>1. CASE i = a
        BY <2>5, <2>7, <2>8, <4>1
      <4>2. CASE i # a /\ j = a
        BY <2>5, <2>7, <2>8, <3>1, <3>2, <4>2
      <4>3. CASE i # a /\ j # a
        BY <2>7, <2>8, <3>2, <4>3 DEF OrderOK, TasksOK
      <4>4. QED  BY <4>1, <4>2, <4>3
    <3>3. \A i \in DOMAIN U : U[i].status = "dispatched" => U[i].delivery_attempts > 0
      BY <2>5, <2>7, <2>8 DEF OrderOK, TasksOK
    <3>4. QED  BY <3>2, <3>3 DEF OrderOK
  <2>11. AcceptOK(U)
    BY <2>3, <2>5, <2>7, <2>8 DEF AcceptOK, TasksOK
  <2>12. SleepOK(U)
    BY <2>3, <2>5, <2>7, <2>8 DEF SleepOK, TasksOK
  <2>13. QED
    BY <2>3, <2>5, <2>7, <2>8, <2>9, <2>10, <2>11, <2>12
       DEF TasksOK, Live, U, LIVE_TASK_STATUSES
<1>4. CASE ~paused /\ DispatchedOf(T, n) = {} /\ QueuedOf(T, n) = {}
  BY <1>4 DEF DeliveredTasks
<1>5. QED  BY <1>1, <1>2, <1>3, <1>4

(* What poll_node made of task i: it was delivered again, or it was the
   oldest one waiting while none was in flight. *)
Delivery(T, n, i, u) ==
  /\ T[i].node = n /\ SameTask(T[i], u) /\ u.status = "dispatched"
  /\ u.result = T[i].result /\ u.accepted = T[i].accepted
  /\ \/ T[i].status = "dispatched"
     \/ /\ T[i].status = "queued" /\ DispatchedOf(T, n) = {}
        /\ \A j \in QueuedOf(T, n) : i <= j

(* A poll delivers at most one task, and none to a paused node. *)
LEMMA DeliveredFate ==
  ASSUME NEW T, TaskDict(T), TasksOK(T), NEW n, NEW paused, NEW lag \in Lags,
         NEW U, U = DeliveredTasks(T, n, paused, lag)
  PROVE  \/ U = T
         \/ /\ ~paused
            /\ \E a \in DOMAIN T : /\ Delivery(T, n, a, U[a])
                                   /\ \A i \in DOMAIN T : i # a => U[i] = T[i]
<1>1. CASE ~paused /\ DispatchedOf(T, n) # {}
  <2> DEFINE a == Least(DispatchedOf(T, n))
  <2>1. DispatchedOf(T, n) \in SUBSET Nat
    BY DEF DispatchedOf, TaskDict
  <2>2. a \in DispatchedOf(T, n)
    BY <1>1, <2>1, LeastInSet
  <2>3. U = [T EXCEPT ![a] = Redelivered(T[a])]
    BY <1>1, <2>2 DEF DeliveredTasks
  <2> HIDE DEF a
  <2>4. a \in DOMAIN T /\ T[a].status = "dispatched" /\ T[a].node = n /\ T[a] \in TaskType
    BY <2>2 DEF DispatchedOf, TaskDict
  <2>5. T[a].delivery_attempts > 0
    BY <2>4 DEF TasksOK, OrderOK
  <2>6. U[a] = Redelivered(T[a]) /\ \A i \in DOMAIN T : i # a => U[i] = T[i]
    BY <2>3, <2>4
  <2>7. Delivery(T, n, a, U[a])
    BY <2>4, <2>5, <2>6, RedeliveredType DEF Delivery
  <2>8. QED  BY <1>1, <2>4, <2>6, <2>7
<1>2. CASE ~paused /\ DispatchedOf(T, n) = {} /\ QueuedOf(T, n) # {}
  <2> DEFINE a == NextQueued(T, n)
  <2>1. QueuedOf(T, n) \in SUBSET Nat
    BY DEF QueuedOf, TaskDict
  <2>2. a \in QueuedOf(T, n) /\ \A j \in QueuedOf(T, n) : a <= j
    BY <1>2, <2>1, LeastInSet DEF NextQueued
  <2>3. U = [T EXCEPT ![a] = Dispatched(T[a], lag)]
    BY <1>2, <2>2 DEF DeliveredTasks
  <2> HIDE DEF a
  <2>4. a \in DOMAIN T /\ T[a].status = "queued" /\ T[a].node = n /\ T[a] \in TaskType
    BY <2>2 DEF QueuedOf, TaskDict
  <2>5. U[a] = Dispatched(T[a], lag) /\ \A i \in DOMAIN T : i # a => U[i] = T[i]
    BY <2>3, <2>4
  <2>6. Delivery(T, n, a, U[a])
    BY <1>2, <2>2, <2>4, <2>5, DispatchedType DEF Delivery
  <2>7. QED  BY <1>2, <2>4, <2>5, <2>6
<1>3. CASE paused \/ (DispatchedOf(T, n) = {} /\ QueuedOf(T, n) = {})
  BY <1>3 DEF DeliveredTasks
<1>4. QED  BY <1>1, <1>2, <1>3

(* The heartbeat part of poll_node never reopens or closes a session. *)
LEMMA PolledNodeType ==
  ASSUME NEW node \in NodeType, NEW lag \in Lags
  PROVE  /\ PolledNode(node, lag) \in NodeType
         /\ PolledNode(node, lag).session_active = node.session_active
<1>1. PICK s \in {"online", "offline"} : s = "online"
  OBVIOUS
<1>2. PICK a \in Nat : a = lag
  BY TimeAssumption DEF Lags
<1>3. PolledNode(node, lag) = [node EXCEPT !.status = s, !.age = a]
  BY <1>1, <1>2 DEF PolledNode
<1>4. [node EXCEPT !.status = s, !.age = a] \in NodeType
  BY DEF NodeType
<1>5. [node EXCEPT !.status = s, !.age = a].session_active = node.session_active
  BY Zenon DEF NodeType
<1>6. QED  BY <1>3, <1>4, <1>5
-----------------------------------------------------------------------------
(* submit_result *)

(* What the two bodies a node sends may be at most: the types of Enrolments
   and of Submissions. *)
AnyEnrolment == [profile : Profiles, poll_interval : PollIntervals]

AnySubmission == [status : {"completed", "failed"}, result : Results]

(* The bodies of the enumerated requests are of these types. *)
LEMMA CallsAreTyped ==
  Enrolments \subseteq AnyEnrolment /\ Submissions \subseteq AnySubmission
BY RequestsAssumption DEF AnyEnrolment, AnySubmission

(* Recording a result keeps the task typed and what was asked for. *)
LEMMA AcceptedTaskType ==
  ASSUME NEW t \in TaskType, NEW s \in AnySubmission
  PROVE  /\ AcceptedTask(t, s) \in TaskType
         /\ AcceptedTask(t, s).status \in {"completed", "failed"}
         /\ AcceptedTask(t, s).node = t.node
         /\ AcceptedTask(t, s).delivery_attempts = t.delivery_attempts
         /\ AcceptedTask(t, s).status = s.status
         /\ AcceptedTask(t, s).result = s.result
         /\ AcceptedTask(t, s).accepted = TRUE
         /\ SameTask(t, AcceptedTask(t, s))
<1>1. PICK st \in {"completed", "failed"} : st = s.status
  BY DEF AnySubmission
<1>2. PICK r \in Results : r = s.result
  BY DEF AnySubmission
<1>3. PICK z \in Int : z = 0
  OBVIOUS
<1>4. PICK b \in BOOLEAN : b = TRUE
  OBVIOUS
<1>5. PICK ts \in LIVE_TASK_STATUSES \cup TERMINAL_TASK_STATUSES : ts = s.status
  BY <1>1 DEF TERMINAL_TASK_STATUSES
<1> DEFINE u == [t EXCEPT !.status = ts, !.result = r, !.accepted = b, !.timer = z]
<1>6. AcceptedTask(t, s) = u
  BY <1>2, <1>3, <1>4, <1>5 DEF AcceptedTask
<1>7. u \in TaskType
  BY DEF TaskType
<1>8. /\ u.node = t.node /\ u.status = ts /\ u.result = r
      /\ u.delivery_attempts = t.delivery_attempts /\ SameTask(t, u)
  BY DEF TaskType, SameTask
<1>9. u.accepted = TRUE
  BY <1>4, Zenon DEF TaskType
<1>10. QED  BY <1>1, <1>2, <1>5, <1>6, <1>7, <1>8, <1>9

(* Recording a node's result settles the one task it is about. *)
RecordResult(T, a, s) == [T EXCEPT ![a] = AcceptedTask(T[a], s)]

(* Recording an accepted result in submit_result keeps the task invariants. *)
LEMMA AcceptedKeepsTasks ==
  ASSUME NEW T, TaskDict(T), TasksOK(T), NEW a \in DOMAIN T, NEW s \in AnySubmission,
         NEW U, U = RecordResult(T, a, s)
  PROVE  /\ TaskDict(U) /\ TasksOK(U) /\ DOMAIN U = DOMAIN T
         /\ \A i \in DOMAIN T : U[i].node = T[i].node /\ (Live(U[i]) => Live(T[i]))
<1> DEFINE u == AcceptedTask(T[a], s)
<1>1. T[a] \in TaskType
  BY DEF TaskDict
<1>2. /\ u \in TaskType /\ u.status \in {"completed", "failed"}
      /\ u.node = T[a].node /\ u.delivery_attempts = T[a].delivery_attempts
      /\ u.type = T[a].type /\ u.interval = T[a].interval
  BY <1>1, AcceptedTaskType DEF SameTask
<1>0. U = [T EXCEPT ![a] = u]
  BY DEF RecordResult
<1> HIDE DEF u
<1>3. TaskDict(U) /\ DOMAIN U = DOMAIN T
  BY <1>2, <1>0 DEF TaskDict
<1>4. \A i \in DOMAIN T : U[i] = IF i = a THEN u ELSE T[i]
  BY <1>0
<1>5. FlightOK(U)
  BY <1>2, <1>3, <1>4 DEF FlightOK, TasksOK
<1>6. OrderOK(U)
  BY <1>2, <1>3, <1>4 DEF OrderOK, TasksOK
<1>7. AcceptOK(U)
  BY <1>2, <1>3, <1>4 DEF AcceptOK, TasksOK
<1>8. SleepOK(U)
  BY <1>2, <1>3, <1>4 DEF SleepOK, TasksOK
<1>9. \A i \in DOMAIN T : U[i].node = T[i].node /\ (Live(U[i]) => Live(T[i]))
  BY <1>2, <1>4 DEF Live, LIVE_TASK_STATUSES
<1>10. QED  BY <1>3, <1>5, <1>6, <1>7, <1>8, <1>9 DEF TasksOK

(* The counters and the SLEEP interval that submit_result writes keep the
   node record typed and its session as it was. *)
LEMMA CreditedNodeType ==
  ASSUME NEW node \in NodeType, NEW t \in TaskType, NEW s \in AnySubmission,
         NEW lag \in Lags, t.type = "SLEEP" => t.interval \in PollIntervals
  PROVE  /\ CreditedNode(node, t, s, lag) \in NodeType
         /\ CreditedNode(node, t, s, lag).session_active = node.session_active
<1>1. PICK a \in Nat : a = lag
  BY TimeAssumption DEF Lags
<1>2. PICK c \in Nat : c = IF s.status = "completed" THEN node.tasks_completed + 1
                                                    ELSE node.tasks_completed
  BY DEF NodeType
<1>3. PICK f \in Nat : f = IF s.status = "completed" THEN node.tasks_failed
                                                    ELSE node.tasks_failed + 1
  BY DEF NodeType
<1>4. PICK p \in PollIntervals :
        p = IF t.type = "SLEEP" /\ s.status = "completed" THEN t.interval
                                                           ELSE node.poll_interval
  BY DEF NodeType
<1> DEFINE m == [node EXCEPT !.age = a, !.tasks_completed = c, !.tasks_failed = f,
                             !.poll_interval = p]
<1>5. CreditedNode(node, t, s, lag) = m
  BY <1>1, <1>2, <1>3, <1>4 DEF CreditedNode
<1>6. m \in NodeType
  BY DEF NodeType
<1>7. m.session_active = node.session_active
  BY Zenon DEF NodeType
<1>8. QED  BY <1>5, <1>6, <1>7

-----------------------------------------------------------------------------
(* Retention and admission. *)

(* U is T with some tasks left out. *)
Restricts(T, U) == DOMAIN U \subseteq DOMAIN T /\ U = [i \in DOMAIN U |-> T[i]]

(* Forgetting tasks disturbs no invariant of the others. *)
LEMMA RestrictsKeeps ==
  ASSUME NEW T, NEW U, Restricts(T, U), TaskDict(T), TasksOK(T)
  PROVE  /\ TaskDict(U) /\ TasksOK(U)
         /\ \A N : OwnedOK(N, T) => OwnedOK(N, U)
<1>1. DOMAIN U \subseteq DOMAIN T /\ \A i \in DOMAIN U : U[i] = T[i]
  BY DEF Restricts
<1>2. IsFiniteSet(DOMAIN U)
  <2>1. DOMAIN U \in SUBSET DOMAIN T /\ IsFiniteSet(DOMAIN T)
    BY <1>1 DEF TaskDict
  <2>2. QED  BY <2>1, FS_Subset
<1>3. U \in [DOMAIN U -> TaskType]
  BY <1>1 DEF Restricts, TaskDict
<1>4. TaskDict(U)
  BY <1>1, <1>2, <1>3 DEF TaskDict
<1>5. FlightOK(U)
  BY <1>1 DEF FlightOK, TasksOK
<1>6. OrderOK(U)
  BY <1>1 DEF OrderOK, TasksOK
<1>7. AcceptOK(U) /\ SleepOK(U)
  BY <1>1 DEF AcceptOK, SleepOK, TasksOK
<1>8. ASSUME NEW N, OwnedOK(N, T) PROVE OwnedOK(N, U)
  BY <1>1, <1>8 DEF OwnedOK
<1>9. QED  BY <1>4, <1>5, <1>6, <1>7, <1>8 DEF TasksOK

(* Trimming a bounded log leaves at most its limit of records. *)
LEMMA KeepNewestType ==
  ASSUME NEW S, NEW s \in Seq(S), NEW k \in Nat
  PROVE  KeepNewest(s, k) \in Seq(S) /\ Len(KeepNewest(s, k)) <= k
<1>1. Len(s) \in Nat /\ \A i \in 1..Len(s) : s[i] \in S
  BY LenProperties, ElementOfSeq
<1>2. CASE Len(s) <= k
  BY <1>2 DEF KeepNewest
<1>3. CASE ~(Len(s) <= k)
  <2>1. Len(s) - k + 1 \in Int /\ Len(s) \in Int
    BY <1>1
  <2>2. \A i \in (Len(s) - k + 1)..Len(s) : s[i] \in S
    BY <1>1, <1>3
  <2>3. /\ SubSeq(s, Len(s) - k + 1, Len(s)) \in Seq(S)
        /\ Len(SubSeq(s, Len(s) - k + 1, Len(s))) =
             IF Len(s) - k + 1 <= Len(s) THEN Len(s) - (Len(s) - k + 1) + 1 ELSE 0
    BY <2>1, <2>2, SubSeqProperties
  <2>4. QED  BY <1>1, <1>3, <2>3 DEF KeepNewest
<1>4. QED  BY <1>2, <1>3

(* _remember_task_result_tombstone_locked keeps the tombstones within their
   bound. *)
LEMMA RememberType ==
  ASSUME NEW tombs \in Seq(TombstoneType), NEW i \in Nat, NEW t \in TaskType,
         t.accepted => t.status \in {"completed", "failed"}
  PROVE  /\ Remember(tombs, i, t) \in Seq(TombstoneType)
         /\ Len(tombs) <= MAX_TASK_RESULT_TOMBSTONES =>
              Len(Remember(tombs, i, t)) <= MAX_TASK_RESULT_TOMBSTONES
<1>1. CASE t.accepted
  <2> DEFINE kept == KeepNewest(tombs, MAX_TASK_RESULT_TOMBSTONES - 1)
  <2>1. MAX_TASK_RESULT_TOMBSTONES - 1 \in Nat
    BY LimitsAssumption
  <2>2. kept \in Seq(TombstoneType) /\ Len(kept) <= MAX_TASK_RESULT_TOMBSTONES - 1
    BY <2>1, KeepNewestType
  <2>3. Tombstone(i, t) \in TombstoneType
    BY <1>1 DEF Tombstone, TombstoneType, TaskType
  <2> HIDE DEF kept
  <2>4. /\ Append(kept, Tombstone(i, t)) \in Seq(TombstoneType)
        /\ Len(Append(kept, Tombstone(i, t))) = Len(kept) + 1
    BY <2>2, <2>3, AppendProperties
  <2>5. Len(kept) \in Nat
    BY <2>2, LenProperties
  <2>6. QED  BY <1>1, <2>1, <2>2, <2>4, <2>5, LimitsAssumption DEF Remember, kept
<1>2. CASE ~t.accepted
  BY <1>2 DEF Remember
<1>3. QED  BY <1>1, <1>2

(* _prune_terminal_task_locked on the oldest candidate: one task leaves and
   one candidate fewer is left. *)
LEMMA FreeOneOK ==
  ASSUME NEW s, s = [tasks |-> s.tasks, tombs |-> s.tombs],
         TaskDict(s.tasks), TasksOK(s.tasks), s.tombs \in Seq(TombstoneType),
         NEW protected, Prunable(s.tasks, protected) # {}
  PROVE  LET f == FreeOne(s, protected)
         IN /\ f = [tasks |-> f.tasks, tombs |-> f.tombs]
            /\ Restricts(s.tasks, f.tasks)
            /\ TaskDict(f.tasks) /\ TasksOK(f.tasks)
            /\ f.tombs \in Seq(TombstoneType)
            /\ Len(s.tombs) <= MAX_TASK_RESULT_TOMBSTONES =>
                 Len(f.tombs) <= MAX_TASK_RESULT_TOMBSTONES
            /\ Cardinality(Prunable(f.tasks, protected)) =
                 Cardinality(Prunable(s.tasks, protected)) - 1
            /\ Cardinality(DOMAIN f.tasks) = Cardinality(DOMAIN s.tasks) - 1
<1> DEFINE T == s.tasks
           P == Prunable(T, protected)
           a == Least(P)
           f == FreeOne(s, protected)
<1>1. P \in SUBSET Nat /\ P \in SUBSET DOMAIN T
  BY DEF Prunable, TaskDict
<1>2. a \in P
  BY <1>1, LeastInSet
<1>3. /\ f = [tasks |-> f.tasks, tombs |-> f.tombs]
      /\ f.tasks = Drop(T, {a}) /\ f.tombs = Remember(s.tombs, a, T[a])
  BY DEF FreeOne
<1> HIDE DEF a, f
<1>4. DOMAIN f.tasks = DOMAIN T \ {a} /\ \A i \in DOMAIN T \ {a} : f.tasks[i] = T[i]
  BY <1>3 DEF Drop
<1>5. Restricts(T, f.tasks)
  BY <1>3, <1>4 DEF Restricts, Drop
<1>6. TaskDict(f.tasks) /\ TasksOK(f.tasks)
  BY <1>5, RestrictsKeeps
<1>7. /\ f.tombs \in Seq(TombstoneType)
      /\ Len(s.tombs) <= MAX_TASK_RESULT_TOMBSTONES =>
           Len(f.tombs) <= MAX_TASK_RESULT_TOMBSTONES
  <2>1. a \in Nat /\ a \in DOMAIN T /\ T[a] \in TaskType
    BY <1>1, <1>2 DEF TaskDict
  <2>2. T[a].accepted => T[a].status \in {"completed", "failed"}
    BY <2>1 DEF TasksOK, AcceptOK
  <2>3. QED  BY <1>3, <2>1, <2>2, RememberType
<1>8. Prunable(f.tasks, protected) = P \ {a}
  BY <1>4 DEF Prunable
<1>9. IsFiniteSet(P) /\ IsFiniteSet(DOMAIN T)
  BY <1>1, FS_Subset DEF TaskDict
<1>10. /\ Cardinality(P \ {a}) = Cardinality(P) - 1
       /\ Cardinality(DOMAIN T \ {a}) = Cardinality(DOMAIN T) - 1
  <2>1. a \in DOMAIN T
    BY <1>1, <1>2
  <2>2. QED  BY <1>2, <1>9, <2>1, FS_RemoveElement
<1>11. QED  BY <1>3, <1>4, <1>5, <1>6, <1>7, <1>8, <1>10 DEF f

(* Pruning after pruning is pruning. *)
LEMMA RestrictsTransitive ==
  ASSUME NEW T, NEW U, NEW V, Restricts(T, U), Restricts(U, V)
  PROVE  Restricts(T, V)
<1>1. DOMAIN V \subseteq DOMAIN T /\ \A i \in DOMAIN V : V[i] = T[i]
  BY DEF Restricts
<1>2. V = [i \in DOMAIN V |-> U[i]]
  BY DEF Restricts
<1>3. QED  BY <1>1, <1>2 DEF Restricts

(* U is T without some settled tasks, each older than every one that could
   still be given up. *)
OldestPruned(T, U, protected) ==
  /\ Restricts(T, U)
  /\ \A i \in DOMAIN T \ DOMAIN U :
       /\ i \in Prunable(T, protected)
       /\ \A j \in Prunable(U, protected) : i < j

(* all lists the tombstones of tombs and then one per pruned task with an
   accepted result; news is what is left of all when the first d had to go. *)
Listed(T, tombs, U, all) ==
  /\ Len(tombs) <= Len(all) /\ \A k \in 1..Len(tombs) : all[k] = tombs[k]
  /\ \A k \in (Len(tombs) + 1)..Len(all) :
       /\ all[k].id \in DOMAIN T \ DOMAIN U
       /\ all[k] = Tombstone(all[k].id, T[all[k].id])
  /\ \A j, k \in (Len(tombs) + 1)..Len(all) : all[j].id = all[k].id => j = k
  /\ \A i \in DOMAIN T \ DOMAIN U : T[i].accepted =>
       \E k \in (Len(tombs) + 1)..Len(all) : all[k] = Tombstone(i, T[i])

Window(all, d, news) ==
  /\ d <= Len(all) /\ Len(news) = Len(all) - d
  /\ \A m \in 1..Len(news) : news[m] = all[m + d]
  /\ d > 0 => Len(news) = MAX_TASK_RESULT_TOMBSTONES

Retires(T, tombs, U, news) ==
  \E all \in Seq(TombstoneType), d \in Nat : Listed(T, tombs, U, all) /\ Window(all, d, news)

(* The step of _prune_terminal_task_locked, spelled out. *)
LEMMA FreeOneOldest ==
  ASSUME NEW s, TaskDict(s.tasks), NEW protected, Prunable(s.tasks, protected) # {}
  PROVE  LET f == FreeOne(s, protected)
             P == Prunable(s.tasks, protected)
         IN \E a \in P :
              /\ \A j \in P : a <= j
              /\ f.tasks = [i \in DOMAIN s.tasks \ {a} |-> s.tasks[i]]
              /\ f.tombs = Remember(s.tombs, a, s.tasks[a])
<1> DEFINE P == Prunable(s.tasks, protected)
           a == Least(P)
<1>1. P \in SUBSET Nat
  BY DEF Prunable, TaskDict
<1>2. a \in P /\ \A j \in P : a <= j
  BY <1>1, LeastInSet
<1>3. /\ FreeOne(s, protected).tasks = [i \in DOMAIN s.tasks \ {a} |-> s.tasks[i]]
      /\ FreeOne(s, protected).tombs = Remember(s.tombs, a, s.tasks[a])
  BY DEF FreeOne, Drop
<1> HIDE DEF a
<1>4. QED  BY <1>2, <1>3

(* Giving up the oldest candidate after others keeps to the order of age. *)
LEMMA OldestPrunedStep ==
  ASSUME NEW T, TaskDict(T), NEW U, NEW protected, OldestPruned(T, U, protected),
         NEW a \in Prunable(U, protected), \A j \in Prunable(U, protected) : a <= j,
         NEW V, V = [i \in DOMAIN U \ {a} |-> U[i]]
  PROVE  OldestPruned(T, V, protected)
<1>1. /\ DOMAIN U \subseteq DOMAIN T /\ \A i \in DOMAIN U : U[i] = T[i]
      /\ DOMAIN V = DOMAIN U \ {a} /\ \A i \in DOMAIN V : V[i] = T[i]
  BY DEF OldestPruned, Restricts
<1>2. Restricts(T, V)
  BY <1>1 DEF Restricts
<1>3. Prunable(V, protected) = Prunable(U, protected) \ {a}
  BY <1>1 DEF Prunable
<1>4. a \in Prunable(T, protected) /\ Prunable(U, protected) \subseteq Nat
  BY <1>1 DEF Prunable, TaskDict
<1>5. ASSUME NEW i \in DOMAIN T \ DOMAIN V
      PROVE  i \in Prunable(T, protected) /\ \A j \in Prunable(V, protected) : i < j
  <2>1. CASE i = a
    BY <1>3, <1>4, <2>1
  <2>2. CASE i # a
    BY <1>1, <1>3, <2>2 DEF OldestPruned
  <2>3. QED  BY <2>1, <2>2
<1>6. QED  BY <1>2, <1>5 DEF OldestPruned

(* The bounded log keeps the newest: what is left after one more entry is a
   window that slid over the whole list. *)
LEMMA WindowSlides ==
  ASSUME NEW S, NEW all \in Seq(S), NEW d \in Nat, NEW news \in Seq(S), Window(all, d, news),
         NEW x \in S, NEW more,
         more = Append(KeepNewest(news, MAX_TASK_RESULT_TOMBSTONES - 1), x)
  PROVE  \E e \in Nat : Window(Append(all, x), e, more)
<1> DEFINE M == MAX_TASK_RESULT_TOMBSTONES
           kept == KeepNewest(news, M - 1)
           c == IF Len(news) <= M - 1 THEN 0 ELSE Len(news) - (M - 1)
           ax == Append(all, x)
<1>0. M \in Nat /\ M > 0 /\ Len(news) \in Nat /\ Len(all) \in Nat
  BY LimitsAssumption, LenProperties
<1>1. c \in Nat /\ c <= Len(news)
  BY <1>0
<1>2. /\ kept \in Seq(S) /\ Len(kept) = Len(news) - c
      /\ \A m \in 1..Len(kept) : kept[m] = news[m + c]
  <2>1. CASE Len(news) <= M - 1
    BY <1>0, <2>1 DEF KeepNewest
  <2>2. CASE ~(Len(news) <= M - 1)
    <3>1. kept = SubSeq(news, c + 1, Len(news)) /\ c \in 0..Len(news)
      BY <1>0, <2>2 DEF KeepNewest
    <3>2. \A i \in (c + 1)..Len(news) : news[i] \in S
      BY <1>0, <1>1, ElementOfSeq
    <3> HIDE DEF c, kept
    <3>3. c + 1 \in Int /\ Len(news) \in Int
      BY <1>0, <1>1
    <3>4. /\ kept \in Seq(S)
          /\ Len(kept) = IF c + 1 <= Len(news) THEN Len(news) - (c + 1) + 1 ELSE 0
          /\ \A m \in 1..(Len(news) - (c + 1) + 1) : kept[m] = news[c + 1 + m - 1]
      BY <3>1, <3>2, <3>3, SubSeqProperties
    <3>5. \A m \in 1..(Len(news) - c) : c + 1 + m - 1 = m + c
      BY <1>0, <1>1
    <3>6. QED  BY <1>0, <1>1, <3>4, <3>5
  <2>3. QED  BY <2>1, <2>2
<1> HIDE DEF kept, c
<1>3. /\ more = Append(kept, x) /\ Len(more) = Len(kept) + 1
      /\ \A m \in 1..Len(kept) : more[m] = kept[m]
      /\ more[Len(kept) + 1] = x
  BY <1>2, AppendProperties DEF kept
<1>4. /\ Len(ax) = Len(all) + 1 /\ \A m \in 1..Len(all) : ax[m] = all[m]
      /\ ax[Len(all) + 1] = x
  BY AppendProperties
<1> HIDE DEF ax
<1>5. d + c \in Nat /\ Len(kept) \in Nat
  BY <1>1, <1>2, LenProperties
<1>6. d <= Len(all) /\ Len(news) = Len(all) - d
  BY DEF Window
<1>7. (d + c) <= Len(ax) /\ Len(more) = Len(ax) - (d + c)
  BY <1>0, <1>1, <1>2, <1>3, <1>4, <1>6
<1>8. ASSUME NEW m \in 1..Len(more) PROVE more[m] = ax[m + (d + c)]
  <2>1. CASE m = Len(more)
    <3>1. m + (d + c) = Len(all) + 1
      BY <1>0, <1>1, <1>4, <1>7, <2>1
    <3>2. QED  BY <1>3, <1>4, <2>1, <3>1
  <2>2. CASE m # Len(more)
    <3>1. m \in 1..Len(kept)
      BY <1>3, <1>5, <2>2
    <3>2. m + c \in 1..Len(news) /\ (m + c) + d \in 1..Len(all)
      BY <1>0, <1>1, <1>2, <1>6, <3>1
    <3>3. more[m] = all[(m + c) + d]
      BY <1>2, <1>3, <3>1, <3>2 DEF Window
    <3>4. (m + c) + d = m + (d + c)
      BY <1>1, <3>1
    <3>5. QED  BY <1>4, <3>2, <3>3, <3>4
  <2>3. QED  BY <2>1, <2>2
<1>9. d + c > 0 => Len(more) = M
  <2>1. CASE Len(news) <= M - 1
    BY <1>0, <2>1 DEF Window, c
  <2>2. CASE ~(Len(news) <= M - 1)
    BY <1>0, <1>2, <1>3, <2>2, SMTT(20) DEF c
  <2>3. QED  BY <2>1, <2>2
<1>10. QED  BY <1>5, <1>7, <1>8, <1>9 DEF Window, ax

(* Retiring one more task. *)
LEMMA RetiresStep ==
  ASSUME NEW T, TaskDict(T), AcceptOK(T), NEW tombs \in Seq(TombstoneType),
         NEW U, Restricts(T, U), NEW news \in Seq(TombstoneType), Retires(T, tombs, U, news),
         NEW a \in DOMAIN U, NEW V, V = [i \in DOMAIN U \ {a} |-> U[i]],
         NEW more, more = Remember(news, a, U[a])
  PROVE  Retires(T, tombs, V, more)
<1> DEFINE t == Tombstone(a, T[a])
<1>1. PICK all \in Seq(TombstoneType), d \in Nat : Listed(T, tombs, U, all) /\ Window(all, d, news)
  BY DEF Retires
<1>2. /\ DOMAIN U \subseteq DOMAIN T /\ U[a] = T[a] /\ T[a] \in TaskType /\ a \in Nat
      /\ DOMAIN V = DOMAIN U \ {a}
  BY DEF Restricts, TaskDict
<1>3. CASE T[a].accepted
  <2>1. t \in TombstoneType /\ t.id = a
    <3>1. T[a].status \in {"completed", "failed"}
      BY <1>2, <1>3 DEF AcceptOK
    <3>2. QED  BY <1>2, <3>1 DEF Tombstone, TombstoneType, TaskType
  <2>2. more = Append(KeepNewest(news, MAX_TASK_RESULT_TOMBSTONES - 1), t)
    BY <1>2, <1>3 DEF Remember
  <2>a. t = Tombstone(a, T[a])
    OBVIOUS
  <2> HIDE DEF t
  <2>3. \E e \in Nat : Window(Append(all, t), e, more)
    BY <1>1, <2>1, <2>2, WindowSlides
  <2> DEFINE ax == Append(all, t)
  <2>4. /\ ax \in Seq(TombstoneType) /\ Len(ax) = Len(all) + 1
        /\ \A m \in 1..Len(all) : ax[m] = all[m]
        /\ ax[Len(all) + 1] = t
    BY <2>1, AppendProperties
  <2>5. Len(all) \in Nat /\ Len(tombs) \in Nat /\ Len(tombs) <= Len(all)
    BY <1>1, LenProperties DEF Listed
  <2> HIDE DEF ax
  <2>6. Len(tombs) <= Len(ax) /\ \A k \in 1..Len(tombs) : ax[k] = tombs[k]
    BY <1>1, <2>4, <2>5 DEF Listed
  <2>7. \A k \in (Len(tombs) + 1)..Len(ax) :
          (k \in (Len(tombs) + 1)..Len(all) /\ ax[k] = all[k]) \/ (k = Len(all) + 1 /\ ax[k] = t)
    BY <2>4, <2>5
  <2>8. \A k \in (Len(tombs) + 1)..Len(all) : all[k].id \in DOMAIN T \ DOMAIN U
    BY <1>1 DEF Listed
  <2>9. \A k \in (Len(tombs) + 1)..Len(ax) :
          ax[k].id \in DOMAIN T \ DOMAIN V /\ ax[k] = Tombstone(ax[k].id, T[ax[k].id])
    BY <1>1, <1>2, <2>1, <2>a, <2>7, <2>8 DEF Listed
  <2>10. \A j, k \in (Len(tombs) + 1)..Len(ax) : ax[j].id = ax[k].id => j = k
    BY <1>1, <1>2, <2>1, <2>7, <2>8, SMTT(20) DEF Listed
  <2>11. ASSUME NEW i \in DOMAIN T \ DOMAIN V, T[i].accepted
         PROVE  \E k \in (Len(tombs) + 1)..Len(ax) : ax[k] = Tombstone(i, T[i])
    <3>1. CASE i = a
      BY <2>4, <2>5, <2>a, <3>1
    <3>2. CASE i # a
      <4>1. PICK k \in (Len(tombs) + 1)..Len(all) : all[k] = Tombstone(i, T[i])
        BY <1>1, <1>2, <2>11, <3>2 DEF Listed
      <4>2. k \in (Len(tombs) + 1)..Len(ax) /\ k \in 1..Len(all)
        BY <2>4, <2>5
      <4>3. QED  BY <2>4, <4>1, <4>2
    <3>3. QED  BY <3>1, <3>2
  <2>12. Listed(T, tombs, V, ax)
    BY <2>6, <2>9, <2>10, <2>11 DEF Listed
  <2>13. QED  BY <2>3, <2>4, <2>12 DEF Retires, ax
<1>4. CASE ~T[a].accepted
  <2>1. more = news
    BY <1>2, <1>4 DEF Remember
  <2>2. Listed(T, tombs, V, all)
    BY <1>1, <1>2, <1>4 DEF Listed
  <2>3. QED  BY <1>1, <2>1, <2>2 DEF Retires
<1>5. QED  BY <1>3, <1>4

(* _make_task_slots_locked: the slots asked for are there afterwards, no more
   was pruned than was needed, the oldest first, and what is left of the
   ledger is unharmed. *)
LEMMA MakeTaskSlotsOK ==
  ASSUME NEW T, TaskDict(T), TasksOK(T), NEW tombs \in Seq(TombstoneType),
         NEW protected, NEW required \in 0..MAX_OPERATION_STEPS,
         Cardinality(DOMAIN T) <= MAX_TASKS, HasSlots(T, protected, required)
  PROVE  LET m == MakeTaskSlots(T, tombs, protected, required)
         IN /\ Restricts(T, m.tasks)
            /\ m.tombs \in Seq(TombstoneType)
            /\ Len(tombs) <= MAX_TASK_RESULT_TOMBSTONES =>
                 Len(m.tombs) <= MAX_TASK_RESULT_TOMBSTONES
            /\ Cardinality(DOMAIN m.tasks) + required <= MAX_TASKS
            /\ m.tasks = T \/ Cardinality(DOMAIN m.tasks) + required = MAX_TASKS
            /\ OldestPruned(T, m.tasks, protected)
            /\ Retires(T, tombs, m.tasks, m.tombs)
<1> DEFINE k  == SlotsToFree(T, required)
           s0 == [tasks |-> T, tombs |-> tombs]
           s1 == FreeOne(s0, protected)
           s2 == FreeOne(s1, protected)
           s3 == FreeOne(s2, protected)
           P(s) == Prunable(s.tasks, protected)
           Good(s) == /\ s = [tasks |-> s.tasks, tombs |-> s.tombs]
                      /\ TaskDict(s.tasks) /\ TasksOK(s.tasks)
                      /\ s.tombs \in Seq(TombstoneType)
                      /\ Restricts(T, s.tasks)
                      /\ Len(tombs) <= MAX_TASK_RESULT_TOMBSTONES =>
                           Len(s.tombs) <= MAX_TASK_RESULT_TOMBSTONES
                      /\ OldestPruned(T, s.tasks, protected)
                      /\ Retires(T, tombs, s.tasks, s.tombs)
<1>1. /\ Cardinality(DOMAIN T) \in Nat /\ MAX_TASKS \in Nat
      /\ required \in 0..3 /\ k = Cardinality(DOMAIN T) + required - MAX_TASKS
  BY FS_CardinalityType, LimitsAssumption DEF TaskDict, MAX_OPERATION_STEPS, SlotsToFree
<1>2. k \in Int /\ k <= 3
  BY <1>1
<1>3. ASSUME NEW s, TaskDict(s.tasks)
      PROVE  /\ Cardinality(P(s)) \in Nat
             /\ Cardinality(P(s)) > 0 => P(s) # {}
  <2>1. P(s) \in SUBSET DOMAIN s.tasks /\ IsFiniteSet(DOMAIN s.tasks)
    BY <1>3 DEF Prunable, TaskDict
  <2>2. IsFiniteSet(P(s))
    BY <2>1, FS_Subset
  <2>3. QED  BY <2>2, FS_CardinalityType, FS_EmptySet
<1>4. Good(s0) /\ Cardinality(P(s0)) >= k /\ DOMAIN s0.tasks = DOMAIN T
  <2>1. Restricts(T, T)
    BY DEF Restricts, TaskDict
  <2>2. s0.tasks = T /\ s0.tombs = tombs
    OBVIOUS
  <2>3. OldestPruned(T, T, protected)
    BY <2>1 DEF OldestPruned
  <2>4. Retires(T, tombs, T, tombs)
    <3>1. Listed(T, tombs, T, tombs) /\ Window(tombs, 0, tombs)
      BY LenProperties DEF Listed, Window
    <3>2. QED  BY <3>1 DEF Retires
  <2>5. QED  BY <2>1, <2>2, <2>3, <2>4 DEF HasSlots
<1> HIDE DEF k, s0
<1>5. ASSUME NEW s, Good(s), Cardinality(P(s)) > 0
      PROVE  LET f == FreeOne(s, protected)
             IN /\ Good(f) /\ Cardinality(P(f)) = Cardinality(P(s)) - 1
                /\ Cardinality(DOMAIN f.tasks) = Cardinality(DOMAIN s.tasks) - 1
  <2> DEFINE f == FreeOne(s, protected)
  <2>1. P(s) # {}
    BY <1>3, <1>5
  <2>2. /\ f = [tasks |-> f.tasks, tombs |-> f.tombs]
        /\ Restricts(s.tasks, f.tasks)
        /\ TaskDict(f.tasks) /\ TasksOK(f.tasks)
        /\ f.tombs \in Seq(TombstoneType)
        /\ Len(s.tombs) <= MAX_TASK_RESULT_TOMBSTONES =>
             Len(f.tombs) <= MAX_TASK_RESULT_TOMBSTONES
        /\ Cardinality(P(f)) = Cardinality(P(s)) - 1
        /\ Cardinality(DOMAIN f.tasks) = Cardinality(DOMAIN s.tasks) - 1
    BY <1>5, <2>1, FreeOneOK
  <2>3. PICK a \in P(s) : /\ \A j \in P(s) : a <= j
                          /\ f.tasks = [i \in DOMAIN s.tasks \ {a} |-> s.tasks[i]]
                          /\ f.tombs = Remember(s.tombs, a, s.tasks[a])
    BY <1>5, <2>1, FreeOneOldest
  <2> HIDE DEF f
  <2>4. OldestPruned(T, f.tasks, protected)
    BY <1>5, <2>3, OldestPrunedStep
  <2>5. Restricts(T, f.tasks)
    BY <2>4 DEF OldestPruned
  <2>6. Retires(T, tombs, f.tasks, f.tombs)
    <3>1. a \in DOMAIN s.tasks
      BY DEF Prunable
    <3>2. AcceptOK(T)
      BY DEF TasksOK
    <3>3. QED  BY <1>5, <2>3, <3>1, <3>2, RetiresStep, ZenonT(30)
  <2>7. QED  BY <1>5, <2>2, <2>4, <2>5, <2>6 DEF f
<1>6. ASSUME k > 0
      PROVE  /\ Good(s1) /\ Cardinality(P(s1)) >= k - 1
             /\ Cardinality(DOMAIN s1.tasks) = Cardinality(DOMAIN T) - 1
  <2>1. Cardinality(P(s0)) \in Nat
    BY <1>3, <1>4
  <2>2. Cardinality(P(s0)) > 0
    BY <1>2, <1>4, <1>6, <2>1
  <2>3. /\ Good(s1) /\ Cardinality(P(s1)) = Cardinality(P(s0)) - 1
        /\ Cardinality(DOMAIN s1.tasks) = Cardinality(DOMAIN s0.tasks) - 1
    BY <1>4, <1>5, <2>2
  <2> HIDE DEF s1, Good, P
  <2>4. QED  BY <1>2, <1>4, <2>1, <2>3
<1> HIDE DEF s1
<1>7. ASSUME k > 1
      PROVE  /\ Good(s2) /\ Cardinality(P(s2)) >= k - 2
             /\ Cardinality(DOMAIN s2.tasks) = Cardinality(DOMAIN T) - 2
  <2>1. Good(s1) /\ Cardinality(P(s1)) >= k - 1
        /\ Cardinality(DOMAIN s1.tasks) = Cardinality(DOMAIN T) - 1
    BY <1>2, <1>6, <1>7
  <2>2. Cardinality(P(s1)) \in Nat
    BY <1>3, <2>1
  <2>3. Cardinality(P(s1)) > 0
    BY <1>2, <1>7, <2>1, <2>2
  <2>4. /\ Good(s2) /\ Cardinality(P(s2)) = Cardinality(P(s1)) - 1
        /\ Cardinality(DOMAIN s2.tasks) = Cardinality(DOMAIN s1.tasks) - 1
    BY <1>5, <2>1, <2>3
  <2> HIDE DEF s2, Good, P
  <2>5. QED  BY <1>1, <1>2, <2>1, <2>2, <2>4, SMTT(20)
<1> HIDE DEF s2
<1>8. ASSUME k > 2
      PROVE  Good(s3) /\ Cardinality(DOMAIN s3.tasks) = Cardinality(DOMAIN T) - 3
  <2>1. Good(s2) /\ Cardinality(P(s2)) >= k - 2
        /\ Cardinality(DOMAIN s2.tasks) = Cardinality(DOMAIN T) - 2
    BY <1>2, <1>7, <1>8
  <2>2. Cardinality(P(s2)) \in Nat
    BY <1>3, <2>1
  <2>3. Cardinality(P(s2)) > 0
    BY <1>2, <1>8, <2>1, <2>2
  <2>4. Good(s3) /\ Cardinality(DOMAIN s3.tasks) = Cardinality(DOMAIN s2.tasks) - 1
    BY <1>5, <2>1, <2>3
  <2> HIDE DEF s3, Good, P
  <2>5. QED  BY <1>1, <2>1, <2>4
<1> HIDE DEF s3
<1> DEFINE m == MakeTaskSlots(T, tombs, protected, required)
<1>9. m = CASE k <= 0 -> s0 [] k = 1 -> s1 [] k = 2 -> s2 [] k > 2 -> s3
  BY DEF MakeTaskSlots, k, s0, s1, s2, s3
<1> HIDE DEF m, Good, P
<1>10. /\ Good(m) /\ Cardinality(DOMAIN m.tasks) + required <= MAX_TASKS
       /\ m.tasks = T \/ Cardinality(DOMAIN m.tasks) + required = MAX_TASKS
  <2>1. CASE k <= 0
    <3>1. m = s0
      BY <1>2, <1>9, <2>1
    <3>2. s0.tasks = T
      BY DEF s0
    <3>3. QED  BY <1>1, <1>4, <2>1, <3>1, <3>2
  <2>2. CASE k = 1
    <3>1. m = s1
      BY <1>2, <1>9, <2>2
    <3>2. QED  BY <1>1, <1>6, <2>2, <3>1
  <2>3. CASE k = 2
    <3>1. m = s2
      BY <1>2, <1>9, <2>3
    <3>2. QED  BY <1>1, <1>7, <2>3, <3>1
  <2>4. CASE k > 2
    <3>1. m = s3 /\ k = 3
      BY <1>2, <1>9, <2>4
    <3>2. QED  BY <1>1, <1>8, <2>4, <3>1
  <2>5. QED  BY <1>2, <2>1, <2>2, <2>3, <2>4
<1>11. QED  BY <1>10 DEF Good, m

(* What the admission handlers queue: typed, waiting, never delivered. *)
FreshTask(t) ==
  /\ t \in TaskType
  /\ t.status = "queued" /\ t.delivery_attempts = 0 /\ t.accepted = FALSE
  /\ t.type = "SLEEP" => t.interval \in PollIntervals

(* The record an admission handler builds is queued, undelivered and unanswered. *)
LEMMA NewTaskFresh ==
  ASSUME NEW n \in Nat, NEW r \in TaskRequestType, NEW lag \in Lags,
         r.type = "SLEEP" => r.interval \in PollIntervals
  PROVE  /\ FreshTask(NewTask(n, r, lag))
         /\ NewTask(n, r, lag).node = n /\ NewTask(n, r, lag).type = r.type
         /\ NewTask(n, r, lag).key = r.key /\ NewTask(n, r, lag).exercise = 0
         /\ NewTask(n, r, lag).playbook = r.playbook
<1>a. r.ttl \in QueueTTLs
  BY DEF TaskRequestType
<1>b. PICK tt \in Nat : tt = r.ttl
  <2>1. QueueTTLs \subseteq Nat
    BY TimeAssumption
  <2>2. QED  BY <1>a, <2>1, Zenon
<1>d. PICK ll \in Nat : ll = lag
  BY TimeAssumption DEF Lags
<1>1. PICK z \in Int : z = r.ttl - lag
  BY <1>b, <1>d
<1>2. NoResult \in Results
  BY DEF NoResult, Results, ServerResults
<1>3. /\ r.type \in TASK_TYPES /\ r.playbook \in PLAYBOOK_NAMES \cup {""}
      /\ r.interval \in PollIntervals \cup {0} /\ r.created_by \in Actors
      /\ r.ttl \in QueueTTLs /\ r.key \in Keys \cup {NoKey}
  BY DEF TaskRequestType
<1>4. "queued" \in LIVE_TASK_STATUSES \cup TERMINAL_TASK_STATUSES
  BY DEF LIVE_TASK_STATUSES
<1>5. PICK q \in LIVE_TASK_STATUSES \cup TERMINAL_TASK_STATUSES : q = "queued"
  BY <1>4
<1>6. PICK f \in BOOLEAN : f = FALSE
  OBVIOUS
<1>7. PICK o \in Nat : o = 0
  OBVIOUS
<1>8. NewTask(n, r, lag) =
        [node |-> n, type |-> r.type, playbook |-> r.playbook,
         interval |-> r.interval, created_by |-> r.created_by,
         ttl |-> r.ttl, key |-> r.key, status |-> q, result |-> NoResult,
         delivery_attempts |-> o, timer |-> z, accepted |-> f,
         exercise |-> o, operation |-> o]
  BY <1>1, <1>5, <1>6, <1>7 DEF NewTask
<1>c. PICK res \in Results : res = NoResult
  BY <1>2
<1>9. NewTask(n, r, lag) \in TaskType
  <2>1. PICK ty \in TASK_TYPES : ty = r.type
    BY <1>3
  <2>2. PICK pb \in PLAYBOOK_NAMES \cup {""} : pb = r.playbook
    BY <1>3
  <2>3. PICK iv \in PollIntervals \cup {0} : iv = r.interval
    BY <1>3
  <2>4. PICK by \in Actors : by = r.created_by
    BY <1>3
  <2>5. PICK tl \in QueueTTLs : tl = r.ttl
    BY <1>3
  <2>6. PICK ke \in Keys \cup {NoKey} : ke = r.key
    BY <1>3
  <2>7. NewTask(n, r, lag) =
        [node |-> n, type |-> ty, playbook |-> pb,
         interval |-> iv, created_by |-> by,
         ttl |-> tl, key |-> ke, status |-> q, result |-> res,
         delivery_attempts |-> o, timer |-> z, accepted |-> f,
         exercise |-> o, operation |-> o]
    BY <1>8, <1>c, <2>1, <2>2, <2>3, <2>4, <2>5, <2>6
  <2>8. [node |-> n, type |-> ty, playbook |-> pb,
         interval |-> iv, created_by |-> by,
         ttl |-> tl, key |-> ke, status |-> q, result |-> res,
         delivery_attempts |-> o, timer |-> z, accepted |-> f,
         exercise |-> o, operation |-> o] \in TaskType
    BY DEF TaskType
  <2>9. QED  BY <2>7, <2>8
<1>10. NewTask(n, r, lag).accepted = FALSE
  BY Zenon DEF NewTask
<1>11. QED  BY <1>5, <1>7, <1>8, <1>9, <1>10 DEF FreshTask

(* The records of queue_operation and start_exercise. *)
LEMMA PlaybookTaskFresh ==
  ASSUME NEW n \in Nat, NEW p \in PLAYBOOK_NAMES, NEW actor \in Actors,
         NEW ttl \in QueueTTLs, NEW lag \in Lags, NEW id \in Nat
  PROVE  /\ FreshTask(OperationTask(n, p, actor, ttl, lag, id))
         /\ OperationTask(n, p, actor, ttl, lag, id).node = n
         /\ OperationTask(n, p, actor, ttl, lag, id).key = NoKey
         /\ OperationTask(n, p, actor, ttl, lag, id).exercise = 0
         /\ ttl = DEFAULT_QUEUE_TTL_SECONDS =>
              /\ FreshTask(ExerciseTask(n, p, actor, lag, id))
              /\ ExerciseTask(n, p, actor, lag, id).node = n
              /\ ExerciseTask(n, p, actor, lag, id).key = NoKey
              /\ ExerciseTask(n, p, actor, lag, id).exercise = id
              /\ ExerciseTask(n, p, actor, lag, id).playbook = p
<1> DEFINE r == [type |-> "RUN_PLAYBOOK", playbook |-> p, interval |-> 0,
                 created_by |-> actor, ttl |-> ttl, key |-> NoKey]
           t == PlaybookTask(n, p, actor, ttl, lag)
<1>1. /\ r \in TaskRequestType /\ r.type = "RUN_PLAYBOOK"
      /\ r.key = NoKey /\ r.playbook = p
  BY DEF TaskRequestType, TASK_TYPES
<1> HIDE DEF r
<1>2. FreshTask(NewTask(n, r, lag)) /\ NewTask(n, r, lag).node = n
      /\ NewTask(n, r, lag).type = "RUN_PLAYBOOK" /\ NewTask(n, r, lag).key = NoKey
      /\ NewTask(n, r, lag).exercise = 0 /\ NewTask(n, r, lag).playbook = p
  BY <1>1, NewTaskFresh
<1>3. /\ FreshTask(t) /\ t.node = n /\ t.type = "RUN_PLAYBOOK" /\ t.key = NoKey
      /\ t.exercise = 0 /\ t.playbook = p
  BY <1>2 DEF PlaybookTask, r
<1> HIDE DEF t
<1>4. t \in TaskType
  BY <1>3 DEF FreshTask
<1>5. [t EXCEPT !.operation = id] \in TaskType /\ [t EXCEPT !.exercise = id] \in TaskType
  BY <1>4 DEF TaskType
<1>6. /\ [t EXCEPT !.operation = id].status = t.status
      /\ [t EXCEPT !.operation = id].delivery_attempts = t.delivery_attempts
      /\ [t EXCEPT !.operation = id].type = t.type
      /\ [t EXCEPT !.operation = id].node = t.node
      /\ [t EXCEPT !.operation = id].key = t.key
      /\ [t EXCEPT !.operation = id].exercise = t.exercise
  BY <1>4 DEF TaskType
<1>7. /\ [t EXCEPT !.exercise = id].status = t.status
      /\ [t EXCEPT !.exercise = id].delivery_attempts = t.delivery_attempts
      /\ [t EXCEPT !.exercise = id].type = t.type
      /\ [t EXCEPT !.exercise = id].node = t.node
      /\ [t EXCEPT !.exercise = id].key = t.key
      /\ [t EXCEPT !.exercise = id].exercise = id
      /\ [t EXCEPT !.exercise = id].playbook = t.playbook
  BY <1>4 DEF TaskType
<1>8. /\ [t EXCEPT !.operation = id].accepted = t.accepted
      /\ [t EXCEPT !.exercise = id].accepted = t.accepted
  BY <1>4, Zenon DEF TaskType
<1>9. OperationTask(n, p, actor, ttl, lag, id) = [t EXCEPT !.operation = id]
  BY DEF OperationTask, t
<1>10. ttl = DEFAULT_QUEUE_TTL_SECONDS =>
         ExerciseTask(n, p, actor, lag, id) = [t EXCEPT !.exercise = id]
  BY DEF ExerciseTask, t
<1>11. QED  BY <1>3, <1>5, <1>6, <1>7, <1>8, <1>9, <1>10 DEF FreshTask

Below(T, next) == \A i \in DOMAIN T : i < next

AllFresh(records, k) == Len(records) = k /\ \A m \in 1..k : FreshTask(records[m])

(* U is T with the k records behind it. *)
Adds(T, U, next, k, records) ==
  /\ DOMAIN U = DOMAIN T \cup next..(next + k - 1)
  /\ \A i \in DOMAIN T : U[i] = T[i]
  /\ \A i \in next..(next + k - 1) : U[i] = records[i - next + 1]

(* Newly queued tasks go behind the tasks that are there. *)
LEMMA AddTasksOK ==
  ASSUME NEW T, TaskDict(T), TasksOK(T), NEW next \in Nat, NEW records,
         NEW k \in Nat, Below(T, next), AllFresh(records, k),
         NEW U, U = AddTasks(T, next, records)
  PROVE  TaskDict(U) /\ TasksOK(U) /\ Adds(T, U, next, k, records)
<1> DEFINE new == next..(next + k - 1)
<1>0. /\ Len(records) = k /\ \A m \in 1..k : FreshTask(records[m])
      /\ \A i \in DOMAIN T : i < next
  BY DEF Below, AllFresh
<1>1. DOMAIN U = DOMAIN T \cup new
  BY <1>0 DEF AddTasks
<1>2. \A i \in DOMAIN T : U[i] = T[i]
  BY <1>0 DEF AddTasks, TaskDict
<1>3. \A i \in new : U[i] = records[i - next + 1]
  BY <1>0 DEF AddTasks
<1>3a. U = [i \in DOMAIN U |-> U[i]]
  BY <1>0 DEF AddTasks
<1>4. \A i \in new : FreshTask(U[i])
  <2>1. \A i \in new : i - next + 1 \in 1..k
    OBVIOUS
  <2>2. QED  BY <1>0, <1>3, <2>1
<1>5. \A i \in new : i \in Nat /\ i >= next /\ i \notin DOMAIN T
  BY <1>0 DEF TaskDict
<1>6. TaskDict(U)
  <2>1. \A i \in DOMAIN U : U[i] \in TaskType
    BY <1>1, <1>2, <1>4 DEF FreshTask, TaskDict
  <2>2. DOMAIN U \subseteq Nat
    BY <1>1, <1>5 DEF TaskDict
  <2>3. IsFiniteSet(new)
    BY FS_Interval
  <2>4. IsFiniteSet(DOMAIN U)
    BY <1>1, <2>3, FS_Union DEF TaskDict
  <2>5. QED  BY <1>3a, <2>1, <2>2, <2>4 DEF TaskDict
<1> HIDE DEF new
<1>7. FlightOK(U)
  BY <1>1, <1>2, <1>4 DEF FlightOK, FreshTask, TasksOK
<1>8. OrderOK(U)
  <2>1. ASSUME NEW i \in DOMAIN U, NEW j \in DOMAIN U, i < j,
               U[i].node = U[j].node, U[j].delivery_attempts > 0
        PROVE  U[i].status # "queued"
    <3>1. j \in DOMAIN T
      BY <1>1, <1>4, <2>1 DEF FreshTask
    <3>2. i \in DOMAIN T
      BY <1>0, <1>1, <1>5, <1>6, <2>1, <3>1 DEF TaskDict
    <3>3. QED  BY <1>2, <2>1, <3>1, <3>2 DEF OrderOK, TasksOK
  <2>2. \A i \in DOMAIN U : U[i].status = "dispatched" => U[i].delivery_attempts > 0
    BY <1>1, <1>2, <1>4 DEF OrderOK, TasksOK, FreshTask
  <2>3. QED  BY <2>1, <2>2 DEF OrderOK
<1>9. AcceptOK(U)
  BY <1>1, <1>2, <1>4 DEF AcceptOK, FreshTask, TasksOK
<1>10. SleepOK(U)
  BY <1>1, <1>2, <1>4 DEF SleepOK, FreshTask, TasksOK
<1>11. QED  BY <1>1, <1>2, <1>3, <1>6, <1>7, <1>8, <1>9, <1>10 DEF TasksOK, new, Adds

-----------------------------------------------------------------------------
(***************************************************************************)
(* The inductive invariant of the ledger.                                  *)
(***************************************************************************)
SeqOK == seq \in [node : Nat, task : Nat, operation : Nat, exercise : Nat]

LedgerInv ==
  /\ SeqOK
  /\ NodeDict(nodes) /\ DOMAIN nodes \subseteq 1..seq.node
  /\ TaskDict(tasks) /\ DOMAIN tasks \subseteq 1..seq.task
  /\ Cardinality(DOMAIN tasks) <= MAX_TASKS
  /\ tombstones \in Seq(TombstoneType)
  /\ LedgerOK(nodes, tasks)

(* The empty ledger of LabState.__init__ satisfies the invariant. *)
LEMMA LedgerInit == Init => LedgerInv
<1> SUFFICES ASSUME Init PROVE LedgerInv
  OBVIOUS
<1>1. SeqOK
  BY DEF Init, SeqOK
<1>2. DOMAIN nodes = {} /\ DOMAIN tasks = {}
  BY DEF Init, EmptyDict
<1>3. nodes \in [DOMAIN nodes -> NodeType] /\ tasks \in [DOMAIN tasks -> TaskType]
  BY DEF Init, EmptyDict
<1>4. IsFiniteSet(DOMAIN tasks) /\ Cardinality(DOMAIN tasks) <= MAX_TASKS
  BY <1>2, FS_EmptySet, LimitsAssumption
<1>5. tombstones \in Seq(TombstoneType)
  BY EmptySeq DEF Init
<1>6. LedgerOK(nodes, tasks)
  BY <1>2 DEF LedgerOK, TasksOK, FlightOK, OrderOK, AcceptOK, SleepOK, OwnedOK
<1>7. QED  BY <1>1, <1>2, <1>3, <1>4, <1>5, <1>6 DEF LedgerInv, NodeDict, TaskDict

(* Live work stays owned when no task changes hands or comes back to life
   and no session with work closes. *)
LEMMA OwnedKept ==
  ASSUME NEW N, NEW M, NEW T, NEW U, OwnedOK(N, T),
         \A i \in DOMAIN U : /\ i \in DOMAIN T /\ U[i].node = T[i].node
                             /\ Live(U[i]) => Live(T[i]),
         \A n : Authentic(N, n) => Authentic(M, n)
  PROVE  OwnedOK(M, U)
BY DEF OwnedOK

-----------------------------------------------------------------------------
(* A tick of the clock ages a node and nothing else. *)
LEMMA OlderNodeType ==
  ASSUME NEW node \in NodeType
  PROVE  OlderNode(node) \in NodeType /\ OlderNode(node).session_active = node.session_active
<1>1. node.age \in Nat
  BY DEF NodeType
<1>2. PICK b \in Nat : b = node.age + 1
  BY <1>1
<1>3. PICK a \in Nat : a = IF node.age < AgeCap THEN node.age + 1 ELSE node.age
  BY <1>1, <1>2
<1>4. OlderNode(node) = [node EXCEPT !.age = a]
  BY <1>3 DEF OlderNode
<1>5. [node EXCEPT !.age = a] \in NodeType
  BY DEF NodeType
<1>6. [node EXCEPT !.age = a].session_active = node.session_active
  BY Zenon DEF NodeType
<1>7. QED  BY <1>4, <1>5, <1>6

(* A tick of the clock moves the timer of a live task and nothing else. *)
LEMMA OlderTaskType ==
  ASSUME NEW t \in TaskType
  PROVE  /\ OlderTask(t) \in TaskType
         /\ OlderTask(t).node = t.node /\ OlderTask(t).status = t.status
         /\ OlderTask(t).delivery_attempts = t.delivery_attempts
         /\ OlderTask(t).accepted = t.accepted
         /\ SameTask(t, OlderTask(t)) /\ OlderTask(t).result = t.result
         /\ ~Live(t) => OlderTask(t) = t
<1>1. t.timer \in Int
  BY DEF TaskType
<1>2. PICK y \in Int : y = t.timer - 1
  BY <1>1
<1>3. PICK z \in Int : z = IF Live(t) /\ t.timer > -MaxLag THEN t.timer - 1 ELSE t.timer
  BY <1>1, <1>2
<1> DEFINE u == [t EXCEPT !.timer = z]
<1>4. OlderTask(t) = u
  BY <1>3 DEF OlderTask
<1>5. u \in TaskType
  BY DEF TaskType
<1>6. u.accepted = t.accepted
  BY Zenon DEF TaskType
<1>7. /\ u.node = t.node /\ u.status = t.status /\ u.result = t.result
      /\ u.delivery_attempts = t.delivery_attempts /\ SameTask(t, u)
  BY DEF TaskType, SameTask
<1>8. ~Live(t) => u = t
  BY <1>3 DEF TaskType
<1>9. QED  BY <1>4, <1>5, <1>6, <1>7, <1>8

(* The clock preserves the ledger invariant. *)
LEMMA TickLedger == LedgerInv /\ Tick => LedgerInv'
<1> SUFFICES ASSUME LedgerInv, Tick PROVE LedgerInv'
  OBVIOUS
<1>1. \A n \in DOMAIN nodes : nodes[n] \in NodeType
  BY DEF LedgerInv, NodeDict
<1>2. \A i \in DOMAIN tasks : tasks[i] \in TaskType
  BY DEF LedgerInv, TaskDict
<1>3. /\ DOMAIN nodes' = DOMAIN nodes /\ DOMAIN tasks' = DOMAIN tasks
      /\ \A n \in DOMAIN nodes : nodes'[n] = OlderNode(nodes[n])
      /\ \A i \in DOMAIN tasks : tasks'[i] = OlderTask(tasks[i])
  BY DEF Tick
<1>4. NodeDict(nodes')
  BY <1>1, <1>3, OlderNodeType DEF NodeDict, LedgerInv, Tick
<1>5. \A i \in DOMAIN tasks :
        /\ tasks'[i] \in TaskType
        /\ tasks'[i].node = tasks[i].node /\ tasks'[i].status = tasks[i].status
        /\ tasks'[i].delivery_attempts = tasks[i].delivery_attempts
        /\ tasks'[i].accepted = tasks[i].accepted
        /\ tasks'[i].type = tasks[i].type /\ tasks'[i].interval = tasks[i].interval
  BY <1>2, <1>3, OlderTaskType DEF SameTask
<1>6. TaskDict(tasks')
  BY <1>3, <1>5 DEF TaskDict, LedgerInv, Tick
<1>7. FlightOK(tasks')
  BY <1>3, <1>5 DEF FlightOK, LedgerInv, LedgerOK, TasksOK
<1>8. OrderOK(tasks')
  BY <1>3, <1>5 DEF OrderOK, LedgerInv, LedgerOK, TasksOK
<1>9. AcceptOK(tasks')
  BY <1>3, <1>5 DEF AcceptOK, LedgerInv, LedgerOK, TasksOK
<1>10. SleepOK(tasks')
  BY <1>3, <1>5 DEF SleepOK, LedgerInv, LedgerOK, TasksOK
<1>11. \A n : Authentic(nodes, n) => Authentic(nodes', n)
  BY <1>1, <1>3, OlderNodeType DEF Authentic
<1>12. OwnedOK(nodes', tasks')
  BY <1>3, <1>5, <1>11 DEF OwnedOK, Live, LedgerInv, LedgerOK
<1>13. seq' = seq /\ tombstones' = tombstones
  BY DEF Tick
<1>14. QED
  BY <1>3, <1>4, <1>6, <1>7, <1>8, <1>9, <1>10, <1>12, <1>13
     DEF LedgerInv, LedgerOK, TasksOK, SeqOK

(* _expire_locked preserves the ledger invariant. *)
LEMMA ExpireLedger ==
  ASSUME LedgerInv, NEW lag \in Lags, Expire(lag) PROVE LedgerInv'
<1>1. /\ nodes' = ExpiredNodes(nodes, tasks, lag) /\ tasks' = ExpiredTasks(nodes, tasks, lag)
      /\ seq' = seq /\ tombstones' = tombstones
  BY DEF Expire
<1>2. NodeDict(nodes) /\ TaskDict(tasks) /\ LedgerOK(nodes, tasks)
  BY DEF LedgerInv
<1>3. NodeDict(nodes') /\ DOMAIN nodes' = DOMAIN nodes
  BY <1>1, <1>2, ExpiredNodesType
<1>4. TaskDict(tasks') /\ Settles(tasks, tasks') /\ LedgerOK(nodes', tasks')
  BY <1>1, <1>2, ExpiryKeepsLedger
<1>5. DOMAIN tasks' = DOMAIN tasks
  BY <1>4 DEF Settles
<1>6. QED  BY <1>1, <1>3, <1>4, <1>5 DEF LedgerInv, SeqOK
-----------------------------------------------------------------------------
(* Node handlers. *)

LEMMA NewNodeType ==
  ASSUME NEW e \in AnyEnrolment, NEW lag \in Lags
  PROVE  NewNode(e.profile, e.poll_interval, lag) \in NodeType
<1>1. PICK p \in Profiles : p = e.profile
  BY DEF AnyEnrolment
<1>2. PICK i \in PollIntervals : i = e.poll_interval
  BY DEF AnyEnrolment
<1>3. PICK a \in Nat : a = lag
  BY TimeAssumption DEF Lags
<1>4. PICK s \in {"online", "offline"} : s = "online"
  OBVIOUS
<1>5. PICK y \in BOOLEAN : y = TRUE
  OBVIOUS
<1>6. PICK f \in BOOLEAN : f = FALSE
  OBVIOUS
<1>7. PICK z \in Nat : z = 0
  OBVIOUS
<1>8. [status |-> s, session_active |-> y, profile |-> p, poll_interval |-> i,
       tasks_completed |-> z, tasks_failed |-> z, tasking_paused |-> f,
       age |-> a] \in NodeType
  BY DEF NodeType
<1>9. QED  BY <1>1, <1>2, <1>3, <1>4, <1>5, <1>6, <1>7, <1>8 DEF NewNode

(* enroll_node never gives up a record whose session is open. *)
LEMMA NodesWithRoomKeepsOpen ==
  ASSUME NEW N, NodeDict(N), Cardinality(DOMAIN N) >= MAX_NODES => ClosedNodes(N) # {}
  PROVE  /\ NodeDict(NodesWithRoom(N)) /\ DOMAIN NodesWithRoom(N) \subseteq DOMAIN N
         /\ \A n : Authentic(N, n) =>
              n \in DOMAIN NodesWithRoom(N) /\ NodesWithRoom(N)[n] = N[n]
<1>1. CASE Cardinality(DOMAIN N) >= MAX_NODES
  <2> DEFINE c == Least(ClosedNodes(N))
  <2>1. ClosedNodes(N) \in SUBSET Nat
    BY DEF ClosedNodes, NodeDict
  <2>2. c \in ClosedNodes(N)
    BY <1>1, <2>1, LeastInSet
  <2>3. NodesWithRoom(N) = Drop(N, {c})
    BY <1>1 DEF NodesWithRoom
  <2> HIDE DEF c
  <2>4. /\ Drop(N, {c}) = [i \in DOMAIN N \ {c} |-> N[i]]
        /\ DOMAIN Drop(N, {c}) = DOMAIN N \ {c}
    BY DEF Drop
  <2>5. \A n : Authentic(N, n) => n \in DOMAIN N \ {c}
    BY <2>2 DEF Authentic, ClosedNodes
  <2>6. NodeDict(Drop(N, {c}))
    BY <2>4 DEF NodeDict
  <2>7. QED  BY <2>3, <2>4, <2>5, <2>6
<1>2. CASE ~(Cardinality(DOMAIN N) >= MAX_NODES)
  BY <1>2 DEF NodesWithRoom, Authentic
<1>3. QED  BY <1>1, <1>2

(* enroll_node, pruning of closed nodes included, preserves the ledger
   invariant: the nodes it forgets own no live task. *)
LEMMA EnrollLedger ==
  ASSUME LedgerInv, NEW e \in AnyEnrolment, NEW lag \in Lags, enroll_node(e, lag)
  PROVE  LedgerInv'
<1> DEFINE n == seq.node + 1
           R == NodesWithRoom(nodes)
           new == NewNode(e.profile, e.poll_interval, lag)
<1>1. /\ nodes' = Put(R, n, new) /\ seq' = [seq EXCEPT !.node = n]
      /\ tasks' = tasks /\ tombstones' = tombstones
      /\ Cardinality(DOMAIN nodes) >= MAX_NODES => ClosedNodes(nodes) # {}
  BY DEF enroll_node
<1>2. seq.node \in Nat /\ n \in Nat /\ n \notin DOMAIN nodes
  BY DEF LedgerInv, SeqOK
<1>3. SeqOK' /\ seq'.node = n /\ seq'.task = seq.task
  BY <1>1, <1>2 DEF LedgerInv, SeqOK
<1>4. new \in NodeType
  BY NewNodeType
<1>5. /\ NodeDict(R) /\ DOMAIN R \subseteq DOMAIN nodes
      /\ \A k : Authentic(nodes, k) => k \in DOMAIN R /\ R[k] = nodes[k]
  BY <1>1, NodesWithRoomKeepsOpen DEF LedgerInv
<1> HIDE DEF R, new
<1>6. /\ DOMAIN nodes' = DOMAIN R \cup {n}
      /\ \A k \in DOMAIN R : k # n => nodes'[k] = R[k]
  BY <1>1 DEF Put
<1>7. NodeDict(nodes')
  BY <1>1, <1>2, <1>4, <1>5 DEF NodeDict, Put
<1>8. \A k : Authentic(nodes, k) => Authentic(nodes', k)
  BY <1>2, <1>5, <1>6 DEF Authentic
<1>9. OwnedOK(nodes', tasks')
  BY <1>1, <1>8 DEF OwnedOK, LedgerInv, LedgerOK
<1>10. DOMAIN nodes' \subseteq 1..seq'.node
  <2>1. \A k \in DOMAIN nodes : k \in 1..n
    BY <1>2 DEF LedgerInv
  <2>2. QED  BY <1>2, <1>3, <1>5, <1>6, <2>1
<1>11. QED
  BY <1>1, <1>3, <1>7, <1>9, <1>10 DEF LedgerInv, LedgerOK

(* poll_node and submit_result start from the expired ledger. *)
LEMMA ExpiredLedger ==
  ASSUME LedgerInv, NEW lag \in Lags
  PROVE  LET N == ExpiredNodes(nodes, tasks, lag)
             T == ExpiredTasks(nodes, tasks, lag)
         IN /\ NodeDict(N) /\ DOMAIN N = DOMAIN nodes
            /\ TaskDict(T) /\ DOMAIN T = DOMAIN tasks
            /\ TasksOK(T) /\ OwnedOK(N, T)
<1>1. NodeDict(nodes) /\ TaskDict(tasks) /\ LedgerOK(nodes, tasks)
  BY DEF LedgerInv
<1>2. /\ NodeDict(ExpiredNodes(nodes, tasks, lag))
      /\ DOMAIN ExpiredNodes(nodes, tasks, lag) = DOMAIN nodes
  BY <1>1, ExpiredNodesType
<1>3. /\ TaskDict(ExpiredTasks(nodes, tasks, lag))
      /\ Settles(tasks, ExpiredTasks(nodes, tasks, lag))
      /\ LedgerOK(ExpiredNodes(nodes, tasks, lag), ExpiredTasks(nodes, tasks, lag))
  BY <1>1, ExpiryKeepsLedger
<1>4. DOMAIN ExpiredTasks(nodes, tasks, lag) = DOMAIN tasks
  BY <1>3 DEF Settles
<1>5. QED  BY <1>2, <1>3, <1>4 DEF LedgerOK

(* Replacing the record of one node by one whose session is as open. *)
LEMMA ReplaceNode ==
  ASSUME NEW N, NodeDict(N), NEW n \in DOMAIN N, NEW m \in NodeType,
         N[n].session_active => m.session_active
  PROVE  LET M == [N EXCEPT ![n] = m]
         IN /\ NodeDict(M) /\ DOMAIN M = DOMAIN N
            /\ \A k : Authentic(N, k) => Authentic(M, k)
<1> DEFINE M == [N EXCEPT ![n] = m]
<1>1. NodeDict(M) /\ DOMAIN M = DOMAIN N
  BY DEF NodeDict
<1>2. \A k \in DOMAIN N : M[k] = IF k = n THEN m ELSE N[k]
  OBVIOUS
<1>3. QED  BY <1>1, <1>2 DEF Authentic

(* poll_node preserves the ledger invariant. *)
LEMMA PollLedger ==
  ASSUME LedgerInv, NEW n \in DOMAIN nodes, NEW lag \in Lags, poll_node(n, lag)
  PROVE  LedgerInv'
<1> DEFINE N == ExpiredNodes(nodes, tasks, lag)
           T == ExpiredTasks(nodes, tasks, lag)
           m == PolledNode(N[n], lag)
<1>1. /\ Authentic(N, n) /\ nodes' = [N EXCEPT ![n] = m]
      /\ tasks' = DeliveredTasks(T, n, N[n].tasking_paused, lag)
      /\ seq' = seq /\ tombstones' = tombstones
  BY DEF poll_node
<1>2. /\ NodeDict(N) /\ DOMAIN N = DOMAIN nodes /\ TaskDict(T)
      /\ DOMAIN T = DOMAIN tasks /\ TasksOK(T) /\ OwnedOK(N, T)
  BY ExpiredLedger
<1> HIDE DEF N, T
<1>3. N[n] \in NodeType /\ N[n].tasking_paused \in BOOLEAN
  BY <1>2 DEF NodeDict, NodeType
<1>4. m \in NodeType /\ m.session_active = N[n].session_active
  BY <1>3, PolledNodeType
<1> HIDE DEF m
<1>5. /\ NodeDict(nodes') /\ DOMAIN nodes' = DOMAIN N
      /\ \A k : Authentic(N, k) => Authentic(nodes', k)
  BY <1>1, <1>2, <1>4, ReplaceNode
<1>6. /\ TaskDict(tasks') /\ TasksOK(tasks') /\ DOMAIN tasks' = DOMAIN T
      /\ \A i \in DOMAIN T : tasks'[i].node = T[i].node /\ (Live(tasks'[i]) => Live(T[i]))
  BY <1>1, <1>2, <1>3, DeliveredKeepsTasks
<1>7. OwnedOK(nodes', tasks')
  BY <1>2, <1>5, <1>6, OwnedKept
<1>8. QED
  BY <1>1, <1>2, <1>5, <1>6, <1>7 DEF LedgerInv, LedgerOK, SeqOK

(* submit_result preserves the ledger invariant. *)
LEMMA SubmitLedger ==
  ASSUME LedgerInv, NEW n \in DOMAIN nodes, NEW i \in DOMAIN tasks,
         NEW s \in AnySubmission, NEW lag \in Lags, submit_result(n, i, s, lag)
  PROVE  LedgerInv'
<1> DEFINE N == ExpiredNodes(nodes, tasks, lag)
           T == ExpiredTasks(nodes, tasks, lag)
           m == CreditedNode(N[n], T[i], s, lag)
<1>1. /\ nodes' = [N EXCEPT ![n] = m]
      /\ tasks' = [T EXCEPT ![i] = AcceptedTask(T[i], s)]
      /\ seq' = seq /\ tombstones' = tombstones
  BY DEF submit_result
<1>2. /\ NodeDict(N) /\ DOMAIN N = DOMAIN nodes /\ TaskDict(T)
      /\ DOMAIN T = DOMAIN tasks /\ TasksOK(T) /\ OwnedOK(N, T)
  BY ExpiredLedger
<1> HIDE DEF N, T
<1>3. N[n] \in NodeType /\ T[i] \in TaskType
  BY <1>2 DEF NodeDict, TaskDict
<1>4. T[i].type = "SLEEP" => T[i].interval \in PollIntervals
  BY <1>2 DEF TasksOK, SleepOK
<1>5. m \in NodeType /\ m.session_active = N[n].session_active
  BY <1>3, <1>4, CreditedNodeType
<1> HIDE DEF m
<1>6. /\ NodeDict(nodes') /\ DOMAIN nodes' = DOMAIN N
      /\ \A k : Authentic(N, k) => Authentic(nodes', k)
  BY <1>1, <1>2, <1>5, ReplaceNode
<1>7. /\ TaskDict(tasks') /\ TasksOK(tasks') /\ DOMAIN tasks' = DOMAIN T
      /\ \A j \in DOMAIN T : tasks'[j].node = T[j].node /\ (Live(tasks'[j]) => Live(T[j]))
  <2>1. tasks' = RecordResult(T, i, s)
    BY <1>1 DEF RecordResult
  <2>2. QED  BY <1>2, <2>1, AcceptedKeepsTasks
<1>8. OwnedOK(nodes', tasks')
  BY <1>2, <1>6, <1>7, OwnedKept
<1>9. QED
  BY <1>1, <1>2, <1>6, <1>7, <1>8 DEF LedgerInv, LedgerOK, SeqOK

(* disconnect_node preserves the ledger invariant. *)
LEMMA DisconnectLedger ==
  ASSUME LedgerInv, NEW n \in DOMAIN nodes, disconnect_node(n)
  PROVE  LedgerInv'
<1> DEFINE k == Cardinality(UnfinishedOf(tasks, n))
           m == CloseSession(nodes[n], k)
<1>1. /\ nodes' = [nodes EXCEPT ![n] = m]
      /\ tasks' = FailUnfinished(tasks, {n}, "session_closed")
      /\ seq' = seq /\ tombstones' = tombstones
  BY DEF disconnect_node
<1>2. NodeDict(nodes) /\ TaskDict(tasks) /\ TasksOK(tasks) /\ OwnedOK(nodes, tasks)
  BY DEF LedgerInv, LedgerOK
<1>3. k \in Nat
  <2>1. UnfinishedOf(tasks, n) \in SUBSET DOMAIN tasks /\ IsFiniteSet(DOMAIN tasks)
    BY <1>2 DEF UnfinishedOf, TaskDict
  <2>2. QED  BY <2>1, FS_Subset, FS_CardinalityType
<1>4. nodes[n] \in NodeType
  BY <1>2 DEF NodeDict
<1> HIDE DEF k
<1>5. m \in NodeType
  BY <1>3, <1>4, CloseSessionType
<1> HIDE DEF m
<1>6. /\ NodeDict(nodes') /\ DOMAIN nodes' = DOMAIN nodes
      /\ \A j \in DOMAIN nodes : j # n => nodes'[j] = nodes[j]
  BY <1>1, <1>2, <1>5 DEF NodeDict
<1>7. "session_closed" \in ServerResults
  BY DEF ServerResults
<1>8. /\ Settles(tasks, tasks')
      /\ \A i \in DOMAIN tasks : Live(tasks'[i]) => tasks[i].node \notin {n}
  BY <1>1, <1>2, <1>7, FailUnfinishedSettles
<1>9. TaskDict(tasks') /\ DOMAIN tasks' = DOMAIN tasks /\ TasksOK(tasks')
  BY <1>2, <1>8, SettlesKeepsTaskDict, SettlesKeepsOrder
<1>10. ASSUME NEW i \in DOMAIN tasks', Live(tasks'[i])
       PROVE  Authentic(nodes', tasks'[i].node)
  <2>1. tasks'[i] = tasks[i] /\ tasks[i].node # n
    BY <1>8, <1>9, <1>10
       DEF Settles, SettledFrom, Live, Terminal, LIVE_TASK_STATUSES, TERMINAL_TASK_STATUSES
  <2>2. Authentic(nodes, tasks[i].node)
    BY <1>2, <1>9, <1>10, <2>1 DEF OwnedOK
  <2>3. QED  BY <1>6, <2>1, <2>2 DEF Authentic
<1>11. QED
  BY <1>1, <1>6, <1>9, <1>10 DEF LedgerInv, LedgerOK, SeqOK, OwnedOK
-----------------------------------------------------------------------------
(* Operator handlers. *)

(* No task that is kept changes. *)
Kept(T, U) == \A i \in DOMAIN T \cap DOMAIN U : U[i] = T[i]

(* The ids of the next k tasks. *)
NewIds(k) == (seq.task + 1)..(seq.task + k)

(* How an admission changes the ledger: the k records go behind the kept
   tasks, and what is pruned for them is settled and oldest, fills the table
   again and leaves its tombstones. *)
Admits(k, records) ==
  /\ seq.task + k <= MaxTaskIds
  /\ \A i \in NewIds(k) : i \in DOMAIN tasks' /\ tasks'[i] = records[i - seq.task]
  /\ \A i \in DOMAIN tasks' : i \in DOMAIN tasks \/ i \in NewIds(k)
  /\ \A i \in DOMAIN tasks \ DOMAIN tasks' :
       /\ i \in Prunable(tasks, RunningExercises)
       /\ \A j \in Prunable(tasks, RunningExercises) : j \in DOMAIN tasks' => i < j
  /\ DOMAIN tasks \subseteq DOMAIN tasks' \/ Cardinality(DOMAIN tasks') = MAX_TASKS
  /\ Kept(tasks, tasks')
  /\ Len(tombstones) <= MAX_TASK_RESULT_TOMBSTONES =>
       Len(tombstones') <= MAX_TASK_RESULT_TOMBSTONES
  /\ \E U : /\ DOMAIN U = DOMAIN tasks \cap DOMAIN tasks'
            /\ Retires(tasks, tombstones, U, tombstones')

(* What a call queues: k fresh tasks of a node that takes work. *)
Queues(n, k, key, e) ==
  /\ TaskableNode(n) /\ nodes' = nodes /\ seq'.task = seq.task + k
  /\ \E records :
       /\ Admits(k, records)
       /\ \A m \in 1..k : /\ FreshTask(records[m]) /\ records[m].node = n
                          /\ records[m].key = key /\ records[m].exercise = e

(* The part the three admission handlers share: pruned slots, then one to
   three fresh tasks of one taskable node. *)
LEMMA AdmitLedger ==
  ASSUME LedgerInv, NEW n \in Nat, Authentic(nodes, n),
         NEW records, NEW k \in 1..MAX_OPERATION_STEPS, Len(records) = k,
         \A m \in 1..k : FreshTask(records[m]) /\ records[m].node = n,
         AdmitTasks(records)
  PROVE  /\ TaskDict(tasks') /\ LedgerOK(nodes, tasks')
         /\ DOMAIN tasks' \subseteq 1..(seq.task + k)
         /\ Cardinality(DOMAIN tasks') <= MAX_TASKS
         /\ tombstones' \in Seq(TombstoneType)
         /\ Kept(tasks, tasks') /\ Admits(k, records)
<1> DEFINE slots == MakeTaskSlots(tasks, tombstones, RunningExercises, Len(records))
           T == slots.tasks
<1>1. /\ HasSlots(tasks, RunningExercises, Len(records))
      /\ tasks' = AddTasks(T, seq.task + 1, records)
      /\ tombstones' = slots.tombs /\ seq.task + k <= MaxTaskIds
  BY DEF AdmitTasks, CanMakeSlots
<1>2. /\ TaskDict(tasks) /\ TasksOK(tasks) /\ OwnedOK(nodes, tasks)
      /\ tombstones \in Seq(TombstoneType) /\ Cardinality(DOMAIN tasks) <= MAX_TASKS
      /\ DOMAIN tasks \subseteq 1..seq.task /\ seq.task \in Nat
  BY DEF LedgerInv, LedgerOK, SeqOK
<1>3. k \in Nat /\ Len(records) \in 0..MAX_OPERATION_STEPS
  BY DEF MAX_OPERATION_STEPS
<1>4. /\ Restricts(tasks, T) /\ slots.tombs \in Seq(TombstoneType)
      /\ Cardinality(DOMAIN T) + k <= MAX_TASKS
      /\ T = tasks \/ Cardinality(DOMAIN T) + k = MAX_TASKS
      /\ OldestPruned(tasks, T, RunningExercises)
      /\ Retires(tasks, tombstones, T, slots.tombs)
      /\ Len(tombstones) <= MAX_TASK_RESULT_TOMBSTONES =>
           Len(slots.tombs) <= MAX_TASK_RESULT_TOMBSTONES
  BY <1>1, <1>2, <1>3, MakeTaskSlotsOK
<1> HIDE DEF slots
<1>5. TaskDict(T) /\ TasksOK(T) /\ OwnedOK(nodes, T)
  BY <1>2, <1>4, RestrictsKeeps
<1>6. \A i \in DOMAIN T : i \in 1..seq.task
  BY <1>2, <1>4 DEF Restricts
<1>7. PICK next \in Nat : next = seq.task + 1
  BY <1>2
<1>7a. Below(T, next)
  BY <1>2, <1>6, <1>7 DEF Below
<1> DEFINE new == next..(next + k - 1)
<1>8. AllFresh(records, k)
  BY DEF AllFresh
<1> HIDE DEF T
<1>9. /\ DOMAIN tasks' = DOMAIN T \cup new
      /\ \A i \in DOMAIN T : tasks'[i] = T[i]
      /\ \A i \in new : tasks'[i] = records[i - next + 1]
      /\ TaskDict(tasks') /\ TasksOK(tasks')
  <2>1. tasks' = AddTasks(T, next, records)
    BY <1>1, <1>7
  <2>2. TaskDict(tasks') /\ TasksOK(tasks') /\ Adds(T, tasks', next, k, records)
    BY <1>3, <1>5, <1>7a, <1>8, <2>1, AddTasksOK
  <2>3. QED  BY <2>2 DEF Adds
<1>10. ASSUME NEW i \in DOMAIN tasks', Live(tasks'[i])
       PROVE  Authentic(nodes, tasks'[i].node)
  <2>1. CASE i \in DOMAIN T
    BY <1>5, <1>9, <1>10, <2>1 DEF OwnedOK
  <2>2. CASE i \in new
    <3>1. i - next + 1 \in 1..k
      BY <1>3, <2>2
    <3>2. QED  BY <1>9, <2>2, <3>1
  <2>3. QED  BY <1>9, <2>1, <2>2
<1>11. DOMAIN tasks' \subseteq 1..(seq.task + k)
  BY <1>2, <1>3, <1>6, <1>7, <1>9
<1>12. Cardinality(DOMAIN tasks') = Cardinality(DOMAIN T) + k
  <2>1. IsFiniteSet(new) /\ Cardinality(new) = k
    <3>1. next \in Int /\ next + k - 1 \in Int /\ k >= 1
      BY <1>3
    <3>2. /\ IsFiniteSet(new)
          /\ Cardinality(new) = IF next > next + k - 1 THEN 0 ELSE (next + k - 1) - next + 1
      BY <3>1, FS_Interval
    <3>3. QED  BY <1>3, <3>1, <3>2
  <2>2. IsFiniteSet(DOMAIN T) /\ Cardinality(DOMAIN T) \in Nat
    BY <1>5, FS_CardinalityType DEF TaskDict
  <2>3. DOMAIN T \cap new = {}
    BY <1>5, <1>7a DEF TaskDict, Below
  <2>4. Cardinality(DOMAIN T \cap new) = 0
    BY <2>3, FS_EmptySet
  <2>5. Cardinality(DOMAIN T \cup new) =
          Cardinality(DOMAIN T) + Cardinality(new) - Cardinality(DOMAIN T \cap new)
    BY <2>1, <2>2, FS_Union
  <2>6. QED  BY <1>3, <1>9, <2>1, <2>2, <2>4, <2>5 DEF T
<1>13. ASSUME NEW i \in DOMAIN tasks \cap DOMAIN tasks' PROVE tasks'[i] = tasks[i]
  <2>1. i \in 1..seq.task
    BY <1>2
  <2>2. i \notin new
    BY <1>2, <1>7, <2>1
  <2>3. i \in DOMAIN T
    BY <1>9, <2>2
  <2>4. QED  BY <1>4, <1>9, <2>3 DEF Restricts
<1>14. Admits(k, records)
  <2>1. new = NewIds(k)
    BY <1>2, <1>3, <1>7 DEF NewIds
  <2>2. ASSUME NEW i \in NewIds(k)
        PROVE  i \in DOMAIN tasks' /\ tasks'[i] = records[i - seq.task]
    <3>1. i \in new /\ i - next + 1 = i - seq.task
      BY <1>2, <1>7, <2>1, SMTT(20)
    <3>2. QED  BY <1>9, <3>1
  <2>3. \A i \in DOMAIN tasks' : i \in DOMAIN tasks \/ i \in NewIds(k)
    BY <1>4, <1>9, <2>1 DEF Restricts
  <2>4. DOMAIN T = DOMAIN tasks \cap DOMAIN tasks'
    <3>1. \A i \in DOMAIN tasks : i \notin new
      BY <1>2, <1>7
    <3>2. QED  BY <1>4, <1>9, <3>1 DEF Restricts
  <2>5. \A i \in DOMAIN T : T[i] = tasks[i]
    BY <1>4 DEF Restricts
  <2>6. ASSUME NEW i \in DOMAIN tasks \ DOMAIN tasks'
        PROVE  /\ i \in Prunable(tasks, RunningExercises)
               /\ \A j \in Prunable(tasks, RunningExercises) : j \in DOMAIN tasks' => i < j
    <3>1. i \in DOMAIN tasks \ DOMAIN T
      BY <2>4
    <3>2. \A j \in Prunable(tasks, RunningExercises) :
            j \in DOMAIN tasks' => j \in Prunable(T, RunningExercises)
      BY <2>4, <2>5 DEF Prunable
    <3>3. QED  BY <1>4, <3>1, <3>2 DEF OldestPruned
  <2>7. DOMAIN tasks \subseteq DOMAIN tasks' \/ Cardinality(DOMAIN tasks') = MAX_TASKS
    BY <1>4, <1>9, <1>12
  <2>8. QED
    BY <1>1, <1>4, <1>13, <2>2, <2>3, <2>4, <2>6, <2>7 DEF Admits, Kept
<1>15. QED
  BY <1>1, <1>4, <1>9, <1>10, <1>11, <1>12, <1>13, <1>14 DEF LedgerOK, OwnedOK, Kept

(* queue_task preserves the ledger invariant and queues one task. *)
LEMMA QueueTaskLedger ==
  ASSUME LedgerInv, NEW n \in DOMAIN nodes, NEW r \in TaskRequests, NEW lag \in Lags,
         queue_task(n, r, lag)
  PROVE  /\ LedgerInv' /\ Kept(tasks, tasks') /\ Queues(n, 1, r.key, 0)
         /\ tasks'[seq.task + 1].type = r.type
<1> DEFINE records == <<NewTask(n, r, lag)>>
<1>1. /\ TaskableNode(n) /\ AdmitTasks(records)
      /\ seq' = [seq EXCEPT !.task = @ + 1] /\ nodes' = nodes
  BY DEF queue_task
<1>2. n \in Nat /\ Authentic(nodes, n)
  BY <1>1 DEF TaskableNode, Authentic, LedgerInv, NodeDict
<1>3. r \in TaskRequestType /\ (r.type = "SLEEP" => r.interval \in PollIntervals)
  BY RequestsAssumption
<1>4. /\ FreshTask(NewTask(n, r, lag)) /\ NewTask(n, r, lag).node = n
      /\ NewTask(n, r, lag).key = r.key /\ NewTask(n, r, lag).exercise = 0
      /\ NewTask(n, r, lag).type = r.type
  BY <1>2, <1>3, NewTaskFresh
<1>5. Len(records) = 1 /\ \A m \in 1..1 : records[m] = NewTask(n, r, lag)
  OBVIOUS
<1> HIDE DEF records
<1>6. \A m \in 1..1 : /\ FreshTask(records[m]) /\ records[m].node = n
                      /\ records[m].key = r.key /\ records[m].exercise = 0
                      /\ records[m].type = r.type
  BY <1>4, <1>5
<1>7. 1 \in 1..MAX_OPERATION_STEPS
  BY DEF MAX_OPERATION_STEPS
<1>8. /\ TaskDict(tasks') /\ LedgerOK(nodes, tasks')
      /\ DOMAIN tasks' \subseteq 1..(seq.task + 1)
      /\ Cardinality(DOMAIN tasks') <= MAX_TASKS
      /\ tombstones' \in Seq(TombstoneType)
      /\ Kept(tasks, tasks') /\ Admits(1, records)
  BY <1>1, <1>2, <1>5, <1>6, <1>7, AdmitLedger
<1>9. SeqOK' /\ seq'.task = seq.task + 1 /\ seq'.node = seq.node /\ seq.task \in Nat
  BY <1>1 DEF LedgerInv, SeqOK
<1>10. Queues(n, 1, r.key, 0)
  BY <1>1, <1>6, <1>8, <1>9 DEF Queues
<1>11. tasks'[seq.task + 1].type = r.type
  <2>1. seq.task + 1 \in NewIds(1) /\ (seq.task + 1) - seq.task = 1
    BY <1>9 DEF NewIds
  <2>2. tasks'[seq.task + 1] = records[1]
    BY <1>8, <2>1 DEF Admits
  <2>3. QED  BY <1>6, <2>2
<1>12. QED  BY <1>1, <1>8, <1>9, <1>10, <1>11 DEF LedgerInv

(* queue_operation preserves the ledger invariant and queues its steps. *)
LEMMA QueueOperationLedger ==
  ASSUME LedgerInv, NEW n \in DOMAIN nodes, NEW r \in OperationRequests,
         NEW lag \in Lags, queue_operation(n, r, lag)
  PROVE  /\ LedgerInv' /\ Kept(tasks, tasks') /\ Queues(n, Len(r.playbooks), NoKey, 0)
         /\ Len(r.playbooks) \in 1..MAX_OPERATION_STEPS
<1> DEFINE steps == Len(r.playbooks)
           op == seq.operation + 1
           task(k) == OperationTask(n, r.playbooks[k], r.created_by, r.ttl, lag, op)
           records == [k \in 1..steps |-> task(k)]
<1>1. /\ TaskableNode(n) /\ AdmitTasks(records)
      /\ seq' = [seq EXCEPT !.task = @ + steps, !.operation = op] /\ nodes' = nodes
  BY DEF queue_operation
<1>2. n \in Nat /\ Authentic(nodes, n)
  BY <1>1 DEF TaskableNode, Authentic, LedgerInv, NodeDict
<1>3. /\ r.playbooks \in Seq(PLAYBOOK_NAMES) /\ r.created_by \in Actors
      /\ r.ttl \in QueueTTLs /\ steps \in 1..MAX_OPERATION_STEPS
  BY RequestsAssumption
<1>4. steps \in Nat /\ op \in Nat
  BY <1>3 DEF MAX_OPERATION_STEPS, LedgerInv, SeqOK
<1>5. ASSUME NEW k \in 1..steps
      PROVE  FreshTask(task(k)) /\ task(k).node = n /\ task(k).key = NoKey /\ task(k).exercise = 0
  <2>1. r.playbooks[k] \in PLAYBOOK_NAMES
    BY <1>3, ElementOfSeq
  <2>2. QED  BY <1>2, <1>3, <1>4, <2>1, PlaybookTaskFresh, SMTT(20)
<1> HIDE DEF task
<1>6. Len(records) = steps /\ \A m \in 1..steps : records[m] = task(m)
  BY <1>4
<1> HIDE DEF records, steps, op
<1>7. \A m \in 1..steps : /\ FreshTask(records[m]) /\ records[m].node = n
                          /\ records[m].key = NoKey /\ records[m].exercise = 0
  BY <1>5, <1>6
<1>8. /\ TaskDict(tasks') /\ LedgerOK(nodes, tasks')
      /\ DOMAIN tasks' \subseteq 1..(seq.task + steps)
      /\ Cardinality(DOMAIN tasks') <= MAX_TASKS
      /\ tombstones' \in Seq(TombstoneType)
      /\ Kept(tasks, tasks') /\ Admits(steps, records)
  BY <1>1, <1>2, <1>3, <1>6, <1>7, AdmitLedger
<1>9. SeqOK' /\ seq'.task = seq.task + steps /\ seq'.node = seq.node
  <2>1. PICK t \in Nat : t = seq.task + steps
    BY <1>4 DEF LedgerInv, SeqOK
  <2>2. seq' = [seq EXCEPT !.task = t, !.operation = op]
    BY <1>1, <2>1
  <2>3. QED  BY <1>4, <2>1, <2>2 DEF LedgerInv, SeqOK
<1>10. Queues(n, steps, NoKey, 0)
  BY <1>1, <1>7, <1>8, <1>9 DEF Queues
<1>11. QED  BY <1>1, <1>3, <1>8, <1>9, <1>10 DEF LedgerInv, steps

(* start_exercise preserves the ledger invariant and queues its two steps. *)
LEMMA StartExerciseLedger ==
  ASSUME LedgerInv, NEW n \in DOMAIN nodes, NEW r \in ExerciseRequests,
         NEW lag \in Lags, start_exercise(n, r, lag)
  PROVE  /\ LedgerInv' /\ Kept(tasks, tasks') /\ Queues(n, 2, NoKey, seq.exercise + 1)
         /\ tasks'[seq.task + 1].playbook = FirstPlaybook(r.scenario)
         /\ tasks'[seq.task + 2].playbook = SecondPlaybook(r.scenario)
<1> DEFINE e == seq.exercise + 1
           task(p) == ExerciseTask(n, p, r.created_by, lag, e)
           t1 == task(FirstPlaybook(r.scenario))
           t2 == task(SecondPlaybook(r.scenario))
           records == <<t1, t2>>
<1>1. /\ TaskableNode(n) /\ AdmitTasks(records)
      /\ seq' = [seq EXCEPT !.task = @ + 2, !.exercise = e] /\ nodes' = nodes
  BY DEF start_exercise
<1>2. n \in Nat /\ Authentic(nodes, n)
  BY <1>1 DEF TaskableNode, Authentic, LedgerInv, NodeDict
<1>3. r.created_by \in Actors /\ DEFAULT_QUEUE_TTL_SECONDS \in QueueTTLs
  BY RequestsAssumption, TimeAssumption
<1>4. e \in Nat
  BY DEF LedgerInv, SeqOK
<1>5. /\ FirstPlaybook(r.scenario) \in PLAYBOOK_NAMES
      /\ SecondPlaybook(r.scenario) \in PLAYBOOK_NAMES
  BY DEF FirstPlaybook, SecondPlaybook, PLAYBOOK_NAMES
<1>6. /\ FreshTask(t1) /\ t1.node = n /\ t1.key = NoKey /\ t1.exercise = e
      /\ t1.playbook = FirstPlaybook(r.scenario)
      /\ FreshTask(t2) /\ t2.node = n /\ t2.key = NoKey /\ t2.exercise = e
      /\ t2.playbook = SecondPlaybook(r.scenario)
  BY <1>2, <1>3, <1>4, <1>5, PlaybookTaskFresh
<1> HIDE DEF t1, t2
<1>7. Len(records) = 2 /\ \A m \in 1..2 : records[m] = IF m = 1 THEN t1 ELSE t2
  OBVIOUS
<1> HIDE DEF records, e
<1>8. \A m \in 1..2 : /\ FreshTask(records[m]) /\ records[m].node = n
                      /\ records[m].key = NoKey /\ records[m].exercise = e
  BY <1>6, <1>7
<1>9. 2 \in 1..MAX_OPERATION_STEPS
  BY DEF MAX_OPERATION_STEPS
<1>10. /\ TaskDict(tasks') /\ LedgerOK(nodes, tasks')
       /\ DOMAIN tasks' \subseteq 1..(seq.task + 2)
       /\ Cardinality(DOMAIN tasks') <= MAX_TASKS
       /\ tombstones' \in Seq(TombstoneType)
       /\ Kept(tasks, tasks') /\ Admits(2, records)
  BY <1>1, <1>2, <1>7, <1>8, <1>9, AdmitLedger
<1>11. SeqOK' /\ seq'.task = seq.task + 2 /\ seq'.node = seq.node
  <2>1. PICK t \in Nat : t = seq.task + 2
    BY DEF LedgerInv, SeqOK
  <2>2. seq' = [seq EXCEPT !.task = t, !.exercise = e]
    BY <1>1, <2>1
  <2>3. QED  BY <1>4, <2>1, <2>2 DEF LedgerInv, SeqOK
<1>12. Queues(n, 2, NoKey, e)
  BY <1>1, <1>8, <1>10, <1>11 DEF Queues
<1>13. /\ tasks'[seq.task + 1].playbook = FirstPlaybook(r.scenario)
       /\ tasks'[seq.task + 2].playbook = SecondPlaybook(r.scenario)
  <2>1. seq.task \in Nat
    BY DEF LedgerInv, SeqOK
  <2>2. /\ seq.task + 1 \in NewIds(2) /\ (seq.task + 1) - seq.task = 1
        /\ seq.task + 2 \in NewIds(2) /\ (seq.task + 2) - seq.task = 2
    BY <2>1 DEF NewIds
  <2>3. tasks'[seq.task + 1] = records[1] /\ tasks'[seq.task + 2] = records[2]
    BY <1>10, <2>2 DEF Admits
  <2>4. QED  BY <1>6, <1>7, <2>3
<1>14. QED  BY <1>1, <1>10, <1>11, <1>12, <1>13 DEF LedgerInv, e

(* A step that only settles tasks, and leaves every open session open. *)
LEMMA SettlingStep ==
  ASSUME LedgerInv, Settles(tasks, tasks'), NodeDict(nodes'),
         DOMAIN nodes' = DOMAIN nodes,
         \A n : Authentic(nodes, n) => Authentic(nodes', n),
         seq' = seq, tombstones' = tombstones
  PROVE  LedgerInv'
<1>1. TaskDict(tasks) /\ TasksOK(tasks) /\ OwnedOK(nodes, tasks)
  BY DEF LedgerInv, LedgerOK
<1>2. TaskDict(tasks') /\ DOMAIN tasks' = DOMAIN tasks /\ TasksOK(tasks')
  BY <1>1, SettlesKeepsTaskDict, SettlesKeepsOrder
<1>3. \A i \in DOMAIN tasks' : /\ i \in DOMAIN tasks /\ tasks'[i].node = tasks[i].node
                               /\ Live(tasks'[i]) => Live(tasks[i])
  BY <1>2 DEF Settles, SettledFrom, SameTask
<1>4. OwnedOK(nodes', tasks')
  BY <1>1, <1>3, OwnedKept
<1>5. QED  BY <1>2, <1>4 DEF LedgerInv, LedgerOK, SeqOK

(* cancel_task settles one queued task. *)
LEMMA CancelSettles ==
  ASSUME LedgerInv, NEW i \in DOMAIN tasks, cancel_task(i)
  PROVE  Settles(tasks, tasks')
<1> DEFINE u == Settled(tasks[i], "cancelled", "operator_cancelled")
<1>1. tasks' = [tasks EXCEPT ![i] = u] /\ tasks[i].status = "queued"
  BY DEF cancel_task
<1>2. tasks \in [DOMAIN tasks -> TaskType] /\ tasks[i] \in TaskType
  BY DEF LedgerInv, TaskDict
<1>3. CalledOff(tasks[i].status, "cancelled")
  BY <1>1 DEF CalledOff
<1>4. "cancelled" \in TERMINAL_TASK_STATUSES /\ "operator_cancelled" \in ServerResults
  BY DEF TERMINAL_TASK_STATUSES, ServerResults
<1>5. u \in TaskType /\ SettledFrom(tasks[i], u)
  BY <1>2, <1>3, <1>4, SettledTask
<1> HIDE DEF u
<1>6. /\ tasks' \in [DOMAIN tasks -> TaskType]
      /\ \A j \in DOMAIN tasks : tasks'[j] = IF j = i THEN u ELSE tasks[j]
  BY <1>1, <1>2, <1>5
<1>7. QED  BY <1>5, <1>6 DEF Settles

(* cancel_task preserves the ledger invariant. *)
LEMMA CancelLedger ==
  ASSUME LedgerInv, NEW i \in DOMAIN tasks, cancel_task(i)
  PROVE  LedgerInv'
<1>1. nodes' = nodes /\ seq' = seq /\ tombstones' = tombstones
  BY DEF cancel_task
<1>2. NodeDict(nodes') /\ \A n : Authentic(nodes, n) => Authentic(nodes', n)
  BY <1>1 DEF LedgerInv
<1>3. QED  BY <1>1, <1>2, CancelSettles, SettlingStep

(* contain_exercise settles only queued tasks. *)
LEMMA ContainedTasksSettles ==
  ASSUME NEW T, TaskDict(T), NEW x
  PROVE  Settles(T, ContainedTasks(x, T))
<1>1. ASSUME NEW i \in DOMAIN T, i \in Cancelled(x, T)
      PROVE  /\ Settled(T[i], "cancelled", "exercise_contained") \in TaskType
             /\ SettledFrom(T[i], Settled(T[i], "cancelled", "exercise_contained"))
  <2>1. T[i] \in TaskType
    BY DEF TaskDict
  <2>2. CalledOff(T[i].status, "cancelled")
    BY <1>1 DEF Cancelled, CalledOff
  <2>3. "cancelled" \in TERMINAL_TASK_STATUSES /\ "exercise_contained" \in ServerResults
    BY DEF TERMINAL_TASK_STATUSES, ServerResults
  <2>4. QED  BY <2>1, <2>2, <2>3, SettledTask
<1>2. QED  BY <1>1 DEF ContainedTasks, Settles, TaskDict

(* Pausing tasking leaves every session as it was. *)
LEMMA PausedNodesOK ==
  ASSUME NEW N, NodeDict(N), NEW n, NEW action
  PROVE  /\ NodeDict(PausedNodes(N, n, action))
         /\ DOMAIN PausedNodes(N, n, action) = DOMAIN N
         /\ \A k : Authentic(N, k) => Authentic(PausedNodes(N, n, action), k)
<1>1. CASE action = "PAUSE_NODE_TASKING" /\ n \in DOMAIN N
  <2>1. PICK y \in BOOLEAN : y = TRUE
    OBVIOUS
  <2>2. N[n] \in NodeType
    BY <1>1 DEF NodeDict
  <2> DEFINE m == [N[n] EXCEPT !.tasking_paused = y]
  <2>3. m \in NodeType
    BY <2>2 DEF NodeType
  <2>4. m.session_active = N[n].session_active
    BY <2>2, Zenon DEF NodeType
  <2>5. PausedNodes(N, n, action) = [N EXCEPT ![n] = m]
    BY <1>1, <2>1 DEF PausedNodes
  <2> HIDE DEF m
  <2>6. QED  BY <1>1, <2>3, <2>4, <2>5, ReplaceNode
<1>2. CASE ~(action = "PAUSE_NODE_TASKING" /\ n \in DOMAIN N)
  BY <1>2 DEF PausedNodes
<1>3. QED  BY <1>1, <1>2

(* contain_exercise preserves the ledger invariant. *)
LEMMA ContainLedger ==
  ASSUME LedgerInv, NEW e \in DOMAIN exercises, NEW a \in CONTAINMENT_ACTIONS,
         contain_exercise(e, a)
  PROVE  LedgerInv'
<1>1. /\ tasks' = ContainedTasks(exercises[e], tasks)
      /\ nodes' = PausedNodes(nodes, exercises[e].node, a)
      /\ seq' = seq /\ tombstones' = tombstones
  BY DEF contain_exercise
<1>2. Settles(tasks, tasks')
  BY <1>1, ContainedTasksSettles DEF LedgerInv
<1>3. /\ NodeDict(nodes') /\ DOMAIN nodes' = DOMAIN nodes
      /\ \A n : Authentic(nodes, n) => Authentic(nodes', n)
  BY <1>1, PausedNodesOK DEF LedgerInv
<1>4. QED  BY <1>1, <1>2, <1>3, SettlingStep

(* reset preserves the ledger invariant. *)
LEMMA ResetLedger == LedgerInv /\ reset => LedgerInv'
<1> SUFFICES ASSUME LedgerInv, reset PROVE LedgerInv'
  OBVIOUS
<1>1. nodes' = EmptyDict /\ tasks' = EmptyDict /\ tombstones' = <<>> /\ seq' = seq
  BY DEF reset
<1>2. DOMAIN nodes' = {} /\ DOMAIN tasks' = {}
  BY <1>1 DEF EmptyDict
<1>3. nodes' \in [DOMAIN nodes' -> NodeType] /\ tasks' \in [DOMAIN tasks' -> TaskType]
  BY <1>1 DEF EmptyDict
<1>4. IsFiniteSet(DOMAIN tasks') /\ Cardinality(DOMAIN tasks') <= MAX_TASKS
  BY <1>2, FS_EmptySet, LimitsAssumption
<1>5. tombstones' \in Seq(TombstoneType)
  BY <1>1, EmptySeq
<1>6. LedgerOK(nodes', tasks')
  BY <1>2 DEF LedgerOK, TasksOK, FlightOK, OrderOK, AcceptOK, SleepOK, OwnedOK
<1>7. QED
  BY <1>1, <1>2, <1>3, <1>4, <1>5, <1>6 DEF LedgerInv, NodeDict, TaskDict, SeqOK
-----------------------------------------------------------------------------
(* Every handler preserves the ledger invariant. *)
LEMMA LedgerStep == LedgerInv /\ [Next]_vars => LedgerInv'
<1> SUFFICES ASSUME LedgerInv, [Next]_vars PROVE LedgerInv'
  OBVIOUS
<1>1. CASE UNCHANGED vars
  BY <1>1 DEF vars, LedgerInv, SeqOK
<1>2. CASE Tick
  BY <1>2, TickLedger
<1>3. CASE \E lag \in Lags : Expire(lag)
  BY <1>3, ExpireLedger
<1>4. CASE NodeCall
  <2>1. CASE \E e \in Enrolments, lag \in Lags : enroll_node(e, lag)
    BY <2>1, EnrollLedger, CallsAreTyped
  <2>2. ASSUME NEW n \in DOMAIN nodes, \E lag \in Lags : poll_node(n, lag)
        PROVE  LedgerInv'
    BY <2>2, PollLedger
  <2>3. ASSUME NEW n \in DOMAIN nodes,
               \E i \in DOMAIN tasks, s \in Submissions, lag \in Lags :
                 submit_result(n, i, s, lag)
        PROVE  LedgerInv'
    BY <2>3, SubmitLedger, CallsAreTyped
  <2>4. ASSUME NEW n \in DOMAIN nodes, disconnect_node(n) PROVE LedgerInv'
    BY <2>4, DisconnectLedger
  <2>5. QED  BY <1>4, <2>1, <2>2, <2>3, <2>4 DEF NodeCall
<1>5. CASE OperatorCall
  <2>1. ASSUME NEW n \in DOMAIN nodes, NEW lag \in Lags,
               \E r \in TaskRequests : queue_task(n, r, lag)
        PROVE  LedgerInv'
    BY <2>1, QueueTaskLedger
  <2>2. ASSUME NEW n \in DOMAIN nodes, NEW lag \in Lags,
               \E r \in OperationRequests : queue_operation(n, r, lag)
        PROVE  LedgerInv'
    BY <2>2, QueueOperationLedger
  <2>3. ASSUME NEW n \in DOMAIN nodes, NEW lag \in Lags,
               \E r \in ExerciseRequests : start_exercise(n, r, lag)
        PROVE  LedgerInv'
    BY <2>3, StartExerciseLedger
  <2>4. CASE \E i \in DOMAIN tasks : cancel_task(i)
    BY <2>4, CancelLedger
  <2>5. CASE \E e \in DOMAIN exercises, a \in CONTAINMENT_ACTIONS : contain_exercise(e, a)
    BY <2>5, ContainLedger
  <2>6. CASE reset
    BY <2>6, ResetLedger
  <2>7. QED  BY <1>5, <2>1, <2>2, <2>3, <2>4, <2>5, <2>6 DEF OperatorCall
<1>6. QED  BY <1>1, <1>2, <1>3, <1>4, <1>5 DEF Next

(* The inductive invariant of the ledger holds in every reachable state of
   LabState, whatever the limits, timeouts, request sets and bounds. *)
THEOREM LedgerInvariant == Spec => []LedgerInv
<1>1. QED  BY LedgerInit, LedgerStep, PTL DEF Spec

(* However a session ends (disconnect_node, the offline TTL inside a poll, a
   submit or the monitor, pruning of the node record, reset), it leaves no
   queued or dispatched task behind. *)
THEOREM NoOrphanWorkHolds == Spec => []NoOrphanWork
<1>1. LedgerInv => NoOrphanWork
  BY DEF LedgerInv, LedgerOK, OwnedOK, NoOrphanWork
<1>2. QED  BY <1>1, LedgerInvariant, PTL

(* poll_node never has two tasks of a node in flight. *)
THEOREM SingleFlightHolds == Spec => []SingleFlight
<1>1. LedgerInv => SingleFlight
  <2> SUFFICES ASSUME LedgerInv, NEW n \in DOMAIN nodes
               PROVE  Cardinality(DispatchedOf(tasks, n)) <= 1
    BY DEF SingleFlight
  <2> DEFINE D == DispatchedOf(tasks, n)
  <2>1. \A i, j \in D : i = j
    BY DEF DispatchedOf, LedgerInv, LedgerOK, TasksOK, FlightOK
  <2> HIDE DEF D
  <2>2. CASE D = {}
    BY <2>2, FS_EmptySet DEF D
  <2>3. CASE D # {}
    <3>1. PICK i : D = {i}
      BY <2>1, <2>3
    <3>2. Cardinality({i}) = 1
      BY FS_Singleton
    <3>3. QED  BY <3>1, <3>2 DEF D
  <2>4. QED  BY <2>2, <2>3
<1>2. QED  BY <1>1, LedgerInvariant, PTL

(* poll_node delivers the tasks of a node in the order in which the three
   admission handlers queued them. *)
THEOREM FifoDispatchHolds == Spec => []FifoDispatch
<1>1. LedgerInv => FifoDispatch
  BY DEF LedgerInv, LedgerOK, TasksOK, OrderOK, FifoDispatch
<1>2. QED  BY <1>1, LedgerInvariant, PTL

-----------------------------------------------------------------------------
(* The outcome of a task is written once. *)

OutcomesKept ==
  \A i \in DOMAIN tasks \cap DOMAIN tasks' : Terminal(tasks[i]) => tasks'[i] = tasks[i]

(* No status is both terminal and live. *)
LEMMA TerminalNotLive ==
  ASSUME NEW t, Terminal(t) PROVE ~Live(t)
BY DEF Terminal, Live, TERMINAL_TASK_STATUSES, LIVE_TASK_STATUSES

(* Settling live tasks leaves the settled ones alone. *)
LEMMA SettlesKeepsOutcomes ==
  ASSUME NEW T, NEW U, Settles(T, U)
  PROVE  DOMAIN U = DOMAIN T /\ \A i \in DOMAIN T : Terminal(T[i]) => U[i] = T[i]
BY TerminalNotLive DEF Settles, SettledFrom

(* A step that changes no kept task changes no outcome. *)
LEMMA KeptKeepsOutcomes == Kept(tasks, tasks') => OutcomesKept
BY DEF Kept, OutcomesKept

(* _expire_locked changes no outcome. *)
LEMMA ExpiredOutcomes ==
  ASSUME LedgerInv, NEW lag \in Lags
  PROVE  \A i \in DOMAIN tasks :
           Terminal(tasks[i]) => ExpiredTasks(nodes, tasks, lag)[i] = tasks[i]
<1>1. Settles(tasks, ExpiredTasks(nodes, tasks, lag))
  BY ExpiryKeepsLedger DEF LedgerInv
<1>2. QED  BY <1>1, SettlesKeepsOutcomes

(* No handler changes the record of a terminal task it keeps. *)
LEMMA OutcomesStep == LedgerInv /\ [Next]_vars => OutcomesKept
<1> SUFFICES ASSUME LedgerInv, [Next]_vars PROVE OutcomesKept
  OBVIOUS
<1>0. TaskDict(tasks) /\ \A i \in DOMAIN tasks : tasks[i] \in TaskType
  BY DEF LedgerInv, TaskDict
<1>1. CASE UNCHANGED vars
  BY <1>1 DEF vars, OutcomesKept
<1>2. CASE Tick
  <2>1. \A i \in DOMAIN tasks : tasks'[i] = OlderTask(tasks[i])
    BY <1>2 DEF Tick
  <2>2. QED  BY <1>0, <2>1, TerminalNotLive, OlderTaskType DEF OutcomesKept
<1>3. ASSUME NEW lag \in Lags, Expire(lag) PROVE OutcomesKept
  <2>1. tasks' = ExpiredTasks(nodes, tasks, lag)
    BY <1>3 DEF Expire
  <2>2. QED  BY <2>1, ExpiredOutcomes DEF OutcomesKept
<1>4. CASE NodeCall
  <2>1. ASSUME NEW e \in Enrolments, NEW lag \in Lags, enroll_node(e, lag)
        PROVE  OutcomesKept
    BY <2>1 DEF enroll_node, OutcomesKept
  <2>2. ASSUME NEW n \in DOMAIN nodes, NEW lag \in Lags, poll_node(n, lag)
        PROVE  OutcomesKept
    <3> DEFINE N == ExpiredNodes(nodes, tasks, lag)
               T == ExpiredTasks(nodes, tasks, lag)
    <3>1. tasks' = DeliveredTasks(T, n, N[n].tasking_paused, lag)
      BY <2>2 DEF poll_node
    <3>2. /\ NodeDict(N) /\ DOMAIN N = DOMAIN nodes
          /\ TaskDict(T) /\ DOMAIN T = DOMAIN tasks /\ TasksOK(T)
      BY ExpiredLedger
    <3>3. \A i \in DOMAIN tasks : Terminal(tasks[i]) => T[i] = tasks[i]
      BY ExpiredOutcomes
    <3> HIDE DEF N, T
    <3>4. N[n].tasking_paused \in BOOLEAN
      BY <3>2 DEF NodeDict, NodeType
    <3>5. \A i \in DOMAIN T : tasks'[i] = T[i] \/ Live(T[i])
      BY <3>1, <3>2, <3>4, DeliveredKeepsTasks
    <3>6. QED  BY <3>2, <3>3, <3>5, TerminalNotLive DEF OutcomesKept
  <2>3. ASSUME NEW n \in DOMAIN nodes, NEW a \in DOMAIN tasks, NEW s \in Submissions,
               NEW lag \in Lags, submit_result(n, a, s, lag)
        PROVE  OutcomesKept
    <3> DEFINE T == ExpiredTasks(nodes, tasks, lag)
    <3>1. /\ tasks' = [T EXCEPT ![a] = AcceptedTask(T[a], s)]
          /\ T[a].status = "dispatched"
      BY <2>3 DEF submit_result, AcceptsResult
    <3>2. DOMAIN T = DOMAIN tasks
      BY ExpiredLedger
    <3>3. \A i \in DOMAIN tasks : Terminal(tasks[i]) => T[i] = tasks[i]
      BY ExpiredOutcomes
    <3> HIDE DEF T
    <3>4. ~Terminal(T[a])
      BY <3>1 DEF Terminal, TERMINAL_TASK_STATUSES
    <3>5. \A i \in DOMAIN T : i # a => tasks'[i] = T[i]
      BY <3>1
    <3>6. QED  BY <3>2, <3>3, <3>4, <3>5 DEF OutcomesKept
  <2>4. ASSUME NEW n \in DOMAIN nodes, disconnect_node(n) PROVE OutcomesKept
    <3>1. tasks' = FailUnfinished(tasks, {n}, "session_closed")
      BY <2>4 DEF disconnect_node
    <3>2. "session_closed" \in ServerResults
      BY DEF ServerResults
    <3>3. Settles(tasks, tasks')
      BY <1>0, <3>1, <3>2, FailUnfinishedSettles
    <3>4. QED  BY <3>3, SettlesKeepsOutcomes DEF OutcomesKept
  <2>5. QED  BY <1>4, <2>1, <2>2, <2>3, <2>4 DEF NodeCall
<1>5. CASE OperatorCall
  <2>1. ASSUME NEW n \in DOMAIN nodes, NEW lag \in Lags,
               \E r \in TaskRequests : queue_task(n, r, lag)
        PROVE  OutcomesKept
    BY <2>1, QueueTaskLedger, KeptKeepsOutcomes
  <2>2. ASSUME NEW n \in DOMAIN nodes, NEW lag \in Lags,
               \E r \in OperationRequests : queue_operation(n, r, lag)
        PROVE  OutcomesKept
    BY <2>2, QueueOperationLedger, KeptKeepsOutcomes
  <2>3. ASSUME NEW n \in DOMAIN nodes, NEW lag \in Lags,
               \E r \in ExerciseRequests : start_exercise(n, r, lag)
        PROVE  OutcomesKept
    BY <2>3, StartExerciseLedger, KeptKeepsOutcomes
  <2>4. ASSUME NEW i \in DOMAIN tasks, cancel_task(i) PROVE OutcomesKept
    BY <2>4, CancelSettles, SettlesKeepsOutcomes DEF OutcomesKept
  <2>5. ASSUME NEW e \in DOMAIN exercises, NEW a \in CONTAINMENT_ACTIONS,
               contain_exercise(e, a)
        PROVE  OutcomesKept
    <3>1. Settles(tasks, tasks')
      BY <1>0, <2>5, ContainedTasksSettles DEF contain_exercise
    <3>2. QED  BY <3>1, SettlesKeepsOutcomes DEF OutcomesKept
  <2>6. CASE reset
    BY <2>6 DEF reset, EmptyDict, OutcomesKept
  <2>7. QED  BY <1>5, <2>1, <2>2, <2>3, <2>4, <2>5, <2>6 DEF OperatorCall
<1>6. QED  BY <1>1, <1>2, <1>3, <1>4, <1>5 DEF Next

(* No late result, retry, expiry, cancellation, containment or closing
   session changes a terminal task. *)
THEOREM TerminalIsFinalHolds == Spec => TerminalIsFinal
<1>1. LedgerInv /\ [Next]_vars => OutcomesKept
  BY OutcomesStep
<1>2. QED  BY <1>1, LedgerInvariant, PTL DEF Spec, TerminalIsFinal, OutcomesKept

-----------------------------------------------------------------------------
(* Type correctness: the exercises, their timelines and alerts, and the replay
   records of operations and exercises. *)

RuleType == [id : RuleIds, technique : TechniqueIds]

(* A function on 1..n is a sequence. *)
LEMMA FunctionIsSeq ==
  ASSUME NEW S, NEW n \in Nat, NEW f \in [1..n -> S]
  PROVE  f \in Seq(S)
BY SeqDef

(* The catalogue. *)
LEMMA DetectionsType ==
  ASSUME NEW s, NEW p
  PROVE  detections_for_playbook(s, p) \in Seq(RuleType)
<1>1. /\ Rule("C2LAB-DET-001", "T1083") \in RuleType
      /\ Rule("C2LAB-DET-002", "T1005") \in RuleType
      /\ Rule("C2LAB-DET-003", "T1074.001") \in RuleType
      /\ Rule("C2LAB-DET-004", "T1070.004") \in RuleType
  BY DEF Rule, RuleType, RuleIds, TechniqueIds
<1>2. \A r1 \in RuleType : <<r1>> \in Seq(RuleType)
  OBVIOUS
<1>3. \A r1, r2 \in RuleType : <<r1, r2>> \in Seq(RuleType)
  OBVIOUS
<1>4. <<>> \in Seq(RuleType)
  OBVIOUS
<1>5. CASE s = "DISCOVERY_COLLECTION" /\ p = "DISCOVERY_FIXTURES"
  <2>1. detections_for_playbook(s, p) = <<Rule("C2LAB-DET-001", "T1083")>>
    BY <1>5 DEF detections_for_playbook
  <2>2. QED  BY <1>1, <1>2, <2>1
<1>6. CASE s = "DISCOVERY_COLLECTION" /\ p = "COLLECT_AND_STAGE"
  <2>1. detections_for_playbook(s, p) =
          <<Rule("C2LAB-DET-002", "T1005"), Rule("C2LAB-DET-003", "T1074.001")>>
    BY <1>6 DEF detections_for_playbook
  <2>2. QED  BY <1>1, <1>3, <2>1
<1>7. CASE s = "CANARY_REMOVAL" /\ p = "CLEANUP"
  <2>1. detections_for_playbook(s, p) = <<Rule("C2LAB-DET-004", "T1070.004")>>
    BY <1>7 DEF detections_for_playbook
  <2>2. QED  BY <1>1, <1>2, <2>1
<1>8. CASE /\ ~(s = "DISCOVERY_COLLECTION" /\ p = "DISCOVERY_FIXTURES")
           /\ ~(s = "DISCOVERY_COLLECTION" /\ p = "COLLECT_AND_STAGE")
           /\ ~(s = "CANARY_REMOVAL" /\ p = "CLEANUP")
  <2>1. detections_for_playbook(s, p) = <<>>
    BY <1>8 DEF detections_for_playbook
  <2>2. QED  BY <1>4, <2>1
<1>9. QED  BY <1>5, <1>6, <1>7, <1>8

(* The techniques of a playbook are those of the catalog. *)
LEMMA TechniquesType ==
  ASSUME NEW p PROVE TechniquesOf(p) \in Seq(TechniqueIds)
<1>1. /\ "T1083" \in TechniqueIds /\ "T1005" \in TechniqueIds
      /\ "T1074.001" \in TechniqueIds /\ "T1070.004" \in TechniqueIds
  BY DEF TechniqueIds
<1>2. CASE p = "DISCOVERY_FIXTURES"
  BY <1>1, <1>2 DEF TechniquesOf
<1>3. CASE p = "COLLECT_AND_STAGE"
  BY <1>1, <1>3 DEF TechniquesOf
<1>4. CASE p = "CLEANUP"
  BY <1>1, <1>4 DEF TechniquesOf
<1>5. CASE p \notin {"DISCOVERY_FIXTURES", "COLLECT_AND_STAGE", "CLEANUP"}
  BY <1>5 DEF TechniquesOf
<1>6. QED  BY <1>2, <1>3, <1>4, <1>5

-----------------------------------------------------------------------------
(* Timeline entries. *)

EntryKinds ==
  {"exercise.started", "task.queued", "task.completed", "task.failed",
   "task.timeout", "task.cancelled", "task.expired", "technique.observed",
   "detection.matched", "exercise.completed", "exercise.failed",
   "containment.applied"}

(* A timeline entry of known kind, rule, technique and action is typed. *)
LEMMA EntryIsTyped ==
  ASSUME NEW k \in EntryKinds, NEW i \in Nat, NEW r \in RuleIds \cup {""},
         NEW t \in TechniqueIds \cup {""}, NEW a \in CONTAINMENT_ACTIONS \cup {""}
  PROVE  Entry(k, i, r, t, a) \in EntryType
BY DEF Entry, EntryType, EntryKinds

(* A timeline entry about a task is typed. *)
LEMMA TaskEntryIsTyped ==
  ASSUME NEW k \in EntryKinds, NEW i \in Nat
  PROVE  TaskEntry(k, i) \in EntryType /\ <<TaskEntry(k, i)>> \in Seq(EntryType)
<1>1. TaskEntry(k, i) \in EntryType
  BY EntryIsTyped DEF TaskEntry
<1>2. \A e \in EntryType : <<e>> \in Seq(EntryType)
  OBVIOUS
<1>3. QED  BY <1>1, <1>2

(* Appending to a bounded timeline keeps it a timeline. *)
LEMMA AppendTimelineType ==
  ASSUME NEW s \in Seq(EntryType), NEW t \in Seq(EntryType)
  PROVE  AppendTimeline(s, t) \in Seq(EntryType)
<1> DEFINE all == s \o t
<1>1. all \in Seq(EntryType)
  BY ConcatProperties
<1> HIDE DEF all
<1>2. Len(all) \in Nat /\ \A i \in 1..Len(all) : all[i] \in EntryType
  BY <1>1, LenProperties, ElementOfSeq
<1>3. CASE Len(all) <= MAX_EXERCISE_TIMELINE
  BY <1>1, <1>3 DEF AppendTimeline, all
<1>4. CASE ~(Len(all) <= MAX_EXERCISE_TIMELINE)
  <2>1. \A i \in 1..16 : all[i] \in EntryType
    BY <1>2, <1>4 DEF MAX_EXERCISE_TIMELINE
  <2>2. SubSeq(all, 1, 16) \in Seq(EntryType)
    BY <2>1, SubSeqProperties
  <2>3. QED  BY <1>4, <2>2 DEF AppendTimeline, all, MAX_EXERCISE_TIMELINE
<1>5. QED  BY <1>3, <1>4

(* _append_exercise_task_evidence writes timeline entries. *)
LEMMA TaskEvidenceType ==
  ASSUME NEW i \in Nat, NEW t, Terminal(t)
  PROVE  TaskEvidence(i, t) \in Seq(EntryType)
<1>1. TaskKind(t.status) \in EntryKinds
  BY DEF TaskKind, Terminal, TERMINAL_TASK_STATUSES, EntryKinds
<1>2. <<TaskEntry(TaskKind(t.status), i)>> \in Seq(EntryType)
  BY <1>1, TaskEntryIsTyped
<1> DEFINE ids == TechniquesOf(t.playbook)
           f == [k \in 1..Len(ids) |-> Entry("technique.observed", i, "", ids[k], "")]
<1>3. ids \in Seq(TechniqueIds)
  BY TechniquesType
<1> HIDE DEF ids
<1>4. Len(ids) \in Nat /\ \A k \in 1..Len(ids) : ids[k] \in TechniqueIds
  BY <1>3, LenProperties, ElementOfSeq
<1>5. ASSUME NEW k \in 1..Len(ids)
      PROVE  Entry("technique.observed", i, "", ids[k], "") \in EntryType
  <2>1. "technique.observed" \in EntryKinds /\ ids[k] \in TechniqueIds \cup {""}
    BY <1>4 DEF EntryKinds
  <2>2. "" \in RuleIds \cup {""} /\ "" \in CONTAINMENT_ACTIONS \cup {""}
    OBVIOUS
  <2>3. QED  BY <2>1, <2>2, EntryIsTyped
<1>6. f \in [1..Len(ids) -> EntryType]
  BY <1>5
<1> HIDE DEF f
<1>7. f \in Seq(EntryType)
  BY <1>4, <1>6, FunctionIsSeq
<1>8. <<>> \in Seq(EntryType)
  BY EmptySeq
<1>9. (IF t.status # "completed" THEN <<>> ELSE f) \in Seq(EntryType)
  BY <1>7, <1>8
<1>10. QED  BY <1>2, <1>9, ConcatProperties DEF TaskEvidence, f, ids

(* The entries of matched detection rules are timeline entries. *)
LEMMA DetectionEntriesType ==
  ASSUME NEW i \in Nat, NEW rules \in Seq(RuleType)
  PROVE  DetectionEntries(rules, i) \in Seq(EntryType)
<1>1. Len(rules) \in Nat /\ \A k \in 1..Len(rules) : rules[k] \in RuleType
  BY LenProperties, ElementOfSeq
<1>2. ASSUME NEW k \in 1..Len(rules)
      PROVE  Entry("detection.matched", i, rules[k].id, rules[k].technique, "") \in EntryType
  <2>1. rules[k].id \in RuleIds \cup {""} /\ rules[k].technique \in TechniqueIds \cup {""}
    BY <1>1 DEF RuleType
  <2>2. "detection.matched" \in EntryKinds /\ "" \in CONTAINMENT_ACTIONS \cup {""}
    BY DEF EntryKinds
  <2>3. QED  BY <2>1, <2>2, EntryIsTyped
<1>3. DetectionEntries(rules, i) \in [1..Len(rules) -> EntryType]
  BY <1>2 DEF DetectionEntries
<1>4. QED  BY <1>1, <1>3, FunctionIsSeq
-----------------------------------------------------------------------------
(* _refresh_exercises_locked keeps an exercise well formed. *)

LEMMA MatchedRulesType ==
  ASSUME NEW x, NEW T, NEW i PROVE MatchedRules(x, T, i) \in Seq(RuleType)
<1>1. <<>> \in Seq(RuleType)
  BY EmptySeq
<1>2. detections_for_playbook(x.scenario, T[i].playbook) \in Seq(RuleType)
  BY DetectionsType
<1>3. QED  BY <1>1, <1>2 DEF MatchedRules

(* A refresh raises alerts of the catalog's rules. *)
LEMMA NewAlertsType ==
  ASSUME NEW x, NEW T, NEW i \in Nat
  PROVE  NewAlerts(x, T, i) \in SUBSET AlertType
<1> DEFINE rules == MatchedRules(x, T, i)
<1>1. rules \in Seq(RuleType)
  BY MatchedRulesType
<1> HIDE DEF rules
<1>2. \A k \in 1..Len(rules) : rules[k] \in RuleType
  BY <1>1, ElementOfSeq
<1>3. \A k \in 1..Len(rules) : [rule_id |-> rules[k].id, task |-> i, status |-> "open"] \in AlertType
  BY <1>2 DEF AlertType, RuleType
<1>4. {[rule_id |-> rules[k].id, task |-> i, status |-> "open"] : k \in 1..Len(rules)}
        \in SUBSET AlertType
  BY <1>3
<1>5. QED  BY <1>4 DEF NewAlerts, rules

(* What a refresh observes of one task are timeline entries. *)
LEMMA NewEntriesType ==
  ASSUME NEW x, NEW T, NEW i \in Nat
  PROVE  NewEntries(x, T, i) \in Seq(EntryType)
<1>1. CASE i \in Fresh(x, T)
  <2>1. Terminal(T[i])
    BY <1>1 DEF Fresh
  <2>2. TaskEvidence(i, T[i]) \in Seq(EntryType)
    BY <2>1, TaskEvidenceType
  <2>3. DetectionEntries(MatchedRules(x, T, i), i) \in Seq(EntryType)
    BY MatchedRulesType, DetectionEntriesType
  <2>4. QED  BY <1>1, <2>2, <2>3, ConcatProperties DEF NewEntries
<1>2. CASE i \notin Fresh(x, T)
  BY <1>2, EmptySeq DEF NewEntries
<1>3. QED  BY <1>1, <1>2

(* The entry that closes an exercise is a timeline entry. *)
LEMMA ClosingEntryType ==
  ASSUME NEW x, NEW T PROVE ClosingEntry(x, T) \in Seq(EntryType)
<1>1. <<>> \in Seq(EntryType)
  BY EmptySeq
<1>2. "exercise.completed" \in EntryKinds /\ "exercise.failed" \in EntryKinds /\ 0 \in Nat
  BY DEF EntryKinds
<1>3. /\ <<TaskEntry("exercise.completed", 0)>> \in Seq(EntryType)
      /\ <<TaskEntry("exercise.failed", 0)>> \in Seq(EntryType)
  BY <1>2, TaskEntryIsTyped
<1>4. QED  BY <1>1, <1>3 DEF ClosingEntry

(* The tasks of an exercise are task ids. *)
LEMMA ExerciseTasks ==
  ASSUME NEW x \in ExerciseType
  PROVE  x.task_ids[1] \in Nat /\ x.task_ids[2] \in Nat /\ TasksOf(x) \in SUBSET Nat
BY DEF ExerciseType, TasksOf

(* _refresh_exercises_locked keeps an exercise record typed. *)
LEMMA RefreshType ==
  ASSUME NEW x \in ExerciseType, NEW T
  PROVE  Refresh(x, T) \in ExerciseType
<1>0. x.task_ids[1] \in Nat /\ x.task_ids[2] \in Nat /\ TasksOf(x) \in SUBSET Nat
  BY ExerciseTasks
<1> DEFINE new == NewAlerts(x, T, x.task_ids[1]) \cup NewAlerts(x, T, x.task_ids[2])
           more == NewEntries(x, T, x.task_ids[1]) \o NewEntries(x, T, x.task_ids[2])
                     \o ClosingEntry(x, T)
<1>a. /\ x.observed \in SUBSET Nat /\ x.alerts \in SUBSET AlertType
      /\ x.detection_status \in {"pending", "detected"}
      /\ x.status \in {"running", "completed", "failed", "contained"}
      /\ x.timeline \in Seq(EntryType)
  BY DEF ExerciseType
<1>b. x.completion_recorded \in BOOLEAN
  BY DEF ExerciseType
<1>1. PICK o \in SUBSET Nat : o = x.observed \cup Fresh(x, T)
  <2>1. Fresh(x, T) \in SUBSET Nat
    BY <1>0 DEF Fresh
  <2>2. QED  BY <1>a, <2>1
<1>2. new \in SUBSET AlertType
  BY <1>0, NewAlertsType
<1>3. more \in Seq(EntryType)
  <2>1. NewEntries(x, T, x.task_ids[1]) \in Seq(EntryType)
    BY <1>0, NewEntriesType
  <2>2. NewEntries(x, T, x.task_ids[2]) \in Seq(EntryType)
    BY <1>0, NewEntriesType
  <2>3. ClosingEntry(x, T) \in Seq(EntryType)
    BY ClosingEntryType
  <2>4. NewEntries(x, T, x.task_ids[1]) \o NewEntries(x, T, x.task_ids[2]) \in Seq(EntryType)
    BY <2>1, <2>2, ConcatProperties
  <2>5. QED  BY <2>3, <2>4, ConcatProperties
<1> HIDE DEF new, more
<1>4. PICK al \in SUBSET AlertType : al = x.alerts \cup new
  BY <1>2, <1>a
<1>5. PICK d \in {"pending", "detected"} :
        d = IF new # {} THEN "detected" ELSE x.detection_status
  BY <1>a
<1>6. PICK st \in {"running", "completed", "failed", "contained"} :
        st = IF Concludes(x, T) THEN Verdict(x, T) ELSE x.status
  BY <1>a DEF Verdict
<1>7. PICK c \in BOOLEAN : c = (x.completion_recorded \/ Concludes(x, T))
  OBVIOUS
<1>8. PICK tl \in Seq(EntryType) : tl = AppendTimeline(x.timeline, more)
  BY <1>3, <1>a, AppendTimelineType
<1> DEFINE y == [x EXCEPT !.observed = o, !.alerts = al, !.detection_status = d,
                          !.status = st, !.completion_recorded = c, !.timeline = tl]
<1>9. Refresh(x, T) = y
  BY <1>1, <1>4, <1>5, <1>6, <1>7, <1>8 DEF Refresh, new, more
<1>10. y \in ExerciseType
  BY DEF ExerciseType
<1>11. QED  BY <1>9, <1>10

ExerciseDict(X) == X \in [DOMAIN X -> ExerciseType]

(* A refresh keeps the exercise dictionary typed, with the same ids. *)
LEMMA RefreshAllType ==
  ASSUME NEW X, ExerciseDict(X), NEW T
  PROVE  ExerciseDict(RefreshAll(X, T)) /\ DOMAIN RefreshAll(X, T) = DOMAIN X
<1>1. \A e \in DOMAIN X : Refresh(X[e], T) \in ExerciseType
  BY RefreshType DEF ExerciseDict
<1>2. QED  BY <1>1 DEF RefreshAll, ExerciseDict

-----------------------------------------------------------------------------
(* contain_exercise and start_exercise. *)

LEMMA ContainedExerciseType ==
  ASSUME NEW x \in ExerciseType, NEW T, NEW a \in CONTAINMENT_ACTIONS
  PROVE  ContainedExercise(x, T, a) \in ExerciseType
<1>0. x.task_ids[1] \in Nat /\ x.task_ids[2] \in Nat /\ TasksOf(x) \in SUBSET Nat
  BY ExerciseTasks
<1>a. /\ x.observed \in SUBSET Nat /\ x.alerts \in SUBSET AlertType
      /\ x.timeline \in Seq(EntryType)
  BY DEF ExerciseType
<1>1. PICK st \in {"running", "completed", "failed", "contained"} : st = "contained"
  OBVIOUS
<1>2. PICK o \in SUBSET Nat : o = x.observed \cup Cancelled(x, T)
  <2>1. Cancelled(x, T) \in SUBSET Nat
    BY <1>0 DEF Cancelled
  <2>2. QED  BY <1>a, <2>1
<1>3. PICK al \in SUBSET AlertType : al = {[b EXCEPT !.status = "contained"] : b \in x.alerts}
  <2>1. PICK s \in {"open", "contained"} : s = "contained"
    OBVIOUS
  <2>2. \A b \in AlertType : [b EXCEPT !.status = s] \in AlertType
    BY DEF AlertType
  <2>3. {[b EXCEPT !.status = s] : b \in x.alerts} \in SUBSET AlertType
    BY <1>a, <2>2
  <2>4. QED  BY <2>1, <2>3
<1> DEFINE more == CancelledEntry(x, T, x.task_ids[1]) \o CancelledEntry(x, T, x.task_ids[2])
                     \o <<Entry("containment.applied", 0, "", "", a)>>
<1>4. \A i \in Nat : CancelledEntry(x, T, i) \in Seq(EntryType)
  <2>1. "task.cancelled" \in EntryKinds
    BY DEF EntryKinds
  <2>2. <<>> \in Seq(EntryType)
    BY EmptySeq
  <2>3. QED  BY <2>1, <2>2, TaskEntryIsTyped DEF CancelledEntry
<1>5. <<Entry("containment.applied", 0, "", "", a)>> \in Seq(EntryType)
  <2>1. /\ "containment.applied" \in EntryKinds /\ 0 \in Nat /\ "" \in RuleIds \cup {""}
        /\ "" \in TechniqueIds \cup {""} /\ a \in CONTAINMENT_ACTIONS \cup {""}
    BY DEF EntryKinds
  <2>2. Entry("containment.applied", 0, "", "", a) \in EntryType
    BY <2>1, EntryIsTyped
  <2>3. \A e \in EntryType : <<e>> \in Seq(EntryType)
    OBVIOUS
  <2>4. QED  BY <2>2, <2>3
<1>6. more \in Seq(EntryType)
  <2>1. /\ CancelledEntry(x, T, x.task_ids[1]) \in Seq(EntryType)
        /\ CancelledEntry(x, T, x.task_ids[2]) \in Seq(EntryType)
    BY <1>0, <1>4
  <2>2. CancelledEntry(x, T, x.task_ids[1]) \o CancelledEntry(x, T, x.task_ids[2])
          \in Seq(EntryType)
    BY <2>1, ConcatProperties
  <2>3. QED  BY <1>5, <2>2, ConcatProperties
<1> HIDE DEF more
<1>7. PICK tl \in Seq(EntryType) : tl = AppendTimeline(x.timeline, more)
  BY <1>6, <1>a, AppendTimelineType
<1>8. PICK c \in CONTAINMENT_ACTIONS \cup {""} : c = a
  OBVIOUS
<1> DEFINE y == [x EXCEPT !.status = st, !.containment = c, !.observed = o,
                          !.alerts = al, !.timeline = tl]
<1>9. ContainedExercise(x, T, a) = y
  BY <1>1, <1>2, <1>3, <1>7, <1>8 DEF ContainedExercise, more
<1>10. y \in ExerciseType
  BY DEF ExerciseType
<1>11. QED  BY <1>9, <1>10

(* The record start_exercise builds is an exercise record. *)
LEMMA NewExerciseType ==
  ASSUME NEW n \in Nat, NEW s \in SCENARIO_IDS, NEW actor \in Actors,
         NEW i \in Nat, NEW j \in Nat
  PROVE  NewExercise(n, s, actor, i, j) \in ExerciseType
<1> DEFINE e1 == TaskEntry("exercise.started", 0)
           e2 == TaskEntry("task.queued", i)
           e3 == TaskEntry("task.queued", j)
<1>1. e1 \in EntryType /\ e2 \in EntryType /\ e3 \in EntryType
  <2>1. "exercise.started" \in EntryKinds /\ "task.queued" \in EntryKinds /\ 0 \in Nat
    BY DEF EntryKinds
  <2>2. QED  BY <2>1, TaskEntryIsTyped
<1> HIDE DEF e1, e2, e3
<1>2. <<e1, e2, e3>> \in Seq(EntryType)
  BY <1>1
<1>3. PICK tl \in Seq(EntryType) : tl = <<e1, e2, e3>>
  BY <1>2
<1>4. PICK st \in {"running", "completed", "failed", "contained"} : st = "running"
  OBVIOUS
<1>5. PICK d \in {"pending", "detected"} : d = "pending"
  OBVIOUS
<1>6. PICK ids \in Nat \X Nat : ids = <<i, j>>
  OBVIOUS
<1>7. PICK al \in SUBSET AlertType : al = {}
  OBVIOUS
<1>8. PICK o \in SUBSET Nat : o = {}
  OBVIOUS
<1>9. PICK f \in BOOLEAN : f = FALSE
  OBVIOUS
<1>10. PICK c \in CONTAINMENT_ACTIONS \cup {""} : c = ""
  OBVIOUS
<1>11. NewExercise(n, s, actor, i, j) =
         [node |-> n, scenario |-> s, created_by |-> actor, status |-> st,
          detection_status |-> d, task_ids |-> ids, alerts |-> al, observed |-> o,
          completion_recorded |-> f, containment |-> c, timeline |-> tl]
  BY <1>3, <1>4, <1>5, <1>6, <1>7, <1>8, <1>9, <1>10 DEF NewExercise, e1, e2, e3
<1>12. [node |-> n, scenario |-> s, created_by |-> actor, status |-> st,
          detection_status |-> d, task_ids |-> ids, alerts |-> al, observed |-> o,
          completion_recorded |-> f, containment |-> c, timeline |-> tl] \in ExerciseType
  BY DEF ExerciseType
<1>13. QED  BY <1>11, <1>12
-----------------------------------------------------------------------------
(* The rest of the state. *)

ExercisesOK == ExerciseDict(exercises) /\ DOMAIN exercises \subseteq 1..seq.exercise

ReplayOK ==
  /\ operation_idempotency \in [DOMAIN operation_idempotency -> OperationRecordType]
  /\ DOMAIN operation_idempotency \subseteq Keys
  /\ exercise_idempotency \in [DOMAIN exercise_idempotency -> ExerciseRecordType]
  /\ DOMAIN exercise_idempotency \subseteq Keys

TypeInv == LedgerInv /\ ExercisesOK /\ ReplayOK

DictOf(S, f) == f \in [DOMAIN f -> S]

(* Storing a typed value keeps a dictionary typed. *)
LEMMA PutType ==
  ASSUME NEW S, NEW f, DictOf(S, f), NEW k, NEW v \in S
  PROVE  DictOf(S, Put(f, k, v))
BY DEF Put, DictOf

(* Deleting keys keeps a dictionary typed. *)
LEMMA DropType ==
  ASSUME NEW S, NEW f, DictOf(S, f), NEW D
  PROVE  DictOf(S, Drop(f, D))
BY DEF Drop, DictOf

(* Handlers that refresh the exercises and leave the replay records alone. *)
LEMMA RefreshingStep ==
  ASSUME TypeInv, NEW X, ExerciseDict(X), DOMAIN X = DOMAIN exercises,
         exercises' = X, UNCHANGED replay, seq' = seq
  PROVE  ExercisesOK' /\ ReplayOK'
BY DEF TypeInv, ExercisesOK, ReplayOK, replay

(* The refreshes of an expiry keep the exercise dictionary typed. *)
LEMMA ExpiredExercisesType ==
  ASSUME TypeInv, NEW lag
  PROVE  /\ ExerciseDict(ExpiredExercises(lag))
         /\ DOMAIN ExpiredExercises(lag) = DOMAIN exercises
<1> DEFINE X == RefreshAll(exercises, FirstExpiredTasks(nodes, tasks, lag))
<1>1. ExerciseDict(exercises)
  BY DEF TypeInv, ExercisesOK
<1>2. ExerciseDict(X) /\ DOMAIN X = DOMAIN exercises
  BY <1>1, RefreshAllType
<1> HIDE DEF X
<1>3. /\ ExerciseDict(RefreshAll(X, ExpiredTasks(nodes, tasks, lag)))
      /\ DOMAIN RefreshAll(X, ExpiredTasks(nodes, tasks, lag)) = DOMAIN X
  BY <1>2, RefreshAllType
<1>4. QED  BY <1>2, <1>3 DEF ExpiredExercises, X

(* The idempotency records queue_operation leaves are typed and keyed. *)
LEMMA RememberOperationType ==
  ASSUME ReplayOK, NEW key \in Keys \cup {NoKey}, NEW record \in OperationRecordType
  PROVE  LET R == RememberOperation(key, record)
         IN R \in [DOMAIN R -> OperationRecordType] /\ DOMAIN R \subseteq Keys
<1>1. CASE key = NoKey
  BY <1>1 DEF RememberOperation, ReplayOK
<1>2. CASE key # NoKey
  <2> DEFINE D == Drop(operation_idempotency, EvictedKeys(key))
  <2>0. DictOf(OperationRecordType, operation_idempotency)
    BY DEF DictOf, ReplayOK
  <2>1. DictOf(OperationRecordType, D)
    BY <2>0, DropType
  <2>1a. DOMAIN D \subseteq DOMAIN operation_idempotency
    BY DEF Drop
  <2> HIDE DEF D
  <2>2. DictOf(OperationRecordType, Put(D, key, record))
    BY <2>1, PutType
  <2>2a. DOMAIN Put(D, key, record) = DOMAIN D \cup {key}
    BY DEF Put
  <2>3. QED  BY <1>2, <2>1a, <2>2, <2>2a DEF RememberOperation, D, DictOf, ReplayOK
<1>3. QED  BY <1>1, <1>2

(* queue_operation keeps exercises and idempotency records typed. *)
LEMMA QueueOperationType ==
  ASSUME TypeInv, NEW n \in DOMAIN nodes, NEW r \in OperationRequests,
         NEW lag \in Lags, queue_operation(n, r, lag)
  PROVE  ExercisesOK' /\ ReplayOK'
<1> DEFINE steps == Len(r.playbooks)
           op == seq.operation + 1
           ids == (seq.task + 1)..(seq.task + steps)
           record == [created_by |-> r.created_by, node |-> n,
                      playbooks |-> r.playbooks, ttl |-> r.ttl, operation |-> op,
                      task_ids |-> ids]
<1>1. /\ operation_idempotency' = RememberOperation(r.key, record)
      /\ seq' = [seq EXCEPT !.task = @ + steps, !.operation = op]
      /\ exercises' = exercises /\ exercise_idempotency' = exercise_idempotency
  BY DEF queue_operation
<1>2. /\ r.playbooks \in Seq(PLAYBOOK_NAMES) /\ r.created_by \in Actors
      /\ r.ttl \in QueueTTLs /\ r.key \in Keys \cup {NoKey}
  BY RequestsAssumption
<1>3. n \in Nat /\ op \in Nat /\ seq.task \in Nat
  BY DEF TypeInv, LedgerInv, SeqOK, NodeDict
<1>4. ids \in SUBSET Nat
  <2>1. Len(r.playbooks) \in Nat
    BY <1>2, LenProperties
  <2>2. QED  BY <1>3, <2>1
<1> HIDE DEF ids, op, steps
<1>5. record \in OperationRecordType
  BY <1>2, <1>3, <1>4 DEF OperationRecordType
<1> HIDE DEF record
<1>6. /\ operation_idempotency' \in [DOMAIN operation_idempotency' -> OperationRecordType]
      /\ DOMAIN operation_idempotency' \subseteq Keys
  BY <1>1, <1>2, <1>5, RememberOperationType DEF TypeInv
<1>7. seq'.exercise = seq.exercise
  BY <1>1 DEF TypeInv, LedgerInv, SeqOK
<1>8. QED  BY <1>1, <1>6, <1>7 DEF TypeInv, ExercisesOK, ReplayOK

(* start_exercise keeps exercises and idempotency records typed. *)
LEMMA StartExerciseType ==
  ASSUME TypeInv, NEW n \in DOMAIN nodes, NEW r \in ExerciseRequests,
         NEW lag \in Lags, start_exercise(n, r, lag)
  PROVE  ExercisesOK' /\ ReplayOK'
<1> DEFINE e == seq.exercise + 1
           t1 == seq.task + 1
           x == NewExercise(n, r.scenario, r.created_by, t1, t1 + 1)
           record == [created_by |-> r.created_by, node |-> n,
                      scenario |-> r.scenario, exercise |-> e]
<1>1. /\ exercises' = Put(exercises, e, x)
      /\ exercise_idempotency' = IF r.key = NoKey THEN exercise_idempotency
                                 ELSE Put(exercise_idempotency, r.key, record)
      /\ seq' = [seq EXCEPT !.task = @ + 2, !.exercise = e]
      /\ operation_idempotency' = operation_idempotency
  BY DEF start_exercise
<1>2. /\ r.scenario \in SCENARIO_IDS /\ r.created_by \in Actors
      /\ r.key \in Keys \cup {NoKey}
  BY RequestsAssumption
<1>3. n \in Nat /\ e \in Nat /\ t1 \in Nat /\ t1 + 1 \in Nat /\ seq.exercise \in Nat
  BY DEF TypeInv, LedgerInv, SeqOK, NodeDict
<1>4. x \in ExerciseType
  BY <1>2, <1>3, NewExerciseType
<1>5. record \in ExerciseRecordType
  BY <1>2, <1>3 DEF ExerciseRecordType
<1>6. e = seq.exercise + 1 /\ seq'.exercise = e
  BY <1>1, <1>3 DEF TypeInv, LedgerInv, SeqOK
<1> HIDE DEF x, record, e
<1>7. /\ exercises' \in [DOMAIN exercises' -> ExerciseType]
      /\ DOMAIN exercises' = DOMAIN exercises \cup {e}
  <2>1. DictOf(ExerciseType, exercises)
    BY DEF TypeInv, ExercisesOK, ExerciseDict, DictOf
  <2>2. DictOf(ExerciseType, Put(exercises, e, x))
    BY <1>4, <2>1, PutType
  <2>3. DOMAIN Put(exercises, e, x) = DOMAIN exercises \cup {e}
    BY DEF Put
  <2>4. QED  BY <1>1, <2>2, <2>3 DEF DictOf
<1>8. \A k \in DOMAIN exercises' : k \in 1..seq'.exercise
  <2>1. \A k \in DOMAIN exercises : k \in 1..seq.exercise
    BY DEF TypeInv, ExercisesOK
  <2>2. QED  BY <1>3, <1>6, <1>7, <2>1
<1>9. /\ exercise_idempotency' \in [DOMAIN exercise_idempotency' -> ExerciseRecordType]
      /\ DOMAIN exercise_idempotency' \subseteq Keys
  <2>1. CASE r.key = NoKey
    BY <1>1, <2>1 DEF TypeInv, ReplayOK
  <2>2. CASE r.key # NoKey
    <3>1. exercise_idempotency' = Put(exercise_idempotency, r.key, record)
      BY <1>1, <2>2
    <3>2. DictOf(ExerciseRecordType, exercise_idempotency)
      BY DEF TypeInv, ReplayOK, DictOf
    <3>3. DictOf(ExerciseRecordType, exercise_idempotency')
      BY <1>5, <3>1, <3>2, PutType
    <3>4. DOMAIN exercise_idempotency' = DOMAIN exercise_idempotency \cup {r.key}
      BY <3>1 DEF Put
    <3>5. QED  BY <1>2, <2>2, <3>3, <3>4 DEF TypeInv, ReplayOK, DictOf
  <2>3. QED  BY <2>1, <2>2
<1>10. QED
  BY <1>1, <1>7, <1>8, <1>9 DEF TypeInv, ExercisesOK, ReplayOK, ExerciseDict

(* contain_exercise keeps exercises and idempotency records typed. *)
LEMMA ContainType ==
  ASSUME TypeInv, NEW e \in DOMAIN exercises, NEW a \in CONTAINMENT_ACTIONS,
         contain_exercise(e, a)
  PROVE  ExercisesOK' /\ ReplayOK'
<1> DEFINE x == ContainedExercise(exercises[e], tasks, a)
<1>1. /\ exercises' = [exercises EXCEPT ![e] = x]
      /\ seq' = seq /\ UNCHANGED replay
  BY DEF contain_exercise
<1>2. exercises \in [DOMAIN exercises -> ExerciseType] /\ exercises[e] \in ExerciseType
  BY DEF TypeInv, ExercisesOK, ExerciseDict
<1>3. x \in ExerciseType
  BY <1>2, ContainedExerciseType
<1> HIDE DEF x
<1>4. ExerciseDict(exercises') /\ DOMAIN exercises' = DOMAIN exercises
  BY <1>1, <1>2, <1>3 DEF ExerciseDict
<1>5. QED  BY <1>1, <1>4, RefreshingStep

-----------------------------------------------------------------------------
(* The state of LabState.__init__ is typed. *)
LEMMA TypeInit == Init => TypeInv
<1> SUFFICES ASSUME Init PROVE TypeInv
  OBVIOUS
<1>1. LedgerInv
  BY LedgerInit
<1>2. ExercisesOK /\ ReplayOK
  BY DEF Init, EmptyDict, ExercisesOK, ExerciseDict, ReplayOK
<1>3. QED  BY <1>1, <1>2 DEF TypeInv

(* Every handler keeps every record typed. *)
LEMMA TypeStep == TypeInv /\ [Next]_vars => TypeInv'
<1> SUFFICES ASSUME TypeInv, [Next]_vars PROVE ExercisesOK' /\ ReplayOK'
  BY LedgerStep DEF TypeInv
<1>0. ExerciseDict(exercises)
  BY DEF TypeInv, ExercisesOK
<1>1. CASE UNCHANGED vars
  BY <1>1 DEF vars, TypeInv, ExercisesOK, ReplayOK
<1>2. CASE Tick
  BY <1>0, <1>2, RefreshingStep DEF Tick
<1>3. ASSUME NEW lag \in Lags, Expire(lag) PROVE ExercisesOK' /\ ReplayOK'
  <2>1. exercises' = ExpiredExercises(lag) /\ seq' = seq /\ UNCHANGED replay
    BY <1>3 DEF Expire, ExpiredExercises
  <2>2. QED  BY <2>1, ExpiredExercisesType, RefreshingStep
<1>4. CASE NodeCall
  <2>1. ASSUME NEW e \in Enrolments, NEW lag \in Lags, enroll_node(e, lag)
        PROVE  ExercisesOK' /\ ReplayOK'
    <3>1. /\ exercises' = exercises /\ UNCHANGED replay
          /\ seq' = [seq EXCEPT !.node = seq.node + 1]
      BY <2>1 DEF enroll_node
    <3>2. seq'.exercise = seq.exercise
      BY <3>1 DEF TypeInv, LedgerInv, SeqOK
    <3>3. QED  BY <3>1, <3>2 DEF TypeInv, ExercisesOK, ReplayOK, replay
  <2>2. ASSUME NEW n \in DOMAIN nodes, NEW lag \in Lags, poll_node(n, lag)
        PROVE  ExercisesOK' /\ ReplayOK'
    <3>1. exercises' = ExpiredExercises(lag) /\ seq' = seq /\ UNCHANGED replay
      BY <2>2 DEF poll_node
    <3>2. QED  BY <3>1, ExpiredExercisesType, RefreshingStep
  <2>3. ASSUME NEW n \in DOMAIN nodes, NEW i \in DOMAIN tasks, NEW s \in Submissions,
               NEW lag \in Lags, submit_result(n, i, s, lag)
        PROVE  ExercisesOK' /\ ReplayOK'
    <3>1. /\ exercises' = RefreshAll(ExpiredExercises(lag), tasks')
          /\ seq' = seq /\ UNCHANGED replay
      BY <2>3 DEF submit_result
    <3>2. ExerciseDict(exercises') /\ DOMAIN exercises' = DOMAIN exercises
      BY <3>1, ExpiredExercisesType, RefreshAllType
    <3>3. QED  BY <3>1, <3>2, RefreshingStep
  <2>4. ASSUME NEW n \in DOMAIN nodes, disconnect_node(n)
        PROVE  ExercisesOK' /\ ReplayOK'
    <3>1. /\ exercises' = RefreshAll(exercises, tasks') /\ seq' = seq /\ UNCHANGED replay
      BY <2>4 DEF disconnect_node
    <3>2. QED  BY <1>0, <3>1, RefreshAllType, RefreshingStep
  <2>5. QED  BY <1>4, <2>1, <2>2, <2>3, <2>4 DEF NodeCall
<1>5. CASE OperatorCall
  <2>1. ASSUME NEW n \in DOMAIN nodes, NEW r \in TaskRequests, NEW lag \in Lags,
               queue_task(n, r, lag)
        PROVE  ExercisesOK' /\ ReplayOK'
    <3>1. /\ exercises' = exercises /\ UNCHANGED replay
          /\ seq' = [seq EXCEPT !.task = seq.task + 1]
      BY <2>1 DEF queue_task
    <3>2. seq'.exercise = seq.exercise
      BY <3>1 DEF TypeInv, LedgerInv, SeqOK
    <3>3. QED  BY <3>1, <3>2 DEF TypeInv, ExercisesOK, ReplayOK, replay
  <2>2. ASSUME NEW n \in DOMAIN nodes, NEW r \in OperationRequests, NEW lag \in Lags,
               queue_operation(n, r, lag)
        PROVE  ExercisesOK' /\ ReplayOK'
    BY <2>2, QueueOperationType
  <2>3. ASSUME NEW n \in DOMAIN nodes, NEW r \in ExerciseRequests, NEW lag \in Lags,
               start_exercise(n, r, lag)
        PROVE  ExercisesOK' /\ ReplayOK'
    BY <2>3, StartExerciseType
  <2>4. ASSUME NEW i \in DOMAIN tasks, cancel_task(i)
        PROVE  ExercisesOK' /\ ReplayOK'
    <3>1. /\ exercises' = RefreshAll(exercises, tasks') /\ seq' = seq /\ UNCHANGED replay
      BY <2>4 DEF cancel_task
    <3>2. QED  BY <1>0, <3>1, RefreshAllType, RefreshingStep
  <2>5. ASSUME NEW e \in DOMAIN exercises, NEW a \in CONTAINMENT_ACTIONS,
               contain_exercise(e, a)
        PROVE  ExercisesOK' /\ ReplayOK'
    BY <2>5, ContainType
  <2>6. CASE reset
    BY <2>6 DEF reset, EmptyDict, ExercisesOK, ExerciseDict, ReplayOK
  <2>7. QED  BY <1>5, <2>1, <2>2, <2>3, <2>4, <2>5, <2>6 DEF OperatorCall
<1>6. QED  BY <1>1, <1>2, <1>3, <1>4, <1>5 DEF Next

(* Every handler leaves every record of nodes, tasks, tombstones, exercises
   and replay dictionaries well formed, for all constants. *)
THEOREM TypeCorrect == Spec => []TypeOK
<1>1. TypeInv => TypeOK
  BY DEF TypeInv, LedgerInv, ExercisesOK, ExerciseDict, ReplayOK, NodeDict, TaskDict,
         SeqOK, TypeOK
<1>2. QED  BY <1>1, TypeInit, TypeStep, PTL DEF Spec

-----------------------------------------------------------------------------
(***************************************************************************)
(* What the handlers of LabState guarantee between them: limits, keys,     *)
(* retention, pausing, replay, containment and the life cycle of           *)
(* TaskLifecycle.  Every step of LabState either moves tasks that are      *)
(* there (Moves), admits new ones behind freshly made slots (Admits) or is *)
(* a reset; the guarantees follow from this shape.                         *)
(***************************************************************************)

(* One task through one handler that admits none: it is as it was but for
   its timer and delivery count, was called off, was delivered or answered. *)
Waits(t, u) ==
  /\ SameTask(t, u) /\ u.status = t.status /\ u.result = t.result
  /\ u.accepted = t.accepted /\ (Terminal(t) => u = t)

Delivers(t, u) ==
  /\ SameTask(t, u) /\ t.status = "queued" /\ u.status = "dispatched"
  /\ u.result = t.result /\ u.accepted = t.accepted

Answers(t, u) ==
  /\ SameTask(t, u) /\ t.status = "dispatched"
  /\ u.status \in {"completed", "failed"} /\ u.accepted = TRUE

Moved(t, u) == Waits(t, u) \/ SettledFrom(t, u) \/ Delivers(t, u) \/ Answers(t, u)

(* The task was handed to its node or brought to completion. *)
Advances(t, u) ==
  \/ t.status = "queued" /\ u.status = "dispatched"
  \/ t.status = "dispatched" /\ u.status = "completed"

(* A handler hands out or completes one task at most. *)
Moves(T, U) ==
  /\ U \in [DOMAIN T -> TaskType]
  /\ \A i \in DOMAIN T : Moved(T[i], U[i])
  /\ \A i, j \in DOMAIN T : Advances(T[i], U[i]) /\ Advances(T[j], U[j]) => i = j

(* Nothing happens to a task that is not touched. *)
LEMMA StaysPut == \A t : Waits(t, t)
BY DEF Waits, SameTask

(* Neither settling nor waiting advances a task. *)
LEMMA SettlingAdvancesNone ==
  ASSUME NEW t, NEW u, u = t \/ SettledFrom(t, u) \/ Waits(t, u)
  PROVE  ~Advances(t, u)
BY DEF Advances, SettledFrom, Waits, CalledOff, Terminal, TERMINAL_TASK_STATUSES

(* Settling tasks moves them. *)
LEMMA SettlingMoves ==
  ASSUME NEW T, NEW U, Settles(T, U)
  PROVE  Moves(T, U)
<1>1. ASSUME NEW i \in DOMAIN T PROVE Moved(T[i], U[i])
  <2>1. CASE U[i] = T[i]
    BY <2>1, StaysPut DEF Moved
  <2>2. CASE SettledFrom(T[i], U[i])
    BY <2>2 DEF Moved
  <2>3. QED  BY <2>1, <2>2 DEF Settles
<1>2. QED  BY <1>1, SettlingAdvancesNone DEF Settles, Moves

(* The clock moves timers only. *)
LEMMA TickMoves ==
  ASSUME LedgerInv, Tick
  PROVE  /\ Moves(tasks, tasks')
         /\ \A i \in DOMAIN tasks : Waits(tasks[i], tasks'[i])
         /\ \A i \in DOMAIN tasks :
              tasks'[i].delivery_attempts = tasks[i].delivery_attempts
<1>1. /\ DOMAIN tasks' = DOMAIN tasks
      /\ tasks' = [i \in DOMAIN tasks |-> OlderTask(tasks[i])]
  BY DEF Tick
<1>2. ASSUME NEW i \in DOMAIN tasks
      PROVE  /\ tasks'[i] \in TaskType /\ Waits(tasks[i], tasks'[i])
             /\ tasks'[i].delivery_attempts = tasks[i].delivery_attempts
  <2>1. tasks[i] \in TaskType
    BY DEF LedgerInv, TaskDict
  <2>2. tasks'[i] = OlderTask(tasks[i])
    BY <1>1
  <2>3. Terminal(tasks[i]) => ~Live(tasks[i])
    BY TerminalNotLive
  <2>4. QED  BY <2>1, <2>2, <2>3, OlderTaskType DEF Waits
<1>3. QED  BY <1>1, <1>2, SettlingAdvancesNone DEF Moves, Moved

(* _expire_locked settles tasks. *)
LEMMA ExpiredSettles ==
  ASSUME LedgerInv, NEW lag \in Lags
  PROVE  Settles(tasks, ExpiredTasks(nodes, tasks, lag))
BY ExpiryKeepsLedger DEF LedgerInv

(* A task that the expiry left as it was moves as the poll moves it; one that
   it settled the poll leaves alone. *)
LEMMA PollMoves ==
  ASSUME LedgerInv, NEW n \in DOMAIN nodes, NEW lag \in Lags, poll_node(n, lag)
  PROVE  Moves(tasks, tasks')
<1> DEFINE N == ExpiredNodes(nodes, tasks, lag)
           T == ExpiredTasks(nodes, tasks, lag)
<1>1. tasks' = DeliveredTasks(T, n, N[n].tasking_paused, lag)
  BY DEF poll_node
<1>2. TaskDict(T) /\ DOMAIN T = DOMAIN tasks /\ TasksOK(T) /\ Settles(tasks, T)
  BY ExpiredLedger, ExpiredSettles
<1>3. NodeDict(N) /\ DOMAIN N = DOMAIN nodes
  BY ExpiredLedger
<1> HIDE DEF T, N
<1>4. N[n].tasking_paused \in BOOLEAN
  BY <1>3 DEF NodeDict, NodeType
<1>5. TaskDict(tasks') /\ DOMAIN tasks' = DOMAIN T
  BY <1>1, <1>2, <1>4, DeliveredKeepsTasks
<1>6. ASSUME NEW i \in DOMAIN tasks PROVE Moved(tasks[i], tasks'[i])
  <2>1. tasks'[i] = T[i] \/ Delivery(T, n, i, tasks'[i])
    BY <1>1, <1>2, DeliveredFate
  <2>2. CASE tasks'[i] = T[i]
    BY <1>2, <2>2, SettlingMoves DEF Moves
  <2>3. CASE Delivery(T, n, i, tasks'[i])
    <3>1. ~Terminal(T[i])
      BY <2>3 DEF Delivery, Terminal, TERMINAL_TASK_STATUSES
    <3>2. T[i] = tasks[i]
      BY <1>2, <3>1 DEF Settles, SettledFrom
    <3>3. CASE tasks[i].status = "dispatched"
      BY <2>3, <3>1, <3>2, <3>3 DEF Delivery, Moved, Waits
    <3>4. CASE tasks[i].status = "queued"
      BY <2>3, <3>2, <3>4 DEF Delivery, Moved, Delivers
    <3>5. QED  BY <2>3, <3>2, <3>3, <3>4 DEF Delivery
  <2>4. QED  BY <2>1, <2>2, <2>3
<1>7. \A i, j \in DOMAIN tasks :
        Advances(tasks[i], tasks'[i]) /\ Advances(tasks[j], tasks'[j]) => i = j
  <2>1. \A i \in DOMAIN tasks : ~Advances(tasks[i], T[i])
    BY <1>2, SettlingAdvancesNone DEF Settles
  <2>2. tasks' = T \/ \E a \in DOMAIN T : \A i \in DOMAIN T : i # a => tasks'[i] = T[i]
    BY <1>1, <1>2, DeliveredFate
  <2>3. QED  BY <1>2, <2>1, <2>2
<1>8. QED  BY <1>2, <1>5, <1>6, <1>7 DEF Moves, TaskDict

(* submit_result answers one task. *)
LEMMA SubmitMoves ==
  ASSUME LedgerInv, NEW n \in DOMAIN nodes, NEW a \in DOMAIN tasks,
         NEW s \in AnySubmission, NEW lag \in Lags, submit_result(n, a, s, lag)
  PROVE  /\ Moves(tasks, tasks')
         /\ Answers(tasks[a], tasks'[a]) /\ tasks[a].node = n
         /\ tasks'[a].status = s.status /\ tasks'[a].result = s.result
         /\ \A i \in DOMAIN tasks : i # a => tasks'[i] = ExpiredTasks(nodes, tasks, lag)[i]
<1> DEFINE T == ExpiredTasks(nodes, tasks, lag)
<1>1. tasks' = [T EXCEPT ![a] = AcceptedTask(T[a], s)]
  BY DEF submit_result
<1>2. TaskDict(T) /\ DOMAIN T = DOMAIN tasks /\ TasksOK(T) /\ Settles(tasks, T)
  BY ExpiredLedger, ExpiredSettles
<1>3. T[a].status = "dispatched" /\ T[a].node = n
  BY DEF submit_result, AcceptsResult
<1> HIDE DEF T
<1>4. T[a] \in TaskType /\ tasks[a] \in TaskType
  BY <1>2 DEF TaskDict, LedgerInv
<1>5. T[a] = tasks[a]
  BY <1>2, <1>3 DEF Settles, SettledFrom, Terminal, TERMINAL_TASK_STATUSES
<1>6. /\ tasks'[a] = AcceptedTask(T[a], s) /\ DOMAIN tasks' = DOMAIN tasks
      /\ \A i \in DOMAIN tasks : i # a => tasks'[i] = T[i]
  BY <1>1, <1>2
<1>7. /\ Answers(tasks[a], tasks'[a]) /\ tasks'[a].status = s.status
      /\ tasks'[a].result = s.result
  <2> DEFINE u == AcceptedTask(tasks[a], s)
  <2>1. tasks'[a] = u
    BY <1>5, <1>6
  <2>2. /\ u.status \in {"completed", "failed"} /\ u.status = s.status
        /\ u.result = s.result /\ SameTask(tasks[a], u) /\ u.accepted = TRUE
    BY <1>4, AcceptedTaskType
  <2> HIDE DEF u
  <2>3. QED  BY <1>3, <1>5, <2>1, <2>2 DEF Answers
<1>8. ASSUME NEW i \in DOMAIN tasks PROVE Moved(tasks[i], tasks'[i])
  <2>1. CASE i = a
    BY <1>7, <2>1 DEF Moved
  <2>2. CASE i # a
    BY <1>2, <1>6, <2>2, SettlingMoves DEF Moves
  <2>3. QED  BY <2>1, <2>2
<1>9. tasks' \in [DOMAIN tasks -> TaskType]
  <2>1. AcceptedTask(T[a], s) \in TaskType
    BY <1>4, AcceptedTaskType
  <2>2. QED  BY <1>1, <1>2, <2>1 DEF TaskDict
<1>10. \A i \in DOMAIN tasks : i # a => ~Advances(tasks[i], tasks'[i])
  BY <1>2, <1>6, SettlingAdvancesNone DEF Settles
<1>11. QED  BY <1>3, <1>5, <1>6, <1>7, <1>8, <1>9, <1>10 DEF Moves, T

(* disconnect_node settles the work of the node. *)
LEMMA DisconnectSettles ==
  ASSUME LedgerInv, NEW n, disconnect_node(n)
  PROVE  Settles(tasks, tasks')
<1>1. tasks' = FailUnfinished(tasks, {n}, "session_closed")
  BY DEF disconnect_node
<1>2. "session_closed" \in ServerResults /\ TaskDict(tasks)
  BY DEF ServerResults, LedgerInv
<1>3. QED  BY <1>1, <1>2, FailUnfinishedSettles

(* contain_exercise settles queued tasks of the exercise. *)
LEMMA ContainSettles ==
  ASSUME LedgerInv, NEW e, NEW a, contain_exercise(e, a)
  PROVE  Settles(tasks, tasks')
<1>1. tasks' = ContainedTasks(exercises[e], tasks)
  BY DEF contain_exercise
<1>2. QED  BY <1>1, ContainedTasksSettles DEF LedgerInv
-----------------------------------------------------------------------------
(* The shape of every step of LabState. *)

MovesTasks == Moves(tasks, tasks') /\ seq'.task = seq.task /\ tombstones' = tombstones

QueuesTasks ==
  \E n \in DOMAIN nodes, k \in 1..MAX_OPERATION_STEPS, key \in Keys \cup {NoKey}, e \in Nat :
    Queues(n, k, key, e) /\ (key = NoKey \/ (k = 1 /\ KeyIsFree(key)))

(* A task dictionary that does not change moves nothing. *)
LEMMA NothingMoves ==
  ASSUME LedgerInv, tasks' = tasks PROVE Moves(tasks, tasks')
BY StaysPut, SettlingAdvancesNone DEF Moves, Moved, LedgerInv, TaskDict

(* queue_task, queue_operation and start_exercise queue tasks. *)
LEMMA AdmissionsQueue ==
  ASSUME LedgerInv, NEW n \in DOMAIN nodes, NEW lag \in Lags
  PROVE  /\ \A r \in TaskRequests : queue_task(n, r, lag) => QueuesTasks
         /\ \A r \in OperationRequests : queue_operation(n, r, lag) => QueuesTasks
         /\ \A r \in ExerciseRequests : start_exercise(n, r, lag) => QueuesTasks
<1>1. ASSUME NEW r \in TaskRequests, queue_task(n, r, lag) PROVE QueuesTasks
  <2>1. Queues(n, 1, r.key, 0) /\ KeyIsFree(r.key)
    BY <1>1, QueueTaskLedger DEF queue_task
  <2>2. r.key \in Keys \cup {NoKey}
    BY RequestsAssumption DEF TaskRequestType
  <2>3. 1 \in 1..MAX_OPERATION_STEPS /\ 0 \in Nat
    BY DEF MAX_OPERATION_STEPS
  <2>4. QED  BY <2>1, <2>2, <2>3 DEF QueuesTasks
<1>2. ASSUME NEW r \in OperationRequests, queue_operation(n, r, lag) PROVE QueuesTasks
  BY <1>2, QueueOperationLedger DEF QueuesTasks
<1>3. ASSUME NEW r \in ExerciseRequests, start_exercise(n, r, lag) PROVE QueuesTasks
  <2>1. Queues(n, 2, NoKey, seq.exercise + 1)
    BY <1>3, StartExerciseLedger
  <2>2. 2 \in 1..MAX_OPERATION_STEPS /\ seq.exercise + 1 \in Nat
    BY DEF MAX_OPERATION_STEPS, LedgerInv, SeqOK
  <2>3. QED  BY <2>1, <2>2 DEF QueuesTasks
<1>4. QED  BY <1>1, <1>2, <1>3

(* Every step but an admission or a reset only moves tasks that are there. *)
LEMMA StepKinds ==
  ASSUME LedgerInv, [Next]_vars
  PROVE  \/ MovesTasks
         \/ reset
         \/ \E n \in DOMAIN nodes, lag \in Lags :
              \/ \E r \in TaskRequests : queue_task(n, r, lag)
              \/ \E r \in OperationRequests : queue_operation(n, r, lag)
              \/ \E r \in ExerciseRequests : start_exercise(n, r, lag)
<1>1. CASE UNCHANGED vars
  BY <1>1, NothingMoves DEF vars, MovesTasks
<1>2. CASE Tick
  BY <1>2, TickMoves DEF Tick, MovesTasks
<1>3. ASSUME NEW lag \in Lags, Expire(lag) PROVE MovesTasks
  <2>1. tasks' = ExpiredTasks(nodes, tasks, lag) /\ seq' = seq /\ tombstones' = tombstones
    BY <1>3 DEF Expire
  <2>2. QED  BY <2>1, ExpiredSettles, SettlingMoves DEF MovesTasks
<1>4. CASE NodeCall
  <2>1. ASSUME NEW e \in Enrolments, NEW lag \in Lags, enroll_node(e, lag)
        PROVE  MovesTasks
    <3>1. /\ tasks' = tasks /\ tombstones' = tombstones
          /\ seq' = [seq EXCEPT !.node = seq.node + 1]
      BY <2>1 DEF enroll_node
    <3>2. seq'.task = seq.task
      BY <3>1 DEF LedgerInv, SeqOK
    <3>3. QED  BY <3>1, <3>2, NothingMoves DEF MovesTasks
  <2>2. ASSUME NEW n \in DOMAIN nodes, NEW lag \in Lags, poll_node(n, lag)
        PROVE  MovesTasks
    <3>1. seq' = seq /\ tombstones' = tombstones
      BY <2>2 DEF poll_node
    <3>2. QED  BY <2>2, <3>1, PollMoves DEF MovesTasks
  <2>3. ASSUME NEW n \in DOMAIN nodes, NEW a \in DOMAIN tasks, NEW s \in Submissions,
               NEW lag \in Lags, submit_result(n, a, s, lag)
        PROVE  MovesTasks
    <3>1. seq' = seq /\ tombstones' = tombstones
      BY <2>3 DEF submit_result
    <3>2. QED  BY <2>3, <3>1, SubmitMoves, CallsAreTyped DEF MovesTasks
  <2>4. ASSUME NEW n \in DOMAIN nodes, disconnect_node(n) PROVE MovesTasks
    <3>1. seq' = seq /\ tombstones' = tombstones
      BY <2>4 DEF disconnect_node
    <3>2. QED  BY <2>4, <3>1, DisconnectSettles, SettlingMoves DEF MovesTasks
  <2>5. QED  BY <1>4, <2>1, <2>2, <2>3, <2>4 DEF NodeCall
<1>5. CASE OperatorCall
  <2>1. ASSUME NEW i \in DOMAIN tasks, cancel_task(i) PROVE MovesTasks
    <3>1. seq' = seq /\ tombstones' = tombstones
      BY <2>1 DEF cancel_task
    <3>2. QED  BY <2>1, <3>1, CancelSettles, SettlingMoves DEF MovesTasks
  <2>2. ASSUME NEW e \in DOMAIN exercises, NEW a \in CONTAINMENT_ACTIONS,
               contain_exercise(e, a)
        PROVE  MovesTasks
    <3>1. seq' = seq /\ tombstones' = tombstones
      BY <2>2 DEF contain_exercise
    <3>2. QED  BY <2>2, <3>1, ContainSettles, SettlingMoves DEF MovesTasks
  <2>3. QED  BY <1>5, <2>1, <2>2 DEF OperatorCall
<1>6. QED  BY <1>1, <1>2, <1>3, <1>4, <1>5 DEF Next

(* Every step moves tasks that are there, queues new ones or resets. *)
LEMMA StepShape ==
  ASSUME LedgerInv, [Next]_vars
  PROVE  MovesTasks \/ QueuesTasks \/ reset
BY StepKinds, AdmissionsQueue

(* However a task moves, it stays the task that was asked for. *)
LEMMA MovedIsSame ==
  ASSUME NEW T, NEW U, Moves(T, U)
  PROVE  DOMAIN U = DOMAIN T /\ \A i \in DOMAIN T : SameTask(T[i], U[i])
BY DEF Moves, Moved, Waits, SettledFrom, Delivers, Answers

-----------------------------------------------------------------------------
(* Idempotency keys and retention. *)

(* Every step keeps an Idempotency-Key on one task. *)
LEMMA KeyStep ==
  LedgerInv /\ KeyNamesOneTask /\ [Next]_vars => KeyNamesOneTask'
<1> SUFFICES ASSUME LedgerInv, KeyNamesOneTask, [Next]_vars PROVE KeyNamesOneTask'
  OBVIOUS
<1>1. CASE MovesTasks
  <2>1. DOMAIN tasks' = DOMAIN tasks /\ \A i \in DOMAIN tasks : tasks'[i].key = tasks[i].key
    BY <1>1, MovedIsSame DEF MovesTasks, SameTask
  <2>2. QED  BY <2>1 DEF KeyNamesOneTask
<1>2. ASSUME NEW n, NEW k \in 1..MAX_OPERATION_STEPS, NEW key, NEW e, Queues(n, k, key, e),
             key = NoKey \/ (k = 1 /\ KeyIsFree(key))
      PROVE  KeyNamesOneTask'
  <2>1. PICK records :
          Admits(k, records) /\ \A m \in 1..k : records[m].key = key
    BY <1>2 DEF Queues
  <2>2. seq.task \in Nat /\ k \in Nat
    BY DEF LedgerInv, SeqOK, MAX_OPERATION_STEPS
  <2>3. \A i \in NewIds(k) : tasks'[i].key = key
    BY <2>1, <2>2 DEF Admits, NewIds
  <2>4. \A i \in DOMAIN tasks' : i \in NewIds(k) \/ (i \in DOMAIN tasks /\ tasks'[i] = tasks[i])
    BY <2>1 DEF Admits, Kept
  <2>5. k = 1 => \A i, j \in NewIds(k) : i = j
    BY <2>2 DEF NewIds
  <2>6. QED  BY <1>2, <2>3, <2>4, <2>5 DEF KeyNamesOneTask, KeyIsFree
<1>3. CASE reset
  BY <1>3 DEF reset, EmptyDict, KeyNamesOneTask
<1>4. QED  BY <1>1, <1>2, <1>3, StepShape DEF QueuesTasks

(* An Idempotency-Key names at most one retained task: a retried queue_task
   has one answer, whatever was cancelled, expired or pruned in between. *)
THEOREM KeyNamesOneTaskHolds == Spec => []KeyNamesOneTask
<1>1. Init => KeyNamesOneTask
  BY DEF Init, EmptyDict, KeyNamesOneTask
<1>2. QED  BY <1>1, LedgerInvariant, KeyStep, PTL DEF Spec

(* The body of OnlySettledTasksPruned. *)
PrunesSettledOnly ==
  IsReset \/ \A i \in DOMAIN tasks \ DOMAIN tasks' :
    /\ Terminal(tasks[i]) /\ tasks[i].exercise \notin RunningExercises
    /\ Cardinality(DOMAIN tasks') = MAX_TASKS
    /\ \A j \in DOMAIN tasks \cap DOMAIN tasks' :
         Terminal(tasks[j]) /\ tasks[j].exercise \notin RunningExercises => i < j

(* No handler forgets a task but an admission that needs its slot. *)
LEMMA PruningStep == LedgerInv /\ [Next]_vars => PrunesSettledOnly
<1> SUFFICES ASSUME LedgerInv, [Next]_vars PROVE PrunesSettledOnly
  OBVIOUS
<1>1. CASE MovesTasks
  BY <1>1, MovedIsSame DEF MovesTasks, PrunesSettledOnly
<1>2. ASSUME NEW n, NEW k, NEW key, NEW e, Queues(n, k, key, e)
      PROVE  PrunesSettledOnly
  <2>1. PICK records : Admits(k, records)
    BY <1>2 DEF Queues
  <2>2. QED  BY <2>1 DEF Admits, Prunable, PrunesSettledOnly
<1>3. CASE reset
  BY <1>3 DEF reset, IsReset, PrunesSettledOnly
<1>4. QED  BY <1>1, <1>2, <1>3, StepShape DEF QueuesTasks

(* Only settled work is forgotten, oldest first, when the table is full, and
   never the evidence of a running exercise. *)
THEOREM OnlySettledTasksPrunedHolds == Spec => OnlySettledTasksPruned
<1>1. QED
  BY LedgerInvariant, PruningStep, PTL DEF Spec, OnlySettledTasksPruned, PrunesSettledOnly

-----------------------------------------------------------------------------
(* Pausing and the statistics of a node. *)

(* What a closing session does to the other fields of its node. *)
LEMMA ClosedNodeFields ==
  ASSUME NEW node \in NodeType, NEW k \in Nat
  PROVE  /\ CloseSession(node, k).tasks_completed = node.tasks_completed
         /\ CloseSession(node, k).tasks_failed = node.tasks_failed + k
         /\ CloseSession(node, k).tasking_paused = node.tasking_paused
<1>1. PICK f \in Nat : f = node.tasks_failed + k
  BY DEF NodeType
<1>2. CloseSession(node, k) =
        [node EXCEPT !.status = "offline", !.session_active = FALSE, !.tasks_failed = f]
  BY <1>1 DEF CloseSession
<1> DEFINE m == [node EXCEPT !.status = "offline", !.session_active = FALSE, !.tasks_failed = f]
<1>3. m.tasks_completed = node.tasks_completed /\ m.tasks_failed = f
  BY DEF NodeType
<1>4. m.tasking_paused = node.tasking_paused
  BY Zenon DEF NodeType
<1>5. QED  BY <1>1, <1>2, <1>3, <1>4

(* What _expire_locked does to the other fields of a node. *)
LEMMA ExpiredNodeFields ==
  ASSUME NEW node \in NodeType, NEW lag \in Lags, NEW k \in Nat, NEW m \in Nat
  PROVE  /\ ExpireNode(node, lag, k, m).tasks_completed = node.tasks_completed
         /\ ExpireNode(node, lag, k, m).tasks_failed =
              node.tasks_failed + (IF SessionExpires(node, lag) THEN k + m ELSE k)
         /\ ExpireNode(node, lag, k, m).tasking_paused = node.tasking_paused
<1>1. CASE SessionExpires(node, lag)
  <2>1. PICK j \in Nat : j = k + m
    OBVIOUS
  <2>2. ExpireNode(node, lag, k, m) = CloseSession(node, j)
    BY <1>1, <2>1 DEF ExpireNode
  <2>3. QED  BY <1>1, <2>1, <2>2, ClosedNodeFields
<1>2. CASE ~SessionExpires(node, lag)
  <2>1. PICK s \in {"online", "offline"} :
          s = IF GoesStale(node, lag) THEN "offline" ELSE node.status
    BY DEF NodeType
  <2>2. PICK f \in Nat : f = node.tasks_failed + k
    BY DEF NodeType
  <2> DEFINE u == [node EXCEPT !.status = s, !.tasks_failed = f]
  <2>3. ExpireNode(node, lag, k, m) = u
    BY <1>2, <2>1, <2>2 DEF ExpireNode
  <2>4. u.tasks_completed = node.tasks_completed /\ u.tasks_failed = f
    BY DEF NodeType
  <2>5. u.tasking_paused = node.tasking_paused
    BY Zenon DEF NodeType
  <2>6. QED  BY <1>2, <2>2, <2>3, <2>4, <2>5
<1>3. QED  BY <1>1, <1>2

(* The expiry leaves tasking paused where it was paused. *)
LEMMA ExpiryKeepsPause ==
  ASSUME LedgerInv, NEW lag \in Lags, NEW n \in DOMAIN nodes
  PROVE  ExpiredNodes(nodes, tasks, lag)[n].tasking_paused = nodes[n].tasking_paused
<1>1. nodes[n] \in NodeType /\ TaskDict(tasks)
  BY DEF LedgerInv, NodeDict
<1>2. /\ Cardinality(TimeoutsOf(tasks, n, lag)) \in Nat
      /\ Cardinality(UnfinishedOf(ExpireTasks(tasks, lag), n)) \in Nat
  <2>1. /\ TimeoutsOf(tasks, n, lag) \in SUBSET DOMAIN tasks
        /\ UnfinishedOf(ExpireTasks(tasks, lag), n) \in SUBSET DOMAIN tasks
    BY DEF TimeoutsOf, UnfinishedOf, ExpireTasks
  <2>2. IsFiniteSet(DOMAIN tasks)
    BY <1>1 DEF TaskDict
  <2>3. QED  BY <2>1, <2>2, FS_Subset, FS_CardinalityType
<1>3. QED  BY <1>1, <1>2, ExpiredNodeFields DEF ExpiredNodes

(* The body of PausedNodeGetsNoWork. *)
PauseHolds ==
  \A i \in DOMAIN tasks' : LET n == tasks'[i].node IN
    n \in DOMAIN nodes /\ nodes[n].tasking_paused =>
      /\ i \in DOMAIN tasks
      /\ tasks'[i].delivery_attempts = tasks[i].delivery_attempts

(* A step that delivers nothing and admits nothing respects every pause. *)
LEMMA UndeliveredPause ==
  ASSUME DOMAIN tasks' = DOMAIN tasks,
         \A i \in DOMAIN tasks : tasks'[i].delivery_attempts = tasks[i].delivery_attempts
  PROVE  PauseHolds
BY DEF PauseHolds

(* Neither does settling. *)
LEMMA SettlingPause ==
  ASSUME Settles(tasks, tasks') PROVE PauseHolds
<1>1. DOMAIN tasks' = DOMAIN tasks
  BY DEF Settles
<1>2. \A i \in DOMAIN tasks : tasks'[i].delivery_attempts = tasks[i].delivery_attempts
  BY DEF Settles, SettledFrom
<1>3. QED  BY <1>1, <1>2, UndeliveredPause

(* Only poll_node delivers, and only to the node that polls, unless it is
   paused. *)
LEMMA PollPause ==
  ASSUME LedgerInv, NEW n \in DOMAIN nodes, NEW lag \in Lags, poll_node(n, lag)
  PROVE  PauseHolds
<1> DEFINE N == ExpiredNodes(nodes, tasks, lag)
           T == ExpiredTasks(nodes, tasks, lag)
<1>1. tasks' = DeliveredTasks(T, n, N[n].tasking_paused, lag)
  BY DEF poll_node
<1>2. TaskDict(T) /\ DOMAIN T = DOMAIN tasks /\ TasksOK(T) /\ Settles(tasks, T)
  BY ExpiredLedger, ExpiredSettles
<1>3. N[n].tasking_paused = nodes[n].tasking_paused
  BY ExpiryKeepsPause
<1> HIDE DEF T, N
<1>4. \A i \in DOMAIN tasks : /\ T[i].delivery_attempts = tasks[i].delivery_attempts
                              /\ T[i].node = tasks[i].node
  BY <1>2 DEF Settles, SettledFrom, SameTask
<1>5. CASE tasks' = T
  BY <1>2, <1>4, <1>5, UndeliveredPause
<1>6. CASE tasks' # T
  <2>1. PICK a \in DOMAIN T : /\ Delivery(T, n, a, tasks'[a])
                              /\ \A i \in DOMAIN T : i # a => tasks'[i] = T[i]
    BY <1>1, <1>2, <1>6, DeliveredFate
  <2>2. ~N[n].tasking_paused
    BY <1>1, <1>2, <1>6, DeliveredFate
  <2>3. DOMAIN tasks' = DOMAIN tasks
    BY PollMoves DEF Moves
  <2>4. tasks'[a].node = n
    BY <2>1 DEF Delivery, SameTask
  <2>5. QED  BY <1>2, <1>3, <1>4, <2>1, <2>2, <2>3, <2>4 DEF PauseHolds
<1>7. QED  BY <1>5, <1>6

(* Recording a result delivers nothing. *)
LEMMA SubmitPause ==
  ASSUME LedgerInv, NEW n \in DOMAIN nodes, NEW a \in DOMAIN tasks,
         NEW s \in Submissions, NEW lag \in Lags, submit_result(n, a, s, lag)
  PROVE  PauseHolds
<1> DEFINE T == ExpiredTasks(nodes, tasks, lag)
<1>1. tasks' = [T EXCEPT ![a] = AcceptedTask(T[a], s)]
  BY DEF submit_result
<1>2. TaskDict(T) /\ DOMAIN T = DOMAIN tasks /\ Settles(tasks, T)
  BY ExpiredLedger, ExpiredSettles
<1> HIDE DEF T
<1>3. T[a] \in TaskType
  BY <1>2 DEF TaskDict
<1>4. AcceptedTask(T[a], s).delivery_attempts = T[a].delivery_attempts
  BY <1>3, AcceptedTaskType, CallsAreTyped
<1>5. \A i \in DOMAIN tasks : T[i].delivery_attempts = tasks[i].delivery_attempts
  BY <1>2 DEF Settles, SettledFrom
<1>6. /\ DOMAIN tasks' = DOMAIN tasks
      /\ \A i \in DOMAIN tasks : tasks'[i].delivery_attempts = T[i].delivery_attempts
  BY <1>1, <1>2, <1>4
<1>7. QED  BY <1>5, <1>6, UndeliveredPause

(* Admissions refuse a paused node. *)
LEMMA QueuesPause ==
  ASSUME LedgerInv, NEW n, NEW k \in 1..MAX_OPERATION_STEPS, NEW key, NEW e,
         Queues(n, k, key, e)
  PROVE  PauseHolds
<1>1. PICK records : Admits(k, records) /\ \A m \in 1..k : records[m].node = n
  BY DEF Queues
<1>2. seq.task \in Nat /\ k \in Nat
  BY DEF LedgerInv, SeqOK, MAX_OPERATION_STEPS
<1>3. \A i \in NewIds(k) : tasks'[i].node = n
  BY <1>1, <1>2 DEF Admits, NewIds
<1>4. \A i \in DOMAIN tasks' : i \in NewIds(k) \/ (i \in DOMAIN tasks /\ tasks'[i] = tasks[i])
  BY <1>1 DEF Admits, Kept
<1>5. QED  BY <1>3, <1>4 DEF PauseHolds, Queues, TaskableNode

(* No step queues, dispatches or redelivers work to a paused node. *)
LEMMA PauseStep == LedgerInv /\ [Next]_vars => PauseHolds
<1> SUFFICES ASSUME LedgerInv, [Next]_vars PROVE PauseHolds
  OBVIOUS
<1>1. CASE tasks' = tasks
  BY <1>1, UndeliveredPause
<1>2. CASE Tick
  <2>1. DOMAIN tasks' = DOMAIN tasks
    BY <1>2 DEF Tick
  <2>2. QED  BY <1>2, <2>1, TickMoves, UndeliveredPause
<1>3. ASSUME NEW lag \in Lags, Expire(lag) PROVE PauseHolds
  BY <1>3, ExpiredSettles, SettlingPause DEF Expire
<1>4. CASE NodeCall
  <2>1. CASE \E e \in Enrolments, lag \in Lags : enroll_node(e, lag)
    BY <1>1, <2>1 DEF enroll_node
  <2>2. ASSUME NEW n \in DOMAIN nodes, NEW lag \in Lags, poll_node(n, lag)
        PROVE  PauseHolds
    BY <2>2, PollPause
  <2>3. ASSUME NEW n \in DOMAIN nodes, NEW a \in DOMAIN tasks, NEW s \in Submissions,
               NEW lag \in Lags, submit_result(n, a, s, lag)
        PROVE  PauseHolds
    BY <2>3, SubmitPause
  <2>4. ASSUME NEW n \in DOMAIN nodes, disconnect_node(n) PROVE PauseHolds
    BY <2>4, DisconnectSettles, SettlingPause
  <2>5. QED  BY <1>4, <2>1, <2>2, <2>3, <2>4 DEF NodeCall
<1>5. CASE OperatorCall
  <2>1. CASE QueuesTasks
    BY <2>1, QueuesPause DEF QueuesTasks
  <2>2. ASSUME NEW i \in DOMAIN tasks, cancel_task(i) PROVE PauseHolds
    BY <2>2, CancelSettles, SettlingPause
  <2>3. ASSUME NEW e \in DOMAIN exercises, NEW a \in CONTAINMENT_ACTIONS,
               contain_exercise(e, a)
        PROVE  PauseHolds
    BY <2>3, ContainSettles, SettlingPause
  <2>4. CASE reset
    BY <2>4 DEF reset, EmptyDict, PauseHolds
  <2>5. QED  BY <1>5, <2>1, <2>2, <2>3, <2>4, AdmissionsQueue DEF OperatorCall
<1>6. QED  BY <1>1, <1>2, <1>3, <1>4, <1>5 DEF Next, vars

(* PAUSE_NODE_TASKING stops all tasking of the node: nothing is queued for
   it, dispatched or redelivered to it while it is paused. *)
THEOREM PausedNodeGetsNoWorkHolds == Spec => PausedNodeGetsNoWork
<1>1. QED
  BY LedgerInvariant, PauseStep, PTL DEF Spec, PausedNodeGetsNoWork, PauseHolds

-----------------------------------------------------------------------------
(* The statistics of a node against the outcomes of its tasks. *)

(* The live tasks of node n that a step brings to one of the outcomes. *)
Brought(T, U, n, outcomes) ==
  {i \in DOMAIN T : /\ T[i].node = n /\ Live(T[i])
                    /\ i \in DOMAIN U /\ U[i].status \in outcomes}

Counted(old, new, T, U, n) ==
  /\ new.tasks_completed = old.tasks_completed + Cardinality(Brought(T, U, n, {"completed"}))
  /\ new.tasks_failed =
       old.tasks_failed + Cardinality(Brought(T, U, n, {"failed", "timeout"}))

SameCounts(old, new) ==
  new.tasks_completed = old.tasks_completed /\ new.tasks_failed = old.tasks_failed

(* Where no task ends by its node or its deadline the statistics stay. *)
LEMMA NothingCounted ==
  ASSUME NEW old \in NodeType, NEW new, SameCounts(old, new), NEW T, NEW U, NEW n,
         \A i \in DOMAIN T \cap DOMAIN U :
           Live(T[i]) => U[i].status \notin {"completed", "failed", "timeout"}
  PROVE  Counted(old, new, T, U, n)
<1>1. Brought(T, U, n, {"completed"}) = {} /\ Brought(T, U, n, {"failed", "timeout"}) = {}
  BY DEF Brought
<1>2. old.tasks_completed \in Nat /\ old.tasks_failed \in Nat
  BY DEF NodeType
<1>3. QED  BY <1>1, <1>2, FS_EmptySet DEF Counted, SameCounts

(* Any part of the task table is finite. *)
LEMMA PartIsFinite ==
  ASSUME LedgerInv, NEW S, S \subseteq DOMAIN tasks
  PROVE  IsFiniteSet(S) /\ Cardinality(S) \in Nat
BY FS_Subset, FS_CardinalityType DEF LedgerInv, TaskDict

(* What an expiry makes of a live task. *)
LEMMA ExpiredFate ==
  ASSUME LedgerInv, NEW lag \in Lags, NEW i \in DOMAIN tasks, Live(tasks[i]),
         NEW n, tasks[i].node = n, NEW E, E = ExpireTasks(tasks, lag),
         NEW T, T = ExpiredTasks(nodes, tasks, lag)
  PROVE  /\ T[i].status # "completed"
         /\ T[i].status \in {"failed", "timeout"} <=>
              \/ i \in TimeoutsOf(tasks, n, lag)
              \/ n \in ClosingNodes(nodes, lag) /\ i \in UnfinishedOf(E, n)
         /\ ~(i \in TimeoutsOf(tasks, n, lag) /\ i \in UnfinishedOf(E, n))
<1>1. PICK t \in TaskType : t = tasks[i]
  BY DEF LedgerInv, TaskDict
<1>2. ASSUME NEW s, NEW b PROVE Settled(t, s, b).status = s /\ Settled(t, s, b).node = t.node
  BY DEF Settled, TaskType
<1>3. DOMAIN E = DOMAIN tasks /\ E[i] = ExpireTask(t, lag)
  BY <1>1 DEF ExpireTasks
<1>4. T[i] = IF E[i].node \in ClosingNodes(nodes, lag) /\ Live(E[i])
             THEN Settled(E[i], "failed", "session_expired") ELSE E[i]
  BY <1>3 DEF ExpiredTasks, FailUnfinished
<1>5. i \in TimeoutsOf(tasks, n, lag) <=> DeadlinePassed(t, lag)
  BY <1>1 DEF TimeoutsOf
<1>6. i \in UnfinishedOf(E, n) <=> E[i].node = n /\ Live(E[i])
  BY <1>3 DEF UnfinishedOf
<1>7. CASE QueueExpired(t, lag)
  <2>1. E[i].status = "expired" /\ t.status = "queued"
    BY <1>2, <1>3, <1>7 DEF ExpireTask, QueueExpired
  <2>2. ~Live(E[i]) /\ ~DeadlinePassed(t, lag)
    BY <2>1 DEF Live, LIVE_TASK_STATUSES, DeadlinePassed
  <2>3. QED  BY <1>4, <1>5, <1>6, <2>1, <2>2
<1>8. CASE ~QueueExpired(t, lag) /\ DeadlinePassed(t, lag)
  <2>1. E[i].status = "timeout"
    BY <1>2, <1>3, <1>8 DEF ExpireTask
  <2>2. ~Live(E[i])
    BY <2>1 DEF Live, LIVE_TASK_STATUSES
  <2>3. QED  BY <1>4, <1>5, <1>6, <1>8, <2>1, <2>2
<1>9. CASE ~QueueExpired(t, lag) /\ ~DeadlinePassed(t, lag)
  <2>1. E[i] = t /\ Live(t) /\ t.node = n
    BY <1>1, <1>3, <1>9 DEF ExpireTask
  <2>2. t.status \in {"queued", "dispatched"}
    BY <2>1 DEF Live, LIVE_TASK_STATUSES
  <2>3. CASE n \in ClosingNodes(nodes, lag)
    <3>1. T[i] = Settled(t, "failed", "session_expired")
      BY <1>4, <2>1, <2>3
    <3>2. T[i].status = "failed"
      BY <1>2, <3>1
    <3>3. QED  BY <1>5, <1>6, <1>9, <2>1, <2>3, <3>2
  <2>4. CASE n \notin ClosingNodes(nodes, lag)
    BY <1>4, <1>5, <1>6, <1>9, <2>1, <2>2, <2>4
  <2>5. QED  BY <2>3, <2>4
<1>10. QED  BY <1>7, <1>8, <1>9

(* _expire_locked counts each timeout and each task of a closing session. *)
LEMMA ExpiryCounts ==
  ASSUME LedgerInv, NEW lag \in Lags, NEW n \in DOMAIN nodes,
         NEW N, N = ExpiredNodes(nodes, tasks, lag), NEW T, T = ExpiredTasks(nodes, tasks, lag)
  PROVE  Counted(nodes[n], N[n], tasks, T, n)
<1>1. PICK E : E = ExpireTasks(tasks, lag)
  OBVIOUS
<1>2. PICK A, B : A = TimeoutsOf(tasks, n, lag) /\ B = UnfinishedOf(E, n)
  OBVIOUS
<1>3. /\ A \subseteq DOMAIN tasks /\ \A i \in A : tasks[i].node = n /\ Live(tasks[i])
      /\ B \subseteq DOMAIN tasks /\ \A i \in B : tasks[i].node = n /\ Live(tasks[i])
  <2>1. /\ A \subseteq DOMAIN tasks /\ \A i \in A : tasks[i].node = n /\ Live(tasks[i])
    BY <1>2 DEF TimeoutsOf, DeadlinePassed, Live, LIVE_TASK_STATUSES
  <2>2. Settles(tasks, E)
    BY <1>1, ExpireTasksSettles DEF LedgerInv
  <2>3. B \subseteq DOMAIN E /\ \A i \in B : E[i].node = n /\ Live(E[i])
    BY <1>2 DEF UnfinishedOf
  <2>4. \A i \in DOMAIN tasks : Live(E[i]) => E[i] = tasks[i]
    BY <2>2, TerminalNotLive DEF Settles, SettledFrom
  <2>5. DOMAIN E = DOMAIN tasks
    BY <2>2 DEF Settles
  <2>6. QED  BY <2>1, <2>3, <2>4, <2>5
<1>4. DOMAIN T = DOMAIN tasks
  BY ExpiredLedger
<1>5. \A i \in DOMAIN tasks : Live(tasks[i]) /\ tasks[i].node = n =>
        /\ T[i].status # "completed"
        /\ T[i].status \in {"failed", "timeout"} <=>
             i \in A \/ (n \in ClosingNodes(nodes, lag) /\ i \in B)
        /\ ~(i \in A /\ i \in B)
  BY <1>1, <1>2, ExpiredFate
<1>6. Brought(tasks, T, n, {"completed"}) = {}
  BY <1>4, <1>5 DEF Brought
<1>7. Brought(tasks, T, n, {"failed", "timeout"}) =
        A \cup (IF SessionExpires(nodes[n], lag) THEN B ELSE {})
  <2>1. n \in ClosingNodes(nodes, lag) <=> SessionExpires(nodes[n], lag)
    BY DEF ClosingNodes
  <2>2. QED  BY <1>3, <1>4, <1>5, <2>1 DEF Brought
<1>8. PICK a \in Nat, b \in Nat : a = Cardinality(A) /\ b = Cardinality(B)
  BY <1>3, PartIsFinite
<1>9. Cardinality(A \cup B) = a + b
  <2>1. A \cap B = {}
    BY <1>3, <1>5
  <2>2. IsFiniteSet(A) /\ IsFiniteSet(B)
    BY <1>3, PartIsFinite
  <2>3. Cardinality(A \cup B) = Cardinality(A) + Cardinality(B) - Cardinality(A \cap B)
    BY <2>2, FS_Union
  <2>4. Cardinality(A \cap B) = 0
    BY <2>1, FS_EmptySet
  <2>5. QED  BY <1>8, <2>3, <2>4
<1>10. Cardinality(Brought(tasks, T, n, {"failed", "timeout"})) =
         IF SessionExpires(nodes[n], lag) THEN a + b ELSE a
  <2>1. CASE SessionExpires(nodes[n], lag)
    BY <1>7, <1>9, <2>1
  <2>2. CASE ~SessionExpires(nodes[n], lag)
    <3>1. Brought(tasks, T, n, {"failed", "timeout"}) = A
      BY <1>7, <2>2
    <3>2. QED  BY <1>8, <2>2, <3>1
  <2>3. QED  BY <2>1, <2>2
<1>11. nodes[n] \in NodeType
  BY DEF LedgerInv, NodeDict
<1>12. N[n] = ExpireNode(nodes[n], lag, a, b)
  BY <1>1, <1>2, <1>8 DEF ExpiredNodes
<1>13. /\ N[n].tasks_completed = nodes[n].tasks_completed
       /\ N[n].tasks_failed =
            nodes[n].tasks_failed + (IF SessionExpires(nodes[n], lag) THEN a + b ELSE a)
  BY <1>11, <1>12, ExpiredNodeFields
<1>14. nodes[n].tasks_completed \in Nat /\ nodes[n].tasks_failed \in Nat
  BY <1>11 DEF NodeType
<1>15. Cardinality(Brought(tasks, T, n, {"completed"})) = 0
  BY <1>6, FS_EmptySet
<1>16. PICK c \in Nat, f \in Nat :
         c = nodes[n].tasks_completed /\ f = nodes[n].tasks_failed
  BY <1>14
<1>17. N[n].tasks_completed = c + 0
  BY <1>13, <1>16
<1>18. N[n].tasks_failed = f + Cardinality(Brought(tasks, T, n, {"failed", "timeout"}))
  BY <1>10, <1>13, <1>16
<1>19. QED  BY <1>15, <1>16, <1>17, <1>18 DEF Counted

(* The body of CountersMatchOutcomes. *)
CountersAgree ==
  \A n \in DOMAIN nodes \cap DOMAIN nodes' : Counted(nodes[n], nodes'[n], tasks, tasks', n)

Outcomes == {"completed", "failed", "timeout"}

(* Two task dictionaries that bring the same tasks of n to an outcome. *)
LEMMA BroughtAlike ==
  ASSUME NEW T, NEW U, NEW V, DOMAIN U = DOMAIN T, DOMAIN V = DOMAIN T, NEW n,
         \A i \in DOMAIN T : T[i].node = n =>
           \/ V[i] = U[i]
           \/ U[i].status \notin Outcomes /\ V[i].status \notin Outcomes
  PROVE  /\ Brought(T, V, n, {"completed"}) = Brought(T, U, n, {"completed"})
         /\ Brought(T, V, n, {"failed", "timeout"}) = Brought(T, U, n, {"failed", "timeout"})
BY DEF Brought, Outcomes

(* A poll delivers after the expiry; neither counts twice. *)
LEMMA PollCounts ==
  ASSUME LedgerInv, NEW n \in DOMAIN nodes, NEW lag \in Lags, poll_node(n, lag)
  PROVE  CountersAgree
<1>1. PICK N, T : N = ExpiredNodes(nodes, tasks, lag) /\ T = ExpiredTasks(nodes, tasks, lag)
  OBVIOUS
<1>2. /\ nodes' = [N EXCEPT ![n] = PolledNode(N[n], lag)]
      /\ tasks' = DeliveredTasks(T, n, N[n].tasking_paused, lag)
  BY <1>1 DEF poll_node
<1>3. /\ NodeDict(N) /\ DOMAIN N = DOMAIN nodes
      /\ TaskDict(T) /\ DOMAIN T = DOMAIN tasks /\ TasksOK(T)
  BY <1>1, ExpiredLedger
<1>4. DOMAIN tasks' = DOMAIN T /\ \A i \in DOMAIN T :
        \/ tasks'[i] = T[i]
        \/ T[i].status \notin Outcomes /\ tasks'[i].status \notin Outcomes
  <2>1. DOMAIN tasks' = DOMAIN T
    BY <1>3, PollMoves DEF Moves
  <2>2. \/ tasks' = T
        \/ \E a \in DOMAIN T : /\ Delivery(T, n, a, tasks'[a])
                               /\ \A i \in DOMAIN T : i # a => tasks'[i] = T[i]
    BY <1>2, <1>3, DeliveredFate
  <2>3. QED  BY <2>1, <2>2 DEF Delivery, Outcomes
<1>5. \A m \in DOMAIN N : N[m] \in NodeType
  BY <1>3 DEF NodeDict
<1>6. SameCounts(N[n], PolledNode(N[n], lag))
  BY <1>3, <1>5 DEF SameCounts, PolledNode, NodeType
<1>7. ASSUME NEW m \in DOMAIN nodes PROVE SameCounts(N[m], nodes'[m])
  BY <1>2, <1>3, <1>6 DEF SameCounts
<1>8. ASSUME NEW m \in DOMAIN nodes PROVE Counted(nodes[m], N[m], tasks, T, m)
  BY <1>1, ExpiryCounts
<1>9. ASSUME NEW m \in DOMAIN nodes
      PROVE  /\ Brought(tasks, tasks', m, {"completed"}) = Brought(tasks, T, m, {"completed"})
             /\ Brought(tasks, tasks', m, {"failed", "timeout"})
                  = Brought(tasks, T, m, {"failed", "timeout"})
  BY <1>3, <1>4, BroughtAlike
<1>10. QED  BY <1>7, <1>8, <1>9 DEF CountersAgree, Counted, SameCounts

(* What submit_result adds to the statistics of its node. *)
LEMMA CreditedCounts ==
  ASSUME NEW node \in NodeType, NEW t, NEW s, NEW lag, NEW m, m = CreditedNode(node, t, s, lag)
  PROVE  /\ m.tasks_completed =
              IF s.status = "completed" THEN node.tasks_completed + 1 ELSE node.tasks_completed
         /\ m.tasks_failed =
              IF s.status = "completed" THEN node.tasks_failed ELSE node.tasks_failed + 1
<1>1. PICK c, f, p :
        /\ c = IF s.status = "completed" THEN node.tasks_completed + 1 ELSE node.tasks_completed
        /\ f = IF s.status = "completed" THEN node.tasks_failed ELSE node.tasks_failed + 1
        /\ p = IF t.type = "SLEEP" /\ s.status = "completed"
               THEN t.interval ELSE node.poll_interval
  OBVIOUS
<1>2. m = [node EXCEPT !.age = lag, !.tasks_completed = c, !.tasks_failed = f,
                       !.poll_interval = p]
  BY <1>1 DEF CreditedNode
<1>3. m.tasks_completed = c /\ m.tasks_failed = f
  BY <1>2 DEF NodeType
<1>4. QED  BY <1>1, <1>3

(* The answer of a task is counted once, on top of what the expiry counts. *)
LEMMA SubmitCounts ==
  ASSUME LedgerInv, NEW n \in DOMAIN nodes, NEW a \in DOMAIN tasks,
         NEW s \in Submissions, NEW lag \in Lags, submit_result(n, a, s, lag)
  PROVE  CountersAgree
<1>1. PICK N, T : N = ExpiredNodes(nodes, tasks, lag) /\ T = ExpiredTasks(nodes, tasks, lag)
  OBVIOUS
<1>2. nodes' = [N EXCEPT ![n] = CreditedNode(N[n], T[a], s, lag)] /\ T[a].status = "dispatched"
  BY <1>1 DEF submit_result, AcceptsResult
<1>3. /\ NodeDict(N) /\ DOMAIN N = DOMAIN nodes /\ DOMAIN T = DOMAIN tasks
  BY <1>1, ExpiredLedger
<1>4. /\ DOMAIN tasks' = DOMAIN tasks /\ Live(tasks[a]) /\ tasks[a].node = n
      /\ tasks'[a].status = s.status /\ s.status \in {"completed", "failed"}
      /\ \A i \in DOMAIN tasks : i # a => tasks'[i] = T[i]
  <2>1. /\ Moves(tasks, tasks') /\ Answers(tasks[a], tasks'[a]) /\ tasks[a].node = n
        /\ tasks'[a].status = s.status
    BY SubmitMoves, CallsAreTyped
  <2>2. \A i \in DOMAIN tasks : i # a => tasks'[i] = T[i]
    BY <1>1, SubmitMoves, CallsAreTyped
  <2>3. tasks' \in [DOMAIN tasks -> TaskType]
    BY <2>1 DEF Moves
  <2>4. tasks[a].status = "dispatched" /\ tasks'[a].status \in {"completed", "failed"}
    BY <2>1 DEF Answers
  <2>5. QED  BY <2>1, <2>2, <2>3, <2>4 DEF Live, LIVE_TASK_STATUSES
<1>5. ASSUME NEW m \in DOMAIN nodes PROVE Counted(nodes[m], N[m], tasks, T, m)
  BY <1>1, ExpiryCounts
<1>6. ASSUME NEW m \in DOMAIN nodes, m # n
      PROVE  Counted(nodes[m], nodes'[m], tasks, tasks', m)
  <2>1. nodes'[m] = N[m]
    BY <1>2, <1>3, <1>6
  <2>2. \A i \in DOMAIN tasks : tasks[i].node = m => tasks'[i] = T[i]
    BY <1>4, <1>6
  <2>3. /\ Brought(tasks, tasks', m, {"completed"}) = Brought(tasks, T, m, {"completed"})
        /\ Brought(tasks, tasks', m, {"failed", "timeout"})
             = Brought(tasks, T, m, {"failed", "timeout"})
    BY <1>3, <1>4, <2>2, BroughtAlike
  <2>4. QED  BY <1>5, <2>1, <2>3 DEF Counted
<1>7. Counted(nodes[n], nodes'[n], tasks, tasks', n)
  <2>1. PICK C, F, D, G :
          /\ C = Brought(tasks, T, n, {"completed"})
          /\ F = Brought(tasks, T, n, {"failed", "timeout"})
          /\ D = Brought(tasks, tasks', n, {"completed"})
          /\ G = Brought(tasks, tasks', n, {"failed", "timeout"})
    OBVIOUS
  <2>2. a \notin C /\ a \notin F
    BY <1>2, <2>1 DEF Brought
  <2>3. /\ s.status = "completed" => D = C \cup {a} /\ G = F
        /\ s.status # "completed" => D = C /\ G = F \cup {a}
    <3>1. \A i : i \in D <=> i \in C \/ (i = a /\ s.status = "completed")
      BY <1>2, <1>3, <1>4, <2>1 DEF Brought
    <3>2. \A i : i \in G <=> i \in F \/ (i = a /\ s.status # "completed")
      BY <1>2, <1>3, <1>4, <2>1 DEF Brought
    <3>3. QED  BY <3>1, <3>2
  <2>4. C \subseteq DOMAIN tasks /\ F \subseteq DOMAIN tasks
    BY <2>1 DEF Brought
  <2>5. IsFiniteSet(C) /\ IsFiniteSet(F)
    BY <2>4, PartIsFinite
  <2>6. PICK c \in Nat, f \in Nat : c = Cardinality(C) /\ f = Cardinality(F)
    BY <2>4, PartIsFinite
  <2>7. Cardinality(C \cup {a}) = c + 1 /\ Cardinality(F \cup {a}) = f + 1
    BY <2>2, <2>5, <2>6, FS_AddElement
  <2>8. PICK x \in Nat, y \in Nat : x = nodes[n].tasks_completed /\ y = nodes[n].tasks_failed
    BY DEF LedgerInv, NodeDict, NodeType
  <2>9. N[n].tasks_completed = x + c /\ N[n].tasks_failed = y + f
    BY <1>5, <2>1, <2>6, <2>8 DEF Counted
  <2>10. N[n] \in NodeType
    BY <1>3 DEF NodeDict
  <2>11. PICK m : m = CreditedNode(N[n], T[a], s, lag)
    OBVIOUS
  <2>12. /\ m.tasks_completed = IF s.status = "completed" THEN x + c + 1 ELSE x + c
         /\ m.tasks_failed = IF s.status = "completed" THEN y + f ELSE y + f + 1
    BY <2>9, <2>10, <2>11, CreditedCounts
  <2>13. nodes'[n] = m
    BY <1>2, <1>3, <2>11
  <2>14. m.tasks_completed = x + Cardinality(D) /\ m.tasks_failed = y + Cardinality(G)
    <3>1. CASE s.status = "completed"
      <4>1. Cardinality(D) = c + 1 /\ Cardinality(G) = f
        BY <2>3, <2>6, <2>7, <3>1
      <4>2. m.tasks_completed = x + c + 1 /\ m.tasks_failed = y + f
        BY <2>12, <3>1
      <4>3. x + c + 1 = x + (c + 1)
        OBVIOUS
      <4>4. QED  BY <4>1, <4>2, <4>3
    <3>2. CASE s.status # "completed"
      <4>1. Cardinality(D) = c /\ Cardinality(G) = f + 1
        BY <2>3, <2>6, <2>7, <3>2
      <4>2. m.tasks_completed = x + c /\ m.tasks_failed = y + f + 1
        BY <2>12, <3>2
      <4>3. y + f + 1 = y + (f + 1)
        OBVIOUS
      <4>4. QED  BY <4>1, <4>2, <4>3
    <3>3. QED  BY <3>1, <3>2
  <2>15. QED  BY <2>1, <2>8, <2>13, <2>14 DEF Counted
<1>8. QED  BY <1>3, <1>6, <1>7 DEF CountersAgree

(* A closing session fails and counts the work of its node. *)
LEMMA DisconnectCounts ==
  ASSUME LedgerInv, NEW n \in DOMAIN nodes, disconnect_node(n)
  PROVE  CountersAgree
<1>1. PICK A : A = UnfinishedOf(tasks, n)
  OBVIOUS
<1>2. PICK k \in Nat : k = Cardinality(A)
  BY <1>1, PartIsFinite DEF UnfinishedOf
<1>3. PICK m : m = CloseSession(nodes[n], k)
  OBVIOUS
<1>4. /\ nodes' = [nodes EXCEPT ![n] = m]
      /\ tasks' = FailUnfinished(tasks, {n}, "session_closed")
  BY <1>1, <1>2, <1>3 DEF disconnect_node
<1>5. \A j \in DOMAIN nodes : nodes[j] \in NodeType
  BY DEF LedgerInv, NodeDict
<1>6. m.tasks_completed = nodes[n].tasks_completed /\ m.tasks_failed = nodes[n].tasks_failed + k
  BY <1>3, <1>5, ClosedNodeFields
<1>7. /\ DOMAIN tasks' = DOMAIN tasks
      /\ \A i \in DOMAIN tasks : Live(tasks[i]) =>
           IF tasks[i].node = n THEN tasks'[i].status = "failed" ELSE tasks'[i] = tasks[i]
  <2>1. DOMAIN tasks' = DOMAIN tasks
    BY <1>4 DEF FailUnfinished
  <2>2. ASSUME NEW i \in DOMAIN tasks, Live(tasks[i]), tasks[i].node = n
        PROVE  tasks'[i].status = "failed"
    <3>1. tasks'[i] = Settled(tasks[i], "failed", "session_closed")
      BY <1>4, <2>2 DEF FailUnfinished
    <3>2. tasks[i] \in TaskType
      BY DEF LedgerInv, TaskDict
    <3>3. QED  BY <3>1, <3>2 DEF Settled, TaskType
  <2>3. ASSUME NEW i \in DOMAIN tasks, tasks[i].node # n PROVE tasks'[i] = tasks[i]
    BY <1>4, <2>3 DEF FailUnfinished
  <2>4. QED  BY <2>1, <2>2, <2>3
<1>8. Counted(nodes[n], m, tasks, tasks', n)
  <2>1. Brought(tasks, tasks', n, {"completed"}) = {}
    BY <1>7 DEF Brought
  <2>2. Brought(tasks, tasks', n, {"failed", "timeout"}) = A
    BY <1>1, <1>7 DEF Brought, UnfinishedOf
  <2>3. Cardinality(Brought(tasks, tasks', n, {"completed"})) = 0
    BY <2>1, FS_EmptySet
  <2>4. PICK x \in Nat, y \in Nat : x = nodes[n].tasks_completed /\ y = nodes[n].tasks_failed
    BY <1>5 DEF NodeType
  <2>5. m.tasks_completed = x + 0 /\ m.tasks_failed = y + k
    BY <1>6, <2>4
  <2>6. QED  BY <1>2, <2>2, <2>3, <2>4, <2>5 DEF Counted
<1>9. ASSUME NEW j \in DOMAIN nodes, j # n
      PROVE  Counted(nodes[j], nodes[j], tasks, tasks', j)
  <2>1. Brought(tasks, tasks', j, {"completed"}) = {}
        /\ Brought(tasks, tasks', j, {"failed", "timeout"}) = {}
    BY <1>7, <1>9 DEF Brought, Live, LIVE_TASK_STATUSES
  <2>2. nodes[j].tasks_completed \in Nat /\ nodes[j].tasks_failed \in Nat
    BY <1>5 DEF NodeType
  <2>3. QED  BY <2>1, <2>2, FS_EmptySet DEF Counted
<1>10. DOMAIN nodes' = DOMAIN nodes /\ nodes'[n] = m
       /\ \A j \in DOMAIN nodes : j # n => nodes'[j] = nodes[j]
  BY <1>4
<1>11. QED  BY <1>8, <1>9, <1>10 DEF CountersAgree

(* Every other handler leaves the statistics and ends no task that they
   count. *)
LEMMA UncountedStep ==
  ASSUME LedgerInv,
         \A n \in DOMAIN nodes \cap DOMAIN nodes' : SameCounts(nodes[n], nodes'[n]),
         \A i \in DOMAIN tasks \cap DOMAIN tasks' :
           Live(tasks[i]) => tasks'[i].status \notin Outcomes
  PROVE  CountersAgree
BY NothingCounted DEF CountersAgree, Outcomes, LedgerInv, NodeDict

(* A step that keeps the records of the tasks counts nothing. *)
LEMMA KeptUncounted ==
  ASSUME LedgerInv, Kept(tasks, tasks'),
         \A n \in DOMAIN nodes \cap DOMAIN nodes' : SameCounts(nodes[n], nodes'[n])
  PROVE  CountersAgree
<1>1. \A i \in DOMAIN tasks \cap DOMAIN tasks' :
        Live(tasks[i]) => tasks'[i].status \notin Outcomes
  BY DEF Kept, Live, LIVE_TASK_STATUSES, Outcomes
<1>2. QED  BY <1>1, UncountedStep

(* A settled task that its operator called off, or that exercise containment
   cancelled, is not counted. *)
LEMMA CancelledIsUncounted ==
  ASSUME NEW t \in TaskType, NEW b
  PROVE  Settled(t, "cancelled", b).status = "cancelled"
BY DEF Settled, TaskType

(* The clock and enroll_node leave the statistics of every node. *)
LEMMA ClockCounts ==
  ASSUME LedgerInv, Tick
  PROVE  CountersAgree
<1>1. ASSUME NEW n \in DOMAIN nodes PROVE SameCounts(nodes[n], nodes'[n])
  <2>1. nodes[n] \in NodeType
    BY DEF LedgerInv, NodeDict
  <2>2. nodes'[n] = OlderNode(nodes[n])
    BY DEF Tick
  <2>3. PICK a : OlderNode(nodes[n]) = [nodes[n] EXCEPT !.age = a]
    BY DEF OlderNode
  <2>4. QED  BY <2>1, <2>2, <2>3 DEF SameCounts, NodeType
<1>2. ASSUME NEW i \in DOMAIN tasks, Live(tasks[i]) PROVE tasks'[i].status \notin Outcomes
  <2>1. tasks[i] \in TaskType
    BY DEF LedgerInv, TaskDict
  <2>2. tasks'[i] = OlderTask(tasks[i])
    BY DEF Tick
  <2>3. PICK a : OlderTask(tasks[i]) = [tasks[i] EXCEPT !.timer = a]
    BY DEF OlderTask
  <2>4. tasks'[i].status = tasks[i].status
    BY <2>1, <2>2, <2>3 DEF TaskType
  <2>5. QED  BY <1>2, <2>4 DEF Live, LIVE_TASK_STATUSES, Outcomes
<1>3. QED  BY <1>1, <1>2, UncountedStep

(* A new node starts counting; the others stay as they are. *)
LEMMA EnrollCounts ==
  ASSUME LedgerInv, NEW e \in Enrolments, NEW lag \in Lags, enroll_node(e, lag)
  PROVE  CountersAgree
<1>1. PICK k, N, m :
        /\ k = seq.node + 1 /\ N = NodesWithRoom(nodes)
        /\ m = NewNode(e.profile, e.poll_interval, lag)
  OBVIOUS
<1>2. nodes' = Put(N, k, m) /\ tasks' = tasks
  BY <1>1 DEF enroll_node
<1>3. k \notin DOMAIN nodes
  BY <1>1 DEF LedgerInv, SeqOK
<1>4. \A n \in DOMAIN N : n \in DOMAIN nodes /\ N[n] = nodes[n]
  BY <1>1 DEF NodesWithRoom, Drop
<1>5. \A n \in DOMAIN nodes' : n # k => n \in DOMAIN N /\ nodes'[n] = N[n]
  BY <1>2 DEF Put
<1>6. \A n \in DOMAIN nodes \cap DOMAIN nodes' : SameCounts(nodes[n], nodes'[n])
  BY <1>3, <1>4, <1>5 DEF SameCounts
<1>7. QED  BY <1>2, <1>6, KeptUncounted DEF Kept

(* Calling a task off counts nothing. *)
LEMMA CancelCounts ==
  ASSUME LedgerInv, NEW a \in DOMAIN tasks, cancel_task(a)
  PROVE  CountersAgree
<1>1. /\ nodes' = nodes
      /\ tasks' = [tasks EXCEPT ![a] = Settled(tasks[a], "cancelled", "operator_cancelled")]
  BY DEF cancel_task
<1>2. tasks[a] \in TaskType
  BY DEF LedgerInv, TaskDict
<1>3. tasks'[a].status = "cancelled"
  BY <1>1, <1>2, CancelledIsUncounted
<1>4. \A i \in DOMAIN tasks : i # a => tasks'[i] = tasks[i]
  BY <1>1
<1>5. \A i \in DOMAIN tasks : Live(tasks[i]) => tasks'[i].status \notin Outcomes
  BY <1>3, <1>4 DEF Live, LIVE_TASK_STATUSES, Outcomes
<1>6. \A n \in DOMAIN nodes : SameCounts(nodes[n], nodes'[n])
  BY <1>1 DEF SameCounts
<1>7. QED  BY <1>5, <1>6, UncountedStep

(* Containing an exercise counts nothing either. *)
LEMMA ContainCounts ==
  ASSUME LedgerInv, NEW e \in DOMAIN exercises, NEW action, contain_exercise(e, action)
  PROVE  CountersAgree
<1>1. PICK n : n = exercises[e].node
  OBVIOUS
<1>2. nodes' = PausedNodes(nodes, n, action) /\ tasks' = ContainedTasks(exercises[e], tasks)
  BY <1>1 DEF contain_exercise
<1>3. ASSUME NEW m \in DOMAIN nodes PROVE SameCounts(nodes[m], nodes'[m])
  <2>1. nodes[m] \in NodeType
    BY DEF LedgerInv, NodeDict
  <2>2. CASE nodes'[m] = nodes[m]
    BY <2>2 DEF SameCounts
  <2>3. CASE nodes'[m] # nodes[m]
    <3>1. nodes' = [nodes EXCEPT ![n].tasking_paused = TRUE]
      BY <1>2, <2>3 DEF PausedNodes
    <3>2. nodes'[m] = [nodes[m] EXCEPT !.tasking_paused = TRUE]
      BY <2>3, <3>1
    <3>3. QED  BY <2>1, <3>2, Zenon DEF SameCounts, NodeType
  <2>4. QED  BY <2>2, <2>3
<1>4. ASSUME NEW i \in DOMAIN tasks, Live(tasks[i]) PROVE tasks'[i].status \notin Outcomes
  <2>1. tasks[i] \in TaskType
    BY DEF LedgerInv, TaskDict
  <2>2. \/ tasks'[i] = tasks[i]
        \/ tasks'[i] = Settled(tasks[i], "cancelled", "exercise_contained")
    BY <1>2 DEF ContainedTasks
  <2>3. tasks'[i].status = tasks[i].status \/ tasks'[i].status = "cancelled"
    BY <2>1, <2>2, CancelledIsUncounted
  <2>4. QED  BY <1>4, <2>3 DEF Live, LIVE_TASK_STATUSES, Outcomes
<1>5. QED  BY <1>3, <1>4, UncountedStep

(* An admission leaves the nodes and the tasks that stay. *)
LEMMA QueuesCounts ==
  ASSUME LedgerInv, QueuesTasks
  PROVE  CountersAgree
BY KeptUncounted DEF QueuesTasks, Queues, Admits, SameCounts

(* Every step counts exactly the outcomes it brings about. *)
LEMMA CountersStep == LedgerInv /\ [Next]_vars => CountersAgree
<1> SUFFICES ASSUME LedgerInv, [Next]_vars PROVE CountersAgree
  OBVIOUS
<1>1. CASE UNCHANGED vars
  BY <1>1, KeptUncounted DEF vars, Kept, SameCounts
<1>2. CASE Tick
  BY <1>2, ClockCounts
<1>3. ASSUME NEW lag \in Lags, Expire(lag) PROVE CountersAgree
  <2>1. /\ nodes' = ExpiredNodes(nodes, tasks, lag)
        /\ tasks' = ExpiredTasks(nodes, tasks, lag)
    BY <1>3 DEF Expire
  <2>2. QED  BY <2>1, ExpiryCounts DEF CountersAgree
<1>4. CASE NodeCall
  BY <1>4, EnrollCounts, PollCounts, SubmitCounts, DisconnectCounts DEF NodeCall
<1>5. CASE OperatorCall
  <2>1. CASE QueuesTasks
    BY <2>1, QueuesCounts
  <2>2. CASE reset
    BY <2>2 DEF reset, EmptyDict, CountersAgree
  <2>3. QED
    BY <1>5, <2>1, <2>2, CancelCounts, ContainCounts, AdmissionsQueue DEF OperatorCall
<1>6. QED  BY <1>1, <1>2, <1>3, <1>4, <1>5 DEF Next

(* tasks_completed and tasks_failed of a node grow by exactly the live tasks
   that a step completes, or fails or times out: no handler counts a task
   twice, and none that a node leaves unfinished goes uncounted. *)
THEOREM CountersMatchOutcomesHolds == Spec => CountersMatchOutcomes
<1>1. CountersAgree <=>
        \A n \in DOMAIN nodes \cap DOMAIN nodes' :
          /\ nodes'[n].tasks_completed =
               nodes[n].tasks_completed + Cardinality(NewlySettled(n, {"completed"}))
          /\ nodes'[n].tasks_failed =
               nodes[n].tasks_failed + Cardinality(NewlySettled(n, {"failed", "timeout"}))
  BY DEF CountersAgree, Counted, Brought, NewlySettled
<1>2. QED
  BY <1>1, LedgerInvariant, CountersStep, PTL DEF Spec, CountersMatchOutcomes

-----------------------------------------------------------------------------
(* Limits and the replay records of operations. *)

RecordsWithin ==
  /\ IsFiniteSet(DOMAIN operation_idempotency)
  /\ Cardinality(DOMAIN operation_idempotency) <= MAX_OPERATION_IDEMPOTENCY_RECORDS

(* When a record has to go, exactly one goes, and it is evictable. *)
LEMMA OneRecordEvicted ==
  ASSUME TypeInv, RecordsWithin, NEW key, key # NoKey,
         RecordsToFree(key) > 0 => EvictableKeys # {}
  PROVE  \/ /\ EvictedKeys(key) = {}
            /\ Cardinality(DOMAIN operation_idempotency) + 1
                 <= MAX_OPERATION_IDEMPOTENCY_RECORDS
         \/ \E v \in EvictableKeys : EvictedKeys(key) = {v}
<1> DEFINE C == Cardinality(DOMAIN operation_idempotency)
           M == MAX_OPERATION_IDEMPOTENCY_RECORDS
<1>1. C \in Nat /\ M \in Nat
  BY FS_CardinalityType, RequestsAssumption DEF RecordsWithin
<1>2. RecordsToFree(key) = C + 1 - M
  BY DEF RecordsToFree
<1> HIDE DEF C, M
<1>3. CASE RecordsToFree(key) <= 0
  BY <1>1, <1>2, <1>3 DEF EvictedKeys, C, M
<1>4. CASE ~(RecordsToFree(key) <= 0)
  <2>1. EvictableKeys # {}
    BY <1>1, <1>2, <1>4
  <2> DEFINE S == {operation_idempotency[k].operation : k \in EvictableKeys}
             oldest(k) == \A j \in EvictableKeys :
               operation_idempotency[k].operation <= operation_idempotency[j].operation
  <2>2. S \in SUBSET Nat
    BY DEF EvictableKeys, TypeInv, ReplayOK, OperationRecordType
  <2>3. PICK k \in EvictableKeys : operation_idempotency[k].operation = Least(S)
    <3>1. S # {}
      BY <2>1
    <3>2. Least(S) \in S
      BY <2>2, <3>1, LeastInSet
    <3>3. QED  BY <3>2
  <2>4. oldest(k)
    <3>1. \A j \in S : Least(S) <= j
      BY <2>1, <2>2, LeastInSet
    <3>2. QED  BY <2>3, <3>1
  <2> DEFINE v == CHOOSE j \in EvictableKeys : oldest(j)
  <2>5. v \in EvictableKeys
    BY <2>3, <2>4
  <2>6. EvictedKeys(key) = {v}
    BY <1>4 DEF EvictedKeys
  <2> HIDE DEF v
  <2>7. QED  BY <2>5, <2>6
<1>5. QED  BY <1>3, <1>4

(* What queue_operation does to the replay records. *)
LEMMA OperationRemembered ==
  ASSUME TypeInv, RecordsWithin, NEW n \in DOMAIN nodes, NEW r \in OperationRequests,
         NEW lag \in Lags, queue_operation(n, r, lag)
  PROVE  \/ operation_idempotency' = operation_idempotency
         \/ \E evicted \in SUBSET EvictableKeys : \E record :
              /\ operation_idempotency' = Put(Drop(operation_idempotency, evicted), r.key, record)
              /\ r.key \notin DOMAIN operation_idempotency
              /\ \/ /\ evicted = {}
                    /\ Cardinality(DOMAIN operation_idempotency) + 1
                         <= MAX_OPERATION_IDEMPOTENCY_RECORDS
                 \/ \E v \in EvictableKeys : evicted = {v}
<1>1. PICK record : operation_idempotency' = RememberOperation(r.key, record)
  BY DEF queue_operation
<1>2. /\ r.key \notin DOMAIN operation_idempotency
      /\ RecordsToFree(r.key) > 0 => EvictableKeys # {}
  BY DEF queue_operation
<1>3. CASE r.key = NoKey
  BY <1>1, <1>3 DEF RememberOperation
<1>4. CASE r.key # NoKey
  <2>1. operation_idempotency' =
          Put(Drop(operation_idempotency, EvictedKeys(r.key)), r.key, record)
    BY <1>1, <1>4 DEF RememberOperation
  <2>2. \/ /\ EvictedKeys(r.key) = {}
           /\ Cardinality(DOMAIN operation_idempotency) + 1
                <= MAX_OPERATION_IDEMPOTENCY_RECORDS
        \/ \E v \in EvictableKeys : EvictedKeys(r.key) = {v}
    BY <1>2, <1>4, OneRecordEvicted
  <2>3. EvictedKeys(r.key) \in SUBSET EvictableKeys
    BY <2>2
  <2>4. QED  BY <1>2, <2>1, <2>2, <2>3
<1>5. QED  BY <1>3, <1>4

(* queue_operation and reset are the only handlers that touch them. *)
LEMMA RecordsElsewhere ==
  ASSUME [Next]_vars
  PROVE  \/ operation_idempotency' = operation_idempotency
         \/ \E n \in DOMAIN nodes, r \in OperationRequests, lag \in Lags :
              queue_operation(n, r, lag)
         \/ reset
<1>1. CASE UNCHANGED vars
  BY <1>1 DEF vars
<1>2. CASE Tick \/ \E lag \in Lags : Expire(lag)
  BY <1>2 DEF Tick, Expire, replay
<1>3. CASE NodeCall
  BY <1>3 DEF NodeCall, enroll_node, poll_node, submit_result, disconnect_node, replay
<1>4. CASE OperatorCall
  BY <1>4 DEF OperatorCall, queue_task, start_exercise, cancel_task, contain_exercise, replay
<1>5. QED  BY <1>1, <1>2, <1>3, <1>4 DEF Next

(* The replay records stay within their limit. *)
LEMMA RecordsStep == TypeInv /\ RecordsWithin /\ [Next]_vars => RecordsWithin'
<1> SUFFICES ASSUME TypeInv, RecordsWithin, [Next]_vars PROVE RecordsWithin'
  OBVIOUS
<1> DEFINE D == DOMAIN operation_idempotency
           M == MAX_OPERATION_IDEMPOTENCY_RECORDS
<1>0. /\ IsFiniteSet(D) /\ Cardinality(D) \in Nat /\ Cardinality(D) <= M /\ M \in Nat
  BY FS_CardinalityType, RequestsAssumption DEF RecordsWithin
<1>1. CASE operation_idempotency' = operation_idempotency
  BY <1>1 DEF RecordsWithin
<1>2. ASSUME NEW evicted \in SUBSET EvictableKeys, NEW record, NEW key,
             operation_idempotency' = Put(Drop(operation_idempotency, evicted), key, record),
             key \notin DOMAIN operation_idempotency,
             \/ evicted = {} /\ Cardinality(D) + 1 <= M
             \/ \E v \in EvictableKeys : evicted = {v}
      PROVE  RecordsWithin'
  <2>1. DOMAIN operation_idempotency' = (D \ evicted) \cup {key}
    BY <1>2 DEF Put, Drop
  <2>2. key \notin D \ evicted
    BY <1>2
  <2>3. IsFiniteSet(D \ evicted) /\ Cardinality(D \ evicted) + 1 <= M
        /\ Cardinality(D \ evicted) \in Nat
    <3>1. CASE evicted = {} /\ Cardinality(D) + 1 <= M
      BY <1>0, <3>1
    <3>2. ASSUME NEW v \in EvictableKeys, evicted = {v}
          PROVE  IsFiniteSet(D \ {v}) /\ Cardinality(D \ {v}) = Cardinality(D) - 1
      BY <1>0, <3>2, FS_RemoveElement DEF EvictableKeys
    <3>3. IsFiniteSet(D \ evicted)
      BY <1>0, FS_Difference
    <3>4. QED  BY <1>0, <1>2, <3>1, <3>2, <3>3, FS_CardinalityType
  <2>4. /\ IsFiniteSet((D \ evicted) \cup {key})
        /\ Cardinality((D \ evicted) \cup {key}) = Cardinality(D \ evicted) + 1
    BY <2>2, <2>3, FS_AddElement
  <2>5. QED  BY <2>1, <2>3, <2>4 DEF RecordsWithin
<1>3. CASE reset
  <2>1. DOMAIN operation_idempotency' = {}
    BY <1>3 DEF reset, EmptyDict
  <2>2. QED  BY <1>0, <2>1, FS_EmptySet DEF RecordsWithin
<1>4. QED  BY <1>1, <1>2, <1>3, RecordsElsewhere, OperationRemembered

(* The body of OperationReplayedWhileLive. *)
ReplayKept ==
  IsReset \/ \A k \in DOMAIN operation_idempotency :
    \/ k \in DOMAIN operation_idempotency' /\
       operation_idempotency'[k] = operation_idempotency[k]
    \/ \A i \in operation_idempotency[k].task_ids \cap DOMAIN tasks : ~Live(tasks[i])

(* A record that is evicted has no live task. *)
LEMMA ReplayStep == TypeInv /\ RecordsWithin /\ [Next]_vars => ReplayKept
<1> SUFFICES ASSUME TypeInv, RecordsWithin, [Next]_vars PROVE ReplayKept
  OBVIOUS
<1>1. CASE operation_idempotency' = operation_idempotency
  BY <1>1 DEF ReplayKept
<1>2. ASSUME NEW evicted \in SUBSET EvictableKeys, NEW record, NEW key,
             operation_idempotency' = Put(Drop(operation_idempotency, evicted), key, record),
             key \notin DOMAIN operation_idempotency,
             NEW k \in DOMAIN operation_idempotency
      PROVE  \/ k \in DOMAIN operation_idempotency' /\
                operation_idempotency'[k] = operation_idempotency[k]
             \/ \A i \in operation_idempotency[k].task_ids \cap DOMAIN tasks : ~Live(tasks[i])
  <2>1. CASE k \notin evicted
    BY <1>2, <2>1 DEF Put, Drop
  <2>2. CASE k \in evicted
    BY <2>2, TerminalNotLive DEF EvictableKeys, Evictable
  <2>3. QED  BY <2>1, <2>2
<1>3. CASE reset
  BY <1>3 DEF reset, IsReset, ReplayKept
<1>4. ASSUME NEW n \in DOMAIN nodes, NEW r \in OperationRequests, NEW lag \in Lags,
             queue_operation(n, r, lag)
      PROVE  ReplayKept
  BY <1>1, <1>2, <1>4, OperationRemembered DEF ReplayKept
<1>5. QED  BY <1>1, <1>3, <1>4, RecordsElsewhere

(* The records of a fresh Teamserver are within the limit. *)
LEMMA RecordsInit == Init => RecordsWithin
<1>1. Init => DOMAIN operation_idempotency = {}
  BY DEF Init, EmptyDict
<1>2. QED  BY <1>1, FS_EmptySet, RequestsAssumption DEF RecordsWithin

(* The inductive invariant behind the replay records. *)
THEOREM RecordsInvariant == Spec => [](TypeInv /\ RecordsWithin)
<1>1. QED  BY TypeInit, TypeStep, RecordsInit, RecordsStep, PTL DEF Spec

(* While a task of an operation is live, its replay record stays: a retried
   queue_operation cannot queue the operation twice. *)
THEOREM OperationReplayedWhileLiveHolds == Spec => OperationReplayedWhileLive
<1>1. QED
  BY RecordsInvariant, ReplayStep, PTL DEF Spec, OperationReplayedWhileLive, ReplayKept

-----------------------------------------------------------------------------
(* The node table, the queues and the tombstones. *)

NodesWithin == IsFiniteSet(DOMAIN nodes) /\ Cardinality(DOMAIN nodes) <= MAX_NODES

QueuesWithin ==
  \A n \in Nat :
    /\ Cardinality(QueuedOf(tasks, n)) <= MAX_QUEUED_TASKS_PER_NODE
    /\ Cardinality(QueuedPlaybooksOf(tasks, n)) <= MAX_QUEUED_PLAYBOOKS_PER_NODE

TombstonesWithin == Len(tombstones) <= MAX_TASK_RESULT_TOMBSTONES

(* enroll_node gives up a closed record when the table is full. *)
LEMMA EnrollWithin ==
  ASSUME LedgerInv, NodesWithin, NEW e \in Enrolments, NEW lag \in Lags, enroll_node(e, lag)
  PROVE  NodesWithin'
<1> DEFINE n == seq.node + 1
           R == NodesWithRoom(nodes)
           D == DOMAIN nodes
<1>1. /\ DOMAIN nodes' = DOMAIN R \cup {n}
      /\ Cardinality(D) >= MAX_NODES => ClosedNodes(nodes) # {}
  BY DEF enroll_node, Put
<1>2. n \notin D
  BY DEF LedgerInv, SeqOK
<1>3. IsFiniteSet(D) /\ Cardinality(D) \in Nat /\ Cardinality(D) <= MAX_NODES /\ MAX_NODES \in Nat
  BY FS_CardinalityType, LimitsAssumption DEF NodesWithin
<1>4. /\ IsFiniteSet(DOMAIN R) /\ Cardinality(DOMAIN R) \in Nat
      /\ Cardinality(DOMAIN R) + 1 <= MAX_NODES /\ DOMAIN R \subseteq D
  <2>1. CASE Cardinality(D) >= MAX_NODES
    <3> DEFINE c == Least(ClosedNodes(nodes))
    <3>1. ClosedNodes(nodes) \in SUBSET Nat
      BY DEF ClosedNodes, LedgerInv, NodeDict
    <3>2. c \in ClosedNodes(nodes)
      BY <1>1, <2>1, <3>1, LeastInSet
    <3>3. c \in D
      BY <3>2 DEF ClosedNodes
    <3>4. DOMAIN R = D \ {c}
      BY <2>1 DEF NodesWithRoom, Drop
    <3> HIDE DEF c
    <3>5. IsFiniteSet(D \ {c}) /\ Cardinality(D \ {c}) = Cardinality(D) - 1
      BY <1>3, <3>3, FS_RemoveElement
    <3>6. Cardinality(D \ {c}) \in Nat
      BY <3>5, FS_CardinalityType
    <3>7. QED  BY <1>3, <3>4, <3>5, <3>6
  <2>2. CASE ~(Cardinality(D) >= MAX_NODES)
    <3>1. R = nodes
      BY <2>2 DEF NodesWithRoom
    <3>2. QED  BY <1>3, <2>2, <3>1
  <2>3. QED  BY <2>1, <2>2
<1>5. Cardinality(DOMAIN R \cup {n}) = Cardinality(DOMAIN R) + 1 /\ IsFiniteSet(DOMAIN R \cup {n})
  BY <1>2, <1>4, FS_AddElement
<1>6. QED  BY <1>1, <1>4, <1>5 DEF NodesWithin

(* No other handler adds a node. *)
LEMMA NodesStep == LedgerInv /\ NodesWithin /\ [Next]_vars => NodesWithin'
<1> SUFFICES ASSUME LedgerInv, NodesWithin, [Next]_vars PROVE NodesWithin'
  OBVIOUS
<1>1. CASE DOMAIN nodes' = DOMAIN nodes
  BY <1>1 DEF NodesWithin
<1>2. CASE Tick
  BY <1>1, <1>2 DEF Tick
<1>3. ASSUME NEW lag \in Lags, Expire(lag) PROVE NodesWithin'
  <2>1. DOMAIN nodes' = DOMAIN nodes
    BY <1>3, ExpiredLedger DEF Expire
  <2>2. QED  BY <1>1, <2>1
<1>4. CASE NodeCall
  <2>1. CASE \E e \in Enrolments, lag \in Lags : enroll_node(e, lag)
    BY <2>1, EnrollWithin
  <2>2. ASSUME NEW n \in DOMAIN nodes, NEW lag \in Lags, poll_node(n, lag)
        PROVE  NodesWithin'
    <3>1. DOMAIN nodes' = DOMAIN ExpiredNodes(nodes, tasks, lag)
      BY <2>2 DEF poll_node
    <3>2. QED  BY <1>1, <3>1, ExpiredLedger
  <2>3. ASSUME NEW n \in DOMAIN nodes, NEW a \in DOMAIN tasks, NEW s \in Submissions,
               NEW lag \in Lags, submit_result(n, a, s, lag)
        PROVE  NodesWithin'
    <3>1. DOMAIN nodes' = DOMAIN ExpiredNodes(nodes, tasks, lag)
      BY <2>3 DEF submit_result
    <3>2. QED  BY <1>1, <3>1, ExpiredLedger
  <2>4. ASSUME NEW n \in DOMAIN nodes, disconnect_node(n) PROVE NodesWithin'
    BY <1>1, <2>4 DEF disconnect_node
  <2>5. QED  BY <1>4, <2>1, <2>2, <2>3, <2>4 DEF NodeCall
<1>5. CASE OperatorCall
  <2>1. CASE \E e \in DOMAIN exercises, a \in CONTAINMENT_ACTIONS : contain_exercise(e, a)
    BY <1>1, <2>1 DEF contain_exercise, PausedNodes
  <2>2. CASE reset
    <3>1. DOMAIN nodes' = {}
      BY <2>2 DEF reset, EmptyDict
    <3>2. QED  BY <3>1, FS_EmptySet, LimitsAssumption DEF NodesWithin
  <2>3. QED
    BY <1>1, <1>5, <2>1, <2>2, ZenonT(30)
       DEF OperatorCall, queue_task, queue_operation, start_exercise, cancel_task
<1>6. QED  BY <1>1, <1>2, <1>3, <1>4, <1>5 DEF Next, vars

(* Moving tasks never lengthens a queue. *)
LEMMA MovingQueues ==
  ASSUME LedgerInv, QueuesWithin, Moves(tasks, tasks')
  PROVE  QueuesWithin'
<1> SUFFICES ASSUME NEW n \in Nat
             PROVE  /\ Cardinality(QueuedOf(tasks', n)) <= MAX_QUEUED_TASKS_PER_NODE
                    /\ Cardinality(QueuedPlaybooksOf(tasks', n)) <= MAX_QUEUED_PLAYBOOKS_PER_NODE
  BY DEF QueuesWithin
<1>1. DOMAIN tasks' = DOMAIN tasks /\ IsFiniteSet(DOMAIN tasks)
  BY DEF Moves, LedgerInv, TaskDict
<1>2. \A i \in DOMAIN tasks : /\ tasks'[i].node = tasks[i].node
                              /\ tasks'[i].type = tasks[i].type
                              /\ tasks'[i].status = "queued" => tasks[i].status = "queued"
  BY DEF Moves, Moved, Waits, SettledFrom, Delivers, Answers, SameTask, CalledOff
<1>3. /\ QueuedOf(tasks', n) \in SUBSET QueuedOf(tasks, n)
      /\ QueuedPlaybooksOf(tasks', n) \in SUBSET QueuedPlaybooksOf(tasks, n)
  BY <1>1, <1>2 DEF QueuedOf, QueuedPlaybooksOf
<1>4. /\ QueuedOf(tasks, n) \in SUBSET DOMAIN tasks
      /\ QueuedPlaybooksOf(tasks, n) \in SUBSET DOMAIN tasks
  BY DEF QueuedOf, QueuedPlaybooksOf
<1>5. IsFiniteSet(QueuedOf(tasks, n)) /\ IsFiniteSet(QueuedPlaybooksOf(tasks, n))
  BY <1>1, <1>4, FS_Subset
<1>6. /\ Cardinality(QueuedOf(tasks', n)) <= Cardinality(QueuedOf(tasks, n))
      /\ Cardinality(QueuedPlaybooksOf(tasks', n)) <= Cardinality(QueuedPlaybooksOf(tasks, n))
  BY <1>3, <1>5, FS_Subset
<1>7. /\ Cardinality(QueuedOf(tasks, n)) \in Nat
      /\ Cardinality(QueuedPlaybooksOf(tasks, n)) \in Nat
      /\ Cardinality(QueuedOf(tasks', n)) \in Nat
      /\ Cardinality(QueuedPlaybooksOf(tasks', n)) \in Nat
  BY <1>3, <1>5, FS_Subset, FS_CardinalityType
<1>8. /\ Cardinality(QueuedOf(tasks, n)) <= MAX_QUEUED_TASKS_PER_NODE
      /\ Cardinality(QueuedPlaybooksOf(tasks, n)) <= MAX_QUEUED_PLAYBOOKS_PER_NODE
  BY DEF QueuesWithin
<1>9. QED  BY <1>6, <1>7, <1>8, LimitsAssumption

(* A set grown by some of at most k new ids. *)
LEMMA GrownBy ==
  ASSUME NEW S, IsFiniteSet(S), NEW k \in Nat, LedgerInv, NEW G \in SUBSET (S \cup NewIds(k))
  PROVE  IsFiniteSet(G) /\ Cardinality(G) <= Cardinality(S) + k
<1>1. seq.task \in Nat
  BY DEF LedgerInv, SeqOK
<1>2. PICK a \in Int, b \in Int : a = seq.task + 1 /\ b = seq.task + k
  BY <1>1
<1>3. IsFiniteSet(a..b) /\ Cardinality(a..b) = IF a > b THEN 0 ELSE b - a + 1
  BY FS_Interval
<1>4. Cardinality(a..b) = k /\ NewIds(k) = a..b
  BY <1>1, <1>2, <1>3, SMTT(20) DEF NewIds
<1>5. IsFiniteSet(NewIds(k)) /\ Cardinality(NewIds(k)) = k
  BY <1>3, <1>4
<1>6. /\ IsFiniteSet(S \cup NewIds(k))
      /\ Cardinality(S \cup NewIds(k)) =
           Cardinality(S) + Cardinality(NewIds(k)) - Cardinality(S \cap NewIds(k))
  BY <1>5, FS_Union
<1>7. Cardinality(S \cap NewIds(k)) \in Nat /\ Cardinality(S) \in Nat
  BY FS_Intersection, FS_CardinalityType
<1>8. /\ Cardinality(G) <= Cardinality(S \cup NewIds(k)) /\ Cardinality(G) \in Nat
      /\ IsFiniteSet(G)
      /\ Cardinality(S \cup NewIds(k)) \in Nat
  BY <1>6, FS_Subset, FS_CardinalityType
<1>9. QED  BY <1>5, <1>6, <1>7, <1>8

(* An admission lengthens one queue, by what it checked there is room for. *)
LEMMA QueuingQueues ==
  ASSUME LedgerInv, QueuesWithin, NEW n \in Nat, NEW k \in 1..MAX_OPERATION_STEPS,
         NEW key, NEW e, Queues(n, k, key, e),
         NEW playbooks \in Nat, NEW others \in Nat, playbooks + others = k,
         HasQueueRoom(tasks, n, playbooks, others),
         others > 0 => k = 1 /\ tasks'[seq.task + 1].type # "RUN_PLAYBOOK"
  PROVE  QueuesWithin'
<1> SUFFICES ASSUME NEW m \in Nat
             PROVE  /\ Cardinality(QueuedOf(tasks', m)) <= MAX_QUEUED_TASKS_PER_NODE
                    /\ Cardinality(QueuedPlaybooksOf(tasks', m)) <= MAX_QUEUED_PLAYBOOKS_PER_NODE
  BY DEF QueuesWithin
<1> DEFINE Q == QueuedOf(tasks, m)
           P == QueuedPlaybooksOf(tasks, m)
<1>1. PICK records : Admits(k, records) /\ \A j \in 1..k : records[j].node = n
  BY DEF Queues
<1>2. seq.task \in Nat /\ k \in Nat
  BY DEF LedgerInv, SeqOK, MAX_OPERATION_STEPS
<1>3. \A i \in NewIds(k) : tasks'[i].node = n
  BY <1>1, <1>2, SMTT(20) DEF Admits, NewIds
<1>4. \A i \in DOMAIN tasks' : i \in NewIds(k) \/ (i \in DOMAIN tasks /\ tasks'[i] = tasks[i])
  BY <1>1 DEF Admits, Kept
<1>5. IsFiniteSet(Q) /\ IsFiniteSet(P) /\ Cardinality(Q) \in Nat /\ Cardinality(P) \in Nat
  <2>1. Q \in SUBSET DOMAIN tasks /\ P \in SUBSET DOMAIN tasks /\ IsFiniteSet(DOMAIN tasks)
    BY DEF QueuedOf, QueuedPlaybooksOf, LedgerInv, TaskDict
  <2>2. QED  BY <2>1, FS_Subset, FS_CardinalityType
<1>6. /\ Cardinality(Q) <= MAX_QUEUED_TASKS_PER_NODE
      /\ Cardinality(P) <= MAX_QUEUED_PLAYBOOKS_PER_NODE
  BY DEF QueuesWithin
<1>7. QueuedOf(tasks', m) \in SUBSET (Q \cup NewIds(k))
  BY <1>4 DEF QueuedOf
<1>8. QueuedPlaybooksOf(tasks', m) \in SUBSET (P \cup NewIds(k))
  BY <1>4 DEF QueuedOf, QueuedPlaybooksOf
<1>9. CASE m # n
  <2>1. QueuedOf(tasks', m) \in SUBSET Q /\ QueuedPlaybooksOf(tasks', m) \in SUBSET P
    BY <1>3, <1>4, <1>9 DEF QueuedOf, QueuedPlaybooksOf
  <2> HIDE DEF Q, P
  <2>2. /\ Cardinality(QueuedOf(tasks', m)) <= Cardinality(Q)
        /\ Cardinality(QueuedOf(tasks', m)) \in Nat
    BY <1>5, <2>1, FS_Subset, FS_CardinalityType
  <2>3. /\ Cardinality(QueuedPlaybooksOf(tasks', m)) <= Cardinality(P)
        /\ Cardinality(QueuedPlaybooksOf(tasks', m)) \in Nat
    BY <1>5, <2>1, FS_Subset, FS_CardinalityType
  <2>4. QED  BY <1>5, <1>6, <2>2, <2>3, LimitsAssumption
<1>10. CASE m = n
  <2>1. /\ Cardinality(Q) + playbooks + others <= MAX_QUEUED_TASKS_PER_NODE
        /\ playbooks > 0 => Cardinality(P) + playbooks <= MAX_QUEUED_PLAYBOOKS_PER_NODE
    BY <1>10 DEF HasQueueRoom
  <2>2. IsFiniteSet(QueuedOf(tasks', m)) /\ IsFiniteSet(QueuedPlaybooksOf(tasks', m))
    BY <1>2, <1>5, <1>7, <1>8, GrownBy
  <2>3. /\ Cardinality(QueuedOf(tasks', m)) \in Nat
        /\ Cardinality(QueuedPlaybooksOf(tasks', m)) \in Nat
    BY <2>2, FS_CardinalityType
  <2> HIDE DEF Q, P
  <2>4. Cardinality(QueuedOf(tasks', m)) <= Cardinality(Q) + k
    BY <1>2, <1>5, <1>7, GrownBy
  <2>5. Cardinality(QueuedPlaybooksOf(tasks', m)) <= Cardinality(P) + k
    BY <1>2, <1>5, <1>8, GrownBy
  <2>6. CASE others = 0
    BY <1>2, <1>5, <1>6, <2>1, <2>3, <2>4, <2>5, <2>6, LimitsAssumption
       DEF MAX_OPERATION_STEPS
  <2>7. CASE others > 0
    <3>1. \A i \in NewIds(k) : tasks'[i].type # "RUN_PLAYBOOK"
      BY <1>2, <2>7 DEF NewIds
    <3>2. QueuedPlaybooksOf(tasks', m) \in SUBSET P
      BY <1>4, <3>1 DEF QueuedOf, QueuedPlaybooksOf, P
    <3>3. Cardinality(QueuedPlaybooksOf(tasks', m)) <= Cardinality(P)
      BY <1>5, <3>2, FS_Subset
    <3>4. QED  BY <1>2, <1>5, <1>6, <2>1, <2>3, <2>4, <3>3, LimitsAssumption
  <2>8. QED  BY <2>6, <2>7
<1>11. QED  BY <1>9, <1>10

(* The queues stay within their limits. *)
LEMMA QueuesStep == LedgerInv /\ QueuesWithin /\ [Next]_vars => QueuesWithin'
<1> SUFFICES ASSUME LedgerInv, QueuesWithin, [Next]_vars PROVE QueuesWithin'
  OBVIOUS
<1>1. CASE MovesTasks
  BY <1>1, MovingQueues DEF MovesTasks
<1>2. CASE reset
  <2>1. \A n : QueuedOf(tasks', n) = {} /\ QueuedPlaybooksOf(tasks', n) = {}
    BY <1>2 DEF reset, EmptyDict, QueuedOf, QueuedPlaybooksOf
  <2>2. QED  BY <2>1, FS_EmptySet, LimitsAssumption DEF QueuesWithin
<1>3. ASSUME NEW n \in DOMAIN nodes, NEW lag \in Lags, NEW r \in TaskRequests,
             queue_task(n, r, lag)
      PROVE  QueuesWithin'
  <2> DEFINE p == IF r.type = "RUN_PLAYBOOK" THEN 1 ELSE 0
  <2>1. HasQueueRoom(tasks, n, p, 1 - p) /\ n \in Nat
    BY <1>3 DEF queue_task, LedgerInv, NodeDict
  <2>2. Queues(n, 1, r.key, 0) /\ tasks'[seq.task + 1].type = r.type
    BY <1>3, QueueTaskLedger
  <2>3. /\ p \in Nat /\ 1 - p \in Nat /\ p + (1 - p) = 1 /\ 1 \in 1..MAX_OPERATION_STEPS
        /\ 1 - p > 0 => r.type # "RUN_PLAYBOOK"
    BY DEF MAX_OPERATION_STEPS
  <2> HIDE DEF p
  <2>4. QED  BY <2>1, <2>2, <2>3, QueuingQueues
<1>4. ASSUME NEW n \in DOMAIN nodes, NEW lag \in Lags, NEW r \in OperationRequests,
             queue_operation(n, r, lag)
      PROVE  QueuesWithin'
  <2> DEFINE p == Len(r.playbooks)
  <2>1. HasQueueRoom(tasks, n, p, 0) /\ n \in Nat
    BY <1>4 DEF queue_operation, LedgerInv, NodeDict
  <2>2. Queues(n, p, NoKey, 0) /\ p \in 1..MAX_OPERATION_STEPS
    BY <1>4, QueueOperationLedger
  <2> HIDE DEF p
  <2>3. p \in Nat /\ 0 \in Nat /\ p + 0 = p /\ ~(0 > 0)
    BY <2>2 DEF MAX_OPERATION_STEPS
  <2>4. QED  BY <2>1, <2>2, <2>3, QueuingQueues
<1>5. ASSUME NEW n \in DOMAIN nodes, NEW lag \in Lags, NEW r \in ExerciseRequests,
             start_exercise(n, r, lag)
      PROVE  QueuesWithin'
  <2>1. HasQueueRoom(tasks, n, 2, 0) /\ n \in Nat
    BY <1>5 DEF start_exercise, LedgerInv, NodeDict
  <2>2. Queues(n, 2, NoKey, seq.exercise + 1)
    BY <1>5, StartExerciseLedger
  <2>3. 2 \in 1..MAX_OPERATION_STEPS /\ 2 \in Nat /\ 0 \in Nat /\ 2 + 0 = 2 /\ ~(0 > 0)
    BY DEF MAX_OPERATION_STEPS
  <2>4. QED  BY <2>1, <2>2, <2>3, QueuingQueues
<1>6. MovesTasks \/ reset \/ \E n \in DOMAIN nodes, lag \in Lags :
        \/ \E r \in TaskRequests : queue_task(n, r, lag)
        \/ \E r \in OperationRequests : queue_operation(n, r, lag)
        \/ \E r \in ExerciseRequests : start_exercise(n, r, lag)
  BY StepKinds
<1>7. QED  BY <1>1, <1>2, <1>3, <1>4, <1>5, <1>6

(* The tombstones stay within their limit. *)
LEMMA TombstonesStep ==
  LedgerInv /\ TombstonesWithin /\ [Next]_vars => TombstonesWithin'
<1> SUFFICES ASSUME LedgerInv, TombstonesWithin, [Next]_vars PROVE TombstonesWithin'
  OBVIOUS
<1>1. CASE MovesTasks
  BY <1>1 DEF MovesTasks, TombstonesWithin
<1>2. CASE QueuesTasks
  BY <1>2 DEF QueuesTasks, Queues, Admits, TombstonesWithin
<1>3. CASE reset
  BY <1>3, LimitsAssumption DEF reset, TombstonesWithin
<1>4. QED  BY <1>1, <1>2, <1>3, StepShape

(* A fresh Teamserver is within every limit. *)
LEMMA LimitsInit == Init => NodesWithin /\ QueuesWithin /\ TombstonesWithin
<1> SUFFICES ASSUME Init PROVE NodesWithin /\ QueuesWithin /\ TombstonesWithin
  OBVIOUS
<1>1. DOMAIN nodes = {} /\ DOMAIN tasks = {} /\ tombstones = <<>>
  BY DEF Init, EmptyDict
<1>2. \A n : QueuedOf(tasks, n) = {} /\ QueuedPlaybooksOf(tasks, n) = {}
  BY <1>1 DEF QueuedOf, QueuedPlaybooksOf
<1>3. NodesWithin /\ QueuesWithin
  <2>1. IsFiniteSet({}) /\ Cardinality({}) = 0
    BY FS_EmptySet
  <2>2. NodesWithin
    BY <1>1, <2>1, LimitsAssumption DEF NodesWithin
  <2>3. QueuesWithin
    BY <1>2, <2>1, LimitsAssumption DEF QueuesWithin
  <2>4. QED  BY <2>2, <2>3
<1>4. TombstonesWithin
  <2>1. Len(tombstones) = 0
    BY <1>1
  <2>2. QED  BY <2>1, LimitsAssumption DEF TombstonesWithin
<1>5. QED  BY <1>3, <1>4

LimitsInv == TypeInv /\ RecordsWithin /\ NodesWithin /\ QueuesWithin /\ TombstonesWithin

(* Node table, task table, queues, tombstones and replay records stay within
   their configured limits together, however the requests interleave. *)
THEOREM WithinLimitsHolds == Spec => []WithinLimits
<1>1. Init => LimitsInv
  BY TypeInit, RecordsInit, LimitsInit DEF LimitsInv
<1>2. LimitsInv /\ [Next]_vars => LimitsInv'
  BY TypeStep, RecordsStep, NodesStep, QueuesStep, TombstonesStep DEF LimitsInv, TypeInv
<1>3. LimitsInv => WithinLimits
  BY DEF LimitsInv, TypeInv, LedgerInv, RecordsWithin, NodesWithin, QueuesWithin,
         TombstonesWithin, NodeDict, WithinLimits
<1>4. QED  BY <1>1, <1>2, <1>3, PTL DEF Spec

-----------------------------------------------------------------------------
(* Acknowledgements.  A result is acknowledged again from the task or, once
   the task is pruned, from its tombstone. *)

(* A tombstone stands for a task that was given out and is gone. *)
TombsGone ==
  \A k \in 1..Len(tombstones) :
    tombstones[k].id \in 1..seq.task /\ tombstones[k].id \notin DOMAIN tasks

(* No task has two. *)
TombsDistinct ==
  \A j, k \in 1..Len(tombstones) : tombstones[j].id = tombstones[k].id => j = k

(* A task that ended with the words of a node has its accepted flag set, so a
   tombstone is kept for it. *)
RepliesAccepted ==
  \A i \in DOMAIN tasks :
    tasks[i].status \in {"completed", "failed"} /\ tasks[i].result.body \in NodeReplies
      => tasks[i].accepted = TRUE

AckInv == LedgerInv /\ TombsGone /\ TombsDistinct /\ RepliesAccepted

LedgerShape == MovesTasks \/ QueuesTasks \/ reset

(* The tombstones and those of the pruned tasks in one list, no task twice. *)
AllTombstones(all) ==
  /\ all \in Seq(TombstoneType)
  /\ Len(tombstones) <= Len(all) /\ \A k \in 1..Len(tombstones) : all[k] = tombstones[k]
  /\ \A k \in 1..Len(all) : all[k].id \in 1..seq.task /\ all[k].id \notin DOMAIN tasks'
  /\ \A j, k \in 1..Len(all) : all[j].id = all[k].id => j = k
  /\ \A i \in DOMAIN tasks \ DOMAIN tasks' : tasks[i].accepted =>
       \E k \in 1..Len(all) : all[k] = Tombstone(i, tasks[i])

(* An admission keeps the newest part of that list. *)
LEMMA AdmissionLists ==
  ASSUME AckInv, NEW n, NEW q \in 1..MAX_OPERATION_STEPS, NEW key, NEW e,
         Queues(n, q, key, e)
  PROVE  \E all : AllTombstones(all) /\ \E d \in Nat : Window(all, d, tombstones')
<1>1. /\ tombstones \in Seq(TombstoneType) /\ Len(tombstones) \in Nat
      /\ DOMAIN tasks \subseteq 1..seq.task /\ seq.task \in Nat
  BY DEF AckInv, LedgerInv, SeqOK
<1>2. PICK U : /\ DOMAIN U = DOMAIN tasks \cap DOMAIN tasks'
               /\ Retires(tasks, tombstones, U, tombstones')
  BY DEF Queues, Admits
<1>3. PICK all \in Seq(TombstoneType), d \in Nat :
        Listed(tasks, tombstones, U, all) /\ Window(all, d, tombstones')
  BY <1>2 DEF Retires
<1>4. /\ Len(all) \in Nat /\ Len(tombstones) <= Len(all)
      /\ \A k \in 1..Len(tombstones) : all[k] = tombstones[k]
  BY <1>3 DEF Listed
<1>a. \A i \in DOMAIN tasks' : i \in DOMAIN tasks \/ i \in NewIds(q)
  BY DEF Queues, Admits
<1>b. \A i \in 1..seq.task : i \notin NewIds(q)
  BY <1>1 DEF NewIds
<1>5. ASSUME NEW k \in 1..Len(all)
      PROVE  \/ k \in 1..Len(tombstones)
             \/ /\ k \in (Len(tombstones) + 1)..Len(all)
                /\ all[k].id \in DOMAIN tasks /\ all[k].id \notin DOMAIN tasks'
  BY <1>1, <1>2, <1>3, <1>4 DEF Listed
<1>6. \A k \in 1..Len(tombstones) : all[k].id \in 1..seq.task /\ all[k].id \notin DOMAIN tasks
  BY <1>4 DEF AckInv, TombsGone
<1>7. ASSUME NEW k \in 1..Len(all)
      PROVE  all[k].id \in 1..seq.task /\ all[k].id \notin DOMAIN tasks'
  <2>1. CASE k \in 1..Len(tombstones)
    BY <1>6, <1>a, <1>b, <2>1
  <2>2. QED  BY <1>1, <1>5, <2>1
<1>8. ASSUME NEW j \in 1..Len(all), NEW k \in 1..Len(all), all[j].id = all[k].id
      PROVE  j = k
  <2>1. CASE j \in 1..Len(tombstones)
    <3>1. k \in 1..Len(tombstones)
      BY <1>5, <1>6, <1>8, <2>1
    <3>2. QED  BY <1>4, <1>8, <2>1, <3>1 DEF AckInv, TombsDistinct
  <2>2. CASE j \in (Len(tombstones) + 1)..Len(all) /\ all[j].id \in DOMAIN tasks
    <3>1. k \in (Len(tombstones) + 1)..Len(all)
      BY <1>5, <1>6, <1>8, <2>2
    <3>2. QED  BY <1>3, <1>8, <2>2, <3>1 DEF Listed
  <2>3. QED  BY <1>5, <2>1, <2>2
<1>9. ASSUME NEW i \in DOMAIN tasks \ DOMAIN tasks', tasks[i].accepted
      PROVE  \E k \in 1..Len(all) : all[k] = Tombstone(i, tasks[i])
  <2>1. PICK k \in (Len(tombstones) + 1)..Len(all) : all[k] = Tombstone(i, tasks[i])
    BY <1>2, <1>3, <1>9 DEF Listed
  <2>2. k \in 1..Len(all)
    BY <1>1, <1>4
  <2>3. QED  BY <2>1, <2>2
<1>10. AllTombstones(all)
  BY <1>4, <1>7, <1>8, <1>9 DEF AllTombstones
<1>11. QED  BY <1>3, <1>10

(* No such list is longer than the number of tasks given out. *)
LEMMA ListIsShort ==
  ASSUME LedgerInv, NEW all, AllTombstones(all) PROVE Len(all) <= seq.task
<1> DEFINE f == [k \in 1..Len(all) |-> all[k].id]
<1>1. seq.task \in Nat /\ Len(all) \in Nat
  BY DEF LedgerInv, SeqOK, AllTombstones
<1>2. f \in Injection(1..Len(all), 1..seq.task)
  BY DEF AllTombstones, Injection, IsInjective
<1>3. /\ IsFiniteSet(1..seq.task) /\ Cardinality(1..seq.task) = seq.task
      /\ Cardinality(1..Len(all)) = Len(all)
  <2>1. \A k \in Nat : IsFiniteSet(1..k) /\ Cardinality(1..k) = IF 1 > k THEN 0 ELSE k - 1 + 1
    BY FS_Interval
  <2>2. \A k \in Nat : IsFiniteSet(1..k) /\ Cardinality(1..k) = k
    BY <2>1
  <2>3. QED  BY <1>1, <2>2
<1> HIDE DEF f
<1>4. Cardinality(1..Len(all)) <= Cardinality(1..seq.task)
  BY <1>2, <1>3, FS_Injection
<1>5. QED  BY <1>1, <1>3, <1>4

(* After an admission every tombstone still stands for another, pruned task. *)
LEMMA AdmissionKeepsTombs ==
  ASSUME AckInv, NEW n, NEW q \in 1..MAX_OPERATION_STEPS, NEW key, NEW e,
         Queues(n, q, key, e)
  PROVE  TombsGone' /\ TombsDistinct'
<1>1. PICK all : AllTombstones(all) /\ \E d \in Nat : Window(all, d, tombstones')
  BY AdmissionLists
<1>2. PICK d \in Nat : Window(all, d, tombstones')
  BY <1>1
<1>3. Len(all) \in Nat
  BY <1>1 DEF AllTombstones
<1>4. /\ Len(tombstones') = Len(all) - d
      /\ \A m \in 1..Len(tombstones') : tombstones'[m] = all[m + d]
  BY <1>2, <1>3 DEF Window
<1>5. ASSUME NEW m \in 1..Len(tombstones') PROVE m \in Nat /\ m + d \in 1..Len(all)
  BY <1>3, <1>4
<1>6. seq'.task = seq.task + q /\ seq.task \in Nat /\ q \in Nat
  BY DEF Queues, AckInv, LedgerInv, SeqOK, MAX_OPERATION_STEPS
<1>7. TombsGone'
  <2> SUFFICES ASSUME NEW m \in 1..Len(tombstones')
               PROVE  /\ tombstones'[m].id \in 1..seq'.task
                      /\ tombstones'[m].id \notin DOMAIN tasks'
    BY DEF TombsGone
  <2>1. tombstones'[m].id \in 1..seq.task /\ tombstones'[m].id \notin DOMAIN tasks'
    BY <1>1, <1>4, <1>5 DEF AllTombstones
  <2>2. QED  BY <1>6, <2>1
<1>8. TombsDistinct'
  <2> SUFFICES ASSUME NEW j \in 1..Len(tombstones'), NEW k \in 1..Len(tombstones'),
                      tombstones'[j].id = tombstones'[k].id
               PROVE  j = k
    BY DEF TombsDistinct
  <2>1. j \in Nat /\ k \in Nat /\ j + d \in 1..Len(all) /\ k + d \in 1..Len(all)
    BY <1>5
  <2>2. j + d = k + d
    BY <1>1, <1>4, <2>1 DEF AllTombstones
  <2>3. QED  BY <2>1, <2>2
<1>9. QED  BY <1>7, <1>8

(* A task gets the words of a node with the flag, and the flag stays. *)
LEMMA RepliesStep ==
  ASSUME LedgerInv, RepliesAccepted, LedgerShape PROVE RepliesAccepted'
<1>1. CASE MovesTasks
  <2> SUFFICES ASSUME NEW i \in DOMAIN tasks', tasks'[i].status \in {"completed", "failed"},
                      tasks'[i].result.body \in NodeReplies
               PROVE  tasks'[i].accepted = TRUE
    BY DEF RepliesAccepted
  <2>1. i \in DOMAIN tasks /\ Moved(tasks[i], tasks'[i])
    BY <1>1 DEF MovesTasks, Moves
  <2>2. CASE Waits(tasks[i], tasks'[i])
    BY <2>1, <2>2 DEF Waits, RepliesAccepted
  <2>3. ~SettledFrom(tasks[i], tasks'[i])
    BY DEF SettledFrom, ServerResults, NodeReplies, NODE_FAILURE_CODES
  <2>4. QED  BY <2>1, <2>2, <2>3 DEF Moved, Delivers, Answers
<1>2. CASE reset
  BY <1>2 DEF reset, EmptyDict, RepliesAccepted
<1>3. ASSUME NEW n, NEW q \in 1..MAX_OPERATION_STEPS, NEW key, NEW e, Queues(n, q, key, e)
      PROVE  RepliesAccepted'
  <2>1. PICK records : Admits(q, records) /\ \A m \in 1..q : FreshTask(records[m])
    BY <1>3 DEF Queues
  <2>2. seq.task \in Nat /\ q \in Nat
    BY DEF LedgerInv, SeqOK, MAX_OPERATION_STEPS
  <2>3. ASSUME NEW i \in DOMAIN tasks', i \notin DOMAIN tasks
        PROVE  tasks'[i].status = "queued"
    <3>1. i \in NewIds(q)
      BY <2>1, <2>3 DEF Admits
    <3>2. tasks'[i] = records[i - seq.task] /\ i - seq.task \in 1..q
      BY <2>1, <2>2, <3>1 DEF Admits, NewIds
    <3>3. QED  BY <2>1, <3>2 DEF FreshTask
  <2>4. \A i \in DOMAIN tasks \cap DOMAIN tasks' : tasks'[i] = tasks[i]
    BY <2>1 DEF Admits, Kept
  <2>5. QED  BY <2>3, <2>4 DEF RepliesAccepted
<1>4. QED  BY <1>1, <1>2, <1>3 DEF LedgerShape, QueuesTasks

(* The invariant of the acknowledgements, but for the ledger itself. *)
LEMMA AckStep ==
  ASSUME AckInv, LedgerShape PROVE TombsGone' /\ TombsDistinct' /\ RepliesAccepted'
<1>1. CASE MovesTasks
  <2>1. DOMAIN tasks' = DOMAIN tasks /\ tombstones' = tombstones /\ seq'.task = seq.task
    BY <1>1 DEF MovesTasks, Moves
  <2>2. QED  BY <2>1, RepliesStep DEF AckInv, TombsGone, TombsDistinct
<1>2. CASE reset
  BY <1>2, RepliesStep DEF reset, AckInv, TombsGone, TombsDistinct
<1>3. CASE QueuesTasks
  BY <1>3, AdmissionKeepsTombs, RepliesStep DEF QueuesTasks, AckInv
<1>4. QED  BY <1>1, <1>2, <1>3 DEF LedgerShape

(* The window of the tombstones has moved past that of task i. *)
Displaced(i) ==
  /\ Len(tombstones') = MAX_TASK_RESULT_TOMBSTONES
  /\ \A k \in 1..Len(tombstones), m \in 1..Len(tombstones') :
       tombstones[k] = tombstones'[m] => \E h \in 1..k : tombstones[h].id = i

(* A tombstone that was in the list is in the window, or displaced; that takes
   more tasks than there is room for tombstones. *)
LEMMA AdmissionAnswers ==
  ASSUME AckInv, NEW n, NEW q \in 1..MAX_OPERATION_STEPS, NEW key, NEW e,
         Queues(n, q, key, e),
         NEW m, NEW i \in 1..seq.task, NEW s, s.status \in {"completed", "failed"},
         s.result.body \in NodeReplies, AnswersRetry(m, i, s)
  PROVE  \/ AnswersRetry(m, i, s)'
         \/ Displaced(i) /\ seq.task > MAX_TASK_RESULT_TOMBSTONES
<1> DEFINE t == [id |-> i, node |-> m, status |-> s.status, result |-> s.result]
<1>1. PICK all : AllTombstones(all) /\ \E d \in Nat : Window(all, d, tombstones')
  BY AdmissionLists
<1>2. PICK d \in Nat : Window(all, d, tombstones')
  BY <1>1
<1>3. Len(all) \in Nat /\ seq.task \in Nat /\ Len(all) <= seq.task
  <2>1. LedgerInv /\ seq.task \in Nat
    BY DEF AckInv, LedgerInv, SeqOK
  <2>2. Len(all) \in Nat
    BY <1>1 DEF AllTombstones
  <2>3. QED  BY <1>1, <2>1, <2>2, ListIsShort
<1>4. /\ Len(tombstones') = Len(all) - d /\ MAX_TASK_RESULT_TOMBSTONES \in Nat
      /\ \A k \in 1..Len(tombstones') : tombstones'[k] = all[k + d]
      /\ d > 0 => Len(tombstones') = MAX_TASK_RESULT_TOMBSTONES
  BY <1>2, <1>3, LimitsAssumption DEF Window
<1>5. i \in DOMAIN tasks' => i \in DOMAIN tasks /\ tasks'[i] = tasks[i]
  BY <1>3 DEF Queues, Admits, NewIds, Kept
<1>6. CASE i \in DOMAIN tasks'
  BY <1>5, <1>6 DEF AnswersRetry
<1>7. CASE i \notin DOMAIN tasks'
  <2>1. PICK p \in 1..Len(all) : all[p] = t
    <3>1. CASE i \in DOMAIN tasks
      <4>1. tasks[i].node = m /\ tasks[i].status = s.status /\ tasks[i].result = s.result
        BY <3>1 DEF AnswersRetry
      <4>2. tasks[i].accepted = TRUE
        BY <3>1, <4>1 DEF AckInv, RepliesAccepted
      <4>3. QED  BY <1>1, <1>7, <3>1, <4>1, <4>2 DEF AllTombstones, Tombstone
    <3>2. CASE i \notin DOMAIN tasks
      <4>1. PICK k \in 1..Len(tombstones) : tombstones[k] = t
        BY <3>2 DEF AnswersRetry
      <4>2. k \in 1..Len(all) /\ all[k] = tombstones[k]
        BY <1>1, <1>3 DEF AllTombstones, AckInv, LedgerInv
      <4>3. QED  BY <4>1, <4>2
    <3>3. QED  BY <3>1, <3>2
  <2>2. CASE p > d
    <3>1. p - d \in 1..Len(tombstones') /\ (p - d) + d = p
      BY <1>3, <1>4, <2>2
    <3>2. tombstones'[p - d] = t
      BY <1>4, <2>1, <3>1
    <3>3. QED  BY <1>7, <3>1, <3>2 DEF AnswersRetry
  <2>3. CASE p <= d
    <3>1. d > 0 /\ Len(all) > MAX_TASK_RESULT_TOMBSTONES
      BY <1>3, <1>4, <2>3
    <3>2. ASSUME NEW k \in 1..Len(tombstones), NEW j \in 1..Len(tombstones'),
                 tombstones[k] = tombstones'[j]
          PROVE  \E h \in 1..k : tombstones[h].id = i
      <4>1. j \in Nat /\ j + d \in 1..Len(all) /\ k \in 1..Len(all) /\ all[k] = all[j + d]
        <5>1. Len(tombstones) \in Nat /\ Len(tombstones) <= Len(all) /\ all[k] = tombstones[k]
          BY <1>1 DEF AckInv, LedgerInv, AllTombstones
        <5>2. QED  BY <1>3, <1>4, <3>2, <5>1
      <4>2. k = j + d
        BY <1>1, <4>1 DEF AllTombstones
      <4>3. p \in 1..k /\ p \in 1..Len(tombstones)
        BY <2>3, <4>1, <4>2 DEF AckInv, LedgerInv
      <4>4. tombstones[p].id = i
        BY <1>1, <2>1, <4>3 DEF AllTombstones
      <4>5. QED  BY <4>3, <4>4
    <3>3. Displaced(i)
      BY <1>4, <3>1, <3>2 DEF Displaced
    <3>4. QED  BY <1>3, <1>4, <3>1, <3>3
  <2>4. QED  BY <1>3, <2>2, <2>3
<1>8. QED  BY <1>6, <1>7

(* A stored answer survives every step but a reset, or is displaced. *)
LEMMA AnswersStep ==
  ASSUME AckInv, LedgerShape,
         NEW n, NEW i, NEW s, s.status \in {"completed", "failed"},
         s.result.body \in NodeReplies, AnswersRetry(n, i, s)
  PROVE  \/ IsReset \/ AnswersRetry(n, i, s)'
         \/ Displaced(i) /\ seq'.task > MAX_TASK_RESULT_TOMBSTONES + 1
<1>1. CASE reset
  BY <1>1 DEF reset, IsReset
<1>2. CASE MovesTasks
  <2>1. tombstones' = tombstones /\ DOMAIN tasks' = DOMAIN tasks
        /\ \A k \in DOMAIN tasks : Moved(tasks[k], tasks'[k])
    BY <1>2 DEF MovesTasks, Moves
  <2>2. CASE i \in DOMAIN tasks
    <3>1. /\ tasks[i].node = n /\ tasks[i].status = s.status /\ tasks[i].result = s.result
      BY <2>2 DEF AnswersRetry
    <3>2. tasks'[i] = tasks[i]
      BY <2>1, <2>2, <3>1
         DEF Moved, Waits, SettledFrom, Delivers, Answers, Live, Terminal,
             LIVE_TASK_STATUSES, TERMINAL_TASK_STATUSES
    <3>3. QED  BY <2>1, <2>2, <3>1, <3>2 DEF AnswersRetry
  <2>3. QED  BY <2>1, <2>2 DEF AnswersRetry
<1>3. ASSUME NEW m, NEW q \in 1..MAX_OPERATION_STEPS, NEW key, NEW e, Queues(m, q, key, e)
      PROVE  \/ AnswersRetry(n, i, s)'
             \/ Displaced(i) /\ seq'.task > MAX_TASK_RESULT_TOMBSTONES + 1
  <2>1. i \in 1..seq.task
    BY DEF AnswersRetry, AckInv, LedgerInv, TombsGone
  <2>2. /\ seq.task \in Nat /\ q \in Nat /\ q > 0 /\ seq'.task = seq.task + q
        /\ MAX_TASK_RESULT_TOMBSTONES \in Nat
    BY <1>3, LimitsAssumption DEF AckInv, LedgerInv, SeqOK, MAX_OPERATION_STEPS, Queues
  <2>3. AnswersRetry(n, i, s)' \/ (Displaced(i) /\ seq.task > MAX_TASK_RESULT_TOMBSTONES)
    BY <1>3, <2>1, AdmissionAnswers
  <2>4. QED  BY <2>2, <2>3
<1>4. QED  BY <1>1, <1>2, <1>3 DEF LedgerShape, QueuesTasks

(* AckInv holds always. *)
LEMMA AckInvariant == Spec => []AckInv
<1>1. Init => AckInv
  <2> SUFFICES ASSUME Init PROVE AckInv
    OBVIOUS
  <2>1. tombstones = <<>> /\ DOMAIN tasks = {}
    BY DEF Init, EmptyDict
  <2>2. QED
    BY <2>1, LedgerInit DEF AckInv, TombsGone, TombsDistinct, RepliesAccepted
<1>2. AckInv /\ [Next]_vars => AckInv'
  BY LedgerStep, StepShape, AckStep DEF AckInv, LedgerShape
<1>3. QED  BY <1>1, <1>2, PTL DEF Spec

(* The results that nodes submit are theirs, none of the words with which the
   Teamserver calls a task off. *)
NodesSpeak == \A s \in Submissions : s.result.body \in NodeReplies

(* A node whose acknowledgement was lost can retry: the same submission keeps
   being acknowledged, through pruning, until a reset or until as many results
   as there are tombstones have displaced it.  One step of queue_operation or
   start_exercise may prune up to three tasks. *)
THEOREM AckSurvivesPruningHolds == ASSUME NodesSpeak PROVE Spec => AckSurvivesPruning
<1> DEFINE A == IsReset \/
                  \A i \in DOMAIN tasks \cup TombstoneIds : \A n \in DOMAIN nodes, s \in Submissions :
                    AnswersRetry(n, i, s) =>
                      \/ AnswersRetry(n, i, s)'
                      \/ /\ Len(tombstones') = MAX_TASK_RESULT_TOMBSTONES
                         /\ \A k \in 1..Len(tombstones), m \in 1..Len(tombstones') :
                              tombstones[k] = tombstones'[m] =>
                                \E h \in 1..k : tombstones[h].id = i
<1>1. AckInv /\ [Next]_vars => [A]_vars
  <2> SUFFICES ASSUME AckInv, [Next]_vars PROVE A
    OBVIOUS
  <2>1. LedgerShape
    BY StepShape DEF AckInv, LedgerShape
  <2>2. ASSUME NEW n, NEW i, NEW s \in Submissions, AnswersRetry(n, i, s)
        PROVE  IsReset \/ AnswersRetry(n, i, s)' \/ Displaced(i)
    <3>1. s.status \in {"completed", "failed"}
      BY CallsAreTyped DEF AnySubmission
    <3>2. QED  BY <2>1, <2>2, <3>1, AnswersStep DEF NodesSpeak
  <2>3. QED  BY <2>2 DEF Displaced
<1>2. QED  BY <1>1, AckInvariant, PTL DEF Spec, AckSurvivesPruning

-----------------------------------------------------------------------------
(* LabState implements TaskLifecycle. *)

(* What the refinement mapping shows of the current ledger. *)
LEMMA LifeNow ==
  \A i \in 1..MaxTaskIds :
    /\ i \in DOMAIN tasks => TaskLife[i] = tasks[i].status /\ TaskOwner[i] = tasks[i].node
    /\ i \notin DOMAIN tasks /\ i <= seq.task => TaskLife[i] = "forgotten" /\ TaskOwner[i] = 0
    /\ i \notin DOMAIN tasks /\ ~(i <= seq.task) => TaskLife[i] = "absent" /\ TaskOwner[i] = 0
BY DEF TaskLife, TaskOwner

(* And of the next one. *)
LEMMA LifeNext ==
  \A i \in 1..MaxTaskIds :
    /\ i \in DOMAIN tasks' =>
         TaskLife'[i] = tasks'[i].status /\ TaskOwner'[i] = tasks'[i].node
    /\ i \notin DOMAIN tasks' /\ i <= seq'.task =>
         TaskLife'[i] = "forgotten" /\ TaskOwner'[i] = 0
    /\ i \notin DOMAIN tasks' /\ ~(i <= seq'.task) =>
         TaskLife'[i] = "absent" /\ TaskOwner'[i] = 0
BY DEF TaskLife, TaskOwner

(* A task delivered by a step is its node's only one in flight and its oldest
   one waiting. *)
LEMMA DeliveredInTurn ==
  ASSUME LedgerInv', NEW i \in 1..MaxTaskIds, Lifecycle!Delivered(i)
  PROVE  Lifecycle!ItsTurn(i)
<1>1. i \in DOMAIN tasks' /\ tasks'[i].status = "dispatched" /\ TaskOwner'[i] = tasks'[i].node
  BY LifeNext DEF Lifecycle!Delivered
<1>2. tasks'[i].delivery_attempts > 0
  BY <1>1 DEF LedgerInv, LedgerOK, TasksOK, OrderOK
<1>3. tasks'[i].node # 0
  <2>1. Authentic(nodes', tasks'[i].node)
    BY <1>1 DEF LedgerInv, LedgerOK, OwnedOK, Live, LIVE_TASK_STATUSES
  <2>2. QED  BY <2>1 DEF Authentic, LedgerInv
<1>4. ASSUME NEW j \in 1..MaxTaskIds, j # i, TaskOwner'[j] = TaskOwner'[i]
      PROVE  TaskLife'[j] # "dispatched" /\ (j < i => TaskLife'[j] # "queued")
  <2>1. j \in DOMAIN tasks'
    BY <1>1, <1>3, <1>4, LifeNext
  <2>2. TaskLife'[j] = tasks'[j].status /\ tasks'[j].node = tasks'[i].node
    BY <1>1, <1>4, <2>1, LifeNext
  <2>3. tasks'[j].status # "dispatched"
    BY <1>1, <1>4, <2>1, <2>2 DEF LedgerInv, LedgerOK, TasksOK, FlightOK
  <2>4. j < i => tasks'[j].status # "queued"
    BY <1>1, <1>2, <2>1, <2>2 DEF LedgerInv, LedgerOK, TasksOK, OrderOK
  <2>5. QED  BY <2>2, <2>3, <2>4
<1>5. QED  BY <1>4 DEF Lifecycle!ItsTurn, Lifecycle!Ids

(* Moving a task is one step of its life. *)
LEMMA MovedLife ==
  ASSUME LedgerInv, MovesTasks, NEW i \in 1..MaxTaskIds
  PROVE  /\ Lifecycle!Delivered(i) \/ Lifecycle!Ended(i) \/ Lifecycle!Unmoved(i)
         /\ ~Lifecycle!Admitted(i) /\ ~Lifecycle!Forgotten(i)
         /\ Lifecycle!Delivered(i) \/ Lifecycle!Answered(i) =>
              i \in DOMAIN tasks /\ Advances(tasks[i], tasks'[i])
<1>1. /\ DOMAIN tasks' = DOMAIN tasks /\ seq'.task = seq.task
      /\ tasks \in [DOMAIN tasks -> TaskType] /\ tasks' \in [DOMAIN tasks -> TaskType]
  BY DEF MovesTasks, Moves, LedgerInv, TaskDict
<1>2. CASE i \notin DOMAIN tasks
  <2>1. /\ TaskLife'[i] = TaskLife[i] /\ TaskOwner'[i] = TaskOwner[i]
        /\ TaskLife[i] \in {"absent", "forgotten"}
    BY <1>1, <1>2, LifeNow, LifeNext
  <2>2. QED
    BY <2>1 DEF Lifecycle!Unmoved, Lifecycle!Admitted, Lifecycle!Forgotten, Lifecycle!Settled,
                Lifecycle!Delivered, Lifecycle!Answered
<1>3. CASE i \in DOMAIN tasks
  <2>1. /\ TaskLife[i] = tasks[i].status /\ TaskOwner[i] = tasks[i].node
        /\ TaskLife'[i] = tasks'[i].status /\ TaskOwner'[i] = tasks'[i].node
    BY <1>1, <1>3, LifeNow, LifeNext
  <2>2. Moved(tasks[i], tasks'[i])
    BY <1>3 DEF MovesTasks, Moves
  <2>3. TaskOwner'[i] = TaskOwner[i]
    BY <2>1, <2>2 DEF Moved, Waits, SettledFrom, Delivers, Answers, SameTask
  <2>4. /\ tasks[i].status \in LIVE_TASK_STATUSES \cup TERMINAL_TASK_STATUSES
        /\ tasks'[i].status \in LIVE_TASK_STATUSES \cup TERMINAL_TASK_STATUSES
    BY <1>1, <1>3 DEF TaskType
  <2>5. ~Lifecycle!Admitted(i) /\ ~Lifecycle!Forgotten(i)
    BY <2>1, <2>4 DEF Lifecycle!Admitted, Lifecycle!Forgotten, LIVE_TASK_STATUSES,
                      TERMINAL_TASK_STATUSES
  <2>6. Lifecycle!Delivered(i) \/ Lifecycle!Answered(i) => Advances(tasks[i], tasks'[i])
    BY <2>1 DEF Lifecycle!Delivered, Lifecycle!Answered, Advances
  <2>7. Waits(tasks[i], tasks'[i]) => Lifecycle!Unmoved(i)
    BY <2>1, <2>3 DEF Waits, Lifecycle!Unmoved
  <2>8. SettledFrom(tasks[i], tasks'[i]) => Lifecycle!Ended(i)
    BY <2>1, <2>3 DEF SettledFrom, CalledOff, Lifecycle!Ended, Lifecycle!Outcomes
  <2>9. Delivers(tasks[i], tasks'[i]) => Lifecycle!Delivered(i)
    BY <2>1, <2>3 DEF Delivers, Lifecycle!Delivered
  <2>10. Answers(tasks[i], tasks'[i]) => Lifecycle!Ended(i)
    BY <2>1, <2>3 DEF Answers, Lifecycle!Ended, Lifecycle!Outcomes
  <2>11. Lifecycle!Delivered(i) \/ Lifecycle!Ended(i) \/ Lifecycle!Unmoved(i)
    BY <2>2, <2>7, <2>8, <2>9, <2>10 DEF Moved
  <2>12. QED  BY <1>3, <2>5, <2>6, <2>11
<1>4. QED  BY <1>2, <1>3

(* So a step that moves tasks is work of the life cycle. *)
LEMMA MovesWork ==
  ASSUME LedgerInv, LedgerInv', MovesTasks PROVE Lifecycle!Work
<1>1. \A i \in 1..MaxTaskIds :
        /\ Lifecycle!Delivered(i) \/ Lifecycle!Ended(i) \/ Lifecycle!Unmoved(i)
        /\ ~Lifecycle!Admitted(i) /\ ~Lifecycle!Forgotten(i)
        /\ Lifecycle!Delivered(i) \/ Lifecycle!Answered(i) =>
             i \in DOMAIN tasks /\ Advances(tasks[i], tasks'[i])
  BY MovedLife
<1>2. \A i \in 1..MaxTaskIds : Lifecycle!Delivered(i) => Lifecycle!ItsTurn(i)
  BY DeliveredInTurn
<1>3. \A i, j \in DOMAIN tasks :
        Advances(tasks[i], tasks'[i]) /\ Advances(tasks[j], tasks'[j]) => i = j
  BY DEF MovesTasks, Moves
<1>4. \A i, j \in 1..MaxTaskIds : i # j =>
        /\ ~(Lifecycle!Delivered(i) /\ Lifecycle!Delivered(j))
        /\ ~(Lifecycle!Answered(i) /\ Lifecycle!Answered(j))
  BY <1>1, <1>3
<1>5. QED  BY <1>1, <1>2, <1>4 DEF Lifecycle!Work, Lifecycle!Ids

(* An admission begins the lives of its tasks and ends those it prunes. *)
LEMMA QueuesLife ==
  ASSUME LedgerInv, LedgerInv', NEW n \in DOMAIN nodes, NEW k \in 1..MAX_OPERATION_STEPS,
         NEW key, NEW e, Queues(n, k, key, e), NEW i \in 1..MaxTaskIds
  PROVE  /\ \/ Lifecycle!Admitted(i) \/ Lifecycle!Forgotten(i) \/ Lifecycle!Unmoved(i)
         /\ i \in NewIds(k) <=> Lifecycle!Admitted(i)
         /\ ~Lifecycle!Delivered(i) /\ ~Lifecycle!Answered(i)
<1>1. PICK records :
        /\ Admits(k, records)
        /\ \A m \in 1..k : FreshTask(records[m]) /\ records[m].node = n
  BY DEF Queues
<1>2. seq.task \in Nat /\ k \in Nat /\ seq'.task = seq.task + k /\ n # 0
  BY DEF LedgerInv, SeqOK, MAX_OPERATION_STEPS, Queues
<1>3. \A j \in DOMAIN tasks : j <= seq.task
  BY <1>2 DEF LedgerInv
<1>4. CASE i \in NewIds(k)
  <2>1. i \notin DOMAIN tasks /\ ~(i <= seq.task)
    BY <1>2, <1>3, <1>4 DEF NewIds
  <2>2. i \in DOMAIN tasks' /\ tasks'[i].status = "queued" /\ tasks'[i].node = n
    BY <1>1, <1>2, <1>4 DEF Admits, NewIds, FreshTask
  <2>3. TaskLife[i] = "absent" /\ TaskLife'[i] = "queued" /\ TaskOwner'[i] = n
    BY <2>1, <2>2, LifeNow, LifeNext
  <2>4. QED
    BY <1>2, <1>4, <2>3 DEF Lifecycle!Admitted, Lifecycle!Delivered, Lifecycle!Answered
<1>5. CASE i \notin NewIds(k) /\ i \in DOMAIN tasks /\ i \in DOMAIN tasks'
  <2>1. tasks'[i] = tasks[i]
    BY <1>1, <1>5 DEF Admits, Kept
  <2>2. /\ TaskLife[i] = tasks[i].status /\ TaskOwner[i] = tasks[i].node
        /\ TaskLife'[i] = tasks[i].status /\ TaskOwner'[i] = tasks[i].node
    BY <1>5, <2>1, LifeNow, LifeNext
  <2>3. tasks[i].status \in LIVE_TASK_STATUSES \cup TERMINAL_TASK_STATUSES
    BY <1>5 DEF LedgerInv, TaskDict, TaskType
  <2>4. QED
    BY <1>5, <2>2, <2>3 DEF Lifecycle!Unmoved, Lifecycle!Admitted, Lifecycle!Delivered,
         Lifecycle!Answered, LIVE_TASK_STATUSES, TERMINAL_TASK_STATUSES
<1>6. CASE i \notin NewIds(k) /\ i \in DOMAIN tasks /\ i \notin DOMAIN tasks'
  <2>1. Terminal(tasks[i])
    BY <1>1, <1>6 DEF Admits, Prunable
  <2>2. i <= seq'.task
    BY <1>2, <1>3, <1>6
  <2>3. /\ TaskLife[i] = tasks[i].status
        /\ TaskLife'[i] = "forgotten" /\ TaskOwner'[i] = 0
    BY <1>6, <2>2, LifeNow, LifeNext
  <2>4. Lifecycle!Forgotten(i)
    BY <2>1, <2>3 DEF Terminal, TERMINAL_TASK_STATUSES, Lifecycle!Forgotten, Lifecycle!Settled
  <2>5. QED
    BY <1>6, <2>3, <2>4 DEF Lifecycle!Admitted, Lifecycle!Delivered, Lifecycle!Answered
<1>7. CASE i \notin NewIds(k) /\ i \notin DOMAIN tasks
  <2>1. i \notin DOMAIN tasks'
    BY <1>1, <1>7 DEF Admits
  <2>2. i <= seq.task <=> i <= seq'.task
    BY <1>2, <1>7 DEF NewIds
  <2>3. /\ TaskLife'[i] = TaskLife[i] /\ TaskOwner'[i] = TaskOwner[i]
        /\ TaskLife[i] \in {"absent", "forgotten"}
    BY <1>7, <2>1, <2>2, LifeNow, LifeNext
  <2>4. QED
    BY <1>7, <2>3 DEF Lifecycle!Unmoved, Lifecycle!Admitted, Lifecycle!Delivered,
                      Lifecycle!Answered
<1>8. QED  BY <1>4, <1>5, <1>6, <1>7

(* So an admission is work of the life cycle. *)
LEMMA QueuesWork ==
  ASSUME LedgerInv, LedgerInv', NEW n \in DOMAIN nodes, NEW k \in 1..MAX_OPERATION_STEPS,
         NEW key, NEW e, Queues(n, k, key, e)
  PROVE  Lifecycle!Work
<1>1. \A i \in 1..MaxTaskIds :
        /\ Lifecycle!Admitted(i) \/ Lifecycle!Forgotten(i) \/ Lifecycle!Unmoved(i)
        /\ i \in NewIds(k) <=> Lifecycle!Admitted(i)
        /\ ~Lifecycle!Delivered(i) /\ ~Lifecycle!Answered(i)
  BY QueuesLife
<1>2. /\ seq.task \in Nat /\ k \in Nat /\ k >= 1 /\ seq'.task = seq.task + k
      /\ seq.task + k <= MaxTaskIds /\ MaxTaskIds \in Nat
  BY BoundsAssumption DEF LedgerInv, SeqOK, MAX_OPERATION_STEPS, Queues, Admits
<1>3. seq.task + 1 \in NewIds(k) /\ seq.task + 1 \in 1..MaxTaskIds
  BY <1>2 DEF NewIds
<1>4. ASSUME NEW i \in 1..MaxTaskIds, NEW j \in 1..MaxTaskIds, i < j, Lifecycle!Admitted(j)
      PROVE  TaskLife'[i] # "absent"
  <2>1. j \in NewIds(k)
    BY <1>1, <1>4
  <2>2. i <= seq'.task
    BY <1>2, <1>4, <2>1 DEF NewIds
  <2>3. i \in DOMAIN tasks' =>
          tasks'[i].status \in LIVE_TASK_STATUSES \cup TERMINAL_TASK_STATUSES
    BY DEF LedgerInv, TaskDict, TaskType
  <2>4. QED
    BY <2>2, <2>3, LifeNext DEF LIVE_TASK_STATUSES, TERMINAL_TASK_STATUSES
<1>5. QED  BY <1>1, <1>3, <1>4 DEF Lifecycle!Work, Lifecycle!Ids

(* A reset is the reset of the life cycle. *)
LEMMA ResetLife ==
  ASSUME LedgerInv, reset PROVE Lifecycle!Reset
<1>1. DOMAIN tasks' = {} /\ seq' = seq
  BY DEF reset, EmptyDict
<1>2. \A i \in DOMAIN tasks :
        /\ tasks[i].status \in LIVE_TASK_STATUSES \cup TERMINAL_TASK_STATUSES
        /\ i <= seq.task
  <2>1. seq.task \in Nat /\ \A i \in DOMAIN tasks : i \in 1..seq.task
    BY DEF LedgerInv, SeqOK
  <2>2. \A i \in DOMAIN tasks : tasks[i] \in TaskType
    BY DEF LedgerInv, TaskDict
  <2>3. \A t \in TaskType : t.status \in LIVE_TASK_STATUSES \cup TERMINAL_TASK_STATUSES
    BY DEF TaskType
  <2>4. \A i \in DOMAIN tasks : i <= seq.task
    BY <2>1
  <2>5. QED  BY <2>2, <2>3, <2>4
<1>3. \A i \in 1..MaxTaskIds : TaskLife[i] = "absent" <=> ~(i <= seq.task)
  BY <1>2, LifeNow DEF LIVE_TASK_STATUSES, TERMINAL_TASK_STATUSES
<1>4. TaskOwner' = [i \in 1..MaxTaskIds |-> 0]
  BY <1>1 DEF TaskOwner
<1>5. TaskLife' = [i \in 1..MaxTaskIds |->
                     IF TaskLife[i] = "absent" THEN "absent" ELSE "forgotten"]
  BY <1>1, <1>3 DEF TaskLife
<1>6. QED  BY <1>4, <1>5 DEF Lifecycle!Reset, Lifecycle!Ids

(* Every handler, with the expiry, closing and pruning it does on the way, is
   one legal step of the task life cycle. *)
THEOREM LifecycleRefinement == Spec => ImplementsLifecycle
<1>1. Init => Lifecycle!Init
  <2> SUFFICES ASSUME Init PROVE Lifecycle!Init
    OBVIOUS
  <2>1. DOMAIN tasks = {} /\ seq.task = 0
    BY DEF Init, EmptyDict
  <2>2. \A i \in 1..MaxTaskIds : ~(i <= seq.task)
    BY <2>1, BoundsAssumption
  <2>3. QED
    BY <2>1, <2>2 DEF TaskLife, TaskOwner, Lifecycle!Init, Lifecycle!Ids
<1>2. LedgerInv /\ LedgerInv' /\ [Next]_vars =>
        [Lifecycle!Next]_<<TaskLife, TaskOwner>>
  <2> SUFFICES ASSUME LedgerInv, LedgerInv', [Next]_vars PROVE Lifecycle!Next
    OBVIOUS
  <2>1. CASE MovesTasks
    BY <2>1, MovesWork DEF Lifecycle!Next
  <2>2. CASE QueuesTasks
    BY <2>2, QueuesWork DEF QueuesTasks, Lifecycle!Next
  <2>3. CASE reset
    BY <2>3, ResetLife DEF Lifecycle!Next
  <2>4. QED  BY <2>1, <2>2, <2>3, StepShape
<1>3. QED
  BY <1>1, <1>2, LedgerInvariant, PTL DEF Spec, ImplementsLifecycle, Lifecycle!Spec
=============================================================================
