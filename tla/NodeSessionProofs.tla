------------------------- MODULE NodeSessionProofs --------------------------
(***************************************************************************)
(* Theorems about NodeSession: one node process against the Teamserver,    *)
(* for every value of the constants.  The first part says what any step of *)
(* the Teamserver may do to the records a session relies on (Steady); the  *)
(* second part is the inductive invariant, in three layers.  BaseInv is    *)
(* about types and about who owns what; OnceInv, about tasks that were     *)
(* already executed; IntervalInv, about the polling interval.  The last    *)
(* two suppose that no answer is forgotten that the process still needs;   *)
(* the third part shows when that is certain, from the tombstones of       *)
(* LabStateProofs.                                                         *)
(***************************************************************************)
EXTENDS NodeSession, LabStateProofs

-----------------------------------------------------------------------------
(* The Teamserver's side. *)

ServerInv ==
  /\ LedgerInv /\ TombsGone
  /\ seq.node <= MaxNodeIds /\ seq.task <= MaxTaskIds

(* What no handler does to a session: give it another profile or open it
   again; only an accepted result may change its interval. *)
SameSession(old, new) ==
  /\ new.profile = old.profile
  /\ new.session_active => old.session_active

NodesSteady(m) ==
  /\ seq'.node >= seq.node
  /\ \A k \in DOMAIN nodes' : k \in DOMAIN nodes \/ k > seq.node
  /\ \A k \in DOMAIN nodes \cap DOMAIN nodes' :
       /\ SameSession(nodes[k], nodes'[k])
       /\ k = m \/ nodes'[k].poll_interval = nodes[k].poll_interval

(* What no handler does to a task: ask for something else, revive it or put
   it back into the queue. *)
AsAsked(t, u) ==
  /\ SameTask(t, u)
  /\ Live(u) => Live(t)
  /\ u.status = "queued" => t.status = "queued"

(* No result was accepted for the task. *)
NotCompleted(t, u) ==
  u.status = "completed" => t.status = "completed" /\ u.result = t.result

TasksSteady(m) ==
  /\ seq'.task >= seq.task
  /\ \A i \in DOMAIN tasks' : i \in DOMAIN tasks \/ i > seq.task
  /\ \A i \in DOMAIN tasks \cap DOMAIN tasks' : AsAsked(tasks[i], tasks'[i])
  /\ \A i \in 1..seq.task, n \in Nat, s \in AnySubmission :
       s.status = "completed" /\ AnswersRetry(n, i, s)' => n = m \/ AnswersRetry(n, i, s)

(* A step of the Teamserver that accepts a result of node m, or of none. *)
Steady(m) == ServerInv' /\ NodesSteady(m) /\ TasksSteady(m)

(* What a step may do to a task, told as Moves does. *)
LEMMA MovedAsAsked ==
  ASSUME NEW t, NEW u, Moved(t, u)
  PROVE  /\ AsAsked(t, u)
         /\ ~Answers(t, u) => NotCompleted(t, u)
<1>1. CASE Waits(t, u)
  BY <1>1 DEF Waits, AsAsked, NotCompleted, Live
<1>2. CASE SettledFrom(t, u)
  BY <1>2 DEF SettledFrom, AsAsked, NotCompleted, CalledOff, Live, Terminal,
              LIVE_TASK_STATUSES, TERMINAL_TASK_STATUSES
<1>3. CASE Delivers(t, u)
  BY <1>3 DEF Delivers, AsAsked, NotCompleted, Live, LIVE_TASK_STATUSES
<1>4. CASE Answers(t, u)
  BY <1>4 DEF Answers, AsAsked, Live, LIVE_TASK_STATUSES
<1>5. QED  BY <1>1, <1>2, <1>3, <1>4 DEF Moved

(* A step that moves tasks and accepts results of node m at most. *)
LEMMA MovesSteady ==
  ASSUME ServerInv, NEW m, Moves(tasks, tasks'),
         \A i \in DOMAIN tasks : tasks[i].node = m \/ NotCompleted(tasks[i], tasks'[i]),
         tombstones' = tombstones, seq'.task = seq.task
  PROVE  TasksSteady(m) /\ TombsGone'
<1>1. DOMAIN tasks' = DOMAIN tasks /\ \A i \in DOMAIN tasks : Moved(tasks[i], tasks'[i])
  BY DEF Moves
<1>2. TombsGone'
  BY <1>1 DEF TombsGone, ServerInv
<1>3. seq.task \in Nat
  BY DEF ServerInv, LedgerInv, SeqOK
<1>4. \A i \in DOMAIN tasks : AsAsked(tasks[i], tasks'[i])
  BY <1>1, MovedAsAsked
<1>5. ASSUME NEW i \in 1..seq.task, NEW n \in Nat, NEW s \in AnySubmission,
             s.status = "completed", AnswersRetry(n, i, s)'
      PROVE  n = m \/ AnswersRetry(n, i, s)
  <2>1. CASE i \in DOMAIN tasks
    BY <1>1, <1>4, <1>5, <2>1 DEF AnswersRetry, AsAsked, SameTask, NotCompleted
  <2>2. CASE i \notin DOMAIN tasks
    BY <1>1, <1>5, <2>2 DEF AnswersRetry
  <2>3. QED  BY <2>1, <2>2
<1>6. QED  BY <1>1, <1>2, <1>3, <1>4, <1>5 DEF TasksSteady

(* Settling accepts no result. *)
LEMMA SettlingSteady ==
  ASSUME ServerInv, NEW m, Settles(tasks, tasks'), tombstones' = tombstones,
         seq'.task = seq.task
  PROVE  TasksSteady(m) /\ TombsGone'
<1>1. Moves(tasks, tasks')
  BY SettlingMoves
<1>2. \A i \in DOMAIN tasks : NotCompleted(tasks[i], tasks'[i])
  BY DEF Settles, SettledFrom, CalledOff, NotCompleted
<1>3. QED  BY <1>1, <1>2, MovesSteady

(* Where neither nodes nor their counter change. *)
LEMMA NodesStay ==
  ASSUME ServerInv, NEW m, nodes' = nodes, seq'.node = seq.node
  PROVE  NodesSteady(m)
<1>1. seq.node \in Nat
  BY DEF ServerInv, LedgerInv, SeqOK
<1>2. QED  BY <1>1 DEF NodesSteady, SameSession

(* Where neither tasks nor tombstones change. *)
LEMMA TasksStay ==
  ASSUME ServerInv, NEW m, tasks' = tasks, tombstones' = tombstones, seq'.task = seq.task
  PROVE  TasksSteady(m) /\ TombsGone'
<1>1. Moves(tasks, tasks')
  BY NothingMoves DEF ServerInv
<1>2. \A i \in DOMAIN tasks : NotCompleted(tasks[i], tasks'[i])
  BY DEF NotCompleted
<1>3. QED  BY <1>1, <1>2, MovesSteady

-----------------------------------------------------------------------------
(* What the handlers do to the record of a node. *)

SteadyNode(old, new) == SameSession(old, new) /\ new.poll_interval = old.poll_interval

(* The clock, a heartbeat and a closing session keep profile and interval. *)
LEMMA OlderNodeSteady ==
  ASSUME NEW node \in NodeType PROVE SteadyNode(node, OlderNode(node))
<1>1. PICK a \in Nat : a = IF node.age < AgeCap THEN node.age + 1 ELSE node.age
  BY DEF NodeType
<1>2. OlderNode(node) = [node EXCEPT !.age = a]
  BY <1>1 DEF OlderNode
<1>3. /\ [node EXCEPT !.age = a].profile = node.profile
      /\ [node EXCEPT !.age = a].poll_interval = node.poll_interval
  BY DEF NodeType
<1>4. QED  BY <1>2, <1>3, OlderNodeType DEF SteadyNode, SameSession

(* A poll touches the age and the status of the node only. *)
LEMMA PolledNodeSteady ==
  ASSUME NEW node \in NodeType, NEW lag \in Lags PROVE SteadyNode(node, PolledNode(node, lag))
<1>1. PICK a \in Nat : a = lag
  BY TimeAssumption DEF Lags
<1> DEFINE m == [node EXCEPT !.status = "online", !.age = a]
<1>2. PolledNode(node, lag) = m
  BY <1>1 DEF PolledNode
<1>3. m.profile = node.profile /\ m.poll_interval = node.poll_interval
  BY DEF NodeType
<1>4. QED  BY <1>2, <1>3, PolledNodeType DEF SteadyNode, SameSession

(* Closing a session keeps what was asked of it. *)
LEMMA ClosedNodeSteady ==
  ASSUME NEW node \in NodeType, NEW k \in Nat PROVE SteadyNode(node, CloseSession(node, k))
<1>1. PICK f \in Nat : f = node.tasks_failed + k
  BY DEF NodeType
<1> DEFINE m == [node EXCEPT !.status = "offline", !.session_active = FALSE, !.tasks_failed = f]
<1>2. CloseSession(node, k) = m
  BY <1>1 DEF CloseSession
<1>3. m.profile = node.profile /\ m.poll_interval = node.poll_interval
  BY DEF NodeType
<1>4. QED  BY <1>2, <1>3, CloseSessionType DEF SteadyNode, SameSession

(* _expire_locked on one node record. *)
LEMMA ExpireNodeSteady ==
  ASSUME NEW node \in NodeType, NEW lag \in Lags, NEW k \in Nat, NEW j \in Nat
  PROVE  SteadyNode(node, ExpireNode(node, lag, k, j))
<1>1. CASE SessionExpires(node, lag)
  BY <1>1, ClosedNodeSteady DEF ExpireNode
<1>2. CASE ~SessionExpires(node, lag)
  <2>1. PICK s \in {"online", "offline"} :
          s = IF GoesStale(node, lag) THEN "offline" ELSE node.status
    BY DEF NodeType
  <2>2. PICK f \in Nat : f = node.tasks_failed + k
    BY DEF NodeType
  <2> DEFINE m == [node EXCEPT !.status = s, !.tasks_failed = f]
  <2>3. ExpireNode(node, lag, k, j) = m
    BY <1>2, <2>1, <2>2 DEF ExpireNode
  <2>4. m.profile = node.profile /\ m.poll_interval = node.poll_interval
    BY DEF NodeType
  <2>5. QED  BY <1>2, <2>3, <2>4, ExpireNodeType DEF SteadyNode, SameSession
<1>3. QED  BY <1>1, <1>2

(* submit_result keeps the profile and the session; it sets the interval of
   the node that completes SLEEP. *)
LEMMA CreditedNodeFields ==
  ASSUME NEW node \in NodeType, NEW t \in TaskType, NEW s \in AnySubmission,
         NEW lag \in Lags, t.type = "SLEEP" => t.interval \in PollIntervals
  PROVE  /\ SameSession(node, CreditedNode(node, t, s, lag))
         /\ CreditedNode(node, t, s, lag).poll_interval =
              IF t.type = "SLEEP" /\ s.status = "completed" THEN t.interval
                                                            ELSE node.poll_interval
<1>1. PICK a \in Nat : a = lag
  BY TimeAssumption DEF Lags
<1>2. PICK c \in Nat : c = IF s.status = "completed" THEN node.tasks_completed + 1
                                                    ELSE node.tasks_completed
  BY DEF NodeType
<1>3. PICK f \in Nat : f = IF s.status = "completed" THEN node.tasks_failed
                                                    ELSE node.tasks_failed + 1
  BY DEF NodeType
<1>4. PICK p \in PollIntervals :
        p = IF t.type = "SLEEP" /\ s.status = "completed" THEN t.interval
                                                           ELSE node.poll_interval
  BY DEF NodeType
<1> DEFINE m == [node EXCEPT !.age = a, !.tasks_completed = c, !.tasks_failed = f,
                             !.poll_interval = p]
<1>5. CreditedNode(node, t, s, lag) = m
  BY <1>1, <1>2, <1>3, <1>4 DEF CreditedNode
<1>6. m.profile = node.profile /\ m.poll_interval = p
  BY DEF NodeType
<1>7. QED  BY <1>4, <1>5, <1>6, CreditedNodeType DEF SameSession

(* _expire_locked on all of them. *)
LEMMA ExpiredNodesSteady ==
  ASSUME LedgerInv, NEW lag \in Lags, NEW n \in DOMAIN nodes
  PROVE  SteadyNode(nodes[n], ExpiredNodes(nodes, tasks, lag)[n])
<1>1. nodes[n] \in NodeType /\ TaskDict(tasks)
  BY DEF LedgerInv, NodeDict
<1>2. DOMAIN ExpireTasks(tasks, lag) = DOMAIN tasks
  BY DEF ExpireTasks
<1>3. /\ Cardinality(TimeoutsOf(tasks, n, lag)) \in Nat
      /\ Cardinality(UnfinishedOf(ExpireTasks(tasks, lag), n)) \in Nat
  <2>1. TimeoutsOf(tasks, n, lag) \in SUBSET DOMAIN tasks
    BY DEF TimeoutsOf
  <2>2. UnfinishedOf(ExpireTasks(tasks, lag), n) \in SUBSET DOMAIN tasks
    BY <1>2 DEF UnfinishedOf
  <2>3. IsFiniteSet(DOMAIN tasks)
    BY <1>1 DEF TaskDict
  <2>4. QED  BY <2>1, <2>2, <2>3, FS_Subset, FS_CardinalityType
<1>4. QED  BY <1>1, <1>3, ExpireNodeSteady DEF ExpiredNodes

(* Where the nodes stay and their records are steady but for one. *)
LEMMA SteadyNodes ==
  ASSUME ServerInv, NEW m, DOMAIN nodes' = DOMAIN nodes, seq'.node = seq.node,
         \A k \in DOMAIN nodes : /\ SameSession(nodes[k], nodes'[k])
                                 /\ k = m \/ nodes'[k].poll_interval = nodes[k].poll_interval
  PROVE  NodesSteady(m)
<1>1. seq.node \in Nat
  BY DEF ServerInv, LedgerInv, SeqOK
<1>2. QED  BY <1>1 DEF NodesSteady

-----------------------------------------------------------------------------
(* The handlers one by one: each is a Steady step. *)

(* Steady(0) says that no result is accepted, there being no node 0. *)
LEMMA ExpiryIsSteady ==
  ASSUME ServerInv, NEW lag \in Lags,
         nodes' = ExpiredNodes(nodes, tasks, lag), tasks' = ExpiredTasks(nodes, tasks, lag),
         tombstones' = tombstones, seq' = seq
  PROVE  Steady(0) /\ Settles(tasks, tasks')
<1>1. LedgerInv
  BY DEF ServerInv
<1>2. /\ NodeDict(nodes') /\ DOMAIN nodes' = DOMAIN nodes
      /\ TaskDict(tasks') /\ DOMAIN tasks' = DOMAIN tasks
      /\ TasksOK(tasks') /\ OwnedOK(nodes', tasks')
  BY <1>1, ExpiredLedger
<1>3. LedgerInv'
  BY <1>1, <1>2 DEF LedgerInv, LedgerOK, SeqOK
<1>4. Settles(tasks, tasks')
  BY <1>1, ExpiredSettles
<1>5. TasksSteady(0) /\ TombsGone'
  BY <1>4, SettlingSteady
<1>6. \A k \in DOMAIN nodes : SteadyNode(nodes[k], nodes'[k])
  BY <1>1, ExpiredNodesSteady
<1>7. NodesSteady(0)
  BY <1>2, <1>6, SteadyNodes DEF SteadyNode
<1>8. QED  BY <1>3, <1>4, <1>5, <1>7 DEF Steady, ServerInv

(* The clock is steady: it makes records older. *)
LEMMA TickIsSteady ==
  ASSUME ServerInv, Tick PROVE Steady(0)
<1>1. LedgerInv
  BY DEF ServerInv
<1>2. /\ seq' = seq /\ tombstones' = tombstones /\ DOMAIN nodes' = DOMAIN nodes
      /\ \A k \in DOMAIN nodes : nodes'[k] = OlderNode(nodes[k])
  BY DEF Tick
<1>3. \A k \in DOMAIN nodes : SteadyNode(nodes[k], nodes'[k])
  BY <1>1, <1>2, OlderNodeSteady DEF LedgerInv, NodeDict
<1>4. NodesSteady(0)
  BY <1>2, <1>3, SteadyNodes DEF SteadyNode
<1>5. Moves(tasks, tasks') /\ \A i \in DOMAIN tasks : Waits(tasks[i], tasks'[i])
  BY <1>1, TickMoves
<1>6. \A i \in DOMAIN tasks : NotCompleted(tasks[i], tasks'[i])
  BY <1>5 DEF Waits, NotCompleted
<1>7. TasksSteady(0) /\ TombsGone'
  BY <1>2, <1>5, <1>6, MovesSteady
<1>8. QED  BY <1>1, <1>2, <1>4, <1>7, TickLedger DEF Steady, ServerInv

(* disconnect_node is steady: it settles the work of a session and closes it. *)
LEMMA DisconnectIsSteady ==
  ASSUME ServerInv, NEW n, disconnect_node(n) PROVE Steady(0)
<1>1. LedgerInv /\ NodeDict(nodes) /\ TaskDict(tasks)
  BY DEF ServerInv, LedgerInv
<1>2. n \in DOMAIN nodes
  BY DEF disconnect_node, Authentic
<1> DEFINE k == Cardinality(UnfinishedOf(tasks, n))
           c == CloseSession(nodes[n], k)
<1>3. /\ seq' = seq /\ tombstones' = tombstones /\ nodes' = [nodes EXCEPT ![n] = c]
  BY DEF disconnect_node
<1>4. k \in Nat
  <2>1. UnfinishedOf(tasks, n) \in SUBSET DOMAIN tasks
    BY DEF UnfinishedOf
  <2>2. QED  BY <1>1, <2>1, FS_Subset, FS_CardinalityType DEF TaskDict
<1>5. SteadyNode(nodes[n], c)
  BY <1>1, <1>2, <1>4, ClosedNodeSteady DEF NodeDict
<1> HIDE DEF c
<1>6. /\ DOMAIN nodes' = DOMAIN nodes
      /\ \A j \in DOMAIN nodes : nodes'[j] = IF j = n THEN c ELSE nodes[j]
  BY <1>1, <1>2, <1>3 DEF NodeDict
<1>7. \A j \in DOMAIN nodes : SteadyNode(nodes[j], nodes'[j])
  BY <1>5, <1>6 DEF SteadyNode, SameSession
<1>8. NodesSteady(0)
  BY <1>3, <1>6, <1>7, SteadyNodes DEF SteadyNode
<1>9. TasksSteady(0) /\ TombsGone'
  BY <1>1, <1>3, DisconnectSettles, SettlingSteady
<1>10. QED  BY <1>1, <1>2, <1>3, <1>8, <1>9, DisconnectLedger DEF Steady, ServerInv

(* cancel_task is steady: it settles one task. *)
LEMMA CancelIsSteady ==
  ASSUME ServerInv, NEW i \in DOMAIN tasks, cancel_task(i) PROVE Steady(0)
<1>1. LedgerInv /\ LedgerInv' /\ Settles(tasks, tasks')
  BY CancelLedger, CancelSettles DEF ServerInv
<1>2. nodes' = nodes /\ seq' = seq /\ tombstones' = tombstones
  BY DEF cancel_task
<1>3. TasksSteady(0) /\ TombsGone'
  BY <1>1, <1>2, SettlingSteady
<1>4. QED  BY <1>1, <1>2, <1>3, NodesStay DEF Steady, ServerInv

(* reset is steady: it leaves no record, and gives no id out again. *)
LEMMA ResetIsSteady ==
  ASSUME ServerInv, reset PROVE Steady(0)
<1>1. nodes' = EmptyDict /\ tasks' = EmptyDict /\ tombstones' = <<>> /\ seq' = seq
  BY DEF reset
<1>2. DOMAIN nodes' = {} /\ DOMAIN tasks' = {} /\ Len(tombstones') = 0
  BY <1>1 DEF EmptyDict
<1>3. seq.node \in Nat /\ seq.task \in Nat
  BY DEF ServerInv, LedgerInv, SeqOK
<1>4. NodesSteady(0)
  BY <1>1, <1>2, <1>3 DEF NodesSteady
<1>5. \A n, i, s : ~AnswersRetry(n, i, s)'
  BY <1>2 DEF AnswersRetry
<1>6. TasksSteady(0)
  BY <1>1, <1>2, <1>3, <1>5 DEF TasksSteady
<1>7. TombsGone'
  BY <1>2 DEF TombsGone
<1>8. QED  BY <1>1, <1>4, <1>6, <1>7, ResetLedger DEF Steady, ServerInv

(* A handler that refuses is steady. *)
LEMMA StayIsSteady ==
  ASSUME ServerInv, UNCHANGED vars PROVE Steady(0)
<1>1. nodes' = nodes /\ tasks' = tasks /\ tombstones' = tombstones /\ seq' = seq
  BY DEF vars
<1>2. LedgerInv'
  BY <1>1 DEF ServerInv, LedgerInv, SeqOK
<1>3. TasksSteady(0) /\ TombsGone' /\ NodesSteady(0)
  BY <1>1, TasksStay, NodesStay
<1>4. QED  BY <1>1, <1>2, <1>3 DEF Steady, ServerInv

(* Two steady changes of a node in one handler are one. *)
LEMMA SteadyTwice ==
  ASSUME NEW a, NEW b, NEW c, SteadyNode(a, b), SteadyNode(b, c)
  PROVE  SteadyNode(a, c)
BY DEF SteadyNode, SameSession

(* poll_node is steady: it settles what is overdue and delivers one task. *)
LEMMA PollIsSteady ==
  ASSUME ServerInv, NEW n, NEW lag \in Lags, poll_node(n, lag)
  PROVE  Steady(0)
<1> DEFINE N == ExpiredNodes(nodes, tasks, lag)
           T == ExpiredTasks(nodes, tasks, lag)
           m == PolledNode(N[n], lag)
<1>1. LedgerInv
  BY DEF ServerInv
<1>2. /\ NodeDict(N) /\ DOMAIN N = DOMAIN nodes /\ TaskDict(T)
      /\ DOMAIN T = DOMAIN tasks /\ TasksOK(T) /\ Settles(tasks, T)
  BY <1>1, ExpiredLedger, ExpiredSettles
<1>3. /\ seq' = seq /\ tombstones' = tombstones /\ nodes' = [N EXCEPT ![n] = m]
      /\ tasks' = DeliveredTasks(T, n, N[n].tasking_paused, lag)
      /\ n \in DOMAIN N
  BY DEF poll_node, Authentic
<1>4. SteadyNode(N[n], m)
  BY <1>2, <1>3, PolledNodeSteady DEF NodeDict
<1>5. \A k \in DOMAIN nodes : SteadyNode(nodes[k], N[k])
  BY <1>1, ExpiredNodesSteady
<1> HIDE DEF N, T, m
<1>6. /\ DOMAIN nodes' = DOMAIN nodes
      /\ \A k \in DOMAIN nodes : nodes'[k] = IF k = n THEN m ELSE N[k]
  BY <1>2, <1>3 DEF NodeDict
<1>7. \A k \in DOMAIN nodes : SteadyNode(nodes[k], nodes'[k])
  BY <1>3, <1>2, <1>4, <1>5, <1>6, SteadyTwice
<1>8. NodesSteady(0)
  BY <1>3, <1>6, <1>7, SteadyNodes DEF SteadyNode
<1>9. Moves(tasks, tasks') /\ LedgerInv'
  BY <1>1, <1>2, <1>3, PollMoves, PollLedger
<1>10. ASSUME NEW i \in DOMAIN tasks PROVE NotCompleted(tasks[i], tasks'[i])
  <2>1. tasks'[i] = T[i] \/ Delivery(T, n, i, tasks'[i])
    BY <1>2, <1>3, DeliveredFate
  <2>2. QED
    BY <1>2, <2>1 DEF Settles, SettledFrom, CalledOff, Delivery, NotCompleted
<1>11. TasksSteady(0) /\ TombsGone'
  BY <1>3, <1>9, <1>10, MovesSteady
<1>12. QED  BY <1>3, <1>8, <1>9, <1>11 DEF Steady, ServerInv

(* The body of POST /node/poll: the task the node has in flight after it. *)
LEMMA TaskForGives ==
  ASSUME ServerInv', NEW n, TaskFor(n) # NoTask
  PROVE  LET t == TaskFor(n)
         IN /\ t.id \in 1..seq'.task /\ t.id \in DOMAIN tasks'
            /\ t = [id |-> t.id, type |-> tasks'[t.id].type,
                    interval |-> tasks'[t.id].interval]
            /\ tasks'[t.id].node = n /\ tasks'[t.id].status = "dispatched"
<1> DEFINE i == Least(DispatchedOf(tasks', n))
<1>1. /\ DispatchedOf(tasks', n) # {}
      /\ TaskFor(n) = [id |-> i, type |-> tasks'[i].type, interval |-> tasks'[i].interval]
  BY DEF TaskFor
<1>2. DispatchedOf(tasks', n) \in SUBSET Nat
  BY DEF DispatchedOf, ServerInv, LedgerInv, TaskDict
<1>3. i \in DispatchedOf(tasks', n)
  BY <1>1, <1>2, LeastInSet
<1> HIDE DEF i
<1>4. /\ i \in DOMAIN tasks' /\ tasks'[i].node = n /\ tasks'[i].status = "dispatched"
      /\ i \in 1..seq'.task
  BY <1>3 DEF DispatchedOf, ServerInv, LedgerInv
<1>5. TaskFor(n).id = i
  BY <1>1
<1>6. QED  BY <1>1, <1>4, <1>5

(* What submit_result does when it accepts. *)
Accepts(n, i, s) ==
  /\ n \in DOMAIN nodes /\ i \in DOMAIN tasks /\ i \in DOMAIN tasks'
  /\ tasks[i].node = n /\ tasks[i].status = "dispatched"
  /\ tasks'[i].node = n /\ tasks'[i].status = s.status /\ tasks'[i].result = s.result
  /\ n \in DOMAIN nodes' =>
       nodes'[n].poll_interval =
         IF tasks[i].type = "SLEEP" /\ s.status = "completed" THEN tasks[i].interval
         ELSE nodes[n].poll_interval

(* submit_result is steady, and accepts a result of the node that calls it. *)
LEMMA SubmitIsSteady ==
  ASSUME ServerInv, NEW n, NEW a, NEW s \in AnySubmission, NEW lag \in Lags,
         submit_result(n, a, s, lag)
  PROVE  Steady(n) /\ Accepts(n, a, s)
<1> DEFINE N == ExpiredNodes(nodes, tasks, lag)
           T == ExpiredTasks(nodes, tasks, lag)
           m == CreditedNode(N[n], T[a], s, lag)
<1>1. LedgerInv
  BY DEF ServerInv
<1>2. /\ NodeDict(N) /\ DOMAIN N = DOMAIN nodes /\ TaskDict(T)
      /\ DOMAIN T = DOMAIN tasks /\ TasksOK(T) /\ Settles(tasks, T)
  BY <1>1, ExpiredLedger, ExpiredSettles
<1>3. /\ seq' = seq /\ tombstones' = tombstones /\ nodes' = [N EXCEPT ![n] = m]
      /\ n \in DOMAIN N /\ a \in DOMAIN T /\ T[a].status = "dispatched"
  BY DEF submit_result, Authentic, AcceptsResult
<1>4. \A k \in DOMAIN nodes : SteadyNode(nodes[k], N[k])
  BY <1>1, ExpiredNodesSteady
<1> HIDE DEF N, T
<1>5. T[a] = tasks[a]
  BY <1>2, <1>3 DEF Settles, SettledFrom, Terminal, TERMINAL_TASK_STATUSES
<1>6. N[n] \in NodeType /\ T[a] \in TaskType /\ (T[a].type = "SLEEP" => T[a].interval \in PollIntervals)
  BY <1>2, <1>3 DEF NodeDict, TaskDict, TasksOK, SleepOK
<1>7. /\ SameSession(N[n], m)
      /\ m.poll_interval = IF T[a].type = "SLEEP" /\ s.status = "completed"
                           THEN T[a].interval ELSE N[n].poll_interval
  BY <1>6, CreditedNodeFields
<1> HIDE DEF m
<1>8. /\ DOMAIN nodes' = DOMAIN nodes
      /\ \A k \in DOMAIN nodes : nodes'[k] = IF k = n THEN m ELSE N[k]
  BY <1>2, <1>3 DEF NodeDict
<1>9. /\ SameSession(nodes[n], nodes'[n])
      /\ \A k \in DOMAIN nodes : k # n => SteadyNode(nodes[k], nodes'[k])
  BY <1>2, <1>3, <1>4, <1>7, <1>8 DEF SteadyNode, SameSession
<1>10. NodesSteady(n)
  BY <1>3, <1>8, <1>9, SteadyNodes DEF SteadyNode
<1>11. /\ Moves(tasks, tasks') /\ LedgerInv'
       /\ Answers(tasks[a], tasks'[a]) /\ tasks[a].node = n
       /\ tasks'[a].status = s.status /\ tasks'[a].result = s.result
       /\ \A i \in DOMAIN tasks : i # a => tasks'[i] = T[i]
  BY <1>1, <1>2, <1>3, SubmitMoves, SubmitLedger DEF T
<1>12. \A i \in DOMAIN tasks : tasks[i].node = n \/ NotCompleted(tasks[i], tasks'[i])
  BY <1>2, <1>11 DEF Settles, SettledFrom, CalledOff, NotCompleted
<1>13. TasksSteady(n) /\ TombsGone'
  BY <1>3, <1>11, <1>12, MovesSteady
<1>14. Accepts(n, a, s)
  <2>1. nodes'[n].poll_interval = IF tasks[a].type = "SLEEP" /\ s.status = "completed"
                                  THEN tasks[a].interval ELSE nodes[n].poll_interval
    BY <1>2, <1>3, <1>4, <1>5, <1>7, <1>8 DEF SteadyNode
  <2>2. a \in DOMAIN tasks' /\ tasks'[a].node = n
    BY <1>2, <1>3, <1>11 DEF Moves, Answers, SameTask
  <2>3. QED  BY <1>2, <1>3, <1>5, <1>11, <2>1, <2>2 DEF Accepts
<1>15. QED  BY <1>3, <1>10, <1>11, <1>13, <1>14 DEF Steady, ServerInv

(* enroll_node adds one session under an id never used before. *)
LEMMA EnrollIsSteady ==
  ASSUME ServerInv, NEW e \in AnyEnrolment, NEW lag \in Lags, enroll_node(e, lag)
  PROVE  /\ Steady(0) /\ tasks' = tasks
         /\ seq'.node = seq.node + 1
         /\ nodes'[seq.node + 1].profile = e.profile
         /\ nodes'[seq.node + 1].poll_interval = e.poll_interval
<1> DEFINE n == seq.node + 1
           R == NodesWithRoom(nodes)
           new == NewNode(e.profile, e.poll_interval, lag)
<1>1. /\ nodes' = Put(R, n, new) /\ seq' = [seq EXCEPT !.node = n]
      /\ tasks' = tasks /\ tombstones' = tombstones /\ n <= MaxNodeIds
  BY DEF enroll_node
<1>2. LedgerInv /\ LedgerInv'
  BY EnrollLedger DEF ServerInv
<1>3. seq.node \in Nat /\ n \in Nat /\ n \notin DOMAIN nodes
  BY <1>2 DEF LedgerInv, SeqOK
<1>4. seq'.node = n /\ seq'.task = seq.task
  BY <1>1, <1>2 DEF LedgerInv, SeqOK
<1>5. new.profile = e.profile /\ new.poll_interval = e.poll_interval
  BY DEF NewNode
<1> HIDE DEF new
<1>6. DOMAIN R \subseteq DOMAIN nodes /\ \A k \in DOMAIN R : R[k] = nodes[k]
  BY DEF NodesWithRoom, Drop
<1> HIDE DEF R
<1>7. /\ DOMAIN nodes' = DOMAIN R \cup {n} /\ nodes'[n] = new
      /\ \A k \in DOMAIN R : k # n => nodes'[k] = R[k]
  BY <1>1 DEF Put
<1>8. \A k \in DOMAIN nodes \cap DOMAIN nodes' : nodes'[k] = nodes[k]
  BY <1>3, <1>6, <1>7
<1>9. NodesSteady(0)
  BY <1>3, <1>4, <1>6, <1>7, <1>8 DEF NodesSteady, SameSession
<1>10. TasksSteady(0) /\ TombsGone'
  BY <1>1, <1>4, TasksStay
<1>11. QED  BY <1>1, <1>2, <1>4, <1>5, <1>7, <1>9, <1>10 DEF Steady, ServerInv

(* queue_task, pruning included: a pruned result goes to the tombstones or is
   forgotten, and no result appears that was not accepted. *)
LEMMA QueueIsSteady ==
  ASSUME ServerInv, NEW n \in DOMAIN nodes, NEW r \in TaskRequests, NEW lag \in Lags,
         queue_task(n, r, lag)
  PROVE  Steady(0)
<1>1. LedgerInv /\ LedgerInv' /\ Kept(tasks, tasks') /\ Queues(n, 1, r.key, 0)
  BY QueueTaskLedger DEF ServerInv
<1>2. PICK records : Admits(1, records)
  BY <1>1 DEF Queues
<1>3. /\ seq'.task = seq.task + 1 /\ seq'.node = seq.node /\ nodes' = nodes
      /\ seq.task \in Nat /\ seq.node \in Nat
  BY <1>1 DEF queue_task, LedgerInv, SeqOK
<1>4a. PICK U : /\ DOMAIN U = DOMAIN tasks \cap DOMAIN tasks'
                /\ Retires(tasks, tombstones, U, tombstones')
  BY <1>2 DEF Admits
<1>4. PICK all \in Seq(TombstoneType), d \in Nat :
        Listed(tasks, tombstones, U, all) /\ Window(all, d, tombstones')
  BY <1>4a DEF Retires
<1>5. /\ tombstones \in Seq(TombstoneType) /\ tombstones' \in Seq(TombstoneType)
      /\ Len(tombstones) \in Nat /\ Len(tombstones') \in Nat /\ Len(all) \in Nat
  BY <1>1 DEF LedgerInv
<1>6. DOMAIN tasks \subseteq 1..seq.task
  BY <1>1 DEF LedgerInv
<1>7. \A i \in DOMAIN tasks' : i \in DOMAIN tasks \/ i = seq.task + 1
  BY <1>2, <1>3 DEF Admits, NewIds
<1>8. ASSUME NEW k \in 1..Len(tombstones')
      PROVE  \/ \E j \in 1..Len(tombstones) : tombstones'[k] = tombstones[j]
             \/ \E i \in DOMAIN tasks \ DOMAIN tasks' : tombstones'[k] = Tombstone(i, tasks[i])
  <2>1. k + d \in 1..Len(all) /\ tombstones'[k] = all[k + d]
    BY <1>4, <1>5 DEF Window
  <2>2. CASE k + d <= Len(tombstones)
    <3>1. k + d \in 1..Len(tombstones)
      BY <1>5, <2>1, <2>2
    <3>2. all[k + d] = tombstones[k + d]
      BY <1>4, <3>1 DEF Listed
    <3>3. QED  BY <2>1, <3>1, <3>2
  <2>3. CASE ~(k + d <= Len(tombstones))
    <3>1. k + d \in (Len(tombstones) + 1)..Len(all)
      BY <1>5, <2>1, <2>3
    <3>2. /\ all[k + d].id \in DOMAIN tasks \ DOMAIN U
          /\ all[k + d] = Tombstone(all[k + d].id, tasks[all[k + d].id])
      BY <1>4, <3>1 DEF Listed
    <3>3. QED  BY <1>4a, <2>1, <3>2
  <2>4. QED  BY <2>2, <2>3
<1>9. TombsGone'
  <2> SUFFICES ASSUME NEW k \in 1..Len(tombstones')
               PROVE  /\ tombstones'[k].id \in 1..seq'.task
                      /\ tombstones'[k].id \notin DOMAIN tasks'
    BY DEF TombsGone
  <2>1. CASE \E j \in 1..Len(tombstones) : tombstones'[k] = tombstones[j]
    <3>1. tombstones'[k].id \in 1..seq.task /\ tombstones'[k].id \notin DOMAIN tasks
      BY <2>1 DEF TombsGone, ServerInv
    <3>2. QED  BY <1>3, <1>7, <3>1
  <2>2. CASE \E i \in DOMAIN tasks \ DOMAIN tasks' : tombstones'[k] = Tombstone(i, tasks[i])
    <3>1. tombstones'[k].id \in DOMAIN tasks \ DOMAIN tasks'
      BY <2>2 DEF Tombstone
    <3>2. QED  BY <1>3, <1>6, <3>1
  <2>3. QED  BY <1>8, <2>1, <2>2
<1>10. ASSUME NEW i \in 1..seq.task, NEW m \in Nat, NEW s, AnswersRetry(m, i, s)'
       PROVE  AnswersRetry(m, i, s)
  <2>1. CASE i \in DOMAIN tasks'
    <3>1. i \in DOMAIN tasks /\ tasks'[i] = tasks[i]
      BY <1>1, <1>3, <1>7, <2>1 DEF Kept
    <3>2. QED  BY <1>10, <2>1, <3>1 DEF AnswersRetry
  <2>2. CASE i \notin DOMAIN tasks'
    <3>1. PICK k \in 1..Len(tombstones') :
            tombstones'[k] = [id |-> i, node |-> m, status |-> s.status, result |-> s.result]
      BY <1>10, <2>2 DEF AnswersRetry
    <3>2. CASE \E j \in 1..Len(tombstones) : tombstones'[k] = tombstones[j]
      <4>1. PICK j \in 1..Len(tombstones) : tombstones'[k] = tombstones[j]
        BY <3>2
      <4>2. i \notin DOMAIN tasks
        BY <3>1, <4>1 DEF TombsGone, ServerInv
      <4>3. QED  BY <3>1, <4>1, <4>2 DEF AnswersRetry
    <3>3. CASE \E j \in DOMAIN tasks \ DOMAIN tasks' : tombstones'[k] = Tombstone(j, tasks[j])
      <4>1. PICK j \in DOMAIN tasks : tombstones'[k] = Tombstone(j, tasks[j])
        BY <3>3
      <4>2. /\ j = i /\ tasks[i].node = m
            /\ tasks[i].status = s.status /\ tasks[i].result = s.result
        BY <3>1, <4>1 DEF Tombstone
      <4>3. QED  BY <4>2 DEF AnswersRetry
    <3>4. QED  BY <1>8, <3>2, <3>3
  <2>3. QED  BY <2>1, <2>2
<1>11. TasksSteady(0)
  <2>1. \A i \in DOMAIN tasks \cap DOMAIN tasks' : AsAsked(tasks[i], tasks'[i])
    BY <1>1 DEF Kept, AsAsked, SameTask
  <2>2. \A i \in DOMAIN tasks' : i \in DOMAIN tasks \/ i > seq.task
    BY <1>3, <1>7
  <2>3. QED  BY <1>3, <1>10, <2>1, <2>2 DEF TasksSteady
<1>12. seq'.task <= MaxTaskIds
  BY <1>2, <1>3 DEF Admits
<1>13. QED  BY <1>1, <1>3, <1>9, <1>11, <1>12, NodesStay DEF Steady, ServerInv

-----------------------------------------------------------------------------
(* The inductive invariant, first layer: types and ownership. *)

Held == proc.pending # NoPending

Executed(i) == executions[i] > 0

PendingType ==
  [task : Nat, type : TASK_TYPES, new_interval : PollIntervals \cup {0},
   status : {"completed", "failed"}, result : Results]

(* What run_node keeps after an execution: SLEEP cannot fail, and the body of
   the result goes with its status. *)
IsResult(p) ==
  /\ p \in PendingType /\ p.task \in 1..seq.task
  /\ p.type = "SLEEP" => p.new_interval \in PollIntervals /\ p.status = "completed"
  /\ p.result.body = IF p.status = "completed" THEN "reply" ELSE "HANDLER_FAILED"

ProcType ==
  [running : BOOLEAN, stop : BOOLEAN, node : Nat, interval : PollIntervals,
   pending : PendingType \cup {NoPending}]

(* The two task types whose result reports the polling interval. *)
Reports == {"SLEEP", "RUNTIME_STATUS"}

ProcOK ==
  /\ proc \in ProcType /\ proc.node <= seq.node
  /\ Held => /\ IsResult(proc.pending) /\ proc.node # 0 /\ Executed(proc.pending.task)
             /\ proc.pending.type \in Reports => proc.pending.result.interval = proc.interval

(* What a request carries that the client has given up. *)
RequestOK(r) ==
  /\ r.node \in 0..seq.node /\ r.interval \in PollIntervals
  /\ r.kind = "submit" => IsResult(r.pending) /\ Executed(r.pending.task)

LateOK == \A r \in late : RequestOK(r)

(* Only a task that was given out is executed, and none waits again after. *)
ExecutedOK ==
  /\ executions \in [1..MaxTaskIds -> 0..2]
  /\ \A i \in 1..MaxTaskIds : Executed(i) =>
       i <= seq.task /\ (i \in DOMAIN tasks => tasks[i].status # "queued")

OwnSession == proc.node \in DOMAIN nodes => nodes[proc.node].profile = Profile

HeldOK ==
  Held /\ proc.pending.task \in DOMAIN tasks =>
    /\ tasks[proc.pending.task].node = proc.node
    /\ tasks[proc.pending.task].type = proc.pending.type
    /\ tasks[proc.pending.task].interval = proc.pending.new_interval

(* The part of the layer that no answer is about. *)
RecordsOK ==
  /\ ServerInv /\ ProcOK /\ LateOK /\ ExecutedOK /\ OwnSession /\ HeldOK

(* The exchange is the one that run_node makes in its present state. *)
CallShape == InCall => call = [request |-> NextRequest, answer |-> call.answer]

Answered(kind, status) ==
  InCall /\ call.request.kind = kind /\ call.answer.status = status

(* A token nobody has used yet: no late request carries it. *)
EnrolOK ==
  Answered("enroll", 200) =>
    LET n == call.answer.node
    IN /\ n \in 1..seq.node
       /\ n \in DOMAIN nodes => /\ nodes[n].profile = Profile
                                /\ nodes[n].poll_interval = proc.interval
       /\ \A r \in late : r.node # n
       /\ \A i \in DOMAIN tasks :
            Live(tasks[i]) /\ i \in 1..MaxTaskIds /\ Executed(i) => tasks[i].node # n

(* A poll has handed out a task. *)
TaskAnswered == Answered("poll", 200) /\ call.answer.task # NoTask

PollOK ==
  TaskAnswered =>
    LET t == call.answer.task
    IN /\ t \in [id : 1..seq.task, type : TASK_TYPES, interval : PollIntervals \cup {0}]
       /\ t.type = "SLEEP" => t.interval \in PollIntervals
       /\ t.id \in DOMAIN tasks =>
            /\ tasks[t.id].node = proc.node /\ tasks[t.id].type = t.type
            /\ tasks[t.id].interval = t.interval /\ tasks[t.id].status # "queued"

SubmitOK ==
  Answered("submit", 200) /\ proc.pending.task \in DOMAIN tasks =>
    ~Live(tasks[proc.pending.task])

BaseInv == RecordsOK /\ CallShape /\ EnrolOK /\ PollOK /\ SubmitOK

(* NodeSession starts with nothing held, called, late or executed. *)
LEMMA BaseInit == SessionInit => BaseInv
<1> SUFFICES ASSUME SessionInit PROVE BaseInv
  OBVIOUS
<1>1. /\ Init /\ proc = Started /\ call = NoCall /\ late = {}
      /\ executions = [i \in 1..MaxTaskIds |-> 0]
  BY DEF SessionInit
<1>2. LedgerInv /\ seq.node = 0 /\ seq.task = 0 /\ tombstones = <<>>
      /\ DOMAIN nodes = {} /\ DOMAIN tasks = {}
  BY <1>1, LedgerInit DEF Init, EmptyDict
<1>3. ServerInv
  <2>1. Len(tombstones) = 0
    BY <1>2
  <2>2. QED  BY <1>2, <2>1, BoundsAssumption DEF ServerInv, TombsGone
<1>4. proc.pending = NoPending /\ proc.node = 0
  BY <1>1 DEF Started
<1>5. proc \in ProcType
  <2>1. PICK y \in BOOLEAN, z \in BOOLEAN : y = TRUE /\ z = FALSE
    OBVIOUS
  <2>2. FirstInterval \in PollIntervals
    BY ProcessAssumption
  <2>3. [running |-> y, stop |-> z, node |-> 0, interval |-> FirstInterval,
         pending |-> NoPending] \in ProcType
    BY <2>2 DEF ProcType
  <2>4. QED  BY <1>1, <2>1, <2>3 DEF Started
<1>6. ProcOK
  BY <1>2, <1>4, <1>5 DEF ProcOK, Held
<1>7. ExecutedOK
  BY <1>1 DEF ExecutedOK, Executed
<1>8. ~InCall
  BY <1>1 DEF InCall
<1>9. LateOK /\ OwnSession /\ HeldOK
  BY <1>1, <1>2, <1>4 DEF LateOK, OwnSession, HeldOK, Held
<1>10. QED
  BY <1>3, <1>6, <1>7, <1>8, <1>9
     DEF BaseInv, RecordsOK, CallShape, EnrolOK, PollOK, SubmitOK, Answered, TaskAnswered

(* What run_node asks for, in its present state. *)
LEMMA NextRequestFields ==
  /\ NextRequest.node = proc.node /\ NextRequest.interval = proc.interval
  /\ NextRequest.pending = proc.pending
  /\ NextRequest.kind \in {"enroll", "poll", "submit", "disconnect"}
  /\ NextRequest.kind = "enroll" => proc.node = 0
  /\ NextRequest.kind = "poll" => proc.node # 0 /\ ~Held
  /\ NextRequest.kind = "submit" => proc.node # 0 /\ Held
BY DEF NextRequest, RequestOf, Held

(* A held result as the body of POST /node/result. *)
LEMMA ResultIsSubmission ==
  ASSUME NEW p, IsResult(p)
  PROVE  /\ SubmissionOf(p) \in AnySubmission
         /\ SubmissionOf(p).status = p.status /\ SubmissionOf(p).result = p.result
         /\ p.task \in 1..seq.task /\ p \in PendingType
BY DEF IsResult, PendingType, SubmissionOf, AnySubmission

(* The request of the exchange satisfies what late requests satisfy. *)
LEMMA CallIsOK ==
  ASSUME RecordsOK PROVE RequestOK(NextRequest)
<1>1. proc.node \in 0..seq.node /\ proc.interval \in PollIntervals
  BY DEF RecordsOK, ProcOK, ProcType, ServerInv, LedgerInv, SeqOK
<1>2. QED  BY <1>1, NextRequestFields DEF RequestOK, RecordsOK, ProcOK

-----------------------------------------------------------------------------
(* Steps of the Teamserver preserve the layer. *)

(* The process does not move, and no request is given up. *)
ProcessWaits == proc' = proc /\ executions' = executions /\ late' \subseteq late

(* A task that was executed is not handed on: if it is still there, it was
   there, no more alive than it is now, and asked for the same. *)
LEMMA ExecutedStays ==
  ASSUME RecordsOK, NEW m, Steady(m), NEW i \in 1..seq.task, i \in DOMAIN tasks'
  PROVE  i \in DOMAIN tasks /\ AsAsked(tasks[i], tasks'[i])
<1>1. seq.task \in Nat
  BY DEF RecordsOK, ServerInv, LedgerInv, SeqOK
<1>2. QED  BY <1>1 DEF Steady, TasksSteady

(* What a steady step leaves of a node record. *)
LEMMA NodeStays ==
  ASSUME RecordsOK, NEW m, Steady(m), NEW n \in 0..seq.node, n \in DOMAIN nodes'
  PROVE  /\ n \in DOMAIN nodes /\ SameSession(nodes[n], nodes'[n])
         /\ n = m \/ nodes'[n].poll_interval = nodes[n].poll_interval
<1>1. seq.node \in Nat
  BY DEF RecordsOK, ServerInv, LedgerInv, SeqOK
<1>2. QED  BY <1>1 DEF Steady, NodesSteady

(* A steady step keeps what is true of the records and of run_node. *)
LEMMA ServerKeepsRecords ==
  ASSUME RecordsOK, NEW m, Steady(m), ProcessWaits
  PROVE  RecordsOK'
<1>1. /\ seq.node \in Nat /\ seq.task \in Nat /\ seq'.node \in Nat /\ seq'.task \in Nat
      /\ seq'.node >= seq.node /\ seq'.task >= seq.task
  BY DEF RecordsOK, ServerInv, Steady, NodesSteady, TasksSteady, LedgerInv, SeqOK
<1>2. proc' = proc /\ executions' = executions /\ \A r \in late' : r \in late
  BY DEF ProcessWaits
<1>3. \A p : IsResult(p) => IsResult(p)'
  BY <1>1 DEF IsResult
<1>4. ProcOK'
  <2>1. proc' \in ProcType /\ proc'.node <= seq'.node
    BY <1>1, <1>2 DEF RecordsOK, ProcOK, ProcType
  <2>2. Held' => Held
    BY <1>2 DEF Held
  <2>3. QED  BY <1>2, <1>3, <2>1, <2>2 DEF RecordsOK, ProcOK, Executed
<1>5. LateOK'
  <2> SUFFICES ASSUME NEW r \in late' PROVE RequestOK(r)'
    BY DEF LateOK
  <2>1. RequestOK(r)
    BY <1>2 DEF RecordsOK, LateOK
  <2>2. QED  BY <1>1, <1>2, <1>3, <2>1 DEF RequestOK, Executed
<1>6. ExecutedOK'
  <2> SUFFICES ASSUME NEW i \in 1..MaxTaskIds, Executed(i)
               PROVE  i <= seq'.task /\ (i \in DOMAIN tasks' => tasks'[i].status # "queued")
    BY <1>2 DEF RecordsOK, ExecutedOK, Executed
  <2>1. i \in 1..seq.task /\ (i \in DOMAIN tasks => tasks[i].status # "queued")
    BY <1>1 DEF RecordsOK, ExecutedOK
  <2>2. i \in DOMAIN tasks' => i \in DOMAIN tasks /\ AsAsked(tasks[i], tasks'[i])
    BY <2>1, ExecutedStays
  <2>3. QED  BY <1>1, <2>1, <2>2 DEF AsAsked
<1>7. OwnSession'
  <2>1. proc.node \in 0..seq.node
    BY DEF RecordsOK, ProcOK, ProcType
  <2>2. QED  BY <1>2, <2>1, NodeStays DEF OwnSession, RecordsOK, SameSession
<1>8. HeldOK'
  <2> SUFFICES ASSUME Held, proc.pending.task \in DOMAIN tasks'
               PROVE  /\ tasks'[proc.pending.task].node = proc.node
                      /\ tasks'[proc.pending.task].type = proc.pending.type
                      /\ tasks'[proc.pending.task].interval = proc.pending.new_interval
    BY <1>2 DEF HeldOK, Held
  <2>1. proc.pending.task \in 1..seq.task
    BY DEF RecordsOK, ProcOK, IsResult
  <2>2. QED  BY <2>1, ExecutedStays DEF RecordsOK, HeldOK, AsAsked, SameTask
<1>9. QED  BY <1>4, <1>5, <1>6, <1>7, <1>8 DEF RecordsOK, Steady

(* An answer on its way stays true, whatever the Teamserver does meanwhile,
   unless it accepts a result under the token just given out. *)
LEMMA ServerKeepsAnswers ==
  ASSUME BaseInv, NEW m, Steady(m), ProcessWaits, call' = call,
         Answered("enroll", 200) => m # call.answer.node
  PROVE  BaseInv'
<1>1. RecordsOK /\ RecordsOK'
  BY ServerKeepsRecords DEF BaseInv
<1>2. /\ seq.node \in Nat /\ seq.task \in Nat /\ seq'.node \in Nat /\ seq'.task \in Nat
      /\ seq'.node >= seq.node /\ seq'.task >= seq.task
  BY <1>1 DEF RecordsOK, ServerInv, Steady, NodesSteady, TasksSteady, LedgerInv, SeqOK
<1>3. proc' = proc /\ executions' = executions /\ \A r \in late' : r \in late
  BY DEF ProcessWaits
<1>4. \A kind, status : Answered(kind, status)' => Answered(kind, status)
  BY DEF Answered, InCall
<1>5. CallShape'
  BY <1>3 DEF BaseInv, CallShape, InCall, NextRequest, RequestOf
<1>6. EnrolOK'
  <2> DEFINE n == call.answer.node
  <2> SUFFICES ASSUME Answered("enroll", 200)
               PROVE  /\ n \in 1..seq'.node
                      /\ n \in DOMAIN nodes' => /\ nodes'[n].profile = Profile
                                                /\ nodes'[n].poll_interval = proc.interval
                      /\ \A r \in late' : r.node # n
                      /\ \A i \in DOMAIN tasks' :
                           Live(tasks'[i]) /\ i \in 1..MaxTaskIds /\ Executed(i)
                             => tasks'[i].node # n
    BY <1>3, <1>4 DEF EnrolOK, Executed
  <2>1. /\ n \in 1..seq.node
        /\ n \in DOMAIN nodes => /\ nodes[n].profile = Profile
                                 /\ nodes[n].poll_interval = proc.interval
        /\ \A r \in late : r.node # n
        /\ \A i \in DOMAIN tasks :
             Live(tasks[i]) /\ i \in 1..MaxTaskIds /\ Executed(i) => tasks[i].node # n
    BY DEF BaseInv, EnrolOK
  <2>2. n \in DOMAIN nodes' => /\ n \in DOMAIN nodes /\ SameSession(nodes[n], nodes'[n])
                               /\ nodes'[n].poll_interval = nodes[n].poll_interval
    <3>1. n \in 0..seq.node /\ m # n
      BY <1>2, <2>1
    <3> HIDE DEF n
    <3>2. QED  BY <1>1, <3>1, NodeStays
  <2>3. ASSUME NEW i \in DOMAIN tasks', Live(tasks'[i]), i \in 1..MaxTaskIds, Executed(i)
        PROVE  tasks'[i].node # n
    <3>1. i \in 1..seq.task
      BY <1>1, <1>2, <2>3 DEF RecordsOK, ExecutedOK
    <3>2. i \in DOMAIN tasks /\ AsAsked(tasks[i], tasks'[i])
      BY <1>1, <2>3, <3>1, ExecutedStays
    <3>3. QED  BY <2>1, <2>3, <3>2 DEF AsAsked, SameTask
  <2>4. QED  BY <1>2, <1>3, <2>1, <2>2, <2>3 DEF SameSession
<1>7. PollOK'
  <2> DEFINE t == call.answer.task
  <2> SUFFICES ASSUME TaskAnswered
               PROVE  /\ t \in [id : 1..seq'.task, type : TASK_TYPES,
                                interval : PollIntervals \cup {0}]
                      /\ t.type = "SLEEP" => t.interval \in PollIntervals
                      /\ t.id \in DOMAIN tasks' =>
                           /\ tasks'[t.id].node = proc.node /\ tasks'[t.id].type = t.type
                           /\ tasks'[t.id].interval = t.interval
                           /\ tasks'[t.id].status # "queued"
    BY <1>3, <1>4 DEF PollOK, TaskAnswered
  <2>1. /\ t \in [id : 1..seq.task, type : TASK_TYPES, interval : PollIntervals \cup {0}]
        /\ t.type = "SLEEP" => t.interval \in PollIntervals
        /\ t.id \in DOMAIN tasks =>
             /\ tasks[t.id].node = proc.node /\ tasks[t.id].type = t.type
             /\ tasks[t.id].interval = t.interval /\ tasks[t.id].status # "queued"
    BY DEF BaseInv, PollOK
  <2> HIDE DEF t
  <2>2. t.id \in 1..seq.task
    BY <2>1
  <2>3. t.id \in DOMAIN tasks' => t.id \in DOMAIN tasks /\ AsAsked(tasks[t.id], tasks'[t.id])
    BY <1>1, <2>2, ExecutedStays
  <2>4. t \in [id : 1..seq'.task, type : TASK_TYPES, interval : PollIntervals \cup {0}]
    BY <1>2, <2>1
  <2>5. QED  BY <2>1, <2>3, <2>4 DEF AsAsked, SameTask
<1>8. SubmitOK'
  <2> SUFFICES ASSUME Answered("submit", 200), proc.pending.task \in DOMAIN tasks'
               PROVE  ~Live(tasks'[proc.pending.task])
    BY <1>3, <1>4 DEF SubmitOK
  <2>1. NextRequest.kind = "submit"
    BY DEF BaseInv, CallShape, Answered
  <2>2. proc.pending.task \in 1..seq.task
    BY <1>1, <2>1, NextRequestFields DEF RecordsOK, ProcOK, IsResult
  <2>3. QED  BY <1>1, <2>2, ExecutedStays DEF BaseInv, SubmitOK, AsAsked
<1>9. QED  BY <1>1, <1>5, <1>6, <1>7, <1>8 DEF BaseInv

-----------------------------------------------------------------------------
(* One exchange on the Teamserver's side. *)

AcceptsOf(r) == r.kind = "submit" /\ Accepts(r.node, r.pending.task, SubmissionOf(r.pending))

(* Whatever the request, the handler is a steady step, which accepts the
   result that the request carries or none. *)
LEMMA HandleIsSteady ==
  ASSUME ServerInv, NEW r, RequestOK(r), NEW lag \in Lags, NEW heard \in BOOLEAN,
         Handle(r, lag, heard)
  PROVE  Steady(0) \/ (Steady(r.node) /\ AcceptsOf(r))
<1>1. ASSUME ExpireAndRefuse(lag) PROVE Steady(0)
  BY <1>1, ExpiryIsSteady DEF ExpireAndRefuse
<1>2. CASE r.kind = "enroll" /\ ServeEnroll(r, lag, heard)
  <2> DEFINE e == [profile |-> Profile, poll_interval |-> r.interval]
  <2>1. e \in AnyEnrolment
    BY ProcessAssumption DEF AnyEnrolment, RequestOK
  <2>2. e.profile = Profile /\ e.poll_interval = r.interval
    OBVIOUS
  <2>3. enroll_node(e, lag) \/ UNCHANGED vars
    BY <1>2 DEF ServeEnroll
  <2> HIDE DEF e
  <2>4. QED  BY <2>1, <2>3, EnrollIsSteady, StayIsSteady
<1>3. CASE r.kind = "poll" /\ ServePoll(r, lag, heard)
  BY <1>1, <1>3, PollIsSteady DEF ServePoll
<1>4. CASE r.kind = "submit" /\ ServeSubmit(r, lag, heard)
  <2> DEFINE s == SubmissionOf(r.pending)
  <2>1. s \in AnySubmission
    BY <1>4, ResultIsSubmission DEF RequestOK
  <2>2. submit_result(r.node, r.pending.task, s, lag) \/ ExpireAndRefuse(lag)
    BY <1>4 DEF ServeSubmit
  <2> HIDE DEF s
  <2>3. CASE submit_result(r.node, r.pending.task, s, lag)
    BY <1>4, <2>1, <2>3, SubmitIsSteady DEF AcceptsOf, s
  <2>4. QED  BY <1>1, <2>2, <2>3
<1>5. CASE r.kind = "disconnect" /\ ServeDisconnect(r, heard)
  BY <1>5, DisconnectIsSteady, StayIsSteady DEF ServeDisconnect
<1>6. QED  BY <1>2, <1>3, <1>4, <1>5 DEF Handle

(* What a served enrolment has done. *)
Enrols(a) ==
  /\ a.node = seq.node + 1 /\ seq'.node = seq.node + 1 /\ tasks' = tasks
  /\ nodes'[a.node].profile = Profile /\ nodes'[a.node].poll_interval = proc.interval

Mine == SubmissionOf(proc.pending)

(* Why a served submission is acknowledged, or refused. *)
Acknowledges ==
  \/ Accepts(proc.node, proc.pending.task, Mine)
  \/ AnswersRetry(proc.node, proc.pending.task, Mine) /\ Settles(tasks, tasks')

Refuses ==
  /\ ~AnswersRetry(proc.node, proc.pending.task, Mine) /\ Steady(0)
  /\ Authentic(nodes', proc.node)
  /\ ~AcceptsResult(tasks', nodes'[proc.node], proc.node, proc.pending.task, Mine)
  /\ Settles(tasks, tasks')

(* The answer that Serve gives, in terms of the tables it leaves behind. *)
LEMMA ServeAnswers ==
  ASSUME RecordsOK, CallShape, Serve
  PROVE  /\ call' = [request |-> NextRequest, answer |-> call'.answer]
         /\ Answered("enroll", 200)' => NextRequest.kind = "enroll" /\ Enrols(call'.answer)
         /\ Answered("poll", 200)' =>
              NextRequest.kind = "poll" /\ call'.answer.task = TaskFor(proc.node)
         /\ Answered("submit", 200)' => NextRequest.kind = "submit" /\ Acknowledges
         /\ Answered("submit", 409)' => NextRequest.kind = "submit" /\ Refuses
<1>0. ServerInv
  BY DEF RecordsOK
<1>1. PICK lag \in Lags : Handle(call.request, lag, TRUE)
  BY DEF Serve
<1>2. call.request = NextRequest /\ call = [request |-> NextRequest, answer |-> call.answer]
  BY DEF Serve, Unanswered, CallShape
<1>3. \A a : Reply(TRUE, a) => call' = [request |-> NextRequest, answer |-> a]
  BY <1>2 DEF Reply
<1>4. /\ NextRequest.node = proc.node /\ NextRequest.interval = proc.interval
      /\ NextRequest.pending = proc.pending
  BY NextRequestFields
<1>5. \A status : Answer(status).status = status
  BY DEF Answer, NoAnswer
<1>6. CASE NextRequest.kind = "enroll" /\ ServeEnroll(NextRequest, lag, TRUE)
  <2> DEFINE e == [profile |-> Profile, poll_interval |-> proc.interval]
             a == [Answer(200) EXCEPT !.node = seq.node + 1]
  <2>1. CASE enroll_node(e, lag) /\ Reply(TRUE, a)
    <3>1. e \in AnyEnrolment /\ e.profile = Profile /\ e.poll_interval = proc.interval
      BY ProcessAssumption DEF AnyEnrolment, RecordsOK, ProcOK, ProcType
    <3>2. a.node = seq.node + 1
      BY DEF Answer, NoAnswer
    <3> HIDE DEF e, a
    <3>3. call' = [request |-> NextRequest, answer |-> a]
      BY <1>3, <2>1
    <3>4. Enrols(a)
      BY <1>0, <2>1, <3>1, <3>2, EnrollIsSteady DEF Enrols
    <3>5. call'.answer = a /\ call'.request.kind = "enroll"
      BY <1>6, <3>3
    <3>6. QED  BY <1>6, <3>3, <3>4, <3>5 DEF Answered
  <2>2. CASE Reply(TRUE, Answer(429))
    <3>1. call' = [request |-> NextRequest, answer |-> Answer(429)]
      BY <1>3, <2>2
    <3>2. QED  BY <1>5, <1>6, <3>1 DEF Answered
  <2>3. QED  BY <1>4, <1>6, <2>1, <2>2 DEF ServeEnroll
<1>7. CASE NextRequest.kind = "poll" /\ ServePoll(NextRequest, lag, TRUE)
  <2> DEFINE a == [Answer(200) EXCEPT !.task = TaskFor(proc.node)]
  <2>1. CASE Reply(TRUE, a)
    <3>1. a.task = TaskFor(proc.node)
      BY DEF Answer, NoAnswer
    <3> HIDE DEF a
    <3>2. call' = [request |-> NextRequest, answer |-> a]
      BY <1>3, <2>1
    <3>3. QED  BY <1>7, <3>1, <3>2 DEF Answered
  <2>2. CASE Reply(TRUE, Answer(401))
    <3>1. call' = [request |-> NextRequest, answer |-> Answer(401)]
      BY <1>3, <2>2
    <3>2. QED  BY <1>5, <1>7, <3>1 DEF Answered
  <2>3. QED  BY <1>4, <1>7, <2>1, <2>2 DEF ServePoll
<1>8. CASE NextRequest.kind = "submit" /\ ServeSubmit(NextRequest, lag, TRUE)
  <2> DEFINE n == proc.node
             i == proc.pending.task
             N == ExpiredNodes(nodes, tasks, lag)
             T == ExpiredTasks(nodes, tasks, lag)
  <2>1. Mine \in AnySubmission
    BY <1>8, NextRequestFields, ResultIsSubmission DEF RecordsOK, ProcOK, Mine
  <2>2. CASE submit_result(n, i, Mine, lag) /\ Reply(TRUE, Answer(200))
    <3>1. call' = [request |-> NextRequest, answer |-> Answer(200)]
      BY <1>3, <2>2
    <3>2. Accepts(n, i, Mine)
      BY <1>0, <2>1, <2>2, SubmitIsSteady
    <3>3. QED  BY <1>5, <1>8, <3>1, <3>2 DEF Answered, Acknowledges
  <2>3. CASE /\ Authentic(N, n) /\ ~AcceptsResult(T, N[n], n, i, Mine)
             /\ ExpireAndRefuse(lag) /\ Reply(TRUE, AnswerToRepeat(NextRequest))
    <3>1. call' = [request |-> NextRequest, answer |-> AnswerToRepeat(NextRequest)]
      BY <1>3, <2>3
    <3>2. nodes' = N /\ tasks' = T /\ tombstones' = tombstones /\ seq' = seq
      BY <2>3 DEF ExpireAndRefuse
    <3>3. Steady(0) /\ Settles(tasks, tasks')
      BY <1>0, <3>2, ExpiryIsSteady
    <3>4. AnswerToRepeat(NextRequest) =
            IF AnswersRetry(n, i, Mine) THEN Answer(200) ELSE Answer(409)
      BY <1>4 DEF AnswerToRepeat, Mine
    <3>5. CASE AnswersRetry(n, i, Mine)
      <4>1. call' = [request |-> NextRequest, answer |-> Answer(200)]
        BY <3>1, <3>4, <3>5
      <4>2. QED  BY <1>5, <1>8, <3>3, <3>5, <4>1 DEF Answered, Acknowledges
    <3>6. CASE ~AnswersRetry(n, i, Mine)
      <4>1. call' = [request |-> NextRequest, answer |-> Answer(409)]
        BY <3>1, <3>4, <3>6
      <4>2. Refuses
        BY <2>3, <3>2, <3>3, <3>6 DEF Refuses
      <4>3. QED  BY <1>5, <1>8, <4>1, <4>2 DEF Answered
    <3>7. QED  BY <3>5, <3>6
  <2>4. CASE Reply(TRUE, Answer(401))
    <3>1. call' = [request |-> NextRequest, answer |-> Answer(401)]
      BY <1>3, <2>4
    <3>2. QED  BY <1>5, <1>8, <3>1 DEF Answered
  <2>5. \/ submit_result(n, i, Mine, lag) /\ Reply(TRUE, Answer(200))
        \/ /\ Authentic(N, n) /\ ~AcceptsResult(T, N[n], n, i, Mine)
           /\ ExpireAndRefuse(lag) /\ Reply(TRUE, AnswerToRepeat(NextRequest))
        \/ Reply(TRUE, Answer(401))
    <3> DEFINE r == NextRequest
               s == SubmissionOf(r.pending)
    <3>1. \/ submit_result(r.node, r.pending.task, s, lag) /\ Reply(TRUE, Answer(200))
          \/ /\ Authentic(N, r.node) /\ ~AcceptsResult(T, N[r.node], r.node, r.pending.task, s)
             /\ ExpireAndRefuse(lag) /\ Reply(TRUE, AnswerToRepeat(r))
          \/ Reply(TRUE, Answer(401))
      BY <1>8 DEF ServeSubmit
    <3>2. r.node = n /\ r.pending.task = i /\ s = Mine /\ r = NextRequest
      BY <1>4 DEF Mine
    <3> HIDE DEF r, s, N, T, n, i
    <3>3. QED  BY <3>1, <3>2
  <2> HIDE DEF N, T, n, i
  <2>6. QED  BY <2>2, <2>3, <2>4, <2>5
<1>9. CASE NextRequest.kind = "disconnect" /\ ServeDisconnect(NextRequest, TRUE)
  <2>1. \E a : call' = [request |-> NextRequest, answer |-> a]
    BY <1>3, <1>9 DEF ServeDisconnect
  <2>2. QED  BY <1>9, <2>1 DEF Answered
<1>10. QED  BY <1>1, <1>2, <1>6, <1>7, <1>8, <1>9 DEF Handle

(* Serve preserves the layer: its answer is true of the tables it leaves. *)
LEMMA ServeKeepsBase ==
  ASSUME BaseInv, Serve PROVE BaseInv'
<1>1. RecordsOK /\ CallShape /\ ServerInv
  BY DEF BaseInv, RecordsOK
<1>2. PICK lag \in Lags : Handle(NextRequest, lag, TRUE)
  <2>1. call.request = NextRequest
    BY <1>1 DEF Serve, Unanswered, CallShape
  <2>2. PICK lag \in Lags : Handle(call.request, lag, TRUE)
    BY DEF Serve
  <2>3. Handle(NextRequest, lag, TRUE)
    BY <2>1, <2>2
  <2>4. QED  BY <2>3
<1>3. Steady(0) \/ (Steady(proc.node) /\ AcceptsOf(NextRequest))
  BY <1>1, <1>2, CallIsOK, HandleIsSteady, NextRequestFields
<1>4. ProcessWaits
  BY DEF Serve, ProcessWaits
<1>5. RecordsOK'
  BY <1>1, <1>3, <1>4, ServerKeepsRecords
<1>6. NextRequest' = NextRequest
  BY <1>4 DEF ProcessWaits, NextRequest, RequestOf
<1>7. CallShape'
  BY <1>1, <1>6, ServeAnswers DEF CallShape
<1>8. EnrolOK'
  <2> DEFINE n == call'.answer.node
  <2> SUFFICES ASSUME Answered("enroll", 200)'
               PROVE  /\ n \in 1..seq'.node
                      /\ n \in DOMAIN nodes' => /\ nodes'[n].profile = Profile
                                                /\ nodes'[n].poll_interval = proc.interval
                      /\ \A r \in late : r.node # n
                      /\ \A i \in DOMAIN tasks' : Live(tasks'[i]) => tasks'[i].node # n
    BY <1>4 DEF EnrolOK, ProcessWaits, Serve
  <2>1. Enrols(call'.answer)
    BY <1>1, ServeAnswers
  <2>2. seq.node \in Nat
    BY <1>1 DEF ServerInv, LedgerInv, SeqOK
  <2>3. \A r \in late : r.node \in 0..seq.node
    BY <1>1 DEF RecordsOK, LateOK, RequestOK
  <2>4. \A i \in DOMAIN tasks : Live(tasks[i]) => tasks[i].node \in 1..seq.node
    BY <1>1 DEF ServerInv, LedgerInv, LedgerOK, OwnedOK, Authentic
  <2>5. QED  BY <2>1, <2>2, <2>3, <2>4 DEF Enrols
<1>9. PollOK'
  <2> DEFINE t == call'.answer.task
  <2> SUFFICES ASSUME TaskAnswered'
               PROVE  /\ t \in [id : 1..seq'.task, type : TASK_TYPES,
                                interval : PollIntervals \cup {0}]
                      /\ t.type = "SLEEP" => t.interval \in PollIntervals
                      /\ t.id \in DOMAIN tasks' =>
                           /\ tasks'[t.id].node = proc.node /\ tasks'[t.id].type = t.type
                           /\ tasks'[t.id].interval = t.interval
                           /\ tasks'[t.id].status # "queued"
    BY <1>4 DEF PollOK, ProcessWaits
  <2>1. t = TaskFor(proc.node) /\ TaskFor(proc.node) # NoTask
    BY <1>1, ServeAnswers DEF TaskAnswered
  <2>2. /\ t.id \in 1..seq'.task /\ t.id \in DOMAIN tasks'
        /\ t = [id |-> t.id, type |-> tasks'[t.id].type, interval |-> tasks'[t.id].interval]
        /\ tasks'[t.id].node = proc.node /\ tasks'[t.id].status = "dispatched"
    BY <1>5, <2>1, TaskForGives DEF RecordsOK
  <2> HIDE DEF t
  <2>3. tasks'[t.id] \in TaskType
    BY <1>5, <2>2 DEF RecordsOK, ServerInv, LedgerInv, TaskDict
  <2>4. tasks'[t.id].type = "SLEEP" => tasks'[t.id].interval \in PollIntervals
    BY <1>5, <2>2 DEF RecordsOK, ServerInv, LedgerInv, LedgerOK, TasksOK, SleepOK
  <2>5. t.type = tasks'[t.id].type /\ t.interval = tasks'[t.id].interval
    BY <2>2
  <2>6. tasks'[t.id].type \in TASK_TYPES /\ tasks'[t.id].interval \in PollIntervals \cup {0}
    BY <2>3 DEF TaskType
  <2>7. t \in [id : 1..seq'.task, type : TASK_TYPES, interval : PollIntervals \cup {0}]
    BY <2>2, <2>6
  <2>8. QED  BY <2>2, <2>4, <2>5, <2>7
<1>10. SubmitOK'
  <2> DEFINE i == proc.pending.task
  <2> SUFFICES ASSUME Answered("submit", 200)', i \in DOMAIN tasks'
               PROVE  ~Live(tasks'[i])
    BY <1>4 DEF SubmitOK, ProcessWaits
  <2>1. Acknowledges /\ NextRequest.kind = "submit"
    BY <1>1, ServeAnswers
  <2>2. Mine \in AnySubmission
    BY <1>1, <2>1, NextRequestFields, ResultIsSubmission DEF RecordsOK, ProcOK, Mine
  <2>3. Mine.status \in {"completed", "failed"}
    BY <2>2 DEF AnySubmission
  <2>4. CASE Accepts(proc.node, i, Mine)
    BY <2>3, <2>4 DEF Accepts, Live, LIVE_TASK_STATUSES
  <2>5. CASE AnswersRetry(proc.node, i, Mine) /\ Settles(tasks, tasks')
    <3>1. i \in DOMAIN tasks /\ (tasks'[i] = tasks[i] \/ Live(tasks[i]))
      BY <2>5 DEF Settles, SettledFrom
    <3>2. tasks[i].status = Mine.status
      BY <2>5, <3>1 DEF AnswersRetry
    <3>3. QED  BY <2>3, <3>1, <3>2 DEF Live, LIVE_TASK_STATUSES
  <2>6. QED  BY <2>1, <2>4, <2>5 DEF Acknowledges
<1>11. QED  BY <1>5, <1>7, <1>8, <1>9, <1>10 DEF BaseInv

(* The answer to a request that was given up is heard by nobody. *)
LEMMA LateIsUnheard ==
  ASSUME NEW r, NEW lag, Handle(r, lag, FALSE) PROVE call' = call
BY DEF Handle, ServeEnroll, ServePoll, ServeSubmit, ServeDisconnect, Reply

(* A late request changes the tables of the Teamserver and nothing else. *)
LEMMA LateIsSteady ==
  ASSUME RecordsOK, NEW r \in late, ServeLate(r)
  PROVE  /\ ProcessWaits /\ call' = call
         /\ Steady(0) \/ (Steady(r.node) /\ AcceptsOf(r))
<1>1. PICK lag \in Lags : Handle(r, lag, FALSE)
  BY DEF ServeLate
<1>2. RequestOK(r) /\ ServerInv
  BY DEF RecordsOK, LateOK
<1>3. ProcessWaits
  BY DEF ServeLate, ProcessWaits
<1>4. QED  BY <1>1, <1>2, <1>3, LateIsUnheard, HandleIsSteady

(* ServeLate preserves the layer. *)
LEMMA LateKeepsBase ==
  ASSUME BaseInv, NEW r \in late, ServeLate(r) PROVE BaseInv'
<1>1. RecordsOK
  BY DEF BaseInv
<1>2. /\ ProcessWaits /\ call' = call
      /\ Steady(0) \/ (Steady(r.node) /\ AcceptsOf(r))
  BY <1>1, LateIsSteady
<1>3. Answered("enroll", 200) => call.answer.node # 0 /\ call.answer.node # r.node
  BY DEF BaseInv, EnrolOK
<1>4. QED  BY <1>2, <1>3, ServerKeepsAnswers

-----------------------------------------------------------------------------
(* The rest of the world: the clock, the monitor thread, the operator and the
   other nodes. *)

OutsideStep ==
  /\ UNCHANGED session
  /\ \E m : /\ Steady(m)
            /\ m = 0 \/ (m \in DOMAIN nodes /\ nodes[m].profile # Profile)

(* They are steady, and accept results of nodes of another profile only. *)
LEMMA OutsideIsSteady ==
  ASSUME ServerInv,
         (Environment /\ UNCHANGED session) \/ (OtherNodes /\ UNCHANGED session)
           \/ UNCHANGED session_vars
  PROVE  OutsideStep
<1>1. 0 \notin DOMAIN nodes
  BY DEF ServerInv, LedgerInv
<1>2. 0 \in Lags
  BY TimeAssumption DEF Lags
<1>3. CASE Environment /\ UNCHANGED session
  <2>1. ASSUME NEW lag \in Lags, Expire(lag) PROVE Steady(0)
    BY <2>1, ExpiryIsSteady DEF Expire
  <2>2. Steady(0)
    BY <1>2, <1>3, <2>1, TickIsSteady, QueueIsSteady, CancelIsSteady, ResetIsSteady
       DEF Environment
  <2>3. QED  BY <1>1, <1>3, <2>2 DEF OutsideStep
<1>4. CASE OtherNodes /\ UNCHANGED session
  <2>1. ASSUME NEW e \in Enrolments, enroll_node(e, 0) PROVE Steady(0)
    BY <1>2, <2>1, CallsAreTyped, EnrollIsSteady
  <2>2. ASSUME NEW n \in DOMAIN nodes, nodes[n].profile # Profile,
               \/ poll_node(n, 0)
               \/ \E i \in DOMAIN tasks, s \in Submissions : submit_result(n, i, s, 0)
        PROVE  Steady(0) \/ Steady(n)
    BY <1>2, <2>2, CallsAreTyped, PollIsSteady, SubmitIsSteady
  <2>3. QED  BY <1>1, <1>4, <2>1, <2>2 DEF OutsideStep, OtherNodes
<1>5. CASE UNCHANGED session_vars
  <2>1. UNCHANGED vars /\ UNCHANGED session
    BY <1>5 DEF session_vars
  <2>2. QED  BY <1>1, <2>1, StayIsSteady DEF OutsideStep
<1>6. QED  BY <1>3, <1>4, <1>5

(* None of them accepts a result of the process's session. *)
LEMMA OutsideIsForeign ==
  ASSUME BaseInv, OutsideStep
  PROVE  /\ ProcessWaits /\ call' = call
         /\ \E m : /\ Steady(m)
                   /\ proc.node \in DOMAIN nodes => m # proc.node
                   /\ Answered("enroll", 200) => m # call.answer.node
<1>1. 0 \notin DOMAIN nodes
  BY DEF BaseInv, RecordsOK, ServerInv, LedgerInv
<1>2. Answered("enroll", 200) => call.answer.node # 0
  BY DEF BaseInv, EnrolOK
<1>3. QED
  BY <1>1, <1>2 DEF OutsideStep, session, ProcessWaits, BaseInv, RecordsOK, OwnSession, EnrolOK

(* They preserve the layer. *)
LEMMA OutsideKeepsBase ==
  ASSUME BaseInv, OutsideStep PROVE BaseInv'
BY OutsideIsForeign, ServerKeepsAnswers

-----------------------------------------------------------------------------
(* The steps of run_node. *)

(* With no exchange under way there is no answer to be about. *)
LEMMA NoCallNoAnswer ==
  ASSUME ~InCall'
  PROVE  /\ CallShape' /\ EnrolOK' /\ PollOK' /\ SubmitOK'
         /\ \A kind, status : ~Answered(kind, status)'
         /\ ~TaskAnswered'
BY DEF CallShape, EnrolOK, PollOK, SubmitOK, Answered, TaskAnswered

(* The process changes only what it is about: it gives its result up or keeps
   it in the same session, and it takes no session that is not its own. *)
Settling ==
  /\ UNCHANGED vars /\ executions' = executions
  /\ \A r \in late' : r \in late \/ r = NextRequest
  /\ proc' \in ProcType /\ proc'.node <= seq.node
  /\ \/ proc'.pending = NoPending
     \/ /\ proc'.pending = proc.pending /\ proc'.node = proc.node
        /\ proc'.interval = proc.interval
  /\ OwnSession'

(* The steps of run_node that give something up keep the records true. *)
LEMMA SettlingKeepsRecords ==
  ASSUME RecordsOK, Settling PROVE RecordsOK'
<1>1. /\ nodes' = nodes /\ tasks' = tasks /\ seq' = seq /\ tombstones' = tombstones
      /\ executions' = executions
  BY DEF Settling, vars
<1>2. ServerInv'
  BY StayIsSteady DEF Settling, RecordsOK, Steady
<1>3. \A p : IsResult(p) => IsResult(p)'
  BY <1>1 DEF IsResult
<1>4. ProcOK'
  BY <1>1, <1>3 DEF Settling, RecordsOK, ProcOK, Held, Executed
<1>5. LateOK'
  <2>1. \A r \in late' : RequestOK(r)
    BY CallIsOK DEF Settling, RecordsOK, LateOK
  <2>2. QED  BY <1>1, <1>3, <2>1 DEF LateOK, RequestOK, Executed
<1>6. ExecutedOK'
  BY <1>1 DEF RecordsOK, ExecutedOK, Executed
<1>7. HeldOK'
  BY <1>1 DEF Settling, RecordsOK, HeldOK, Held
<1>8. QED  BY <1>2, <1>4, <1>5, <1>6, <1>7 DEF RecordsOK, Settling

(* MakeCall: the process waits for an answer that is not there yet. *)
LEMMA MakeCallKeepsBase ==
  ASSUME BaseInv, MakeCall PROVE BaseInv'
<1>1. /\ UNCHANGED <<vars, proc, late, executions>>
      /\ call' = [request |-> NextRequest, answer |-> NoAnswer]
  BY DEF MakeCall
<1>2. Steady(0) /\ ProcessWaits
  BY <1>1, StayIsSteady DEF BaseInv, RecordsOK, ProcessWaits
<1>3. RecordsOK'
  BY <1>2, ServerKeepsRecords DEF BaseInv
<1>4. NextRequest' = NextRequest
  BY <1>1 DEF NextRequest, RequestOf
<1>5. call'.answer.status = 0
  BY <1>1 DEF NoAnswer
<1>6. CallShape'
  BY <1>1, <1>4 DEF CallShape
<1>7. QED  BY <1>3, <1>5, <1>6 DEF BaseInv, EnrolOK, PollOK, SubmitOK, Answered, TaskAnswered

(* What the assignments of run_node do to its local variables. *)
LEMMA ProcUpdates ==
  ASSUME proc \in ProcType
  PROVE  /\ [proc EXCEPT !.running = FALSE] \in ProcType
         /\ [proc EXCEPT !.running = FALSE].node = proc.node
         /\ [proc EXCEPT !.running = FALSE].interval = proc.interval
         /\ [proc EXCEPT !.running = FALSE].pending = proc.pending
         /\ [proc EXCEPT !.stop = TRUE] \in ProcType
         /\ [proc EXCEPT !.stop = TRUE].node = proc.node
         /\ [proc EXCEPT !.stop = TRUE].interval = proc.interval
         /\ [proc EXCEPT !.stop = TRUE].pending = proc.pending
         /\ \A n \in Nat : /\ [proc EXCEPT !.node = n] \in ProcType
                           /\ [proc EXCEPT !.node = n].node = n
                           /\ [proc EXCEPT !.node = n].interval = proc.interval
                           /\ [proc EXCEPT !.node = n].pending = proc.pending
         /\ [proc EXCEPT !.pending = NoPending] \in ProcType
         /\ [proc EXCEPT !.pending = NoPending].node = proc.node
         /\ [proc EXCEPT !.pending = NoPending].interval = proc.interval
         /\ [proc EXCEPT !.pending = NoPending].pending = NoPending
         /\ [proc EXCEPT !.node = 0, !.pending = NoPending] \in ProcType
         /\ [proc EXCEPT !.node = 0, !.pending = NoPending].node = 0
         /\ [proc EXCEPT !.node = 0, !.pending = NoPending].interval = proc.interval
         /\ [proc EXCEPT !.node = 0, !.pending = NoPending].pending = NoPending
<1>1. PICK y \in BOOLEAN, z \in BOOLEAN : y = TRUE /\ z = FALSE
  OBVIOUS
<1>2. PICK p \in PendingType \cup {NoPending} : p = NoPending
  OBVIOUS
<1>3. /\ [proc EXCEPT !.running = z] \in ProcType
      /\ [proc EXCEPT !.running = z].node = proc.node
      /\ [proc EXCEPT !.running = z].interval = proc.interval
      /\ [proc EXCEPT !.running = z].pending = proc.pending
  BY DEF ProcType
<1>4. /\ [proc EXCEPT !.stop = y] \in ProcType
      /\ [proc EXCEPT !.stop = y].node = proc.node
      /\ [proc EXCEPT !.stop = y].interval = proc.interval
      /\ [proc EXCEPT !.stop = y].pending = proc.pending
  BY DEF ProcType
<1>5. ASSUME NEW n \in Nat
      PROVE  /\ [proc EXCEPT !.node = n] \in ProcType
             /\ [proc EXCEPT !.node = n].node = n
             /\ [proc EXCEPT !.node = n].interval = proc.interval
             /\ [proc EXCEPT !.node = n].pending = proc.pending
  BY DEF ProcType
<1>6. /\ [proc EXCEPT !.pending = p] \in ProcType
      /\ [proc EXCEPT !.pending = p].node = proc.node
      /\ [proc EXCEPT !.pending = p].interval = proc.interval
      /\ [proc EXCEPT !.pending = p].pending = p
  BY DEF ProcType
<1>7. /\ [proc EXCEPT !.node = 0, !.pending = p] \in ProcType
      /\ [proc EXCEPT !.node = 0, !.pending = p].node = 0
      /\ [proc EXCEPT !.node = 0, !.pending = p].interval = proc.interval
      /\ [proc EXCEPT !.node = 0, !.pending = p].pending = p
  BY DEF ProcType
<1>8. QED  BY <1>1, <1>2, <1>3, <1>4, <1>5, <1>6, <1>7, Zenon

(* What a step of run_node may be, as far as the invariant is concerned. *)
Quiet == UNCHANGED vars /\ ~InCall' /\ proc' \in ProcType

SameProc == proc'.node = proc.node /\ proc'.interval = proc.interval

Stays ==
  /\ Quiet /\ executions' = executions /\ SameProc /\ proc'.pending = proc.pending
  /\ \A r \in late' : r \in late \/ r = NextRequest

Leaves ==
  /\ Quiet /\ executions' = executions /\ late' = late
  /\ proc'.node = 0 /\ proc'.pending = NoPending

Joins ==
  /\ Quiet /\ executions' = executions /\ late' = late /\ Answered("enroll", 200)
  /\ proc'.node = call.answer.node /\ proc'.interval = proc.interval
  /\ proc'.pending = proc.pending

(* The pending result after an execution of t. *)
ResultOf(t, p) ==
  /\ p \in PendingType /\ p.task = t.id /\ p.type = t.type /\ p.new_interval = t.interval
  /\ p.type = "SLEEP" => p.status = "completed"
  /\ p.result.body = IF p.status = "completed" THEN "reply" ELSE "HANDLER_FAILED"
  /\ p.type \in Reports => p.result.interval = proc.interval

Runs ==
  /\ Quiet /\ late' = late /\ TaskAnswered /\ SameProc
  /\ ResultOf(call.answer.task, proc'.pending)
  /\ executions' = [executions EXCEPT ![call.answer.task.id] = IF @ < 2 THEN @ + 1 ELSE @]

Confirms ==
  /\ Quiet /\ executions' = executions /\ late' = late /\ Answered("submit", 200)
  /\ proc'.node = proc.node /\ proc'.pending = NoPending
  /\ proc'.interval = IF proc.pending.type = "SLEEP" THEN proc.pending.new_interval
                      ELSE proc.interval

GivesUp ==
  /\ Quiet /\ executions' = executions /\ late' = late /\ Answered("submit", 409)
  /\ SameProc /\ proc'.pending = NoPending

(* NodeExecutor.execute: only a playbook fails, and the two reports carry the
   interval the process has. *)
LEMMA ExecutionGives ==
  ASSUME NEW t, NEW e \in ExecutionOf(t), proc \in ProcType
  PROVE  /\ e.status \in {"completed", "failed"} /\ e.result \in Results
         /\ e.status = "failed" => t.type = "RUN_PLAYBOOK"
         /\ e.result.body = IF e.status = "completed" THEN "reply" ELSE "HANDLER_FAILED"
         /\ t.type \in Reports => e.result.interval = proc.interval
<1> DEFINE v == IF t.type \in {"SLEEP", "RUNTIME_STATUS"} THEN proc.interval ELSE 0
           done == [status |-> "completed", result |-> [body |-> "reply", interval |-> v]]
           failed == [status |-> "failed",
                      result |-> [body |-> "HANDLER_FAILED", interval |-> 0]]
<1>1. e = done \/ (e = failed /\ t.type = "RUN_PLAYBOOK")
  BY DEF ExecutionOf
<1>2. v \in PollIntervals \cup {0}
  BY DEF ProcType
<1>3. CASE e = done
  <2>1. [body |-> "reply", interval |-> v] \in Results
    BY <1>2 DEF Results, NodeReplies
  <2>2. e.status = "completed" /\ e.result = [body |-> "reply", interval |-> v]
    BY <1>3
  <2>3. t.type \in Reports => v = proc.interval
    BY DEF Reports
  <2> HIDE DEF v
  <2>4. QED  BY <2>1, <2>2, <2>3
<1>4. CASE e = failed /\ t.type = "RUN_PLAYBOOK"
  <2>1. [body |-> "HANDLER_FAILED", interval |-> 0] \in Results
    BY DEF Results, NodeReplies, NODE_FAILURE_CODES
  <2>2. /\ e.status = "failed"
        /\ e.result = [body |-> "HANDLER_FAILED", interval |-> 0]
    BY <1>4
  <2>3. t.type \notin Reports
    BY <1>4 DEF Reports
  <2>4. QED  BY <1>4, <2>1, <2>2, <2>3
<1>5. QED  BY <1>1, <1>3, <1>4

(* Execute puts the result of the task it was handed in pending. *)
LEMMA ExecuteRuns ==
  ASSUME BaseInv, TaskAnswered, Execute(call.answer),
         UNCHANGED vars, ~InCall', late' = late
  PROVE  Runs
<1> DEFINE t == call.answer.task
<1>1. proc \in ProcType /\ t.type \in TASK_TYPES /\ t.interval \in PollIntervals \cup {0} /\ t.id \in Nat
  BY DEF BaseInv, RecordsOK, ProcOK, PollOK
<1> HIDE DEF t
<1>2. PICK e \in ExecutionOf(t) :
        proc' = [proc EXCEPT !.pending =
                   [task |-> t.id, type |-> t.type, new_interval |-> t.interval,
                    status |-> e.status, result |-> e.result]]
  BY DEF Execute, t
<1>3. executions' = [executions EXCEPT ![t.id] = IF @ < 2 THEN @ + 1 ELSE @]
  BY DEF Execute, t
<1>4. /\ e.status \in {"completed", "failed"} /\ e.result \in Results
      /\ e.status = "failed" => t.type = "RUN_PLAYBOOK"
      /\ e.result.body = IF e.status = "completed" THEN "reply" ELSE "HANDLER_FAILED"
      /\ t.type \in Reports => e.result.interval = proc.interval
  BY <1>1, ExecutionGives
<1> DEFINE p == [task |-> t.id, type |-> t.type, new_interval |-> t.interval,
                 status |-> e.status, result |-> e.result]
<1>5. p \in PendingType
  BY <1>1, <1>4 DEF PendingType
<1>6. ResultOf(t, p)
  BY <1>4, <1>5 DEF ResultOf
<1>7. proc' = [proc EXCEPT !.pending = p]
  BY <1>2
<1> HIDE DEF p
<1>8. proc' \in ProcType /\ SameProc /\ proc'.pending = p
  BY <1>1, <1>5, <1>7 DEF ProcType, SameProc
<1>9. QED  BY <1>3, <1>6, <1>8 DEF Runs, Quiet, t

(* acknowledge adopts the interval of a SLEEP, which is always completed. *)
LEMMA AcknowledgedConfirms ==
  ASSUME BaseInv, Answered("submit", 200), Acknowledged(call.answer),
         UNCHANGED vars, ~InCall', late' = late
  PROVE  Confirms
<1>1. proc \in ProcType /\ IsResult(proc.pending)
  <2>1. NextRequest.kind = "submit"
    BY DEF BaseInv, CallShape, Answered
  <2>2. QED  BY <2>1, NextRequestFields DEF BaseInv, RecordsOK, ProcOK
<1>2. /\ proc.pending.type = "SLEEP" =>
           proc.pending.status = "completed" /\ proc.pending.new_interval \in PollIntervals
      /\ proc.interval \in PollIntervals
  BY <1>1 DEF IsResult, ProcType
<1> DEFINE done == proc.pending.status = "completed"
           v == IF done /\ proc.pending.type = "SLEEP" THEN proc.pending.new_interval
                ELSE proc.interval
           b == proc.stop \/ (done /\ proc.pending.type = "EXIT")
<1>3. /\ executions' = executions
      /\ proc' = [proc EXCEPT !.interval = v, !.stop = b, !.pending = NoPending]
  BY DEF Acknowledged
<1>4. v \in PollIntervals /\ b \in BOOLEAN
  BY <1>2
<1>5. v = IF proc.pending.type = "SLEEP" THEN proc.pending.new_interval ELSE proc.interval
  BY <1>2
<1> HIDE DEF v, b
<1>6. PICK i \in PollIntervals, c \in BOOLEAN, p \in PendingType \cup {NoPending} :
        i = v /\ c = b /\ p = NoPending
  BY <1>4
<1>7. proc' = [proc EXCEPT !.interval = i, !.stop = c, !.pending = p]
  BY <1>3, <1>6
<1>8. /\ proc' \in ProcType /\ proc'.interval = i /\ proc'.node = proc.node
      /\ proc'.pending = p
  BY <1>1, <1>7 DEF ProcType
<1>9. QED  BY <1>3, <1>5, <1>6, <1>8 DEF Confirms, Quiet

(* A process that has just been started. *)
LEMMA StartedFields ==
  Started \in ProcType /\ Started.node = 0 /\ Started.pending = NoPending
<1>1. PICK y \in BOOLEAN, z \in BOOLEAN : y = TRUE /\ z = FALSE
  OBVIOUS
<1>2. FirstInterval \in PollIntervals
  BY ProcessAssumption
<1>3. [running |-> y, stop |-> z, node |-> 0, interval |-> FirstInterval,
       pending |-> NoPending] \in ProcType
  BY <1>2 DEF ProcType
<1>4. QED  BY <1>1, <1>3 DEF Started

(* Every step of run_node, killing and starting it included, is one of these. *)
LEMMA ProcessStepKinds ==
  ASSUME BaseInv, Exit \/ Receive \/ CallFails \/ Interrupt \/ Restart
  PROVE  Stays \/ Leaves \/ Joins \/ Runs \/ Confirms \/ GivesUp
<1>1. /\ proc \in ProcType
      /\ Answered("enroll", 200) => call.answer.node \in Nat
  BY DEF BaseInv, RecordsOK, ProcOK, EnrolOK
<1>2. CASE Exit
  <2>1. /\ UNCHANGED <<vars, call, late, executions>> /\ ~InCall
        /\ proc' = [proc EXCEPT !.running = FALSE]
    BY <1>2 DEF Exit
  <2>2. ~InCall'
    BY <2>1 DEF InCall
  <2>3. QED  BY <1>1, <2>1, <2>2, ProcUpdates DEF Stays, Quiet, SameProc
<1>3. CASE Interrupt
  <2>1. /\ UNCHANGED <<vars, late, executions>> /\ call' = NoCall
        /\ proc' = [proc EXCEPT !.stop = TRUE]
    BY <1>3 DEF Interrupt
  <2>2. ~InCall'
    BY <2>1 DEF InCall
  <2>3. QED  BY <1>1, <2>1, <2>2, ProcUpdates DEF Stays, Quiet, SameProc
<1>4. CASE Restart
  <2>1. UNCHANGED <<vars, late, executions>> /\ call' = NoCall /\ proc' = Started
    BY <1>4 DEF Restart
  <2>2. ~InCall'
    BY <2>1 DEF InCall
  <2>3. QED  BY <2>1, <2>2, StartedFields DEF Leaves, Quiet
<1>5. CASE CallFails
  <2>1. /\ UNCHANGED vars /\ call' = NoCall /\ InCall
        /\ Disconnected \/ Retry
        /\ late' = late \/ late' = late \cup {call.request}
    BY <1>5 DEF CallFails
  <2>2. ~InCall' /\ call.request = NextRequest
    BY <2>1 DEF InCall, BaseInv, CallShape
  <2>3. /\ executions' = executions
        /\ proc' = proc \/ proc' = [proc EXCEPT !.running = FALSE]
    BY <2>1 DEF Disconnected, Retry
  <2>4. QED  BY <1>1, <2>1, <2>2, <2>3, ProcUpdates DEF Stays, Quiet, SameProc
<1>6. CASE Receive
  <2>1. /\ UNCHANGED vars /\ call' = NoCall /\ InCall /\ late' = late
        /\ OnAnswer(call.request.kind, call.answer)
    BY <1>6 DEF Receive
  <2>2. ~InCall'
    BY <2>1 DEF InCall
  <2> DEFINE k == call.request.kind
             a == call.answer
  <2>3. CASE k = "enroll" /\ a.status = 200 /\ Enrolled(a)
    <3>1. Answered("enroll", 200) /\ executions' = executions
          /\ proc' = [proc EXCEPT !.node = a.node]
      BY <2>1, <2>3 DEF Answered, Enrolled
    <3>2. QED  BY <1>1, <2>1, <2>2, <3>1, ProcUpdates DEF Joins, Quiet
  <2>4. CASE Retry \/ NothingToDo(a)
    <3>1. executions' = executions /\ proc' = proc
      BY <2>4 DEF Retry, NothingToDo
    <3>2. QED  BY <1>1, <2>1, <2>2, <3>1 DEF Stays, Quiet, SameProc
  <2>5. CASE k = "poll" /\ a.status = 200 /\ Execute(a)
    <3>1. TaskAnswered
      BY <2>1, <2>5 DEF TaskAnswered, Answered, Execute
    <3>2. QED  BY <2>1, <2>2, <2>5, <3>1, ExecuteRuns
  <2>6. CASE k = "submit" /\ a.status = 200 /\ Acknowledged(a)
    BY <2>1, <2>2, <2>6, AcknowledgedConfirms DEF Answered
  <2>7. CASE k = "submit" /\ a.status = 409 /\ ResultRejected
    <3>1. /\ Answered("submit", 409) /\ executions' = executions
          /\ proc' = [proc EXCEPT !.pending = NoPending]
      BY <2>1, <2>7 DEF Answered, ResultRejected
    <3>2. QED  BY <1>1, <2>1, <2>2, <3>1, ProcUpdates DEF GivesUp, Quiet, SameProc
  <2>8. CASE SessionLost
    <3>1. /\ executions' = executions
          /\ proc' = [proc EXCEPT !.node = 0, !.pending = NoPending]
      BY <2>8 DEF SessionLost
    <3>2. QED  BY <1>1, <2>1, <2>2, <3>1, ProcUpdates DEF Leaves, Quiet
  <2>9. CASE Disconnected
    <3>1. executions' = executions /\ proc' = [proc EXCEPT !.running = FALSE]
      BY <2>9 DEF Disconnected
    <3>2. QED  BY <1>1, <2>1, <2>2, <3>1, ProcUpdates DEF Stays, Quiet, SameProc
  <2>10. QED
    BY <2>1, <2>3, <2>4, <2>5, <2>6, <2>7, <2>8, <2>9 DEF OnAnswer
<1>7. QED  BY <1>2, <1>3, <1>4, <1>5, <1>6

(* An answer is an answer to what run_node asks for now. *)
LEMMA AnsweredIsAsked ==
  ASSUME CallShape, NEW kind, NEW status, Answered(kind, status)
  PROVE  NextRequest.kind = kind
BY DEF CallShape, Answered

(* A step of run_node that executes nothing gives its result up or keeps it,
   and takes no session that is not its own. *)
LEMMA KindsSettle ==
  ASSUME BaseInv, Stays \/ Leaves \/ Joins \/ Confirms \/ GivesUp
  PROVE  Settling
<1>1. /\ proc \in ProcType /\ proc.node <= seq.node /\ OwnSession /\ CallShape
      /\ seq.node \in Nat /\ 0 \notin DOMAIN nodes
  BY DEF BaseInv, RecordsOK, ProcOK, ServerInv, LedgerInv, SeqOK
<1>2. /\ UNCHANGED vars /\ executions' = executions /\ proc' \in ProcType
      /\ \A r \in late' : r \in late \/ r = NextRequest
  BY DEF Stays, Leaves, Joins, Confirms, GivesUp, Quiet
<1>3. nodes' = nodes
  BY <1>2 DEF vars
<1>4. CASE Stays
  BY <1>1, <1>2, <1>3, <1>4 DEF Settling, Stays, SameProc, OwnSession
<1>5. CASE Leaves
  BY <1>1, <1>2, <1>3, <1>5 DEF Settling, Leaves, OwnSession
<1>6. CASE Joins
  <2>1. /\ call.answer.node \in 1..seq.node
        /\ call.answer.node \in DOMAIN nodes => nodes[call.answer.node].profile = Profile
    BY <1>6 DEF Joins, BaseInv, EnrolOK
  <2>2. NextRequest.kind = "enroll"
    BY <1>1, <1>6, AnsweredIsAsked DEF Joins
  <2>3. proc.pending = NoPending
    BY <2>2, NextRequestFields DEF BaseInv, RecordsOK, ProcOK, Held
  <2>4. /\ proc'.node = call.answer.node /\ proc'.pending = NoPending
    BY <1>6, <2>3 DEF Joins
  <2>5. QED  BY <1>1, <1>2, <1>3, <2>1, <2>4 DEF Settling, OwnSession
<1>7. CASE Confirms
  BY <1>1, <1>2, <1>3, <1>7 DEF Settling, Confirms, OwnSession
<1>8. CASE GivesUp
  BY <1>1, <1>2, <1>3, <1>8 DEF Settling, GivesUp, SameProc, OwnSession
<1>9. QED  BY <1>4, <1>5, <1>6, <1>7, <1>8

(* An execution is counted against its task and no other. *)
LEMMA RunsCounts ==
  ASSUME BaseInv, Runs
  PROVE  /\ call.answer.task.id \in 1..MaxTaskIds
         /\ executions' \in [1..MaxTaskIds -> 0..2]
         /\ \A i \in 1..MaxTaskIds :
              executions'[i] = IF i # call.answer.task.id THEN executions[i]
                               ELSE IF executions[i] < 2 THEN executions[i] + 1
                               ELSE executions[i]
         /\ \A i \in 1..MaxTaskIds :
              Executed(i)' <=> Executed(i) \/ i = call.answer.task.id
<1> DEFINE j == call.answer.task.id
<1>1. j \in 1..seq.task
  BY DEF BaseInv, PollOK, Runs
<1>2. /\ seq.task \in Nat /\ seq.task <= MaxTaskIds /\ MaxTaskIds \in Nat
      /\ executions \in [1..MaxTaskIds -> 0..2]
  BY BoundsAssumption DEF BaseInv, RecordsOK, ExecutedOK, ServerInv, LedgerInv, SeqOK
<1>3. executions' = [executions EXCEPT ![j] = IF @ < 2 THEN @ + 1 ELSE @]
  BY DEF Runs
<1> HIDE DEF j
<1>4. j \in 1..MaxTaskIds
  BY <1>1, <1>2
<1>5. executions[j] \in 0..2
  BY <1>2, <1>4
<1>6. executions' \in [1..MaxTaskIds -> 0..2]
  BY <1>2, <1>3, <1>4, <1>5
<1>7. \A i \in 1..MaxTaskIds :
        executions'[i] = IF i # j THEN executions[i]
                         ELSE IF executions[i] < 2 THEN executions[i] + 1 ELSE executions[i]
  BY <1>2, <1>3, <1>4
<1>8. \A i \in 1..MaxTaskIds : executions[i] \in 0..2
  BY <1>2
<1>9. \A i \in 1..MaxTaskIds : Executed(i)' <=> Executed(i) \/ i = j
  BY <1>7, <1>8 DEF Executed
<1>10. QED  BY <1>4, <1>6, <1>7, <1>9 DEF j

(* An execution leaves the result of a task of the present session. *)
LEMMA RunsKeepsRecords ==
  ASSUME BaseInv, Runs PROVE RecordsOK'
<1> DEFINE t == call.answer.task
<1>1. /\ RecordsOK /\ CallShape /\ ServerInv /\ MaxTaskIds \in Nat /\ seq.task \in Nat
  BY BoundsAssumption DEF BaseInv, RecordsOK, ServerInv, LedgerInv, SeqOK
<1>2. /\ nodes' = nodes /\ tasks' = tasks /\ seq' = seq /\ late' = late
      /\ UNCHANGED vars
  BY DEF Runs, Quiet, vars
<1>3. /\ t.id \in 1..seq.task /\ (t.type = "SLEEP" => t.interval \in PollIntervals)
      /\ t.id \in DOMAIN tasks =>
           /\ tasks[t.id].node = proc.node /\ tasks[t.id].type = t.type
           /\ tasks[t.id].interval = t.interval /\ tasks[t.id].status # "queued"
  BY DEF BaseInv, PollOK, Runs
<1>4. proc.node # 0
  BY <1>1, AnsweredIsAsked, NextRequestFields DEF Runs, TaskAnswered
<1>5. /\ proc' \in ProcType /\ proc'.node = proc.node /\ proc'.interval = proc.interval
      /\ ResultOf(t, proc'.pending)
  BY DEF Runs, Quiet, SameProc
<1>6. /\ executions' \in [1..MaxTaskIds -> 0..2]
      /\ \A i \in 1..MaxTaskIds : Executed(i)' <=> Executed(i) \/ i = t.id
      /\ t.id \in 1..MaxTaskIds
  BY RunsCounts
<1> HIDE DEF t
<1>7. ServerInv'
  BY <1>1, <1>2, StayIsSteady DEF Steady
<1>8. IsResult(proc.pending)'
  BY <1>2, <1>3, <1>5 DEF IsResult, ResultOf
<1>9. ProcOK'
  <2>1. proc'.node <= seq'.node
    BY <1>1, <1>2, <1>5 DEF RecordsOK, ProcOK
  <2>2. Executed(proc.pending.task)'
    BY <1>5, <1>6 DEF ResultOf, Executed
  <2>3. proc'.pending.type \in Reports => proc'.pending.result.interval = proc'.interval
    BY <1>5 DEF ResultOf
  <2>4. QED  BY <1>4, <1>5, <1>8, <2>1, <2>2, <2>3 DEF ProcOK
<1>10. LateOK'
  <2> SUFFICES ASSUME NEW r \in late PROVE RequestOK(r)'
    BY <1>2 DEF LateOK
  <2>1. RequestOK(r)
    BY <1>1 DEF RecordsOK, LateOK
  <2>2. r.kind = "submit" => r.pending.task \in 1..MaxTaskIds
    BY <1>1, <2>1 DEF RequestOK, IsResult, ServerInv
  <2>3. QED  BY <1>2, <1>6, <2>1, <2>2 DEF RequestOK, IsResult
<1>11. ExecutedOK'
  <2> SUFFICES ASSUME NEW i \in 1..MaxTaskIds, Executed(i)'
               PROVE  i <= seq.task /\ (i \in DOMAIN tasks => tasks[i].status # "queued")
    BY <1>2, <1>6 DEF ExecutedOK
  <2>1. CASE Executed(i)
    BY <1>1, <2>1 DEF RecordsOK, ExecutedOK
  <2>2. CASE i = t.id
    BY <1>1, <1>3, <2>2
  <2>3. QED  BY <1>6, <2>1, <2>2
<1>12. OwnSession'
  BY <1>1, <1>2, <1>5 DEF RecordsOK, OwnSession
<1>13. HeldOK'
  BY <1>2, <1>3, <1>5 DEF HeldOK, ResultOf
<1>14. QED  BY <1>7, <1>9, <1>10, <1>11, <1>12, <1>13 DEF RecordsOK

(* The steps of the composition, sorted for the proofs below. *)
CrowdedNext == SessionNext \/ (OtherNodes /\ UNCHANGED session)

(* Every step of the composition is one of these kinds. *)
LEMMA CrowdedKinds ==
  ASSUME BaseInv, [CrowdedNext]_session_vars
  PROVE  \/ MakeCall
         \/ Serve
         \/ OutsideStep
         \/ \E r \in late : ServeLate(r)
         \/ Stays \/ Leaves \/ Joins \/ Runs \/ Confirms \/ GivesUp
<1>1. ServerInv
  BY DEF BaseInv, RecordsOK
<1>2. Exit \/ Receive \/ CallFails \/ Interrupt \/ Restart
        => Stays \/ Leaves \/ Joins \/ Runs \/ Confirms \/ GivesUp
  BY ProcessStepKinds
<1>3. (Environment /\ UNCHANGED session) \/ (OtherNodes /\ UNCHANGED session)
          \/ UNCHANGED session_vars
        => OutsideStep
  BY <1>1, OutsideIsSteady
<1>4. \/ MakeCall \/ Serve \/ (\E r \in late : ServeLate(r))
      \/ Exit \/ Receive \/ CallFails \/ Interrupt \/ Restart
      \/ Environment /\ UNCHANGED session
      \/ OtherNodes /\ UNCHANGED session
      \/ UNCHANGED session_vars
  BY DEF CrowdedNext, SessionNext, ProcessStep
<1>5. QED
  BY <1>2, <1>3, <1>4

(* No answer is under way after a step of run_node that ends an exchange. *)
LEMMA KindsEndTheCall ==
  ASSUME Stays \/ Leaves \/ Joins \/ Runs \/ Confirms \/ GivesUp
  PROVE  ~InCall' /\ UNCHANGED vars
BY DEF Stays, Leaves, Joins, Runs, Confirms, GivesUp, Quiet

(* The first layer is inductive. *)
LEMMA BaseStep ==
  ASSUME BaseInv, [CrowdedNext]_session_vars PROVE BaseInv'
<1>1. CASE Stays \/ Leaves \/ Joins \/ Confirms \/ GivesUp
  <2>1. RecordsOK'
    BY <1>1, KindsSettle, SettlingKeepsRecords DEF BaseInv
  <2>2. QED  BY <1>1, <2>1, KindsEndTheCall, NoCallNoAnswer DEF BaseInv
<1>2. CASE Runs
  BY <1>2, RunsKeepsRecords, KindsEndTheCall, NoCallNoAnswer DEF BaseInv
<1>3. QED
  BY <1>1, <1>2, CrowdedKinds, MakeCallKeepsBase, ServeKeepsBase, LateKeepsBase,
     OutsideKeepsBase

(* The first layer holds always, with other nodes and without them. *)
LEMMA CrowdedBase == CrowdedSpec => []BaseInv
<1>1. BaseInv /\ [CrowdedNext]_session_vars => BaseInv'
  BY BaseStep
<1>2. QED
  BY <1>1, BaseInit, PTL DEF CrowdedSpec, CrowdedNext

(* run_node keeps its local variables typed: a result is only held while there
   is a session, and for a task that was given out. *)
LEMMA BaseTypes == BaseInv => SessionTypeOK
<1> SUFFICES ASSUME BaseInv PROVE SessionTypeOK
  OBVIOUS
<1>1. /\ seq.node \in Nat /\ seq.node <= MaxNodeIds /\ MaxNodeIds \in Nat
      /\ seq.task \in Nat /\ seq.task <= MaxTaskIds /\ MaxTaskIds \in Nat
  BY BoundsAssumption DEF BaseInv, RecordsOK, ServerInv, LedgerInv, SeqOK
<1>2. proc.node \in Nat /\ proc.node <= seq.node /\ proc.interval \in PollIntervals
  BY DEF BaseInv, RecordsOK, ProcOK, ProcType
<1>3. Held => proc.pending.task \in 1..seq.task /\ proc.node # 0
  BY DEF BaseInv, RecordsOK, ProcOK, IsResult
<1>4. executions \in [1..MaxTaskIds -> 0..2]
  BY DEF BaseInv, RecordsOK, ExecutedOK
<1>5. QED  BY <1>1, <1>2, <1>3, <1>4 DEF SessionTypeOK, Held

(* Whatever the Teamserver, the connection and the other nodes do, run_node
   holds a result only while it has a session, and every number it keeps was
   given out by the Teamserver. *)
THEOREM SessionTypeCorrect == CrowdedSpec => []SessionTypeOK
BY CrowdedBase, BaseTypes, PTL

(* A task that waits in the queue has never been executed: over lost answers,
   late requests, restarts and re-enrolments, what was run is not queued again. *)
THEOREM ExecutedNeverQueued ==
  CrowdedSpec =>
    [](\A i \in DOMAIN tasks :
         tasks[i].status = "queued" => i \in 1..MaxTaskIds /\ executions[i] = 0)
<1>1. ASSUME BaseInv, NEW i \in DOMAIN tasks, tasks[i].status = "queued"
      PROVE  i \in 1..MaxTaskIds /\ executions[i] = 0
  <2>1. i \in 1..MaxTaskIds
    BY <1>1, BoundsAssumption DEF BaseInv, RecordsOK, ServerInv, LedgerInv, SeqOK
  <2>2. ~Executed(i) /\ executions[i] \in 0..2
    BY <1>1, <2>1 DEF BaseInv, RecordsOK, ExecutedOK
  <2>3. QED  BY <2>1, <2>2 DEF Executed
<1>2. BaseInv => \A i \in DOMAIN tasks :
        tasks[i].status = "queued" => i \in 1..MaxTaskIds /\ executions[i] = 0
  BY <1>1
<1>3. QED  BY <1>2, CrowdedBase, PTL

-----------------------------------------------------------------------------
(* The inductive invariant, second layer: a task that was executed is not
   handed to the process again.  S are the task types left out: the two whose
   result may be refused although it is the right one, when the interval it
   reports is not the one of the Teamserver, or none. *)

(* A task in flight that was executed is the one whose result is held. *)
FlightHeld(S) ==
  \A i \in DOMAIN tasks :
    /\ i \in 1..MaxTaskIds /\ Executed(i) /\ tasks[i].status = "dispatched"
    /\ tasks[i].node = proc.node /\ tasks[i].type \notin S
    => Held /\ proc.pending.task = i

PollFresh(S) ==
  TaskAnswered /\ call.answer.task.type \notin S => ~Executed(call.answer.task.id)

RefusedSettled(S) ==
  /\ Answered("submit", 409) /\ proc.pending.type \notin S
  /\ proc.pending.task \in DOMAIN tasks
  => ~Live(tasks[proc.pending.task])

(* A late submission for the held task carries the held result. *)
LateSame(S) ==
  \A r \in late :
    /\ r.kind = "submit" /\ r.node = proc.node
    /\ Held /\ r.pending.task = proc.pending.task /\ proc.pending.type \notin S
    => r.pending = proc.pending

OnceInv(S) == FlightHeld(S) /\ PollFresh(S) /\ RefusedSettled(S) /\ LateSame(S)

(* What the layer needs to know of intervals. *)
Agrees(S) ==
  \/ S = Reports
  \/ /\ Held /\ Authentic(nodes, proc.node)
     /\ ~AnswersRetry(proc.node, proc.pending.task, Mine)
     => nodes[proc.node].poll_interval = proc.interval

(* The executed tasks that are still there were given out, and are not queued. *)
LEMMA ExecutedTask ==
  ASSUME RecordsOK, NEW i \in DOMAIN tasks, i \in 1..MaxTaskIds, Executed(i)
  PROVE  i \in 1..seq.task /\ (Live(tasks[i]) => tasks[i].status = "dispatched")
<1>1. i \in 1..seq.task
  BY DEF RecordsOK, ServerInv, LedgerInv
<1>2. tasks[i].status # "queued"
  BY DEF RecordsOK, ExecutedOK
<1>3. QED  BY <1>1, <1>2 DEF Live, LIVE_TASK_STATUSES

(* The Teamserver brings no executed task back into flight. *)
LEMMA ServerKeepsFlight ==
  ASSUME RecordsOK, NEW S, FlightHeld(S), LateSame(S), NEW m, Steady(m), ProcessWaits
  PROVE  FlightHeld(S)' /\ LateSame(S)'
<1>1. proc' = proc /\ executions' = executions /\ \A r \in late' : r \in late
  BY DEF ProcessWaits
<1>2. ASSUME NEW i \in DOMAIN tasks', i \in 1..MaxTaskIds, Executed(i),
             tasks'[i].status = "dispatched", tasks'[i].node = proc.node,
             tasks'[i].type \notin S
      PROVE  Held /\ proc.pending.task = i
  <2>1. i \in 1..seq.task
    BY <1>2 DEF RecordsOK, ExecutedOK, ServerInv, LedgerInv, SeqOK
  <2>2. i \in DOMAIN tasks /\ AsAsked(tasks[i], tasks'[i])
    BY <1>2, <2>1, ExecutedStays
  <2>3. Live(tasks[i]) /\ tasks[i].node = proc.node /\ tasks[i].type \notin S
    BY <1>2, <2>2 DEF AsAsked, SameTask, Live, LIVE_TASK_STATUSES
  <2>4. tasks[i].status = "dispatched"
    BY <1>2, <2>2, <2>3, ExecutedTask
  <2>5. QED  BY <1>2, <2>2, <2>3, <2>4 DEF FlightHeld
<1>3. FlightHeld(S)'
  BY <1>1, <1>2 DEF FlightHeld, Executed, Held
<1>4. LateSame(S)'
  BY <1>1 DEF LateSame, Held
<1>5. QED  BY <1>3, <1>4

(* A steady step of the Teamserver preserves the second layer. *)
LEMMA ServerKeepsOnce ==
  ASSUME BaseInv, NEW S, OnceInv(S), NEW m, Steady(m), ProcessWaits, call' = call
  PROVE  OnceInv(S)'
<1>1. RecordsOK
  BY DEF BaseInv
<1>2. proc' = proc /\ executions' = executions
  BY DEF ProcessWaits
<1>3. FlightHeld(S)' /\ LateSame(S)'
  BY <1>1, ServerKeepsFlight DEF OnceInv
<1>4. PollFresh(S)'
  BY <1>2 DEF OnceInv, PollFresh, TaskAnswered, Answered, InCall, Executed
<1>5. RefusedSettled(S)'
  <2> SUFFICES ASSUME Answered("submit", 409), proc.pending.type \notin S,
                      proc.pending.task \in DOMAIN tasks'
               PROVE  ~Live(tasks'[proc.pending.task])
    BY <1>2 DEF RefusedSettled, Answered, InCall
  <2>1. NextRequest.kind = "submit"
    BY AnsweredIsAsked DEF BaseInv
  <2>2. proc.pending.task \in 1..seq.task
    BY <1>1, <2>1, NextRequestFields DEF RecordsOK, ProcOK, IsResult
  <2>3. QED
    BY <1>1, <2>2, ExecutedStays DEF OnceInv, RefusedSettled, AsAsked
<1>6. QED  BY <1>3, <1>4, <1>5 DEF OnceInv

(* Only a wrong interval gets the result of a task in flight refused. *)
LEMMA RefusedIsSettled ==
  ASSUME RecordsOK, RecordsOK', NEW S, Agrees(S), Held, Refuses, ProcessWaits,
         proc.pending.type \notin S, proc.pending.task \in DOMAIN tasks'
  PROVE  ~Live(tasks'[proc.pending.task])
<1> DEFINE i == proc.pending.task
           n == proc.node
<1>1. proc' = proc /\ executions' = executions
  BY DEF ProcessWaits
<1>2. /\ IsResult(proc.pending) /\ n # 0 /\ n \in 0..seq.node /\ Executed(i)
      /\ proc.pending.type \in Reports => proc.pending.result.interval = proc.interval
  BY DEF RecordsOK, ProcOK, ProcType, ServerInv, LedgerInv, SeqOK
<1>3. Mine.status = proc.pending.status /\ Mine.result = proc.pending.result
  BY <1>2, ResultIsSubmission DEF Mine
<1> HIDE DEF i, n
<1>4. SUFFICES ASSUME Live(tasks'[i]) PROVE FALSE
  BY DEF i
<1>5. tasks'[i].node = n /\ tasks'[i].type = proc.pending.type
  BY <1>1 DEF RecordsOK, HeldOK, Held, i, n
<1>6. tasks'[i].status = "dispatched"
  <2>1. i \in 1..MaxTaskIds
    BY BoundsAssumption DEF RecordsOK, ServerInv, LedgerInv, SeqOK, i
  <2>2. tasks'[i].status # "queued"
    BY <1>1, <1>2, <2>1 DEF RecordsOK, ExecutedOK, Executed, i
  <2>3. QED  BY <1>4, <2>2 DEF Live, LIVE_TASK_STATUSES
<1>7. ~MatchesContract(tasks'[i], nodes'[n], Mine)
  BY <1>5, <1>6 DEF Refuses, AcceptsResult, i, n
<1>8. Authentic(nodes', n) /\ Steady(0) /\ ~AnswersRetry(n, i, Mine)
  BY DEF Refuses, i, n
<1>9. proc.pending.type \in Reports => nodes'[n].poll_interval = proc.interval
  <2>1. /\ n \in DOMAIN nodes /\ SameSession(nodes[n], nodes'[n])
        /\ nodes'[n].poll_interval = nodes[n].poll_interval
    BY <1>2, <1>8, NodeStays DEF Authentic
  <2>2. Authentic(nodes, n)
    BY <1>8, <2>1 DEF Authentic, SameSession
  <2>3. QED  BY <1>8, <2>1, <2>2 DEF Agrees, i, n
<1>10. CASE proc.pending.status = "completed"
  BY <1>2, <1>3, <1>5, <1>7, <1>9, <1>10 DEF MatchesContract, IsResult, Reports
<1>11. CASE proc.pending.status = "failed"
  BY <1>2, <1>3, <1>7, <1>11 DEF MatchesContract, IsResult, NODE_FAILURE_CODES
<1>12. QED  BY <1>2, <1>10, <1>11 DEF IsResult, PendingType

(* Serve hands out no executed task, and refuses no result of a task in flight. *)
LEMMA ServeKeepsOnce ==
  ASSUME BaseInv, BaseInv', NEW S, OnceInv(S), Agrees(S), Serve
  PROVE  OnceInv(S)'
<1>1. RecordsOK /\ RecordsOK' /\ CallShape
  BY DEF BaseInv
<1>2. PICK lag \in Lags : Handle(NextRequest, lag, TRUE)
  <2>1. call.request = NextRequest
    BY <1>1 DEF Serve, Unanswered, CallShape
  <2>2. PICK lag \in Lags : Handle(call.request, lag, TRUE)
    BY DEF Serve
  <2>3. Handle(NextRequest, lag, TRUE)
    BY <2>1, <2>2
  <2>4. QED  BY <2>3
<1>3. Steady(0) \/ Steady(proc.node)
  BY <1>1, <1>2, CallIsOK, HandleIsSteady, NextRequestFields DEF RecordsOK
<1>4. ProcessWaits /\ proc' = proc /\ executions' = executions
  BY DEF Serve, ProcessWaits
<1>5. FlightHeld(S)' /\ LateSame(S)'
  BY <1>1, <1>3, <1>4, ServerKeepsFlight DEF OnceInv
<1>6. PollFresh(S)'
  <2> DEFINE t == call'.answer.task
  <2> SUFFICES ASSUME TaskAnswered', t.type \notin S, Executed(t.id) PROVE FALSE
    BY <1>4 DEF PollFresh, Executed
  <2>1. t = TaskFor(proc.node) /\ TaskFor(proc.node) # NoTask /\ ~Held
    BY <1>1, ServeAnswers, NextRequestFields DEF TaskAnswered
  <2>2. /\ t.id \in 1..seq'.task /\ t.id \in DOMAIN tasks' /\ t.type = tasks'[t.id].type
        /\ tasks'[t.id].node = proc.node /\ tasks'[t.id].status = "dispatched"
    BY <1>1, <2>1, TaskForGives DEF RecordsOK
  <2> HIDE DEF t
  <2>3. t.id \in 1..MaxTaskIds
    BY <1>1, <2>2, BoundsAssumption DEF RecordsOK, ServerInv, LedgerInv, SeqOK
  <2>4. Held'
    BY <1>4, <1>5, <2>2, <2>3 DEF FlightHeld, Executed
  <2>5. QED  BY <1>4, <2>1, <2>4 DEF Held
<1>7. RefusedSettled(S)'
  <2> SUFFICES ASSUME Answered("submit", 409)', proc.pending.type \notin S,
                      proc.pending.task \in DOMAIN tasks'
               PROVE  ~Live(tasks'[proc.pending.task])
    BY <1>4 DEF RefusedSettled
  <2>1. Refuses /\ Held
    BY <1>1, ServeAnswers, NextRequestFields
  <2>2. QED  BY <1>1, <1>4, <2>1, RefusedIsSettled
<1>8. QED  BY <1>5, <1>6, <1>7 DEF OnceInv

(* A step of run_node that ends an exchange leaves only tasks to look at. *)
LEMMA KindKeepsOnce ==
  ASSUME NEW S, FlightHeld(S)', LateSame(S)', ~InCall'
  PROVE  OnceInv(S)'
<1>1. ~TaskAnswered' /\ ~Answered("submit", 409)'
  BY NoCallNoAnswer
<1>2. QED  BY <1>1 DEF OnceInv, PollFresh, RefusedSettled

(* run_node gives up no result of a task in flight, and takes up no session in
   which a task it executed is in flight. *)
LEMMA SettlingKeepsOnce ==
  ASSUME BaseInv, NEW S, OnceInv(S), Stays \/ Leaves \/ Joins \/ Confirms \/ GivesUp
  PROVE  OnceInv(S)'
<1>1. /\ RecordsOK /\ FlightHeld(S) /\ LateSame(S) /\ RefusedSettled(S) /\ SubmitOK /\ HeldOK
      /\ ServerInv /\ 0 \notin DOMAIN nodes
  BY DEF BaseInv, RecordsOK, OnceInv, ServerInv, LedgerInv
<1>2. /\ ~InCall' /\ tasks' = tasks /\ executions' = executions
  BY KindsEndTheCall DEF Stays, Leaves, Joins, Confirms, GivesUp, vars
<1>3. CASE Stays
  <2>1. /\ proc'.pending = proc.pending /\ proc'.node = proc.node
        /\ \A r \in late' : r \in late \/ r = NextRequest
    BY <1>3 DEF Stays, SameProc
  <2>2. FlightHeld(S)'
    BY <1>1, <1>2, <2>1 DEF FlightHeld, Executed, Held
  <2>3. LateSame(S)'
    BY <1>1, <2>1, NextRequestFields DEF LateSame, Held
  <2>4. QED  BY <1>2, <2>2, <2>3, KindKeepsOnce
<1>4. CASE Leaves
  <2>1. proc'.node = 0 /\ ~Held'
    BY <1>4 DEF Leaves, Held
  <2>2. \A i \in DOMAIN tasks : tasks[i].status = "dispatched" => tasks[i].node # 0
    BY <1>1 DEF ServerInv, LedgerInv, LedgerOK, OwnedOK, Authentic, Live, LIVE_TASK_STATUSES
  <2>3. QED  BY <1>2, <2>1, <2>2, KindKeepsOnce DEF FlightHeld, LateSame
<1>5. CASE Joins
  <2>1. /\ proc'.node = call.answer.node /\ late' = late
        /\ \A r \in late : r.node # call.answer.node
        /\ \A i \in DOMAIN tasks :
             Live(tasks[i]) /\ i \in 1..MaxTaskIds /\ Executed(i)
               => tasks[i].node # call.answer.node
    BY <1>5 DEF Joins, BaseInv, EnrolOK
  <2>2. FlightHeld(S)'
    BY <1>2, <2>1 DEF FlightHeld, Executed, Live, LIVE_TASK_STATUSES
  <2>3. LateSame(S)'
    BY <2>1 DEF LateSame
  <2>4. QED  BY <1>2, <2>2, <2>3, KindKeepsOnce
<1>6. CASE Confirms \/ GivesUp
  <2>1. proc'.node = proc.node /\ ~Held'
    BY <1>6 DEF Confirms, GivesUp, SameProc, Held
  <2>2. ASSUME NEW i \in DOMAIN tasks, i \in 1..MaxTaskIds, Executed(i),
               tasks[i].status = "dispatched", tasks[i].node = proc.node,
               tasks[i].type \notin S
        PROVE  FALSE
    <3>1. Held /\ proc.pending.task = i /\ Live(tasks[i])
      BY <1>1, <2>2 DEF FlightHeld, Live, LIVE_TASK_STATUSES
    <3>2. proc.pending.type \notin S
      BY <1>1, <2>2, <3>1 DEF HeldOK
    <3>3. QED
      BY <1>1, <1>6, <2>2, <3>1, <3>2 DEF Confirms, GivesUp, SubmitOK, RefusedSettled
  <2>3. FlightHeld(S)'
    BY <1>2, <2>1, <2>2 DEF FlightHeld, Executed
  <2>4. LateSame(S)'
    BY <2>1 DEF LateSame
  <2>5. QED  BY <1>2, <2>3, <2>4, KindKeepsOnce
<1>7. QED  BY <1>3, <1>4, <1>5, <1>6

(* An execution: no late request knows its task, no other task is in flight. *)
LEMMA RunsKeepsOnce ==
  ASSUME BaseInv, NEW S, OnceInv(S), Runs PROVE OnceInv(S)'
<1> DEFINE t == call.answer.task
<1>1. /\ RecordsOK /\ FlightHeld(S) /\ PollFresh(S) /\ TaskAnswered /\ ~Held
  <2>1. NextRequest.kind = "poll"
    BY AnsweredIsAsked DEF Runs, TaskAnswered, BaseInv
  <2>2. QED  BY <2>1, NextRequestFields DEF BaseInv, OnceInv, Runs
<1>2. /\ ~InCall' /\ tasks' = tasks /\ late' = late /\ proc'.node = proc.node
      /\ ResultOf(t, proc'.pending)
  BY KindsEndTheCall DEF Runs, SameProc, vars
<1>3. /\ t.id \in 1..MaxTaskIds
      /\ \A i \in 1..MaxTaskIds : Executed(i)' <=> Executed(i) \/ i = t.id
  BY RunsCounts
<1> HIDE DEF t
<1>4. Held' /\ proc'.pending.task = t.id /\ proc'.pending.type = t.type
  <2>1. proc'.pending.task = t.id /\ proc'.pending.type = t.type /\ t.id # 0
    BY <1>2, <1>3 DEF ResultOf
  <2>2. NoPending.task = 0
    BY DEF NoPending
  <2>3. proc'.pending # NoPending
    BY <2>1, <2>2
  <2>4. QED  BY <2>1, <2>3 DEF Held
<1>5. FlightHeld(S)'
  BY <1>1, <1>2, <1>3, <1>4 DEF FlightHeld
<1>6. LateSame(S)'
  <2> SUFFICES ASSUME NEW r \in late, r.kind = "submit", r.pending.task = t.id,
                      t.type \notin S
               PROVE  FALSE
    BY <1>2, <1>4 DEF LateSame
  <2>1. Executed(t.id)
    BY <1>1 DEF RecordsOK, LateOK, RequestOK
  <2>2. QED  BY <1>1, <2>1 DEF PollFresh, t
<1>7. QED  BY <1>2, <1>5, <1>6, KindKeepsOnce

(* MakeCall: there is no answer yet. *)
LEMMA MakeCallKeepsOnce ==
  ASSUME NEW S, OnceInv(S), MakeCall PROVE OnceInv(S)'
<1>1. /\ UNCHANGED <<vars, proc, late, executions>>
      /\ call' = [request |-> NextRequest, answer |-> NoAnswer]
  BY DEF MakeCall
<1>2. call'.answer.status = 0 /\ tasks' = tasks
  BY <1>1 DEF NoAnswer, vars
<1>3. ~TaskAnswered' /\ ~Answered("submit", 409)'
  BY <1>2 DEF TaskAnswered, Answered
<1>4. FlightHeld(S)' /\ LateSame(S)'
  BY <1>1, <1>2 DEF OnceInv, FlightHeld, LateSame, Held, Executed
<1>5. QED  BY <1>3, <1>4 DEF OnceInv, PollFresh, RefusedSettled

(* The second layer is inductive, given what it needs to know of intervals. *)
LEMMA OnceStep ==
  ASSUME BaseInv, NEW S, OnceInv(S), Agrees(S), [CrowdedNext]_session_vars
  PROVE  OnceInv(S)'
<1>1. BaseInv' /\ RecordsOK
  BY BaseStep DEF BaseInv
<1>2. CASE OutsideStep
  BY <1>2, OutsideIsForeign, ServerKeepsOnce
<1>3. ASSUME NEW r \in late, ServeLate(r) PROVE OnceInv(S)'
  BY <1>1, <1>3, LateIsSteady, ServerKeepsOnce
<1>4. QED
  BY <1>1, <1>2, <1>3, CrowdedKinds, MakeCallKeepsOnce, ServeKeepsOnce,
     SettlingKeepsOnce, RunsKeepsOnce

(* The second layer holds at the start. *)
LEMMA OnceInit == ASSUME NEW S, SessionInit PROVE OnceInv(S)
<1>1. DOMAIN tasks = {} /\ late = {} /\ ~InCall
  BY DEF SessionInit, Init, EmptyDict, InCall
<1>2. QED
  BY <1>1 DEF OnceInv, FlightHeld, PollFresh, RefusedSettled, LateSame, TaskAnswered, Answered

(* The second layer for every type but the two that report the interval. *)
LEMMA CrowdedOnce == CrowdedSpec => [](BaseInv /\ OnceInv(Reports))
<1>1. SessionInit => BaseInv /\ OnceInv(Reports)
  BY BaseInit, OnceInit
<1>2. BaseInv /\ OnceInv(Reports) /\ [CrowdedNext]_session_vars
        => (BaseInv /\ OnceInv(Reports))'
  BY BaseStep, OnceStep DEF Agrees
<1>3. QED
  BY <1>1, <1>2, PTL DEF CrowdedSpec, CrowdedNext

(* Only an execution changes the count of executions. *)
LEMMA OnlyRunsExecutes ==
  ASSUME BaseInv, [CrowdedNext]_session_vars, executions' # executions
  PROVE  Runs
<1>1. OutsideStep => executions' = executions
  BY DEF OutsideStep, session
<1>2. QED
  BY <1>1, CrowdedKinds
     DEF MakeCall, Serve, ServeLate, Stays, Leaves, Joins, Confirms, GivesUp

(* A task that is executed again is one that reports the polling interval. *)
RepeatsOnlyReports ==
  [][\A i \in 1..MaxTaskIds :
       Executed(i) /\ executions'[i] # executions[i]
         => call.answer.task.id = i /\ call.answer.task.type \in Reports]_session_vars

(* Without any condition on the other nodes: over lost requests, late requests,
   lost answers, redelivery, restarts and displaced tombstones, run_node runs no
   task twice except SLEEP and RUNTIME_STATUS, whose results the Teamserver
   refuses when the two sides no longer agree on the interval. *)
THEOREM OnlyReportsRepeat == CrowdedSpec => RepeatsOnlyReports
<1> DEFINE A == \A i \in 1..MaxTaskIds :
                  Executed(i) /\ executions'[i] # executions[i]
                    => call.answer.task.id = i /\ call.answer.task.type \in Reports
<1>1. ASSUME BaseInv, OnceInv(Reports), [CrowdedNext]_session_vars
      PROVE  A
  <2> SUFFICES ASSUME NEW i \in 1..MaxTaskIds, Executed(i), executions'[i] # executions[i]
               PROVE  call.answer.task.id = i /\ call.answer.task.type \in Reports
    OBVIOUS
  <2>1. Runs
    BY <1>1, OnlyRunsExecutes
  <2>2. i = call.answer.task.id
    BY <1>1, <2>1, RunsCounts
  <2>3. QED  BY <1>1, <2>1, <2>2 DEF OnceInv, PollFresh, Runs
<1>2. BaseInv /\ OnceInv(Reports) /\ [CrowdedNext]_session_vars => [A]_session_vars
  BY <1>1
<1>3. QED
  BY <1>2, CrowdedOnce, PTL DEF CrowdedSpec, CrowdedNext, RepeatsOnlyReports

-----------------------------------------------------------------------------
(* The inductive invariant, third layer: the polling interval. *)

(* The Teamserver has the held result, as the outcome of its task. *)
Stored == AnswersRetry(proc.node, proc.pending.task, Mine)

SleepHeld == Held /\ proc.pending.type = "SLEEP"

(* The Teamserver is ahead of the process exactly while the process holds the
   result of a SLEEP that was accepted. *)
IntervalOK ==
  Authentic(nodes, proc.node) =>
    nodes[proc.node].poll_interval =
      IF SleepHeld /\ Stored THEN proc.pending.new_interval ELSE proc.interval

(* A task that was handed out has no accepted result. *)
PollUnstored ==
  Authentic(nodes, proc.node) /\ TaskAnswered =>
    \A s \in AnySubmission :
      s.status = "completed" => ~AnswersRetry(proc.node, call.answer.task.id, s)

(* An answer to a held SLEEP tells whether its result was accepted. *)
VerdictOK ==
  Authentic(nodes, proc.node) /\ SleepHeld =>
    /\ Answered("submit", 200) => Stored
    /\ Answered("submit", 409) => ~Stored

IntervalInv == IntervalOK /\ PollUnstored /\ VerdictOK

(* The condition: the Teamserver does not forget an accepted result while the
   process still holds it.  Tombstones give it up only when as many results of
   other tasks were pruned after it as there is room for. *)
KeepsAnswer ==
  \A n \in {proc.node}, i \in {proc.pending.task}, s \in {Mine} :
    AnswersRetry(n, i, s) => IsReset \/ AnswersRetry(n, i, s)'

AnswerKept == [][KeepsAnswer]_session_vars

(* Stored, with its three arguments named. *)
LEMMA StoredIs ==
  ASSUME NEW n, NEW i, NEW s, n = proc.node, i = proc.pending.task, s = Mine
  PROVE  /\ Stored <=> AnswersRetry(n, i, s)
         /\ proc'.node = proc.node /\ proc'.pending = proc.pending
              => (Stored' <=> AnswersRetry(n, i, s)')
<1>1. Stored <=> AnswersRetry(n, i, s)
  BY DEF Stored
<1>2. ASSUME proc'.node = proc.node, proc'.pending = proc.pending
      PROVE  Stored' <=> AnswersRetry(n, i, s)'
  <2>1. Mine' = s /\ proc'.node = n /\ proc'.pending.task = i
    BY <1>2 DEF Mine, SubmissionOf
  <2>2. QED  BY <2>1 DEF Stored, AnswersRetry
<1>3. QED  BY <1>1, <1>2

(* What the process holds, as far as it is a SLEEP. *)
LEMMA SleepFields ==
  ASSUME RecordsOK, SleepHeld
  PROVE  /\ proc.pending.task \in 1..seq.task /\ proc.node \in Nat
         /\ Mine \in AnySubmission /\ Mine.status = "completed"
         /\ proc.pending.new_interval \in PollIntervals
<1>1. IsResult(proc.pending) /\ proc.node \in Nat
  BY DEF RecordsOK, ProcOK, ProcType, SleepHeld
<1>2. proc.pending.status = "completed" /\ proc.pending.new_interval \in PollIntervals
  BY <1>1 DEF SleepHeld, IsResult
<1>3. QED  BY <1>1, <1>2, ResultIsSubmission DEF Mine

(* A step of the Teamserver that accepts no result of the process's session
   neither changes its interval nor what is stored of a SLEEP. *)
LEMMA ServerKeepsInterval ==
  ASSUME RecordsOK, IntervalOK, NEW m, Steady(m), ProcessWaits, KeepsAnswer,
         proc.node \in DOMAIN nodes => m # proc.node,
         NEW n, n = proc.node, Authentic(nodes', n)
  PROVE  /\ Authentic(nodes, n) /\ IntervalOK'
         /\ SleepHeld => (Stored' <=> Stored)
         /\ \A i \in 1..seq.task, s \in AnySubmission :
              s.status = "completed" /\ AnswersRetry(n, i, s)' => AnswersRetry(n, i, s)
<1>1. proc' = proc
  BY DEF ProcessWaits
<1>2. n \in 0..seq.node /\ n \in Nat
  BY DEF RecordsOK, ProcOK, ProcType, ServerInv, LedgerInv, SeqOK
<1>3. n \in DOMAIN nodes /\ SameSession(nodes[n], nodes'[n]) /\ m # n
  BY <1>2, NodeStays DEF Authentic
<1>4. Authentic(nodes, n) /\ nodes'[n].poll_interval = nodes[n].poll_interval
  BY <1>2, <1>3, NodeStays DEF Authentic, SameSession
<1>5. \A i \in 1..seq.task, s \in AnySubmission :
        s.status = "completed" /\ AnswersRetry(n, i, s)' => AnswersRetry(n, i, s)
  BY <1>2, <1>3 DEF Steady, TasksSteady
<1>6. ASSUME SleepHeld PROVE Stored' <=> Stored
  <2>1. PICK i, s : i = proc.pending.task /\ s = Mine
    OBVIOUS
  <2>2. i \in 1..seq.task /\ s \in AnySubmission /\ s.status = "completed"
    BY <1>6, <2>1, SleepFields
  <2>3. ~IsReset
    BY DEF IsReset, EmptyDict, Authentic
  <2>4. AnswersRetry(n, i, s) => AnswersRetry(n, i, s)'
    BY <2>1, <2>3 DEF KeepsAnswer
  <2>5. (Stored <=> AnswersRetry(n, i, s)) /\ (Stored' <=> AnswersRetry(n, i, s)')
    BY <1>1, <2>1, StoredIs
  <2>6. QED  BY <1>5, <2>2, <2>4, <2>5
<1>7. IntervalOK'
  <2>1. nodes[n].poll_interval =
          IF SleepHeld /\ Stored THEN proc.pending.new_interval ELSE proc.interval
    BY <1>4 DEF IntervalOK
  <2>2. SleepHeld' <=> SleepHeld
    BY <1>1 DEF SleepHeld, Held
  <2>3. nodes'[n].poll_interval =
          IF SleepHeld' /\ Stored' THEN proc'.pending.new_interval ELSE proc'.interval
    BY <1>1, <1>4, <1>6, <2>1, <2>2
  <2>4. QED  BY <1>1, <2>3 DEF IntervalOK
<1>8. QED  BY <1>4, <1>5, <1>6, <1>7

(* The result that is held is accepted: it is stored, and the Teamserver goes
   over to the new interval if it is that of a SLEEP. *)
LEMMA OwnAccepted ==
  ASSUME RecordsOK, IntervalOK, Steady(proc.node), ProcessWaits, Held,
         Accepts(proc.node, proc.pending.task, Mine)
  PROVE  IntervalOK' /\ Stored'
<1>1. proc' = proc
  BY DEF ProcessWaits
<1>2. PICK n, i, s : n = proc.node /\ i = proc.pending.task /\ s = Mine
  OBVIOUS
<1>3. Stored'
  <2>1. Stored' <=> AnswersRetry(n, i, s)'
    BY <1>1, <1>2, StoredIs
  <2>2. /\ i \in DOMAIN tasks' /\ tasks'[i].node = n
        /\ tasks'[i].status = s.status /\ tasks'[i].result = s.result
    BY <1>2 DEF Accepts
  <2>3. QED  BY <2>1, <2>2 DEF AnswersRetry
<1>4. ASSUME Authentic(nodes', n)
      PROVE  nodes'[n].poll_interval =
               IF SleepHeld THEN proc.pending.new_interval ELSE proc.interval
  <2>1. n \in 0..seq.node
    BY <1>2 DEF RecordsOK, ProcOK, ProcType, ServerInv, LedgerInv, SeqOK
  <2>2. Authentic(nodes, n)
    BY <1>2, <1>4, <2>1, NodeStays DEF Authentic, SameSession
  <2>3. /\ i \in DOMAIN tasks /\ n \in DOMAIN nodes'
        /\ nodes'[n].poll_interval =
             IF tasks[i].type = "SLEEP" /\ s.status = "completed" THEN tasks[i].interval
             ELSE nodes[n].poll_interval
    BY <1>2, <1>4 DEF Accepts, Authentic
  <2>4. tasks[i].type = proc.pending.type /\ tasks[i].interval = proc.pending.new_interval
    BY <1>2, <2>3 DEF RecordsOK, HeldOK
  <2>5. CASE SleepHeld
    BY <1>2, <2>3, <2>4, <2>5, SleepFields DEF SleepHeld
  <2>6. CASE ~SleepHeld
    BY <1>2, <2>2, <2>3, <2>4, <2>6 DEF SleepHeld, IntervalOK
  <2>7. QED  BY <2>5, <2>6
<1>5. SleepHeld' <=> SleepHeld
  BY <1>1 DEF SleepHeld, Held
<1>6. IntervalOK'
  BY <1>1, <1>2, <1>3, <1>4, <1>5 DEF IntervalOK
<1>7. QED  BY <1>3, <1>6

(* The outside world preserves the layer: what it accepts is not the process's. *)
LEMMA OutsideKeepsInterval ==
  ASSUME BaseInv, IntervalInv, KeepsAnswer, ProcessWaits, call' = call,
         NEW m, Steady(m), proc.node \in DOMAIN nodes => m # proc.node
  PROVE  IntervalInv'
<1>1. RecordsOK /\ IntervalOK /\ proc' = proc
  BY DEF BaseInv, IntervalInv, ProcessWaits
<1>2. PICK n : n = proc.node
  OBVIOUS
<1>3. CASE ~Authentic(nodes', n)
  BY <1>1, <1>2, <1>3 DEF IntervalInv, IntervalOK, PollUnstored, VerdictOK
<1>4. CASE Authentic(nodes', n)
  <2>1. /\ Authentic(nodes, n) /\ IntervalOK' /\ (SleepHeld => (Stored' <=> Stored))
        /\ \A i \in 1..seq.task, s \in AnySubmission :
             s.status = "completed" /\ AnswersRetry(n, i, s)' => AnswersRetry(n, i, s)
    BY <1>1, <1>2, <1>4, ServerKeepsInterval
  <2>2. \A kind, status : Answered(kind, status)' <=> Answered(kind, status)
    BY DEF Answered, InCall
  <2>3. PollUnstored'
    <3>1. PICK i : i = call.answer.task.id
      OBVIOUS
    <3>2. SUFFICES ASSUME TaskAnswered, NEW s \in AnySubmission, s.status = "completed",
                          AnswersRetry(n, i, s)'
                   PROVE  FALSE
      BY <1>1, <1>2, <2>2, <3>1 DEF PollUnstored, TaskAnswered, AnswersRetry
    <3>3. i \in 1..seq.task
      BY <3>1, <3>2 DEF BaseInv, PollOK
    <3>4. AnswersRetry(n, i, s)
      BY <2>1, <3>2, <3>3
    <3>5. QED  BY <1>2, <2>1, <3>1, <3>2, <3>4 DEF IntervalInv, PollUnstored
  <2>4. VerdictOK'
    <3>1. SleepHeld' <=> SleepHeld
      BY <1>1 DEF SleepHeld, Held
    <3>2. QED  BY <1>2, <2>1, <2>2, <3>1 DEF IntervalInv, VerdictOK
  <2>5. QED  BY <2>1, <2>3, <2>4 DEF IntervalInv
<1>5. QED  BY <1>3, <1>4

(* A late result of the process's own session is the one it still holds. *)
LEMMA LateKeepsInterval ==
  ASSUME BaseInv, BaseInv', OnceInv({}), IntervalInv, KeepsAnswer, NEW r \in late, ServeLate(r)
  PROVE  IntervalInv'
<1>1. /\ RecordsOK /\ IntervalOK /\ ProcessWaits /\ call' = call /\ proc' = proc
      /\ Steady(0) \/ (Steady(r.node) /\ AcceptsOf(r))
  BY LateIsSteady DEF BaseInv, IntervalInv, ProcessWaits
<1>2. 0 \notin DOMAIN nodes
  BY <1>1 DEF RecordsOK, ServerInv, LedgerInv
<1>3. CASE Steady(0)
  BY <1>1, <1>2, <1>3, OutsideKeepsInterval
<1>4. CASE Steady(r.node) /\ r.node # proc.node
  BY <1>1, <1>4, OutsideKeepsInterval
<1>5. CASE Steady(proc.node) /\ r.node = proc.node /\ AcceptsOf(r)
  <2> DEFINE i == r.pending.task
  <2>1. /\ r.kind = "submit" /\ i \in DOMAIN tasks /\ tasks[i].node = proc.node
        /\ tasks[i].status = "dispatched"
    BY <1>5 DEF AcceptsOf, Accepts
  <2>2. Executed(i) /\ i \in 1..MaxTaskIds
    BY <1>1, <2>1, BoundsAssumption
       DEF RecordsOK, LateOK, RequestOK, ServerInv, LedgerInv, SeqOK
  <2>3. Held /\ proc.pending.task = i
    BY <2>1, <2>2 DEF OnceInv, FlightHeld
  <2>4. r.pending = proc.pending
    BY <1>5, <2>1, <2>3 DEF OnceInv, LateSame
  <2>5. Accepts(proc.node, proc.pending.task, Mine)
    BY <1>5, <2>4 DEF AcceptsOf, Mine
  <2>6. IntervalOK' /\ Stored'
    BY <1>1, <1>5, <2>3, <2>5, OwnAccepted
  <2>7. PollUnstored'
    <3>1. ~TaskAnswered'
      <4>1. TaskAnswered' => TaskAnswered
        BY <1>1 DEF TaskAnswered, Answered, InCall
      <4>2. ~TaskAnswered
        BY <2>3, AnsweredIsAsked, NextRequestFields DEF TaskAnswered, BaseInv
      <4>3. QED  BY <4>1, <4>2
    <3>2. QED  BY <3>1 DEF PollUnstored
  <2>8. ~Answered("submit", 409)'
    <3>1. Answered("submit", 409)' => Answered("submit", 409)
      BY <1>1 DEF Answered, InCall
    <3>2. ~Answered("submit", 409)
      BY <2>1, <2>3 DEF OnceInv, RefusedSettled, Live, LIVE_TASK_STATUSES
    <3>3. QED  BY <3>1, <3>2
  <2>9. QED  BY <2>6, <2>7, <2>8 DEF IntervalInv, VerdictOK
<1>6. QED  BY <1>1, <1>3, <1>4, <1>5

(* Serve answers 200 for a stored result, 409 for one that is not, and hands
   out a task that has none. *)
LEMMA ServeKeepsInterval ==
  ASSUME BaseInv, BaseInv', IntervalInv, KeepsAnswer, Serve
  PROVE  IntervalInv'
<1>1. RecordsOK /\ RecordsOK' /\ CallShape /\ IntervalOK
  BY DEF BaseInv, IntervalInv
<1>2. PICK lag \in Lags : Handle(NextRequest, lag, TRUE)
  <2>1. call.request = NextRequest
    BY <1>1 DEF Serve, Unanswered, CallShape
  <2>2. PICK lag \in Lags : Handle(call.request, lag, TRUE)
    BY DEF Serve
  <2>3. Handle(NextRequest, lag, TRUE)
    BY <2>1, <2>2
  <2>4. QED  BY <2>3
<1>3. Steady(0) \/ (Steady(proc.node) /\ AcceptsOf(NextRequest))
  BY <1>1, <1>2, CallIsOK, HandleIsSteady, NextRequestFields DEF RecordsOK
<1>4. ProcessWaits /\ proc' = proc /\ executions' = executions
  BY DEF Serve, ProcessWaits
<1>5. PICK n, i, s : n = proc.node /\ i = proc.pending.task /\ s = Mine
  OBVIOUS
<1>6. /\ Stored <=> AnswersRetry(n, i, s)
      /\ Stored' <=> AnswersRetry(n, i, s)'
  BY <1>4, <1>5, StoredIs
<1>7. SleepHeld' <=> SleepHeld
  BY <1>4 DEF SleepHeld, Held
<1>8. PollUnstored'
  <2>1. PICK j : j = call'.answer.task.id
    OBVIOUS
  <2>2. SUFFICES ASSUME TaskAnswered', NEW q \in AnySubmission, q.status = "completed",
                        AnswersRetry(n, j, q)'
                 PROVE  FALSE
    BY <1>4, <1>5, <2>1 DEF PollUnstored, AnswersRetry
  <2>3. call'.answer.task = TaskFor(proc.node) /\ TaskFor(proc.node) # NoTask
    BY <1>1, <2>2, ServeAnswers DEF TaskAnswered
  <2>4. j \in DOMAIN tasks' /\ tasks'[j].status = "dispatched"
    BY <1>1, <2>1, <2>3, TaskForGives DEF RecordsOK
  <2>5. QED  BY <2>2, <2>4 DEF AnswersRetry
<1>9. CASE Steady(proc.node) /\ AcceptsOf(NextRequest)
  <2>1. Held /\ Accepts(proc.node, proc.pending.task, Mine)
    BY <1>9, NextRequestFields DEF AcceptsOf, Mine
  <2>2. IntervalOK' /\ Stored'
    BY <1>1, <1>4, <1>9, <2>1, OwnAccepted
  <2>3. SleepHeld => ~Answered("submit", 409)'
    <3>1. SUFFICES ASSUME SleepHeld, Answered("submit", 409)' PROVE FALSE
      OBVIOUS
    <3>2. Steady(0) /\ Authentic(nodes', n) /\ ~AnswersRetry(n, i, s)
      BY <1>1, <1>5, <3>1, ServeAnswers DEF Refuses
    <3>3. i \in 1..seq.task /\ n \in Nat /\ s \in AnySubmission /\ s.status = "completed"
      BY <1>1, <1>5, <3>1, SleepFields
    <3>4. n # 0
      BY <1>1, <1>5, <2>1 DEF RecordsOK, ProcOK
    <3>5. QED  BY <1>6, <2>2, <3>2, <3>3, <3>4 DEF Steady, TasksSteady
  <2>4. VerdictOK'
    BY <1>7, <2>2, <2>3 DEF VerdictOK
  <2>5. QED  BY <1>8, <2>2, <2>4 DEF IntervalInv
<1>10. CASE Steady(0)
  <2>1. CASE ~Authentic(nodes', n)
    BY <1>4, <1>5, <1>8, <2>1 DEF IntervalInv, IntervalOK, VerdictOK
  <2>2. CASE Authentic(nodes', n)
    <3>1. proc.node \in DOMAIN nodes => 0 # proc.node
      BY <1>1 DEF RecordsOK, ServerInv, LedgerInv
    <3>2. IntervalOK' /\ (SleepHeld => (Stored' <=> Stored))
      BY <1>1, <1>4, <1>5, <1>10, <2>2, <3>1, ServerKeepsInterval
    <3>3. SleepHeld /\ Answered("submit", 200)' => Stored'
      <4>1. SUFFICES ASSUME SleepHeld, Acknowledges PROVE Stored'
        BY <1>1, ServeAnswers
      <4>2. CASE Accepts(proc.node, proc.pending.task, Mine)
        BY <1>5, <1>6, <4>2 DEF Accepts, AnswersRetry
      <4>3. CASE AnswersRetry(proc.node, proc.pending.task, Mine)
        BY <3>2, <4>1, <4>3 DEF Stored
      <4>4. QED  BY <4>1, <4>2, <4>3 DEF Acknowledges
    <3>4. SleepHeld /\ Answered("submit", 409)' => ~Stored'
      BY <1>1, <3>2, ServeAnswers DEF Refuses, Stored
    <3>5. VerdictOK'
      BY <1>7, <3>3, <3>4 DEF VerdictOK
    <3>6. QED  BY <1>8, <3>2, <3>5 DEF IntervalInv
  <2>3. QED  BY <2>1, <2>2
<1>11. QED  BY <1>3, <1>9, <1>10

(* A step of run_node that ends an exchange leaves only the interval to look at. *)
LEMMA KindKeepsInterval ==
  ASSUME IntervalOK', ~InCall' PROVE IntervalInv'
<1>1. ~TaskAnswered' /\ \A kind, status : ~Answered(kind, status)'
  BY NoCallNoAnswer
<1>2. QED  BY <1>1 DEF IntervalInv, PollUnstored, VerdictOK

(* run_node takes over the interval of a SLEEP exactly when it was accepted. *)
LEMMA SettlingKeepsInterval ==
  ASSUME BaseInv, IntervalInv, Stays \/ Leaves \/ Joins \/ Confirms \/ GivesUp
  PROVE  IntervalInv'
<1>1. /\ RecordsOK /\ CallShape /\ IntervalOK /\ VerdictOK /\ 0 \notin DOMAIN nodes
  BY DEF BaseInv, IntervalInv, RecordsOK, ServerInv, LedgerInv
<1>2. ~InCall' /\ tasks' = tasks /\ nodes' = nodes /\ tombstones' = tombstones
  BY KindsEndTheCall DEF Stays, Leaves, Joins, Confirms, GivesUp, vars
<1>3. CASE Stays
  <2>1. /\ proc'.pending = proc.pending /\ proc'.node = proc.node
        /\ proc'.interval = proc.interval
    BY <1>3 DEF Stays, SameProc
  <2>2. Stored' <=> Stored
    BY <1>2, <2>1 DEF Stored, Mine, SubmissionOf, AnswersRetry
  <2>3. SleepHeld' <=> SleepHeld
    BY <2>1 DEF SleepHeld, Held
  <2>4. IntervalOK'
    BY <1>1, <1>2, <2>1, <2>2, <2>3 DEF IntervalOK, Authentic
  <2>5. QED  BY <1>2, <2>4, KindKeepsInterval
<1>4. CASE Leaves
  <2>1. proc'.node = 0
    BY <1>4 DEF Leaves
  <2>2. IntervalOK'
    BY <1>1, <1>2, <2>1 DEF IntervalOK, Authentic
  <2>3. QED  BY <1>2, <2>2, KindKeepsInterval
<1>5. CASE Joins
  <2>1. NextRequest.kind = "enroll"
    BY <1>1, <1>5, AnsweredIsAsked DEF Joins
  <2>2. ~Held
    BY <1>1, <2>1, NextRequestFields DEF RecordsOK, ProcOK
  <2>3. /\ proc'.node = call.answer.node /\ proc'.interval = proc.interval /\ ~SleepHeld'
    BY <1>5, <2>2 DEF Joins, SleepHeld, Held
  <2>4. call.answer.node \in DOMAIN nodes =>
          nodes[call.answer.node].poll_interval = proc.interval
    BY <1>5 DEF Joins, BaseInv, EnrolOK
  <2>5. IntervalOK'
    BY <1>2, <2>3, <2>4 DEF IntervalOK, Authentic
  <2>6. QED  BY <1>2, <2>5, KindKeepsInterval
<1>6. CASE Confirms \/ GivesUp
  <2>1. proc'.node = proc.node /\ ~SleepHeld'
    BY <1>6 DEF Confirms, GivesUp, SameProc, SleepHeld, Held
  <2>2. Held
    BY <1>1, <1>6, AnsweredIsAsked, NextRequestFields DEF Confirms, GivesUp
  <2>3. ASSUME Authentic(nodes, proc.node)
        PROVE  nodes[proc.node].poll_interval = proc'.interval
    <3>1. CASE Confirms
      BY <1>1, <2>2, <2>3, <3>1 DEF Confirms, IntervalOK, VerdictOK, SleepHeld
    <3>2. CASE GivesUp
      BY <1>1, <2>2, <2>3, <3>2 DEF GivesUp, SameProc, IntervalOK, VerdictOK
    <3>3. QED  BY <1>6, <3>1, <3>2
  <2>4. IntervalOK'
    BY <1>2, <2>1, <2>3 DEF IntervalOK, Authentic
  <2>5. QED  BY <1>2, <2>4, KindKeepsInterval
<1>7. QED  BY <1>3, <1>4, <1>5, <1>6

(* A SLEEP that was just executed is not yet stored. *)
LEMMA RunsKeepsInterval ==
  ASSUME BaseInv, BaseInv', IntervalInv, Runs PROVE IntervalInv'
<1> DEFINE t == call.answer.task
<1>1. /\ ~InCall' /\ tasks' = tasks /\ nodes' = nodes /\ tombstones' = tombstones
      /\ TaskAnswered /\ proc'.node = proc.node /\ proc'.interval = proc.interval
      /\ proc'.pending.task = t.id
  BY KindsEndTheCall DEF Runs, SameProc, ResultOf, vars
<1>2. ~Held
  BY <1>1, AnsweredIsAsked, NextRequestFields DEF TaskAnswered, BaseInv
<1>3. ASSUME Authentic(nodes, proc.node), SleepHeld', Stored' PROVE FALSE
  <2>1. IsResult(proc.pending)' /\ RecordsOK'
    BY <1>3 DEF BaseInv, RecordsOK, ProcOK, SleepHeld
  <2>2. Mine' \in AnySubmission /\ Mine'.status = "completed"
    <3>1. PICK p : p = proc'.pending
      OBVIOUS
    <3>2. p \in PendingType /\ p.status = "completed"
      BY <1>3, <2>1, <3>1 DEF IsResult, SleepHeld
    <3>3. SubmissionOf(p) \in AnySubmission /\ SubmissionOf(p).status = "completed"
      BY <3>2 DEF PendingType, SubmissionOf, AnySubmission
    <3>4. QED  BY <3>1, <3>3 DEF Mine, SubmissionOf
  <2>3. PICK s : s = Mine'
    OBVIOUS
  <2>4. AnswersRetry(proc.node, t.id, s)
    BY <1>1, <1>3, <2>3 DEF Stored, AnswersRetry
  <2>5. QED  BY <1>1, <1>3, <2>2, <2>3, <2>4 DEF IntervalInv, PollUnstored
<1>4. IntervalOK'
  BY <1>1, <1>2, <1>3 DEF IntervalInv, IntervalOK, SleepHeld, Authentic
<1>5. QED  BY <1>1, <1>4, KindKeepsInterval

(* MakeCall: nothing that the layer is about changes. *)
LEMMA MakeCallKeepsInterval ==
  ASSUME IntervalInv, MakeCall PROVE IntervalInv'
<1>1. /\ UNCHANGED <<vars, proc, late, executions>>
      /\ call' = [request |-> NextRequest, answer |-> NoAnswer]
  BY DEF MakeCall
<1>2. /\ call'.answer.status = 0 /\ tasks' = tasks /\ nodes' = nodes
      /\ tombstones' = tombstones /\ proc' = proc
  BY <1>1 DEF NoAnswer, vars
<1>3. ~TaskAnswered' /\ ~Answered("submit", 200)' /\ ~Answered("submit", 409)'
  BY <1>2 DEF TaskAnswered, Answered
<1>4. Stored' <=> Stored
  BY <1>2 DEF Stored, Mine, SubmissionOf, AnswersRetry
<1>5. SleepHeld' <=> SleepHeld
  BY <1>2 DEF SleepHeld, Held
<1>6. IntervalOK'
  BY <1>2, <1>4, <1>5 DEF IntervalInv, IntervalOK, Authentic
<1>7. QED  BY <1>3, <1>6 DEF IntervalInv, PollUnstored, VerdictOK

(* A step in which nothing changes keeps the stored answer. *)
LEMMA KeepsAnswerAlways ==
  ASSUME [KeepsAnswer]_session_vars PROVE KeepsAnswer
<1>1. CASE UNCHANGED session_vars
  <2>1. tasks' = tasks /\ tombstones' = tombstones
    BY <1>1 DEF session_vars, vars
  <2>2. QED  BY <2>1 DEF KeepsAnswer, AnswersRetry
<1>2. QED  BY <1>1

(* The third layer is inductive where no answer is forgotten. *)
LEMMA IntervalStep ==
  ASSUME BaseInv, OnceInv({}), IntervalInv, [CrowdedNext]_session_vars, KeepsAnswer
  PROVE  IntervalInv'
<1>1. BaseInv'
  BY BaseStep
<1>2. CASE OutsideStep
  BY <1>2, OutsideIsForeign, OutsideKeepsInterval
<1>3. QED
  BY <1>1, <1>2, CrowdedKinds, MakeCallKeepsInterval, ServeKeepsInterval,
     LateKeepsInterval, SettlingKeepsInterval, RunsKeepsInterval

(* The three layers together, and the count they are for. *)
WholeInv == BaseInv /\ OnceInv({}) /\ IntervalInv /\ RunsAtMostOnce

(* The three layers hold at the start. *)
LEMMA WholeInit == SessionInit => WholeInv
<1> SUFFICES ASSUME SessionInit PROVE WholeInv
  OBVIOUS
<1>1. BaseInv /\ OnceInv({})
  BY BaseInit, OnceInit
<1>2. DOMAIN nodes = {} /\ executions = [i \in 1..MaxTaskIds |-> 0]
  BY DEF SessionInit, Init, EmptyDict
<1>3. IntervalInv
  BY <1>2 DEF IntervalInv, IntervalOK, PollUnstored, VerdictOK, Authentic
<1>4. RunsAtMostOnce
  BY <1>2 DEF RunsAtMostOnce
<1>5. QED  BY <1>1, <1>3, <1>4 DEF WholeInv

(* The three layers together are inductive where no answer is forgotten. *)
LEMMA WholeStep ==
  ASSUME WholeInv, [CrowdedNext]_session_vars, [KeepsAnswer]_session_vars
  PROVE  WholeInv'
<1>1. BaseInv /\ OnceInv({}) /\ IntervalInv /\ RunsAtMostOnce /\ KeepsAnswer
  BY KeepsAnswerAlways DEF WholeInv
<1>2. Agrees({})
  BY <1>1 DEF Agrees, IntervalInv, IntervalOK, Stored
<1>3. BaseInv' /\ OnceInv({})' /\ IntervalInv'
  BY <1>1, <1>2, BaseStep, OnceStep, IntervalStep
<1>4. RunsAtMostOnce'
  <2>1. CASE executions' = executions
    BY <1>1, <2>1 DEF RunsAtMostOnce
  <2>2. CASE Runs
    <3> DEFINE j == call.answer.task.id
    <3>1. /\ j \in 1..MaxTaskIds
          /\ \A i \in 1..MaxTaskIds :
               executions'[i] = IF i # j THEN executions[i]
                                ELSE IF executions[i] < 2 THEN executions[i] + 1
                                ELSE executions[i]
      BY <1>1, <2>2, RunsCounts
    <3>2. ~Executed(j)
      BY <1>1, <2>2 DEF OnceInv, PollFresh, Runs
    <3>3. executions[j] \in 0..2
      BY <1>1, <3>1 DEF BaseInv, RecordsOK, ExecutedOK
    <3>4. executions'[j] = 1
      BY <3>1, <3>2, <3>3 DEF Executed
    <3>5. QED  BY <1>1, <3>1, <3>4 DEF RunsAtMostOnce
  <2>3. QED  BY <1>1, <2>1, <2>2, OnlyRunsExecutes
<1>5. QED  BY <1>3, <1>4 DEF WholeInv

(* They hold always, under the condition. *)
LEMMA CrowdedWhole == CrowdedSpec /\ AnswerKept => []WholeInv
<1>1. WholeInv /\ [CrowdedNext]_session_vars /\ [KeepsAnswer]_session_vars => WholeInv'
  BY WholeStep
<1>2. QED
  BY <1>1, WholeInit, PTL DEF CrowdedSpec, CrowdedNext, AnswerKept

(* No task runs twice, and a result is only held for a task of the current
   session, among any number of other nodes, as long as the Teamserver does not
   displace the answer to a result that is still held. *)
THEOREM SessionCorrect == CrowdedSpec /\ AnswerKept => []SessionInv
<1>1. WholeInv => SessionInv
  BY BaseTypes DEF WholeInv, SessionInv
<1>2. QED  BY <1>1, CrowdedWhole, PTL

(* SLEEP takes effect on both sides or on neither, under the same condition:
   with no result pending, both sides have the same polling interval. *)
THEOREM IntervalsCorrect == CrowdedSpec /\ AnswerKept => []IntervalsAgree
<1>1. WholeInv => IntervalsAgree
  BY DEF WholeInv, IntervalInv, IntervalOK, IntervalsAgree, SleepHeld, Held
<1>2. QED  BY <1>1, CrowdedWhole, PTL

-----------------------------------------------------------------------------
(***************************************************************************)
(* When no answer is forgotten.  A tombstone is displaced by as many later *)
(* ones as there is room for, and every tombstone stands for another task: *)
(* until more than MAX_TASK_RESULT_TOMBSTONES + 1 tasks were given out,    *)
(* the condition AnswerKept holds by itself.                               *)
(***************************************************************************)

(* Where the tasks and their counter stay. *)
LEMMA StayingMoves ==
  ASSUME LedgerInv, tasks' = tasks, tombstones' = tombstones, seq'.task = seq.task
  PROVE  MovesTasks
BY NothingMoves DEF MovesTasks

(* Every request is worked on by moving tasks. *)
LEMMA HandleMoves ==
  ASSUME ServerInv, NEW r, RequestOK(r), NEW lag \in Lags, NEW heard \in BOOLEAN,
         Handle(r, lag, heard)
  PROVE  MovesTasks
<1>1. LedgerInv /\ seq \in [node : Nat, task : Nat, operation : Nat, exercise : Nat]
  BY DEF ServerInv, LedgerInv, SeqOK
<1>2. ASSUME UNCHANGED vars PROVE MovesTasks
  BY <1>1, <1>2, StayingMoves DEF vars
<1>3. ASSUME ExpireAndRefuse(lag) PROVE MovesTasks
  <2>1. tasks' = ExpiredTasks(nodes, tasks, lag) /\ seq' = seq /\ tombstones' = tombstones
    BY <1>3 DEF ExpireAndRefuse
  <2>2. QED  BY <1>1, <2>1, ExpiredSettles, SettlingMoves DEF MovesTasks
<1>4. /\ DOMAIN ExpiredNodes(nodes, tasks, lag) = DOMAIN nodes
      /\ DOMAIN ExpiredTasks(nodes, tasks, lag) = DOMAIN tasks
  BY <1>1, ExpiredLedger
<1>5. CASE r.kind = "enroll" /\ ServeEnroll(r, lag, heard)
  <2> DEFINE e == [profile |-> Profile, poll_interval |-> r.interval]
  <2>1. enroll_node(e, lag) \/ UNCHANGED vars
    BY <1>5 DEF ServeEnroll
  <2> HIDE DEF e
  <2>2. CASE enroll_node(e, lag)
    <3>1. tasks' = tasks /\ tombstones' = tombstones /\ seq'.task = seq.task
      BY <1>1, <2>2 DEF enroll_node
    <3>2. QED  BY <1>1, <3>1, StayingMoves
  <2>3. QED  BY <1>2, <2>1, <2>2
<1>6. CASE r.kind = "poll" /\ ServePoll(r, lag, heard)
  <2>1. CASE poll_node(r.node, lag)
    <3>1. r.node \in DOMAIN nodes /\ seq' = seq /\ tombstones' = tombstones
      BY <1>4, <2>1 DEF poll_node, Authentic
    <3>2. QED  BY <1>1, <2>1, <3>1, PollMoves DEF MovesTasks
  <2>2. QED  BY <1>3, <1>6, <2>1 DEF ServePoll
<1>7. CASE r.kind = "submit" /\ ServeSubmit(r, lag, heard)
  <2> DEFINE s == SubmissionOf(r.pending)
  <2>1. s \in AnySubmission
    BY <1>7, ResultIsSubmission DEF RequestOK
  <2>2. submit_result(r.node, r.pending.task, s, lag) \/ ExpireAndRefuse(lag)
    BY <1>7 DEF ServeSubmit
  <2> HIDE DEF s
  <2>3. CASE submit_result(r.node, r.pending.task, s, lag)
    <3>1. /\ r.node \in DOMAIN nodes /\ r.pending.task \in DOMAIN tasks
          /\ seq' = seq /\ tombstones' = tombstones
      BY <1>4, <2>3 DEF submit_result, Authentic, AcceptsResult
    <3>2. QED  BY <1>1, <2>1, <2>3, <3>1, SubmitMoves DEF MovesTasks
  <2>4. QED  BY <1>3, <2>2, <2>3
<1>8. CASE r.kind = "disconnect" /\ ServeDisconnect(r, heard)
  <2>1. CASE disconnect_node(r.node)
    <3>1. seq' = seq /\ tombstones' = tombstones
      BY <2>1 DEF disconnect_node
    <3>2. QED  BY <1>1, <2>1, <3>1, DisconnectSettles, SettlingMoves DEF MovesTasks
  <2>2. QED  BY <1>2, <1>8, <2>1 DEF ServeDisconnect
<1>9. QED  BY <1>5, <1>6, <1>7, <1>8 DEF Handle

(* The clock, the monitor thread and the operator. *)
LEMMA EnvironmentShape ==
  ASSUME ServerInv, Environment PROVE LedgerShape
<1>1. LedgerInv
  BY DEF ServerInv
<1>2. 0 \in Lags
  BY TimeAssumption DEF Lags
<1>3. CASE Tick
  BY <1>1, <1>3, TickMoves DEF Tick, MovesTasks, LedgerShape
<1>4. ASSUME NEW lag \in Lags, Expire(lag) PROVE LedgerShape
  <2>1. tasks' = ExpiredTasks(nodes, tasks, lag) /\ seq' = seq /\ tombstones' = tombstones
    BY <1>4 DEF Expire
  <2>2. QED
    BY <1>1, <2>1, ExpiredSettles, SettlingMoves DEF MovesTasks, LedgerShape
<1>5. ASSUME NEW n \in DOMAIN nodes, NEW r \in TaskRequests, queue_task(n, r, 0)
      PROVE  LedgerShape
  BY <1>1, <1>2, <1>5, AdmissionsQueue DEF LedgerShape
<1>6. ASSUME NEW i \in DOMAIN tasks, cancel_task(i) PROVE LedgerShape
  <2>1. seq' = seq /\ tombstones' = tombstones
    BY <1>6 DEF cancel_task
  <2>2. QED
    BY <1>1, <1>6, <2>1, CancelSettles, SettlingMoves DEF MovesTasks, LedgerShape
<1>7. QED  BY <1>3, <1>4, <1>5, <1>6 DEF Environment, LedgerShape

(* The other nodes. *)
LEMMA OthersMove ==
  ASSUME ServerInv, OtherNodes PROVE MovesTasks
<1>1. LedgerInv /\ seq \in [node : Nat, task : Nat, operation : Nat, exercise : Nat]
  BY DEF ServerInv, LedgerInv, SeqOK
<1>2. 0 \in Lags
  BY TimeAssumption DEF Lags
<1>3. ASSUME NEW e \in Enrolments, enroll_node(e, 0) PROVE MovesTasks
  <2>1. tasks' = tasks /\ tombstones' = tombstones /\ seq'.task = seq.task
    BY <1>1, <1>3 DEF enroll_node
  <2>2. QED  BY <1>1, <2>1, StayingMoves
<1>4. ASSUME NEW n \in DOMAIN nodes, poll_node(n, 0) PROVE MovesTasks
  <2>1. seq' = seq /\ tombstones' = tombstones
    BY <1>4 DEF poll_node
  <2>2. QED  BY <1>1, <1>2, <1>4, <2>1, PollMoves DEF MovesTasks
<1>5. ASSUME NEW n \in DOMAIN nodes, NEW i \in DOMAIN tasks, NEW s \in Submissions,
             submit_result(n, i, s, 0)
      PROVE  MovesTasks
  <2>1. seq' = seq /\ tombstones' = tombstones /\ s \in AnySubmission
    BY <1>5, CallsAreTyped DEF submit_result
  <2>2. QED  BY <1>1, <1>2, <1>5, <2>1, SubmitMoves DEF MovesTasks
<1>6. QED  BY <1>3, <1>4, <1>5 DEF OtherNodes

(* Every step of the composition has one of the three shapes. *)
LEMMA CrowdedShape ==
  ASSUME BaseInv, [CrowdedNext]_session_vars PROVE LedgerShape
<1>1. RecordsOK /\ ServerInv /\ LedgerInv
  BY DEF BaseInv, RecordsOK, ServerInv
<1>2. CASE UNCHANGED vars
  BY <1>1, <1>2, StayingMoves DEF vars, LedgerShape
<1>3. CASE Serve
  <2>1. PICK lag \in Lags : Handle(call.request, lag, TRUE)
    BY <1>3 DEF Serve
  <2>2. call.request = NextRequest
    BY <1>3 DEF BaseInv, CallShape, Serve, Unanswered
  <2>3. QED  BY <1>1, <2>1, <2>2, CallIsOK, HandleMoves DEF LedgerShape
<1>4. ASSUME NEW r \in late, ServeLate(r) PROVE LedgerShape
  <2>1. PICK lag \in Lags : Handle(r, lag, FALSE)
    BY <1>4 DEF ServeLate
  <2>2. RequestOK(r)
    BY <1>1 DEF RecordsOK, LateOK
  <2>3. QED  BY <1>1, <2>1, <2>2, HandleMoves DEF LedgerShape
<1>5. CASE Environment
  BY <1>1, <1>5, EnvironmentShape
<1>6. CASE OtherNodes
  BY <1>1, <1>6, OthersMove DEF LedgerShape
<1>7. \/ UNCHANGED vars \/ Serve \/ (\E r \in late : ServeLate(r))
      \/ Environment \/ OtherNodes
  BY DEF CrowdedNext, SessionNext, ProcessStep, MakeCall, Exit, Receive, CallFails,
         Interrupt, Restart, session_vars
<1>8. QED  BY <1>2, <1>3, <1>4, <1>5, <1>6, <1>7

(* The stored answer outlives every step but a reset. *)
LEMMA FewKeepAnswers ==
  ASSUME BaseInv, AckInv, LedgerShape, seq'.task <= MAX_TASK_RESULT_TOMBSTONES + 1
  PROVE  KeepsAnswer
<1> SUFFICES ASSUME NEW n, NEW i, NEW s, n = proc.node, i = proc.pending.task, s = Mine,
                    AnswersRetry(n, i, s)
             PROVE  IsReset \/ AnswersRetry(n, i, s)'
  BY DEF KeepsAnswer
<1>1. Held
  <2>1. 0 \notin DOMAIN tasks /\ \A k \in 1..Len(tombstones) : tombstones[k].id # 0
    BY DEF AckInv, LedgerInv, TombsGone, SeqOK
  <2>2. i # 0
    BY <2>1 DEF AnswersRetry
  <2>3. NoPending.task = 0
    BY DEF NoPending
  <2>4. QED  BY <2>2, <2>3 DEF Held
<1>2. s.status \in {"completed", "failed"} /\ s.result.body \in NodeReplies
  <2>1. IsResult(proc.pending)
    BY <1>1 DEF BaseInv, RecordsOK, ProcOK
  <2>2. s.status = proc.pending.status /\ s.result = proc.pending.result
    BY DEF Mine, SubmissionOf
  <2>3. QED  BY <2>1, <2>2 DEF IsResult, PendingType, NodeReplies, NODE_FAILURE_CODES
<1>3. seq'.task \in Nat /\ MAX_TASK_RESULT_TOMBSTONES \in Nat
  <2>1. seq.task \in Nat
    BY DEF AckInv, LedgerInv, SeqOK
  <2>2. \/ seq'.task = seq.task
        \/ \E q \in 1..MAX_OPERATION_STEPS : seq'.task = seq.task + q
    BY DEF LedgerShape, MovesTasks, reset, QueuesTasks, Queues
  <2>3. QED  BY <2>1, <2>2, LimitsAssumption DEF MAX_OPERATION_STEPS
<1>4. QED  BY <1>2, <1>3, AnswersStep

(* All layers, as far as the tombstones suffice. *)
FewTasks == seq.task <= MAX_TASK_RESULT_TOMBSTONES + 1

FewInv == BaseInv /\ AckInv /\ (FewTasks => WholeInv)

(* Every step of the composition keeps FewInv. *)
LEMMA FewStep ==
  ASSUME FewInv, [CrowdedNext]_session_vars PROVE FewInv'
<1>1. BaseInv /\ AckInv /\ BaseInv'
  BY BaseStep DEF FewInv
<1>2. LedgerShape
  BY <1>1, CrowdedShape
<1>3. AckInv'
  BY <1>1, <1>2, AckStep DEF BaseInv, RecordsOK, ServerInv, AckInv
<1>4. seq.task \in Nat /\ seq'.task \in Nat /\ seq'.task >= seq.task
  <2>1. seq.task \in Nat
    BY <1>1 DEF AckInv, LedgerInv, SeqOK
  <2>2. \/ seq'.task = seq.task
        \/ \E q \in 1..MAX_OPERATION_STEPS : seq'.task = seq.task + q
    BY <1>2 DEF LedgerShape, MovesTasks, reset, QueuesTasks, Queues
  <2>3. QED  BY <2>1, <2>2 DEF MAX_OPERATION_STEPS
<1>5. MAX_TASK_RESULT_TOMBSTONES \in Nat
  BY LimitsAssumption
<1>6. ASSUME FewTasks' PROVE WholeInv'
  <2>1. seq'.task <= MAX_TASK_RESULT_TOMBSTONES + 1 /\ FewTasks
    BY <1>4, <1>5, <1>6 DEF FewTasks
  <2>2. KeepsAnswer
    BY <1>1, <1>2, <2>1, FewKeepAnswers
  <2>3. QED  BY <2>1, <2>2, WholeStep DEF FewInv
<1>7. QED  BY <1>1, <1>3, <1>6 DEF FewInv

(* FewInv is an invariant, whatever other nodes do. *)
LEMMA CrowdedFew == CrowdedSpec => []FewInv
<1>1. SessionInit => FewInv
  <2> SUFFICES ASSUME SessionInit PROVE FewInv
    OBVIOUS
  <2>1. LedgerInv
    BY LedgerInit DEF SessionInit
  <2>2. tombstones = <<>> /\ DOMAIN tasks = {}
    BY DEF SessionInit, Init, EmptyDict
  <2>3. AckInv
    BY <2>1, <2>2 DEF AckInv, TombsGone, TombsDistinct, RepliesAccepted
  <2>4. QED  BY <2>3, WholeInit DEF FewInv, WholeInv
<1>2. FewInv /\ [CrowdedNext]_session_vars => FewInv'
  BY FewStep
<1>3. QED  BY <1>1, <1>2, PTL DEF CrowdedSpec, CrowdedNext

(* No task runs twice, in every behaviour and whatever other nodes do, until
   the Teamserver has given out more tasks than it has tombstones for, and one. *)
THEOREM SessionHolds == CrowdedSpec => [](FewTasks => SessionInv)
<1>1. WholeInv => SessionInv
  BY BaseTypes DEF WholeInv, SessionInv
<1>2. FewInv => (FewTasks => SessionInv)
  BY <1>1 DEF FewInv
<1>3. QED  BY <1>2, CrowdedFew, PTL

(* SLEEP takes effect on both sides or on neither, as long. *)
THEOREM IntervalsHold == CrowdedSpec => [](FewTasks => IntervalsAgree)
<1>1. WholeInv => IntervalsAgree
  BY DEF WholeInv, IntervalInv, IntervalOK, IntervalsAgree, SleepHeld, Held
<1>2. FewInv => (FewTasks => IntervalsAgree)
  BY <1>1 DEF FewInv
<1>3. QED  BY <1>2, CrowdedFew, PTL
=============================================================================
