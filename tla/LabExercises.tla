---------------------------- MODULE LabExercises ----------------------------
(***************************************************************************)
(* Purple-team exercises of LabState (core.py): how an exercise derives    *)
(* evidence, alerts and its verdict from its two tasks, and what           *)
(* containment does to it.  Operators on one exercise record x and on the  *)
(* task dictionary T.                                                      *)
(***************************************************************************)
EXTENDS LabLedger

CONSTANT MAX_EXERCISES

ASSUME ExerciseLimitAssumption == MAX_EXERCISES \in Nat \ {0}

(* One timeline item; summary and time are left out, "" and 0 stand for None. *)
Entry(kind, task, rule, technique, action) ==
  [kind |-> kind, task |-> task, rule |-> rule, technique |-> technique,
   action |-> action]

TaskEntry(kind, task) == Entry(kind, task, "", "", "")

(* _append_exercise_timeline_locked for each entry in turn: entries past the
   bound are dropped. *)
AppendTimeline(timeline, entries) ==
  LET all == timeline \o entries
  IN IF Len(all) <= MAX_EXERCISE_TIMELINE THEN all
     ELSE SubSeq(all, 1, MAX_EXERCISE_TIMELINE)

NewExercise(n, scenario, actor, first, second) ==
  [node |-> n, scenario |-> scenario, created_by |-> actor, status |-> "running",
   detection_status |-> "pending", task_ids |-> <<first, second>>,
   alerts |-> {}, observed |-> {}, completion_recorded |-> FALSE,
   containment |-> "",
   timeline |-> <<TaskEntry("exercise.started", 0),
                  TaskEntry("task.queued", first),
                  TaskEntry("task.queued", second)>>]

TasksOf(x) == {x.task_ids[1], x.task_ids[2]}

-----------------------------------------------------------------------------
(* _append_exercise_task_evidence_locked *)

TaskKind(status) ==
  CASE status = "completed" -> "task.completed"
    [] status = "failed"    -> "task.failed"
    [] status = "timeout"   -> "task.timeout"
    [] status = "cancelled" -> "task.cancelled"
    [] status = "expired"   -> "task.expired"

TaskEvidence(i, task) ==
  LET ids == TechniquesOf(task.playbook)
  IN <<TaskEntry(TaskKind(task.status), i)>> \o
     IF task.status # "completed" THEN <<>>
     ELSE [k \in 1..Len(ids) |-> Entry("technique.observed", i, "", ids[k], "")]

-----------------------------------------------------------------------------
(* _refresh_exercises_locked *)

(* The tasks the exercise sees in a terminal state for the first time. *)
Fresh(x, T) ==
  {i \in (TasksOf(x) \ x.observed) \cap DOMAIN T : Terminal(T[i])}

(* A faulty MatchedRules, for checking the properties. *)
MatchedRulesWhenContained(x, T, i) ==
  IF T[i].status = "completed"
  THEN detections_for_playbook(x.scenario, T[i].playbook) ELSE <<>>

(* The rules that a fresh task triggers: a contained exercise raises no new
   alert, and a rule raises one alert only.  No rule of a scenario belongs to
   two of its steps, so the alerts there already decide. *)
MatchedRules(x, T, i) ==
  LET rules == detections_for_playbook(x.scenario, T[i].playbook)
  IN IF /\ x.status # "contained"
        /\ T[i].status = "completed"
        /\ \A k \in 1..Len(rules) : \A a \in x.alerts : a.rule_id # rules[k].id
     THEN rules ELSE <<>>

NewAlerts(x, T, i) ==
  IF i \notin Fresh(x, T) THEN {}
  ELSE LET rules == MatchedRules(x, T, i)
       IN {[rule_id |-> rules[k].id, task |-> i, status |-> "open"] : k \in 1..Len(rules)}

DetectionEntries(rules, i) ==
  [k \in 1..Len(rules) |->
     Entry("detection.matched", i, rules[k].id, rules[k].technique, "")]

NewEntries(x, T, i) ==
  IF i \notin Fresh(x, T) THEN <<>>
  ELSE TaskEvidence(i, T[i]) \o DetectionEntries(MatchedRules(x, T, i), i)

(* A faulty AllTerminal, for checking the properties. *)
AllAnswered(x, T) ==
  \A i \in TasksOf(x) : i \in DOMAIN T /\ T[i].status \in {"completed", "failed"}

AllTerminal(x, T) == \A i \in TasksOf(x) : i \in DOMAIN T /\ Terminal(T[i])

AllCompleted(x, T) == \A i \in TasksOf(x) : T[i].status = "completed"

(* A faulty Concludes, for checking the properties. *)
ConcludesWhenContained(x, T) == AllTerminal(x, T) /\ ~x.completion_recorded

Concludes(x, T) ==
  x.status # "contained" /\ AllTerminal(x, T) /\ ~x.completion_recorded

(* A faulty Verdict, for checking the properties. *)
VerdictFromTask(x, T) == IF AllCompleted(x, T) THEN "completed" ELSE "timeout"

Verdict(x, T) == IF AllCompleted(x, T) THEN "completed" ELSE "failed"

ClosingEntry(x, T) ==
  IF ~Concludes(x, T) THEN <<>>
  ELSE IF AllCompleted(x, T) THEN <<TaskEntry("exercise.completed", 0)>>
  ELSE <<TaskEntry("exercise.failed", 0)>>

Refresh(x, T) ==
  LET alerts == NewAlerts(x, T, x.task_ids[1]) \cup NewAlerts(x, T, x.task_ids[2])
  IN [x EXCEPT
        !.observed = @ \cup Fresh(x, T),
        !.alerts = @ \cup alerts,
        !.detection_status = IF alerts # {} THEN "detected" ELSE @,
        !.status = IF Concludes(x, T) THEN Verdict(x, T) ELSE @,
        !.completion_recorded = @ \/ Concludes(x, T),
        !.timeline = AppendTimeline(@, NewEntries(x, T, x.task_ids[1])
                       \o NewEntries(x, T, x.task_ids[2]) \o ClosingEntry(x, T))]

RefreshAll(X, T) == [e \in DOMAIN X |-> Refresh(X[e], T)]

-----------------------------------------------------------------------------
(* contain_exercise *)

(* A faulty Cancelled, for checking the properties. *)
CancelledUntilFirstStarted(x, T) ==
  {i \in TasksOf(x) \cap DOMAIN T :
     \A j \in TasksOf(x) : j <= i => j \in DOMAIN T /\ T[j].status = "queued"}

(* The exercise's tasks that containment cancels. *)
Cancelled(x, T) == {i \in TasksOf(x) \cap DOMAIN T : T[i].status = "queued"}

CancelledEntry(x, T, i) ==
  IF i \in Cancelled(x, T) THEN <<TaskEntry("task.cancelled", i)>> ELSE <<>>

ContainedTasks(x, T) ==
  [i \in DOMAIN T |-> IF i \in Cancelled(x, T)
                      THEN Settled(T[i], "cancelled", "exercise_contained") ELSE T[i]]

ContainedExercise(x, T, action) ==
  [x EXCEPT
     !.status = "contained",
     !.containment = action,
     !.observed = @ \cup Cancelled(x, T),
     !.alerts = {[a EXCEPT !.status = "contained"] : a \in @},
     !.timeline = AppendTimeline(@,
        CancelledEntry(x, T, x.task_ids[1]) \o CancelledEntry(x, T, x.task_ids[2])
        \o <<Entry("containment.applied", 0, "", "", action)>>)]

PausedNodes(N, n, action) ==
  IF action = "PAUSE_NODE_TASKING" /\ n \in DOMAIN N
  THEN [N EXCEPT ![n].tasking_paused = TRUE] ELSE N
=============================================================================
