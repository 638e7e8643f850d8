---------------------------- MODULE MCLabState ------------------------------
(* Request sets for the model-checking runs of LabState. *)
EXTENDS LabState

CONSTANTS k1, k2, k3, alice

Request(type, playbook, interval, actor, ttl, key) ==
  [type |-> type, playbook |-> playbook, interval |-> interval,
   created_by |-> actor, ttl |-> ttl, key |-> key]

Submission(status, body, interval) ==
  [status |-> status, result |-> [body |-> body, interval |-> interval]]

None == {}

PurpleNode == {[profile |-> "purple_lab", poll_interval |-> 0]}

(* Ledger: a keyed SLEEP beside an exercise. The reply without an interval
   breaks the contract of SLEEP, the one with an interval that of the others. *)
QuickSleep == {Request("SLEEP", "", 1, alice, 1, k1)}

Replies ==
  {Submission("completed", "reply", 0), Submission("completed", "reply", 1)}

(* Limits: a keyed PING, an operation of two steps, one of a single step with
   another key and an exercise of two steps compete for queue, table and replay
   records.  The playbooks of the exercise have two legal replies. *)
KeyedPing == {Request("PING", "", 0, alice, 1, k3)}

Operation(steps, key) ==
  [playbooks |-> [step \in 1..steps |-> "DISCOVERY_FIXTURES"],
   created_by |-> alice, ttl |-> 1, key |-> key]

KeyedOperations == {Operation(2, k1), Operation(1, k2)}

CanaryOnly == {[scenario |-> "CANARY_REMOVAL", created_by |-> alice, key |-> NoKey]}

LimitSubmissions ==
  {Submission("completed", "reply", 0), Submission("completed", "other_reply", 0),
   Submission("failed", "HANDLER_FAILED", 0)}

(* Exercises: both scenarios, and a PING that fills the task table. *)
ExerciseBodies ==
  {[scenario |-> "DISCOVERY_COLLECTION", created_by |-> alice, key |-> k1],
   [scenario |-> "CANARY_REMOVAL", created_by |-> alice, key |-> NoKey]}

DiscoveryOnly ==
  {[scenario |-> "DISCOVERY_COLLECTION", created_by |-> alice, key |-> NoKey]}

PlaybookSubmissions ==
  {Submission("completed", "reply", 0), Submission("failed", "HANDLER_FAILED", 0)}

QuickPing == {Request("PING", "", 0, alice, 1, NoKey)}

PingTasks == {Request("PING", "", 0, alice, 2, NoKey)}
=============================================================================
