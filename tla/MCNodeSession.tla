--------------------------- MODULE MCNodeSession ----------------------------
(* Instances of NodeSession for TLC. *)
EXTENDS NodeSession

CONSTANT alice

Task(type, interval) ==
  [type |-> type, playbook |-> "", interval |-> interval, created_by |-> alice,
   ttl |-> 2, key |-> NoKey]

None == {}

(* SLEEP changes the interval that a second SLEEP reports. *)
SleepTasks == {Task("SLEEP", 1)}

OtherEnrolments == {[profile |-> "purple_lab", poll_interval |-> 0]}

OtherResults ==
  {[status |-> "completed", result |-> [body |-> "reply", interval |-> 0]]}

ExitTasks == {Task("EXIT", 0), Task("SLEEP", 1)}
=============================================================================
