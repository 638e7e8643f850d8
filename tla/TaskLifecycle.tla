--------------------------- MODULE TaskLifecycle ----------------------------
(***************************************************************************)
(* What the Teamserver promises about a task, whatever the handlers do: it *)
(* is queued, delivered at most once it is its turn, given one outcome and *)
(* forgotten only afterwards, or with everything else by a reset.          *)
(*                                                                         *)
(* A step of the Teamserver may move several tasks (expiry, a closing      *)
(* session, pruning for new work), so a step is described task by task;    *)
(* the conjuncts of Work say what may not happen together.                 *)
(***************************************************************************)
EXTENDS Naturals

CONSTANT MaxTaskIds

VARIABLES
  life,   \* where each task id is in its life
  owner   \* the node a present task is for, 0 otherwise

Ids == 1..MaxTaskIds

Init ==
  /\ life = [i \in Ids |-> "absent"]
  /\ owner = [i \in Ids |-> 0]

(* Without delivery a task is called off; a delivered one is answered or
   given up. *)
Outcomes(stage) ==
  CASE stage = "queued"     -> {"cancelled", "expired", "failed"}
    [] stage = "dispatched" -> {"completed", "failed", "timeout"}
    [] OTHER                -> {}

Settled(stage) == stage \in {"completed", "failed", "timeout", "cancelled", "expired"}

Admitted(i) == life[i] = "absent" /\ life'[i] = "queued" /\ owner'[i] # 0

Delivered(i) ==
  life[i] = "queued" /\ life'[i] = "dispatched" /\ owner'[i] = owner[i]

Ended(i) == life'[i] \in Outcomes(life[i]) /\ owner'[i] = owner[i]

Forgotten(i) == Settled(life[i]) /\ life'[i] = "forgotten" /\ owner'[i] = 0

Unmoved(i) == life'[i] = life[i] /\ owner'[i] = owner[i]

Answered(i) == life[i] = "dispatched" /\ life'[i] = "completed"

(* Its owner works on nothing else and nothing older waits for it. *)
ItsTurn(i) ==
  \A j \in Ids \ {i} : owner'[j] = owner'[i] =>
    life'[j] # "dispatched" /\ (j < i => life'[j] # "queued")

Work ==
  /\ \A i \in Ids :
       Admitted(i) \/ Delivered(i) \/ Ended(i) \/ Forgotten(i) \/ Unmoved(i)
  /\ \A i \in Ids : Delivered(i) => ItsTurn(i)
  /\ \A i, j \in Ids : i < j /\ Admitted(j) => life'[i] # "absent"
  /\ \A i, j \in Ids : i # j => ~(Delivered(i) /\ Delivered(j))
  /\ \A i, j \in Ids : i # j => ~(Answered(i) /\ Answered(j))
  /\ (\E i \in Ids : Forgotten(i)) => \E j \in Ids : Admitted(j)

Reset ==
  /\ life' = [i \in Ids |-> IF life[i] = "absent" THEN "absent" ELSE "forgotten"]
  /\ owner' = [i \in Ids |-> 0]

Next == Work \/ Reset

Spec == Init /\ [][Next]_<<life, owner>>
=============================================================================
