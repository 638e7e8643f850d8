----------------------------- MODULE LabCatalog -----------------------------
(***************************************************************************)
(* The fixed catalogue of the lab: task types, node profiles, playbooks,   *)
(* scenarios and their detection rules (protocol.py, exercises.py and the  *)
(* technique table of lab_runtime.py).  Titles, URLs, severities and other *)
(* wording are left out; identifiers and their relations are kept.         *)
(***************************************************************************)
EXTENDS Naturals, Sequences

(*------------------------------ protocol.py ------------------------------*)
TRAINING_TASK_TYPES ==
  {"PING", "RUNTIME_STATUS", "ECHO_TEXT", "HASH_TEXT", "WAIT",
   "GENERATE_EVENT", "SLEEP", "EXIT"}

TASK_TYPES == TRAINING_TASK_TYPES \cup {"RUN_PLAYBOOK"}

Profiles == {"basic", "training", "purple_lab"}

Capabilities(profile) ==
  CASE profile = "basic"      -> {"PING", "RUNTIME_STATUS", "ECHO_TEXT", "HASH_TEXT"}
    [] profile = "training"   -> TRAINING_TASK_TYPES
    [] profile = "purple_lab" -> TASK_TYPES

NODE_FAILURE_CODES == {"INVALID_TASK", "HANDLER_FAILED"}

(*----------------------------- lab_runtime.py ----------------------------*)
PLAYBOOK_NAMES ==
  {"DISCOVERY_FIXTURES", "COLLECT_AND_STAGE", "CREATE_CANARY", "CLEANUP"}

TechniqueIds == {"T1083", "T1005", "T1074.001", "T1070.004"}

(* attack_techniques of a completed playbook result: validate_playbook_result
   accepts exactly the entries of _TECHNIQUES for the playbook, in order. *)
TechniquesOf(playbook) ==
  CASE playbook = "DISCOVERY_FIXTURES" -> <<"T1083">>
    [] playbook = "COLLECT_AND_STAGE"  -> <<"T1005", "T1074.001">>
    [] playbook = "CLEANUP"            -> <<"T1070.004">>
    [] OTHER                           -> <<>>

(*------------------------------ exercises.py -----------------------------*)
SCENARIO_IDS == {"DISCOVERY_COLLECTION", "CANARY_REMOVAL"}

RuleIds ==
  {"C2LAB-DET-001", "C2LAB-DET-002", "C2LAB-DET-003", "C2LAB-DET-004"}

(* Every scenario of the catalogue has exactly two playbooks. *)
FirstPlaybook(scenario) ==
  IF scenario = "CANARY_REMOVAL" THEN "CREATE_CANARY" ELSE "DISCOVERY_FIXTURES"

SecondPlaybook(scenario) ==
  IF scenario = "CANARY_REMOVAL" THEN "CLEANUP" ELSE "COLLECT_AND_STAGE"

ScenarioTechniques(scenario) ==
  IF scenario = "CANARY_REMOVAL"
  THEN {"T1070.004"} ELSE {"T1083", "T1005", "T1074.001"}

(* The allowed_technique_ids filter of the task evidence keeps the techniques
   that the scenario lists.  No playbook of a scenario uses any other, so the
   filter is the identity and the model leaves it out. *)
ASSUME EvidenceFilterKeepsAll ==
  \A s \in SCENARIO_IDS : \A p \in {FirstPlaybook(s), SecondPlaybook(s)} :
    \A k \in 1..Len(TechniquesOf(p)) : TechniquesOf(p)[k] \in ScenarioTechniques(s)

Rule(id, technique) == [id |-> id, technique |-> technique]

detections_for_playbook(scenario, playbook) ==
  CASE scenario = "DISCOVERY_COLLECTION" /\ playbook = "DISCOVERY_FIXTURES" ->
         <<Rule("C2LAB-DET-001", "T1083")>>
    [] scenario = "DISCOVERY_COLLECTION" /\ playbook = "COLLECT_AND_STAGE" ->
         <<Rule("C2LAB-DET-002", "T1005"), Rule("C2LAB-DET-003", "T1074.001")>>
    [] scenario = "CANARY_REMOVAL" /\ playbook = "CLEANUP" ->
         <<Rule("C2LAB-DET-004", "T1070.004")>>
    [] OTHER -> <<>>

CONTAINMENT_ACTIONS == {"CANCEL_REMAINING", "PAUSE_NODE_TASKING"}

MAX_EXERCISE_TIMELINE == 16

(*-------------------------------- core.py --------------------------------*)
MAX_OPERATION_STEPS == 3

LIVE_TASK_STATUSES == {"queued", "dispatched"}

TERMINAL_TASK_STATUSES ==
  {"completed", "failed", "timeout", "cancelled", "expired"}

(* The results the Teamserver itself writes when it settles a task. *)
ServerResults ==
  {"none", "queue_ttl_exceeded", "deadline_exceeded", "session_closed",
   "session_expired", "operator_cancelled", "exercise_contained"}

(* What a node may claim as a result, told apart only as far as the contract
   of validate_task_result does.  "reply": every field that the task fixes has
   the fixed value.  "other_reply": the same, but the free fields differ
   (uptime_ms of RUNTIME_STATUS, created/already present, removed/absent of
   the canary playbooks).  "forged": some fixed field is wrong. *)
NodeReplies == {"reply", "other_reply", "forged"} \cup NODE_FAILURE_CODES
=============================================================================
