------------------------- MODULE LabEvidenceProofs --------------------------
(***************************************************************************)
(* The purple-team exercises of LabState: what the timeline of an exercise *)
(* tells about its two tasks, its alerts and its verdict, through every    *)
(* handler and for every value of the constants.  The timeline is read     *)
(* through a few predicates on its positions (Ends, Done, Alarms, ...); a  *)
(* refresh is an append of one block per task and one closing entry.       *)
(***************************************************************************)
EXTENDS LabStateProofs

-----------------------------------------------------------------------------
(* The catalogue. *)

PlaybookOf(x, i) ==
  IF i = x.task_ids[1] THEN FirstPlaybook(x.scenario) ELSE SecondPlaybook(x.scenario)

RulesOf(x, i) == detections_for_playbook(x.scenario, PlaybookOf(x, i))

Triggers(x, i, r) == \E k \in 1..Len(RulesOf(x, i)) : RulesOf(x, i)[k].id = r

(* A step of a scenario triggers at most two rules, each once. *)
LEMMA FewRules ==
  ASSUME NEW s, NEW p
  PROVE  LET d == detections_for_playbook(s, p)
         IN /\ Len(d) \in 0..2
            /\ \A j, k \in 1..Len(d) : d[j].id = d[k].id => j = k
<1> DEFINE d == detections_for_playbook(s, p)
<1>1. CASE s = "DISCOVERY_COLLECTION" /\ p = "DISCOVERY_FIXTURES"
  <2>1. d = <<Rule("C2LAB-DET-001", "T1083")>>
    BY <1>1 DEF detections_for_playbook
  <2> HIDE DEF d
  <2>2. Len(d) = 1
    BY <2>1
  <2>3. QED  BY <2>2 DEF d
<1>2. CASE s = "DISCOVERY_COLLECTION" /\ p = "COLLECT_AND_STAGE"
  <2>1. d = <<Rule("C2LAB-DET-002", "T1005"), Rule("C2LAB-DET-003", "T1074.001")>>
    BY <1>2 DEF detections_for_playbook
  <2> HIDE DEF d
  <2>2. Len(d) = 2 /\ d[1].id = "C2LAB-DET-002" /\ d[2].id = "C2LAB-DET-003"
    BY <2>1 DEF Rule
  <2>3. QED  BY <2>2 DEF d
<1>3. CASE s = "CANARY_REMOVAL" /\ p = "CLEANUP"
  <2>1. d = <<Rule("C2LAB-DET-004", "T1070.004")>>
    BY <1>3 DEF detections_for_playbook
  <2> HIDE DEF d
  <2>2. Len(d) = 1
    BY <2>1
  <2>3. QED  BY <2>2 DEF d
<1>4. CASE /\ ~(s = "DISCOVERY_COLLECTION" /\ p = "DISCOVERY_FIXTURES")
           /\ ~(s = "DISCOVERY_COLLECTION" /\ p = "COLLECT_AND_STAGE")
           /\ ~(s = "CANARY_REMOVAL" /\ p = "CLEANUP")
  <2>1. d = <<>>
    BY <1>4 DEF detections_for_playbook
  <2> HIDE DEF d
  <2>2. Len(d) = 0
    BY <2>1
  <2>3. QED  BY <2>2 DEF d
<1>5. QED  BY <1>1, <1>2, <1>3, <1>4

(* No rule belongs to both steps of a scenario. *)
LEMMA RulesApart ==
  ASSUME NEW x, x.scenario \in SCENARIO_IDS, x.task_ids[1] # x.task_ids[2],
         NEW i \in TasksOf(x), NEW j \in TasksOf(x), NEW r,
         Triggers(x, i, r), Triggers(x, j, r)
  PROVE  i = j
<1> DEFINE d1 == detections_for_playbook(x.scenario, FirstPlaybook(x.scenario))
           d2 == detections_for_playbook(x.scenario, SecondPlaybook(x.scenario))
<1>1. \A k \in 1..Len(d1), m \in 1..Len(d2) : d1[k].id # d2[m].id
  <2>1. CASE x.scenario = "CANARY_REMOVAL"
    <3>1. d1 = <<>>
      BY <2>1 DEF detections_for_playbook, FirstPlaybook
    <3> HIDE DEF d1, d2
    <3>2. Len(d1) = 0
      BY <3>1
    <3>3. QED  BY <3>2 DEF d1, d2
  <2>2. CASE x.scenario = "DISCOVERY_COLLECTION"
    <3>1. /\ d1 = <<Rule("C2LAB-DET-001", "T1083")>>
          /\ d2 = <<Rule("C2LAB-DET-002", "T1005"), Rule("C2LAB-DET-003", "T1074.001")>>
      BY <2>2 DEF detections_for_playbook, FirstPlaybook, SecondPlaybook
    <3> HIDE DEF d1, d2
    <3>2. /\ Len(d1) = 1 /\ d1[1].id = "C2LAB-DET-001" /\ Len(d2) = 2
          /\ d2[1].id = "C2LAB-DET-002" /\ d2[2].id = "C2LAB-DET-003"
      BY <3>1 DEF Rule
    <3>3. QED  BY <3>2 DEF d1, d2
  <2>3. QED  BY <2>1, <2>2 DEF SCENARIO_IDS
<1>2. RulesOf(x, x.task_ids[1]) = d1 /\ RulesOf(x, x.task_ids[2]) = d2
  BY DEF RulesOf, PlaybookOf
<1> HIDE DEF d1, d2
<1>3. QED  BY <1>1, <1>2 DEF Triggers, TasksOf

(* A playbook shows at most two techniques. *)
LEMMA FewTechniques ==
  ASSUME NEW p PROVE Len(TechniquesOf(p)) \in 0..2
<1>1. CASE p = "DISCOVERY_FIXTURES"
  BY <1>1 DEF TechniquesOf
<1>2. CASE p = "COLLECT_AND_STAGE"
  BY <1>2 DEF TechniquesOf
<1>3. CASE p = "CLEANUP"
  BY <1>3 DEF TechniquesOf
<1>4. CASE p \notin {"DISCOVERY_FIXTURES", "COLLECT_AND_STAGE", "CLEANUP"}
  BY <1>4 DEF TechniquesOf
<1>5. QED  BY <1>1, <1>2, <1>3, <1>4

-----------------------------------------------------------------------------
(* Reading a timeline: what the entry at position k says. *)

At(s, k, kind) == k \in 1..Len(s) /\ s[k].kind = kind

Ends(s, k, i) == k \in 1..Len(s) /\ s[k].kind \in TerminalKinds /\ s[k].task = i
Done(s, k, i) == At(s, k, "task.completed") /\ s[k].task = i
Alarms(s, k, r, i) == At(s, k, "detection.matched") /\ s[k].rule = r /\ s[k].task = i
Stops(s, k) == At(s, k, "containment.applied")
Closes(s, k) == At(s, k, "exercise.completed") \/ At(s, k, "exercise.failed")

(* The task completed before the exercise was contained. *)
Early(s, i) == \E k \in Nat : Done(s, k, i) /\ \A c \in Nat : Stops(s, c) => k < c

(* Appending adds the new positions behind the old ones. *)
LEMMA Appended ==
  ASSUME NEW s \in Seq(EntryType), NEW t \in Seq(EntryType), NEW u, u = s \o t
  PROVE  /\ u \in Seq(EntryType) /\ Len(u) = Len(s) + Len(t)
         /\ Len(s) \in Nat /\ Len(t) \in Nat
         /\ \A k \in 1..Len(s) : u[k] = s[k]
         /\ \A k \in 1..Len(t) : u[Len(s) + k] = t[k]
<1>1. /\ u \in Seq(EntryType) /\ Len(u) = Len(s) + Len(t)
      /\ \A k \in 1..(Len(s) + Len(t)) : u[k] = IF k <= Len(s) THEN s[k] ELSE t[k - Len(s)]
  BY ConcatProperties
<1>2. Len(s) \in Nat /\ Len(t) \in Nat
  BY LenProperties
<1>3. QED  BY <1>1, <1>2

(* At position k the timeline u says what s says there, or what t says as
   many positions earlier as s is long. *)
Splits(s, t, u, k, m) ==
  /\ \A i : Ends(u, k, i) <=> Ends(s, k, i) \/ Ends(t, m, i)
  /\ \A i : Done(u, k, i) <=> Done(s, k, i) \/ Done(t, m, i)
  /\ \A r, i : Alarms(u, k, r, i) <=> Alarms(s, k, r, i) \/ Alarms(t, m, r, i)
  /\ Stops(u, k) <=> Stops(s, k) \/ Stops(t, m)
  /\ Closes(u, k) <=> Closes(s, k) \/ Closes(t, m)

(* What a timeline says after an append. *)
LEMMA AppendedSays ==
  ASSUME NEW s \in Seq(EntryType), NEW t \in Seq(EntryType), NEW u, u = s \o t,
         NEW k \in Nat
  PROVE  k - Len(s) \in Int /\ Splits(s, t, u, k, k - Len(s))
<1>1. /\ Len(u) = Len(s) + Len(t) /\ Len(s) \in Nat /\ Len(t) \in Nat
      /\ \A m \in 1..Len(s) : u[m] = s[m]
      /\ \A m \in 1..Len(t) : u[Len(s) + m] = t[m]
  BY Appended
<1>2. CASE k \in 1..Len(s)
  <2>1. k \in 1..Len(u) /\ u[k] = s[k] /\ k - Len(s) \notin 1..Len(t)
    BY <1>1, <1>2
  <2>2. QED  BY <1>1, <1>2, <2>1 DEF Splits, Ends, Done, Alarms, Stops, Closes, At
<1>3. CASE k \in (Len(s) + 1)..(Len(s) + Len(t))
  <2>1. k - Len(s) \in 1..Len(t) /\ k = Len(s) + (k - Len(s))
    BY <1>1, <1>3
  <2>2. k \in 1..Len(u) /\ u[k] = t[k - Len(s)] /\ k \notin 1..Len(s)
    BY <1>1, <1>3, <2>1
  <2>3. QED  BY <1>1, <2>1, <2>2 DEF Splits, Ends, Done, Alarms, Stops, Closes, At
<1>4. CASE k \notin 1..Len(u)
  <2>1. k \notin 1..Len(s) /\ k - Len(s) \notin 1..Len(t)
    BY <1>1, <1>4
  <2>2. QED  BY <1>1, <1>4, <2>1 DEF Splits, Ends, Done, Alarms, Stops, Closes, At
<1>5. QED  BY <1>1, <1>2, <1>3, <1>4

-----------------------------------------------------------------------------
(* The block a refresh appends for a task that ended. *)

(* The evidence of a task: its end, then the techniques it showed. *)
LEMMA TaskEvidenceSays ==
  ASSUME NEW i \in Nat, NEW t, Terminal(t), NEW b, b = TaskEvidence(i, t)
  PROVE  /\ b \in Seq(EntryType) /\ Len(b) \in 1..3
         /\ b[1].kind = TaskKind(t.status) /\ b[1].task = i
         /\ \A k \in 2..Len(b) : b[k].kind = "technique.observed"
<1> DEFINE ids == TechniquesOf(t.playbook)
           f == [k \in 1..Len(ids) |-> Entry("technique.observed", i, "", ids[k], "")]
           g == IF t.status # "completed" THEN <<>> ELSE f
           h == <<TaskEntry(TaskKind(t.status), i)>>
<1>1. b = h \o g
  BY DEF TaskEvidence
<1>2. b \in Seq(EntryType)
  BY TaskEvidenceType
<1>3. Len(ids) \in 0..2
  BY FewTechniques
<1>4. /\ h \in Seq(EntryType) /\ Len(h) = 1
      /\ h[1].kind = TaskKind(t.status) /\ h[1].task = i
  <2>1. TaskKind(t.status) \in EntryKinds
    BY DEF TaskKind, Terminal, TERMINAL_TASK_STATUSES, EntryKinds
  <2>2. QED  BY <2>1, TaskEntryIsTyped DEF TaskEntry, Entry
<1>5. /\ g \in Seq(EntryType) /\ Len(g) \in 0..2
      /\ \A k \in 1..Len(g) : g[k].kind = "technique.observed"
  <2> HIDE DEF h
  <2>1. CASE t.status # "completed"
    <3>1. g = <<>>
      BY <2>1
    <3> HIDE DEF g
    <3>2. g \in Seq(EntryType) /\ Len(g) = 0
      BY <3>1, EmptySeq
    <3>3. QED  BY <3>2
  <2>2. CASE t.status = "completed"
    <3>1. g = f
      BY <2>2
    <3>2. \A k \in 1..Len(ids) : f[k] \in EntryType /\ f[k].kind = "technique.observed"
      <4>1. ids \in Seq(TechniqueIds)
        BY TechniquesType
      <4> HIDE DEF ids
      <4>2. ASSUME NEW k \in 1..Len(ids)
            PROVE  f[k] \in EntryType /\ f[k].kind = "technique.observed"
        <5>1. "technique.observed" \in EntryKinds /\ ids[k] \in TechniqueIds \cup {""}
          BY <4>1, ElementOfSeq DEF EntryKinds
        <5>2. "" \in RuleIds \cup {""} /\ "" \in CONTAINMENT_ACTIONS \cup {""}
          OBVIOUS
        <5>3. Entry("technique.observed", i, "", ids[k], "") \in EntryType
          BY <5>1, <5>2, EntryIsTyped
        <5>4. QED  BY <5>3 DEF Entry
      <4>3. QED  BY <4>2
    <3>3. f \in [1..Len(ids) -> EntryType]
      BY <3>2
    <3> HIDE DEF f, g, ids
    <3>4. f \in Seq(EntryType) /\ Len(f) = Len(ids)
      <4>1. f \in Seq(EntryType)
        BY <1>3, <3>3, FunctionIsSeq
      <4>2. DOMAIN f = 1..Len(f) /\ DOMAIN f = 1..Len(ids) /\ Len(f) \in Nat
        BY <3>3, <4>1, LenProperties
      <4>3. QED  BY <1>3, <4>1, <4>2
    <3>5. QED  BY <1>3, <3>1, <3>2, <3>4
  <2>3. QED  BY <2>1, <2>2
<1>6. PICK p \in Seq(EntryType) : p = h /\ Len(p) = 1 /\ p[1].kind = TaskKind(t.status)
                                   /\ p[1].task = i
  BY <1>4
<1>7. PICK q \in Seq(EntryType) : q = g /\ Len(q) \in 0..2
                      /\ \A k \in 1..Len(q) : q[k].kind = "technique.observed"
  BY <1>5
<1> HIDE DEF g, h, ids, f
<1>8. b = p \o q
  BY <1>1, <1>6, <1>7
<1>9. /\ Len(b) = 1 + Len(q) /\ b[1] = p[1]
      /\ \A k \in 1..Len(q) : b[1 + k] = q[k]
  <2>1. /\ Len(b) = Len(p) + Len(q) /\ \A k \in 1..Len(p) : b[k] = p[k]
        /\ \A k \in 1..Len(q) : b[Len(p) + k] = q[k]
    BY <1>8, Appended
  <2>2. Len(p) = 1
    BY <1>6
  <2>3. QED  BY <2>1, <2>2
<1>10. PICK n \in 0..2 : n = Len(q)
  BY <1>7
<1>11. Len(b) = 1 + n /\ Len(b) \in 1..3
  BY <1>9, <1>10
<1>12. ASSUME NEW k \in 2..Len(b) PROVE b[k].kind = "technique.observed"
  <2>1. k - 1 \in 1..Len(q) /\ k = 1 + (k - 1)
    BY <1>10, <1>11
  <2>2. b[k] = q[k - 1]
    BY <1>9, <2>1
  <2>3. QED  BY <1>7, <2>1, <2>2
<1>13. QED  BY <1>2, <1>6, <1>9, <1>11, <1>12

(* The matched rules, one entry each. *)
LEMMA DetectionsSay ==
  ASSUME NEW i \in Nat, NEW rules \in Seq(RuleType), NEW b, b = DetectionEntries(rules, i)
  PROVE  /\ b \in Seq(EntryType) /\ Len(b) = Len(rules)
         /\ \A k \in 1..Len(rules) : /\ b[k].kind = "detection.matched"
                                     /\ b[k].rule = rules[k].id /\ b[k].task = i
<1>1. b \in Seq(EntryType) /\ Len(rules) \in Nat
  BY DetectionEntriesType, LenProperties
<1>2. b = [k \in 1..Len(rules) |->
             Entry("detection.matched", i, rules[k].id, rules[k].technique, "")]
  BY DEF DetectionEntries
<1>3. DOMAIN b = 1..Len(rules) /\ DOMAIN b = 1..Len(b) /\ Len(b) \in Nat
  BY <1>1, <1>2, LenProperties
<1>4. Len(b) = Len(rules)
  BY <1>1, <1>3
<1>5. ASSUME NEW k \in 1..Len(rules)
      PROVE  /\ b[k].kind = "detection.matched"
             /\ b[k].rule = rules[k].id /\ b[k].task = i
  <2>1. PICK id, tech : id = rules[k].id /\ tech = rules[k].technique
    OBVIOUS
  <2>2. b[k] = Entry("detection.matched", i, id, tech, "")
    BY <1>2, <2>1
  <2>3. PICK y : y = Entry("detection.matched", i, id, tech, "")
    OBVIOUS
  <2>4. y.kind = "detection.matched" /\ y.rule = id /\ y.task = i
    BY <2>3 DEF Entry
  <2>5. b[k] = y
    BY <2>2, <2>3
  <2>6. QED  BY <2>1, <2>4, <2>5
<1>6. QED  BY <1>1, <1>4, <1>5

(* The block b ends the task i and alarms for the matched rules. *)
BlockOf(b, i, t, rules) ==
  /\ b \in Seq(EntryType) /\ Len(b) <= 3 + Len(rules)
  /\ \A k \in Int : \A j : Ends(b, k, j) <=> k = 1 /\ j = i
  /\ \A k \in Int : \A j : Done(b, k, j) <=> k = 1 /\ j = i /\ t.status = "completed"
  /\ \A k \in Int : ~Stops(b, k) /\ ~Closes(b, k)
  /\ \E c \in Nat : \A k \in Int : \A r, j :
       Alarms(b, k, r, j) <=> j = i /\ k - c \in 1..Len(rules) /\ rules[k - c].id = r

(* What the block of a task says: its evidence, then its detections. *)
LEMMA BlockSays ==
  ASSUME NEW i \in Nat, NEW t, Terminal(t), NEW rules \in Seq(RuleType), NEW b,
         b = TaskEvidence(i, t) \o DetectionEntries(rules, i)
  PROVE  BlockOf(b, i, t, rules)
<1>0. PICK u, v : u = TaskEvidence(i, t) /\ v = DetectionEntries(rules, i)
  OBVIOUS
<1>1. /\ u \in Seq(EntryType) /\ Len(u) \in 1..3
      /\ u[1].kind = TaskKind(t.status) /\ u[1].task = i
      /\ \A k \in 2..Len(u) : u[k].kind = "technique.observed"
  BY <1>0, TaskEvidenceSays, SMTT(20)
<1>2. /\ v \in Seq(EntryType) /\ Len(v) = Len(rules)
      /\ \A k \in 1..Len(rules) : /\ v[k].kind = "detection.matched"
                                  /\ v[k].rule = rules[k].id /\ v[k].task = i
  BY <1>0, DetectionsSay
<1>a. PICK m \in 1..3 : m = Len(u)
  BY <1>1
<1>b. PICK n \in Nat : n = Len(rules)
  BY LenProperties
<1>c. b = u \o v
  BY <1>0
<1>3. /\ b \in Seq(EntryType) /\ Len(b) = m + n
      /\ \A k \in 1..m : b[k] = u[k]
      /\ \A k \in 1..n : b[m + k] = v[k]
  <2>1. /\ b \in Seq(EntryType) /\ Len(b) = Len(u) + Len(v)
        /\ \A k \in 1..Len(u) : b[k] = u[k]
        /\ \A k \in 1..Len(v) : b[Len(u) + k] = v[k]
    <3>1. u \in Seq(EntryType) /\ v \in Seq(EntryType)
      BY <1>1, <1>2
    <3>2. QED  BY <3>1, <1>c, Appended
  <2>2. Len(v) = n
    BY <1>2, <1>b
  <2>3. QED  BY <2>1, <2>2, <1>a
<1>4. /\ TaskKind(t.status) \in TerminalKinds
      /\ TaskKind(t.status) = "task.completed" <=> t.status = "completed"
      /\ TaskKind(t.status) \notin {"detection.matched", "containment.applied",
                                    "exercise.completed", "exercise.failed"}
  BY DEF TaskKind, Terminal, TERMINAL_TASK_STATUSES, TerminalKinds
<1>5. \A k \in Int : k \in 1..Len(b) <=> k = 1 \/ k \in 2..m \/ k - m \in 1..n
  <2>1. Len(b) = m + n
    BY <1>3
  <2>2. QED  BY <2>1
<1>6. b[1].kind = TaskKind(t.status) /\ b[1].task = i
  <2>1. 1 \in 1..m
    OBVIOUS
  <2>2. b[1] = u[1]
    BY <1>3, <2>1
  <2>3. QED  BY <1>1, <2>2
<1>7. ASSUME NEW k \in 2..m
      PROVE  k \in Int /\ k # 1 /\ b[k].kind = "technique.observed" /\ k - m \notin 1..n
  <2>1. k \in 1..m /\ k \in Int /\ k # 1 /\ k - m \notin 1..n
    OBVIOUS
  <2>2. b[k] = u[k]
    BY <1>3, <2>1
  <2>3. QED  BY <1>1, <1>a, <2>1, <2>2
<1>8. ASSUME NEW k \in Int, k - m \in 1..n
      PROVE  /\ k # 1 /\ b[k].kind = "detection.matched"
             /\ b[k].rule = rules[k - m].id /\ b[k].task = i
  <2>1. k = m + (k - m) /\ k # 1
    BY <1>8
  <2>2. b[k] = v[k - m]
    BY <1>3, <1>8, <2>1
  <2>3. QED  BY <1>2, <1>8, <1>b, <2>1, <2>2
<1>9. \A k \in Int : \A j : Ends(b, k, j) <=> k = 1 /\ j = i
  BY <1>4, <1>5, <1>6, <1>7, <1>8 DEF Ends, TerminalKinds
<1>10. \A k \in Int : \A j : Done(b, k, j) <=> k = 1 /\ j = i /\ t.status = "completed"
  BY <1>4, <1>5, <1>6, <1>7, <1>8 DEF Done, At
<1>11. \A k \in Int : ~Stops(b, k) /\ ~Closes(b, k)
  BY <1>4, <1>5, <1>6, <1>7, <1>8 DEF Stops, Closes, At
<1>12. \A k \in Int : \A r, j : Alarms(b, k, r, j) <=>
         j = i /\ k - m \in 1..n /\ rules[k - m].id = r
  BY <1>4, <1>5, <1>6, <1>7, <1>8 DEF Alarms, At
<1>13. Len(b) <= 3 + n /\ m \in Nat
  <2>1. Len(b) = m + n
    BY <1>3
  <2>2. QED  BY <2>1
<1>14. \E c \in Nat : \A k \in Int : \A r, j :
         Alarms(b, k, r, j) <=> j = i /\ k - c \in 1..Len(rules) /\ rules[k - c].id = r
  BY <1>12, <1>13, <1>b, ZenonT(30)
<1>15. b \in Seq(EntryType) /\ Len(b) <= 3 + Len(rules)
  BY <1>3, <1>13, <1>b
<1>16. QED  BY <1>9, <1>10, <1>11, <1>14, <1>15 DEF BlockOf

-----------------------------------------------------------------------------
(* What the timeline s of the exercise x tells, when x has observed o. *)

Told(s, x, o) ==
  /\ s \in Seq(EntryType)
  /\ \A i \in TasksOf(x) : \A k, l \in Nat : Ends(s, k, i) /\ Ends(s, l, i) => k = l
  /\ \A i \in TasksOf(x) : i \in o <=> \E k \in Nat : Ends(s, k, i)
  /\ x.status = "contained" <=> \E k \in Nat : Stops(s, k)
  /\ \A k, l \in Nat : \A r, i, j : Alarms(s, k, r, i) /\ Alarms(s, l, r, j) => k = l
  /\ \A k \in Nat : \A r, i :
       Alarms(s, k, r, i) => i \in TasksOf(x) /\ Triggers(x, i, r) /\ Early(s, i)
  /\ \A i \in TasksOf(x) : \A r :
       Early(s, i) /\ Triggers(x, i, r) => \E k \in Nat : Alarms(s, k, r, i)

Completes(s, i) == \E k \in Nat : Done(s, k, i)
Alarmed(s, r, i) == \E k \in Nat : Alarms(s, k, r, i)

(* The end of a task is told when the task is observed. *)
LEMMA DoneEnds ==
  ASSUME NEW s, NEW k, NEW i, Done(s, k, i) PROVE Ends(s, k, i)
BY DEF Done, Ends, At, TerminalKinds

(* The rules that a task which ended triggers. *)
RulesHit(x, i, t) ==
  IF x.status # "contained" /\ t.status = "completed" THEN RulesOf(x, i) ELSE <<>>

(* The timeline u says what s says and, behind its position n, the block of
   the task i. *)
Extends(s, u, n, i, t, rules) ==
  /\ \A k \in Nat : \A j : Ends(u, k, j) <=> Ends(s, k, j) \/ (k = n + 1 /\ j = i)
  /\ \A k \in Nat : \A j :
       Done(u, k, j) <=> Done(s, k, j) \/ (k = n + 1 /\ j = i /\ t.status = "completed")
  /\ \A k \in Nat : (Stops(u, k) <=> Stops(s, k)) /\ (Closes(u, k) <=> Closes(s, k))
  /\ \A k \in Nat : Stops(s, k) => k <= n
  /\ \E c \in Nat : \A k \in Nat : \A r, j :
       Alarms(u, k, r, j) <=>
         \/ Alarms(s, k, r, j)
         \/ j = i /\ k - c \in 1..Len(rules) /\ rules[k - c].id = r

(* What a timeline says after the block of task i. *)
LEMMA BlockAppended ==
  ASSUME NEW s \in Seq(EntryType), NEW i \in Nat, NEW t, Terminal(t),
         NEW rules \in Seq(RuleType), NEW u, NEW b,
         b = TaskEvidence(i, t) \o DetectionEntries(rules, i), u = s \o b
  PROVE  /\ u \in Seq(EntryType) /\ Len(s) \in Nat /\ Len(rules) \in Nat
         /\ Len(u) \in Nat /\ Len(u) <= Len(s) + 3 + Len(rules)
         /\ Extends(s, u, Len(s), i, t, rules)
<1>1. BlockOf(b, i, t, rules)
  BY BlockSays
<1>2. b \in Seq(EntryType) /\ Len(b) <= 3 + Len(rules)
  BY <1>1 DEF BlockOf
<1>3. /\ \A k \in Int : \A j : Ends(b, k, j) <=> k = 1 /\ j = i
      /\ \A k \in Int : \A j : Done(b, k, j) <=> k = 1 /\ j = i /\ t.status = "completed"
      /\ \A k \in Int : ~Stops(b, k) /\ ~Closes(b, k)
  BY <1>1 DEF BlockOf
<1>4. PICK c \in Nat : \A k \in Int : \A r, j :
        Alarms(b, k, r, j) <=> j = i /\ k - c \in 1..Len(rules) /\ rules[k - c].id = r
  BY <1>1 DEF BlockOf
<1>5. PICK n \in Nat : n = Len(s)
  BY LenProperties
<1>6. Len(rules) \in Nat
  BY LenProperties
<1>7. u \in Seq(EntryType) /\ Len(u) = Len(s) + Len(b) /\ Len(b) \in Nat
  BY <1>2, Appended
<1>8. ASSUME NEW k \in Nat
      PROVE  /\ k - n \in Int
             /\ \A j : Ends(u, k, j) <=> Ends(s, k, j) \/ Ends(b, k - n, j)
             /\ \A j : Done(u, k, j) <=> Done(s, k, j) \/ Done(b, k - n, j)
             /\ \A r, j : Alarms(u, k, r, j) <=> Alarms(s, k, r, j) \/ Alarms(b, k - n, r, j)
             /\ Stops(u, k) <=> Stops(s, k) \/ Stops(b, k - n)
             /\ Closes(u, k) <=> Closes(s, k) \/ Closes(b, k - n)
  <2>1. b \in Seq(EntryType)
    BY <1>2
  <2>2. Splits(s, b, u, k, k - Len(s))
    BY <2>1, AppendedSays
  <2>3. PICK m \in Int : m = k - n
    OBVIOUS
  <2>4. Splits(s, b, u, k, m)
    BY <1>5, <2>2, <2>3
  <2>5. QED  BY <2>3, <2>4 DEF Splits
<1>9. ASSUME NEW k \in Nat
      PROVE  /\ k - n = 1 <=> k = n + 1
             /\ k - n - c = k - (n + c)
  OBVIOUS
<1>10. ASSUME NEW k \in Nat, NEW r, NEW j
       PROVE  Alarms(u, k, r, j) <=>
                \/ Alarms(s, k, r, j)
                \/ j = i /\ k - (n + c) \in 1..Len(rules) /\ rules[k - (n + c)].id = r
  <2>1. Alarms(b, k - n, r, j) <=>
          j = i /\ k - n - c \in 1..Len(rules) /\ rules[k - n - c].id = r
    BY <1>4, <1>8
  <2>2. k - n - c = k - (n + c)
    BY <1>9
  <2>3. QED  BY <1>8, <2>1, <2>2
<1>11. \A k \in Nat : Stops(s, k) => k <= n
  BY <1>5 DEF Stops, At
<1>13. \A k \in Nat : \A j : Ends(u, k, j) <=> Ends(s, k, j) \/ (k = n + 1 /\ j = i)
  BY <1>3, <1>8, <1>9
<1>14. \A k \in Nat : \A j :
         Done(u, k, j) <=> Done(s, k, j) \/ (k = n + 1 /\ j = i /\ t.status = "completed")
  BY <1>3, <1>8, <1>9
<1>15. \A k \in Nat : (Stops(u, k) <=> Stops(s, k)) /\ (Closes(u, k) <=> Closes(s, k))
  BY <1>3, <1>8
<1>16. Len(u) \in Nat /\ Len(u) <= n + 3 + Len(rules)
  BY <1>2, <1>5, <1>6, <1>7
<1>17. \E d \in Nat : \A k \in Nat : \A r, j :
         Alarms(u, k, r, j) <=>
           \/ Alarms(s, k, r, j)
           \/ j = i /\ k - d \in 1..Len(rules) /\ rules[k - d].id = r
  <2>1. n + c \in Nat
    OBVIOUS
  <2>2. QED  BY <1>10, <2>1
<1>18. Extends(s, u, n, i, t, rules)
  BY <1>11, <1>13, <1>14, <1>15, <1>17 DEF Extends
<1>19. QED  BY <1>5, <1>6, <1>7, <1>16, <1>18

(* A task whose end is told behind the end of the timeline completed early
   exactly when it completed and nothing was contained yet. *)
LEMMA EarlyAfterBlock ==
  ASSUME NEW s, NEW u, NEW n \in Nat, NEW i, NEW t, NEW rules,
         Extends(s, u, n, i, t, rules), NEW j
  PROVE  Early(u, j) <=>
           \/ Early(s, j)
           \/ j = i /\ t.status = "completed" /\ ~(\E k \in Nat : Stops(s, k))
<1>1. /\ \A k \in Nat :
           Done(u, k, j) <=> Done(s, k, j) \/ (k = n + 1 /\ j = i /\ t.status = "completed")
      /\ \A k \in Nat : Stops(u, k) <=> Stops(s, k)
      /\ \A k \in Nat : Stops(s, k) => k <= n
  BY DEF Extends
<1>2. n + 1 \in Nat /\ \A k \in Nat : k <= n => ~(n + 1 < k)
  OBVIOUS
<1>3. ASSUME Early(u, j)
      PROVE  Early(s, j) \/ (j = i /\ t.status = "completed" /\ ~(\E k \in Nat : Stops(s, k)))
  BY <1>1, <1>2, <1>3 DEF Early
<1>4. ASSUME Early(s, j) PROVE Early(u, j)
  BY <1>1, <1>4 DEF Early
<1>5. ASSUME j = i, t.status = "completed", ~(\E k \in Nat : Stops(s, k)) PROVE Early(u, j)
  <2>1. Done(u, n + 1, j)
    BY <1>1, <1>2, <1>5
  <2>2. QED  BY <1>1, <1>2, <1>5, <2>1 DEF Early
<1>6. QED  BY <1>3, <1>4, <1>5

(* The block of a task that was not observed yet keeps the timeline true. *)
LEMMA BlockTold ==
  ASSUME NEW x \in ExerciseType, x.task_ids[1] # x.task_ids[2],
         NEW s, NEW o, Told(s, x, o), NEW i \in TasksOf(x), i \notin o,
         NEW t, Terminal(t), NEW rules \in Seq(RuleType), rules = RulesHit(x, i, t),
         NEW n \in Nat, NEW u \in Seq(EntryType), Extends(s, u, n, i, t, rules)
  PROVE  Told(u, x, o \cup {i})
<1>0. /\ \A j \in TasksOf(x) : \A k, l \in Nat : Ends(s, k, j) /\ Ends(s, l, j) => k = l
      /\ \A j \in TasksOf(x) : j \in o <=> \E k \in Nat : Ends(s, k, j)
      /\ x.status = "contained" <=> \E k \in Nat : Stops(s, k)
  BY DEF Told
<1>1. /\ \A k \in Nat : \A j : Ends(u, k, j) <=> Ends(s, k, j) \/ (k = n + 1 /\ j = i)
      /\ \A k \in Nat : Stops(u, k) <=> Stops(s, k)
  BY DEF Extends
<1>2. PICK c \in Nat : \A k \in Nat : \A r, j :
        Alarms(u, k, r, j) <=>
          \/ Alarms(s, k, r, j)
          \/ j = i /\ k - c \in 1..Len(rules) /\ rules[k - c].id = r
  BY DEF Extends
<1>3. \A j : Early(u, j) <=>
        \/ Early(s, j)
        \/ j = i /\ t.status = "completed" /\ x.status # "contained"
  <2>1. x.status = "contained" <=> \E k \in Nat : Stops(s, k)
    BY <1>0
  <2>2. ASSUME NEW j
        PROVE  Early(u, j) <=>
                 \/ Early(s, j)
                 \/ j = i /\ t.status = "completed" /\ ~(\E k \in Nat : Stops(s, k))
    BY EarlyAfterBlock
  <2>3. QED  BY <2>1, <2>2
<1>4. n + 1 \in Nat
  OBVIOUS
<1>5. \A j \in TasksOf(x) : \A k, l \in Nat : Ends(u, k, j) /\ Ends(u, l, j) => k = l
  BY <1>0, <1>1
<1>6. \A j \in TasksOf(x) : j \in o \cup {i} <=> \E k \in Nat : Ends(u, k, j)
  BY <1>0, <1>1, <1>4
<1>7. x.status = "contained" <=> \E k \in Nat : Stops(u, k)
  BY <1>0, <1>1
<1>8. \A r : (\E k \in 1..Len(rules) : rules[k].id = r) <=>
        x.status # "contained" /\ t.status = "completed" /\ Triggers(x, i, r)
  <2>1. CASE x.status # "contained" /\ t.status = "completed"
    BY <2>1 DEF RulesHit, Triggers
  <2>2. CASE ~(x.status # "contained" /\ t.status = "completed")
    <3>1. rules = <<>>
      BY <2>2 DEF RulesHit
    <3>2. Len(rules) = 0
      BY <3>1
    <3>3. QED  BY <2>2, <3>2
  <2>3. QED  BY <2>1, <2>2
<1>9. \A j, k \in 1..Len(rules) : rules[j].id = rules[k].id => j = k
  <2>1. CASE x.status # "contained" /\ t.status = "completed"
    BY <2>1, FewRules DEF RulesHit, RulesOf
  <2>2. CASE ~(x.status # "contained" /\ t.status = "completed")
    <3>1. rules = <<>>
      BY <2>2 DEF RulesHit
    <3>2. Len(rules) = 0
      BY <3>1
    <3>3. QED  BY <3>2
  <2>3. QED  BY <2>1, <2>2
<1>10. ~Early(s, i)
  <2>1. \A k \in Nat : ~Ends(s, k, i)
    BY <1>0
  <2>2. QED  BY <2>1, DoneEnds DEF Early
<1>11. \A k \in Nat : \A r, j :
         Alarms(u, k, r, j) => j \in TasksOf(x) /\ Triggers(x, j, r) /\ Early(u, j)
  <2> SUFFICES ASSUME NEW k \in Nat, NEW r, NEW j, Alarms(u, k, r, j)
               PROVE  j \in TasksOf(x) /\ Triggers(x, j, r) /\ Early(u, j)
    OBVIOUS
  <2>1. CASE Alarms(s, k, r, j)
    <3>1. j \in TasksOf(x) /\ Triggers(x, j, r) /\ Early(s, j)
      BY <2>1 DEF Told
    <3>2. QED  BY <1>3, <3>1
  <2>2. CASE ~Alarms(s, k, r, j)
    <3>1. j = i /\ \E m \in 1..Len(rules) : rules[m].id = r
      BY <1>2, <2>2
    <3>2. QED  BY <1>3, <1>8, <3>1
  <2>3. QED  BY <2>1, <2>2
<1>12. \A k, l \in Nat : \A r, j, m : Alarms(u, k, r, j) /\ Alarms(u, l, r, m) => k = l
  <2> SUFFICES ASSUME NEW k \in Nat, NEW l \in Nat, NEW r, NEW j, NEW m,
                      Alarms(u, k, r, j), Alarms(u, l, r, m)
               PROVE  k = l
    OBVIOUS
  <2>1. Triggers(x, j, r) /\ Triggers(x, m, r) /\ j \in TasksOf(x) /\ m \in TasksOf(x)
    BY <1>11
  <2>2. x.scenario \in SCENARIO_IDS
    BY DEF ExerciseType
  <2>3. j = m
    BY <2>1, <2>2, RulesApart
  <2>4. CASE j # i
    <3>1. Alarms(s, k, r, j) /\ Alarms(s, l, r, j)
      BY <1>2, <2>3, <2>4
    <3>2. QED  BY <3>1 DEF Told
  <2>5. CASE j = i
    <3>1. ~Alarms(s, k, r, i) /\ ~Alarms(s, l, r, i)
      BY <1>10 DEF Told
    <3>2. /\ k - c \in 1..Len(rules) /\ rules[k - c].id = r
          /\ l - c \in 1..Len(rules) /\ rules[l - c].id = r
      BY <1>2, <2>3, <2>5, <3>1
    <3>3. k - c = l - c
      BY <1>9, <3>2
    <3>4. QED  BY <3>3
  <2>6. QED  BY <2>4, <2>5
<1>13. \A j \in TasksOf(x) : \A r :
         Early(u, j) /\ Triggers(x, j, r) => \E k \in Nat : Alarms(u, k, r, j)
  <2> SUFFICES ASSUME NEW j \in TasksOf(x), NEW r, Early(u, j), Triggers(x, j, r)
               PROVE  \E k \in Nat : Alarms(u, k, r, j)
    OBVIOUS
  <2>1. CASE Early(s, j)
    BY <1>2, <2>1 DEF Told
  <2>2. CASE ~Early(s, j)
    <3>1. j = i /\ t.status = "completed" /\ x.status # "contained"
      BY <1>3, <2>2
    <3>2. PICK m \in 1..Len(rules) : rules[m].id = r
      BY <1>8, <3>1
    <3>3. Len(rules) \in Nat
      BY LenProperties
    <3>4. m + c \in Nat /\ (m + c) - c = m
      BY <3>3
    <3>5. Alarms(u, m + c, r, j)
      BY <1>2, <3>1, <3>2, <3>4
    <3>6. QED  BY <3>4, <3>5
  <2>3. QED  BY <2>1, <2>2
<1>14. QED  BY <1>5, <1>6, <1>7, <1>11, <1>12, <1>13 DEF Told

(* The task i completed where completing still raises alerts. *)
Hits(x, t) == x.status # "contained" /\ t.status = "completed"

(* The rules hit are the step's rules, or none. *)
LEMMA RulesHitAre ==
  ASSUME NEW x, NEW i, NEW t
  PROVE  /\ RulesHit(x, i, t) \in Seq(RuleType) /\ Len(RulesHit(x, i, t)) \in 0..2
         /\ \A r : (\E k \in 1..Len(RulesHit(x, i, t)) : RulesHit(x, i, t)[k].id = r) <=>
                     Hits(x, t) /\ Triggers(x, i, r)
<1>1. CASE Hits(x, t)
  <2>1. RulesHit(x, i, t) = RulesOf(x, i)
    BY <1>1 DEF Hits, RulesHit
  <2>2. RulesOf(x, i) \in Seq(RuleType) /\ Len(RulesOf(x, i)) \in 0..2
    BY DetectionsType, FewRules DEF RulesOf
  <2>3. QED  BY <1>1, <2>1, <2>2 DEF Triggers
<1>2. CASE ~Hits(x, t)
  <2>1. RulesHit(x, i, t) = <<>>
    BY <1>2 DEF Hits, RulesHit
  <2>2. <<>> \in Seq(RuleType) /\ Len(<<>>) = 0
    BY EmptySeq
  <2>3. QED  BY <1>2, <2>1, <2>2
<1>3. QED  BY <1>1, <1>2

(* What the refresh of one task does to the timeline, where fresh tells
   whether it is a fresh task. *)
Catches(s, u, x, i, t, fresh) ==
  /\ u \in Seq(EntryType) /\ Len(u) \in Nat
  /\ Len(u) <= Len(s) + (IF fresh THEN 5 ELSE 0)
  /\ \A j : Completes(u, j) <=>
       Completes(s, j) \/ (fresh /\ j = i /\ t.status = "completed")
  /\ \A r, j : Alarmed(u, r, j) <=>
       Alarmed(s, r, j) \/ (fresh /\ j = i /\ Hits(x, t) /\ Triggers(x, i, r))
  /\ (\E k \in Nat : Closes(u, k)) <=> (\E k \in Nat : Closes(s, k))

(* The block of a fresh task. *)
LEMMA FreshTaskTold ==
  ASSUME NEW x \in ExerciseType, x.task_ids[1] # x.task_ids[2],
         NEW s, NEW o, Told(s, x, o), NEW i \in TasksOf(x), i \notin o,
         NEW t, Terminal(t), NEW u,
         u = s \o (TaskEvidence(i, t) \o DetectionEntries(RulesHit(x, i, t), i))
  PROVE  Told(u, x, o \cup {i}) /\ Catches(s, u, x, i, t, TRUE)
<1>1. PICK rules \in Seq(RuleType) : rules = RulesHit(x, i, t)
  BY RulesHitAre
<1>2. PICK b : b = TaskEvidence(i, t) \o DetectionEntries(rules, i)
  OBVIOUS
<1>3. u = s \o b
  BY <1>1, <1>2
<1>4. s \in Seq(EntryType) /\ i \in Nat
  BY ExerciseTasks DEF Told
<1>5. /\ u \in Seq(EntryType) /\ Len(s) \in Nat /\ Len(rules) \in Nat
      /\ Len(u) \in Nat /\ Len(u) <= Len(s) + 3 + Len(rules)
      /\ Extends(s, u, Len(s), i, t, rules)
  BY <1>2, <1>3, <1>4, BlockAppended
<1>6. PICK n \in Nat : n = Len(s)
  BY <1>5
<1>7. Told(u, x, o \cup {i})
  BY <1>1, <1>5, <1>6, BlockTold
<1>8. Len(rules) \in 0..2
  BY <1>1, RulesHitAre
<1>9. Len(u) <= Len(s) + 5
  <2>1. PICK l \in Nat, m \in 0..2 : l = Len(u) /\ m = Len(rules)
    BY <1>5, <1>8
  <2>2. l <= n + 3 + m
    BY <1>5, <1>6, <2>1
  <2>3. l <= n + 5
    BY <2>2
  <2>4. QED  BY <1>6, <2>1, <2>3
<1>10. Extends(s, u, n, i, t, rules)
  BY <1>5, <1>6
<1>11. ASSUME NEW j
       PROVE  Completes(u, j) <=> Completes(s, j) \/ (j = i /\ t.status = "completed")
  <2>1. \A k \in Nat :
          Done(u, k, j) <=> Done(s, k, j) \/ (k = n + 1 /\ j = i /\ t.status = "completed")
    BY <1>10 DEF Extends
  <2>2. n + 1 \in Nat
    OBVIOUS
  <2>3. QED  BY <2>1, <2>2 DEF Completes
<1>12. ASSUME NEW r, NEW j
       PROVE  Alarmed(u, r, j) <=>
                Alarmed(s, r, j) \/ (j = i /\ Hits(x, t) /\ Triggers(x, i, r))
  <2>1. PICK c \in Nat : \A k \in Nat :
          Alarms(u, k, r, j) <=>
            \/ Alarms(s, k, r, j)
            \/ j = i /\ k - c \in 1..Len(rules) /\ rules[k - c].id = r
    BY <1>10 DEF Extends
  <2>2. (\E k \in 1..Len(rules) : rules[k].id = r) <=> Hits(x, t) /\ Triggers(x, i, r)
    <3>1. (\E k \in 1..Len(RulesHit(x, i, t)) : RulesHit(x, i, t)[k].id = r)
            <=> Hits(x, t) /\ Triggers(x, i, r)
      BY RulesHitAre
    <3>2. QED  BY <1>1, <3>1
  <2>3. ASSUME NEW k \in Nat, Alarms(u, k, r, j)
        PROVE  Alarmed(s, r, j) \/ (j = i /\ \E m \in 1..Len(rules) : rules[m].id = r)
    BY <2>1, <2>3 DEF Alarmed
  <2>4. ASSUME j = i, NEW m \in 1..Len(rules), rules[m].id = r PROVE Alarmed(u, r, j)
    <3>1. m + c \in Nat /\ (m + c) - c = m
      BY <1>8
    <3>2. Alarms(u, m + c, r, j)
      BY <2>1, <2>4, <3>1
    <3>3. QED  BY <3>1, <3>2 DEF Alarmed
  <2>5. Alarmed(s, r, j) => Alarmed(u, r, j)
    BY <2>1 DEF Alarmed
  <2>6. Alarmed(u, r, j) => \E k \in Nat : Alarms(u, k, r, j)
    BY DEF Alarmed
  <2>7. QED  BY <2>2, <2>3, <2>4, <2>5, <2>6
<1>13. (\E k \in Nat : Closes(u, k)) <=> (\E k \in Nat : Closes(s, k))
  BY <1>10 DEF Extends
<1>14. QED  BY <1>5, <1>7, <1>9, <1>11, <1>12, <1>13 DEF Catches

(* What the refresh of one task makes of a timeline that is told. *)
LEMMA TaskTold ==
  ASSUME NEW x \in ExerciseType, x.task_ids[1] # x.task_ids[2], NEW T,
         NEW s, NEW o, Told(s, x, o), NEW i \in TasksOf(x),
         i \in Fresh(x, T) => i \notin o /\ MatchedRules(x, T, i) = RulesHit(x, i, T[i]),
         NEW u, u = s \o NewEntries(x, T, i)
  PROVE  /\ Told(u, x, o \cup ({i} \cap Fresh(x, T)))
         /\ Catches(s, u, x, i, T[i], i \in Fresh(x, T))
<1>1. CASE i \in Fresh(x, T)
  <2>1. Terminal(T[i])
    BY <1>1 DEF Fresh
  <2>2. u = s \o (TaskEvidence(i, T[i]) \o DetectionEntries(RulesHit(x, i, T[i]), i))
    BY <1>1 DEF NewEntries
  <2>3. Told(u, x, o \cup {i}) /\ Catches(s, u, x, i, T[i], TRUE)
    BY <1>1, <2>1, <2>2, FreshTaskTold
  <2>4. {i} \cap Fresh(x, T) = {i}
    BY <1>1
  <2>5. (i \in Fresh(x, T)) = TRUE
    BY <1>1
  <2>6. QED  BY <2>3, <2>4, <2>5
<1>2. CASE i \notin Fresh(x, T)
  <2>1. s \in Seq(EntryType)
    BY DEF Told
  <2>2. u = s
    BY <1>2, <2>1, ConcatEmptySeq DEF NewEntries
  <2>3. Len(s) \in Nat
    BY <2>1, LenProperties
  <2>4. o \cup ({i} \cap Fresh(x, T)) = o
    BY <1>2
  <2>5. Catches(s, u, x, i, T[i], i \in Fresh(x, T))
    BY <1>2, <2>1, <2>2, <2>3 DEF Catches
  <2>6. QED  BY <2>2, <2>4, <2>5
<1>3. QED  BY <1>1, <1>2

(* An entry that is neither an end, an alarm nor a containment changes none
   of the rest. *)
LEMMA QuietEntryTold ==
  ASSUME NEW s, NEW x, NEW o, Told(s, x, o), NEW y \in EntryType,
         y.kind \notin TerminalKinds, y.kind # "detection.matched",
         y.kind # "containment.applied", NEW u, u = s \o <<y>>
  PROVE  /\ Told(u, x, o) /\ Len(u) \in Nat /\ Len(u) = Len(s) + 1
         /\ \A j : Completes(u, j) <=> Completes(s, j)
         /\ \A r, j : Alarmed(u, r, j) <=> Alarmed(s, r, j)
         /\ (\E k \in Nat : Closes(u, k)) <=>
              \/ \E k \in Nat : Closes(s, k)
              \/ y.kind \in {"exercise.completed", "exercise.failed"}
<1>1. PICK b : b = <<y>>
  OBVIOUS
<1>2. b \in Seq(EntryType) /\ Len(b) = 1 /\ b[1] = y
  BY <1>1
<1>3. s \in Seq(EntryType)
  BY DEF Told
<1>4. PICK n \in Nat : n = Len(s)
  BY <1>3, LenProperties
<1>5. u \in Seq(EntryType) /\ Len(u) = n + 1
  BY <1>1, <1>2, <1>3, <1>4, Appended
<1>6. /\ \A k \in Int : \A j : ~Ends(b, k, j)
      /\ \A k \in Int : \A j : ~Done(b, k, j)
      /\ \A k \in Int : \A r, j : ~Alarms(b, k, r, j)
      /\ \A k \in Int : ~Stops(b, k)
      /\ \A k \in Int : Closes(b, k) <=>
           k = 1 /\ y.kind \in {"exercise.completed", "exercise.failed"}
  BY <1>2 DEF Ends, Done, Alarms, Stops, Closes, At, TerminalKinds
<1>7. ASSUME NEW k \in Nat
      PROVE  /\ \A j : Ends(u, k, j) <=> Ends(s, k, j)
             /\ \A j : Done(u, k, j) <=> Done(s, k, j)
             /\ \A r, j : Alarms(u, k, r, j) <=> Alarms(s, k, r, j)
             /\ Stops(u, k) <=> Stops(s, k)
             /\ Closes(u, k) <=>
                  \/ Closes(s, k)
                  \/ k = n + 1 /\ y.kind \in {"exercise.completed", "exercise.failed"}
  <2>1. u = s \o b
    BY <1>1
  <2>2. Splits(s, b, u, k, k - Len(s))
    BY <1>2, <1>3, <2>1, AppendedSays
  <2>3. PICK m \in Int : m = k - n
    OBVIOUS
  <2>4. Splits(s, b, u, k, m)
    BY <1>4, <2>2, <2>3
  <2>5. m = 1 <=> k = n + 1
    BY <2>3
  <2>6. QED  BY <1>6, <2>4, <2>5 DEF Splits
<1>8. \A j : Early(u, j) <=> Early(s, j)
  BY <1>7 DEF Early
<1>9. Told(u, x, o)
  <2>1. /\ \A i \in TasksOf(x) : \A k, l \in Nat : Ends(u, k, i) /\ Ends(u, l, i) => k = l
        /\ \A i \in TasksOf(x) : i \in o <=> \E k \in Nat : Ends(u, k, i)
        /\ x.status = "contained" <=> \E k \in Nat : Stops(u, k)
        /\ \A k, l \in Nat : \A r, i, j : Alarms(u, k, r, i) /\ Alarms(u, l, r, j) => k = l
    BY <1>7 DEF Told
  <2>2. ASSUME NEW k \in Nat, NEW r, NEW i, Alarms(u, k, r, i)
        PROVE  i \in TasksOf(x) /\ Triggers(x, i, r) /\ Early(u, i)
    <3>1. Alarms(s, k, r, i)
      BY <1>7, <2>2
    <3>2. i \in TasksOf(x) /\ Triggers(x, i, r) /\ Early(s, i)
      BY <3>1 DEF Told
    <3>3. QED  BY <1>8, <3>2
  <2>3. ASSUME NEW i \in TasksOf(x), NEW r, Early(u, i), Triggers(x, i, r)
        PROVE  \E k \in Nat : Alarms(u, k, r, i)
    <3>1. Early(s, i)
      BY <1>8, <2>3
    <3>2. \E k \in Nat : Alarms(s, k, r, i)
      BY <2>3, <3>1 DEF Told
    <3>3. QED  BY <1>7, <3>2
  <2>4. QED  BY <1>5, <2>1, <2>2, <2>3 DEF Told
<1>10. (\A j : Completes(u, j) <=> Completes(s, j)) /\ (\A r, j : Alarmed(u, r, j) <=> Alarmed(s, r, j))
  BY <1>7 DEF Completes, Alarmed
<1>11. (\E k \in Nat : Closes(u, k)) <=>
              \/ \E k \in Nat : Closes(s, k)
              \/ y.kind \in {"exercise.completed", "exercise.failed"}
  <2>1. n + 1 \in Nat
    OBVIOUS
  <2>2. QED  BY <1>7, <2>1
<1>12. QED  BY <1>4, <1>5, <1>9, <1>10, <1>11

(* Two exercise records between which the story of the timeline carries over. *)
Alike(x, y) ==
  /\ y.task_ids = x.task_ids /\ y.scenario = x.scenario
  /\ y.status = "contained" <=> x.status = "contained"

(* The story told of one is then told of the other. *)
LEMMA ToldAlike ==
  ASSUME NEW s, NEW x, NEW y, NEW o, Alike(x, y), Told(s, x, o)
  PROVE  Told(s, y, o)
<1>1. TasksOf(y) = TasksOf(x) /\ \A i, r : Triggers(y, i, r) <=> Triggers(x, i, r)
  BY DEF Alike, TasksOf, Triggers, RulesOf, PlaybookOf
<1>2. QED  BY <1>1 DEF Told, Alike

-----------------------------------------------------------------------------
(* The invariant of one exercise record x. *)

AlertStatus(x) == IF x.status = "contained" THEN "contained" ELSE "open"

AlertOf(x, r, i) == [rule_id |-> r, task |-> i, status |-> AlertStatus(x)]

(* Alerts and alarms correspond. *)
AlertsOK(x) ==
  /\ \A a \in x.alerts : a.status = AlertStatus(x) /\ Alarmed(x.timeline, a.rule_id, a.task)
  /\ \A r, i : Alarmed(x.timeline, r, i) => AlertOf(x, r, i) \in x.alerts
  /\ x.detection_status = "detected" <=> x.alerts # {}

(* The verdict follows from the two tasks. *)
VerdictOK(x) ==
  /\ x.completion_recorded <=> \E k \in Nat : Closes(x.timeline, k)
  /\ x.status = "running" => ~x.completion_recorded /\ ~(TasksOf(x) \subseteq x.observed)
  /\ x.status = "completed" =>
       x.completion_recorded /\ \A i \in TasksOf(x) : Completes(x.timeline, i)
  /\ x.status = "failed" =>
       /\ x.completion_recorded /\ TasksOf(x) \subseteq x.observed
       /\ ~(\A i \in TasksOf(x) : Completes(x.timeline, i))

(* What the timeline needs: three entries at the start, five at most per
   observed task, one for the verdict and one for the containment. *)
Room(x) ==
  3 + (IF x.task_ids[1] \in x.observed THEN 5 ELSE 0)
    + (IF x.task_ids[2] \in x.observed THEN 5 ELSE 0)
    + (IF x.completion_recorded THEN 1 ELSE 0)
    + (IF x.status = "contained" THEN 1 ELSE 0)

ExerciseOK(x) ==
  /\ x.task_ids[1] # x.task_ids[2]
  /\ x.observed \subseteq TasksOf(x)
  /\ Told(x.timeline, x, x.observed)
  /\ AlertsOK(x)
  /\ VerdictOK(x)
  /\ Len(x.timeline) <= Room(x)

(* The exercise e and the task dictionary T: what x has not observed is there,
   what it has observed has ended the way the timeline tells. *)
Owns(e, x, T) ==
  /\ \A i \in TasksOf(x) : i \notin x.observed => i \in DOMAIN T
  /\ x.status = "running" => TasksOf(x) \subseteq DOMAIN T
  /\ \A i \in TasksOf(x) \cap DOMAIN T :
       /\ T[i].exercise = e /\ T[i].playbook = PlaybookOf(x, i)
       /\ i \in x.observed =>
            Terminal(T[i]) /\ (Completes(x.timeline, i) <=> T[i].status = "completed")
       /\ x.status = "contained" => T[i].status # "queued"

(* Nothing that ended is left to be observed. *)
CaughtUp(x, T) ==
  \A i \in TasksOf(x) \cap DOMAIN T : Terminal(T[i]) => i \in x.observed

(* A task that was not observed has not completed yet. *)
LEMMA UnseenNotDone ==
  ASSUME NEW s, NEW x, NEW o, Told(s, x, o), NEW i \in TasksOf(x), i \notin o
  PROVE  ~Completes(s, i) /\ ~Early(s, i) /\ \A r : ~Alarmed(s, r, i)
<1>1. \A k \in Nat : ~Ends(s, k, i)
  BY DEF Told
<1>2. \A k \in Nat : ~Done(s, k, i)
  BY <1>1, DoneEnds
<1>3. ~Early(s, i)
  BY <1>2 DEF Early
<1>4. \A r : ~Alarmed(s, r, i)
  BY <1>3 DEF Told, Alarmed
<1>5. QED  BY <1>2, <1>3, <1>4 DEF Completes

(* A rule raises one alert only, and no step of the scenario shares a rule
   with the other: the alerts that are there never hold back a fresh task's. *)
LEMMA FreshMatches ==
  ASSUME NEW x \in ExerciseType, ExerciseOK(x), NEW T, NEW i \in Fresh(x, T),
         T[i].playbook = PlaybookOf(x, i)
  PROVE  MatchedRules(x, T, i) = RulesHit(x, i, T[i])
<1> DEFINE rules == detections_for_playbook(x.scenario, T[i].playbook)
<1>1. rules = RulesOf(x, i)
  BY DEF RulesOf
<1>2. i \in TasksOf(x) /\ i \notin x.observed
  BY DEF Fresh
<1>3. ASSUME NEW k \in 1..Len(rules), NEW a \in x.alerts PROVE a.rule_id # rules[k].id
  <2> SUFFICES ASSUME a.rule_id = rules[k].id PROVE FALSE
    OBVIOUS
  <2>1. Alarmed(x.timeline, a.rule_id, a.task)
    BY DEF ExerciseOK, AlertsOK
  <2>2. a.task \in TasksOf(x) /\ Triggers(x, a.task, a.rule_id)
    BY <2>1 DEF ExerciseOK, Told, Alarmed
  <2>3. Triggers(x, i, a.rule_id)
    BY <1>1 DEF Triggers
  <2>4. x.scenario \in SCENARIO_IDS /\ x.task_ids[1] # x.task_ids[2]
    BY DEF ExerciseType, ExerciseOK
  <2>5. a.task = i
    BY <1>2, <2>2, <2>3, <2>4, RulesApart
  <2>6. ~Alarmed(x.timeline, a.rule_id, i)
    BY <1>2, UnseenNotDone DEF ExerciseOK
  <2>7. QED  BY <2>1, <2>5, <2>6
<1>4. CASE x.status # "contained" /\ T[i].status = "completed"
  BY <1>1, <1>3, <1>4 DEF MatchedRules, RulesHit
<1>5. CASE ~(x.status # "contained" /\ T[i].status = "completed")
  BY <1>5 DEF MatchedRules, RulesHit
<1>6. QED  BY <1>4, <1>5

(* The alerts a refresh raises for a task are those of the rules it hit. *)
LEMMA NewAlertsAre ==
  ASSUME NEW x \in ExerciseType, NEW T, NEW i,
         i \in Fresh(x, T) => MatchedRules(x, T, i) = RulesHit(x, i, T[i])
  PROVE  /\ \A a \in NewAlerts(x, T, i) :
              \E r : /\ a = [rule_id |-> r, task |-> i, status |-> "open"]
                     /\ i \in Fresh(x, T) /\ Hits(x, T[i]) /\ Triggers(x, i, r)
         /\ \A r : i \in Fresh(x, T) /\ Hits(x, T[i]) /\ Triggers(x, i, r) =>
              [rule_id |-> r, task |-> i, status |-> "open"] \in NewAlerts(x, T, i)
<1>1. CASE i \notin Fresh(x, T)
  BY <1>1 DEF NewAlerts
<1>2. CASE i \in Fresh(x, T)
  <2>1. PICK rules : rules = RulesHit(x, i, T[i])
    OBVIOUS
  <2>2. NewAlerts(x, T, i) =
          {[rule_id |-> rules[k].id, task |-> i, status |-> "open"] : k \in 1..Len(rules)}
    BY <1>2, <2>1 DEF NewAlerts
  <2>3. \A r : (\E k \in 1..Len(rules) : rules[k].id = r) <=>
                 Hits(x, T[i]) /\ Triggers(x, i, r)
    <3>1. \A r : (\E k \in 1..Len(RulesHit(x, i, T[i])) : RulesHit(x, i, T[i])[k].id = r)
                   <=> Hits(x, T[i]) /\ Triggers(x, i, r)
      BY RulesHitAre
    <3>2. QED  BY <2>1, <3>1
  <2>4. QED  BY <1>2, <2>2, <2>3
<1>3. QED  BY <1>1, <1>2

-----------------------------------------------------------------------------
(* _refresh_exercises_locked keeps the invariant. *)

(* What a refresh writes. *)
RefreshedFields(x, T, y) ==
  /\ y.node = x.node /\ y.scenario = x.scenario /\ y.task_ids = x.task_ids
  /\ y.containment = x.containment
  /\ y.observed = x.observed \cup Fresh(x, T)
  /\ y.alerts = x.alerts \cup NewAlerts(x, T, x.task_ids[1])
                         \cup NewAlerts(x, T, x.task_ids[2])
  /\ y.detection_status = IF NewAlerts(x, T, x.task_ids[1])
                               \cup NewAlerts(x, T, x.task_ids[2]) # {}
                          THEN "detected" ELSE x.detection_status
  /\ y.status = IF Concludes(x, T) THEN Verdict(x, T) ELSE x.status
  /\ y.timeline = AppendTimeline(x.timeline, NewEntries(x, T, x.task_ids[1])
                    \o NewEntries(x, T, x.task_ids[2]) \o ClosingEntry(x, T))

(* It writes these and the flag of the closing entry. *)
LEMMA RefreshFields ==
  ASSUME NEW x \in ExerciseType, NEW T, NEW y, y = Refresh(x, T)
  PROVE  /\ y \in ExerciseType /\ RefreshedFields(x, T, y)
         /\ y.completion_recorded <=> x.completion_recorded \/ Concludes(x, T)
<1>1. y \in ExerciseType
  BY RefreshType
<1>2. RefreshedFields(x, T, y)
  <2> DEFINE alerts == NewAlerts(x, T, x.task_ids[1]) \cup NewAlerts(x, T, x.task_ids[2])
             entries == NewEntries(x, T, x.task_ids[1])
                          \o NewEntries(x, T, x.task_ids[2]) \o ClosingEntry(x, T)
  <2>1. PICK o, al, d, st, tl :
          /\ o = x.observed \cup Fresh(x, T) /\ al = x.alerts \cup alerts
          /\ d = IF alerts # {} THEN "detected" ELSE x.detection_status
          /\ st = IF Concludes(x, T) THEN Verdict(x, T) ELSE x.status
          /\ tl = AppendTimeline(x.timeline, entries)
    OBVIOUS
  <2>2. y = [x EXCEPT !.observed = o, !.alerts = al, !.detection_status = d,
                      !.status = st,
                      !.completion_recorded = x.completion_recorded \/ Concludes(x, T),
                      !.timeline = tl]
    BY <2>1 DEF Refresh
  <2>3. /\ y.node = x.node /\ y.scenario = x.scenario /\ y.task_ids = x.task_ids
        /\ y.containment = x.containment
        /\ y.observed = o /\ y.alerts = al /\ y.detection_status = d /\ y.status = st
        /\ y.timeline = tl
    BY <2>2 DEF ExerciseType
  <2>4. QED  BY <2>1, <2>3 DEF RefreshedFields
<1>3. y.completion_recorded <=> x.completion_recorded \/ Concludes(x, T)
  <2>1. PICK c \in BOOLEAN : c = (x.completion_recorded \/ Concludes(x, T))
    OBVIOUS
  <2>2. y.completion_recorded = c
    BY <2>1 DEF Refresh, ExerciseType
  <2>3. QED  BY <2>1, <2>2
<1>4. QED  BY <1>1, <1>2, <1>3

(* A verdict is not a containment. *)
LEMMA RefreshAlike ==
  ASSUME NEW x \in ExerciseType, NEW T, NEW y, y = Refresh(x, T)
  PROVE  Alike(x, y) /\ TasksOf(y) = TasksOf(x)
<1>1. RefreshedFields(x, T, y)
  BY RefreshFields
<1>2. Concludes(x, T) => x.status # "contained"
  BY DEF Concludes
<1>3. Verdict(x, T) # "contained"
  BY DEF Verdict
<1>4. y.status = "contained" <=> x.status = "contained"
  BY <1>1, <1>2, <1>3 DEF RefreshedFields
<1>5. QED  BY <1>1, <1>4 DEF RefreshedFields, Alike, TasksOf

(* What the timeline says after a refresh. *)
Grown(x, T, s) ==
  /\ \A j \in TasksOf(x) : Completes(s, j) <=>
       Completes(x.timeline, j) \/ (j \in Fresh(x, T) /\ T[j].status = "completed")
  /\ \A r, j : Alarmed(s, r, j) <=>
       \/ Alarmed(x.timeline, r, j)
       \/ j \in Fresh(x, T) /\ Hits(x, T[j]) /\ Triggers(x, j, r)
  /\ (\E k \in Nat : Closes(s, k)) <=>
       (\E k \in Nat : Closes(x.timeline, k)) \/ Concludes(x, T)

(* The entry that closes an exercise. *)
LEMMA ClosingTold ==
  ASSUME NEW x, NEW T, NEW s, NEW o, Told(s, x, o), NEW u, u = s \o ClosingEntry(x, T)
  PROVE  /\ Told(u, x, o) /\ Len(u) \in Nat
         /\ Len(u) = Len(s) + (IF Concludes(x, T) THEN 1 ELSE 0)
         /\ \A j : Completes(u, j) <=> Completes(s, j)
         /\ \A r, j : Alarmed(u, r, j) <=> Alarmed(s, r, j)
         /\ (\E k \in Nat : Closes(u, k)) <=>
              (\E k \in Nat : Closes(s, k)) \/ Concludes(x, T)
<1>1. CASE Concludes(x, T)
  <2>1. PICK kind \in {"exercise.completed", "exercise.failed"} :
          ClosingEntry(x, T) = <<TaskEntry(kind, 0)>>
    BY <1>1 DEF ClosingEntry
  <2>2. PICK y : y = TaskEntry(kind, 0)
    OBVIOUS
  <2>3. y.kind = kind
    BY <2>2 DEF TaskEntry, Entry
  <2>4. y \in EntryType
    BY <2>1, <2>2, TaskEntryIsTyped DEF EntryKinds
  <2>5. /\ y.kind \notin TerminalKinds /\ y.kind # "detection.matched"
        /\ y.kind # "containment.applied"
        /\ y.kind \in {"exercise.completed", "exercise.failed"}
    BY <2>3 DEF TerminalKinds
  <2>6. u = s \o <<y>>
    BY <2>1, <2>2
  <2>7. QED  BY <1>1, <2>4, <2>5, <2>6, QuietEntryTold
<1>2. CASE ~Concludes(x, T)
  <2>1. s \in Seq(EntryType)
    BY DEF Told
  <2>2. u = s
    BY <1>2, <2>1, ConcatEmptySeq DEF ClosingEntry
  <2>3. Len(s) \in Nat
    BY <2>1, LenProperties
  <2>4. QED  BY <1>2, <2>2, <2>3
<1>3. QED  BY <1>1, <1>2

(* Within its bound a timeline drops nothing. *)
LEMMA NothingDropped ==
  ASSUME NEW s, NEW t, Len(s \o t) <= 16
  PROVE  AppendTimeline(s, t) = s \o t
BY DEF AppendTimeline, MAX_EXERCISE_TIMELINE

(* Three blocks appended one by one, or at once. *)
OneByOne(s, t, u, v) == ((s \o t) \o u) \o v
AllAtOnce(s, t, u, v) == s \o ((t \o u) \o v)

(* It is the same. *)
LEMMA AppendedAtOnce ==
  ASSUME NEW s \in Seq(EntryType), NEW t \in Seq(EntryType),
         NEW u \in Seq(EntryType), NEW v \in Seq(EntryType)
  PROVE  OneByOne(s, t, u, v) = AllAtOnce(s, t, u, v)
<1>1. (s \o t) \o u = s \o (t \o u)
  BY ConcatAssociative
<1>2. PICK tu \in Seq(EntryType) : tu = t \o u
  BY ConcatProperties
<1>3. (s \o tu) \o v = s \o (tu \o v)
  BY ConcatAssociative, SMTT(20)
<1>4. QED  BY <1>1, <1>2, <1>3 DEF OneByOne, AllAtOnce

(* The refresh appends to the timeline without ever running into its bound. *)
LEMMA RefreshTimeline ==
  ASSUME NEW x \in ExerciseType, ExerciseOK(x), NEW e, NEW T, Owns(e, x, T),
         NEW y, y = Refresh(x, T)
  PROVE  /\ Told(y.timeline, y, y.observed) /\ Len(y.timeline) <= Room(y)
         /\ Grown(x, T, y.timeline)
<1> DEFINE i1 == x.task_ids[1]
           i2 == x.task_ids[2]
           F == Fresh(x, T)
<1>1. /\ i1 \in TasksOf(x) /\ i2 \in TasksOf(x) /\ i1 # i2
      /\ \A j \in TasksOf(x) : j = i1 \/ j = i2
      /\ F \subseteq TasksOf(x) /\ F \cap x.observed = {}
  BY DEF TasksOf, Fresh, ExerciseOK
<1>2. /\ Told(x.timeline, x, x.observed) /\ x.timeline \in Seq(EntryType)
  BY DEF ExerciseOK, ExerciseType
<1>3. \A i \in F : MatchedRules(x, T, i) = RulesHit(x, i, T[i])
  <2>1. \A i \in F : T[i].playbook = PlaybookOf(x, i)
    BY DEF Owns, Fresh
  <2>2. QED  BY <2>1, FreshMatches
<1>4. /\ RefreshedFields(x, T, y) /\ y \in ExerciseType
      /\ y.completion_recorded <=> x.completion_recorded \/ Concludes(x, T)
  BY RefreshFields
<1>a. Alike(x, y)
  BY RefreshAlike
<1>5. PICK b1, b2, c : /\ b1 = NewEntries(x, T, i1) /\ b2 = NewEntries(x, T, i2)
                       /\ c = ClosingEntry(x, T)
  OBVIOUS
<1>6. b1 \in Seq(EntryType) /\ b2 \in Seq(EntryType) /\ c \in Seq(EntryType)
  <2>1. i1 \in Nat /\ i2 \in Nat
    BY ExerciseTasks
  <2>2. QED  BY <1>5, <2>1, NewEntriesType, ClosingEntryType
<1>7. PICK s0, s1, s2, s3 : /\ s0 = x.timeline /\ s1 = s0 \o b1 /\ s2 = s1 \o b2
                            /\ s3 = s2 \o c
  OBVIOUS
<1>8. s3 = x.timeline \o (b1 \o b2 \o c)
  <2>1. s0 \in Seq(EntryType)
    BY <1>2, <1>7
  <2>2. OneByOne(s0, b1, b2, c) = AllAtOnce(s0, b1, b2, c)
    BY <1>6, <2>1, AppendedAtOnce
  <2>3. s3 = OneByOne(s0, b1, b2, c)
    BY <1>7 DEF OneByOne
  <2>4. AllAtOnce(s0, b1, b2, c) = x.timeline \o (b1 \o b2 \o c)
    BY <1>7 DEF AllAtOnce
  <2>5. QED  BY <2>2, <2>3, <2>4
<1> HIDE DEF i1, i2, F
<1>9. /\ Told(s1, x, x.observed \cup ({i1} \cap F))
      /\ Catches(s0, s1, x, i1, T[i1], i1 \in F)
  <2>1. i1 \in Fresh(x, T) => i1 \notin x.observed /\ MatchedRules(x, T, i1) = RulesHit(x, i1, T[i1])
    BY <1>1, <1>3 DEF F
  <2>2. Told(s0, x, x.observed) /\ x.task_ids[1] # x.task_ids[2]
    BY <1>1, <1>2, <1>7 DEF i1, i2
  <2>3. s1 = s0 \o NewEntries(x, T, i1)
    BY <1>5, <1>7
  <2>4. QED  BY <1>1, <2>1, <2>2, <2>3, TaskTold DEF F
<1>10. /\ Told(s2, x, (x.observed \cup ({i1} \cap F)) \cup ({i2} \cap F))
       /\ Catches(s1, s2, x, i2, T[i2], i2 \in F)
  <2>1. i2 \in Fresh(x, T) => /\ i2 \notin x.observed \cup ({i1} \cap F)
                              /\ MatchedRules(x, T, i2) = RulesHit(x, i2, T[i2])
    BY <1>1, <1>3 DEF F
  <2>2. x.task_ids[1] # x.task_ids[2]
    BY <1>1 DEF i1, i2
  <2>3. s2 = s1 \o NewEntries(x, T, i2)
    BY <1>5, <1>7
  <2>4. QED  BY <1>1, <1>9, <2>1, <2>2, <2>3, TaskTold DEF F
<1>11. (x.observed \cup ({i1} \cap F)) \cup ({i2} \cap F) = y.observed
  <2>1. y.observed = x.observed \cup F
    BY <1>4 DEF RefreshedFields, F
  <2>2. QED  BY <1>1, <2>1
<1>12. /\ Told(s3, x, y.observed) /\ Len(s3) \in Nat
       /\ Len(s3) = Len(s2) + (IF Concludes(x, T) THEN 1 ELSE 0)
       /\ \A j : Completes(s3, j) <=> Completes(s2, j)
       /\ \A r, j : Alarmed(s3, r, j) <=> Alarmed(s2, r, j)
       /\ (\E k \in Nat : Closes(s3, k)) <=>
            (\E k \in Nat : Closes(s2, k)) \/ Concludes(x, T)
  <2>1. Told(s2, x, y.observed) /\ s3 = s2 \o ClosingEntry(x, T)
    BY <1>5, <1>7, <1>10, <1>11
  <2>2. QED  BY <2>1, ClosingTold
<1>13. Len(s3) <= Room(y) /\ Len(s3) <= 16
  <2>1. PICK l0 \in Nat, l1 \in Nat, l2 \in Nat, l3 \in Nat :
          l0 = Len(s0) /\ l1 = Len(s1) /\ l2 = Len(s2) /\ l3 = Len(s3)
    <3>1. Len(s0) \in Nat
      BY <1>2, <1>7, LenProperties
    <3>2. QED  BY <3>1, <1>9, <1>10, <1>12 DEF Catches
  <2>2. /\ l1 <= l0 + (IF i1 \in F THEN 5 ELSE 0)
        /\ l2 <= l1 + (IF i2 \in F THEN 5 ELSE 0)
    BY <1>9, <1>10, <2>1 DEF Catches
  <2>3. l3 = l2 + (IF Concludes(x, T) THEN 1 ELSE 0)
    BY <1>12, <2>1
  <2>4. l0 <= 3 + (IF i1 \in x.observed THEN 5 ELSE 0)
                + (IF i2 \in x.observed THEN 5 ELSE 0)
                + (IF x.completion_recorded THEN 1 ELSE 0)
                + (IF x.status = "contained" THEN 1 ELSE 0)
    BY <1>7, <2>1 DEF ExerciseOK, Room, i1, i2
  <2>5. PICK q1 \in {0, 5}, q2 \in {0, 5}, f1 \in {0, 5}, f2 \in {0, 5} :
          /\ q1 = (IF i1 \in x.observed THEN 5 ELSE 0)
          /\ q2 = (IF i2 \in x.observed THEN 5 ELSE 0)
          /\ f1 = (IF i1 \in F THEN 5 ELSE 0) /\ f2 = (IF i2 \in F THEN 5 ELSE 0)
    OBVIOUS
  <2>a. PICK p1 \in {0, 5}, p2 \in {0, 5} :
          /\ p1 = (IF i1 \in y.observed THEN 5 ELSE 0)
          /\ p2 = (IF i2 \in y.observed THEN 5 ELSE 0)
    OBVIOUS
  <2>b. PICK c0 \in {0, 1}, cc \in {0, 1}, c3 \in {0, 1}, d \in {0, 1} :
          /\ c0 = (IF x.completion_recorded THEN 1 ELSE 0)
          /\ cc = (IF Concludes(x, T) THEN 1 ELSE 0)
          /\ c3 = (IF y.completion_recorded THEN 1 ELSE 0)
          /\ d = (IF x.status = "contained" THEN 1 ELSE 0)
    OBVIOUS
  <2>6. q1 + f1 = p1 /\ q2 + f2 = p2
    BY <1>1, <1>11, <2>5, <2>a, <2>b
  <2>7. c0 + cc = c3
    <3>1. Concludes(x, T) => ~x.completion_recorded
      BY DEF Concludes
    <3>2. QED  BY <1>4, <2>5, <2>a, <2>b, <3>1
  <2>8. l3 <= 3 + p1 + p2 + c3 + d
    BY <2>2, <2>3, <2>4, <2>5, <2>a, <2>b, <2>6, <2>7
  <2>9. Room(y) = 3 + p1 + p2 + c3 + d
    <3>1. y.task_ids[1] = i1 /\ y.task_ids[2] = i2
      BY <1>a DEF Alike, i1, i2
    <3>2. d = (IF y.status = "contained" THEN 1 ELSE 0)
      BY <1>a, <2>5, <2>a, <2>b DEF Alike
    <3>3. QED  BY <2>5, <2>a, <2>b, <3>1, <3>2 DEF Room
  <2>10. l3 <= 16
    BY <2>8
  <2>11. QED  BY <2>1, <2>8, <2>9, <2>10
<1>14. y.timeline = s3
  <2>1. y.timeline = AppendTimeline(x.timeline, b1 \o b2 \o c)
    BY <1>4, <1>5 DEF RefreshedFields, i1, i2
  <2>2. Len(x.timeline \o (b1 \o b2 \o c)) <= 16
    BY <1>8, <1>13
  <2>3. QED  BY <1>8, <2>1, <2>2, NothingDropped
<1>15. Told(s3, y, y.observed)
  BY <1>12, <1>a, ToldAlike
<1>16. \A j \in TasksOf(x) : Completes(s3, j) <=>
         Completes(x.timeline, j) \/ (j \in Fresh(x, T) /\ T[j].status = "completed")
  <2> SUFFICES ASSUME NEW j \in TasksOf(x)
               PROVE  Completes(s3, j) <=> Completes(s0, j) \/ (j \in F /\ T[j].status = "completed")
    BY <1>7 DEF F
  <2>1. Completes(s3, j) <=> Completes(s2, j)
    BY <1>12
  <2>2. Completes(s2, j) <=>
          Completes(s1, j) \/ (i2 \in F /\ j = i2 /\ T[i2].status = "completed")
    BY <1>10 DEF Catches
  <2>3. Completes(s1, j) <=>
          Completes(s0, j) \/ (i1 \in F /\ j = i1 /\ T[i1].status = "completed")
    BY <1>9 DEF Catches
  <2>4. j = i1 \/ j = i2
    BY <1>1
  <2>5. QED  BY <2>1, <2>2, <2>3, <2>4
<1>17. \A r, j : Alarmed(s3, r, j) <=>
         \/ Alarmed(x.timeline, r, j)
         \/ j \in Fresh(x, T) /\ Hits(x, T[j]) /\ Triggers(x, j, r)
  <2> SUFFICES ASSUME NEW r, NEW j
               PROVE  Alarmed(s3, r, j) <=>
                        Alarmed(s0, r, j) \/ (j \in F /\ Hits(x, T[j]) /\ Triggers(x, j, r))
    BY <1>7 DEF F
  <2>1. Alarmed(s3, r, j) <=> Alarmed(s2, r, j)
    BY <1>12
  <2>2. Alarmed(s2, r, j) <=>
          Alarmed(s1, r, j) \/ (i2 \in F /\ j = i2 /\ Hits(x, T[i2]) /\ Triggers(x, i2, r))
    BY <1>10 DEF Catches
  <2>3. Alarmed(s1, r, j) <=>
          Alarmed(s0, r, j) \/ (i1 \in F /\ j = i1 /\ Hits(x, T[i1]) /\ Triggers(x, i1, r))
    BY <1>9 DEF Catches
  <2>4. j \in F => j = i1 \/ j = i2
    BY <1>1
  <2>5. QED  BY <2>1, <2>2, <2>3, <2>4
<1>18. (\E k \in Nat : Closes(s3, k)) <=>
         (\E k \in Nat : Closes(x.timeline, k)) \/ Concludes(x, T)
  <2>1. (\E k \in Nat : Closes(s2, k)) <=> (\E k \in Nat : Closes(s0, k))
    BY <1>9, <1>10 DEF Catches
  <2>2. QED  BY <1>7, <1>12, <2>1
<1>19. QED  BY <1>13, <1>14, <1>15, <1>16, <1>17, <1>18 DEF Grown

(* The facts about a refresh y of the exercise x that the rest needs. *)
LEMMA RefreshFacts ==
  ASSUME NEW x \in ExerciseType, ExerciseOK(x), NEW e, NEW T, Owns(e, x, T),
         NEW y, y = Refresh(x, T)
  PROVE  /\ y \in ExerciseType /\ RefreshedFields(x, T, y)
         /\ Alike(x, y) /\ TasksOf(y) = TasksOf(x)
         /\ Grown(x, T, y.timeline)
         /\ Fresh(x, T) \subseteq TasksOf(x) /\ Fresh(x, T) \cap x.observed = {}
         /\ \A i \in Fresh(x, T) : MatchedRules(x, T, i) = RulesHit(x, i, T[i])
<1>1. Fresh(x, T) \subseteq TasksOf(x) /\ Fresh(x, T) \cap x.observed = {}
  BY DEF Fresh
<1>2. \A i \in Fresh(x, T) : T[i].playbook = PlaybookOf(x, i)
  BY DEF Owns, Fresh
<1>3. \A i \in Fresh(x, T) : MatchedRules(x, T, i) = RulesHit(x, i, T[i])
  BY <1>2, FreshMatches
<1>4. y \in ExerciseType /\ RefreshedFields(x, T, y)
  BY RefreshFields
<1>5. Alike(x, y) /\ TasksOf(y) = TasksOf(x)
  BY RefreshAlike
<1>6. Grown(x, T, y.timeline)
  BY RefreshTimeline
<1>7. QED  BY <1>1, <1>3, <1>4, <1>5, <1>6

(* A refresh keeps alerts and alarms in step. *)
LEMMA RefreshAlerts ==
  ASSUME NEW x \in ExerciseType, ExerciseOK(x), NEW e, NEW T, Owns(e, x, T),
         NEW y, y = Refresh(x, T)
  PROVE  AlertsOK(y)
<1>1. /\ Alike(x, y) /\ Grown(x, T, y.timeline) /\ RefreshedFields(x, T, y)
      /\ Fresh(x, T) \subseteq TasksOf(x)
  BY RefreshFacts
<1>2. PICK A : A = NewAlerts(x, T, x.task_ids[1]) \cup NewAlerts(x, T, x.task_ids[2])
  OBVIOUS
<1>3. /\ y.alerts = x.alerts \cup A
      /\ y.detection_status = IF A # {} THEN "detected" ELSE x.detection_status
  BY <1>1, <1>2 DEF RefreshedFields
<1>4. AlertStatus(y) = AlertStatus(x)
  BY <1>1 DEF Alike, AlertStatus
<1>5. ASSUME NEW i \in TasksOf(x)
      PROVE  /\ \A a \in NewAlerts(x, T, i) :
                  \E r : /\ a = [rule_id |-> r, task |-> i, status |-> "open"]
                         /\ i \in Fresh(x, T) /\ Hits(x, T[i]) /\ Triggers(x, i, r)
             /\ \A r : i \in Fresh(x, T) /\ Hits(x, T[i]) /\ Triggers(x, i, r) =>
                  [rule_id |-> r, task |-> i, status |-> "open"] \in NewAlerts(x, T, i)
  <2>1. i \in Fresh(x, T) => MatchedRules(x, T, i) = RulesHit(x, i, T[i])
    BY RefreshFacts
  <2>2. QED  BY <2>1, NewAlertsAre
<1>6. /\ \A a \in A : \E i \in TasksOf(x) : a \in NewAlerts(x, T, i)
      /\ \A i \in TasksOf(x) : NewAlerts(x, T, i) \subseteq A
  BY <1>2 DEF TasksOf
<1>7. /\ \A a \in x.alerts :
           a.status = AlertStatus(x) /\ Alarmed(x.timeline, a.rule_id, a.task)
      /\ \A r, i : Alarmed(x.timeline, r, i) => AlertOf(x, r, i) \in x.alerts
      /\ x.detection_status = "detected" <=> x.alerts # {}
  BY DEF ExerciseOK, AlertsOK
<1>8. \A r, j : Alarmed(y.timeline, r, j) <=>
        \/ Alarmed(x.timeline, r, j)
        \/ j \in Fresh(x, T) /\ Hits(x, T[j]) /\ Triggers(x, j, r)
  BY <1>1 DEF Grown
<1>9. ASSUME NEW a \in y.alerts
      PROVE  a.status = AlertStatus(y) /\ Alarmed(y.timeline, a.rule_id, a.task)
  <2>1. CASE a \in x.alerts
    BY <1>4, <1>7, <1>8, <2>1
  <2>2. CASE a \in A
    <3>1. PICK i \in TasksOf(x) : a \in NewAlerts(x, T, i)
      BY <1>6, <2>2
    <3>2. PICK r : /\ a = [rule_id |-> r, task |-> i, status |-> "open"]
                   /\ i \in Fresh(x, T) /\ Hits(x, T[i]) /\ Triggers(x, i, r)
      BY <1>5, <3>1
    <3>3. a.rule_id = r /\ a.task = i /\ a.status = "open"
      BY <3>2
    <3>4. AlertStatus(x) = "open"
      BY <3>2 DEF Hits, AlertStatus
    <3>5. Alarmed(y.timeline, r, i)
      BY <1>8, <3>2
    <3>6. QED  BY <1>4, <3>3, <3>4, <3>5
  <2>3. QED  BY <1>3, <2>1, <2>2
<1>10. ASSUME NEW r, NEW i, Alarmed(y.timeline, r, i)
       PROVE  AlertOf(y, r, i) \in y.alerts
  <2>1. AlertOf(y, r, i) = AlertOf(x, r, i)
    BY <1>4 DEF AlertOf
  <2>2. CASE Alarmed(x.timeline, r, i)
    BY <1>3, <1>7, <2>1, <2>2
  <2>3. CASE ~Alarmed(x.timeline, r, i)
    <3>1. i \in Fresh(x, T) /\ Hits(x, T[i]) /\ Triggers(x, i, r)
      BY <1>8, <1>10, <2>3
    <3>2. i \in TasksOf(x)
      BY <1>1, <3>1
    <3>3. [rule_id |-> r, task |-> i, status |-> "open"] \in A
      BY <1>5, <1>6, <3>1, <3>2
    <3>4. AlertStatus(y) = "open"
      BY <1>4, <3>1 DEF Hits, AlertStatus
    <3>5. QED  BY <1>3, <3>3, <3>4 DEF AlertOf
  <2>4. QED  BY <2>2, <2>3
<1>11. y.detection_status = "detected" <=> y.alerts # {}
  BY <1>3, <1>7
<1>12. QED  BY <1>9, <1>10, <1>11 DEF AlertsOK

(* What a refresh lets the exercise see of its tasks. *)
LEMMA RefreshSees ==
  ASSUME NEW x \in ExerciseType, ExerciseOK(x), NEW e, NEW T, Owns(e, x, T),
         NEW y, y = Refresh(x, T)
  PROVE  /\ \A i \in TasksOf(x) : i \in y.observed =>
              \/ i \in x.observed /\ (Completes(y.timeline, i) <=> Completes(x.timeline, i))
              \/ /\ i \in DOMAIN T /\ Terminal(T[i])
                 /\ Completes(y.timeline, i) <=> T[i].status = "completed"
         /\ \A i \in TasksOf(x) \cap DOMAIN T : Terminal(T[i]) => i \in y.observed
         /\ \A i \in TasksOf(x) \cap DOMAIN T : i \in y.observed =>
              Terminal(T[i]) /\ (Completes(y.timeline, i) <=> T[i].status = "completed")
<1>1. /\ Grown(x, T, y.timeline) /\ RefreshedFields(x, T, y)
      /\ Fresh(x, T) \subseteq TasksOf(x) /\ Fresh(x, T) \cap x.observed = {}
  BY RefreshFacts
<1>2. y.observed = x.observed \cup Fresh(x, T)
  BY <1>1 DEF RefreshedFields
<1>3. \A j \in TasksOf(x) : Completes(y.timeline, j) <=>
        Completes(x.timeline, j) \/ (j \in Fresh(x, T) /\ T[j].status = "completed")
  BY <1>1 DEF Grown
<1>4. \A i \in Fresh(x, T) : ~Completes(x.timeline, i)
  BY <1>1, UnseenNotDone DEF ExerciseOK
<1>5. \A i \in Fresh(x, T) :
        /\ i \in DOMAIN T /\ Terminal(T[i])
        /\ Completes(y.timeline, i) <=> T[i].status = "completed"
  BY <1>1, <1>3, <1>4 DEF Fresh
<1>6. \A i \in TasksOf(x) \cap x.observed :
        Completes(y.timeline, i) <=> Completes(x.timeline, i)
  BY <1>1, <1>3
<1>7. \A i \in TasksOf(x) \cap DOMAIN T : i \in x.observed =>
        Terminal(T[i]) /\ (Completes(x.timeline, i) <=> T[i].status = "completed")
  BY DEF Owns
<1>8. \A i \in TasksOf(x) \cap DOMAIN T : Terminal(T[i]) => i \in y.observed
  BY <1>2 DEF Fresh
<1>9. QED  BY <1>2, <1>5, <1>6, <1>7, <1>8

(* A refresh keeps the verdict true. *)
LEMMA RefreshVerdict ==
  ASSUME NEW x \in ExerciseType, ExerciseOK(x), NEW e, NEW T, Owns(e, x, T),
         NEW y, y = Refresh(x, T)
  PROVE  VerdictOK(y)
<1>1. /\ Alike(x, y) /\ Grown(x, T, y.timeline) /\ RefreshedFields(x, T, y)
      /\ TasksOf(y) = TasksOf(x) /\ Fresh(x, T) \cap x.observed = {}
  BY RefreshFacts
<1>2. y.completion_recorded <=> x.completion_recorded \/ Concludes(x, T)
  BY RefreshFields
<1>3. /\ y.observed = x.observed \cup Fresh(x, T)
      /\ y.status = IF Concludes(x, T) THEN Verdict(x, T) ELSE x.status
  BY <1>1 DEF RefreshedFields
<1>4. /\ \A i \in TasksOf(x) \cap DOMAIN T : Terminal(T[i]) => i \in y.observed
      /\ \A i \in TasksOf(x) \cap DOMAIN T : i \in y.observed =>
           Terminal(T[i]) /\ (Completes(y.timeline, i) <=> T[i].status = "completed")
  BY RefreshSees
<1>5. \A j \in TasksOf(x) : Completes(y.timeline, j) <=>
        Completes(x.timeline, j) \/ (j \in Fresh(x, T) /\ T[j].status = "completed")
  BY <1>1 DEF Grown
<1>6. VerdictOK(x)
  BY DEF ExerciseOK
<1>7. y.completion_recorded <=> \E k \in Nat : Closes(y.timeline, k)
  <2>1. x.completion_recorded <=> \E k \in Nat : Closes(x.timeline, k)
    BY <1>6 DEF VerdictOK
  <2>2. QED  BY <1>1, <1>2, <2>1 DEF Grown
<1>8. CASE Concludes(x, T)
  <2>1. TasksOf(x) \subseteq DOMAIN T /\ \A i \in TasksOf(x) : Terminal(T[i])
    BY <1>8 DEF Concludes, AllTerminal
  <2>2. TasksOf(x) \subseteq y.observed
    BY <1>4, <2>1
  <2>3. \A i \in TasksOf(x) : Completes(y.timeline, i) <=> T[i].status = "completed"
    BY <1>4, <2>1, <2>2
  <2>4. y.status = IF \A i \in TasksOf(x) : T[i].status = "completed"
                   THEN "completed" ELSE "failed"
    BY <1>3, <1>8 DEF Verdict, AllCompleted
  <2>5. QED  BY <1>1, <1>2, <1>7, <1>8, <2>2, <2>3, <2>4 DEF VerdictOK
<1>9. CASE ~Concludes(x, T)
  <2>1. y.status = x.status /\ (y.completion_recorded <=> x.completion_recorded)
    BY <1>2, <1>3, <1>9
  <2>2. y.status = "running" =>
          ~y.completion_recorded /\ ~(TasksOf(y) \subseteq y.observed)
    <3> SUFFICES ASSUME y.status = "running"
                 PROVE  ~y.completion_recorded /\ ~(TasksOf(y) \subseteq y.observed)
      OBVIOUS
    <3>1. x.status = "running" /\ ~x.completion_recorded /\ ~y.completion_recorded
      BY <1>6, <2>1 DEF VerdictOK
    <3>2. TasksOf(x) \subseteq DOMAIN T
      BY <3>1 DEF Owns
    <3>3. PICK i \in TasksOf(x) : ~Terminal(T[i])
      BY <1>9, <3>1, <3>2 DEF Concludes, AllTerminal
    <3>4. i \notin y.observed
      BY <1>4, <3>2, <3>3
    <3>5. QED  BY <1>1, <3>1, <3>4
  <2>3. y.status = "completed" =>
          y.completion_recorded /\ \A i \in TasksOf(y) : Completes(y.timeline, i)
    BY <1>1, <1>5, <1>6, <2>1 DEF VerdictOK
  <2>4. y.status = "failed" =>
          /\ y.completion_recorded /\ TasksOf(y) \subseteq y.observed
          /\ ~(\A i \in TasksOf(y) : Completes(y.timeline, i))
    <3> SUFFICES ASSUME y.status = "failed"
                 PROVE  /\ y.completion_recorded /\ TasksOf(y) \subseteq y.observed
                        /\ ~(\A i \in TasksOf(y) : Completes(y.timeline, i))
      OBVIOUS
    <3>1. /\ x.completion_recorded /\ TasksOf(x) \subseteq x.observed
          /\ ~(\A i \in TasksOf(x) : Completes(x.timeline, i))
      BY <1>6, <2>1 DEF VerdictOK
    <3>2. \A i \in TasksOf(x) : Completes(y.timeline, i) <=> Completes(x.timeline, i)
      BY <1>1, <1>5, <3>1
    <3>3. QED  BY <1>1, <1>3, <2>1, <3>1, <3>2
  <2>5. QED  BY <1>7, <2>2, <2>3, <2>4 DEF VerdictOK
<1>10. QED  BY <1>8, <1>9

(* A refresh leaves nothing to be observed, and every invariant true. *)
LEMMA RefreshOK ==
  ASSUME NEW x \in ExerciseType, ExerciseOK(x), NEW e, NEW T, Owns(e, x, T),
         NEW y, y = Refresh(x, T)
  PROVE  y \in ExerciseType /\ ExerciseOK(y) /\ Owns(e, y, T) /\ CaughtUp(y, T)
<1>1. /\ y \in ExerciseType /\ Alike(x, y) /\ RefreshedFields(x, T, y)
      /\ TasksOf(y) = TasksOf(x) /\ Fresh(x, T) \subseteq TasksOf(x)
  BY RefreshFacts
<1>2. /\ y.observed = x.observed \cup Fresh(x, T)
      /\ y.status = IF Concludes(x, T) THEN Verdict(x, T) ELSE x.status
  BY <1>1 DEF RefreshedFields
<1>3. ExerciseOK(y)
  <2>1. y.task_ids[1] # y.task_ids[2] /\ y.observed \subseteq TasksOf(y)
    BY <1>1, <1>2 DEF Alike, ExerciseOK
  <2>2. Told(y.timeline, y, y.observed) /\ Len(y.timeline) <= Room(y)
    BY RefreshTimeline
  <2>3. AlertsOK(y) /\ VerdictOK(y)
    BY RefreshAlerts, RefreshVerdict
  <2>4. QED  BY <2>1, <2>2, <2>3 DEF ExerciseOK
<1>4. /\ \A i \in TasksOf(x) \cap DOMAIN T : Terminal(T[i]) => i \in y.observed
      /\ \A i \in TasksOf(x) \cap DOMAIN T : i \in y.observed =>
           Terminal(T[i]) /\ (Completes(y.timeline, i) <=> T[i].status = "completed")
  BY RefreshSees
<1>5. Owns(e, y, T)
  <2>1. \A i \in TasksOf(y) : i \notin y.observed => i \in DOMAIN T
    BY <1>1, <1>2 DEF Owns
  <2>2. y.status = "running" => TasksOf(y) \subseteq DOMAIN T
    <3>1. y.status = "running" => x.status = "running"
      BY <1>2 DEF Verdict
    <3>2. QED  BY <1>1, <3>1 DEF Owns
  <2>3. ASSUME NEW i \in TasksOf(y) \cap DOMAIN T
        PROVE  /\ T[i].exercise = e /\ T[i].playbook = PlaybookOf(y, i)
               /\ y.status = "contained" => T[i].status # "queued"
    <3>1. PlaybookOf(y, i) = PlaybookOf(x, i)
      BY <1>1 DEF Alike, PlaybookOf
    <3>2. QED  BY <1>1, <3>1 DEF Owns, Alike
  <2>4. QED  BY <1>1, <1>4, <2>1, <2>2, <2>3 DEF Owns
<1>6. CaughtUp(y, T)
  BY <1>1, <1>4 DEF CaughtUp
<1>7. QED  BY <1>1, <1>3, <1>5, <1>6

-----------------------------------------------------------------------------
(* All exercises of the dictionary X, over the task dictionary T. *)

AllFine(X, T) == \A e \in DOMAIN X : ExerciseOK(X[e]) /\ Owns(e, X[e], T)

AllCaughtUp(X, T) == \A e \in DOMAIN X : CaughtUp(X[e], T)

SameTasks(X, Y) ==
  DOMAIN Y = DOMAIN X /\ \A e \in DOMAIN X : TasksOf(Y[e]) = TasksOf(X[e])

(* A refresh of all of them. *)
LEMMA RefreshAllFine ==
  ASSUME NEW X, ExerciseDict(X), NEW T, AllFine(X, T), NEW Y, Y = RefreshAll(X, T)
  PROVE  /\ ExerciseDict(Y) /\ AllFine(Y, T) /\ AllCaughtUp(Y, T) /\ SameTasks(X, Y)
<1>1. DOMAIN Y = DOMAIN X /\ \A e \in DOMAIN X : Y[e] = Refresh(X[e], T)
  BY DEF RefreshAll
<1>2. ExerciseDict(Y)
  BY RefreshAllType
<1>3. ASSUME NEW e \in DOMAIN X
      PROVE  /\ ExerciseOK(Y[e]) /\ Owns(e, Y[e], T) /\ CaughtUp(Y[e], T)
             /\ TasksOf(Y[e]) = TasksOf(X[e])
  <2>1. X[e] \in ExerciseType /\ ExerciseOK(X[e]) /\ Owns(e, X[e], T)
    BY DEF ExerciseDict, AllFine
  <2>2. QED  BY <1>1, <2>1, RefreshOK, RefreshAlike
<1>4. QED  BY <1>1, <1>2, <1>3 DEF AllFine, AllCaughtUp, SameTasks

(* What a handler may do to the tasks between two refreshes. *)
Carries(T, U) ==
  /\ DOMAIN U = DOMAIN T
  /\ \A i \in DOMAIN T :
       /\ U[i].exercise = T[i].exercise /\ U[i].playbook = T[i].playbook
       /\ Terminal(T[i]) => U[i].status = T[i].status
       /\ U[i].status = "queued" => T[i].status = "queued"

(* It may settle tasks ... *)
LEMMA SettlesCarries ==
  ASSUME NEW T, NEW U, Settles(T, U) PROVE Carries(T, U)
<1>1. \A t : Terminal(t) => t.status # "queued"
  BY DEF Terminal, TERMINAL_TASK_STATUSES
<1>2. \A i \in DOMAIN T : U[i] = T[i] \/ SettledFrom(T[i], U[i])
  BY DEF Settles
<1>3. \A i \in DOMAIN T : Terminal(T[i]) => ~Live(T[i])
  BY TerminalNotLive
<1>4. QED  BY <1>1, <1>2, <1>3 DEF Carries, Settles, SettledFrom, SameTask

(* ... and the exercises stay fine. *)
LEMMA CarriedFine ==
  ASSUME NEW X, NEW T, NEW U, AllFine(X, T), Carries(T, U) PROVE AllFine(X, U)
<1>1. ASSUME NEW e \in DOMAIN X PROVE Owns(e, X[e], U)
  <2>1. Owns(e, X[e], T)
    BY DEF AllFine
  <2>2. DOMAIN U = DOMAIN T
    BY DEF Carries
  <2>3. ASSUME NEW i \in TasksOf(X[e]) \cap DOMAIN U
        PROVE  /\ U[i].exercise = e /\ U[i].playbook = PlaybookOf(X[e], i)
               /\ i \in X[e].observed =>
                    Terminal(U[i]) /\ (Completes(X[e].timeline, i) <=> U[i].status = "completed")
               /\ X[e].status = "contained" => U[i].status # "queued"
    BY <2>1, <2>2 DEF Owns, Carries, Terminal
  <2>4. QED  BY <2>1, <2>2, <2>3 DEF Owns
<1>2. QED  BY <1>1 DEF AllFine

(* A handler that ends nothing leaves nothing to be observed. *)
LEMMA CarriedCaughtUp ==
  ASSUME NEW X, NEW T, NEW U, AllCaughtUp(X, T), DOMAIN U = DOMAIN T,
         \A i \in DOMAIN T : Terminal(U[i]) => Terminal(T[i])
  PROVE  AllCaughtUp(X, U)
BY DEF AllCaughtUp, CaughtUp

(* The two task dictionaries at which _expire_locked refreshes. *)
LEMMA ExpirySettlesTwice ==
  ASSUME LedgerInv, NEW lag \in Lags
  PROVE  /\ Settles(tasks, FirstExpiredTasks(nodes, tasks, lag))
         /\ Settles(FirstExpiredTasks(nodes, tasks, lag), ExpiredTasks(nodes, tasks, lag))
<1> DEFINE closing == ClosingNodes(nodes, lag)
           first == IF closing = {} THEN {} ELSE {Least(closing)}
           E == ExpireTasks(tasks, lag)
           F == FailUnfinished(E, first, "session_expired")
           G == FailUnfinished(E, closing, "session_expired")
<1>1. first \subseteq closing
  <2>1. closing \subseteq Nat
    BY DEF ClosingNodes, LedgerInv, NodeDict
  <2>2. closing # {} => Least(closing) \in closing
    BY <2>1, LeastInSet
  <2>3. QED  BY <2>2
<1>2. /\ F = FirstExpiredTasks(nodes, tasks, lag)
      /\ G = ExpiredTasks(nodes, tasks, lag)
  BY DEF FirstExpiredTasks, ExpiredTasks
<1>3. Settles(tasks, E) /\ TaskDict(E)
  <2>1. TaskDict(tasks)
    BY DEF LedgerInv
  <2>2. Settles(tasks, E)
    BY <2>1, ExpireTasksSettles
  <2>3. QED  BY <2>1, <2>2, SettlesKeepsTaskDict
<1> HIDE DEF E, first, closing
<1>4. Settles(E, F) /\ Settles(E, G)
  <2>1. "session_expired" \in ServerResults
    BY DEF ServerResults
  <2>2. QED  BY <1>3, <2>1, FailUnfinishedSettles
<1>5. Settles(tasks, F)
  <2> HIDE DEF F
  <2>1. QED  BY <1>3, <1>4, SettlesTransitive
<1>6. \A i \in DOMAIN E : G[i] = F[i] \/ F[i] = E[i]
  BY <1>1 DEF FailUnfinished
<1> HIDE DEF F, G
<1>7. Settles(F, G)
  BY <1>4, <1>6 DEF Settles
<1>8. QED  BY <1>2, <1>5, <1>7

(* _expire_locked, with its two refreshes. *)
LEMMA ExpiredFine ==
  ASSUME TypeInv, NEW lag \in Lags, AllFine(exercises, tasks),
         NEW X, X = ExpiredExercises(lag)
  PROVE  /\ ExerciseDict(X) /\ AllFine(X, ExpiredTasks(nodes, tasks, lag))
         /\ AllCaughtUp(X, ExpiredTasks(nodes, tasks, lag)) /\ SameTasks(exercises, X)
<1>1. PICK F, G : F = FirstExpiredTasks(nodes, tasks, lag) /\ G = ExpiredTasks(nodes, tasks, lag)
  OBVIOUS
<1>2. Carries(tasks, F) /\ Carries(F, G)
  BY <1>1, ExpirySettlesTwice, SettlesCarries DEF TypeInv
<1>3. PICK Y : Y = RefreshAll(exercises, F)
  OBVIOUS
<1>4. ExerciseDict(Y) /\ AllFine(Y, F) /\ SameTasks(exercises, Y)
  <2>1. ExerciseDict(exercises)
    BY DEF TypeInv, ExercisesOK
  <2>2. AllFine(exercises, F)
    BY <1>2, CarriedFine
  <2>3. QED  BY <1>3, <2>1, <2>2, RefreshAllFine
<1>5. X = RefreshAll(Y, G)
  BY <1>1, <1>3 DEF ExpiredExercises
<1>6. AllFine(Y, G)
  BY <1>2, <1>4, CarriedFine
<1>7. ExerciseDict(X) /\ AllFine(X, G) /\ AllCaughtUp(X, G) /\ SameTasks(Y, X)
  BY <1>4, <1>5, <1>6, RefreshAllFine
<1>8. QED  BY <1>1, <1>4, <1>7 DEF SameTasks

-----------------------------------------------------------------------------
(* The invariant of the exercises through every handler. *)

(* No exercise refers to a task id that was not given out. *)
IdsGiven == \A e \in DOMAIN exercises : TasksOf(exercises[e]) \subseteq 1..seq.task

EvidenceInv ==
  AllFine(exercises, tasks) /\ AllCaughtUp(exercises, tasks) /\ IdsGiven

(* Handlers that refresh the exercises over the tasks they settle. *)
LEMMA RefreshingKeepsEvidence ==
  ASSUME TypeInv, EvidenceInv, NEW X, ExerciseDict(X), SameTasks(exercises, X),
         AllFine(X, tasks'), exercises' = RefreshAll(X, tasks'), seq' = seq
  PROVE  EvidenceInv'
<1>1. /\ AllFine(exercises', tasks') /\ AllCaughtUp(exercises', tasks')
      /\ SameTasks(X, exercises')
  BY RefreshAllFine
<1>2. IdsGiven'
  BY <1>1 DEF EvidenceInv, IdsGiven, SameTasks
<1>3. QED  BY <1>1, <1>2 DEF EvidenceInv

(* disconnect_node, cancel_task. *)
LEMMA SettlingKeepsEvidence ==
  ASSUME TypeInv, EvidenceInv, Settles(tasks, tasks'),
         exercises' = RefreshAll(exercises, tasks'), seq' = seq
  PROVE  EvidenceInv'
<1>1. ExerciseDict(exercises)
  BY DEF TypeInv, ExercisesOK
<1>2. AllFine(exercises, tasks')
  BY SettlesCarries, CarriedFine DEF EvidenceInv
<1>3. SameTasks(exercises, exercises)
  BY DEF SameTasks
<1>4. QED  BY <1>1, <1>2, <1>3, RefreshingKeepsEvidence

(* The clock, and handlers that touch neither. *)
LEMMA WaitingKeepsEvidence ==
  ASSUME EvidenceInv, exercises' = exercises, seq'.task = seq.task,
         DOMAIN tasks' = DOMAIN tasks, \A i \in DOMAIN tasks : Waits(tasks[i], tasks'[i])
  PROVE  EvidenceInv'
<1>1. Carries(tasks, tasks')
  BY DEF Carries, Waits, SameTask
<1>2. \A i \in DOMAIN tasks : Terminal(tasks'[i]) => Terminal(tasks[i])
  BY DEF Waits, Terminal
<1>3. AllFine(exercises, tasks') /\ AllCaughtUp(exercises, tasks')
  BY <1>1, <1>2, CarriedFine, CarriedCaughtUp DEF EvidenceInv
<1>4. QED  BY <1>3 DEF EvidenceInv, IdsGiven

(* expire. *)
LEMMA ExpireKeepsEvidence ==
  ASSUME TypeInv, EvidenceInv, NEW lag \in Lags, Expire(lag) PROVE EvidenceInv'
<1>1. tasks' = ExpiredTasks(nodes, tasks, lag) /\ seq' = seq
  BY DEF Expire
<1>2. exercises' = ExpiredExercises(lag)
  BY <1>1 DEF Expire, ExpiredExercises
<1>3. /\ AllFine(exercises', tasks') /\ AllCaughtUp(exercises', tasks')
      /\ SameTasks(exercises, exercises')
  BY <1>1, <1>2, ExpiredFine DEF EvidenceInv
<1>4. QED  BY <1>1, <1>3 DEF EvidenceInv, IdsGiven, SameTasks

(* poll_node. *)
LEMMA PollKeepsEvidence ==
  ASSUME TypeInv, EvidenceInv, NEW n \in DOMAIN nodes, NEW lag \in Lags, poll_node(n, lag)
  PROVE  EvidenceInv'
<1>1. PICK T, paused : /\ T = ExpiredTasks(nodes, tasks, lag)
                       /\ paused = ExpiredNodes(nodes, tasks, lag)[n].tasking_paused
  OBVIOUS
<1>2. /\ tasks' = DeliveredTasks(T, n, paused, lag)
      /\ exercises' = ExpiredExercises(lag) /\ seq' = seq
  BY <1>1 DEF poll_node
<1>3. /\ AllFine(exercises', T) /\ AllCaughtUp(exercises', T)
      /\ SameTasks(exercises, exercises')
  BY <1>1, <1>2, ExpiredFine DEF EvidenceInv
<1>4. TaskDict(T) /\ TasksOK(T)
  BY <1>1, ExpiredLedger DEF TypeInv
<1>5. \/ tasks' = T
      \/ \E a \in DOMAIN T : /\ Delivery(T, n, a, tasks'[a])
                             /\ \A i \in DOMAIN T : i # a => tasks'[i] = T[i]
  BY <1>2, <1>4, DeliveredFate
<1>6. DOMAIN tasks' = DOMAIN T
  <2>1. LedgerInv
    BY DEF TypeInv
  <2>2. DOMAIN tasks' = DOMAIN tasks
    BY <2>1, PollMoves, MovedIsSame
  <2>3. DOMAIN T = DOMAIN tasks
    BY <1>1, <2>1, ExpiredLedger
  <2>4. QED  BY <2>2, <2>3
<1>7. ASSUME NEW i \in DOMAIN T
      PROVE  /\ tasks'[i].exercise = T[i].exercise /\ tasks'[i].playbook = T[i].playbook
             /\ Terminal(T[i]) => tasks'[i].status = T[i].status
             /\ tasks'[i].status = "queued" => T[i].status = "queued"
             /\ Terminal(tasks'[i]) => Terminal(T[i])
  <2>1. CASE tasks'[i] = T[i]
    BY <2>1
  <2>2. CASE Delivery(T, n, i, tasks'[i])
    BY <2>2 DEF Delivery, SameTask, Terminal, TERMINAL_TASK_STATUSES
  <2>3. QED  BY <1>5, <2>1, <2>2
<1>8. Carries(T, tasks')
  BY <1>6, <1>7 DEF Carries
<1>9. AllFine(exercises', tasks') /\ AllCaughtUp(exercises', tasks')
  <2>1. AllFine(exercises', tasks')
    BY <1>3, <1>8, CarriedFine
  <2>2. QED  BY <1>3, <1>6, <1>7, <2>1, CarriedCaughtUp
<1>10. QED  BY <1>2, <1>3, <1>9 DEF EvidenceInv, IdsGiven, SameTasks

(* submit_result. *)
LEMMA SubmitKeepsEvidence ==
  ASSUME TypeInv, EvidenceInv, NEW n \in DOMAIN nodes, NEW a \in DOMAIN tasks,
         NEW s \in Submissions, NEW lag \in Lags, submit_result(n, a, s, lag)
  PROVE  EvidenceInv'
<1>1. PICK T, X : T = ExpiredTasks(nodes, tasks, lag) /\ X = ExpiredExercises(lag)
  OBVIOUS
<1>2. /\ tasks' = [T EXCEPT ![a] = AcceptedTask(T[a], s)]
      /\ T[a].status = "dispatched"
      /\ exercises' = RefreshAll(X, tasks') /\ seq' = seq
  BY <1>1 DEF submit_result, AcceptsResult
<1>3. ExerciseDict(X) /\ AllFine(X, T) /\ SameTasks(exercises, X)
  BY <1>1, ExpiredFine DEF EvidenceInv
<1>4. TaskDict(T) /\ DOMAIN T = DOMAIN tasks
  BY <1>1, ExpiredLedger DEF TypeInv
<1>5. PICK u : u = AcceptedTask(T[a], s)
  OBVIOUS
<1>6. SameTask(T[a], u) /\ u.status \in {"completed", "failed"}
  BY <1>4, <1>5, AcceptedTaskType, CallsAreTyped DEF TaskDict
<1>7. /\ DOMAIN tasks' = DOMAIN T /\ tasks'[a] = u
      /\ \A i \in DOMAIN T : i # a => tasks'[i] = T[i]
  BY <1>2, <1>4, <1>5
<1>8. Carries(T, tasks')
  BY <1>2, <1>6, <1>7 DEF Carries, SameTask, Terminal, TERMINAL_TASK_STATUSES
<1>9. AllFine(X, tasks')
  BY <1>3, <1>8, CarriedFine
<1>10. QED  BY <1>2, <1>3, <1>9, RefreshingKeepsEvidence

-----------------------------------------------------------------------------
(* contain_exercise. *)

(* The entry of a cancelled task is the block of a task that ended so. *)
LEMMA CancelledBlock ==
  ASSUME NEW x, NEW i \in Nat, NEW t, t.status = "cancelled"
  PROVE  TaskEvidence(i, t) \o DetectionEntries(RulesHit(x, i, t), i)
           = <<TaskEntry("task.cancelled", i)>>
<1>1. PICK h : h = <<TaskEntry("task.cancelled", i)>>
  OBVIOUS
<1>2. h \in Seq(EntryType)
  BY <1>1, TaskEntryIsTyped DEF EntryKinds
<1>3. TaskEvidence(i, t) = h
  <2>1. TaskEvidence(i, t) = h \o <<>>
    BY <1>1 DEF TaskEvidence, TaskKind
  <2>2. QED  BY <1>2, <2>1, ConcatEmptySeq
<1>4. DetectionEntries(RulesHit(x, i, t), i) = <<>>
  <2>1. PICK rules \in Seq(RuleType) : rules = <<>>
    BY EmptySeq
  <2>2. RulesHit(x, i, t) = rules
    BY <2>1 DEF RulesHit
  <2>3. PICK b : b = DetectionEntries(rules, i)
    OBVIOUS
  <2>4. b \in Seq(EntryType) /\ Len(b) = Len(rules)
    BY <2>3, DetectionsSay
  <2>5. Len(rules) = 0
    BY <2>1, EmptySeq
  <2>6. b = <<>>
    BY <2>4, <2>5, EmptySeq
  <2>7. QED  BY <2>2, <2>3, <2>6
<1>5. QED  BY <1>1, <1>2, <1>3, <1>4, ConcatEmptySeq

(* Nothing completed, alarmed or closed between two states of a timeline. *)
Quiet(s, u) ==
  /\ \A j : Completes(u, j) <=> Completes(s, j)
  /\ \A r, j : Alarmed(u, r, j) <=> Alarmed(s, r, j)
  /\ (\E k \in Nat : Closes(u, k)) <=> (\E k \in Nat : Closes(s, k))

(* What the entry of a cancelled task does to the timeline, where cancelled
   tells whether there is one. *)
Cancels(s, u, cancelled) ==
  /\ Len(u) \in Nat /\ Len(u) <= Len(s) + 5 /\ Quiet(s, u)
  /\ ~cancelled => u = s

(* What the entry of a task that containment cancels tells. *)
LEMMA CancelTold ==
  ASSUME NEW x \in ExerciseType, x.task_ids[1] # x.task_ids[2], NEW T,
         NEW s, NEW o, Told(s, x, o), NEW i \in TasksOf(x),
         i \in Cancelled(x, T) => i \notin o, NEW u, u = s \o CancelledEntry(x, T, i)
  PROVE  /\ Told(u, x, o \cup ({i} \cap Cancelled(x, T)))
         /\ Cancels(s, u, i \in Cancelled(x, T))
<1>1. CASE i \in Cancelled(x, T)
  <2>1. PICK t : t = [status |-> "cancelled"]
    OBVIOUS
  <2>2. t.status = "cancelled" /\ Terminal(t)
    BY <2>1 DEF Terminal, TERMINAL_TASK_STATUSES
  <2>3. i \in Nat
    BY ExerciseTasks
  <2>4. u = s \o <<TaskEntry("task.cancelled", i)>>
    BY <1>1 DEF CancelledEntry
  <2>5. u = s \o (TaskEvidence(i, t) \o DetectionEntries(RulesHit(x, i, t), i))
    BY <2>2, <2>3, <2>4, CancelledBlock
  <2>6. Told(u, x, o \cup {i}) /\ Catches(s, u, x, i, t, TRUE)
    BY <1>1, <2>2, <2>5, FreshTaskTold
  <2>7. {i} \cap Cancelled(x, T) = {i}
    BY <1>1
  <2>8. t.status # "completed" /\ ~Hits(x, t)
    BY <2>2 DEF Hits
  <2>9. Len(u) \in Nat /\ Len(u) <= Len(s) + 5
    BY <2>6 DEF Catches
  <2>10. \A j : Completes(u, j) <=> Completes(s, j)
    BY <2>6, <2>8 DEF Catches
  <2>11. \A r, j : Alarmed(u, r, j) <=> Alarmed(s, r, j)
    BY <2>6, <2>8 DEF Catches
  <2>12. (\E k \in Nat : Closes(u, k)) <=> (\E k \in Nat : Closes(s, k))
    BY <2>6 DEF Catches
  <2>13. Told(u, x, o \cup ({i} \cap Cancelled(x, T)))
    BY <2>6, <2>7
  <2>15. Quiet(s, u)
    BY <2>10, <2>11, <2>12 DEF Quiet
  <2>16. Cancels(s, u, i \in Cancelled(x, T))
    BY <1>1, <2>9, <2>15 DEF Cancels
  <2>17. QED  BY <2>13, <2>16
<1>2. CASE i \notin Cancelled(x, T)
  <2>1. s \in Seq(EntryType)
    BY DEF Told
  <2>2. u = s
    BY <1>2, <2>1, ConcatEmptySeq DEF CancelledEntry
  <2>3. Len(s) \in Nat
    BY <2>1, LenProperties
  <2>4. o \cup ({i} \cap Cancelled(x, T)) = o
    BY <1>2
  <2>5. Len(s) <= Len(s) + 5
    BY <2>3
  <2>6. Cancels(s, u, i \in Cancelled(x, T))
    BY <2>2, <2>3, <2>5 DEF Cancels, Quiet
  <2>7. QED  BY <2>2, <2>4, <2>6
<1>3. QED  BY <1>1, <1>2

(* The entry of the containment comes behind every end told so far: what had
   completed completed before it. *)
LEMMA StopTold ==
  ASSUME NEW s, NEW x, NEW o, Told(s, x, o), x.status # "contained",
         NEW z, z.task_ids = x.task_ids, z.scenario = x.scenario, z.status = "contained",
         NEW y \in EntryType, y.kind = "containment.applied", NEW u, u = s \o <<y>>
  PROVE  /\ Told(u, z, o) /\ Len(u) \in Nat /\ Len(u) = Len(s) + 1
         /\ Quiet(s, u)
<1>1. PICK b : b = <<y>>
  OBVIOUS
<1>2. b \in Seq(EntryType) /\ Len(b) = 1 /\ b[1] = y
  BY <1>1
<1>3. s \in Seq(EntryType)
  BY DEF Told
<1>4. PICK n \in Nat : n = Len(s)
  BY <1>3, LenProperties
<1>5. u \in Seq(EntryType) /\ Len(u) = n + 1
  BY <1>1, <1>2, <1>3, <1>4, Appended
<1>6. /\ \A k \in Int : \A j : ~Ends(b, k, j)
      /\ \A k \in Int : \A j : ~Done(b, k, j)
      /\ \A k \in Int : \A r, j : ~Alarms(b, k, r, j)
      /\ \A k \in Int : Stops(b, k) <=> k = 1
      /\ \A k \in Int : ~Closes(b, k)
  BY <1>2 DEF Ends, Done, Alarms, Stops, Closes, At, TerminalKinds
<1>7. ASSUME NEW k \in Nat
      PROVE  /\ \A j : Ends(u, k, j) <=> Ends(s, k, j)
             /\ \A j : Done(u, k, j) <=> Done(s, k, j)
             /\ \A r, j : Alarms(u, k, r, j) <=> Alarms(s, k, r, j)
             /\ Stops(u, k) <=> Stops(s, k) \/ k = n + 1
             /\ Closes(u, k) <=> Closes(s, k)
  <2>1. u = s \o b
    BY <1>1
  <2>2. Splits(s, b, u, k, k - Len(s))
    BY <1>2, <1>3, <2>1, AppendedSays
  <2>3. PICK m \in Int : m = k - n
    OBVIOUS
  <2>4. Splits(s, b, u, k, m)
    BY <1>4, <2>2, <2>3
  <2>5. m = 1 <=> k = n + 1
    BY <2>3
  <2>6. QED  BY <1>6, <2>4, <2>5 DEF Splits
<1>8. \A k \in Nat : ~Stops(s, k)
  BY DEF Told
<1>9. ASSUME NEW j PROVE Early(u, j) <=> Early(s, j)
  <2>1. \A k \in Nat : Done(s, k, j) => k < n + 1
    BY <1>4 DEF Done, At
  <2>2. n + 1 \in Nat
    OBVIOUS
  <2>3. QED  BY <1>7, <1>8, <2>1, <2>2 DEF Early
<1>10. TasksOf(z) = TasksOf(x) /\ \A i, r : Triggers(z, i, r) <=> Triggers(x, i, r)
  BY DEF TasksOf, Triggers, RulesOf, PlaybookOf
<1>11. Told(u, z, o)
  <2>1. /\ \A i \in TasksOf(z) : \A k, l \in Nat : Ends(u, k, i) /\ Ends(u, l, i) => k = l
        /\ \A i \in TasksOf(z) : i \in o <=> \E k \in Nat : Ends(u, k, i)
        /\ \A k, l \in Nat : \A r, i, j : Alarms(u, k, r, i) /\ Alarms(u, l, r, j) => k = l
    BY <1>7, <1>10 DEF Told
  <2>2. z.status = "contained" <=> \E k \in Nat : Stops(u, k)
    <3>1. n + 1 \in Nat
      OBVIOUS
    <3>2. QED  BY <1>7, <3>1
  <2>3. ASSUME NEW k \in Nat, NEW r, NEW i, Alarms(u, k, r, i)
        PROVE  i \in TasksOf(z) /\ Triggers(z, i, r) /\ Early(u, i)
    <3>1. Alarms(s, k, r, i)
      BY <1>7, <2>3
    <3>2. i \in TasksOf(x) /\ Triggers(x, i, r) /\ Early(s, i)
      BY <3>1 DEF Told
    <3>3. QED  BY <1>9, <1>10, <3>2
  <2>4. ASSUME NEW i \in TasksOf(z), NEW r, Early(u, i), Triggers(z, i, r)
        PROVE  \E k \in Nat : Alarms(u, k, r, i)
    <3>1. Early(s, i) /\ i \in TasksOf(x) /\ Triggers(x, i, r)
      BY <1>9, <1>10, <2>4
    <3>2. \E k \in Nat : Alarms(s, k, r, i)
      BY <3>1 DEF Told
    <3>3. QED  BY <1>7, <3>2
  <2>5. QED  BY <1>5, <2>1, <2>2, <2>3, <2>4 DEF Told
<1>12. (\A j : Completes(u, j) <=> Completes(s, j)) /\ (\A r, j : Alarmed(u, r, j) <=> Alarmed(s, r, j))
  BY <1>7 DEF Completes, Alarmed
<1>13. (\E k \in Nat : Closes(u, k)) <=> (\E k \in Nat : Closes(s, k))
  BY <1>7
<1>14. Quiet(s, u)
  BY <1>12, <1>13 DEF Quiet
<1>15. QED  BY <1>4, <1>5, <1>11, <1>14

(* What a containment writes. *)
ContainedFields(x, T, a, y) ==
  /\ y.node = x.node /\ y.scenario = x.scenario /\ y.task_ids = x.task_ids
  /\ y.status = "contained" /\ y.containment = a
  /\ y.detection_status = x.detection_status
  /\ y.completion_recorded = x.completion_recorded
  /\ y.observed = x.observed \cup Cancelled(x, T)
  /\ y.alerts = {[b EXCEPT !.status = "contained"] : b \in x.alerts}
  /\ y.timeline = AppendTimeline(x.timeline,
       CancelledEntry(x, T, x.task_ids[1]) \o CancelledEntry(x, T, x.task_ids[2])
       \o <<Entry("containment.applied", 0, "", "", a)>>)

(* It writes no other field. *)
LEMMA ContainFields ==
  ASSUME NEW x \in ExerciseType, NEW T, NEW a, NEW y, y = ContainedExercise(x, T, a)
  PROVE  ContainedFields(x, T, a, y)
<1>1. PICK o, al, tl :
        /\ o = x.observed \cup Cancelled(x, T)
        /\ al = {[b EXCEPT !.status = "contained"] : b \in x.alerts}
        /\ tl = AppendTimeline(x.timeline,
             CancelledEntry(x, T, x.task_ids[1]) \o CancelledEntry(x, T, x.task_ids[2])
             \o <<Entry("containment.applied", 0, "", "", a)>>)
  OBVIOUS
<1>2. y = [x EXCEPT !.status = "contained", !.containment = a, !.observed = o,
                    !.alerts = al, !.timeline = tl]
  BY <1>1 DEF ContainedExercise
<1>3. /\ y.node = x.node /\ y.scenario = x.scenario /\ y.task_ids = x.task_ids
      /\ y.status = "contained" /\ y.containment = a
      /\ y.detection_status = x.detection_status
      /\ y.observed = o /\ y.alerts = al /\ y.timeline = tl
  BY <1>2 DEF ExerciseType
<1>4. y.completion_recorded = x.completion_recorded
  BY <1>2, Zenon DEF ExerciseType
<1>5. QED  BY <1>1, <1>3, <1>4 DEF ContainedFields

(* The timeline of a contained exercise. *)
LEMMA ContainTimeline ==
  ASSUME NEW x \in ExerciseType, ExerciseOK(x), x.status # "contained",
         NEW e, NEW T, Owns(e, x, T), NEW a \in CONTAINMENT_ACTIONS,
         NEW y, y = ContainedExercise(x, T, a)
  PROVE  /\ Told(y.timeline, y, y.observed) /\ Len(y.timeline) <= Room(y)
         /\ Quiet(x.timeline, y.timeline)
<1> DEFINE i1 == x.task_ids[1]
           i2 == x.task_ids[2]
           C == Cancelled(x, T)
<1>1. /\ i1 \in TasksOf(x) /\ i2 \in TasksOf(x) /\ i1 # i2
      /\ \A j \in TasksOf(x) : j = i1 \/ j = i2
      /\ C \subseteq TasksOf(x)
  BY DEF TasksOf, Cancelled, ExerciseOK
<1>2. C \cap x.observed = {}
  <2>1. \A i \in TasksOf(x) \cap DOMAIN T : i \in x.observed => Terminal(T[i])
    BY DEF Owns
  <2>2. \A t : Terminal(t) => t.status # "queued"
    BY DEF Terminal, TERMINAL_TASK_STATUSES
  <2>3. QED  BY <2>1, <2>2 DEF Cancelled
<1>3. Told(x.timeline, x, x.observed) /\ x.timeline \in Seq(EntryType)
  BY DEF ExerciseOK, ExerciseType
<1>4. ContainedFields(x, T, a, y)
  BY ContainFields
<1>5. PICK z \in EntryType :
        z = Entry("containment.applied", 0, "", "", a) /\ z.kind = "containment.applied"
  <2>1. Entry("containment.applied", 0, "", "", a) \in EntryType
    BY EntryIsTyped DEF EntryKinds
  <2>2. QED  BY <2>1 DEF Entry
<1>6. PICK b1, b2, c : /\ b1 = CancelledEntry(x, T, i1) /\ b2 = CancelledEntry(x, T, i2)
                       /\ c = <<z>>
  OBVIOUS
<1>7. b1 \in Seq(EntryType) /\ b2 \in Seq(EntryType) /\ c \in Seq(EntryType)
  <2>1. ASSUME NEW i \in TasksOf(x) PROVE CancelledEntry(x, T, i) \in Seq(EntryType)
    <3>1. <<TaskEntry("task.cancelled", i)>> \in Seq(EntryType)
      BY ExerciseTasks, TaskEntryIsTyped DEF EntryKinds
    <3>2. <<>> \in Seq(EntryType)
      BY EmptySeq
    <3>3. QED  BY <3>1, <3>2 DEF CancelledEntry
  <2>2. c \in Seq(EntryType)
    BY <1>6
  <2>3. QED  BY <1>1, <1>6, <2>1, <2>2
<1>8. PICK s0, s1, s2, s3 : /\ s0 = x.timeline /\ s1 = s0 \o b1 /\ s2 = s1 \o b2
                            /\ s3 = s2 \o c
  OBVIOUS
<1>9. s3 = x.timeline \o (b1 \o b2 \o c)
  <2>1. s0 \in Seq(EntryType)
    BY <1>3, <1>8
  <2>2. OneByOne(s0, b1, b2, c) = AllAtOnce(s0, b1, b2, c)
    BY <1>7, <2>1, AppendedAtOnce
  <2>3. s3 = OneByOne(s0, b1, b2, c)
    BY <1>8 DEF OneByOne
  <2>4. AllAtOnce(s0, b1, b2, c) = x.timeline \o (b1 \o b2 \o c)
    BY <1>8 DEF AllAtOnce
  <2>5. QED  BY <2>2, <2>3, <2>4
<1> HIDE DEF i1, i2, C
<1>10. /\ Told(s1, x, x.observed \cup ({i1} \cap C)) /\ Quiet(s0, s1)
       /\ Len(s1) \in Nat /\ Len(s1) <= Len(s0) + 5 /\ (i1 \notin C => s1 = s0)
  <2>1. i1 \in Cancelled(x, T) => i1 \notin x.observed
    BY <1>2 DEF C
  <2>2. Told(s0, x, x.observed) /\ x.task_ids[1] # x.task_ids[2]
    BY <1>1, <1>3, <1>8 DEF i1, i2
  <2>3. s1 = s0 \o CancelledEntry(x, T, i1)
    BY <1>6, <1>8
  <2>4. /\ Told(s1, x, x.observed \cup ({i1} \cap Cancelled(x, T)))
        /\ Cancels(s0, s1, i1 \in Cancelled(x, T))
    BY <1>1, <2>1, <2>2, <2>3, CancelTold
  <2>5. QED  BY <2>4 DEF C, Cancels
<1>11. /\ Told(s2, x, (x.observed \cup ({i1} \cap C)) \cup ({i2} \cap C)) /\ Quiet(s1, s2)
       /\ Len(s2) \in Nat /\ Len(s2) <= Len(s1) + 5 /\ (i2 \notin C => s2 = s1)
  <2>1. i2 \in Cancelled(x, T) => i2 \notin x.observed \cup ({i1} \cap C)
    BY <1>1, <1>2 DEF C
  <2>2. x.task_ids[1] # x.task_ids[2]
    BY <1>1 DEF i1, i2
  <2>3. s2 = s1 \o CancelledEntry(x, T, i2)
    BY <1>6, <1>8
  <2>4. PICK o : o = x.observed \cup ({i1} \cap C)
    OBVIOUS
  <2>5. Told(s1, x, o) /\ (i2 \in Cancelled(x, T) => i2 \notin o)
    BY <1>10, <2>1, <2>4
  <2>6. /\ Told(s2, x, o \cup ({i2} \cap Cancelled(x, T)))
        /\ Cancels(s1, s2, i2 \in Cancelled(x, T))
    BY <1>1, <2>2, <2>3, <2>5, CancelTold
  <2>7. QED  BY <2>4, <2>6 DEF C, Cancels
<1>12. (x.observed \cup ({i1} \cap C)) \cup ({i2} \cap C) = y.observed
  <2>1. y.observed = x.observed \cup C
    BY <1>4 DEF ContainedFields, C
  <2>2. QED  BY <1>1, <2>1
<1>13. Told(s3, y, y.observed) /\ Len(s3) \in Nat /\ Len(s3) = Len(s2) + 1 /\ Quiet(s2, s3)
  <2>1. Told(s2, x, y.observed) /\ s3 = s2 \o <<z>>
    BY <1>6, <1>8, <1>11, <1>12
  <2>2. y.task_ids = x.task_ids /\ y.scenario = x.scenario /\ y.status = "contained"
    BY <1>4 DEF ContainedFields
  <2>3. QED  BY <1>5, <2>1, <2>2, StopTold, ZenonT(30)
<1>14. Len(s3) <= Room(y) /\ Len(s3) <= 16
  <2>1. PICK l0 \in Nat, l1 \in Nat, l2 \in Nat, l3 \in Nat :
          l0 = Len(s0) /\ l1 = Len(s1) /\ l2 = Len(s2) /\ l3 = Len(s3)
    <3>1. Len(s0) \in Nat
      BY <1>3, <1>8, LenProperties
    <3>2. QED  BY <3>1, <1>10, <1>11, <1>13
  <2>2. PICK q1 \in {0, 5}, q2 \in {0, 5}, f1 \in {0, 5}, f2 \in {0, 5}, p1 \in {0, 5},
             p2 \in {0, 5}, c0 \in {0, 1} :
          /\ q1 = (IF i1 \in x.observed THEN 5 ELSE 0)
          /\ q2 = (IF i2 \in x.observed THEN 5 ELSE 0)
          /\ f1 = (IF i1 \in C THEN 5 ELSE 0) /\ f2 = (IF i2 \in C THEN 5 ELSE 0)
          /\ p1 = (IF i1 \in y.observed THEN 5 ELSE 0)
          /\ p2 = (IF i2 \in y.observed THEN 5 ELSE 0)
          /\ c0 = (IF x.completion_recorded THEN 1 ELSE 0)
    OBVIOUS
  <2>3. l0 <= 3 + q1 + q2 + c0
    <3>1. Room(x) = 3 + q1 + q2 + c0
      BY <2>2 DEF Room, i1, i2
    <3>2. QED  BY <1>8, <2>1, <3>1 DEF ExerciseOK
  <2>4. l1 <= l0 + f1
    <3>1. CASE i1 \in C
      BY <1>10, <2>1, <2>2, <3>1
    <3>2. CASE i1 \notin C
      <4>1. l1 = l0
        BY <1>10, <2>1, <3>2
      <4>2. QED  BY <4>1, <2>1, <2>2
    <3>3. QED  BY <3>1, <3>2
  <2>5. l2 <= l1 + f2
    <3>1. CASE i2 \in C
      BY <1>11, <2>1, <2>2, <3>1
    <3>2. CASE i2 \notin C
      <4>1. l2 = l1
        BY <1>11, <2>1, <3>2
      <4>2. QED  BY <4>1, <2>1, <2>2
    <3>3. QED  BY <3>1, <3>2
  <2>6. l3 = l2 + 1
    BY <1>13, <2>1
  <2>7. q1 + f1 = p1 /\ q2 + f2 = p2
    BY <1>1, <1>2, <1>12, <2>2
  <2>8. l3 <= 3 + p1 + p2 + c0 + 1
    BY <2>3, <2>4, <2>5, <2>6, <2>7
  <2>9. Room(y) = 3 + p1 + p2 + c0 + 1
    <3>1. y.task_ids[1] = i1 /\ y.task_ids[2] = i2 /\ y.status = "contained"
      BY <1>4 DEF ContainedFields, i1, i2
    <3>2. c0 = (IF y.completion_recorded THEN 1 ELSE 0)
      BY <1>4, <2>2 DEF ContainedFields
    <3>3. QED  BY <2>2, <3>1, <3>2 DEF Room
  <2>10. l3 <= 16
    BY <2>8
  <2>11. QED  BY <2>1, <2>8, <2>9, <2>10
<1>15. y.timeline = s3
  <2>1. y.timeline = AppendTimeline(x.timeline, b1 \o b2 \o c)
    BY <1>4, <1>5, <1>6 DEF ContainedFields, i1, i2
  <2>2. Len(x.timeline \o (b1 \o b2 \o c)) <= 16
    BY <1>9, <1>14
  <2>3. QED  BY <1>9, <2>1, <2>2, NothingDropped
<1>16. Quiet(x.timeline, s3)
  BY <1>8, <1>10, <1>11, <1>13 DEF Quiet
<1>17. QED  BY <1>13, <1>14, <1>15, <1>16

(* Containment keeps the invariant of its exercise, with its alerts closed
   and its waiting tasks cancelled. *)
LEMMA ContainOK ==
  ASSUME NEW x \in ExerciseType, ExerciseOK(x), x.status # "contained",
         NEW e, NEW T, Owns(e, x, T), CaughtUp(x, T), NEW a \in CONTAINMENT_ACTIONS,
         NEW y, y = ContainedExercise(x, T, a),
         NEW U, DOMAIN U = DOMAIN T, Carries(T, U),
         \A i \in DOMAIN T : U[i] = IF i \in Cancelled(x, T)
                                    THEN Settled(T[i], "cancelled", "exercise_contained")
                                    ELSE T[i],
         \A i \in DOMAIN T : T[i] \in TaskType
  PROVE  ExerciseOK(y) /\ Owns(e, y, U) /\ CaughtUp(y, U) /\ TasksOf(y) = TasksOf(x)
<1>1. ContainedFields(x, T, a, y)
  BY ContainFields
<1>2. /\ y.scenario = x.scenario /\ y.task_ids = x.task_ids /\ y.status = "contained"
      /\ y.detection_status = x.detection_status
      /\ y.completion_recorded = x.completion_recorded
      /\ y.observed = x.observed \cup Cancelled(x, T)
      /\ y.alerts = {[b EXCEPT !.status = "contained"] : b \in x.alerts}
  BY <1>1 DEF ContainedFields
<1>3. /\ Told(y.timeline, y, y.observed) /\ Len(y.timeline) <= Room(y)
      /\ Quiet(x.timeline, y.timeline)
  BY ContainTimeline
<1>4. TasksOf(y) = TasksOf(x) /\ \A i : PlaybookOf(y, i) = PlaybookOf(x, i)
  BY <1>2 DEF TasksOf, PlaybookOf
<1>5. Cancelled(x, T) \subseteq TasksOf(x)
  BY DEF Cancelled
<1>6. AlertsOK(y)
  <2>1. /\ \A b \in x.alerts : Alarmed(x.timeline, b.rule_id, b.task)
        /\ \A r, i : Alarmed(x.timeline, r, i) => AlertOf(x, r, i) \in x.alerts
        /\ x.detection_status = "detected" <=> x.alerts # {}
    BY DEF ExerciseOK, AlertsOK
  <2>2. x.alerts \subseteq AlertType
    BY DEF ExerciseType
  <2>3. AlertStatus(y) = "contained"
    BY <1>2 DEF AlertStatus
  <2>4. ASSUME NEW d \in y.alerts
        PROVE  d.status = AlertStatus(y) /\ Alarmed(y.timeline, d.rule_id, d.task)
    <3>1. PICK b \in x.alerts : d = [b EXCEPT !.status = "contained"]
      BY <1>2
    <3>2. d.status = "contained" /\ d.rule_id = b.rule_id /\ d.task = b.task
      BY <2>2, <3>1 DEF AlertType
    <3>3. Alarmed(y.timeline, b.rule_id, b.task)
      BY <1>3, <2>1 DEF Quiet
    <3>4. QED  BY <2>3, <3>2, <3>3
  <2>5. ASSUME NEW r, NEW i, Alarmed(y.timeline, r, i) PROVE AlertOf(y, r, i) \in y.alerts
    <3>1. Alarmed(x.timeline, r, i)
      BY <1>3, <2>5 DEF Quiet
    <3>2. AlertOf(x, r, i) \in x.alerts
      BY <2>1, <3>1
    <3>3. PICK b : b = AlertOf(x, r, i)
      OBVIOUS
    <3>4. [b EXCEPT !.status = "contained"] = AlertOf(y, r, i)
      BY <2>3, <3>3 DEF AlertOf
    <3>5. QED  BY <1>2, <3>2, <3>3, <3>4
  <2>6. y.detection_status = "detected" <=> y.alerts # {}
    <3>1. PICK A : A = x.alerts
      OBVIOUS
    <3>2. y.alerts = {[b EXCEPT !.status = "contained"] : b \in A}
      BY <1>2, <3>1
    <3>3. y.alerts = {} <=> A = {}
      BY <3>2, Zenon
    <3>4. y.detection_status = x.detection_status
      BY <1>2
    <3>5. QED  BY <2>1, <3>1, <3>3, <3>4
  <2>7. QED  BY <2>4, <2>5, <2>6 DEF AlertsOK
<1>7. VerdictOK(y)
  <2>1. x.completion_recorded <=> \E k \in Nat : Closes(x.timeline, k)
    BY DEF ExerciseOK, VerdictOK
  <2>2. y.completion_recorded <=> \E k \in Nat : Closes(y.timeline, k)
    BY <1>2, <1>3, <2>1 DEF Quiet
  <2>3. QED  BY <1>2, <2>2 DEF VerdictOK
<1>8. ExerciseOK(y)
  <2>1. y.task_ids[1] # y.task_ids[2] /\ y.observed \subseteq TasksOf(y)
    BY <1>2, <1>4, <1>5 DEF ExerciseOK
  <2>2. QED  BY <1>3, <1>6, <1>7, <2>1 DEF ExerciseOK
<1>9. ASSUME NEW i \in TasksOf(x) \cap DOMAIN T
      PROVE  /\ U[i].exercise = e /\ U[i].playbook = PlaybookOf(y, i)
             /\ i \in y.observed =>
                  Terminal(U[i]) /\ (Completes(y.timeline, i) <=> U[i].status = "completed")
             /\ U[i].status # "queued"
             /\ Terminal(U[i]) => i \in y.observed
  <2>1. /\ T[i].exercise = e /\ T[i].playbook = PlaybookOf(x, i)
        /\ i \in x.observed =>
             Terminal(T[i]) /\ (Completes(x.timeline, i) <=> T[i].status = "completed")
        /\ Terminal(T[i]) => i \in x.observed
    BY DEF Owns, CaughtUp
  <2>2. Completes(y.timeline, i) <=> Completes(x.timeline, i)
    BY <1>3 DEF Quiet
  <2>3. U[i].exercise = e /\ U[i].playbook = PlaybookOf(y, i)
    BY <1>4, <2>1 DEF Carries
  <2>4. CASE i \in Cancelled(x, T)
    <3>1. T[i].status = "queued"
      BY <2>4 DEF Cancelled
    <3>2. ~Terminal(T[i])
      BY <3>1 DEF Terminal, TERMINAL_TASK_STATUSES
    <3>3. ~Completes(x.timeline, i)
      BY <2>1, <3>2, UnseenNotDone DEF ExerciseOK
    <3>4. U[i].status = "cancelled"
      <4>1. U[i] = Settled(T[i], "cancelled", "exercise_contained")
        BY <2>4
      <4>2. T[i] \in TaskType
        OBVIOUS
      <4>3. QED  BY <4>1, <4>2 DEF Settled, TaskType
    <3>5. Terminal(U[i])
      BY <3>4 DEF Terminal, TERMINAL_TASK_STATUSES
    <3>6. i \in y.observed
      BY <1>2, <2>4
    <3>7. QED  BY <2>2, <2>3, <3>3, <3>4, <3>5, <3>6
  <2>5. CASE i \notin Cancelled(x, T)
    <3>1. U[i] = T[i] /\ T[i].status # "queued"
      BY <2>5 DEF Cancelled
    <3>2. i \in y.observed <=> i \in x.observed
      BY <1>2, <2>5
    <3>3. QED  BY <2>1, <2>2, <2>3, <3>1, <3>2
  <2>6. QED  BY <2>4, <2>5
<1>10. \A i \in TasksOf(y) : i \notin y.observed => i \in DOMAIN U
  BY <1>2, <1>4 DEF Owns
<1>11. Owns(e, y, U)
  BY <1>2, <1>4, <1>9, <1>10 DEF Owns
<1>12. CaughtUp(y, U)
  BY <1>4, <1>9 DEF CaughtUp
<1>13. QED  BY <1>4, <1>8, <1>11, <1>12

(* contain_exercise: the tasks of another exercise are other tasks. *)
LEMMA ContainKeepsEvidence ==
  ASSUME TypeInv, EvidenceInv, NEW e \in DOMAIN exercises, NEW a \in CONTAINMENT_ACTIONS,
         contain_exercise(e, a)
  PROVE  EvidenceInv'
<1>1. PICK x : x = exercises[e]
  OBVIOUS
<1>2. /\ tasks' = ContainedTasks(x, tasks) /\ x.status # "contained" /\ seq' = seq
      /\ exercises' = [exercises EXCEPT ![e] = ContainedExercise(x, tasks, a)]
  BY <1>1 DEF contain_exercise
<1>3. /\ DOMAIN exercises' = DOMAIN exercises
      /\ exercises'[e] = ContainedExercise(x, tasks, a)
      /\ \A f \in DOMAIN exercises : f # e => exercises'[f] = exercises[f]
  BY <1>2 DEF TypeInv, ExercisesOK, ExerciseDict
<1>4. /\ DOMAIN tasks' = DOMAIN tasks
      /\ \A i \in DOMAIN tasks : tasks'[i] = IF i \in Cancelled(x, tasks)
                                    THEN Settled(tasks[i], "cancelled", "exercise_contained")
                                    ELSE tasks[i]
  BY <1>2 DEF ContainedTasks
<1>5. Carries(tasks, tasks')
  BY ContainSettles, SettlesCarries DEF TypeInv
<1>6. /\ x \in ExerciseType /\ ExerciseOK(x) /\ Owns(e, x, tasks) /\ CaughtUp(x, tasks)
      /\ \A i \in DOMAIN tasks : tasks[i] \in TaskType
  BY <1>1 DEF TypeInv, ExercisesOK, ExerciseDict, EvidenceInv, AllFine, AllCaughtUp,
              LedgerInv, TaskDict
<1>7. /\ ExerciseOK(exercises'[e]) /\ Owns(e, exercises'[e], tasks')
      /\ CaughtUp(exercises'[e], tasks') /\ TasksOf(exercises'[e]) = TasksOf(x)
  BY <1>2, <1>3, <1>4, <1>5, <1>6, ContainOK
<1>8. AllFine(exercises, tasks')
  BY <1>5, CarriedFine DEF EvidenceInv
<1>9. ASSUME NEW f \in DOMAIN exercises, f # e
      PROVE  ExerciseOK(exercises[f]) /\ Owns(f, exercises[f], tasks')
             /\ CaughtUp(exercises[f], tasks')
  <2>1. ASSUME NEW i \in TasksOf(exercises[f]) \cap DOMAIN tasks
        PROVE  tasks'[i] = tasks[i]
    <3>1. tasks[i].exercise = f
      BY DEF EvidenceInv, AllFine, Owns
    <3>2. i \in Cancelled(x, tasks) => tasks[i].exercise = e
      BY <1>6 DEF Cancelled, Owns
    <3>3. QED  BY <1>4, <1>9, <3>1, <3>2
  <2>2. CaughtUp(exercises[f], tasks)
    BY DEF EvidenceInv, AllCaughtUp
  <2>3. CaughtUp(exercises[f], tasks')
    BY <1>4, <2>1, <2>2 DEF CaughtUp
  <2>4. QED  BY <1>8, <2>3 DEF AllFine
<1>10. AllFine(exercises', tasks') /\ AllCaughtUp(exercises', tasks')
  BY <1>3, <1>7, <1>9 DEF AllFine, AllCaughtUp
<1>11. IdsGiven'
  <2>1. \A f \in DOMAIN exercises' : TasksOf(exercises'[f]) = TasksOf(exercises[f])
    BY <1>1, <1>3, <1>7
  <2>2. QED  BY <1>2, <1>3, <2>1 DEF EvidenceInv, IdsGiven
<1>12. QED  BY <1>10, <1>11 DEF EvidenceInv

-----------------------------------------------------------------------------
(* Admissions: retained exercises, and the one that start_exercise makes. *)

(* Making room forgets only tasks that an exercise has observed, and none of
   a running one; new tasks are nobody's yet. *)
LEMMA AdmittedFine ==
  ASSUME TypeInv, EvidenceInv, NEW k, NEW records, Admits(k, records)
  PROVE  \A f \in DOMAIN exercises :
           Owns(f, exercises[f], tasks') /\ CaughtUp(exercises[f], tasks')
<1> SUFFICES ASSUME NEW f \in DOMAIN exercises
             PROVE  Owns(f, exercises[f], tasks') /\ CaughtUp(exercises[f], tasks')
  OBVIOUS
<1>1. PICK x : x = exercises[f]
  OBVIOUS
<1>2. Owns(f, x, tasks) /\ CaughtUp(x, tasks) /\ TasksOf(x) \subseteq 1..seq.task
  BY <1>1 DEF EvidenceInv, AllFine, AllCaughtUp, IdsGiven
<1>3. /\ \A i \in DOMAIN tasks' : i \in DOMAIN tasks \/ i \in NewIds(k)
      /\ \A i \in DOMAIN tasks \ DOMAIN tasks' : i \in Prunable(tasks, RunningExercises)
      /\ \A i \in DOMAIN tasks \cap DOMAIN tasks' : tasks'[i] = tasks[i]
  BY DEF Admits, Kept
<1>4. \A i \in NewIds(k) : i \notin 1..seq.task
  BY DEF NewIds, TypeInv, LedgerInv, SeqOK
<1>5. \A i \in TasksOf(x) \cap DOMAIN tasks' : i \in DOMAIN tasks /\ tasks'[i] = tasks[i]
  BY <1>2, <1>3, <1>4
<1>6. \A i \in TasksOf(x) : i \notin x.observed => i \in DOMAIN tasks'
  <2> SUFFICES ASSUME NEW i \in TasksOf(x), i \notin x.observed, i \notin DOMAIN tasks'
               PROVE  FALSE
    OBVIOUS
  <2>1. i \in DOMAIN tasks
    BY <1>2 DEF Owns
  <2>2. Terminal(tasks[i])
    BY <1>3, <2>1 DEF Prunable
  <2>3. QED  BY <1>2, <2>1, <2>2 DEF CaughtUp
<1>7. x.status = "running" => TasksOf(x) \subseteq DOMAIN tasks'
  <2> SUFFICES ASSUME x.status = "running", NEW i \in TasksOf(x), i \notin DOMAIN tasks'
               PROVE  FALSE
    OBVIOUS
  <2>1. i \in DOMAIN tasks /\ tasks[i].exercise = f
    BY <1>2 DEF Owns
  <2>2. f \in RunningExercises
    BY <1>1 DEF RunningExercises
  <2>3. QED  BY <1>3, <2>1, <2>2 DEF Prunable
<1>8. Owns(f, x, tasks')
  BY <1>2, <1>5, <1>6, <1>7 DEF Owns
<1>9. CaughtUp(x, tasks')
  BY <1>2, <1>5 DEF CaughtUp
<1>10. QED  BY <1>1, <1>8, <1>9

(* queue_task, queue_operation. *)
LEMMA QueueKeepsEvidence ==
  ASSUME TypeInv, EvidenceInv, NEW n, NEW k \in Nat, NEW key, NEW e, Queues(n, k, key, e),
         exercises' = exercises
  PROVE  EvidenceInv'
<1>1. /\ \E records : Admits(k, records)
      /\ seq'.task = seq.task + k
  BY DEF Queues
<1>2. \A f \in DOMAIN exercises :
        Owns(f, exercises[f], tasks') /\ CaughtUp(exercises[f], tasks')
  BY <1>1, AdmittedFine
<1>3. AllFine(exercises, tasks') /\ AllCaughtUp(exercises, tasks')
  BY <1>2 DEF EvidenceInv, AllFine, AllCaughtUp
<1>4. IdsGiven'
  <2>1. seq.task \in Nat
    BY DEF TypeInv, LedgerInv, SeqOK
  <2>2. 1..seq.task \subseteq 1..seq'.task
    BY <1>1, <2>1
  <2>3. QED  BY <2>2 DEF EvidenceInv, IdsGiven
<1>5. QED  BY <1>3, <1>4 DEF EvidenceInv

(* Three entries that say nothing of ends, alarms, verdicts or containment. *)
LEMMA NewTimeline ==
  ASSUME NEW i \in Nat, NEW j \in Nat, NEW s,
         s = <<TaskEntry("exercise.started", 0), TaskEntry("task.queued", i),
               TaskEntry("task.queued", j)>>
  PROVE  /\ s \in Seq(EntryType) /\ Len(s) = 3
         /\ \A k : /\ \A m : ~Ends(s, k, m) /\ ~Done(s, k, m)
                   /\ \A r, m : ~Alarms(s, k, r, m)
                   /\ ~Stops(s, k) /\ ~Closes(s, k)
<1>1. PICK a \in EntryType, b \in EntryType, c \in EntryType :
        /\ a = TaskEntry("exercise.started", 0) /\ a.kind = "exercise.started"
        /\ b = TaskEntry("task.queued", i) /\ b.kind = "task.queued"
        /\ c = TaskEntry("task.queued", j) /\ c.kind = "task.queued"
  <2>1. /\ TaskEntry("exercise.started", 0) \in EntryType
        /\ TaskEntry("task.queued", i) \in EntryType
        /\ TaskEntry("task.queued", j) \in EntryType
    BY TaskEntryIsTyped DEF EntryKinds
  <2>2. \A kind, m : TaskEntry(kind, m).kind = kind
    BY DEF TaskEntry, Entry
  <2>3. QED  BY <2>1, <2>2
<1>2. s = <<a, b, c>>
  BY <1>1
<1>3. s \in Seq(EntryType) /\ Len(s) = 3 /\ s[1] = a /\ s[2] = b /\ s[3] = c
  BY <1>2
<1>4. \A k \in 1..Len(s) : s[k].kind \in {"exercise.started", "task.queued"}
  <2>1. 1..Len(s) = {1, 2, 3}
    BY <1>3
  <2>2. QED  BY <1>1, <1>3, <2>1
<1>5. QED  BY <1>3, <1>4 DEF Ends, Done, Alarms, Stops, Closes, At, TerminalKinds

(* A new exercise has nothing to tell. *)
LEMMA NewExerciseOK ==
  ASSUME NEW n, NEW scenario, NEW actor, NEW i \in Nat, NEW j \in Nat, i # j,
         NEW x, x = NewExercise(n, scenario, actor, i, j)
  PROVE  /\ ExerciseOK(x) /\ TasksOf(x) = {i, j} /\ x.observed = {}
         /\ x.task_ids[1] = i /\ x.task_ids[2] = j /\ x.scenario = scenario
         /\ x.status = "running"
<1>1. /\ x.task_ids = <<i, j>> /\ x.observed = {} /\ x.status = "running"
      /\ x.scenario = scenario /\ x.alerts = {} /\ x.detection_status = "pending"
      /\ x.timeline = <<TaskEntry("exercise.started", 0), TaskEntry("task.queued", i),
                        TaskEntry("task.queued", j)>>
  BY DEF NewExercise
<1>2. x.completion_recorded = FALSE
  BY DEF NewExercise
<1>3. x.task_ids[1] = i /\ x.task_ids[2] = j
  BY <1>1
<1>4. TasksOf(x) = {i, j}
  BY <1>3 DEF TasksOf
<1>5. PICK s : s = x.timeline
  OBVIOUS
<1>6. /\ s \in Seq(EntryType) /\ Len(s) = 3
      /\ \A k : /\ \A m : ~Ends(s, k, m) /\ ~Done(s, k, m)
                /\ \A r, m : ~Alarms(s, k, r, m)
                /\ ~Stops(s, k) /\ ~Closes(s, k)
  BY <1>1, <1>5, NewTimeline
<1>7. Told(s, x, x.observed)
  BY <1>1, <1>6 DEF Told, Early
<1>8. AlertsOK(x)
  BY <1>1, <1>5, <1>6 DEF AlertsOK, Alarmed
<1>9. VerdictOK(x)
  <2>1. ~(TasksOf(x) \subseteq x.observed)
    BY <1>1, <1>4
  <2>2. ~(\E k \in Nat : Closes(x.timeline, k))
    BY <1>5, <1>6
  <2>3. QED  BY <1>1, <1>2, <2>1, <2>2 DEF VerdictOK
<1>10. Len(x.timeline) <= Room(x)
  <2>1. Room(x) = 3
    BY <1>1, <1>2 DEF Room
  <2>2. QED  BY <1>5, <1>6, <2>1
<1>11. QED  BY <1>1, <1>3, <1>4, <1>5, <1>7, <1>8, <1>9, <1>10 DEF ExerciseOK

(* start_exercise. *)
LEMMA StartKeepsEvidence ==
  ASSUME TypeInv, EvidenceInv, NEW n \in DOMAIN nodes, NEW r \in ExerciseRequests,
         NEW lag \in Lags, start_exercise(n, r, lag)
  PROVE  EvidenceInv'
<1>1. PICK e \in Nat, t1 \in Nat, t2 \in Nat :
        e = seq.exercise + 1 /\ t1 = seq.task + 1 /\ t2 = seq.task + 2
  BY DEF TypeInv, LedgerInv, SeqOK
<1>2. PICK x : x = NewExercise(n, r.scenario, r.created_by, t1, t1 + 1)
  OBVIOUS
<1>3. exercises' = Put(exercises, e, x)
  BY <1>1, <1>2 DEF start_exercise
<1>4. e \notin DOMAIN exercises
  BY <1>1 DEF TypeInv, ExercisesOK, LedgerInv, SeqOK
<1>5. /\ DOMAIN exercises' = DOMAIN exercises \cup {e} /\ exercises'[e] = x
      /\ \A f \in DOMAIN exercises : exercises'[f] = exercises[f]
  BY <1>3, <1>4 DEF Put
<1>6. t1 + 1 = t2 /\ t1 # t2
  BY <1>1, SMTT(20) DEF TypeInv, LedgerInv, SeqOK
<1>7. /\ ExerciseOK(x) /\ TasksOf(x) = {t1, t2} /\ x.observed = {}
      /\ x.task_ids[1] = t1 /\ x.task_ids[2] = t2 /\ x.scenario = r.scenario
      /\ x.status = "running"
  BY <1>2, <1>6, NewExerciseOK
<1>8. /\ Queues(n, 2, NoKey, seq.exercise + 1)
      /\ tasks'[seq.task + 1].playbook = FirstPlaybook(r.scenario)
      /\ tasks'[seq.task + 2].playbook = SecondPlaybook(r.scenario)
  BY StartExerciseLedger DEF TypeInv
<1>9. PICK records :
        /\ Admits(2, records)
        /\ \A m \in 1..2 : FreshTask(records[m]) /\ records[m].exercise = seq.exercise + 1
  BY <1>8 DEF Queues
<1>10. ASSUME NEW i \in {t1, t2}
       PROVE  i \in DOMAIN tasks' /\ tasks'[i].status = "queued" /\ tasks'[i].exercise = e
  <2>1. i \in NewIds(2) /\ i - seq.task \in 1..2
    BY <1>1 DEF NewIds, TypeInv, LedgerInv, SeqOK
  <2>2. i \in DOMAIN tasks' /\ tasks'[i] = records[i - seq.task]
    BY <1>9, <2>1 DEF Admits
  <2>3. QED  BY <1>1, <1>9, <2>1, <2>2 DEF FreshTask
<1>11. tasks'[t1].playbook = PlaybookOf(x, t1) /\ tasks'[t2].playbook = PlaybookOf(x, t2)
  BY <1>1, <1>6, <1>7, <1>8 DEF PlaybookOf
<1>12. Owns(e, x, tasks')
  BY <1>7, <1>10, <1>11 DEF Owns
<1>13. CaughtUp(x, tasks')
  <2>1. \A t : Terminal(t) => t.status # "queued"
    BY DEF Terminal, TERMINAL_TASK_STATUSES
  <2>2. QED  BY <1>7, <1>10, <2>1 DEF CaughtUp
<1>14. \A f \in DOMAIN exercises :
         Owns(f, exercises[f], tasks') /\ CaughtUp(exercises[f], tasks')
  BY <1>9, AdmittedFine
<1>15. AllFine(exercises', tasks') /\ AllCaughtUp(exercises', tasks')
  BY <1>5, <1>7, <1>12, <1>13, <1>14 DEF EvidenceInv, AllFine, AllCaughtUp
<1>16. IdsGiven'
  <2>1. seq'.task = seq.task + 2 /\ seq.task \in Nat
    BY <1>8 DEF Queues, TypeInv, LedgerInv, SeqOK
  <2>2. 1..seq.task \subseteq 1..seq'.task /\ {t1, t2} \subseteq 1..seq'.task
    BY <1>1, <2>1
  <2>3. \A f \in DOMAIN exercises : TasksOf(exercises[f]) \subseteq 1..seq.task
    BY DEF EvidenceInv, IdsGiven
  <2>4. \A f \in DOMAIN exercises' : TasksOf(exercises'[f]) \subseteq 1..seq'.task
    BY <1>5, <1>7, <2>2, <2>3
  <2>5. QED  BY <2>4 DEF IdsGiven
<1>17. QED  BY <1>15, <1>16 DEF EvidenceInv

-----------------------------------------------------------------------------
(* The invariant of the specification. *)

(* No exercise, nothing to tell. *)
LEMMA EvidenceInit == Init => EvidenceInv
BY DEF Init, EmptyDict, EvidenceInv, AllFine, AllCaughtUp, IdsGiven

(* Every step keeps it. *)
LEMMA EvidenceStep == TypeInv /\ EvidenceInv /\ [Next]_vars => EvidenceInv'
<1> SUFFICES ASSUME TypeInv, EvidenceInv, [Next]_vars PROVE EvidenceInv'
  OBVIOUS
<1>1. LedgerInv
  BY DEF TypeInv
<1>2. \A t : Waits(t, t)
  BY StaysPut
<1>3. CASE UNCHANGED vars
  BY <1>2, <1>3, WaitingKeepsEvidence DEF vars
<1>4. CASE Tick
  <2>1. exercises' = exercises /\ seq' = seq /\ DOMAIN tasks' = DOMAIN tasks
    BY <1>4 DEF Tick
  <2>2. QED  BY <1>1, <1>4, <2>1, TickMoves, WaitingKeepsEvidence
<1>5. ASSUME NEW lag \in Lags, Expire(lag) PROVE EvidenceInv'
  BY <1>5, ExpireKeepsEvidence
<1>6. CASE NodeCall
  <2>1. ASSUME NEW e \in Enrolments, NEW lag \in Lags, enroll_node(e, lag)
        PROVE  EvidenceInv'
    <3>1. tasks' = tasks /\ exercises' = exercises /\ seq' = [seq EXCEPT !.node = seq.node + 1]
      BY <2>1 DEF enroll_node
    <3>2. seq'.task = seq.task
      BY <1>1, <3>1 DEF LedgerInv, SeqOK
    <3>3. QED  BY <1>2, <3>1, <3>2, WaitingKeepsEvidence
  <2>2. ASSUME NEW n \in DOMAIN nodes, disconnect_node(n) PROVE EvidenceInv'
    <3>1. Settles(tasks, tasks')
      BY <1>1, <2>2, DisconnectSettles
    <3>2. QED  BY <2>2, <3>1, SettlingKeepsEvidence DEF disconnect_node
  <2>3. QED  BY <1>6, <2>1, <2>2, PollKeepsEvidence, SubmitKeepsEvidence DEF NodeCall
<1>7. CASE OperatorCall
  <2>1. ASSUME NEW n \in DOMAIN nodes, NEW lag \in Lags, NEW r \in TaskRequests,
               queue_task(n, r, lag)
        PROVE  EvidenceInv'
    <3>1. Queues(n, 1, r.key, 0) /\ exercises' = exercises
      BY <1>1, <2>1, QueueTaskLedger DEF queue_task
    <3>2. QED  BY <3>1, QueueKeepsEvidence
  <2>2. ASSUME NEW n \in DOMAIN nodes, NEW lag \in Lags, NEW r \in OperationRequests,
               queue_operation(n, r, lag)
        PROVE  EvidenceInv'
    <3>1. /\ Queues(n, Len(r.playbooks), NoKey, 0) /\ exercises' = exercises
          /\ Len(r.playbooks) \in 1..MAX_OPERATION_STEPS
      BY <1>1, <2>2, QueueOperationLedger DEF queue_operation
    <3>2. Len(r.playbooks) \in Nat
      BY <3>1 DEF MAX_OPERATION_STEPS
    <3>3. QED  BY <3>1, <3>2, QueueKeepsEvidence
  <2>3. ASSUME NEW i \in DOMAIN tasks, cancel_task(i) PROVE EvidenceInv'
    <3>1. Settles(tasks, tasks')
      BY <1>1, <2>3, CancelSettles
    <3>2. QED  BY <2>3, <3>1, SettlingKeepsEvidence DEF cancel_task
  <2>4. CASE reset
    BY <2>4 DEF reset, EmptyDict, EvidenceInv, AllFine, AllCaughtUp, IdsGiven
  <2>5. QED
    BY <1>7, <2>1, <2>2, <2>3, <2>4, StartKeepsEvidence, ContainKeepsEvidence DEF OperatorCall
<1>8. QED  BY <1>3, <1>4, <1>5, <1>6, <1>7 DEF Next

(* Through every interleaving of the handlers, the timeline, the observed
   tasks, the alerts and the verdict of every exercise agree with each other
   and with the ledger. *)
THEOREM EvidenceInvariant == Spec => [](TypeInv /\ EvidenceInv)
<1>1. Init => TypeInv /\ EvidenceInv
  BY TypeInit, EvidenceInit
<1>2. TypeInv /\ EvidenceInv /\ [Next]_vars => (TypeInv /\ EvidenceInv)'
  BY TypeStep, EvidenceStep
<1>3. QED  BY <1>1, <1>2, PTL DEF Spec

-----------------------------------------------------------------------------
(* What the invariant says of each property of LabState. *)

(* contain_exercise cancels what waits and contains every alert, and neither
   a dispatch nor a refresh undoes it: while an exercise is contained none of
   its tasks is queued and none of its alerts is open. *)
THEOREM ContainmentHoldsAlways == Spec => []ContainmentHolds
<1>1. TypeInv /\ EvidenceInv => ContainmentHolds
  <2> SUFFICES ASSUME EvidenceInv, NEW e \in DOMAIN exercises,
                      exercises[e].status = "contained"
               PROVE  /\ \A i \in TasksOf(exercises[e]) \cap DOMAIN tasks :
                           tasks[i].status # "queued"
                      /\ \A a \in exercises[e].alerts : a.status = "contained"
    BY DEF ContainmentHolds
  <2>1. ExerciseOK(exercises[e]) /\ Owns(e, exercises[e], tasks)
    BY DEF EvidenceInv, AllFine
  <2>2. QED  BY <2>1 DEF ExerciseOK, AlertsOK, AlertStatus, Owns
<1>2. QED  BY <1>1, EvidenceInvariant, PTL

(* The entries of one kind, and the predicates that read them. *)
LEMMA KindsRead ==
  ASSUME NEW x, x.timeline \in Seq(EntryType)
  PROVE  /\ \A k : k \in 1..Len(x.timeline) => k \in Nat
         /\ \A i : Recorded(x, "task.completed", i) <=> Completes(x.timeline, i)
         /\ (Entries(x, {"containment.applied"}) # {}) <=> \E k \in Nat : Stops(x.timeline, k)
         /\ (Entries(x, {"exercise.completed", "exercise.failed"}) # {})
              <=> \E k \in Nat : Closes(x.timeline, k)
<1>1. PICK s : s = x.timeline
  OBVIOUS
<1>2. PICK n \in Nat : n = Len(s)
  BY <1>1, LenProperties
<1>3. \A k : k \in 1..Len(s) => k \in Nat
  BY <1>2
<1>4. ASSUME NEW i PROVE Recorded(x, "task.completed", i) <=> Completes(s, i)
  <2>1. Recorded(x, "task.completed", i) <=>
          \E k \in 1..Len(s) : s[k].kind = "task.completed" /\ s[k].task = i
    BY <1>1 DEF Recorded, Entries
  <2>2. QED  BY <1>3, <2>1 DEF Completes, Done, At
<1>5. (Entries(x, {"containment.applied"}) # {}) <=> \E k \in Nat : Stops(s, k)
  BY <1>1, <1>3 DEF Entries, Stops, At
<1>6. (Entries(x, {"exercise.completed", "exercise.failed"}) # {})
        <=> \E k \in Nat : Closes(s, k)
  BY <1>1, <1>3 DEF Entries, Closes, At
<1>7. QED  BY <1>1, <1>3, <1>4, <1>5, <1>6

(* _refresh_exercises_locked closes an exercise with the verdict its two
   tasks deserve, contain_exercise never after it saw both, and the bound of
   the timeline drops neither the closing nor the containing entry. *)
THEOREM VerdictMatchesEvidenceHolds == Spec => []VerdictMatchesEvidence
<1>1. TypeInv /\ EvidenceInv => VerdictMatchesEvidence
  <2> SUFFICES ASSUME TypeInv, EvidenceInv, NEW e \in DOMAIN exercises, NEW x,
                      x = exercises[e]
               PROVE  LET done == TasksOf(x) \subseteq x.observed
                          success == \A i \in TasksOf(x) : Recorded(x, "task.completed", i)
                      IN /\ x.status = "running" => ~done
                         /\ x.status = "completed" => success
                         /\ x.status = "failed" => done /\ ~success
                         /\ (x.status = "contained")
                              = (Entries(x, {"containment.applied"}) # {})
                         /\ x.completion_recorded =
                              (Entries(x, {"exercise.completed", "exercise.failed"}) # {})
    BY DEF VerdictMatchesEvidence
  <2>1. x \in ExerciseType
    BY DEF TypeInv, ExercisesOK, ExerciseDict
  <2>2. Told(x.timeline, x, x.observed) /\ VerdictOK(x)
    BY DEF EvidenceInv, AllFine, ExerciseOK
  <2>3. x.timeline \in Seq(EntryType) /\ x.completion_recorded \in BOOLEAN
    BY <2>1 DEF ExerciseType
  <2>4. /\ \A i : Recorded(x, "task.completed", i) <=> Completes(x.timeline, i)
        /\ (Entries(x, {"containment.applied"}) # {}) <=> \E k \in Nat : Stops(x.timeline, k)
        /\ (Entries(x, {"exercise.completed", "exercise.failed"}) # {})
             <=> \E k \in Nat : Closes(x.timeline, k)
    BY <2>3, KindsRead
  <2>5. (x.status = "contained") <=> \E k \in Nat : Stops(x.timeline, k)
    BY <2>2 DEF Told
  <2>6. x.completion_recorded <=> \E k \in Nat : Closes(x.timeline, k)
    BY <2>2 DEF VerdictOK
  <2>7. (x.status = "contained") = (Entries(x, {"containment.applied"}) # {})
    BY <2>4, <2>5
  <2>8. x.completion_recorded = (Entries(x, {"exercise.completed", "exercise.failed"}) # {})
    BY <2>3, <2>4, <2>6
  <2>9. QED  BY <2>2, <2>4, <2>7, <2>8 DEF VerdictOK
<1>2. QED  BY <1>1, EvidenceInvariant, PTL

(* Whatever settles a task of an exercise, the handler also refreshes the
   exercise: no end of a task goes unobserved, none is written twice. *)
THEOREM EvidenceCompleteHolds == Spec => []EvidenceComplete
<1>1. TypeInv /\ EvidenceInv => EvidenceComplete
  <2> SUFFICES ASSUME TypeInv, EvidenceInv, NEW e \in DOMAIN exercises,
                      NEW i \in TasksOf(exercises[e]), NEW x, x = exercises[e]
               PROVE  /\ i \in x.observed \/ (i \in DOMAIN tasks /\ Live(tasks[i]))
                      /\ Cardinality({k \in Entries(x, TerminalKinds) : x.timeline[k].task = i})
                           = IF i \in x.observed THEN 1 ELSE 0
    BY DEF EvidenceComplete
  <2>1. /\ Told(x.timeline, x, x.observed) /\ Owns(e, x, tasks) /\ CaughtUp(x, tasks)
    BY DEF EvidenceInv, AllFine, AllCaughtUp, ExerciseOK
  <2>2. x.timeline \in Seq(EntryType)
    BY DEF TypeInv, ExercisesOK, ExerciseDict, ExerciseType
  <2>3. i \in x.observed \/ (i \in DOMAIN tasks /\ Live(tasks[i]))
    <3> SUFFICES ASSUME i \notin x.observed PROVE i \in DOMAIN tasks /\ Live(tasks[i])
      OBVIOUS
    <3>1. i \in DOMAIN tasks /\ ~Terminal(tasks[i])
      BY <2>1 DEF Owns, CaughtUp
    <3>2. tasks[i] \in TaskType
      BY <3>1 DEF TypeInv, LedgerInv, TaskDict
    <3>3. QED  BY <3>1, <3>2 DEF TaskType, Terminal, Live
  <2>4. PICK S : S = {k \in Entries(x, TerminalKinds) : x.timeline[k].task = i}
    OBVIOUS
  <2>5. \A k \in S : k \in Nat /\ Ends(x.timeline, k, i)
    BY <2>2, <2>4, KindsRead DEF Entries, Ends
  <2>6. \A k \in Nat : Ends(x.timeline, k, i) => k \in S
    BY <2>4 DEF Entries, Ends
  <2>7. /\ \A k, l \in Nat : Ends(x.timeline, k, i) /\ Ends(x.timeline, l, i) => k = l
        /\ i \in x.observed <=> \E k \in Nat : Ends(x.timeline, k, i)
    BY <2>1 DEF Told
  <2>8. CASE i \in x.observed
    <3>1. PICK k \in Nat : Ends(x.timeline, k, i)
      BY <2>7, <2>8
    <3>2. S = {k}
      BY <2>5, <2>6, <2>7, <3>1
    <3>3. Cardinality(S) = 1
      BY <3>2, FS_Singleton
    <3>4. QED  BY <2>3, <2>4, <2>8, <3>3
  <2>9. CASE i \notin x.observed
    <3>1. S = {}
      BY <2>5, <2>7, <2>9
    <3>2. Cardinality(S) = 0
      BY <3>1, FS_EmptySet
    <3>3. QED  BY <2>3, <2>4, <2>9, <3>2
  <2>10. QED  BY <2>8, <2>9
<1>2. QED  BY <1>1, EvidenceInvariant, PTL

(* Sets that correspond one to one have as many elements. *)
LEMMA OneToOne ==
  ASSUME NEW S, IsFiniteSet(S), NEW T, NEW f \in [S -> T],
         \A k, l \in S : f[k] = f[l] => k = l, \A t \in T : \E k \in S : f[k] = t
  PROVE  Cardinality(T) = Cardinality(S)
<1>1. f \in Bijection(S, T)
  BY DEF Bijection, Injection, IsInjective, Surjection
<1>2. ExistsBijection(S, T)
  BY <1>1 DEF ExistsBijection
<1>3. QED  BY <1>2, FS_Bijection

(* The matches that the timeline of x records. *)
Matches(x) == Entries(x, {"detection.matched"})

RulesMatched(x) == {<<x.timeline[k].rule, x.timeline[k].task>> : k \in Matches(x)}

(* They are its alarms. *)
LEMMA MatchesRead ==
  ASSUME NEW x, x.timeline \in Seq(EntryType)
  PROVE  /\ IsFiniteSet(Matches(x))
         /\ \A k : k \in Matches(x) <=>
              k \in Nat /\ Alarms(x.timeline, k, x.timeline[k].rule, x.timeline[k].task)
         /\ \A r, i : <<r, i>> \in RulesMatched(x) <=> Alarmed(x.timeline, r, i)
         /\ \A z \in RulesMatched(x) : \E r, i : z = <<r, i>>
<1>1. PICK s : s = x.timeline
  OBVIOUS
<1>2. PICK n \in Nat : n = Len(s)
  BY <1>1, LenProperties
<1>3. PICK M : M = Matches(x)
  OBVIOUS
<1>4. M \subseteq 1..n /\ \A k : k \in M <=> k \in 1..Len(s) /\ s[k].kind = "detection.matched"
  BY <1>1, <1>2, <1>3 DEF Matches, Entries
<1>5. IsFiniteSet(M)
  <2>1. PICK a \in Int, b \in Int : a = 1 /\ b = n
    OBVIOUS
  <2>2. IsFiniteSet(1..n)
    BY <2>1, FS_Interval
  <2>3. QED  BY <1>4, <2>2, FS_Subset
<1>6. \A k : k \in M <=> k \in Nat /\ Alarms(s, k, s[k].rule, s[k].task)
  BY <1>2, <1>4 DEF Alarms, At
<1>7. ASSUME NEW r, NEW i
      PROVE  <<r, i>> \in RulesMatched(x) <=> Alarmed(s, r, i)
  <2>1. <<r, i>> \in RulesMatched(x) <=> \E k \in M : s[k].rule = r /\ s[k].task = i
    BY <1>1, <1>3 DEF RulesMatched
  <2>2. ASSUME NEW k \in Nat, Alarms(s, k, r, i)
        PROVE  k \in M /\ s[k].rule = r /\ s[k].task = i
    BY <1>4, <2>2 DEF Alarms, At
  <2>3. QED  BY <1>6, <2>1, <2>2 DEF Alarmed
<1>8. \A z \in RulesMatched(x) : \E r, i : z = <<r, i>>
  BY DEF RulesMatched
<1>9. QED  BY <1>1, <1>3, <1>5, <1>6, <1>7, <1>8

(* The rules of the step of task i that completed in time. *)
RulesRaised(x, i, p) ==
  IF \E k \in Entries(x, {"task.completed"}) :
       /\ x.timeline[k].task = i
       /\ \A c \in Entries(x, {"containment.applied"}) : k < c
  THEN LET d == detections_for_playbook(x.scenario, p)
       IN {<<d[k].id, i>> : k \in 1..Len(d)}
  ELSE {}

(* They are those it triggers. *)
LEMMA RulesRaisedRead ==
  ASSUME NEW x, x.timeline \in Seq(EntryType), NEW i, NEW p, p = PlaybookOf(x, i)
  PROVE  /\ \A r : <<r, i>> \in RulesRaised(x, i, p) <=>
                     Early(x.timeline, i) /\ Triggers(x, i, r)
         /\ \A z \in RulesRaised(x, i, p) : \E r : z = <<r, i>>
<1>1. PICK s : s = x.timeline
  OBVIOUS
<1>2. PICK n \in Nat : n = Len(s)
  BY <1>1, LenProperties
<1>3. /\ \A k : k \in Entries(x, {"task.completed"}) /\ s[k].task = i <=> k \in Nat /\ Done(s, k, i)
      /\ \A c : c \in Entries(x, {"containment.applied"}) <=> c \in Nat /\ Stops(s, c)
  <2>1. \A k : k \in 1..Len(s) => k \in Nat
    BY <1>2
  <2>2. QED  BY <1>1, <2>1 DEF Entries, Done, Stops, At
<1>4. (\E k \in Entries(x, {"task.completed"}) :
         /\ x.timeline[k].task = i
         /\ \A c \in Entries(x, {"containment.applied"}) : k < c) <=> Early(s, i)
  BY <1>1, <1>3 DEF Early
<1>5. PICK d : d = detections_for_playbook(x.scenario, p)
  OBVIOUS
<1>6. \A r : Triggers(x, i, r) <=> \E k \in 1..Len(d) : d[k].id = r
  BY <1>5 DEF Triggers, RulesOf
<1>7. RulesRaised(x, i, p) = IF Early(s, i) THEN {<<d[k].id, i>> : k \in 1..Len(d)} ELSE {}
  BY <1>4, <1>5 DEF RulesRaised
<1>8. \A r : <<r, i>> \in {<<d[k].id, i>> : k \in 1..Len(d)} <=> \E k \in 1..Len(d) : d[k].id = r
  OBVIOUS
<1>9. QED  BY <1>1, <1>6, <1>7, <1>8

(* The alerts of x, one by one, and the matches in its timeline. *)
LEMMA AlertsCounted ==
  ASSUME NEW x \in ExerciseType, Told(x.timeline, x, x.observed), AlertsOK(x)
  PROVE  Cardinality(x.alerts) = Cardinality(Matches(x))
<1>1. PICK s, M, A : s = x.timeline /\ M = Matches(x) /\ A = x.alerts
  OBVIOUS
<1>2. /\ IsFiniteSet(M)
      /\ \A k : k \in M <=> k \in Nat /\ Alarms(s, k, s[k].rule, s[k].task)
  BY <1>1, MatchesRead DEF ExerciseType
<1>3. /\ \A r, i : Alarmed(s, r, i) => AlertOf(x, r, i) \in A
      /\ \A a \in A : a.status = AlertStatus(x) /\ Alarmed(s, a.rule_id, a.task)
  BY <1>1 DEF AlertsOK
<1>4. \A a \in A : a = AlertOf(x, a.rule_id, a.task)
  <2>1. A \subseteq AlertType
    BY <1>1 DEF ExerciseType
  <2>2. QED  BY <1>3, <2>1 DEF AlertType, AlertOf
<1>5. PICK f : f = [k \in M |-> AlertOf(x, s[k].rule, s[k].task)]
  OBVIOUS
<1>6. f \in [M -> A]
  BY <1>2, <1>3, <1>5 DEF Alarmed
<1>7. ASSUME NEW k \in M, NEW l \in M, f[k] = f[l] PROVE k = l
  <2>1. AlertOf(x, s[k].rule, s[k].task) = AlertOf(x, s[l].rule, s[l].task)
    BY <1>5, <1>7
  <2>2. s[k].rule = s[l].rule
    BY <2>1 DEF AlertOf
  <2>3. /\ k \in Nat /\ Alarms(s, k, s[k].rule, s[k].task)
        /\ l \in Nat /\ Alarms(s, l, s[k].rule, s[l].task)
    BY <1>2, <2>2
  <2>4. QED  BY <1>1, <2>3 DEF Told
<1>8. ASSUME NEW a \in A PROVE \E k \in M : f[k] = a
  <2>1. PICK k \in Nat : Alarms(s, k, a.rule_id, a.task)
    BY <1>3 DEF Alarmed
  <2>2. s[k].rule = a.rule_id /\ s[k].task = a.task
    BY <2>1 DEF Alarms
  <2>3. k \in M
    BY <1>2, <2>1, <2>2
  <2>4. f[k] = AlertOf(x, a.rule_id, a.task)
    BY <1>5, <2>2, <2>3
  <2>5. QED  BY <1>4, <2>3, <2>4
<1>9. Cardinality(A) = Cardinality(M)
  BY <1>2, <1>6, <1>7, <1>8, OneToOne
<1>10. QED  BY <1>1, <1>9

(* _refresh_exercises_locked raises an alert for every rule of a step that
   completed before the containment, once, and for no other; the timeline
   records each and drops none. *)
THEOREM AlertsMatchEvidenceHolds == Spec => []AlertsMatchEvidence
<1>1. TypeInv /\ EvidenceInv => AlertsMatchEvidence
  <2> SUFFICES ASSUME TypeInv, EvidenceInv, NEW e \in DOMAIN exercises, NEW x,
                      x = exercises[e], NEW expected,
                      expected = RulesMatched(x)
               PROVE  /\ {<<a.rule_id, a.task>> : a \in x.alerts} = expected
                      /\ expected = RulesRaised(x, x.task_ids[1], FirstPlaybook(x.scenario))
                           \cup RulesRaised(x, x.task_ids[2], SecondPlaybook(x.scenario))
                      /\ Cardinality(x.alerts) = Cardinality(Matches(x))
                      /\ (x.detection_status = "detected") = (x.alerts # {})
    BY DEF AlertsMatchEvidence, Matches, RulesMatched, RulesRaised
  <2>1. x \in ExerciseType /\ x.timeline \in Seq(EntryType)
    BY DEF TypeInv, ExercisesOK, ExerciseDict, ExerciseType
  <2>2. ExerciseOK(x)
    BY DEF EvidenceInv, AllFine
  <2>3. AlertsOK(x) /\ Told(x.timeline, x, x.observed) /\ x.task_ids[1] # x.task_ids[2]
    BY <2>2 DEF ExerciseOK
  <2>4. /\ \A r, i : <<r, i>> \in expected <=> Alarmed(x.timeline, r, i)
        /\ \A z \in expected : \E r, i : z = <<r, i>>
    BY <2>1, MatchesRead
  <2>5. {<<a.rule_id, a.task>> : a \in x.alerts} = expected
    <3>1. ASSUME NEW a \in x.alerts PROVE <<a.rule_id, a.task>> \in expected
      BY <2>3, <2>4 DEF AlertsOK
    <3>2. ASSUME NEW z \in expected PROVE \E a \in x.alerts : z = <<a.rule_id, a.task>>
      <4>1. PICK r, i : z = <<r, i>>
        BY <2>4
      <4>2. AlertOf(x, r, i) \in x.alerts
        BY <2>3, <2>4, <4>1 DEF AlertsOK
      <4>3. AlertOf(x, r, i).rule_id = r /\ AlertOf(x, r, i).task = i
        BY DEF AlertOf
      <4>4. QED  BY <4>1, <4>2, <4>3
    <3>3. QED  BY <3>1, <3>2
  <2>6. PICK i1, i2 : i1 = x.task_ids[1] /\ i2 = x.task_ids[2]
    OBVIOUS
  <2>7. PICK R1, R2 : /\ R1 = RulesRaised(x, i1, FirstPlaybook(x.scenario))
                      /\ R2 = RulesRaised(x, i2, SecondPlaybook(x.scenario))
    OBVIOUS
  <2>8. /\ \A r : <<r, i1>> \in R1 <=> Early(x.timeline, i1) /\ Triggers(x, i1, r)
        /\ \A z \in R1 : \E r : z = <<r, i1>>
    <3>1. FirstPlaybook(x.scenario) = PlaybookOf(x, i1)
      BY <2>6 DEF PlaybookOf
    <3>2. QED  BY <2>1, <2>7, <3>1, RulesRaisedRead
  <2>9. /\ \A r : <<r, i2>> \in R2 <=> Early(x.timeline, i2) /\ Triggers(x, i2, r)
        /\ \A z \in R2 : \E r : z = <<r, i2>>
    <3>1. SecondPlaybook(x.scenario) = PlaybookOf(x, i2)
      BY <2>3, <2>6 DEF PlaybookOf
    <3>2. QED  BY <2>1, <2>7, <3>1, RulesRaisedRead
  <2>10. expected = R1 \cup R2
    <3>1. ASSUME NEW z \in expected PROVE z \in R1 \cup R2
      <4>1. PICK r, i : z = <<r, i>>
        BY <2>4
      <4>2. Alarmed(x.timeline, r, i)
        BY <2>4, <4>1
      <4>3. i \in TasksOf(x) /\ Triggers(x, i, r) /\ Early(x.timeline, i)
        BY <2>3, <4>2 DEF Told, Alarmed
      <4>4. i = i1 \/ i = i2
        BY <2>6, <4>3 DEF TasksOf
      <4>5. QED  BY <2>8, <2>9, <4>1, <4>3, <4>4
    <3>2. ASSUME NEW i \in TasksOf(x), NEW r, Early(x.timeline, i), Triggers(x, i, r)
          PROVE  <<r, i>> \in expected
      BY <2>3, <2>4, <3>2 DEF Told, Alarmed
    <3>3. i1 \in TasksOf(x) /\ i2 \in TasksOf(x)
      BY <2>6 DEF TasksOf
    <3>4. R1 \subseteq expected /\ R2 \subseteq expected
      BY <2>8, <2>9, <3>2, <3>3
    <3>5. QED  BY <3>1, <3>4
  <2>11. Cardinality(x.alerts) = Cardinality(Matches(x))
    BY <2>1, <2>3, AlertsCounted
  <2>12. (x.detection_status = "detected") = (x.alerts # {})
    BY <2>3 DEF AlertsOK
  <2>13. QED  BY <2>5, <2>6, <2>7, <2>10, <2>11, <2>12
<1>2. QED  BY <1>1, EvidenceInvariant, PTL

-----------------------------------------------------------------------------
(* What no handler may do to an exercise that is there. *)

Keeps(x, y) ==
  /\ y.node = x.node /\ y.scenario = x.scenario
  /\ x.status = "contained" =>
       y.status = "contained" /\ y.containment = x.containment /\ y.alerts = x.alerts

AllKept(X, Y) == DOMAIN X \subseteq DOMAIN Y /\ \A e \in DOMAIN X : Keeps(X[e], Y[e])

(* Refreshes one after the other. *)
LEMMA KeepsTransitive ==
  ASSUME NEW X, NEW Y, NEW Z, AllKept(X, Y), AllKept(Y, Z)
  PROVE  AllKept(X, Z)
BY DEF AllKept, Keeps

(* Evidence that comes late raises no alert and no verdict. *)
LEMMA RefreshKeeps ==
  ASSUME NEW x \in ExerciseType, NEW T, NEW y, y = Refresh(x, T)
  PROVE  Keeps(x, y)
<1>1. RefreshedFields(x, T, y)
  BY RefreshFields
<1>2. ASSUME x.status = "contained", NEW i PROVE NewAlerts(x, T, i) = {}
  <2>1. PICK rules : rules = MatchedRules(x, T, i)
    OBVIOUS
  <2>2. rules = <<>>
    BY <1>2, <2>1 DEF MatchedRules
  <2>3. Len(rules) = 0
    BY <2>2
  <2>4. NewAlerts(x, T, i) = {} \/
          NewAlerts(x, T, i) =
            {[rule_id |-> rules[k].id, task |-> i, status |-> "open"] : k \in 1..Len(rules)}
    BY <2>1 DEF NewAlerts
  <2>5. QED  BY <2>3, <2>4
<1>3. Concludes(x, T) => x.status # "contained"
  BY DEF Concludes
<1>4. QED  BY <1>1, <1>2, <1>3 DEF RefreshedFields, Keeps

(* A refresh of all of them. *)
LEMMA RefreshAllKeeps ==
  ASSUME NEW X, ExerciseDict(X), NEW T, NEW Y, Y = RefreshAll(X, T)
  PROVE  ExerciseDict(Y) /\ AllKept(X, Y)
<1>1. DOMAIN Y = DOMAIN X /\ \A e \in DOMAIN X : Y[e] = Refresh(X[e], T)
  BY DEF RefreshAll
<1>2. ExerciseDict(Y)
  BY RefreshAllType
<1>3. \A e \in DOMAIN X : Keeps(X[e], Y[e])
  BY <1>1, RefreshKeeps DEF ExerciseDict
<1>4. QED  BY <1>1, <1>2, <1>3 DEF AllKept

(* Handlers that leave the exercises alone. *)
LEMMA UnchangedKept == \A X : AllKept(X, X)
BY DEF AllKept, Keeps

(* The two refreshes of an expiry. *)
LEMMA ExpiredKept ==
  ASSUME TypeInv, NEW lag, NEW X, X = ExpiredExercises(lag)
  PROVE  ExerciseDict(X) /\ AllKept(exercises, X)
<1>1. PICK Y : Y = RefreshAll(exercises, FirstExpiredTasks(nodes, tasks, lag))
  OBVIOUS
<1>2. ExerciseDict(exercises)
  BY DEF TypeInv, ExercisesOK
<1>3. ExerciseDict(Y) /\ AllKept(exercises, Y)
  BY <1>1, <1>2, RefreshAllKeeps
<1>4. X = RefreshAll(Y, ExpiredTasks(nodes, tasks, lag))
  BY <1>1 DEF ExpiredExercises
<1>5. ExerciseDict(X) /\ AllKept(Y, X)
  BY <1>3, <1>4, RefreshAllKeeps
<1>6. QED  BY <1>3, <1>5, KeepsTransitive

(* start_exercise adds one under an id of its own. *)
LEMMA StartKeeps ==
  ASSUME TypeInv, NEW n \in DOMAIN nodes, NEW lag \in Lags, NEW r \in ExerciseRequests,
         start_exercise(n, r, lag)
  PROVE  AllKept(exercises, exercises')
<1>1. PICK e, x : /\ exercises' = Put(exercises, e, x) /\ e = seq.exercise + 1
  BY DEF start_exercise
<1>2. e \notin DOMAIN exercises
  <2>1. seq.exercise \in Nat /\ \A d \in DOMAIN exercises : d \in 1..seq.exercise
    BY DEF TypeInv, ExercisesOK, LedgerInv, SeqOK
  <2>2. QED  BY <1>1, <2>1
<1>3. DOMAIN exercises \subseteq DOMAIN exercises' /\ \A d \in DOMAIN exercises : exercises'[d] = exercises[d]
  BY <1>1, <1>2 DEF Put
<1>4. QED  BY <1>3 DEF AllKept, Keeps

(* contain_exercise writes one that was not contained. *)
LEMMA ContainKeeps ==
  ASSUME TypeInv, NEW e \in DOMAIN exercises, NEW a \in CONTAINMENT_ACTIONS,
         contain_exercise(e, a)
  PROVE  AllKept(exercises, exercises')
<1>1. PICK y : y = ContainedExercise(exercises[e], tasks, a)
  OBVIOUS
<1>2. /\ exercises' = [exercises EXCEPT ![e] = y] /\ exercises[e].status # "contained"
  BY <1>1 DEF contain_exercise
<1>3. exercises[e] \in ExerciseType
  BY DEF TypeInv, ExercisesOK, ExerciseDict
<1>4. y.node = exercises[e].node /\ y.scenario = exercises[e].scenario
  BY <1>1, <1>3 DEF ContainedExercise, ExerciseType
<1>5. DOMAIN exercises' = DOMAIN exercises
  BY <1>2
<1>6. ASSUME NEW d \in DOMAIN exercises PROVE Keeps(exercises[d], exercises'[d])
  <2>1. CASE d = e
    <3>1. exercises'[d] = y
      BY <1>2, <2>1
    <3>2. QED  BY <1>2, <1>4, <2>1, <3>1 DEF Keeps
  <2>2. CASE d # e
    <3>1. exercises'[d] = exercises[d]
      BY <1>2, <2>2
    <3>2. QED  BY <3>1 DEF Keeps
  <2>3. QED  BY <2>1, <2>2
<1>7. QED  BY <1>5, <1>6 DEF AllKept

(* Every handler but reset keeps them all. *)
LEMMA ExercisesStep ==
  TypeInv /\ [Next]_vars => reset \/ AllKept(exercises, exercises')
<1> SUFFICES ASSUME TypeInv, [Next]_vars, ~reset PROVE AllKept(exercises, exercises')
  OBVIOUS
<1>1. ExerciseDict(exercises)
  BY DEF TypeInv, ExercisesOK
<1>2. exercises' = exercises => AllKept(exercises, exercises')
  BY UnchangedKept
<1>3. CASE UNCHANGED vars \/ Tick
  BY <1>2, <1>3 DEF vars, Tick
<1>4. ASSUME NEW lag \in Lags, Expire(lag) PROVE AllKept(exercises, exercises')
  <2>1. exercises' = ExpiredExercises(lag)
    BY <1>4 DEF Expire, ExpiredExercises
  <2>2. QED  BY <2>1, ExpiredKept
<1>5. CASE NodeCall
  <2>1. ASSUME NEW e \in Enrolments, NEW lag \in Lags, enroll_node(e, lag)
        PROVE  AllKept(exercises, exercises')
    BY <1>2, <2>1 DEF enroll_node
  <2>2. ASSUME NEW n \in DOMAIN nodes, NEW lag \in Lags, poll_node(n, lag)
        PROVE  AllKept(exercises, exercises')
    <3>1. exercises' = ExpiredExercises(lag)
      BY <2>2 DEF poll_node
    <3>2. QED  BY <3>1, ExpiredKept
  <2>3. ASSUME NEW n \in DOMAIN nodes, NEW i \in DOMAIN tasks, NEW s \in Submissions,
               NEW lag \in Lags, submit_result(n, i, s, lag)
        PROVE  AllKept(exercises, exercises')
    <3>1. PICK X : X = ExpiredExercises(lag)
      OBVIOUS
    <3>2. exercises' = RefreshAll(X, tasks')
      BY <2>3, <3>1 DEF submit_result
    <3>3. ExerciseDict(X) /\ AllKept(exercises, X)
      BY <3>1, ExpiredKept
    <3>4. AllKept(X, exercises')
      BY <3>2, <3>3, RefreshAllKeeps
    <3>5. QED  BY <3>3, <3>4, KeepsTransitive
  <2>4. ASSUME NEW n \in DOMAIN nodes, disconnect_node(n)
        PROVE  AllKept(exercises, exercises')
    <3>1. exercises' = RefreshAll(exercises, tasks')
      BY <2>4 DEF disconnect_node
    <3>2. QED  BY <1>1, <3>1, RefreshAllKeeps
  <2>5. QED  BY <1>5, <2>1, <2>2, <2>3, <2>4 DEF NodeCall
<1>6. CASE OperatorCall
  <2>1. ASSUME NEW n \in DOMAIN nodes, NEW lag \in Lags, NEW r \in TaskRequests,
               queue_task(n, r, lag)
        PROVE  AllKept(exercises, exercises')
    BY <1>2, <2>1 DEF queue_task
  <2>2. ASSUME NEW n \in DOMAIN nodes, NEW lag \in Lags, NEW r \in OperationRequests,
               queue_operation(n, r, lag)
        PROVE  AllKept(exercises, exercises')
    BY <1>2, <2>2 DEF queue_operation
  <2>3. ASSUME NEW i \in DOMAIN tasks, cancel_task(i) PROVE AllKept(exercises, exercises')
    <3>1. exercises' = RefreshAll(exercises, tasks')
      BY <2>3 DEF cancel_task
    <3>2. QED  BY <1>1, <3>1, RefreshAllKeeps
  <2>4. QED  BY <1>6, <2>1, <2>2, <2>3, StartKeeps, ContainKeeps DEF OperatorCall
<1>7. QED  BY <1>3, <1>4, <1>5, <1>6 DEF Next

ContainedStays ==
  \A e \in DOMAIN exercises \cap DOMAIN exercises' :
    exercises[e].status = "contained" =>
      /\ exercises'[e].status = "contained"
      /\ exercises'[e].containment = exercises[e].containment
      /\ exercises'[e].alerts = exercises[e].alerts

(* contain_exercise refuses an exercise that is contained, and what a refresh
   observes afterwards raises neither an alert nor a verdict: containment is
   never undone, replaced or reopened. *)
THEOREM ContainedIsFinalHolds == Spec => ContainedIsFinal
<1>1. TypeInv /\ [Next]_vars => ContainedStays
  <2>1. reset => ContainedStays
    BY DEF reset, EmptyDict, ContainedStays
  <2>2. AllKept(exercises, exercises') => ContainedStays
    BY DEF AllKept, Keeps, ContainedStays
  <2>3. QED  BY <2>1, <2>2, ExercisesStep
<1>2. TypeInv /\ [Next]_vars => [ContainedStays]_vars
  BY <1>1
<1>3. QED  BY <1>2, TypeInit, TypeStep, PTL DEF Spec, ContainedIsFinal, ContainedStays

-----------------------------------------------------------------------------
(* The replay records of start_exercise. *)

(* start_exercise is the only handler that remembers a key, reset the only
   one that forgets any. *)
LEMMA ExerciseKeysStep ==
  TypeInv /\ [Next]_vars =>
    \/ reset
    \/ exercise_idempotency' = exercise_idempotency
    \/ \E n \in DOMAIN nodes, lag \in Lags, r \in ExerciseRequests : start_exercise(n, r, lag)
<1> SUFFICES ASSUME [Next]_vars, ~reset,
                    ~(\E n \in DOMAIN nodes, lag \in Lags, r \in ExerciseRequests :
                        start_exercise(n, r, lag))
             PROVE  exercise_idempotency' = exercise_idempotency
  OBVIOUS
<1>1. CASE UNCHANGED vars \/ Tick \/ \E lag \in Lags : Expire(lag)
  BY <1>1 DEF vars, replay, Tick, Expire
<1>2. CASE NodeCall
  BY <1>2 DEF NodeCall, enroll_node, poll_node, submit_result, disconnect_node, replay
<1>3. CASE OperatorCall
  BY <1>3 DEF OperatorCall, queue_task, queue_operation, cancel_task, contain_exercise, replay
<1>4. QED  BY <1>1, <1>2, <1>3 DEF Next

Resolves(k) ==
  LET r == exercise_idempotency[k]
  IN /\ r.exercise \in DOMAIN exercises
     /\ exercises[r.exercise].node = r.node
     /\ exercises[r.exercise].scenario = r.scenario

(* A new key resolves to the new exercise. *)
LEMMA StartResolves ==
  ASSUME TypeInv, NEW n \in DOMAIN nodes, NEW lag \in Lags, NEW r \in ExerciseRequests,
         start_exercise(n, r, lag), NEW k \in DOMAIN exercise_idempotency',
         k \in DOMAIN exercise_idempotency /\ exercise_idempotency'[k] = exercise_idempotency[k]
           => Resolves(k)'
  PROVE  Resolves(k)'
<1>1. PICK e, t, x : /\ e = seq.exercise + 1 /\ t = seq.task + 1
                     /\ x = NewExercise(n, r.scenario, r.created_by, t, t + 1)
  OBVIOUS
<1>2. PICK record : record = [created_by |-> r.created_by, node |-> n,
                              scenario |-> r.scenario, exercise |-> e]
  OBVIOUS
<1>3. /\ exercises' = Put(exercises, e, x)
      /\ exercise_idempotency' = IF r.key = NoKey THEN exercise_idempotency
                                 ELSE Put(exercise_idempotency, r.key, record)
  BY <1>1, <1>2 DEF start_exercise
<1>4. e \in DOMAIN exercises' /\ exercises'[e] = x
  BY <1>3 DEF Put
<1>5. x.node = n /\ x.scenario = r.scenario
  BY <1>1 DEF NewExercise
<1>6. CASE k \in DOMAIN exercise_idempotency /\ exercise_idempotency'[k] = exercise_idempotency[k]
  BY <1>6
<1>7. CASE ~(k \in DOMAIN exercise_idempotency /\ exercise_idempotency'[k] = exercise_idempotency[k])
  <2>1. exercise_idempotency' = Put(exercise_idempotency, r.key, record)
    BY <1>3, <1>7
  <2>2. exercise_idempotency'[k] = record
    BY <1>7, <2>1 DEF Put
  <2>3. record.exercise = e /\ record.node = n /\ record.scenario = r.scenario
    BY <1>2
  <2>4. QED  BY <1>4, <1>5, <2>2, <2>3 DEF Resolves
<1>8. QED  BY <1>6, <1>7

(* Every key keeps resolving. *)
LEMMA ResolvesStep ==
  TypeInv /\ ExerciseKeysResolve /\ [Next]_vars => ExerciseKeysResolve'
<1> SUFFICES ASSUME TypeInv, ExerciseKeysResolve, [Next]_vars,
                    NEW k \in DOMAIN exercise_idempotency'
             PROVE  Resolves(k)'
  BY DEF ExerciseKeysResolve, Resolves
<1>1. CASE reset
  BY <1>1 DEF reset, EmptyDict
<1>2. CASE ~reset
  <2>1. AllKept(exercises, exercises')
    BY <1>2, ExercisesStep
  <2>2. ASSUME k \in DOMAIN exercise_idempotency,
               exercise_idempotency'[k] = exercise_idempotency[k]
        PROVE  Resolves(k)'
    <3>1. Resolves(k)
      BY <2>2 DEF ExerciseKeysResolve, Resolves
    <3>2. QED  BY <2>1, <2>2, <3>1 DEF Resolves, AllKept, Keeps
  <2>3. CASE exercise_idempotency' = exercise_idempotency
    BY <2>2, <2>3
  <2>4. ASSUME NEW n \in DOMAIN nodes, NEW lag \in Lags, NEW r \in ExerciseRequests,
               start_exercise(n, r, lag)
        PROVE  Resolves(k)'
    BY <2>2, <2>4, StartResolves
  <2>5. QED  BY <1>2, <2>3, <2>4, ExerciseKeysStep
<1>3. QED  BY <1>1, <1>2

(* start_exercise remembers a key together with the exercise it creates, no
   handler drops or rewrites that exercise, and reset forgets both: a retry
   with the key always finds the exercise it asked for. *)
THEOREM ExerciseKeysResolveHolds == Spec => []ExerciseKeysResolve
<1>1. Init => ExerciseKeysResolve
  BY DEF Init, EmptyDict, ExerciseKeysResolve
<1>2. QED  BY <1>1, ResolvesStep, TypeInit, TypeStep, PTL DEF Spec
=============================================================================
