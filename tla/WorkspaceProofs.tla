-------------------------- MODULE WorkspaceProofs ---------------------------
(***************************************************************************)
(* What the node's workspace reports is true of its directory, for every   *)
(* number of files and every place where a playbook can fail.  RegistryOK  *)
(* relates the two tables to the directory; the rest of the invariant says *)
(* how far a playbook has got (LeftOf) and what it has achieved by then    *)
(* (Achieved).                                                             *)
(***************************************************************************)
EXTENDS Workspace, SequenceTheorems, FiniteSetTheorems, TLAPS

OpType == [what : {"assert", "read", "remove", "create", "ensure"}, name : Names]

\* What __init__ and execute do, from the first operation to the last check.
Building == Append(CreateFixtures, Check)
Plan(p) == << Check >> \o Program(p) \o << Check >>

\* The operations of F from the k-th one are still to do.
LeftOf(F, k) ==
    /\ todo \in Seq(OpType)
    /\ k \in 1 .. Len(F) + 1
    /\ Len(todo) = Len(F) - k + 1
    /\ \A i \in 1 .. Len(todo) : todo[i] = F[k + i - 1]

Good(name) == Holds(name) /\ handles[artifacts[name]]

\* The two tables of the workspace: no file has two names, and every file is
\* one that was created.
RegistryOK ==
    /\ created \in Nat
    /\ disk \subseteq 1 .. created
    /\ artifacts \in [DOMAIN artifacts -> 1 .. created]
    /\ DOMAIN artifacts \subseteq Names
    /\ handles \in [DOMAIN handles -> BOOLEAN]
    /\ DOMAIN handles = {artifacts[name] : name \in DOMAIN artifacts}
    /\ \A m, n \in DOMAIN artifacts : artifacts[m] = artifacts[n] => m = n

\* What a playbook has achieved before its k-th operation.
Achieved(p, k) ==
    /\ p = "COLLECT_AND_STAGE" /\ k > 6 => Good(MANIFEST)
    /\ p = "CREATE_CANARY" /\ k > 2 => Good(CANARY)
    /\ p = "CLEANUP" /\ k > 2 => MANIFEST \notin DOMAIN artifacts
    /\ p = "CLEANUP" /\ k > 3 => CANARY \notin DOMAIN artifacts
    /\ k > Len(Plan(p)) => WorkspaceIntact

BuildingOK ==
    /\ playbook = "none" /\ answer = "none"
    /\ \E k \in 1 .. 5 :
         /\ LeftOf(Building, k)
         /\ k > 1 => Good("accounts")
         /\ k > 2 => Good("planning")
         /\ k > 3 => Good("telemetry")

OpenOK ==
    /\ \A name \in Fixtures : Good(name)
    /\ \/ playbook = "none" /\ todo = << >> /\ answer \in {"none", "error"}
       \/ /\ playbook \in PLAYBOOK_NAMES
          /\ answer \in {"none", "result"}
          /\ answer = "result" => todo = << >>
          /\ \E k \in 1 .. Len(Plan(playbook)) + 1 :
               LeftOf(Plan(playbook), k) /\ Achieved(playbook, k)

IdleOK == playbook = "none" /\ todo = << >> /\ answer = "none"

\* The inductive invariant.
IInv ==
    /\ RegistryOK
    /\ \/ mode = "building" /\ BuildingOK
       \/ mode = "open" /\ OpenOK
       \/ mode \in {"failing", "closed"} /\ IdleOK

-----------------------------------------------------------------------------
\* A list of operations between two others.
LEMMA Between ==
  ASSUME NEW a \in OpType, NEW b \in OpType, NEW n \in Nat,
         NEW t \in Seq(OpType), Len(t) = n, NEW F, F = << a >> \o t \o << b >>
  PROVE  /\ F \in Seq(OpType) /\ Len(F) = n + 2
         /\ F[1] = a /\ F[n + 2] = b
         /\ \A i \in 1 .. n : F[i + 1] = t[i]
<1>1. PICK c, d : c = << a >> /\ d = << b >>
  OBVIOUS
<1>2. /\ c \in Seq(OpType) /\ Len(c) = 1 /\ c[1] = a
      /\ d \in Seq(OpType) /\ Len(d) = 1 /\ d[1] = b
  BY <1>1
<1>3. PICK u : u = c \o t
  OBVIOUS
<1>4. /\ u \in Seq(OpType) /\ Len(u) = n + 1
      /\ \A i \in 1 .. n + 1 : u[i] = IF i <= 1 THEN c[i] ELSE t[i - 1]
  <2>1. /\ u \in Seq(OpType) /\ Len(u) = Len(c) + Len(t)
        /\ \A i \in 1 .. Len(c) + Len(t) : u[i] = IF i <= Len(c) THEN c[i] ELSE t[i - Len(c)]
    BY <1>2, <1>3, ConcatProperties
  <2>2. Len(c) + Len(t) = n + 1 /\ Len(c) = 1
    BY <1>2
  <2>3. QED  BY <2>1, <2>2
<1>5. F = u \o d
  BY <1>1, <1>3
<1>6. /\ F \in Seq(OpType) /\ Len(F) = n + 2
      /\ \A i \in 1 .. n + 2 : F[i] = IF i <= n + 1 THEN u[i] ELSE d[i - (n + 1)]
  <2>1. /\ F \in Seq(OpType) /\ Len(F) = Len(u) + Len(d)
        /\ \A i \in 1 .. Len(u) + Len(d) : F[i] = IF i <= Len(u) THEN u[i] ELSE d[i - Len(u)]
    BY <1>2, <1>4, <1>5, ConcatProperties
  <2>2. Len(u) + Len(d) = n + 2 /\ Len(u) = n + 1
    BY <1>2, <1>4
  <2>3. QED  BY <2>1, <2>2
<1>7. F[1] = a
  <2>1. 1 \in 1 .. n + 2 /\ 1 <= n + 1 /\ 1 \in 1 .. n + 1
    OBVIOUS
  <2>2. QED  BY <1>2, <1>4, <1>6, <2>1
<1>8. F[n + 2] = b
  <2>1. PICK m \in 1 .. n + 2, l \in Nat : m = n + 2 /\ l = n + 1
    OBVIOUS
  <2>2. ~(m <= l) /\ m - l = 1
    BY <2>1
  <2>3. F[m] = d[m - l]
    BY <1>6, <2>1, <2>2
  <2>4. F[m] = b
    BY <1>2, <2>2, <2>3
  <2>5. QED  BY <2>1, <2>4
<1>9. ASSUME NEW i \in 1 .. n PROVE F[i + 1] = t[i]
  <2>1. i + 1 \in 1 .. n + 1 /\ i + 1 \in 1 .. n + 2 /\ i + 1 <= n + 1 /\ ~(i + 1 <= 1)
        /\ i + 1 - 1 = i
    OBVIOUS
  <2>2. QED  BY <1>4, <1>6, <2>1
<1>10. QED  BY <1>6, <1>7, <1>8, <1>9

\* The kind and the name of an operation.
LEMMA OpOf ==
  ASSUME NEW what \in {"assert", "read", "remove", "create", "ensure"}, NEW name \in Names
  PROVE  /\ Op(what, name) \in OpType
         /\ Op(what, name).what = what /\ Op(what, name).name = name
BY DEF Op, OpType

LEMMA CheckOf == Check \in OpType /\ Check.what = "assert"
<1>1. MANIFEST \in Names
  BY DEF Names, MANIFEST
<1>2. QED  BY <1>1, OpOf DEF Check

\* The three reads.
LEMMA Reads ==
  /\ ReadFixtures \in Seq(OpType) /\ Len(ReadFixtures) = 3
  /\ \A i \in 1 .. 3 : ReadFixtures[i].what = "read"
<1>1. "accounts" \in Names /\ "planning" \in Names /\ "telemetry" \in Names
  BY DEF Names, Fixtures
<1>2. PICK a \in OpType, b \in OpType, c \in OpType :
        /\ a = Op("read", "accounts") /\ b = Op("read", "planning")
        /\ c = Op("read", "telemetry")
        /\ a.what = "read" /\ b.what = "read" /\ c.what = "read"
  BY <1>1, OpOf
<1>3. PICK t : t = << a, b, c >>
  OBVIOUS
<1>4. t \in Seq(OpType) /\ Len(t) = 3 /\ t[1] = a /\ t[2] = b /\ t[3] = c
  BY <1>3
<1>5. \A i \in 1 .. 3 : i = 1 \/ i = 2 \/ i = 3
  OBVIOUS
<1>6. t = ReadFixtures
  BY <1>2, <1>3 DEF ReadFixtures
<1>7. QED  BY <1>2, <1>4, <1>5, <1>6

\* A plan is its program between two checks.
LEMMA PlanOf ==
  ASSUME NEW p, NEW n \in Nat, Program(p) \in Seq(OpType), Len(Program(p)) = n
  PROVE  /\ Plan(p) \in Seq(OpType) /\ Len(Plan(p)) = n + 2
         /\ Plan(p)[1].what = "assert" /\ Plan(p)[n + 2].what = "assert"
         /\ \A i \in 1 .. n : Plan(p)[i + 1] = Program(p)[i]
<1>1. PICK t \in Seq(OpType) : t = Program(p) /\ Len(t) = n
  OBVIOUS
<1>2. PICK c \in OpType : c = Check /\ c.what = "assert"
  BY CheckOf
<1>3. PICK F : F = Plan(p) /\ F = << c >> \o t \o << c >>
  BY <1>1, <1>2 DEF Plan
<1>4. /\ F \in Seq(OpType) /\ Len(F) = n + 2
      /\ F[1] = c /\ F[n + 2] = c
      /\ \A i \in 1 .. n : F[i + 1] = t[i]
  BY <1>1, <1>2, <1>3, Between
<1>5. QED  BY <1>1, <1>2, <1>3, <1>4

\* The plans of the four playbooks, operation by operation.
LEMMA PlanDiscovery ==
  ASSUME NEW F, F = Plan("DISCOVERY_FIXTURES")
  PROVE  /\ F \in Seq(OpType) /\ Len(F) = 5
         /\ \A i \in 1 .. 5 : F[i].what \in {"assert", "read"}
         /\ F[5].what = "assert"
<1>1. Program("DISCOVERY_FIXTURES") = ReadFixtures
  BY DEF Program
<1>2. PICK n \in Nat : n = 3
  OBVIOUS
<1>3. /\ F \in Seq(OpType) /\ Len(F) = n + 2
      /\ F[1].what = "assert" /\ F[n + 2].what = "assert"
      /\ \A i \in 1 .. n : F[i + 1] = ReadFixtures[i]
  BY <1>1, <1>2, Reads, PlanOf
<1>4. n + 2 = 5 /\ 1 \in 1 .. n /\ 2 \in 1 .. n /\ 3 \in 1 .. n
      /\ 1 + 1 = 2 /\ 2 + 1 = 3 /\ 3 + 1 = 4
  BY <1>2
<1>5. F[2].what = "read" /\ F[3].what = "read" /\ F[4].what = "read"
  <2>1. F[1 + 1] = ReadFixtures[1] /\ F[2 + 1] = ReadFixtures[2] /\ F[3 + 1] = ReadFixtures[3]
    BY <1>3, <1>4
  <2>2. QED  BY <1>4, <2>1, Reads
<1>6. \A i \in 1 .. 5 : i = 1 \/ i = 2 \/ i = 3 \/ i = 4 \/ i = 5
  OBVIOUS
<1>7. QED  BY <1>3, <1>4, <1>5, <1>6

LEMMA PlanCollect ==
  ASSUME NEW F, F = Plan("COLLECT_AND_STAGE")
  PROVE  /\ F \in Seq(OpType) /\ Len(F) = 7
         /\ F[1].what = "assert"
         /\ F[2].what = "remove" /\ F[2].name = MANIFEST
         /\ F[3].what = "read" /\ F[4].what = "read" /\ F[5].what = "read"
         /\ F[6].what = "create" /\ F[6].name = MANIFEST
         /\ F[7].what = "assert"
<1>1. MANIFEST \in Names
  BY DEF Names, MANIFEST
<1>2. PICK a \in OpType, b \in OpType :
        /\ a = Op("remove", MANIFEST) /\ a.what = "remove" /\ a.name = MANIFEST
        /\ b = Op("create", MANIFEST) /\ b.what = "create" /\ b.name = MANIFEST
  BY <1>1, OpOf
<1>3. PICK t \in Seq(OpType), m \in Nat : t = ReadFixtures /\ Len(t) = m
  BY Reads
<1>4. PICK P : P = << a >> \o t \o << b >>
  OBVIOUS
<1>5. /\ P \in Seq(OpType) /\ Len(P) = m + 2
      /\ P[1] = a /\ P[m + 2] = b
      /\ \A i \in 1 .. m : P[i + 1] = t[i]
  BY <1>3, <1>4, Between
<1>6. P = Program("COLLECT_AND_STAGE")
  BY <1>2, <1>3, <1>4 DEF Program
<1>7. m = 3
  BY <1>3, Reads
<1>8. PICK n \in Nat : n = m + 2
  OBVIOUS
<1>9. /\ F \in Seq(OpType) /\ Len(F) = n + 2
      /\ F[1].what = "assert" /\ F[n + 2].what = "assert"
      /\ \A i \in 1 .. n : F[i + 1] = P[i]
  BY <1>5, <1>8, <1>6, PlanOf
<1>10. /\ 1 \in 1 .. m /\ 2 \in 1 .. m /\ 3 \in 1 .. m
      /\ 1 \in 1 .. n /\ 2 \in 1 .. n /\ 3 \in 1 .. n /\ 4 \in 1 .. n /\ 5 \in 1 .. n
      /\ 1 + 1 = 2 /\ 2 + 1 = 3 /\ 3 + 1 = 4 /\ 4 + 1 = 5 /\ 5 + 1 = 6 /\ n + 2 = 7 /\ m + 2 = 5
  BY <1>8, <1>7
<1>11. P[2].what = "read" /\ P[3].what = "read" /\ P[4].what = "read"
  <2>1. P[1 + 1] = t[1] /\ P[2 + 1] = t[2] /\ P[3 + 1] = t[3]
    BY <1>5, <1>10
  <2>2. QED  BY <1>3, <1>10, <2>1, Reads
<1>12. F[2] = P[1] /\ F[3] = P[2] /\ F[4] = P[3] /\ F[5] = P[4] /\ F[6] = P[5]
  <2>1. F[1 + 1] = P[1] /\ F[2 + 1] = P[2] /\ F[3 + 1] = P[3] /\ F[4 + 1] = P[4]
        /\ F[5 + 1] = P[5]
    BY <1>9, <1>10
  <2>2. QED  BY <1>10, <2>1
<1>13. P[5] = b
  BY <1>5, <1>10
<1>14. n + 2 = 7
  BY <1>10
<1>15. F \in Seq(OpType) /\ Len(F) = 7 /\ F[1].what = "assert" /\ F[7].what = "assert"
  BY <1>9, <1>14
<1>16. F[2] = a /\ F[6] = b
  BY <1>5, <1>12, <1>13
<1>17. F[3].what = "read" /\ F[4].what = "read" /\ F[5].what = "read"
  BY <1>11, <1>12
<1>18. QED  BY <1>2, <1>15, <1>16, <1>17

LEMMA PlanCanary ==
  ASSUME NEW F, F = Plan("CREATE_CANARY")
  PROVE  /\ F \in Seq(OpType) /\ Len(F) = 3
         /\ F[1].what = "assert"
         /\ F[2].what = "ensure" /\ F[2].name = CANARY
         /\ F[3].what = "assert"
<1>1. CANARY \in Names
  BY DEF Names, CANARY
<1>2. PICK a \in OpType : a = Op("ensure", CANARY) /\ a.what = "ensure" /\ a.name = CANARY
  BY <1>1, OpOf
<1>3. PICK P \in Seq(OpType), n \in Nat :
        /\ P = Program("CREATE_CANARY") /\ n = 1 /\ Len(P) = n /\ P[1] = a
  <2>1. Program("CREATE_CANARY") = << a >>
    BY <1>2 DEF Program
  <2>2. << a >> \in Seq(OpType) /\ Len(<< a >>) = 1 /\ << a >>[1] = a
    OBVIOUS
  <2>3. QED  BY <2>1, <2>2
<1>4. /\ F \in Seq(OpType) /\ Len(F) = n + 2
      /\ F[1].what = "assert" /\ F[n + 2].what = "assert"
      /\ \A i \in 1 .. n : F[i + 1] = P[i]
  BY <1>3, PlanOf
<1>5. 1 \in 1 .. n /\ 1 + 1 = 2 /\ n + 2 = 3
  BY <1>3
<1>6. F[1 + 1] = P[1]
  BY <1>4, <1>5
<1>7. QED  BY <1>2, <1>3, <1>4, <1>5, <1>6

LEMMA PlanCleanup ==
  ASSUME NEW F, F = Plan("CLEANUP")
  PROVE  /\ F \in Seq(OpType) /\ Len(F) = 4
         /\ F[1].what = "assert"
         /\ F[2].what = "remove" /\ F[2].name = MANIFEST
         /\ F[3].what = "remove" /\ F[3].name = CANARY
         /\ F[4].what = "assert"
<1>1. MANIFEST \in Names /\ CANARY \in Names
  BY DEF Names, MANIFEST, CANARY
<1>2. PICK a \in OpType, b \in OpType :
        /\ a = Op("remove", MANIFEST) /\ a.what = "remove" /\ a.name = MANIFEST
        /\ b = Op("remove", CANARY) /\ b.what = "remove" /\ b.name = CANARY
  BY <1>1, OpOf
<1>3. PICK P : P = << a, b >>
  OBVIOUS
<1>4. P \in Seq(OpType) /\ Len(P) = 2 /\ P[1] = a /\ P[2] = b
  BY <1>3
<1>5. P = Program("CLEANUP")
  BY <1>2, <1>3 DEF Program
<1>6. PICK n \in Nat : n = 2
  OBVIOUS
<1>7. /\ F \in Seq(OpType) /\ Len(F) = n + 2
      /\ F[1].what = "assert" /\ F[n + 2].what = "assert"
      /\ \A i \in 1 .. n : F[i + 1] = P[i]
  BY <1>4, <1>5, <1>6, PlanOf
<1>8. 1 \in 1 .. n /\ 2 \in 1 .. n /\ 1 + 1 = 2 /\ 2 + 1 = 3 /\ n + 2 = 4
  BY <1>6
<1>9. F[1 + 1] = P[1] /\ F[2 + 1] = P[2]
  BY <1>7, <1>8
<1>10. QED  BY <1>2, <1>7, <1>8, <1>9, <1>4

\* The construction of the workspace.
LEMMA BuildingPlan ==
  /\ Building \in Seq(OpType) /\ Len(Building) = 4
  /\ Building[1].what = "create" /\ Building[1].name = "accounts"
  /\ Building[2].what = "create" /\ Building[2].name = "planning"
  /\ Building[3].what = "create" /\ Building[3].name = "telemetry"
  /\ Building[4].what = "assert"
<1>1. "accounts" \in Names /\ "planning" \in Names /\ "telemetry" \in Names
  BY DEF Names, Fixtures
<1>2. PICK a \in OpType, b \in OpType, c \in OpType :
        /\ a = Op("create", "accounts") /\ a.what = "create" /\ a.name = "accounts"
        /\ b = Op("create", "planning") /\ b.what = "create" /\ b.name = "planning"
        /\ c = Op("create", "telemetry") /\ c.what = "create" /\ c.name = "telemetry"
  BY <1>1, OpOf
<1>3. PICK t : t = << a, b, c >>
  OBVIOUS
<1>4. t \in Seq(OpType) /\ Len(t) = 3 /\ t[1] = a /\ t[2] = b /\ t[3] = c
  BY <1>3
<1>5. PICK e \in OpType : e = Check
  BY CheckOf
<1>6. PICK F : F = Append(t, e)
  OBVIOUS
<1>7. /\ F \in Seq(OpType) /\ Len(F) = Len(t) + 1
      /\ \A i \in 1 .. Len(t) : F[i] = t[i]
      /\ F[Len(t) + 1] = e
  <2>1. t \in Seq(OpType)
    BY <1>4
  <2>2. /\ Append(t, e) \in Seq(OpType) /\ Len(Append(t, e)) = Len(t) + 1
        /\ \A i \in 1 .. Len(t) : Append(t, e)[i] = t[i]
        /\ Append(t, e)[Len(t) + 1] = e
    BY <2>1, AppendProperties
  <2>3. QED  BY <1>6, <2>2, Zenon
<1>8. 1 \in 1 .. Len(t) /\ 2 \in 1 .. Len(t) /\ 3 \in 1 .. Len(t) /\ Len(t) + 1 = 4
  BY <1>4
<1>9. F[1] = a /\ F[2] = b /\ F[3] = c /\ F[4] = e /\ Len(F) = 4
  BY <1>4, <1>7, <1>8
<1>10. F = Building
  BY <1>2, <1>3, <1>6, <1>5 DEF Building, CreateFixtures
<1>11. QED  BY <1>2, <1>7, <1>9, <1>10, <1>5, CheckOf

-----------------------------------------------------------------------------
\* The next operation is the k-th one, and doing it leaves those after it.
LEMMA LeftOfHead ==
  ASSUME NEW F, NEW k, LeftOf(F, k), F \in Seq(OpType), todo # << >>
  PROVE  /\ k \in 1 .. Len(F) /\ Head(todo) = F[k]
         /\ Head(todo) \in OpType
<1>1. todo \in Seq(OpType) /\ Len(F) \in Nat
  BY DEF LeftOf
<1>2. Len(todo) \in Nat /\ Len(todo) # 0 /\ Head(todo) = todo[1] /\ Head(todo) \in OpType
  BY <1>1, EmptySeq, HeadTailProperties
<1>3. k \in 1 .. Len(F) + 1 /\ Len(todo) = Len(F) - k + 1
      /\ \A i \in 1 .. Len(todo) : todo[i] = F[k + i - 1]
  BY DEF LeftOf
<1>4. 1 \in 1 .. Len(todo) /\ k + 1 - 1 = k /\ k \in 1 .. Len(F)
  BY <1>1, <1>2, <1>3
<1>5. QED  BY <1>2, <1>3, <1>4

LEMMA LeftOfTail ==
  ASSUME NEW F, NEW k, LeftOf(F, k), F \in Seq(OpType), todo # << >>, todo' = Tail(todo)
  PROVE  LeftOf(F, k + 1)'
<1>1. todo \in Seq(OpType) /\ Len(F) \in Nat
  BY DEF LeftOf
<1>2. /\ Len(todo) \in Nat
      /\ todo' \in Seq(OpType) /\ Len(todo') = Len(todo) - 1
      /\ \A i \in 1 .. Len(todo') : todo'[i] = todo[i + 1]
  BY <1>1, HeadTailProperties
<1>3. k \in 1 .. Len(F) + 1 /\ Len(todo) = Len(F) - k + 1
      /\ \A i \in 1 .. Len(todo) : todo[i] = F[k + i - 1]
  BY DEF LeftOf
<1>4. k \in 1 .. Len(F)
  BY <1>1, <1>2, <1>3, EmptySeq, LeftOfHead
<1>5. ASSUME NEW i \in 1 .. Len(todo') PROVE todo'[i] = F[(k + 1) + i - 1]
  <2>1. i + 1 \in 1 .. Len(todo) /\ k + (i + 1) - 1 = (k + 1) + i - 1
    BY <1>2, <1>3
  <2>2. QED  BY <1>2, <1>3, <2>1
<1>6. k + 1 \in 1 .. Len(F) + 1 /\ Len(todo') = Len(F) - (k + 1) + 1
  BY <1>1, <1>2, <1>3, <1>4
<1>7. QED  BY <1>2, <1>5, <1>6 DEF LeftOf

LEMMA LeftOfAll ==
  ASSUME NEW F, F \in Seq(OpType), todo = F
  PROVE  LeftOf(F, 1)
<1>1. Len(F) \in Nat /\ 1 \in 1 .. Len(F) + 1 /\ Len(F) = Len(F) - 1 + 1
  OBVIOUS
<1>2. \A i \in 1 .. Len(F) : 1 + i - 1 = i
  BY <1>1
<1>3. QED  BY <1>1, <1>2 DEF LeftOf

LEMMA LeftOfNone ==
  ASSUME NEW F, NEW k, LeftOf(F, k), F \in Seq(OpType), todo = << >>
  PROVE  k = Len(F) + 1
<1>1. Len(F) \in Nat /\ Len(todo) = 0 /\ k \in 1 .. Len(F) + 1 /\ Len(todo) = Len(F) - k + 1
  BY DEF LeftOf
<1>2. QED  BY <1>1

-----------------------------------------------------------------------------
(***************************************************************************)
(* What one operation does to the directory and its tables.                *)
(***************************************************************************)
OpStep == AssertWorkspace \/ Read \/ Remove \/ Create \/ Ensure

\* What stays: every good file the operation does not remove, and the absence
\* of every name it does not create.
Kept(op) ==
    /\ \A name \in Names :
         Good(name) /\ ~(op.what = "remove" /\ op.name = name) => Good(name)'
    /\ \A name \in Names :
         /\ name \notin DOMAIN artifacts
         /\ ~(op.what \in {"create", "ensure"} /\ op.name = name)
         => name \notin DOMAIN artifacts'

\* What an operation that succeeds has achieved.
Achieves(op) ==
    /\ op.what = "assert" => WorkspaceIntact'
    /\ op.what \in {"create", "ensure"} => Good(op.name)'
    /\ op.what = "remove" => op.name \notin DOMAIN artifacts'

Effect(op) ==
    /\ RegistryOK' /\ Kept(op)
    /\ \/ Proceed /\ Achieves(op)
       \/ Raise

LEMMA ReadEffect ==
  ASSUME NEW op, RegistryOK, ReadArtifact(op.name), op.what \in {"read", "ensure"}
  PROVE  Effect(op)
<1>1. UNCHANGED <<disk, artifacts, handles, created>>
  BY DEF ReadArtifact, registry
<1>2. RegistryOK'
  BY <1>1 DEF RegistryOK
<1>3. Kept(op)
  BY <1>1 DEF Kept, Good, Holds
<1>4. \/ Good(op.name) /\ Proceed
      \/ Raise
  BY DEF ReadArtifact, SafeMember, Good, Holds
<1>5. Good(op.name) => Good(op.name)'
  BY <1>1 DEF Good, Holds
<1>6. QED  BY <1>2, <1>3, <1>4, <1>5 DEF Effect, Achieves

LEMMA AssertEffect ==
  ASSUME NEW op, RegistryOK, AssertWorkspace, op.what = "assert"
  PROVE  Effect(op)
<1>1. UNCHANGED <<disk, artifacts, handles, created>>
  BY DEF AssertWorkspace, registry
<1>2. RegistryOK'
  BY <1>1 DEF RegistryOK
<1>3. Kept(op)
  BY <1>1 DEF Kept, Good, Holds
<1>4. \/ WorkspaceIntact /\ Proceed
      \/ Raise
  BY DEF AssertWorkspace
<1>5. WorkspaceIntact => WorkspaceIntact'
  BY <1>1 DEF WorkspaceIntact
<1>6. QED  BY <1>2, <1>3, <1>4, <1>5 DEF Effect, Achieves

LEMMA RemoveEffect ==
  ASSUME NEW op, RegistryOK, RemoveArtifact(op.name), UNCHANGED created,
         op.what = "remove"
  PROVE  Effect(op)
<1>1. CASE UNCHANGED <<disk, artifacts, handles>> /\
           (Raise \/ (op.name \notin DOMAIN artifacts /\ Proceed))
  <2>1. RegistryOK' /\ Kept(op)
    BY <1>1 DEF RegistryOK, Kept, Good, Holds
  <2>2. QED  BY <1>1, <2>1 DEF Effect, Achieves
<1>2. CASE /\ op.name \in DOMAIN artifacts
           /\ disk' = disk \ {artifacts[op.name]}
           /\ handles' = Without(handles, artifacts[op.name])
           /\ artifacts' = Without(artifacts, op.name)
           /\ Proceed
  <2>1. DOMAIN artifacts' = DOMAIN artifacts \ {op.name}
        /\ \A m \in DOMAIN artifacts' : artifacts'[m] = artifacts[m]
    BY <1>2 DEF Without
  <2>2. DOMAIN handles' = DOMAIN handles \ {artifacts[op.name]}
        /\ \A file \in DOMAIN handles' : handles'[file] = handles[file]
    BY <1>2 DEF Without
  <2>3. RegistryOK'
    <3>1. DOMAIN handles' = {artifacts'[name] : name \in DOMAIN artifacts'}
      BY <1>2, <2>1, <2>2 DEF RegistryOK
    <3>2. artifacts' \in [DOMAIN artifacts' -> 1 .. created']
          /\ handles' \in [DOMAIN handles' -> BOOLEAN]
      BY <1>2, <2>1, <2>2 DEF RegistryOK, Without
    <3>3. QED  BY <1>2, <2>1, <3>1, <3>2 DEF RegistryOK
  <2>4. ASSUME NEW name \in Names, Good(name), op.name # name
        PROVE  Good(name)'
    <3>1. name \in DOMAIN artifacts' /\ artifacts'[name] = artifacts[name]
      BY <2>1, <2>4 DEF Good, Holds
    <3>2. artifacts[name] # artifacts[op.name] /\ artifacts[name] \in DOMAIN handles
      BY <1>2, <2>4 DEF RegistryOK, Good, Holds
    <3>3. QED  BY <1>2, <2>2, <2>4, <3>1, <3>2 DEF Good, Holds
  <2>5. Kept(op)
    BY <2>1, <2>4 DEF Kept
  <2>6. QED  BY <1>2, <2>1, <2>3, <2>5 DEF Effect, Achieves
<1>3. CASE /\ op.name \in DOMAIN artifacts
           /\ handles' = [handles EXCEPT ![artifacts[op.name]] = FALSE]
           /\ Raise
           /\ UNCHANGED <<disk, artifacts>>
  <2>1. DOMAIN handles' = DOMAIN handles /\ handles' \in [DOMAIN handles' -> BOOLEAN]
    BY <1>3 DEF RegistryOK
  <2>2. RegistryOK'
    BY <1>3, <2>1 DEF RegistryOK
  <2>3. ASSUME NEW name \in Names, Good(name), op.name # name
        PROVE  Good(name)'
    <3>1. artifacts[name] # artifacts[op.name] /\ artifacts[name] \in DOMAIN handles
      BY <1>3, <2>3 DEF RegistryOK, Good, Holds
    <3>2. QED  BY <1>3, <2>3, <3>1 DEF Good, Holds
  <2>4. Kept(op)
    BY <1>3, <2>3 DEF Kept
  <2>5. QED  BY <1>3, <2>2, <2>4 DEF Effect
<1>4. CASE UNCHANGED <<disk, registry>> /\ op.name \notin DOMAIN artifacts /\ Proceed
  BY <1>1, <1>4 DEF registry
<1>5. CASE UNCHANGED <<disk, registry>> /\ Raise
  BY <1>1, <1>5 DEF registry
<1>6. QED  BY <1>2, <1>3, <1>4, <1>5 DEF RemoveArtifact

LEMMA CreateEffect ==
  ASSUME NEW op, RegistryOK, CreateMember(op.name), op.what \in {"create", "ensure"},
         op.name \in Names
  PROVE  Effect(op)
<1>1. CASE Raise /\ UNCHANGED <<disk, artifacts, handles, created>>
  <2>1. RegistryOK' /\ Kept(op)
    BY <1>1 DEF RegistryOK, Kept, Good, Holds
  <2>2. QED  BY <1>1, <2>1 DEF Effect
<1>2. CASE /\ Raise
           /\ created' = created + 1
           /\ disk' = disk \cup {created + 1}
           /\ UNCHANGED <<artifacts, handles>>
  <2>1. RegistryOK'
    BY <1>2 DEF RegistryOK
  <2>2. Kept(op)
    BY <1>2 DEF Kept, Good, Holds
  <2>3. QED  BY <1>2, <2>1, <2>2 DEF Effect
<1>3. CASE /\ MayCreate(op.name)
           /\ created' = created + 1
           /\ disk' = disk \cup {created + 1}
           /\ artifacts' = With(artifacts, op.name, created + 1)
           /\ handles' = With(handles, created + 1, TRUE)
           /\ Proceed
  <2>1. DOMAIN artifacts' = DOMAIN artifacts \cup {op.name}
        /\ artifacts'[op.name] = created + 1
        /\ \A m \in DOMAIN artifacts : artifacts'[m] = artifacts[m]
    BY <1>3 DEF With, MayCreate
  <2>2. created + 1 \notin DOMAIN handles
    BY DEF RegistryOK
  <2>3. DOMAIN handles' = DOMAIN handles \cup {created + 1}
        /\ handles'[created + 1] = TRUE
        /\ \A file \in DOMAIN handles : handles'[file] = handles[file]
    BY <1>3, <2>2 DEF With
  <2>4. RegistryOK'
    <3>1. DOMAIN handles' = {artifacts'[name] : name \in DOMAIN artifacts'}
      <4>1. op.name \notin DOMAIN artifacts
            /\ DOMAIN handles = {artifacts[name] : name \in DOMAIN artifacts}
        BY <1>3 DEF RegistryOK, MayCreate
      <4>2. ASSUME NEW file \in DOMAIN handles'
            PROVE  file \in {artifacts'[name] : name \in DOMAIN artifacts'}
        BY <2>1, <2>3, <4>1
      <4>3. ASSUME NEW name \in DOMAIN artifacts'
            PROVE  artifacts'[name] \in DOMAIN handles'
        BY <2>1, <2>3, <4>1
      <4>4. QED  BY <4>2, <4>3
    <3>2. artifacts' \in [DOMAIN artifacts' -> 1 .. created']
      BY <1>3, <2>1 DEF RegistryOK, With
    <3>3. handles' \in [DOMAIN handles' -> BOOLEAN]
      BY <1>3, <2>3 DEF RegistryOK, With
    <3>4. \A m, n \in DOMAIN artifacts' : artifacts'[m] = artifacts'[n] => m = n
      <4>1. \A m \in DOMAIN artifacts : artifacts[m] \in 1 .. created
        BY DEF RegistryOK
      <4>2. \A m \in DOMAIN artifacts : artifacts'[m] # created + 1
        BY <2>1, <4>1 DEF RegistryOK
      <4>3. QED  BY <2>1, <4>2 DEF RegistryOK
    <3>5. created' \in Nat /\ disk' \subseteq 1 .. created' /\ DOMAIN artifacts' \subseteq Names
      BY <1>3, <2>1 DEF RegistryOK
    <3>6. QED  BY <3>1, <3>2, <3>3, <3>4, <3>5 DEF RegistryOK
  <2>5. Good(op.name)'
    BY <1>3, <2>1, <2>3 DEF Good, Holds
  <2>6. ASSUME NEW name \in Names, Good(name) PROVE Good(name)'
    <3>1. artifacts[name] \in DOMAIN handles
      BY <2>6 DEF RegistryOK, Good, Holds
    <3>2. QED  BY <1>3, <2>1, <2>3, <2>6, <3>1 DEF Good, Holds
  <2>7. Kept(op)
    BY <2>1, <2>6 DEF Kept
  <2>8. QED  BY <1>3, <2>4, <2>5, <2>7 DEF Effect, Achieves
<1>4. QED  BY <1>1, <1>2, <1>3 DEF CreateMember, registry

LEMMA OpEffect ==
  ASSUME RegistryOK, Head(todo) \in OpType, OpStep
  PROVE  todo # << >> /\ Effect(Head(todo))
<1>1. todo # << >> /\ Head(todo).name \in Names
  BY DEF OpStep, AssertWorkspace, Read, Remove, Create, Ensure, Doing, OpType
<1>2. CASE AssertWorkspace
  BY <1>1, <1>2, AssertEffect DEF AssertWorkspace, Doing
<1>3. CASE Read
  BY <1>1, <1>3, ReadEffect DEF Read, Doing
<1>4. CASE Remove
  BY <1>1, <1>4, RemoveEffect DEF Remove, Doing
<1>5. CASE Create
  BY <1>1, <1>5, CreateEffect DEF Create, Doing
<1>6. CASE Ensure
  BY <1>1, <1>6, ReadEffect, CreateEffect DEF Ensure, Doing
<1>7. QED  BY <1>2, <1>3, <1>4, <1>5, <1>6 DEF OpStep

-----------------------------------------------------------------------------
(***************************************************************************)
(* The operations of a playbook.                                           *)
(***************************************************************************)
\* A fixture is never removed; every plan ends with the check of the directory.
LEMMA PlanFacts ==
  ASSUME NEW p \in PLAYBOOK_NAMES, NEW F, F = Plan(p)
  PROVE  /\ F \in Seq(OpType) /\ Len(F) \in Nat /\ Len(F) > 2
         /\ \A i \in 1 .. Len(F) : F[i].what = "remove" => F[i].name \notin Fixtures
         /\ F[Len(F)].what = "assert"
<1>1. MANIFEST \notin Fixtures /\ CANARY \notin Fixtures
  BY DEF Fixtures, MANIFEST, CANARY
<1>2. CASE p = "DISCOVERY_FIXTURES"
  <2>1. F \in Seq(OpType) /\ Len(F) = 5 /\ F[5].what = "assert"
        /\ \A i \in 1 .. 5 : F[i].what \in {"assert", "read"}
    BY <1>2, PlanDiscovery
  <2>2. QED  BY <2>1
<1>3. CASE p = "COLLECT_AND_STAGE"
  <2>1. \A i \in 1 .. 7 : i = 1 \/ i = 2 \/ i = 3 \/ i = 4 \/ i = 5 \/ i = 6 \/ i = 7
    OBVIOUS
  <2>2. /\ F \in Seq(OpType) /\ Len(F) = 7
        /\ F[2].name = MANIFEST /\ F[7].what = "assert"
        /\ \A i \in 1 .. 7 : i # 2 => F[i].what # "remove"
    BY <1>3, <2>1, PlanCollect
  <2>3. Len(F) \in Nat /\ Len(F) > 2 /\ F[Len(F)].what = "assert"
    BY <2>2
  <2>4. ASSUME NEW i \in 1 .. 7, F[i].what = "remove" PROVE F[i].name \notin Fixtures
    <3>1. i = 2
      BY <2>2, <2>4
    <3>2. QED  BY <1>1, <2>2, <3>1
  <2>5. QED  BY <2>2, <2>3, <2>4
<1>4. CASE p = "CREATE_CANARY"
  <2>1. \A i \in 1 .. 3 : i = 1 \/ i = 2 \/ i = 3
    OBVIOUS
  <2>2. QED  BY <1>1, <1>4, <2>1, PlanCanary
<1>5. CASE p = "CLEANUP"
  <2>1. \A i \in 1 .. 4 : i = 1 \/ i = 2 \/ i = 3 \/ i = 4
    OBVIOUS
  <2>2. QED  BY <1>1, <1>5, <2>1, PlanCleanup
<1>6. QED  BY <1>2, <1>3, <1>4, <1>5 DEF PLAYBOOK_NAMES

\* A successful operation takes a playbook from its k-th operation to the next.
LEMMA AchievedNext ==
  ASSUME NEW p \in PLAYBOOK_NAMES, NEW F, F = Plan(p), NEW k \in 1 .. Len(F),
         Achieved(p, k), Kept(F[k]), Achieves(F[k])
  PROVE  Achieved(p, k + 1)'
<1>1. F \in Seq(OpType) /\ Len(F) \in Nat /\ Len(F) > 2 /\ F[Len(F)].what = "assert"
  BY PlanFacts
<1>2. MANIFEST \in Names /\ CANARY \in Names /\ MANIFEST # CANARY
  BY DEF Names, MANIFEST, CANARY
<1>3. k + 1 > Len(F) => WorkspaceIntact'
  <2>1. k + 1 > Len(F) => k = Len(F)
    BY <1>1
  <2>2. QED  BY <1>1, <2>1 DEF Achieves
<1>4. ASSUME p = "COLLECT_AND_STAGE", k + 1 > 6 PROVE Good(MANIFEST)'
  <2>1. F[6].what = "create" /\ F[6].name = MANIFEST /\ F[7].what = "assert" /\ Len(F) = 7
    BY <1>4, PlanCollect
  <2>2. k = 6 \/ k = 7
    BY <1>4, <2>1
  <2>3. CASE k = 6
    BY <2>1, <2>3 DEF Achieves
  <2>4. CASE k = 7
    BY <1>2, <1>4, <2>1, <2>4 DEF Achieved, Kept
  <2>5. QED  BY <2>2, <2>3, <2>4
<1>5. ASSUME p = "CREATE_CANARY", k + 1 > 2 PROVE Good(CANARY)'
  <2>1. F[2].what = "ensure" /\ F[2].name = CANARY /\ F[3].what = "assert" /\ Len(F) = 3
    BY <1>5, PlanCanary
  <2>2. k = 2 \/ k = 3
    BY <1>5, <2>1
  <2>3. CASE k = 2
    BY <2>1, <2>3 DEF Achieves
  <2>4. CASE k = 3
    BY <1>2, <1>5, <2>1, <2>4 DEF Achieved, Kept
  <2>5. QED  BY <2>2, <2>3, <2>4
<1>6. ASSUME p = "CLEANUP"
      PROVE  /\ k + 1 > 2 => MANIFEST \notin DOMAIN artifacts'
             /\ k + 1 > 3 => CANARY \notin DOMAIN artifacts'
  <2>1. /\ F[2].what = "remove" /\ F[2].name = MANIFEST
        /\ F[3].what = "remove" /\ F[3].name = CANARY /\ F[4].what = "assert" /\ Len(F) = 4
    BY <1>6, PlanCleanup
  <2>2. k = 1 \/ k = 2 \/ k = 3 \/ k = 4
    BY <2>1
  <2>3. CASE k = 1
    BY <2>3
  <2>4. CASE k = 2
    BY <2>1, <2>4 DEF Achieves
  <2>5. CASE k = 3
    BY <1>2, <1>6, <2>1, <2>5 DEF Achieved, Achieves, Kept
  <2>6. CASE k = 4
    BY <1>2, <1>6, <2>1, <2>6 DEF Achieved, Kept
  <2>7. QED  BY <2>2, <2>3, <2>4, <2>5, <2>6
<1>7. QED  BY <1>3, <1>4, <1>5, <1>6 DEF Achieved

LEMMA PlaybookStep ==
  ASSUME RegistryOK, mode = "open", OpenOK, OpStep
  PROVE  RegistryOK' /\ mode' = "open" /\ OpenOK'
<1>1. todo # << >>
  BY DEF OpStep, AssertWorkspace, Read, Remove, Create, Ensure, Doing
<1>2. PICK F, k : /\ playbook \in PLAYBOOK_NAMES /\ answer = "none"
                  /\ F = Plan(playbook) /\ k \in 1 .. Len(F) + 1
                  /\ LeftOf(F, k) /\ Achieved(playbook, k)
  BY <1>1 DEF OpenOK
<1>3. /\ F \in Seq(OpType) /\ Len(F) \in Nat
      /\ \A i \in 1 .. Len(F) : F[i].what = "remove" => F[i].name \notin Fixtures
  BY <1>2, PlanFacts
<1>4. k \in 1 .. Len(F) /\ Head(todo) = F[k] /\ Head(todo) \in OpType
  BY <1>1, <1>2, <1>3, LeftOfHead
<1>5. Effect(F[k])
  BY <1>4, OpEffect
<1>6. \A name \in Fixtures : Good(name)'
  <2>1. Fixtures \subseteq Names
    BY DEF Names
  <2>2. QED  BY <1>3, <1>4, <1>5, <2>1 DEF OpenOK, Effect, Kept
<1>7. CASE Proceed /\ Achieves(F[k])
  <2>1. LeftOf(F, k + 1)'
    BY <1>1, <1>2, <1>3, <1>7, LeftOfTail DEF Proceed
  <2>2. Achieved(playbook, k + 1)'
    BY <1>2, <1>4, <1>5, <1>7, AchievedNext DEF Effect, Proceed
  <2>3. k + 1 \in 1 .. Len(F) + 1
    BY <1>3, <1>4
  <2>4. UNCHANGED <<mode, playbook, answer>>
    BY <1>7 DEF Proceed
  <2>5. QED  BY <1>2, <1>5, <1>6, <2>1, <2>2, <2>3, <2>4 DEF OpenOK, Effect
<1>8. CASE Raise
  BY <1>5, <1>6, <1>8 DEF OpenOK, Effect, Raise
<1>9. QED  BY <1>5, <1>7, <1>8 DEF Effect

\* The construction, operation by operation.
LEMMA BuildingStep ==
  ASSUME RegistryOK, mode = "building", BuildingOK, OpStep
  PROVE  /\ RegistryOK'
         /\ \/ mode' = "building" /\ BuildingOK'
            \/ mode' = "failing" /\ IdleOK'
<1>1. todo # << >>
  BY DEF OpStep, AssertWorkspace, Read, Remove, Create, Ensure, Doing
<1>2. PICK F, k : /\ F = Building /\ k \in 1 .. 5 /\ LeftOf(F, k)
                  /\ k > 1 => Good("accounts")
                  /\ k > 2 => Good("planning")
                  /\ k > 3 => Good("telemetry")
  BY DEF BuildingOK
<1>3. F \in Seq(OpType) /\ Len(F) = 4
  BY <1>2, BuildingPlan
<1>4. k \in 1 .. Len(F) /\ Head(todo) = F[k] /\ Head(todo) \in OpType
  BY <1>1, <1>2, <1>3, LeftOfHead
<1>5. Effect(F[k])
  BY <1>4, OpEffect
<1>6. CASE Proceed /\ Achieves(F[k])
  <2>1. LeftOf(F, k + 1)'
    BY <1>1, <1>2, <1>3, <1>6, LeftOfTail DEF Proceed
  <2>2. k = 1 \/ k = 2 \/ k = 3 \/ k = 4
    BY <1>3, <1>4
  <2>3. "accounts" \in Names /\ "planning" \in Names /\ "telemetry" \in Names
    BY DEF Names, Fixtures
  <2>4. F[k].what # "remove"
    BY <1>2, <2>2, BuildingPlan
  <2>5. \A name \in Names : Good(name) => Good(name)'
    BY <1>5, <2>4 DEF Effect, Kept
  <2>6. /\ k = 1 => Good("accounts")'
        /\ k = 2 => Good("planning")'
        /\ k = 3 => Good("telemetry")'
    BY <1>2, <1>6, BuildingPlan DEF Achieves
  <2>7. /\ k + 1 \in 1 .. 5
        /\ k + 1 > 1 => Good("accounts")'
        /\ k + 1 > 2 => Good("planning")'
        /\ k + 1 > 3 => Good("telemetry")'
    BY <1>2, <2>2, <2>3, <2>5, <2>6
  <2>8. UNCHANGED <<mode, playbook, answer>>
    BY <1>6 DEF Proceed
  <2>9. BuildingOK'
    BY <1>2, <2>1, <2>7, <2>8 DEF BuildingOK
  <2>10. QED  BY <1>5, <2>8, <2>9 DEF Effect
<1>7. CASE Raise
  BY <1>5, <1>7 DEF BuildingOK, IdleOK, Effect, Raise
<1>8. QED  BY <1>5, <1>6, <1>7 DEF Effect

-----------------------------------------------------------------------------
(***************************************************************************)
(* The invariant.                                                          *)
(***************************************************************************)
\* A workspace that is about to be filled.
LEMMA Fresh ==
  ASSUME NEW c \in Nat, created' = c, Build
  PROVE  IInv'
<1>1. /\ DOMAIN artifacts' = {} /\ DOMAIN handles' = {} /\ disk' = {}
      /\ artifacts' \in [DOMAIN artifacts' -> 1 .. created']
      /\ handles' \in [DOMAIN handles' -> BOOLEAN]
  BY DEF Build
<1>2. RegistryOK'
  BY <1>1 DEF RegistryOK
<1>3. todo' = Building
  BY DEF Build, Building
<1>4. LeftOf(Building, 1)'
  <2>1. PICK F : F = Building /\ F \in Seq(OpType)
    BY BuildingPlan
  <2>2. LeftOf(F, 1)'
    <3>1. Len(F) \in Nat /\ 1 \in 1 .. Len(F) + 1 /\ Len(F) = Len(F) - 1 + 1
      BY <2>1
    <3>2. \A i \in 1 .. Len(F) : 1 + i - 1 = i
      BY <3>1
    <3>3. QED  BY <1>3, <2>1, <3>1, <3>2 DEF LeftOf
  <2>3. QED  BY <2>1, <2>2
<1>5. BuildingOK'
  BY <1>4 DEF Build, BuildingOK
<1>6. QED  BY <1>2, <1>5 DEF Build, IInv

LEMMA InitHolds == Init => IInv
<1>1. SUFFICES ASSUME Init PROVE IInv
  OBVIOUS
<1>2. /\ DOMAIN artifacts = {} /\ DOMAIN handles = {} /\ disk = {}
      /\ artifacts \in [DOMAIN artifacts -> 1 .. created]
      /\ handles \in [DOMAIN handles -> BOOLEAN]
  BY <1>1 DEF Init
<1>3. RegistryOK
  BY <1>1, <1>2 DEF Init, RegistryOK
<1>4. LeftOf(Building, 1)
  BY <1>1, BuildingPlan, LeftOfAll DEF Init, Building
<1>5. BuildingOK
  BY <1>1, <1>4 DEF Init, BuildingOK
<1>6. QED  BY <1>1, <1>3, <1>5 DEF Init, IInv

\* The invariant survives every step.
LEMMA NextHolds == IInv /\ [Next]_vars => IInv'
<1>1. SUFFICES ASSUME IInv, [Next]_vars PROVE IInv'
  OBVIOUS
<1>2. RegistryOK
  BY <1>1 DEF IInv
<1>3. CASE OpStep
  <2>1. todo # << >>
    BY <1>3 DEF OpStep, AssertWorkspace, Read, Remove, Create, Ensure, Doing
  <2>2. CASE mode = "building"
    <3>1. BuildingOK
      BY <1>1, <2>2 DEF IInv
    <3>2. QED  BY <1>2, <1>3, <2>2, <3>1, BuildingStep DEF IInv
  <2>3. CASE mode = "open"
    <3>1. OpenOK
      BY <1>1, <2>3 DEF IInv
    <3>2. QED  BY <1>2, <1>3, <2>3, <3>1, PlaybookStep DEF IInv
  <2>4. QED  BY <1>1, <2>1, <2>2, <2>3 DEF IInv, IdleOK
<1>4. CASE Opened
  <2>1. UNCHANGED <<disk, artifacts, handles, created>>
    BY <1>4 DEF Opened, registry
  <2>2. PICK F, k : /\ F = Building /\ LeftOf(F, k)
                    /\ k > 1 => Good("accounts")
                    /\ k > 2 => Good("planning")
                    /\ k > 3 => Good("telemetry")
                    /\ playbook = "none" /\ answer = "none"
    BY <1>1, <1>4 DEF IInv, Opened, BuildingOK
  <2>3. F \in Seq(OpType) /\ Len(F) = 4
    BY <2>2, BuildingPlan
  <2>4. k = 5
    <3>1. todo = << >>
      BY <1>4 DEF Opened
    <3>2. k = Len(F) + 1
      BY <2>2, <2>3, <3>1, LeftOfNone
    <3>3. QED  BY <2>3, <3>2
  <2>5. \A name \in Fixtures : Good(name)
    BY <2>2, <2>4 DEF Fixtures
  <2>6. OpenOK'
    BY <1>4, <2>1, <2>2, <2>5 DEF Opened, OpenOK, Good, Holds
  <2>7. QED  BY <1>2, <1>4, <2>1, <2>6 DEF Opened, IInv, RegistryOK
<1>5. CASE \E p \in PLAYBOOK_NAMES : Execute(p)
  <2>1. PICK p \in PLAYBOOK_NAMES : Execute(p)
    BY <1>5
  <2>2. UNCHANGED <<mode, disk, artifacts, handles, created>> /\ mode = "open"
    BY <2>1 DEF Execute, registry
  <2>3. PICK F : F = Plan(p) /\ F \in Seq(OpType) /\ Len(F) \in Nat /\ Len(F) > 2
    BY PlanFacts
  <2>4. todo' = F
    BY <2>1, <2>3 DEF Execute, Plan
  <2>5. LeftOf(F, 1)'
    <3>1. 1 \in 1 .. Len(F) + 1 /\ Len(F) = Len(F) - 1 + 1
      BY <2>3
    <3>2. \A i \in 1 .. Len(F) : 1 + i - 1 = i
      BY <2>3
    <3>3. QED  BY <2>3, <2>4, <3>1, <3>2 DEF LeftOf
  <2>6. Achieved(p, 1)'
    BY <2>3 DEF Achieved
  <2>7. OpenOK'
    <3>1. \A name \in Fixtures : Good(name)'
      BY <1>1, <2>2 DEF IInv, OpenOK, Good, Holds
    <3>2. playbook' = p /\ answer' = "none" /\ 1 \in 1 .. Len(F) + 1
      BY <2>1, <2>3 DEF Execute
    <3>3. QED  BY <2>3, <2>5, <2>6, <3>1, <3>2 DEF OpenOK
  <2>8. QED  BY <1>2, <2>2, <2>7 DEF IInv, RegistryOK
<1>6. CASE Return
  <2>1. /\ UNCHANGED <<mode, disk, artifacts, handles, created, playbook, todo>>
        /\ mode = "open" /\ playbook # "none" /\ answer' = "result" /\ todo = << >>
    BY <1>6 DEF Return, registry
  <2>2. PICK F, k : /\ playbook \in PLAYBOOK_NAMES
                    /\ F = Plan(playbook) /\ k \in 1 .. Len(F) + 1
                    /\ LeftOf(F, k) /\ Achieved(playbook, k)
    BY <1>1, <2>1 DEF IInv, OpenOK
  <2>3. LeftOf(F, k)' /\ Achieved(playbook, k)'
    BY <2>1, <2>2 DEF LeftOf, Achieved, Good, Holds, WorkspaceIntact
  <2>4. \A name \in Fixtures : Good(name)'
    BY <1>1, <2>1 DEF IInv, OpenOK, Good, Holds
  <2>5. OpenOK'
    BY <2>1, <2>2, <2>3, <2>4 DEF OpenOK
  <2>6. QED  BY <1>2, <2>1, <2>5 DEF IInv, RegistryOK
<1>7. CASE Taken
  <2>1. /\ UNCHANGED <<mode, disk, artifacts, handles, created, todo>>
        /\ answer = "result" /\ playbook' = "none" /\ answer' = "none"
    BY <1>7 DEF Taken, registry
  <2>2. mode = "open" /\ todo = << >>
    BY <1>1, <2>1 DEF IInv, BuildingOK, OpenOK, IdleOK
  <2>3. OpenOK'
    BY <1>1, <2>1, <2>2 DEF IInv, OpenOK, Good, Holds
  <2>4. QED  BY <1>2, <2>1, <2>2, <2>3 DEF IInv, RegistryOK
<1>8. CASE Rotate
  <2>1. created \in Nat /\ created' = created /\ Build
    BY <1>2, <1>8 DEF Rotate, RegistryOK
  <2>2. QED  BY <2>1, Fresh
<1>9. CASE Close
  <2>1. /\ mode' = "closed" /\ disk' = {} /\ created' = created
        /\ DOMAIN artifacts' = {} /\ DOMAIN handles' = {}
        /\ artifacts' \in [DOMAIN artifacts' -> 1 .. created']
        /\ handles' \in [DOMAIN handles' -> BOOLEAN]
    BY <1>9 DEF Close, Emptied
  <2>2. RegistryOK'
    BY <1>2, <2>1 DEF RegistryOK
  <2>3. IdleOK'
    BY <1>9 DEF Close, Emptied, IdleOK
  <2>4. QED  BY <2>1, <2>2, <2>3 DEF IInv
<1>10. CASE UNCHANGED vars
  <2>1. UNCHANGED <<mode, disk, artifacts, handles, created, playbook, todo, answer>>
    BY <1>10 DEF vars, registry
  <2>2. RegistryOK'
    BY <1>2, <2>1 DEF RegistryOK
  <2>3. BuildingOK => BuildingOK'
    BY <2>1 DEF BuildingOK, LeftOf, Good, Holds
  <2>4. OpenOK => OpenOK'
    <3>1. ASSUME NEW p, NEW k, LeftOf(Plan(p), k), Achieved(p, k)
          PROVE  LeftOf(Plan(p), k)' /\ Achieved(p, k)'
      BY <2>1, <3>1 DEF LeftOf, Achieved, Good, Holds, WorkspaceIntact
    <3>2. \A name \in Fixtures : Good(name) => Good(name)'
      BY <2>1 DEF Good, Holds
    <3>3. QED  BY <2>1, <3>1, <3>2 DEF OpenOK
  <2>5. IdleOK => IdleOK'
    BY <2>1 DEF IdleOK
  <2>6. QED  BY <1>1, <2>1, <2>2, <2>3, <2>4, <2>5 DEF IInv
<1>11. CASE Done
  BY <1>10, <1>11 DEF Done
<1>12. QED
  BY <1>1, <1>3, <1>4, <1>5, <1>6, <1>7, <1>8, <1>9, <1>10, <1>11 DEF Next, OpStep

\* The invariant gives what the workspace promises.
LEMMA InvariantGives == IInv => WorkspaceInv
<1>1. SUFFICES ASSUME IInv PROVE WorkspaceInv
  OBVIOUS
<1>2. RegistryOK
  BY <1>1 DEF IInv
<1>3. mode \in {"building", "failing", "open", "closed"}
  BY <1>1 DEF IInv
<1>4. /\ playbook \in PLAYBOOK_NAMES \cup {"none"}
      /\ answer \in {"result", "error", "none"}
  BY <1>1 DEF IInv, BuildingOK, OpenOK, IdleOK
<1>5. WorkspaceTypeOK
  BY <1>2, <1>3, <1>4 DEF RegistryOK, WorkspaceTypeOK
<1>6. FixturesSurvive
  BY <1>1 DEF IInv, OpenOK, FixturesSurvive, Good
<1>7. ASSUME answer = "result"
      PROVE  /\ Claimed(playbook)
             /\ \A name \in Fixtures : Holds(name)
             /\ disk = {artifacts[name] : name \in DOMAIN artifacts}
             /\ \A file \in disk : handles[file]
  <2>1. mode = "open" /\ todo = << >>
    BY <1>1, <1>7 DEF IInv, BuildingOK, OpenOK, IdleOK
  <2>2. PICK F, k : /\ playbook \in PLAYBOOK_NAMES
                    /\ F = Plan(playbook) /\ LeftOf(F, k) /\ Achieved(playbook, k)
    BY <1>1, <1>7, <2>1 DEF IInv, OpenOK
  <2>3. F \in Seq(OpType) /\ Len(F) \in Nat /\ k = Len(F) + 1
    BY <2>1, <2>2, PlanFacts, LeftOfNone
  <2>4. WorkspaceIntact
    BY <2>2, <2>3 DEF Achieved
  <2>5. Claimed(playbook)
    <3>1. CASE playbook = "DISCOVERY_FIXTURES"
      BY <3>1 DEF Claimed
    <3>2. CASE playbook = "COLLECT_AND_STAGE"
      <4>1. k = 8
        <5>1. F = Plan("COLLECT_AND_STAGE")
          BY <2>2, <3>2
        <5>2. Len(F) = 7
          BY <5>1, PlanCollect
        <5>3. QED  BY <2>3, <5>2
      <4>2. QED  BY <2>2, <3>2, <4>1 DEF Achieved, Claimed, Good
    <3>3. CASE playbook = "CREATE_CANARY"
      <4>1. k = 4
        <5>1. F = Plan("CREATE_CANARY")
          BY <2>2, <3>3
        <5>2. Len(F) = 3
          BY <5>1, PlanCanary
        <5>3. QED  BY <2>3, <5>2
      <4>2. QED  BY <2>2, <3>3, <4>1 DEF Achieved, Claimed, Good
    <3>4. CASE playbook = "CLEANUP"
      <4>1. k = 5
        <5>1. F = Plan("CLEANUP")
          BY <2>2, <3>4
        <5>2. Len(F) = 4
          BY <5>1, PlanCleanup
        <5>3. QED  BY <2>3, <5>2
      <4>2. QED  BY <2>2, <3>4, <4>1 DEF Achieved, Claimed, Holds
    <3>5. QED  BY <2>2, <3>1, <3>2, <3>3, <3>4 DEF PLAYBOOK_NAMES
  <2>6. QED  BY <1>2, <1>6, <2>1, <2>4, <2>5
            DEF WorkspaceIntact, RegistryOK, FixturesSurvive
<1>8. QED  BY <1>5, <1>6, <1>7 DEF WorkspaceInv, EvidenceIsTrue

\* What execute reports is true of the directory, the fixtures outlive every
\* playbook and every registered name leads to a file, whatever operations
\* failed before and whatever MAX_WORKSPACE_FILES is.
THEOREM WorkspaceHolds == Spec => []WorkspaceInv
<1>1. QED  BY InitHolds, NextHolds, InvariantGives, PTL DEF Spec
=============================================================================
