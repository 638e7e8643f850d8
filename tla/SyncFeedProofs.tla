--------------------------- MODULE SyncFeedProofs ---------------------------
(***************************************************************************)
(* What a reader of the feed is promised: no gaps, no mixture of processes *)
(* or of the time before and after a reset, and notes that a retry finds.  *)
(* The logs are numbered without gaps (Logged), a page is a contiguous     *)
(* part of a log (PageFacts), and merging such a page keeps what a reader  *)
(* shows gapless up to its cursor (Shown).                                 *)
(***************************************************************************)
EXTENDS SyncFeed, TLAPS, FiniteSetTheorems, SequenceTheorems, WellFoundedInduction

UsedKeys == {r.key : r \in NoteRequests} \cup {NoKey}

EntryType ==
  [stream : Nat, sequence : Nat,
   kind : {"activity", "lab.reset", "operator.note", "audit"}, key : UsedKeys]

(* A log of process s whose entries are numbered one by one up to latest. *)
Logged(log, latest, max, s) ==
  /\ log \in Seq(EntryType) /\ latest \in Nat
  /\ Len(log) <= max /\ Len(log) <= latest
  /\ \A k \in 1..Len(log) :
       log[k].sequence = latest - Len(log) + k /\ log[k].stream = s

(* A retained lab.reset is the first entry: reset clears the feed before. *)
ResetFirst(log) == \A k \in 1..Len(log) : log[k].kind = "lab.reset" => k = 1

-----------------------------------------------------------------------------
(* Bounded logs. *)

(* A nonempty set of positions has a least one. *)
LEMMA LeastPosition ==
  ASSUME NEW S \in SUBSET Nat, S # {}
  PROVE  \E x \in S : \A y \in S : x <= y
<1>1. IsWellFoundedOn(OpToRel(<, Nat), Nat)
  BY NatLessThanWellFounded
<1>2. PICK x \in S : \A y \in S : ~(<<y, x>> \in OpToRel(<, Nat))
  BY <1>1, WFMin
<1>3. ASSUME NEW y \in S, ~(x <= y) PROVE FALSE
  <2>1. y < x /\ x \in Nat /\ y \in Nat
    BY <1>3
  <2>2. <<y, x>> \in OpToRel(<, Nat)
    BY <2>1 DEF OpToRel
  <2>3. QED  BY <1>2, <2>2
<1>4. QED  BY <1>3

(* The last one of a nonempty set of positions in a log. *)
LEMMA LastPosition ==
  ASSUME NEW n \in Nat, NEW P \in SUBSET (1..n), P # {}
  PROVE  LastOf(P) \in P /\ \A j \in P : j <= LastOf(P)
<1> DEFINE S == {n - k : k \in P}
<1>1. S \in SUBSET Nat /\ S # {}
  <2>1. \A k \in P : k \in Nat /\ n - k \in Nat
    OBVIOUS
  <2>2. QED  BY <2>1
<1>2. PICK x \in S : \A y \in S : x <= y
  BY <1>1, LeastPosition
<1>3. PICK k \in P : x = n - k
  OBVIOUS
<1>4. ASSUME NEW j \in P PROVE j <= k
  <2>1. n - j \in S
    OBVIOUS
  <2>2. n - k <= n - j
    BY <1>2, <1>3, <2>1
  <2>3. j \in Nat /\ k \in Nat
    OBVIOUS
  <2>4. QED  BY <2>2, <2>3
<1>5. QED  BY <1>4 DEF LastOf

(* What an append to a bounded log keeps. *)
LEMMA AppendShape ==
  ASSUME NEW log \in Seq(EntryType), NEW entry \in EntryType, NEW max \in Nat \ {0},
         NEW new, new = AppendBounded(log, entry, max), Len(log) <= max
  PROVE  /\ new \in Seq(EntryType) /\ Len(new) \in Nat \ {0} /\ Len(new) <= max
         /\ new[Len(new)] = entry
         /\ \/ /\ Len(new) = Len(log) + 1 /\ \A k \in 1..Len(log) : new[k] = log[k]
            \/ /\ Len(new) = Len(log) /\ \A k \in 1..Len(log) - 1 : new[k] = log[k + 1]
<1>1. PICK n \in Nat : n = Len(log)
  BY LenProperties
<1>2. CASE n < max
  <2>1. new = Append(log, entry)
    BY <1>1, <1>2 DEF AppendBounded
  <2>2. /\ new \in Seq(EntryType) /\ Len(new) = n + 1
        /\ new[n + 1] = entry /\ \A k \in 1..n : new[k] = log[k]
    BY <1>1, <2>1, AppendProperties
  <2>3. QED  BY <1>1, <1>2, <2>2
<1>3. CASE ~(n < max)
  <2>1. new = Append(Tail(log), entry) /\ n = max /\ log # <<>>
    BY <1>1, <1>3, LenProperties, EmptySeq DEF AppendBounded
  <2>2. PICK t : t = Tail(log)
    OBVIOUS
  <2>3. t \in Seq(EntryType) /\ Len(t) = n - 1 /\ \A k \in 1..n - 1 : t[k] = log[k + 1]
    BY <1>1, <2>1, <2>2, HeadTailProperties
  <2>4. /\ new \in Seq(EntryType) /\ Len(new) = n - 1 + 1
        /\ new[n - 1 + 1] = entry /\ \A k \in 1..n - 1 : new[k] = t[k]
    BY <2>1, <2>2, <2>3, AppendProperties
  <2>5. n - 1 + 1 = n /\ n \in Nat \ {0}
    BY <2>1
  <2>6. QED  BY <1>1, <2>1, <2>3, <2>4, <2>5
<1>4. QED  BY <1>2, <1>3

(* A log stays numbered when its next entry is appended; what it retains was
   there before. *)
LEMMA AppendLogged ==
  ASSUME NEW log, NEW latest, NEW max \in Nat \ {0}, NEW s, Logged(log, latest, max, s),
         NEW entry \in EntryType, entry.sequence = latest + 1, entry.stream = s,
         NEW new, new = AppendBounded(log, entry, max)
  PROVE  /\ Logged(new, latest + 1, max, s)
         /\ Len(new) >= 1 /\ new[Len(new)] = entry
         /\ \A k \in 1..Len(new) - 1 : \E j \in 1..Len(log) : new[k] = log[j] /\ k <= j
<1>1. PICK n \in Nat, l \in Nat : n = Len(log) /\ l = latest /\ n <= max /\ n <= l
  BY LenProperties DEF Logged
<1>2. \A k \in 1..n : log[k].sequence = l - n + k /\ log[k].stream = s
  BY <1>1 DEF Logged
<1>3. /\ new \in Seq(EntryType) /\ Len(new) \in Nat \ {0} /\ Len(new) <= max
      /\ new[Len(new)] = entry
      /\ \/ Len(new) = n + 1 /\ \A k \in 1..n : new[k] = log[k]
         \/ Len(new) = n /\ \A k \in 1..n - 1 : new[k] = log[k + 1]
  BY <1>1, AppendShape DEF Logged
<1>4. PICK m \in Nat \ {0} : m = Len(new)
  BY <1>3
<1>5. /\ m <= l + 1
      /\ \A k \in 1..m - 1 : \E j \in 1..n :
           new[k] = log[j] /\ k <= j /\ l - n + j = (l + 1) - m + k
  <2>1. CASE m = n + 1 /\ \A k \in 1..n : new[k] = log[k]
    BY <1>1, <2>1
  <2>2. CASE m = n /\ \A k \in 1..n - 1 : new[k] = log[k + 1]
    <3>1. ASSUME NEW k \in 1..m - 1
          PROVE  k + 1 \in 1..n /\ new[k] = log[k + 1] /\ l - n + (k + 1) = (l + 1) - m + k
      BY <1>1, <2>2
    <3>2. QED  BY <1>1, <2>2, <3>1
  <2>3. QED  BY <1>3, <1>4, <2>1, <2>2
<1>6. ASSUME NEW k \in 1..m
      PROVE  new[k].sequence = (l + 1) - m + k /\ new[k].stream = s
  <2>1. CASE k = m
    BY <1>1, <1>3, <1>4, <2>1
  <2>2. CASE k # m
    BY <1>2, <1>5, <2>2
  <2>3. QED  BY <2>1, <2>2
<1>7. Logged(new, l + 1, max, s)
  <2>1. l + 1 \in Nat /\ m <= max
    BY <1>3, <1>4
  <2>2. QED  BY <1>3, <1>4, <1>5, <1>6, <2>1 DEF Logged
<1>8. Len(new) >= 1 /\ new[Len(new)] = entry
  BY <1>3, <1>4
<1>9. \A k \in 1..Len(new) - 1 : \E j \in 1..Len(log) : new[k] = log[j] /\ k <= j
  BY <1>1, <1>4, <1>5
<1>10. QED  BY <1>1, <1>7, <1>8, <1>9

-----------------------------------------------------------------------------
(* One page of sync. *)

(* What a page brings to a reader whose cursor stands at after: either what
   follows its cursor without a gap, or a stretch of the log to start from. *)
PageFacts(log, after, latest, d) ==
  /\ d.reset \in BOOLEAN /\ d.cursor \in Nat /\ d.cursor <= latest
  /\ d.entries \subseteq Range(log)
  /\ \A e \in d.entries : e.sequence <= d.cursor
  /\ d.reset => UpTo(d.entries, d.cursor)
  /\ ~d.reset => /\ after <= d.cursor
                 /\ \A e \in d.entries : after < e.sequence
                 /\ \A q \in (after + 1)..d.cursor : q \in Sequences(d.entries)
  /\ d.more => d.cursor # after

(* The selected positions are the first ones of the candidates. *)
LEMMA SelectedPositions ==
  ASSUME NEW n \in Nat, NEW P \in SUBSET (1..n)
  PROVE  /\ Selected(P) \subseteq P
         /\ \A k \in Selected(P) : \A j \in P : j < k => j \in Selected(P)
         /\ P # {} => Selected(P) # {}
<1>1. Selected(P) \subseteq P
  BY DEF Selected
<1> DEFINE Before(k) == {j \in P : j < k}
<1>2. ASSUME NEW k \in P
      PROVE  IsFiniteSet(Before(k)) /\ Cardinality(Before(k)) \in Nat
  <2>1. IsFiniteSet(1..n)
    BY FS_Interval
  <2>2. Before(k) \in SUBSET (1..n)
    OBVIOUS
  <2>3. QED  BY <2>1, <2>2, FS_Subset, FS_CardinalityType
<1>3. ASSUME NEW k \in Selected(P), NEW j \in P, j < k PROVE j \in Selected(P)
  <2>1. k \in P /\ Cardinality(Before(k)) < SYNC_PAGE_SIZE
    BY DEF Selected
  <2>2. Before(j) \in SUBSET Before(k)
    <3>1. \A i \in P : i \in Nat
      OBVIOUS
    <3>2. j \in Nat /\ k \in Nat
      BY <2>1, <3>1
    <3>3. ASSUME NEW i \in P, i < j PROVE i < k
      BY <1>3, <3>1, <3>2, <3>3
    <3>4. QED  BY <3>3
  <2>3. Cardinality(Before(j)) <= Cardinality(Before(k))
    BY <1>2, <2>1, <2>2, FS_Subset
  <2>4. Cardinality(Before(j)) < SYNC_PAGE_SIZE
    BY <1>2, <2>1, <2>3, FeedAssumption
  <2>5. QED  BY <2>4 DEF Selected
<1>4. ASSUME P # {} PROVE Selected(P) # {}
  <2>1. P \in SUBSET Nat
    OBVIOUS
  <2>2. PICK x \in P : \A y \in P : x <= y
    BY <1>4, <2>1, LeastPosition
  <2>3. Before(x) = {}
    <3>1. \A y \in P : y \in Nat /\ ~(y < x)
      BY <2>1, <2>2
    <3>2. QED  BY <3>1
  <2>4. Cardinality(Before(x)) = 0
    BY <2>3, FS_EmptySet
  <2>5. QED  BY <2>4, FeedAssumption DEF Selected
<1>5. QED  BY <1>1, <1>3, <1>4

(* history_delta on a numbered log. *)
LEMMA PageIsContiguous ==
  ASSUME NEW log, NEW latest, NEW max, NEW s, Logged(log, latest, max, s),
         NEW after \in Nat, after <= latest,
         NEW floor \in Nat, floor = 0 \/ (Len(log) >= 1 /\ floor = log[1].sequence),
         NEW d, d = Delta(log, after, latest, floor)
  PROVE  PageFacts(log, after, latest, d)
<1>1. PICK n \in Nat, l \in Nat : n = Len(log) /\ l = latest /\ n <= l
  BY LenProperties DEF Logged
<1>2. \A k \in 1..n : log[k].sequence = l - n + k
  BY <1>1 DEF Logged
<1>3. log \in Seq(EntryType)
  BY DEF Logged
<1>4. PICK over \in BOOLEAN : over = ResetRequired(log, after, latest, floor)
  BY DEF ResetRequired
<1>5. Earliest(log, latest) = l - n + 1
  <2>1. CASE n = 0
    <3>1. log = <<>>
      BY <1>1, <1>3, <2>1, EmptySeq
    <3>2. l + 1 = l - n + 1
      BY <2>1
    <3>3. QED  BY <1>1, <3>1, <3>2 DEF Earliest
  <2>2. CASE n # 0
    <3>1. log # <<>>
      BY <1>1, <2>2
    <3>2. QED  BY <1>1, <1>2, <2>2, <3>1 DEF Earliest
  <2>3. QED  BY <2>1, <2>2
<1>6. over <=> after < l - n \/ after < floor
  <2>1. over <=> after > l \/ after + 1 < l - n + 1 \/ after < floor
    BY <1>1, <1>4, <1>5 DEF ResetRequired
  <2>2. ~(after > l) /\ (after + 1 < l - n + 1 <=> after < l - n)
    BY <1>1
  <2>3. QED  BY <2>1, <2>2
<1>7. over => \A k \in 1..n : after < log[k].sequence
  BY <1>1, <1>2, <1>6
<1>8. PICK P, S : P = Candidates(log, after, over) /\ S = Selected(P)
  OBVIOUS
<1>9. /\ P \in SUBSET (1..n)
      /\ \A k \in 1..n : k \in P <=> over \/ after < l - n + k
      /\ \A k \in P : after < l - n + k
  BY <1>1, <1>2, <1>7, <1>8 DEF Candidates
<1>10. /\ S \subseteq P /\ \A k \in S : \A j \in P : j < k => j \in S
       /\ P # {} => S # {}
  BY <1>8, <1>9, SelectedPositions
<1>11. /\ d.entries = {log[k] : k \in S} /\ d.reset = over /\ d.more = (S # P)
       /\ d.cursor = IF S = {} THEN latest ELSE log[LastOf(S)].sequence
  BY <1>4, <1>8 DEF Delta
<1>12. d.entries \subseteq Range(log)
  <2>1. DOMAIN log = 1..n
    BY <1>1, <1>3, LenProperties
  <2>2. QED  BY <1>9, <1>10, <1>11, <2>1 DEF Range
<1>13. Sequences(d.entries) = {l - n + k : k \in S}
  <2>1. \A k \in S : log[k].sequence = l - n + k
    BY <1>2, <1>9, <1>10
  <2>2. QED  BY <1>11, <2>1 DEF Sequences
<1>14. CASE S = {}
  <2>1. d.entries = {} /\ d.cursor = l /\ ~d.more
    BY <1>1, <1>10, <1>11, <1>14
  <2>2. ASSUME ~over PROVE after = l
    <3>1. CASE n = 0
      BY <1>1, <1>6, <2>2, <3>1
    <3>2. CASE n # 0
      <4>1. n \in 1..n /\ n \notin P
        BY <1>10, <1>14, <3>2
      <4>2. ~(after < l - n + n)
        BY <1>9, <4>1
      <4>3. QED  BY <1>1, <4>2
    <3>3. QED  BY <3>1, <3>2
  <2>3. Sequences(d.entries) = {} /\ UpTo(d.entries, d.cursor)
    BY <2>1 DEF UpTo, Sequences
  <2>4. ~over => (after + 1)..d.cursor = {} /\ after <= d.cursor
    BY <2>1, <2>2
  <2>5. d.reset = over /\ d.cursor \in Nat /\ d.cursor <= latest
    BY <1>1, <1>11, <2>1
  <2>6. QED  BY <1>12, <2>1, <2>3, <2>4, <2>5 DEF PageFacts
<1>15. CASE S # {}
  <2>1. S \in SUBSET (1..n)
    BY <1>9, <1>10
  <2>2. PICK m \in S : m = LastOf(S) /\ \A j \in S : j <= m
    BY <1>15, <2>1, LastPosition
  <2>3. m \in 1..n /\ d.cursor = l - n + m /\ after < l - n + m
    BY <1>2, <1>9, <1>10, <1>11, <1>15, <2>1, <2>2
  <2>4. PICK c \in Nat : c = d.cursor /\ c = l - n + m /\ c <= l /\ after < c
    <3>1. m \in Nat /\ 1 <= m /\ m <= n
      BY <2>3
    <3>2. l - n + m \in Nat /\ l - n + m <= l
      BY <1>1, <3>1
    <3>3. QED  BY <2>3, <3>2
  <2>5. \A j \in P : j <= m => j \in S
    <3>1. m \in Nat /\ \A j \in P : j \in Nat
      BY <1>9, <2>3
    <3>2. QED  BY <1>10, <2>2, <3>1
  <2>6. ASSUME NEW e \in d.entries PROVE e.sequence <= c /\ after < e.sequence
    <3>1. PICK k \in S : e = log[k]
      BY <1>11
    <3>2. e.sequence = l - n + k /\ k <= m /\ k \in P
      BY <1>2, <1>10, <2>1, <2>2, <3>1
    <3>3. QED  BY <1>1, <1>9, <2>1, <2>3, <2>4, <3>2
  <2>7. ASSUME over PROVE UpTo(d.entries, d.cursor)
    <3>1. ASSUME NEW q \in 1..c, q \notin Sequences(d.entries),
                 NEW t \in Sequences(d.entries), ~(q < t)
          PROVE  FALSE
      <4>1. PICK k \in S : t = l - n + k
        BY <1>13
      <4>2. PICK j \in Int : j = q - (l - n)
        <5>1. q \in Int /\ l - n \in Int
          BY <1>1
        <5>2. QED  BY <5>1
      <4>3. j \in 1..n /\ j <= m /\ q = l - n + j
        BY <1>1, <2>1, <2>3, <2>4, <3>1, <4>1, <4>2
      <4>4. j \in S
        BY <1>9, <2>5, <2>7, <4>3
      <4>5. QED  BY <1>13, <3>1, <4>3, <4>4
    <3>2. QED  BY <2>4, <3>1 DEF UpTo
  <2>8. ASSUME ~over, NEW q \in (after + 1)..c PROVE q \in Sequences(d.entries)
    <3>1. PICK j \in Int : j = q - (l - n)
      <4>1. q \in Int /\ l - n \in Int
        BY <1>1
      <4>2. QED  BY <4>1
    <3>2. j \in 1..n /\ j <= m /\ q = l - n + j /\ after < l - n + j
      BY <1>1, <1>6, <2>3, <2>4, <2>8, <3>1
    <3>3. j \in S
      BY <1>9, <2>5, <3>2
    <3>4. QED  BY <1>13, <3>2, <3>3
  <2>9. QED  BY <1>1, <1>11, <1>12, <2>4, <2>6, <2>7, <2>8 DEF PageFacts
<1>16. QED  BY <1>14, <1>15

-----------------------------------------------------------------------------
(* What a reader shows. *)

(* One entry per sequence number. *)
OneEach(h) == \A d, e \in h : d.sequence = e.sequence => d = e

(* Entries of the process s, without a gap up to cursor c. *)
Shown(h, c, s) ==
  /\ h \subseteq EntryType /\ IsFiniteSet(h) /\ OneEach(h)
  /\ c \in Nat /\ UpTo(h, c)
  /\ \A e \in h : e.stream = s /\ e.sequence <= c
  /\ Cardinality(h) <= MAX_HISTORY_RECORDS

(* A reset that is shown is the oldest entry shown. *)
SinceReset(h) == \A e \in h : e.kind = "lab.reset" => \A d \in h : d.sequence >= e.sequence

(* The newest entries: whatever is newer than one of them is among them, and
   they are not too many. *)
LEMMA NewestEntries ==
  ASSUME NEW X, X \subseteq EntryType, IsFiniteSet(X), OneEach(X)
  PROVE  /\ Newest(X) \subseteq X /\ IsFiniteSet(Newest(X))
         /\ \A e \in Newest(X) : \A d \in X : d.sequence > e.sequence => d \in Newest(X)
         /\ Cardinality(Newest(X)) <= MAX_HISTORY_RECORDS
<1> DEFINE After(e) == {d \in X : d.sequence > e.sequence}
<1>1. \A e \in X : e.sequence \in Nat
  BY DEF EntryType
<1>2. ASSUME NEW e \in X
      PROVE  IsFiniteSet(After(e)) /\ Cardinality(After(e)) \in Nat
  <2>1. After(e) \in SUBSET X
    OBVIOUS
  <2>2. QED  BY <2>1, FS_Subset, FS_CardinalityType
<1>3. Newest(X) \subseteq X
  BY DEF Newest
<1>4. IsFiniteSet(Newest(X)) /\ Cardinality(Newest(X)) \in Nat
  BY <1>3, FS_Subset, FS_CardinalityType
<1>5. ASSUME NEW e \in Newest(X), NEW d \in X, d.sequence > e.sequence
      PROVE  d \in Newest(X)
  <2>1. e \in X /\ Cardinality(After(e)) < MAX_HISTORY_RECORDS
    BY DEF Newest
  <2>2. After(d) \in SUBSET After(e)
    <3>1. ASSUME NEW x \in X, x.sequence > d.sequence PROVE x.sequence > e.sequence
      BY <1>1, <1>5, <2>1, <3>1
    <3>2. QED  BY <3>1
  <2>3. Cardinality(After(d)) <= Cardinality(After(e))
    BY <1>2, <2>1, <2>2, FS_Subset
  <2>4. Cardinality(After(d)) < MAX_HISTORY_RECORDS
    BY <1>2, <2>1, <2>3, FeedAssumption
  <2>5. QED  BY <2>4 DEF Newest
<1>6. Cardinality(Newest(X)) <= MAX_HISTORY_RECORDS
  <2>1. CASE Newest(X) = {}
    BY <2>1, FS_EmptySet, FeedAssumption
  <2>2. CASE Newest(X) # {}
    <3>1. PICK S : S = {e.sequence : e \in Newest(X)}
      OBVIOUS
    <3>2. S \in SUBSET Nat /\ S # {}
      BY <1>1, <1>3, <2>2, <3>1
    <3>3. PICK x \in S : \A y \in S : x <= y
      BY <3>2, LeastPosition
    <3>4. PICK e \in Newest(X) : e.sequence = x
      BY <3>1
    <3>5. e \in X /\ Cardinality(After(e)) < MAX_HISTORY_RECORDS
      BY DEF Newest
    <3>6. Newest(X) \ {e} \subseteq After(e)
      <4>1. ASSUME NEW d \in Newest(X), d # e PROVE d.sequence > e.sequence
        <5>1. e.sequence <= d.sequence
          BY <3>1, <3>3, <3>4
        <5>2. d.sequence # e.sequence
          BY <1>3, <3>5, <4>1 DEF OneEach
        <5>3. QED  BY <1>1, <1>3, <3>5, <5>1, <5>2
      <4>2. QED  BY <1>3, <4>1
    <3>7. Cardinality(Newest(X) \ {e}) <= Cardinality(After(e))
      BY <1>2, <3>5, <3>6, FS_Subset
    <3>8. Cardinality(Newest(X) \ {e}) = Cardinality(Newest(X)) - 1
      BY <1>4, FS_RemoveElement
    <3>9. PICK a \in Nat, b \in Nat : a = Cardinality(After(e)) /\ b = Cardinality(Newest(X))
      BY <1>2, <1>4, <3>5
    <3>10. b - 1 <= a /\ a < MAX_HISTORY_RECORDS
      BY <3>5, <3>7, <3>8, <3>9
    <3>11. QED  BY <3>9, <3>10, FeedAssumption
  <2>3. QED  BY <2>1, <2>2
<1>7. QED  BY <1>3, <1>4, <1>5, <1>6

(* The newest part of a gapless history is gapless. *)
LEMMA NewestShown ==
  ASSUME NEW X, X \subseteq EntryType, IsFiniteSet(X), OneEach(X), NEW c \in Nat,
         UpTo(X, c), NEW s, \A e \in X : e.stream = s /\ e.sequence <= c
  PROVE  Shown(Newest(X), c, s)
<1>1. /\ Newest(X) \subseteq X /\ IsFiniteSet(Newest(X))
      /\ \A e \in Newest(X) : \A d \in X : d.sequence > e.sequence => d \in Newest(X)
      /\ Cardinality(Newest(X)) <= MAX_HISTORY_RECORDS
  BY NewestEntries
<1>2. PICK Y : Y = Newest(X)
  OBVIOUS
<1>3. \A e \in X : e.sequence \in Nat
  BY DEF EntryType
<1>4. ASSUME NEW q \in 1..c, q \notin Sequences(Y), NEW t \in Sequences(Y) PROVE q < t
  <2>1. PICK e \in Y : t = e.sequence
    BY DEF Sequences
  <2>2. e \in X
    BY <1>1, <1>2
  <2>3. CASE q \in Sequences(X)
    <3>1. PICK d \in X : q = d.sequence
      BY <2>3 DEF Sequences
    <3>2. d \notin Y
      BY <1>4, <3>1 DEF Sequences
    <3>3. ~(d.sequence > e.sequence)
      BY <1>1, <1>2, <3>2
    <3>4. d.sequence # e.sequence
      BY <1>4, <2>1, <3>1
    <3>5. QED  BY <1>3, <2>1, <2>2, <3>1, <3>3, <3>4
  <2>4. CASE q \notin Sequences(X)
    <3>1. t \in Sequences(X)
      BY <2>1, <2>2 DEF Sequences
    <3>2. QED  BY <2>4, <3>1 DEF UpTo
  <2>5. QED  BY <2>3, <2>4
<1>5. UpTo(Y, c)
  BY <1>4 DEF UpTo
<1>6. OneEach(Y)
  BY <1>1, <1>2 DEF OneEach
<1>7. QED  BY <1>1, <1>2, <1>5, <1>6 DEF Shown

(* mergeHistoryRecords with a page keeps what is shown gapless. *)
LEMMA MergeShown ==
  ASSUME NEW log, NEW latest, NEW max, NEW s, Logged(log, latest, max, s),
         NEW h, NEW after \in Nat, Shown(h, after, s), NEW d, PageFacts(log, after, latest, d)
  PROVE  Shown(Merge(h, d), d.cursor, s)
<1>1. PICK old, X :
        /\ old = IF d.reset THEN {} ELSE h
        /\ X = {e \in old : \A f \in d.entries : f.sequence # e.sequence} \cup d.entries
  OBVIOUS
<1>2. Merge(h, d) = Newest(X)
  BY <1>1 DEF Merge
<1>3. PICK n \in Nat : n = Len(log)
  BY LenProperties DEF Logged
<1>4. Range(log) = {log[k] : k \in 1..n}
  BY <1>3, LenProperties DEF Logged, Range
<1>5. /\ \A k \in 1..n : log[k] \in EntryType /\ log[k].stream = s
      /\ \A j, k \in 1..n : log[j].sequence = log[k].sequence => j = k
  <2>1. \A k \in 1..n : log[k] \in EntryType
    BY <1>3, ElementOfSeq DEF Logged
  <2>2. PICK l \in Nat : l = latest
    BY DEF Logged
  <2>3. \A k \in 1..n : log[k].sequence = l - n + k /\ log[k].stream = s
    BY <1>3, <2>2 DEF Logged
  <2>4. \A j, k \in 1..n : l - n + j = l - n + k => j = k
    OBVIOUS
  <2>5. QED  BY <2>1, <2>3, <2>4
<1>6. /\ d.entries \subseteq EntryType /\ OneEach(d.entries)
      /\ \A e \in d.entries : e.stream = s /\ e.sequence <= d.cursor
  BY <1>4, <1>5 DEF PageFacts, OneEach
<1>7. IsFiniteSet(d.entries)
  <2>1. PICK f : f = [k \in 1..n |-> log[k]]
    OBVIOUS
  <2>2. f \in Surjection(1..n, Range(log))
    BY <1>4, <2>1 DEF Surjection
  <2>3. IsFiniteSet(1..n)
    BY FS_Interval
  <2>4. IsFiniteSet(Range(log))
    BY <2>2, <2>3, FS_Surjection
  <2>5. QED  BY <2>4, FS_Subset DEF PageFacts
<1>8. old \subseteq h /\ IsFiniteSet(old)
  BY <1>1, FS_Subset, FS_EmptySet DEF Shown
<1>9. IsFiniteSet(X)
  <2>1. PICK rest : rest = {e \in old : \A f \in d.entries : f.sequence # e.sequence}
    OBVIOUS
  <2>2. rest \in SUBSET old
    BY <2>1
  <2>3. IsFiniteSet(rest)
    BY <1>8, <2>2, FS_Subset
  <2>4. QED  BY <1>1, <1>7, <2>1, <2>3, FS_Union
<1>10. PICK c \in Nat : c = d.cursor
  BY DEF PageFacts
<1>11. X \subseteq EntryType /\ OneEach(X)
  BY <1>1, <1>6, <1>8 DEF Shown, OneEach
<1>12. \A e \in X : e.sequence \in Nat
  BY <1>11 DEF EntryType
<1>13. \A e \in X : e.stream = s /\ e.sequence <= c
  <2>1. \A e \in d.entries : e.stream = s /\ e.sequence <= c
    BY <1>6, <1>10
  <2>2. ASSUME NEW e \in old PROVE e.stream = s /\ e.sequence <= c
    <3>1. ~d.reset /\ e \in h
      BY <1>1, <2>2
    <3>2. e.stream = s /\ e.sequence <= after /\ after <= c /\ e.sequence \in Nat
      BY <1>10, <3>1 DEF Shown, PageFacts, EntryType
    <3>3. QED  BY <3>2
  <2>3. QED  BY <1>1, <2>1, <2>2
<1>14. UpTo(X, c)
  <2>1. CASE d.reset
    <3>1. X = d.entries
      BY <1>1, <2>1
    <3>2. QED  BY <1>10, <2>1, <3>1 DEF PageFacts
  <2>2. CASE ~d.reset
    <3>1. ASSUME NEW q \in 1..c, q \notin Sequences(X), NEW t \in Sequences(X) PROVE q < t
      <4>1. Sequences(d.entries) \subseteq Sequences(X)
        BY <1>1 DEF Sequences
      <4>2. q <= after
        <5>1. q \notin (after + 1)..c
          BY <1>10, <2>2, <3>1, <4>1 DEF PageFacts
        <5>2. QED  BY <5>1
      <4>3. Sequences(h) \subseteq Sequences(X)
        <5>1. ASSUME NEW e \in h PROVE e.sequence \in Sequences(X)
          BY <1>1, <2>2, <5>1 DEF Sequences
        <5>2. QED  BY <5>1 DEF Sequences
      <4>4. PICK e \in X : t = e.sequence
        BY DEF Sequences
      <4>5. CASE e \in d.entries
        <5>1. after < e.sequence
          BY <2>2, <4>5 DEF PageFacts
        <5>2. QED  BY <1>12, <4>2, <4>4, <5>1
      <4>6. CASE e \in h
        <5>1. t \in Sequences(h) /\ q \notin Sequences(h) /\ q \in 1..after
          BY <3>1, <4>2, <4>3, <4>4, <4>6 DEF Sequences
        <5>2. QED  BY <5>1 DEF Shown, UpTo
      <4>7. QED  BY <1>1, <4>4, <4>5, <4>6
    <3>2. QED  BY <3>1 DEF UpTo
  <2>3. QED  BY <2>1, <2>2 DEF PageFacts
<1>15. QED  BY <1>2, <1>9, <1>10, <1>11, <1>13, <1>14, NewestShown

(* A page from after the reset, or one that starts over, keeps what is shown
   on one side of a reset. *)
LEMMA MergeSinceReset ==
  ASSUME NEW h, SinceReset(h), NEW d,
         d.reset => SinceReset(d.entries),
         ~d.reset => /\ \A e \in d.entries : e.kind # "lab.reset"
                     /\ \A e \in d.entries : \A f \in h : f.sequence <= e.sequence
  PROVE  SinceReset(Merge(h, d))
<1>1. PICK X :
        X = {e \in (IF d.reset THEN {} ELSE h) :
               \A f \in d.entries : f.sequence # e.sequence} \cup d.entries
  OBVIOUS
<1>2. Merge(h, d) = Newest(X) /\ Newest(X) \subseteq X
  BY <1>1 DEF Merge, Newest
<1>3. SinceReset(X)
  BY <1>1 DEF SinceReset
<1>4. QED  BY <1>2, <1>3 DEF SinceReset

-----------------------------------------------------------------------------
(* The inductive invariant of the feed and its readers. *)

(* What a reader holds, committed or within a refresh, when the Teamserver is
   process s and has numbered e events and a audit entries. *)
StateOK(st, s, e, a) ==
  /\ st.stream \in 0..s
  /\ Shown(st.history.events, st.cursors.events, st.stream)
  /\ Shown(st.history.audit, st.cursors.audit, st.stream)
  /\ SinceReset(st.history.events)
  /\ st.stream = 0 => /\ st.cursors.events = 0 /\ st.history.events = {}
                      /\ st.cursors.audit = 0 /\ st.history.audit = {}
  /\ st.stream = s => st.cursors.events <= e /\ st.cursors.audit <= a

RefreshOK(refresh, s, e, a) ==
  \/ refresh = NoRefresh
  \/ \E p \in Nat \ {0} : \E st :
       refresh = [page |-> p, state |-> st] /\ StateOK(st, s, e, a)

ReaderOK(x, s, e, a) ==
  /\ x = [kept |-> x.kept, refresh |-> x.refresh]
  /\ StateOK(x.kept, s, e, a)
  /\ RefreshOK(x.refresh, s, e, a)

LogsOK ==
  /\ stream \in Nat \ {0}
  /\ Logged(events, event_sequence, MAX_EVENTS, stream) /\ ResetFirst(events)
  /\ Logged(audit, audit_sequence, MAX_AUDIT_ENTRIES, stream)

ReadersOK ==
  /\ reader = [r \in Readers |-> reader[r]]
  /\ \A r \in Readers : ReaderOK(reader[r], stream, event_sequence, audit_sequence)

(* A reader that holds nothing yet. *)
LEMMA NothingShown ==
  ASSUME NEW s
  PROVE  Shown({}, 0, s) /\ SinceReset({})
BY FS_EmptySet, FeedAssumption DEF Shown, OneEach, UpTo, Sequences, SinceReset

(* What a reader starts from, with or without the stream it has just seen. *)
LEMMA CommittedOK ==
  ASSUME NEW s \in Nat \ {0}, NEW e \in Nat, NEW a \in Nat, NEW z \in {0, s}
  PROVE  StateOK([Committed EXCEPT !.stream = z], s, e, a) /\ StateOK(Committed, s, e, a)
<1>1. ASSUME NEW st, NEW y \in {0, s}, st.stream = y,
             st.history.events = {}, st.history.audit = {},
             st.cursors.events = 0, st.cursors.audit = 0
      PROVE  StateOK(st, s, e, a)
  BY <1>1, NothingShown DEF StateOK
<1>2. PICK st : st = [Committed EXCEPT !.stream = z]
  OBVIOUS
<1>3. /\ st.stream = z /\ st.history = Committed.history /\ st.cursors = Committed.cursors
      /\ Committed.stream = 0
  BY <1>2 DEF Committed
<1>4. /\ Committed.history.events = {} /\ Committed.history.audit = {}
      /\ Committed.cursors.events = 0 /\ Committed.cursors.audit = 0
  BY DEF Committed
<1>5. StateOK(st, s, e, a)
  BY <1>1, <1>3, <1>4
<1>6. StateOK(Committed, s, e, a)
  BY <1>1, <1>3, <1>4
<1>7. QED  BY <1>2, <1>5, <1>6

(* The floor that sync takes from a retained reset. *)
LEMMA FloorOfFeed ==
  ASSUME LogsOK
  PROVE  /\ ResetFloor \in Nat
         /\ ResetFloor = 0 \/ (Len(events) >= 1 /\ ResetFloor = events[1].sequence)
         /\ \A k \in 1..Len(events) :
              events[k].kind = "lab.reset" => ResetFloor = events[k].sequence
<1>1. PICK n \in Nat : n = Len(events)
  BY LenProperties DEF LogsOK, Logged
<1>2. Range(events) = {events[k] : k \in 1..n}
  BY <1>1, LenProperties DEF LogsOK, Logged, Range
<1>3. PICK S : S = {e.sequence : e \in {x \in Range(events) : x.kind = "lab.reset"}}
  OBVIOUS
<1>4. ResetFloor = IF S = {} THEN 0 ELSE CHOOSE q \in S : \A t \in S : q <= t
  BY <1>3 DEF ResetFloor
<1>5. \A k \in 1..n : events[k].kind = "lab.reset" => k = 1 /\ events[k].sequence \in S
  BY <1>1, <1>2, <1>3 DEF LogsOK, ResetFirst
<1>6. \A q \in S : n >= 1 /\ q = events[1].sequence
  BY <1>2, <1>3, <1>5
<1>7. n >= 1 => events[1].sequence \in Nat
  BY <1>1, ElementOfSeq DEF LogsOK, Logged, EntryType
<1>8. CASE S = {}
  BY <1>1, <1>4, <1>5, <1>8
<1>9. CASE S # {}
  <2>1. S = {events[1].sequence} /\ n >= 1
    BY <1>6, <1>9
  <2>2. PICK q \in Nat : q = events[1].sequence /\ S = {q}
    BY <1>7, <2>1
  <2>3. ResetFloor = q
    BY <1>4, <2>2
  <2>4. QED  BY <1>1, <1>5, <2>1, <2>2, <2>3
<1>10. QED  BY <1>8, <1>9

(* The two logs as sync pages them for a reader of this process, or for one
   that has nothing. *)
LEMMA SyncPage ==
  ASSUME LogsOK, NEW st, StateOK(st, stream, event_sequence, audit_sequence),
         ~StreamChanged(st), NEW page, page = sync(st.cursors)
  PROVE  /\ page.stream = stream
         /\ PageFacts(events, st.cursors.events, event_sequence, page.events)
         /\ PageFacts(audit, st.cursors.audit, audit_sequence, page.audit)
         /\ page.events.reset => SinceReset(page.events.entries)
         /\ ~page.events.reset => \A e \in page.events.entries : e.kind # "lab.reset"
<1>1. /\ page.stream = stream
      /\ page.events = Delta(events, st.cursors.events, event_sequence, ResetFloor)
      /\ page.audit = Delta(audit, st.cursors.audit, audit_sequence, 0)
  BY DEF sync
<1>2. /\ st.cursors.events \in Nat /\ st.cursors.events <= event_sequence
      /\ st.cursors.audit \in Nat /\ st.cursors.audit <= audit_sequence
  <2>1. event_sequence \in Nat /\ audit_sequence \in Nat
    BY DEF LogsOK, Logged
  <2>2. CASE st.stream = 0
    BY <2>1, <2>2 DEF StateOK
  <2>3. CASE st.stream = stream
    BY <2>1, <2>3 DEF StateOK, Shown
  <2>4. QED  BY <2>2, <2>3 DEF StreamChanged
<1>3. PageFacts(events, st.cursors.events, event_sequence, page.events)
  BY <1>1, <1>2, FloorOfFeed, PageIsContiguous DEF LogsOK
<1>4. PageFacts(audit, st.cursors.audit, audit_sequence, page.audit)
  BY <1>1, <1>2, PageIsContiguous DEF LogsOK
<1>5. PICK n \in Nat : n = Len(events)
  BY LenProperties DEF LogsOK, Logged
<1>6. \A e \in page.events.entries : \E k \in 1..n : e = events[k]
  BY <1>3, <1>5, LenProperties DEF PageFacts, Range, LogsOK, Logged
<1>7. \A j, k \in 1..n : events[j].kind = "lab.reset" => events[k].sequence >= events[j].sequence
  <2>1. PICK l \in Nat : l = event_sequence
    BY DEF LogsOK, Logged
  <2>2. \A k \in 1..n : events[k].sequence = l - n + k
    BY <1>5, <2>1 DEF LogsOK, Logged
  <2>3. \A j \in 1..n : events[j].kind = "lab.reset" => j = 1
    BY <1>5 DEF LogsOK, ResetFirst
  <2>4. \A k \in 1..n : l - n + k >= l - n + 1
    OBVIOUS
  <2>5. QED  BY <2>2, <2>3, <2>4
<1>8. SinceReset(page.events.entries)
  BY <1>6, <1>7 DEF SinceReset
<1>9. ASSUME ~page.events.reset, NEW e \in page.events.entries, e.kind = "lab.reset"
      PROVE  FALSE
  <2>1. PICK k \in 1..n : e = events[k]
    BY <1>6
  <2>2. ResetFloor = e.sequence
    BY <1>5, <1>9, <2>1, FloorOfFeed
  <2>3. st.cursors.events < e.sequence
    BY <1>3, <1>9 DEF PageFacts
  <2>4. page.events.reset = ResetRequired(events, st.cursors.events, event_sequence, ResetFloor)
    BY <1>1 DEF Delta
  <2>5. ResetRequired(events, st.cursors.events, event_sequence, ResetFloor)
    BY <2>2, <2>3 DEF ResetRequired
  <2>6. QED  BY <1>9, <2>4, <2>5
<1>10. QED  BY <1>1, <1>3, <1>4, <1>8, <1>9

(* One answer of sync leaves the reader in a good state. *)
LEMMA AfterPageOK ==
  ASSUME LogsOK, NEW st, StateOK(st, stream, event_sequence, audit_sequence),
         NEW page, page = sync(st.cursors)
  PROVE  StateOK(AfterPage(st, page), stream, event_sequence, audit_sequence)
<1>1. stream \in Nat \ {0} /\ event_sequence \in Nat /\ audit_sequence \in Nat
  BY DEF LogsOK, Logged
<1>2. CASE StreamChanged(st)
  <2>1. AfterPage(st, page) = [Committed EXCEPT !.stream = stream]
    BY <1>2 DEF AfterPage, sync
  <2>2. QED  BY <1>1, <2>1, CommittedOK
<1>3. CASE ~StreamChanged(st)
  <2>1. /\ page.stream = stream
        /\ PageFacts(events, st.cursors.events, event_sequence, page.events)
        /\ PageFacts(audit, st.cursors.audit, audit_sequence, page.audit)
        /\ page.events.reset => SinceReset(page.events.entries)
        /\ ~page.events.reset => \A e \in page.events.entries : e.kind # "lab.reset"
    BY <1>3, SyncPage
  <2>2. PICK next : next = AfterPage(st, page)
    OBVIOUS
  <2>3. /\ next.stream = stream
        /\ next.cursors.events = page.events.cursor
        /\ next.cursors.audit = page.audit.cursor
        /\ next.history.events = Merge(st.history.events, page.events)
        /\ next.history.audit = Merge(st.history.audit, page.audit)
    BY <1>3, <2>1, <2>2 DEF AfterPage
  <2>4. /\ Shown(st.history.events, st.cursors.events, stream)
        /\ Shown(st.history.audit, st.cursors.audit, stream)
    <3>1. CASE st.stream = 0
      BY <3>1, NothingShown DEF StateOK
    <3>2. CASE st.stream = stream
      BY <3>2 DEF StateOK
    <3>3. QED  BY <1>3, <3>1, <3>2 DEF StreamChanged
  <2>5. st.cursors.events \in Nat /\ st.cursors.audit \in Nat
    BY <2>4 DEF Shown
  <2>6. /\ Shown(next.history.events, next.cursors.events, stream)
        /\ Shown(next.history.audit, next.cursors.audit, stream)
    BY <2>1, <2>3, <2>4, <2>5, MergeShown DEF LogsOK
  <2>7. SinceReset(next.history.events)
    <3>1. ASSUME ~page.events.reset, NEW e \in page.events.entries,
                 NEW f \in st.history.events
          PROVE  f.sequence <= e.sequence
      <4>1. f.sequence <= st.cursors.events /\ st.cursors.events < e.sequence
        BY <2>1, <2>4, <3>1 DEF PageFacts, Shown
      <4>2. f.sequence \in Nat
        BY <2>4 DEF Shown, EntryType
      <4>3. e \in Range(events)
        BY <2>1 DEF PageFacts
      <4>4. e.sequence \in Nat
        <5>1. events \in Seq(EntryType)
          BY DEF LogsOK, Logged
        <5>2. PICK k \in 1..Len(events) : e = events[k]
          BY <4>3, <5>1, LenProperties DEF Range
        <5>3. e \in EntryType
          BY <5>1, <5>2, ElementOfSeq
        <5>4. QED  BY <5>3 DEF EntryType
      <4>5. QED  BY <2>5, <4>1, <4>2, <4>4
    <3>2. SinceReset(st.history.events)
      BY DEF StateOK
    <3>3. QED  BY <2>1, <2>3, <3>1, <3>2, MergeSinceReset
  <2>8. next.cursors.events <= event_sequence /\ next.cursors.audit <= audit_sequence
    BY <2>1, <2>3 DEF PageFacts
  <2>9. QED  BY <1>1, <2>2, <2>3, <2>6, <2>7, <2>8 DEF StateOK
<1>4. QED  BY <1>2, <1>3

(* Whatever the dashboard does, what it holds stays in order. *)
LEMMA ReadingOK ==
  ASSUME LogsOK, ReadersOK, NEW r \in Readers, Reading(r)
  PROVE  LogsOK' /\ ReadersOK'
<1>1. /\ stream' = stream /\ events' = events /\ audit' = audit
      /\ event_sequence' = event_sequence /\ audit_sequence' = audit_sequence
  BY DEF Reading, StartRefresh, FetchPage, RefreshFails, ResetSyncState, server
<1>2. LogsOK'
  BY <1>1 DEF LogsOK, Logged, ResetFirst
<1>3. stream \in Nat \ {0} /\ event_sequence \in Nat /\ audit_sequence \in Nat
  BY DEF LogsOK, Logged
<1>4. PICK K, F : K = reader[r].kept /\ F = reader[r].refresh
  OBVIOUS
<1>5. /\ reader[r] = [kept |-> K, refresh |-> F]
      /\ StateOK(K, stream, event_sequence, audit_sequence)
      /\ RefreshOK(F, stream, event_sequence, audit_sequence)
  BY <1>4 DEF ReadersOK, ReaderOK
<1>6. ASSUME NEW k, NEW f, reader' = [reader EXCEPT ![r] = [kept |-> k, refresh |-> f]],
             StateOK(k, stream, event_sequence, audit_sequence),
             RefreshOK(f, stream, event_sequence, audit_sequence)
      PROVE  ReadersOK'
  <2>1. ReaderOK([kept |-> k, refresh |-> f], stream, event_sequence, audit_sequence)
    BY <1>6 DEF ReaderOK
  <2>2. \A d \in Readers : ReaderOK(reader'[d], stream, event_sequence, audit_sequence)
    BY <1>6, <2>1 DEF ReadersOK
  <2>3. reader' = [d \in Readers |-> reader'[d]]
    BY <1>6 DEF ReadersOK
  <2>4. QED  BY <1>1, <2>2, <2>3 DEF ReadersOK
<1>7. ASSUME NEW f, RefreshOK(f, stream, event_sequence, audit_sequence),
             reader' = [reader EXCEPT ![r].refresh = f]
      PROVE  ReadersOK'
  <2>1. reader' = [reader EXCEPT ![r] = [kept |-> K, refresh |-> f]]
    <3>1. PICK x : x = [kept |-> K, refresh |-> F]
      OBVIOUS
    <3>2. [x EXCEPT !.refresh = f] = [kept |-> K, refresh |-> f]
      BY <3>1
    <3>3. reader' = [reader EXCEPT ![r] = [reader[r] EXCEPT !.refresh = f]]
      BY <1>7
    <3>4. QED  BY <1>5, <3>1, <3>2, <3>3
  <2>2. QED  BY <1>5, <1>6, <1>7, <2>1
<1>8. CASE StartRefresh(r)
  <2>1. PICK f : f = [page |-> 1, state |-> K]
    OBVIOUS
  <2>2. RefreshOK(f, stream, event_sequence, audit_sequence)
    BY <1>5, <2>1 DEF RefreshOK
  <2>3. reader' = [reader EXCEPT ![r].refresh = f]
    BY <1>4, <1>8, <2>1 DEF StartRefresh
  <2>4. QED  BY <1>2, <1>7, <2>2, <2>3
<1>9. CASE FetchPage(r)
  <2>1. PICK p \in Nat \ {0} : \E st :
          F = [page |-> p, state |-> st] /\ StateOK(st, stream, event_sequence, audit_sequence)
    BY <1>4, <1>5, <1>9 DEF FetchPage, RefreshOK
  <2>2. PICK st :
          F = [page |-> p, state |-> st] /\ StateOK(st, stream, event_sequence, audit_sequence)
    BY <2>1
  <2>3. PICK page, next : page = sync(st.cursors) /\ next = AfterPage(st, page)
    OBVIOUS
  <2>4. StateOK(next, stream, event_sequence, audit_sequence)
    BY <2>2, <2>3, AfterPageOK
  <2>5. PICK seen \in BOOLEAN, ends \in BOOLEAN :
          /\ seen = ~StreamChanged(st)
          /\ ends = (p = MAX_SYNC_PAGES \/ (seen /\ ~page.events.more /\ ~page.audit.more))
    BY DEF StreamChanged
  <2>6. F.page = p /\ F.state = st
    BY <2>2
  <2>7. reader' = [reader EXCEPT ![r] =
          IF ends THEN [kept |-> IF seen THEN next ELSE K, refresh |-> NoRefresh]
          ELSE [@ EXCEPT !.refresh = [page |-> p + 1, state |-> next]]]
    BY <1>4, <1>9, <2>3, <2>5, <2>6 DEF FetchPage
  <2>8. CASE ends
    <3>1. PICK k : k = IF seen THEN next ELSE K
      OBVIOUS
    <3>2. reader' = [reader EXCEPT ![r] = [kept |-> k, refresh |-> NoRefresh]]
      BY <2>7, <2>8, <3>1
    <3>3. StateOK(k, stream, event_sequence, audit_sequence)
      BY <1>5, <2>4, <3>1
    <3>4. QED  BY <1>2, <1>6, <3>2, <3>3 DEF RefreshOK
  <2>9. CASE ~ends
    <3>1. PICK f : f = [page |-> p + 1, state |-> next]
      OBVIOUS
    <3>2. reader' = [reader EXCEPT ![r].refresh = f]
      BY <2>7, <2>9, <3>1
    <3>3. p + 1 \in Nat \ {0}
      OBVIOUS
    <3>4. RefreshOK(f, stream, event_sequence, audit_sequence)
      BY <2>4, <3>1, <3>3 DEF RefreshOK
    <3>5. QED  BY <1>2, <1>7, <3>2, <3>4
  <2>10. QED  BY <2>8, <2>9
<1>10. CASE RefreshFails(r)
  <2>1. reader' = [reader EXCEPT ![r].refresh = NoRefresh]
    BY <1>10 DEF RefreshFails
  <2>2. QED  BY <1>2, <1>7, <2>1 DEF RefreshOK
<1>11. CASE ResetSyncState(r)
  <2>1. reader' = [reader EXCEPT ![r] = [kept |-> Committed, refresh |-> NoRefresh]]
    BY <1>11 DEF ResetSyncState
  <2>2. StateOK(Committed, stream, event_sequence, audit_sequence)
    BY <1>3, CommittedOK
  <2>3. QED  BY <1>2, <1>6, <2>1, <2>2 DEF RefreshOK
<1>12. QED  BY <1>8, <1>9, <1>10, <1>11 DEF Reading

(* Writing more entries, or a restarted Teamserver, leaves what readers hold. *)
LEMMA StateStays ==
  ASSUME NEW st, NEW s \in Nat \ {0}, NEW e \in Nat, NEW a \in Nat, StateOK(st, s, e, a),
         NEW t \in Nat, NEW f \in Nat, NEW b \in Nat,
         (t = s /\ e <= f /\ a <= b) \/ t = s + 1
  PROVE  StateOK(st, t, f, b)
<1>1. st.stream \in 0..t
  BY DEF StateOK
<1>2. st.stream = t => t = s
  BY DEF StateOK
<1>3. st.stream = t => st.cursors.events \in Nat /\ st.cursors.audit \in Nat
  BY DEF StateOK, Shown
<1>4. st.stream = t => st.cursors.events <= f /\ st.cursors.audit <= b
  BY <1>2, <1>3 DEF StateOK
<1>5. QED  BY <1>1, <1>4 DEF StateOK

(* The same for all readers and what they hold within a refresh. *)
LEMMA ReadersStay ==
  ASSUME LogsOK, ReadersOK, LogsOK', reader' = reader,
         \/ /\ stream' = stream /\ event_sequence <= event_sequence'
            /\ audit_sequence <= audit_sequence'
         \/ stream' = stream + 1
  PROVE  ReadersOK'
<1>1. /\ stream \in Nat \ {0} /\ event_sequence \in Nat /\ audit_sequence \in Nat
      /\ stream' \in Nat /\ event_sequence' \in Nat /\ audit_sequence' \in Nat
  BY DEF LogsOK, Logged
<1>2. ASSUME NEW st, StateOK(st, stream, event_sequence, audit_sequence)
      PROVE  StateOK(st, stream', event_sequence', audit_sequence')
  BY <1>1, <1>2, StateStays
<1>3. ASSUME NEW x, ReaderOK(x, stream, event_sequence, audit_sequence)
      PROVE  ReaderOK(x, stream', event_sequence', audit_sequence')
  BY <1>2, <1>3 DEF ReaderOK, RefreshOK
<1>4. \A r \in Readers : ReaderOK(reader[r], stream', event_sequence', audit_sequence')
  BY <1>3 DEF ReadersOK
<1>5. QED  BY <1>4 DEF ReadersOK

(* An entry of the feed. *)
LEMMA EntryIsTyped ==
  ASSUME LogsOK, NEW kind \in {"activity", "lab.reset", "operator.note", "audit"},
         NEW q \in Nat, NEW key \in UsedKeys
  PROVE  /\ Entry(kind, q, key) \in EntryType
         /\ Entry(kind, q, key).sequence = q /\ Entry(kind, q, key).stream = stream
         /\ Entry(kind, q, key).kind = kind /\ Entry(kind, q, key).key = key
BY DEF Entry, EntryType, LogsOK

(* _record_locked numbers the next event; a feed that starts with a reset
   still does. *)
LEMMA RecordOK ==
  ASSUME LogsOK, NEW log, log = events \/ log = <<>>,
         NEW kind \in {"activity", "lab.reset", "operator.note"},
         kind = "lab.reset" => log = <<>>,
         NEW key \in UsedKeys, Record(log, kind, key)
  PROVE  /\ Logged(events', event_sequence', MAX_EVENTS, stream) /\ ResetFirst(events')
         /\ event_sequence' = event_sequence + 1
         /\ Len(events') >= 1
         /\ events'[Len(events')] = Entry(kind, event_sequence + 1, key)
         /\ \A k \in 1..Len(events') - 1 : \E j \in 1..Len(log) : events'[k] = log[j]
<1>1. event_sequence \in Nat /\ event_sequence + 1 \in Nat
  BY DEF LogsOK, Logged
<1>2. PICK entry : entry = Entry(kind, event_sequence + 1, key)
  OBVIOUS
<1>3. /\ entry \in EntryType /\ entry.sequence = event_sequence + 1
      /\ entry.stream = stream /\ entry.kind = kind
  BY <1>1, <1>2, EntryIsTyped
<1>4. Logged(log, event_sequence, MAX_EVENTS, stream) /\ ResetFirst(log)
  <2>1. CASE log = events
    BY <2>1 DEF LogsOK
  <2>2. CASE log = <<>>
    <3>1. <<>> \in Seq(EntryType) /\ Len(<<>>) = 0
      BY EmptySeq
    <3>2. 1..0 = {}
      OBVIOUS
    <3>3. QED  BY <1>1, <2>2, <3>1, <3>2, FeedAssumption DEF Logged, ResetFirst
  <2>3. QED  BY <2>1, <2>2
<1>5. /\ event_sequence' = event_sequence + 1
      /\ events' = AppendBounded(log, entry, MAX_EVENTS)
  BY <1>2 DEF Record
<1>6. /\ Logged(events', event_sequence + 1, MAX_EVENTS, stream)
      /\ Len(events') >= 1 /\ events'[Len(events')] = entry
      /\ \A k \in 1..Len(events') - 1 : \E j \in 1..Len(log) : events'[k] = log[j] /\ k <= j
  <2>1. PICK max \in Nat \ {0} : max = MAX_EVENTS
    BY FeedAssumption
  <2>2. PICK new, s : new = AppendBounded(log, entry, max) /\ s = stream
    OBVIOUS
  <2>3. Logged(log, event_sequence, max, s) /\ entry.stream = s
    BY <1>3, <1>4, <2>1, <2>2
  <2>4. /\ Logged(new, event_sequence + 1, max, s)
        /\ Len(new) >= 1 /\ new[Len(new)] = entry
        /\ \A k \in 1..Len(new) - 1 : \E j \in 1..Len(log) : new[k] = log[j] /\ k <= j
    <3>1. PICK l : l = event_sequence
      OBVIOUS
    <3>2. Logged(log, l, max, s) /\ entry \in EntryType /\ entry.sequence = l + 1
      BY <1>3, <2>3, <3>1
    <3>3. /\ Logged(new, l + 1, max, s)
          /\ Len(new) >= 1 /\ new[Len(new)] = entry
      BY <2>2, <2>3, <3>2, AppendLogged
    <3>4. \A k \in 1..Len(new) - 1 : \E j \in 1..Len(log) : new[k] = log[j] /\ k <= j
      BY <2>2, <2>3, <3>2, AppendLogged
    <3>5. QED  BY <3>1, <3>3, <3>4
  <2>5. events' = new
    BY <1>5, <2>1, <2>2
  <2>6. QED  BY <2>1, <2>2, <2>4, <2>5
<1>7. ResetFirst(events')
  <2>1. PICK m \in Nat \ {0} : m = Len(events')
    BY <1>6, LenProperties DEF Logged
  <2>2. PICK n \in Nat : n = Len(log)
    BY <1>4, LenProperties DEF Logged
  <2>3. ASSUME NEW k \in 1..m, events'[k].kind = "lab.reset" PROVE k = 1
    <3>1. CASE k = m
      <4>1. log = <<>>
        BY <1>3, <1>6, <2>1, <2>3, <3>1
      <4>2. n = 0
        BY <2>2, <4>1, EmptySeq
      <4>3. QED  BY <1>6, <2>1, <2>2, <3>1, <4>2
    <3>2. CASE k # m
      <4>1. PICK j \in 1..n : events'[k] = log[j] /\ k <= j
        BY <1>6, <2>1, <2>2, <3>2
      <4>2. j = 1
        BY <1>4, <2>2, <2>3, <4>1 DEF ResetFirst
      <4>3. QED  BY <4>1, <4>2
    <3>3. QED  BY <3>1, <3>2
  <2>4. QED  BY <2>1, <2>3 DEF ResetFirst
<1>8. QED  BY <1>2, <1>5, <1>6, <1>7

(* _audit_locked numbers the next audit entry. *)
LEMMA AuditOK ==
  ASSUME LogsOK, Audit \/ UNCHANGED <<audit, audit_sequence>>
  PROVE  /\ Logged(audit', audit_sequence', MAX_AUDIT_ENTRIES, stream)
         /\ audit_sequence <= audit_sequence'
<1>1. audit_sequence \in Nat /\ Logged(audit, audit_sequence, MAX_AUDIT_ENTRIES, stream)
  BY DEF LogsOK, Logged
<1>2. CASE UNCHANGED <<audit, audit_sequence>>
  BY <1>1, <1>2
<1>3. CASE Audit
  <2>1. PICK entry : entry = Entry("audit", audit_sequence + 1, NoKey)
    OBVIOUS
  <2>2. /\ entry \in EntryType /\ entry.sequence = audit_sequence + 1
        /\ entry.stream = stream
    BY <1>1, <2>1, EntryIsTyped DEF UsedKeys
  <2>3. /\ audit_sequence' = audit_sequence + 1
        /\ audit' = AppendBounded(audit, entry, MAX_AUDIT_ENTRIES)
    BY <1>3, <2>1 DEF Audit
  <2>4. Logged(audit', audit_sequence + 1, MAX_AUDIT_ENTRIES, stream)
    BY <1>1, <2>2, <2>3, AppendLogged, FeedAssumption
  <2>5. QED  BY <1>1, <2>3, <2>4
<1>4. QED  BY <1>2, <1>3

(* The handlers that write. *)
LEMMA WritingOK ==
  ASSUME LogsOK, ReadersOK, NEW log, log = events \/ log = <<>>,
         NEW kind \in {"activity", "lab.reset", "operator.note"},
         kind = "lab.reset" => log = <<>>,
         NEW key \in UsedKeys, Record(log, kind, key),
         Audit \/ UNCHANGED <<audit, audit_sequence>>,
         stream' = stream, reader' = reader
  PROVE  LogsOK' /\ ReadersOK'
<1>1. /\ Logged(events', event_sequence', MAX_EVENTS, stream) /\ ResetFirst(events')
      /\ event_sequence' = event_sequence + 1
  BY RecordOK
<1>2. /\ Logged(audit', audit_sequence', MAX_AUDIT_ENTRIES, stream)
      /\ audit_sequence <= audit_sequence'
  BY AuditOK
<1>3. LogsOK'
  BY <1>1, <1>2 DEF LogsOK, Logged, ResetFirst
<1>4. event_sequence \in Nat /\ event_sequence <= event_sequence'
  BY <1>1 DEF LogsOK, Logged
<1>5. QED  BY <1>2, <1>3, <1>4, ReadersStay

(* The empty logs of a fresh Teamserver, and readers that hold nothing. *)
LEMMA FeedInit == Init => LogsOK /\ ReadersOK
<1> SUFFICES ASSUME Init PROVE LogsOK /\ ReadersOK
  OBVIOUS
<1>1. <<>> \in Seq(EntryType) /\ Len(<<>>) = 0 /\ 1..0 = {}
  BY EmptySeq
<1>2. LogsOK
  BY <1>1, FeedAssumption DEF Init, LogsOK, Logged, ResetFirst
<1>3. StateOK(Committed, stream, event_sequence, audit_sequence)
  <2>1. stream = 1 /\ event_sequence = 0 /\ audit_sequence = 0
    BY DEF Init
  <2>2. StateOK(Committed, 1, 0, 0)
    <3>1. 1 \in Nat \ {0} /\ 0 \in Nat /\ 0 \in {0, 1}
      OBVIOUS
    <3>2. QED  BY <3>1, CommittedOK
  <2>3. QED  BY <2>1, <2>2
<1>4. ReadersOK
  BY <1>3 DEF Init, ReadersOK, ReaderOK, RefreshOK
<1>5. QED  BY <1>2, <1>4

(* Every handler and every step of a refresh keeps the invariant of the feed. *)
LEMMA FeedStep == LogsOK /\ ReadersOK /\ [Next]_feed_vars => (LogsOK /\ ReadersOK)'
<1> SUFFICES ASSUME LogsOK, ReadersOK, [Next]_feed_vars PROVE LogsOK' /\ ReadersOK'
  OBVIOUS
<1>1. CASE UNCHANGED feed_vars
  <2>1. /\ stream' = stream /\ events' = events /\ audit' = audit /\ reader' = reader
        /\ event_sequence' = event_sequence /\ audit_sequence' = audit_sequence
    BY <1>1 DEF feed_vars, server
  <2>2. LogsOK'
    BY <2>1 DEF LogsOK, Logged, ResetFirst
  <2>3. ReadersOK'
    BY <2>1 DEF ReadersOK
  <2>4. QED  BY <2>2, <2>3
<1>2. CASE Activity
  BY <1>2, WritingOK DEF Activity, UsedKeys
<1>3. CASE reset
  BY <1>3, WritingOK DEF reset, UsedKeys
<1>4. CASE Restart
  <2>1. /\ stream' = stream + 1 /\ events' = <<>> /\ event_sequence' = 0
        /\ audit' = <<>> /\ audit_sequence' = 0 /\ reader' = reader
    BY <1>4 DEF Restart
  <2>2. <<>> \in Seq(EntryType) /\ Len(<<>>) = 0 /\ 1..0 = {}
    BY EmptySeq
  <2>3. LogsOK'
    BY <2>1, <2>2, FeedAssumption DEF LogsOK, Logged, ResetFirst
  <2>4. QED  BY <2>1, <2>3, ReadersStay
<1>5. ASSUME NEW n \in NoteRequests, PostNote(n) PROVE LogsOK' /\ ReadersOK'
  <2>1. n.key \in UsedKeys
    BY DEF UsedKeys
  <2>2. QED  BY <1>5, <2>1, WritingOK DEF PostNote
<1>6. ASSUME NEW n \in NoteRequests, RefuseNote(n) PROVE LogsOK' /\ ReadersOK'
  <2>1. /\ stream' = stream /\ events' = events /\ audit' = audit /\ reader' = reader
        /\ event_sequence' = event_sequence /\ audit_sequence' = audit_sequence
    BY <1>6 DEF RefuseNote
  <2>2. LogsOK'
    BY <2>1 DEF LogsOK, Logged, ResetFirst
  <2>3. ReadersOK'
    BY <2>1 DEF ReadersOK
  <2>4. QED  BY <2>2, <2>3
<1>7. ASSUME NEW r \in Readers, Reading(r) PROVE LogsOK' /\ ReadersOK'
  BY <1>7, ReadingOK
<1>8. QED  BY <1>1, <1>2, <1>3, <1>4, <1>5, <1>6, <1>7 DEF Next

(* The logs stay numbered one by one with a reset first, and every reader,
   committed or within a refresh, holds a gapless stretch of one process up to
   its cursors: each handler of the feed and each step of refresh keeps it. *)
THEOREM FeedInvariant == Spec => [](LogsOK /\ ReadersOK)
<1>1. QED  BY FeedInit, FeedStep, PTL DEF Spec

(* What a commit of the invariant says of one reader. *)
LEMMA ReaderFacts ==
  ASSUME LogsOK, ReadersOK, NEW r \in Readers
  PROVE  /\ StateOK(reader[r].kept, stream, event_sequence, audit_sequence)
         /\ reader[r].refresh # NoRefresh =>
              StateOK(reader[r].refresh.state, stream, event_sequence, audit_sequence)
<1>1. PICK x : x = reader[r]
  OBVIOUS
<1>2. /\ StateOK(x.kept, stream, event_sequence, audit_sequence)
      /\ RefreshOK(x.refresh, stream, event_sequence, audit_sequence)
  BY <1>1 DEF ReadersOK, ReaderOK
<1>3. ASSUME x.refresh # NoRefresh
      PROVE  StateOK(x.refresh.state, stream, event_sequence, audit_sequence)
  <2>1. PICK p, st : x.refresh = [page |-> p, state |-> st]
                     /\ StateOK(st, stream, event_sequence, audit_sequence)
    BY <1>2, <1>3 DEF RefreshOK
  <2>2. x.refresh.state = st
    BY <2>1
  <2>3. QED  BY <2>1, <2>2
<1>4. QED  BY <1>1, <1>2, <1>3

(* The invariant contains what the runs check of the feed: the logs are
   ascending and bounded, what a reader commits has no gaps, and a page that
   announces more moves its cursor. *)
LEMMA FeedFollows == LogsOK /\ ReadersOK => FeedInv
<1> SUFFICES ASSUME LogsOK, ReadersOK PROVE FeedInv
  OBVIOUS
<1>1. ASSUME NEW r \in Readers
      PROVE  /\ Shown(reader[r].kept.history.events, reader[r].kept.cursors.events,
                      reader[r].kept.stream)
             /\ Shown(reader[r].kept.history.audit, reader[r].kept.cursors.audit,
                      reader[r].kept.stream)
  BY ReaderFacts DEF StateOK
<1>2. FeedTypeOK
  BY <1>1 DEF FeedTypeOK, LogsOK, Logged, Shown
<1>3. GaplessHistory
  <2>1. ASSUME NEW h, NEW c, NEW s, Shown(h, c, s)
        PROVE  UpTo(h, c) /\ \A q \in Sequences(h) : q <= c
    BY <2>1 DEF Shown, Sequences
  <2>2. QED  BY <1>1, <2>1 DEF GaplessHistory
<1>4. PagesAdvance
  <2>1. ASSUME NEW r \in Readers, reader[r].refresh # NoRefresh,
               NEW st, st = reader[r].refresh.state, ~StreamChanged(st),
               NEW page, page = sync(st.cursors)
        PROVE  /\ page.events.more => page.events.cursor # st.cursors.events
               /\ page.audit.more => page.audit.cursor # st.cursors.audit
    <3>1. StateOK(st, stream, event_sequence, audit_sequence)
      BY <2>1, ReaderFacts
    <3>2. /\ PageFacts(events, st.cursors.events, event_sequence, page.events)
          /\ PageFacts(audit, st.cursors.audit, audit_sequence, page.audit)
      BY <2>1, <3>1, SyncPage
    <3>3. QED  BY <3>2 DEF PageFacts
  <2>2. QED  BY <2>1 DEF PagesAdvance
<1>5. QED  BY <1>2, <1>3, <1>4 DEF FeedInv

(* A reader of sync has no gaps up to its cursor, whatever is trimmed, reset,
   restarted or written while it is paging, and its check against a cursor that
   stands still never fires. *)
THEOREM FeedHolds == Spec => []FeedInv
<1>1. QED  BY FeedInvariant, FeedFollows, PTL

(* The entries of two Teamserver processes, or events from before a lab.reset
   and that reset, are never shown together by a dashboard. *)
THEOREM OneStoryHolds == Spec => []OneStory
<1>1. LogsOK /\ ReadersOK => OneStory
  <2> SUFFICES ASSUME LogsOK, ReadersOK PROVE OneStory
    OBVIOUS
  <2>1. ASSUME NEW r \in Readers
        PROVE  /\ \A e \in reader[r].kept.history.events : e.stream = reader[r].kept.stream
               /\ \A e \in reader[r].kept.history.audit : e.stream = reader[r].kept.stream
               /\ SinceReset(reader[r].kept.history.events)
    BY ReaderFacts DEF StateOK, Shown
  <2>2. QED  BY <2>1 DEF OneStory, SinceReset
<1>2. QED  BY <1>1, FeedInvariant, PTL

-----------------------------------------------------------------------------
(* Operator notes and their keys. *)

Notes(log) == {e \in Range(log) : e.kind = "operator.note"}

(* A key table whose items were posted with one of the first latest events. *)
TableOK(T, latest) ==
  /\ T = [k \in DOMAIN T |-> T[k]] /\ IsFiniteSet(DOMAIN T)
  /\ \A k \in DOMAIN T : T[k].event \in 1..latest

(* What an item names is a note of that key, if it is retained at all, and a
   retained note is found under its key. *)
Matched(T, log) ==
  /\ \A k \in DOMAIN T : \A e \in Range(log) :
       e.sequence = T[k].event => e.kind = "operator.note" /\ e.key = k
  /\ \A e \in Notes(log) : e.key # NoKey => e.key \in DOMAIN T /\ T[e.key].event = e.sequence

NotesOK ==
  /\ TableOK(note_idempotency, event_sequence)
  /\ Cardinality(DOMAIN note_idempotency) <= MAX_OPERATOR_NOTES_RETAINED
  /\ Matched(note_idempotency, events)
  /\ Cardinality(RetainedNotes) <= MAX_OPERATOR_NOTES_RETAINED

(* The entries of a numbered log: they are finitely many, each has its own
   number, and everything after a retained entry is retained. *)
LEMMA EntriesOfLog ==
  ASSUME NEW log, NEW latest, NEW max, NEW s, Logged(log, latest, max, s)
  PROVE  /\ IsFiniteSet(Range(log)) /\ Range(log) \subseteq EntryType
         /\ \A e \in Range(log) : e.sequence \in 1..latest
         /\ \A d, e \in Range(log) : d.sequence = e.sequence => d = e
         /\ \A e \in Range(log) : \A q \in e.sequence..latest :
              \E d \in Range(log) : d.sequence = q
<1>1. PICK n \in Nat, l \in Nat : n = Len(log) /\ l = latest /\ n <= l
  BY LenProperties DEF Logged
<1>2. Range(log) = {log[k] : k \in 1..n}
  BY <1>1, LenProperties DEF Logged, Range
<1>3. \A k \in 1..n : log[k] \in EntryType
  BY <1>1, ElementOfSeq DEF Logged
<1>4. \A k \in 1..n : log[k].sequence = l - n + k
  BY <1>1 DEF Logged
<1>5. IsFiniteSet(Range(log))
  <2>1. PICK f : f = [k \in 1..n |-> log[k]]
    OBVIOUS
  <2>2. f \in Surjection(1..n, Range(log))
    BY <1>2, <2>1 DEF Surjection
  <2>3. IsFiniteSet(1..n)
    BY FS_Interval
  <2>4. QED  BY <2>2, <2>3, FS_Surjection
<1>6. \A k \in 1..n : l - n + k \in 1..l
  BY <1>1
<1>7. \A j, k \in 1..n : l - n + j = l - n + k => j = k
  OBVIOUS
<1>8. ASSUME NEW e \in Range(log), NEW q \in e.sequence..l
      PROVE  \E d \in Range(log) : d.sequence = q
  <2>1. PICK k \in 1..n : e = log[k] /\ e.sequence = l - n + k
    BY <1>2, <1>4
  <2>2. PICK j \in Int : j = q - (l - n)
    <3>1. q \in Int /\ l - n \in Int
      BY <1>1, <2>1
    <3>2. QED  BY <3>1
  <2>3. j \in 1..n /\ q = l - n + j
    BY <1>1, <1>8, <2>1, <2>2
  <2>4. QED  BY <1>2, <1>4, <2>3
<1>9. Range(log) \subseteq EntryType
  BY <1>2, <1>3
<1>10. ASSUME NEW e \in Range(log) PROVE e.sequence \in 1..latest
  <2>1. PICK k \in 1..n : e.sequence = l - n + k
    BY <1>2, <1>4
  <2>2. QED  BY <1>1, <1>6, <2>1
<1>11. ASSUME NEW d \in Range(log), NEW e \in Range(log), d.sequence = e.sequence PROVE d = e
  <2>1. PICK j \in 1..n, k \in 1..n : d = log[j] /\ e = log[k]
    BY <1>2
  <2>2. j = k
    BY <1>4, <1>7, <1>11, <2>1
  <2>3. QED  BY <2>1, <2>2
<1>12. \A e \in Range(log) : \A q \in e.sequence..latest : \E d \in Range(log) : d.sequence = q
  BY <1>1, <1>8
<1>13. QED  BY <1>5, <1>9, <1>10, <1>11, <1>12

(* The key that a table gives up when it is too large is not the key of a
   retained note: with it, the keys of all younger items would have retained
   notes too, more than the limit admits. *)
LEMMA OldestIsNotRetained ==
  ASSUME NEW log, NEW latest, NEW max, NEW s, Logged(log, latest, max, s),
         NEW T, TableOK(T, latest), Matched(T, log),
         Cardinality(DOMAIN T) > MAX_OPERATOR_NOTES_RETAINED,
         Cardinality(Notes(log)) <= MAX_OPERATOR_NOTES_RETAINED
  PROVE  /\ OldestKey(T) \in DOMAIN T
         /\ \A e \in Notes(log) : e.key # NoKey => e.key # OldestKey(T)
<1>1. /\ IsFiniteSet(Range(log))
      /\ \A e \in Range(log) : e.sequence \in 1..latest
      /\ \A e \in Range(log) : \A q \in e.sequence..latest :
           \E d \in Range(log) : d.sequence = q
  BY EntriesOfLog
<1>2. PICK max_notes \in Nat \ {0} : max_notes = MAX_OPERATOR_NOTES_RETAINED
  BY FeedAssumption
<1>3. PICK D : D = DOMAIN T
  OBVIOUS
<1>4. IsFiniteSet(D) /\ Cardinality(D) \in Nat /\ Cardinality(D) > max_notes
  BY <1>2, <1>3, FS_CardinalityType DEF TableOK
<1>5. D # {}
  <2>1. ASSUME D = {} PROVE FALSE
    <3>1. Cardinality({}) = 0
      BY FS_EmptySet
    <3>2. QED  BY <1>4, <2>1, <3>1
  <2>2. QED  BY <2>1
<1>6. PICK l \in Nat : l = latest
  BY DEF Logged
<1>7. \A k \in D : T[k].event \in Nat /\ 1 <= T[k].event /\ T[k].event <= l
  BY <1>3, <1>6 DEF TableOK
<1>8. PICK o : o = OldestKey(T)
  OBVIOUS
<1>9. o \in D /\ \A j \in D : T[o].event <= T[j].event
  <2>1. PICK S : S = {T[k].event : k \in D}
    OBVIOUS
  <2>2. S \in SUBSET Nat /\ S # {}
    BY <1>5, <1>7, <2>1
  <2>3. PICK x \in S : \A y \in S : x <= y
    BY <2>2, LeastPosition
  <2>4. \E k \in D : \A j \in D : T[k].event <= T[j].event
    BY <2>1, <2>3
  <2>5. QED  BY <1>3, <1>8, <2>4 DEF OldestKey
<1>10. ASSUME NEW e \in Notes(log), e.key # NoKey, e.key = o PROVE FALSE
  <2>1. e \in Range(log) /\ T[o].event = e.sequence
    BY <1>10 DEF Matched, Notes
  <2>2. ASSUME NEW j \in D
        PROVE  \E d \in Notes(log) : d.key = j
    <3>1. T[j].event \in e.sequence..l
      BY <1>7, <1>9, <2>1
    <3>2. PICK d \in Range(log) : d.sequence = T[j].event
      BY <1>1, <1>6, <2>1, <3>1
    <3>3. d.kind = "operator.note" /\ d.key = j
      BY <1>3, <3>2 DEF Matched
    <3>4. QED  BY <3>3 DEF Notes
  <2>3. PICK f : f = [j \in D |-> CHOOSE d \in Notes(log) : d.key = j]
    OBVIOUS
  <2>4. \A j \in D : f[j] \in Notes(log) /\ f[j].key = j
    BY <2>2, <2>3
  <2>5. f \in Injection(D, Notes(log))
    BY <2>3, <2>4 DEF Injection, IsInjective
  <2>6. IsFiniteSet(Notes(log))
    <3>1. Notes(log) \in SUBSET Range(log)
      BY DEF Notes
    <3>2. QED  BY <1>1, <3>1, FS_Subset
  <2>7. Cardinality(D) <= Cardinality(Notes(log)) /\ Cardinality(Notes(log)) \in Nat
    BY <2>5, <2>6, FS_Injection, FS_CardinalityType
  <2>8. QED  BY <1>2, <1>4, <2>7
<1>11. QED  BY <1>3, <1>8, <1>9, <1>10

(* What one recorded event changes in the feed: the new entry is there, the
   others were there before. *)
LEMMA RecordedEntries ==
  ASSUME LogsOK, NEW kind \in {"activity", "operator.note"}, NEW key \in UsedKeys,
         Record(events, kind, key), NEW new, new = Entry(kind, event_sequence + 1, key)
  PROVE  /\ event_sequence \in Nat /\ event_sequence' = event_sequence + 1
         /\ new.sequence = event_sequence + 1 /\ new.kind = kind /\ new.key = key
         /\ Range(events') \subseteq Range(events) \cup {new} /\ new \in Range(events')
         /\ Logged(events', event_sequence', MAX_EVENTS, stream)
         /\ \A e \in Range(events) : e.sequence \in 1..event_sequence
<1>1. /\ Logged(events', event_sequence', MAX_EVENTS, stream)
      /\ event_sequence' = event_sequence + 1
      /\ Len(events') >= 1 /\ events'[Len(events')] = new
      /\ \A k \in 1..Len(events') - 1 : \E j \in 1..Len(events) : events'[k] = events[j]
  BY RecordOK
<1>2. event_sequence \in Nat
  BY DEF LogsOK, Logged
<1>3. new.sequence = event_sequence + 1 /\ new.kind = kind /\ new.key = key
  BY DEF Entry
<1>4. PICK n \in Nat, m \in Nat : n = Len(events) /\ m = Len(events')
  BY <1>1, LenProperties DEF LogsOK, Logged
<1>5. Range(events) = {events[k] : k \in 1..n}
  BY <1>4, LenProperties DEF LogsOK, Logged, Range
<1>6. Range(events') = {events'[k] : k \in 1..m}
  BY <1>1, <1>4, LenProperties DEF Logged, Range
<1>7. m \in 1..m /\ \A k \in 1..m : k = m \/ k \in 1..m - 1
  BY <1>1, <1>4
<1>8. Range(events') \subseteq Range(events) \cup {new} /\ new \in Range(events')
  BY <1>1, <1>4, <1>5, <1>6, <1>7
<1>9. \A e \in Range(events) : e.sequence \in 1..event_sequence
  BY EntriesOfLog DEF LogsOK
<1>10. QED  BY <1>1, <1>2, <1>3, <1>8, <1>9

(* The retained notes of a feed are finitely many. *)
LEMMA NotesFinite ==
  ASSUME LogsOK
  PROVE  IsFiniteSet(RetainedNotes) /\ Cardinality(RetainedNotes) \in Nat
<1>1. IsFiniteSet(Range(events)) /\ RetainedNotes \in SUBSET Range(events)
  BY EntriesOfLog DEF LogsOK, RetainedNotes
<1>2. QED  BY <1>1, FS_Subset, FS_CardinalityType

(* An event that is not a note pushes notes out of the feed at most. *)
LEMMA ActivityKeepsNotes == ASSUME LogsOK, NotesOK, Activity PROVE NotesOK'
<1>1. PICK new : new = Entry("activity", event_sequence + 1, NoKey)
  OBVIOUS
<1>2. Record(events, "activity", NoKey) /\ note_idempotency' = note_idempotency
      /\ NoKey \in UsedKeys
  BY DEF Activity, UsedKeys
<1>3. /\ event_sequence \in Nat /\ event_sequence' = event_sequence + 1
      /\ new.sequence = event_sequence + 1 /\ new.kind = "activity"
      /\ Range(events') \subseteq Range(events) \cup {new}
  BY <1>1, <1>2, RecordedEntries
<1>4. PICK T : T = note_idempotency
  OBVIOUS
<1>5. \A k \in DOMAIN T : T[k].event \in 1..event_sequence
  BY <1>4 DEF NotesOK, TableOK
<1>6. TableOK(T, event_sequence')
  <2>1. \A k \in DOMAIN T : T[k].event \in 1..event_sequence + 1
    BY <1>3, <1>5
  <2>2. QED  BY <1>3, <1>4, <2>1 DEF NotesOK, TableOK
<1>7. RetainedNotes' \subseteq RetainedNotes
  BY <1>3 DEF RetainedNotes
<1>8. Matched(T, events')
  <2>1. \A k \in DOMAIN T : T[k].event # new.sequence
    BY <1>3, <1>5
  <2>2. \A e \in Notes(events') : e \in Notes(events)
    BY <1>3 DEF Notes
  <2>3. Matched(T, events)
    BY <1>4 DEF NotesOK
  <2>4. QED  BY <1>3, <2>1, <2>2, <2>3 DEF Matched
<1>9. Cardinality(RetainedNotes') <= MAX_OPERATOR_NOTES_RETAINED
  <2>1. /\ IsFiniteSet(RetainedNotes) /\ Cardinality(RetainedNotes) \in Nat
        /\ Cardinality(RetainedNotes) <= MAX_OPERATOR_NOTES_RETAINED
    BY NotesFinite DEF NotesOK
  <2>2. PICK R : R = RetainedNotes'
    OBVIOUS
  <2>3. Cardinality(R) <= Cardinality(RetainedNotes) /\ Cardinality(R) \in Nat
    BY <1>7, <2>1, <2>2, FS_Subset, FS_CardinalityType
  <2>4. QED  BY <2>1, <2>2, <2>3, FeedAssumption
<1>10. QED  BY <1>2, <1>4, <1>6, <1>8, <1>9 DEF NotesOK

(* A key whose note has left the feed is dropped: no retained note needs it. *)
LEMMA DroppedKey ==
  ASSUME LogsOK, NotesOK, NEW r, ~Answered(r), NEW T, T = KeysWithout(r.key)
  PROVE  /\ TableOK(T, event_sequence) /\ Matched(T, events)
         /\ DOMAIN T = DOMAIN note_idempotency \ {r.key}
         /\ \A e \in RetainedNotes : e.key # NoKey => e.key # r.key
<1>1. PICK N, D : N = note_idempotency /\ D = DOMAIN N
  OBVIOUS
<1>2. /\ N = [k \in D |-> N[k]] /\ IsFiniteSet(D)
      /\ \A k \in D : N[k].event \in 1..event_sequence
      /\ Matched(N, events)
  BY <1>1 DEF NotesOK, TableOK
<1>3. T = [k \in D \ {r.key} |-> N[k]]
  BY <1>1 DEF KeysWithout
<1>4. /\ DOMAIN T = D \ {r.key} /\ \A k \in D \ {r.key} : T[k] = N[k]
      /\ T = [k \in DOMAIN T |-> T[k]]
  BY <1>3
<1>5. ASSUME NEW e \in Notes(events), e.key # NoKey, e.key = r.key PROVE FALSE
  <2>1. r.key \in D /\ N[r.key].event = e.sequence /\ e \in Range(events)
    BY <1>2, <1>5 DEF Matched, Notes
  <2>2. Retained(N[r.key])
    BY <2>1 DEF Retained
  <2>3. QED  BY <1>1, <2>1, <2>2 DEF Answered
<1>6. IsFiniteSet(DOMAIN T)
  BY <1>2, <1>4, FS_Subset
<1>7. TableOK(T, event_sequence)
  BY <1>2, <1>4, <1>6 DEF TableOK
<1>8. Matched(T, events)
  BY <1>2, <1>4, <1>5 DEF Matched
<1>9. QED  BY <1>1, <1>4, <1>5, <1>7, <1>8 DEF RetainedNotes, Notes

(* note_limit: the refused note leaves at most the stale key behind it. *)
LEMMA RefusalKeepsNotes == ASSUME LogsOK, NotesOK, NEW r, RefuseNote(r) PROVE NotesOK'
<1>1. PICK T : T = KeysWithout(r.key)
  OBVIOUS
<1>2. /\ note_idempotency' = T /\ events' = events /\ event_sequence' = event_sequence
  BY <1>1 DEF RefuseNote
<1>3. /\ TableOK(T, event_sequence) /\ Matched(T, events)
      /\ DOMAIN T = DOMAIN note_idempotency \ {r.key}
  BY <1>1, DroppedKey DEF RefuseNote
<1>4. Cardinality(DOMAIN T) <= MAX_OPERATOR_NOTES_RETAINED
  <2>1. /\ IsFiniteSet(DOMAIN note_idempotency)
        /\ Cardinality(DOMAIN note_idempotency) <= MAX_OPERATOR_NOTES_RETAINED
    BY DEF NotesOK, TableOK
  <2>2. PICK D : D = DOMAIN note_idempotency
    OBVIOUS
  <2>3. PICK E : E = DOMAIN T
    OBVIOUS
  <2>4. /\ E \in SUBSET D /\ IsFiniteSet(D)
        /\ Cardinality(D) <= MAX_OPERATOR_NOTES_RETAINED
    BY <1>3, <2>1, <2>2, <2>3
  <2>5. Cardinality(E) <= Cardinality(D) /\ Cardinality(E) \in Nat /\ Cardinality(D) \in Nat
    BY <2>4, FS_Subset, FS_CardinalityType
  <2>6. QED  BY <2>3, <2>4, <2>5, FeedAssumption
<1>5. RetainedNotes' = RetainedNotes
  BY <1>2 DEF RetainedNotes
<1>6. QED  BY <1>2, <1>3, <1>4, <1>5 DEF NotesOK

(* The key table with a new item, before the oldest one gives way. *)
Entered(T, key, item) == [k \in DOMAIN T \cup {key} |-> IF k = key THEN item ELSE T[k]]

(* A part of a table that still holds the keys of the retained notes. *)
LEMMA MatchedPart ==
  ASSUME NEW T, NEW log, Matched(T, log), NEW R, DOMAIN R \subseteq DOMAIN T,
         \A k \in DOMAIN R : R[k] = T[k],
         \A e \in Notes(log) : e.key # NoKey /\ e.key \in DOMAIN T => e.key \in DOMAIN R
  PROVE  Matched(R, log)
BY DEF Matched

(* The table a new key is entered into: the key finds its note, and what gives
   way to it when the table is full is no retained note's key. *)
LEMMA RememberedNote ==
  ASSUME NEW log, NEW latest \in Nat, NEW max, NEW s, Logged(log, latest + 1, max, s),
         NEW T, TableOK(T, latest), NEW key, key \notin DOMAIN T,
         Cardinality(DOMAIN T) <= MAX_OPERATOR_NOTES_RETAINED,
         Cardinality(Notes(log)) <= MAX_OPERATOR_NOTES_RETAINED,
         NEW item, item.event = latest + 1,
         NEW E, E = Entered(T, key, item), Matched(E, log),
         NEW R, R = RememberNote(T, key, item)
  PROVE  /\ TableOK(R, latest + 1) /\ Matched(R, log)
         /\ Cardinality(DOMAIN R) <= MAX_OPERATOR_NOTES_RETAINED
<1>1. PICK D : D = DOMAIN E
  OBVIOUS
<1>2. D = DOMAIN T \cup {key} /\ \A k \in D : E[k] = IF k = key THEN item ELSE T[k]
  BY <1>1 DEF Entered
<1>3. PICK limit \in Nat \ {0} : limit = MAX_OPERATOR_NOTES_RETAINED
  BY FeedAssumption
<1>4. IsFiniteSet(DOMAIN T)
  BY DEF TableOK
<1>5. IsFiniteSet(D) /\ Cardinality(D) = Cardinality(DOMAIN T) + 1
  BY <1>2, <1>4, FS_AddElement
<1>6. PICK c \in Nat : c = Cardinality(DOMAIN T) /\ c <= limit /\ Cardinality(D) = c + 1
  BY <1>3, <1>4, <1>5, FS_CardinalityType
<1>7. \A k \in D : E[k].event \in 1..latest + 1
  BY <1>2 DEF TableOK
<1>8. E = [k \in DOMAIN E |-> E[k]]
  BY DEF Entered
<1>9. TableOK(E, latest + 1)
  BY <1>1, <1>5, <1>7, <1>8 DEF TableOK
<1>10. CASE Cardinality(D) > limit
  <2>1. PICK o : o = OldestKey(E)
    OBVIOUS
  <2>2. o \in D /\ \A e \in Notes(log) : e.key # NoKey => e.key # o
    BY <1>1, <1>3, <1>9, <1>10, <2>1, OldestIsNotRetained
  <2>3. R = [k \in D \ {o} |-> E[k]]
    BY <1>1, <1>3, <1>10, <2>1 DEF RememberNote, Entered
  <2>4. /\ DOMAIN R = D \ {o} /\ \A k \in D \ {o} : R[k] = E[k]
        /\ R = [k \in DOMAIN R |-> R[k]]
    BY <2>3
  <2>5. IsFiniteSet(D \ {o}) /\ Cardinality(D \ {o}) = Cardinality(D) - 1
    BY <1>5, <2>2, FS_RemoveElement
  <2>6. Cardinality(DOMAIN R) <= limit
    BY <1>6, <2>4, <2>5
  <2>7. TableOK(R, latest + 1)
    BY <1>7, <2>4, <2>5 DEF TableOK
  <2>8. Matched(R, log)
    BY <1>1, <2>2, <2>4, MatchedPart
  <2>9. QED  BY <1>3, <2>6, <2>7, <2>8
<1>11. CASE ~(Cardinality(D) > limit)
  <2>1. R = [k \in D \ {} |-> E[k]]
    BY <1>1, <1>3, <1>11 DEF RememberNote, Entered
  <2>2. R = E
    BY <1>1, <1>8, <2>1
  <2>3. Cardinality(D) <= limit
    BY <1>6, <1>11
  <2>4. QED  BY <1>1, <1>3, <1>9, <2>2, <2>3
<1>12. QED  BY <1>10, <1>11

(* A note is posted: there is room for it, and its key leads to it from now on
   without taking the place of a retained note's key. *)
LEMMA PostingKeepsNotes ==
  ASSUME LogsOK, NotesOK, NEW r \in NoteRequests, PostNote(r) PROVE NotesOK'
<1>1. PICK new : new = Entry("operator.note", event_sequence + 1, r.key)
  OBVIOUS
<1>2. Record(events, "operator.note", r.key) /\ ~Answered(r) /\ NoteRoom
      /\ r.key \in UsedKeys
  BY DEF PostNote, UsedKeys
<1>3. /\ event_sequence \in Nat /\ event_sequence' = event_sequence + 1
      /\ new.sequence = event_sequence + 1 /\ new.kind = "operator.note" /\ new.key = r.key
      /\ Range(events') \subseteq Range(events) \cup {new} /\ new \in Range(events')
      /\ Logged(events', event_sequence', MAX_EVENTS, stream)
      /\ \A e \in Range(events) : e.sequence \in 1..event_sequence
  BY <1>1, <1>2, RecordedEntries
<1>4. Cardinality(Notes(events')) <= MAX_OPERATOR_NOTES_RETAINED
  <2>1. IsFiniteSet(RetainedNotes) /\ Cardinality(RetainedNotes) \in Nat
    BY NotesFinite
  <2>2. new \notin RetainedNotes
    BY <1>3 DEF RetainedNotes
  <2>3. PICK S : S = RetainedNotes \cup {new}
    OBVIOUS
  <2>4. IsFiniteSet(S) /\ Cardinality(S) = Cardinality(RetainedNotes) + 1
    BY <2>1, <2>2, <2>3, FS_AddElement
  <2>5. Notes(events') \in SUBSET S
    BY <1>3, <2>3 DEF Notes, RetainedNotes
  <2>6. Cardinality(Notes(events')) <= Cardinality(S) /\ Cardinality(Notes(events')) \in Nat
    BY <2>4, <2>5, FS_Subset, FS_CardinalityType
  <2>7. Cardinality(RetainedNotes) < MAX_OPERATOR_NOTES_RETAINED
    BY <1>2 DEF NoteRoom
  <2>8. QED  BY <2>1, <2>4, <2>6, <2>7, FeedAssumption
<1>5. RetainedNotes' = Notes(events')
  BY DEF RetainedNotes, Notes
<1>6. CASE r.key = NoKey
  <2>1. PICK T : T = note_idempotency
    OBVIOUS
  <2>2. note_idempotency' = T
    BY <1>6, <2>1 DEF PostNote
  <2>3. \A k \in DOMAIN T : T[k].event \in 1..event_sequence
    BY <2>1 DEF NotesOK, TableOK
  <2>4. \A k \in DOMAIN T : T[k].event \in 1..event_sequence + 1 /\ T[k].event # new.sequence
    BY <1>3, <2>3
  <2>5. TableOK(T, event_sequence')
    BY <1>3, <2>1, <2>4 DEF NotesOK, TableOK
  <2>6. Matched(T, events)
    BY <2>1 DEF NotesOK
  <2>7. Matched(T, events')
    BY <1>3, <1>6, <2>4, <2>6 DEF Matched, Notes
  <2>8. QED  BY <1>4, <1>5, <2>1, <2>2, <2>5, <2>7 DEF NotesOK
<1>7. CASE r.key # NoKey
  <2>1. PICK T, item, E, R :
          /\ T = KeysWithout(r.key)
          /\ item = [body |-> r.body, event |-> event_sequence + 1]
          /\ E = Entered(T, r.key, item)
          /\ R = RememberNote(T, r.key, item)
    OBVIOUS
  <2>2. note_idempotency' = R
    BY <1>7, <2>1 DEF PostNote
  <2>3. /\ TableOK(T, event_sequence) /\ Matched(T, events)
        /\ DOMAIN T = DOMAIN note_idempotency \ {r.key}
        /\ \A e \in RetainedNotes : e.key # NoKey => e.key # r.key
    BY <1>2, <2>1, DroppedKey
  <2>4. Cardinality(DOMAIN T) <= MAX_OPERATOR_NOTES_RETAINED
    <3>1. PICK D, F : D = DOMAIN note_idempotency /\ F = DOMAIN T
      OBVIOUS
    <3>2. /\ F \in SUBSET D /\ IsFiniteSet(D)
          /\ Cardinality(D) <= MAX_OPERATOR_NOTES_RETAINED
      BY <2>3, <3>1 DEF NotesOK, TableOK
    <3>3. Cardinality(F) <= Cardinality(D) /\ Cardinality(F) \in Nat /\ Cardinality(D) \in Nat
      BY <3>2, FS_Subset, FS_CardinalityType
    <3>4. QED  BY <3>1, <3>2, <3>3, FeedAssumption
  <2>5. /\ DOMAIN E = DOMAIN T \cup {r.key} /\ E[r.key] = item
        /\ \A k \in DOMAIN T : E[k] = T[k]
    BY <2>1, <2>3 DEF Entered
  <2>6. item.event = event_sequence + 1
    BY <2>1
  <2>7. Matched(E, events')
    <3>1. \A k \in DOMAIN T : T[k].event \in 1..event_sequence
      BY <2>3 DEF TableOK
    <3>2. \A k \in DOMAIN T : T[k].event # new.sequence
      BY <1>3, <3>1
    <3>3. \A e \in Range(events) : e.sequence # item.event
      BY <1>3, <2>6
    <3>4. ASSUME NEW k \in DOMAIN E, NEW e \in Range(events'), e.sequence = E[k].event
          PROVE  e.kind = "operator.note" /\ e.key = k
      <4>1. CASE k = r.key
        <5>1. e = new
          BY <1>3, <2>5, <3>3, <3>4, <4>1
        <5>2. QED  BY <1>3, <4>1, <5>1
      <4>2. CASE k \in DOMAIN T
        <5>1. e \in Range(events)
          BY <1>3, <2>5, <3>2, <3>4, <4>2
        <5>2. QED  BY <2>3, <2>5, <3>4, <4>2, <5>1 DEF Matched
      <4>3. QED  BY <2>5, <4>1, <4>2
    <3>5. ASSUME NEW e \in Notes(events'), e.key # NoKey
          PROVE  e.key \in DOMAIN E /\ E[e.key].event = e.sequence
      <4>1. CASE e = new
        BY <1>3, <2>5, <2>6, <4>1
      <4>2. CASE e # new
        <5>1. e \in Notes(events)
          BY <1>3, <4>2 DEF Notes
        <5>2. QED  BY <2>3, <2>5, <3>5, <5>1 DEF Matched
      <4>3. QED  BY <4>1, <4>2
    <3>6. QED  BY <3>4, <3>5 DEF Matched
  <2>8. PICK l, log, s, max :
          /\ l \in Nat /\ l = event_sequence /\ log = events' /\ s = stream /\ max = MAX_EVENTS
    BY <1>3
  <2>9. Logged(log, l + 1, max, s)
    BY <1>3, <2>8
  <2>10. /\ TableOK(R, l + 1) /\ Matched(R, log)
         /\ Cardinality(DOMAIN R) <= MAX_OPERATOR_NOTES_RETAINED
    <3>1. r.key \notin DOMAIN T
      BY <2>3
    <3>2. /\ TableOK(T, l) /\ item.event = l + 1 /\ Matched(E, log)
          /\ Cardinality(Notes(log)) <= MAX_OPERATOR_NOTES_RETAINED
      BY <1>4, <2>3, <2>6, <2>7, <2>8
    <3>3. QED  BY <2>1, <2>4, <2>8, <2>9, <3>1, <3>2, RememberedNote
  <2>11. QED  BY <1>3, <1>4, <1>5, <2>2, <2>8, <2>10 DEF NotesOK
<1>8. QED  BY <1>6, <1>7

(* Every step of the feed keeps the notes findable. *)
LEMMA NotesStep ==
  LogsOK /\ ReadersOK /\ NotesOK /\ [Next]_feed_vars => NotesOK'
<1> SUFFICES ASSUME LogsOK, NotesOK, [Next]_feed_vars PROVE NotesOK'
  OBVIOUS
<1>1. ASSUME events' = events, event_sequence' = event_sequence,
             note_idempotency' = note_idempotency
      PROVE  NotesOK'
  BY <1>1 DEF NotesOK, RetainedNotes
<1>2. ASSUME event_sequence' \in Nat, note_idempotency' = NoKeys,
             \A e \in Range(events') : e.kind # "operator.note"
      PROVE  NotesOK'
  <2>1. RetainedNotes' = {} /\ Notes(events') = {}
    BY <1>2 DEF RetainedNotes, Notes
  <2>2. DOMAIN NoKeys = {} /\ NoKeys = [k \in DOMAIN NoKeys |-> NoKeys[k]]
    BY DEF NoKeys
  <2>3. Cardinality({}) = 0 /\ IsFiniteSet({})
    BY FS_EmptySet
  <2>4. TableOK(NoKeys, event_sequence') /\ Matched(NoKeys, events')
    BY <2>1, <2>2, <2>3 DEF TableOK, Matched
  <2>5. 0 <= MAX_OPERATOR_NOTES_RETAINED
    BY FeedAssumption
  <2>6. /\ Cardinality(DOMAIN NoKeys) <= MAX_OPERATOR_NOTES_RETAINED
        /\ Cardinality(RetainedNotes') <= MAX_OPERATOR_NOTES_RETAINED
    BY <2>1, <2>2, <2>3, <2>5
  <2>7. QED  BY <1>2, <2>4, <2>6 DEF NotesOK
<1>3. CASE UNCHANGED feed_vars
  BY <1>1, <1>3 DEF feed_vars, server
<1>4. CASE Activity
  BY <1>4, ActivityKeepsNotes
<1>5. CASE reset
  <2>1. Record(<<>>, "lab.reset", NoKey) /\ note_idempotency' = NoKeys /\ NoKey \in UsedKeys
    BY <1>5 DEF reset, UsedKeys
  <2>2. /\ Logged(events', event_sequence', MAX_EVENTS, stream)
        /\ events'[Len(events')] = Entry("lab.reset", event_sequence + 1, NoKey)
        /\ Len(events') >= 1
        /\ \A k \in 1..Len(events') - 1 : \E j \in 1..Len(<<>>) : events'[k] = <<>>[j]
    BY <2>1, RecordOK
  <2>3. Len(<<>>) = 0 /\ 1..0 = {}
    BY EmptySeq
  <2>4. PICK m \in Nat : m = Len(events')
    BY <2>2, LenProperties DEF Logged
  <2>5. \A k \in 1..m : k = m \/ k \in 1..m - 1
    OBVIOUS
  <2>6. \A k \in 1..m : k = m
    BY <2>2, <2>3, <2>4, <2>5
  <2>7. Range(events') = {events'[k] : k \in 1..m}
    BY <2>2, <2>4, LenProperties DEF Logged, Range
  <2>8. \A e \in Range(events') : e.kind # "operator.note"
    BY <2>2, <2>4, <2>6, <2>7 DEF Entry
  <2>9. QED  BY <1>2, <2>1, <2>2, <2>8 DEF Logged
<1>6. CASE Restart
  <2>1. events' = <<>> /\ event_sequence' = 0 /\ note_idempotency' = NoKeys
    BY <1>6 DEF Restart
  <2>2. Range(<<>>) = {}
    BY DEF Range
  <2>3. QED  BY <1>2, <2>1, <2>2
<1>7. ASSUME NEW r \in NoteRequests, PostNote(r) PROVE NotesOK'
  BY <1>7, PostingKeepsNotes
<1>8. ASSUME NEW r \in NoteRequests, RefuseNote(r) PROVE NotesOK'
  BY <1>8, RefusalKeepsNotes
<1>9. ASSUME NEW r \in Readers, Reading(r) PROVE NotesOK'
  BY <1>1, <1>9
     DEF Reading, StartRefresh, FetchPage, RefreshFails, ResetSyncState, server
<1>10. QED  BY <1>3, <1>4, <1>5, <1>6, <1>7, <1>8, <1>9 DEF Next

(* A fresh feed has no notes. *)
LEMMA NotesInit == Init => NotesOK
<1> SUFFICES ASSUME Init PROVE NotesOK
  OBVIOUS
<1>1. Range(<<>>) = {}
  BY DEF Range
<1>2. RetainedNotes = {} /\ Notes(events) = {} /\ note_idempotency = NoKeys /\ Range(events) = {}
  BY <1>1 DEF Init, RetainedNotes, Notes
<1>3. DOMAIN NoKeys = {} /\ NoKeys = [k \in DOMAIN NoKeys |-> NoKeys[k]]
  BY DEF NoKeys
<1>4. Cardinality({}) = 0 /\ IsFiniteSet({}) /\ 0 <= MAX_OPERATOR_NOTES_RETAINED
  BY FS_EmptySet, FeedAssumption
<1>5. TableOK(NoKeys, event_sequence) /\ Matched(NoKeys, events)
  BY <1>2, <1>3, <1>4 DEF TableOK, Matched
<1>6. QED  BY <1>2, <1>3, <1>4, <1>5 DEF NotesOK

(* Notes and keys stay within MAX_OPERATOR_NOTES_RETAINED, and a retry of a
   retained keyed note finds it: the bounded key table never gives up the key
   of a note that is still in the feed, though keys of notes that have left it
   still take up places. *)
THEOREM NotesHold == Spec => []NotesInv
<1>1. LogsOK /\ NotesOK => NotesInv
  <2> SUFFICES ASSUME LogsOK, NotesOK PROVE NotesInv
    OBVIOUS
  <2>1. NotesWithinLimit
    BY DEF NotesOK, NotesWithinLimit
  <2>2. \A e \in RetainedNotes : e.key # NoKey =>
          e.key \in DOMAIN note_idempotency /\ note_idempotency[e.key].event = e.sequence
    BY DEF NotesOK, Matched, RetainedNotes, Notes
  <2>3. \A d, e \in Range(events) : d.sequence = e.sequence => d = e
    BY EntriesOfLog DEF LogsOK
  <2>4. \A d, e \in RetainedNotes : d.key # NoKey /\ d.key = e.key => d = e
    BY <2>2, <2>3 DEF RetainedNotes
  <2>5. QED  BY <2>1, <2>2, <2>4 DEF NotesInv, KeysFindTheirNotes
<1>2. Spec => [](LogsOK /\ ReadersOK /\ NotesOK)
  BY FeedInit, FeedStep, NotesInit, NotesStep, PTL DEF Spec
<1>3. QED  BY <1>1, <1>2, PTL
=============================================================================
