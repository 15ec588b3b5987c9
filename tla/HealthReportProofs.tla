--------------------------- MODULE HealthReportProofs ---------------------------
(***************************************************************************)
(* What TLAPS proves of HealthReport beside the backend's other requests,  *)
(* for any servers, failures, captures, thresholds and bounds.             *)
(***************************************************************************)
EXTENDS Requests, Sequences, FiniteSetTheorems, SequenceTheorems, TLAPS

Adds == INSTANCE FoldLeftTheorems WITH Op <- HR!Add
Sorts == INSTANCE FoldLeftTheorems WITH Op <- HR!SortIn

-----------------------------------------------------------------------------
\* What a check makes of facts f of which some are missing, next to all of them.
Missed(f, g, x) == f[x] = <<>> \/ f[x] = g[x]

LEMMA MissedFacts ==
    ASSUME NEW s, NEW failed
    PROVE  LET f == HR!PullOperational(s, failed)
               g == HR!PullOperational(s, {})
           IN  /\ f.cpu = <<>> \/ f.cpu = g.cpu
               /\ f.maxdop = <<>> \/ f.maxdop = g.maxdop
               /\ f.costThreshold = <<>> \/ f.costThreshold = g.costThreshold
               /\ f.adhoc = <<>> \/ f.adhoc = g.adhoc
               /\ f.recovery = <<>> \/ f.recovery = g.recovery
               /\ f.autoShrink = <<>> \/ f.autoShrink = g.autoShrink
               /\ f.autoClose = <<>> \/ f.autoClose = g.autoClose
               /\ f.pageVerify = <<>> \/ f.pageVerify = g.pageVerify
               /\ f.autoCreateStats = <<>> \/ f.autoCreateStats = g.autoCreateStats
               /\ f.autoUpdateStats = <<>> \/ f.autoUpdateStats = g.autoUpdateStats
               /\ f.vlf = <<>> \/ f.vlf = g.vlf
               /\ f.backups = <<>> \/ f.backups = g.backups
               /\ f.readOnly = <<>> \/ f.readOnly = g.readOnly
               /\ f.checkdb = <<>> \/ f.checkdb = g.checkdb
               /\ f.replicas = {} \/ f.replicas = g.replicas
               /\ f.jobs = <<>> \/ f.jobs = g.jobs
               /\ f.ifi = <<>> \/ f.ifi = g.ifi
               /\ f.tempFiles = <<>> \/ f.tempFiles = g.tempFiles
               /\ f.tempUnequal = <<>> \/ f.tempUnequal = g.tempUnequal
               /\ f.traceFlags = <<>> \/ f.traceFlags = g.traceFlags
               /\ g.readOnly = <<s.readOnly>>
BY DEF HR!PullOperational

LEMMA HonestChecks ==
    ASSUME NEW s, NEW failed
    PROVE  \A c \in HR!Evaluate(HR!PullOperational(s, failed)) :
              \/ c \in HR!Evaluate(HR!PullOperational(s, {}))
              \/ s.readOnly /\ c.kind = "integrity"
<1> DEFINE f == HR!PullOperational(s, failed)
           g == HR!PullOperational(s, {})
<1>0. /\ f.cpu = <<>> \/ f.cpu = g.cpu
      /\ f.maxdop = <<>> \/ f.maxdop = g.maxdop
      /\ f.costThreshold = <<>> \/ f.costThreshold = g.costThreshold
      /\ f.adhoc = <<>> \/ f.adhoc = g.adhoc
      /\ f.recovery = <<>> \/ f.recovery = g.recovery
      /\ f.autoShrink = <<>> \/ f.autoShrink = g.autoShrink
      /\ f.autoClose = <<>> \/ f.autoClose = g.autoClose
      /\ f.pageVerify = <<>> \/ f.pageVerify = g.pageVerify
      /\ f.autoCreateStats = <<>> \/ f.autoCreateStats = g.autoCreateStats
      /\ f.autoUpdateStats = <<>> \/ f.autoUpdateStats = g.autoUpdateStats
      /\ f.vlf = <<>> \/ f.vlf = g.vlf
      /\ f.backups = <<>> \/ f.backups = g.backups
      /\ f.readOnly = <<>> \/ f.readOnly = g.readOnly
      /\ f.checkdb = <<>> \/ f.checkdb = g.checkdb
      /\ f.replicas = {} \/ f.replicas = g.replicas
      /\ f.jobs = <<>> \/ f.jobs = g.jobs
      /\ f.ifi = <<>> \/ f.ifi = g.ifi
      /\ f.tempFiles = <<>> \/ f.tempFiles = g.tempFiles
      /\ f.tempUnequal = <<>> \/ f.tempUnequal = g.tempUnequal
      /\ f.traceFlags = <<>> \/ f.traceFlags = g.traceFlags
      /\ g.readOnly = <<s.readOnly>>
  BY MissedFacts
<1> HIDE DEF f, g
<1>1. HR!Parallelism(f) \subseteq HR!Parallelism(g)
  BY <1>0 DEF HR!Parallelism, HR!Config, HR!Known, HR!Is
<1>2. HR!DatabaseSettings(f) \subseteq HR!DatabaseSettings(g)
  BY <1>0 DEF HR!DatabaseSettings, HR!Config, HR!Known, HR!Is
<1>3. HR!TransactionLog(f) \subseteq HR!TransactionLog(g)
  BY <1>0 DEF HR!TransactionLog, HR!Known
<1>4. HR!Backups(f) \subseteq HR!Backups(g)
  BY <1>0 DEF HR!Backups, HR!Known, HR!Is
<1>5. \/ HR!Integrity(f) \subseteq HR!Integrity(g)
      \/ s.readOnly /\ \A c \in HR!Integrity(f) : c.kind = "integrity"
  BY <1>0 DEF HR!Integrity, HR!Known, HR!Is, HR!Check
<1>6. HR!Replicas(f) \subseteq HR!Replicas(g)
  BY <1>0 DEF HR!Replicas
<1>7. HR!FailedJobs(f) \subseteq HR!FailedJobs(g)
  BY <1>0 DEF HR!FailedJobs, HR!Known
<1>8. HR!Files(f) \subseteq HR!Files(g)
  BY <1>0 DEF HR!Files, HR!Config, HR!Known, HR!Is
<1>9. HR!TraceFlags(f) \subseteq HR!TraceFlags(g)
  BY <1>0 DEF HR!TraceFlags, HR!Config, HR!Known
<1>. QED BY <1>1, <1>2, <1>3, <1>4, <1>5, <1>6, <1>7, <1>8, <1>9 DEF HR!Evaluate, f, g

-----------------------------------------------------------------------------
Grades == {"critical", "error", "warning", "info"}

Lanes == {"reliability", "opportunity", "operational"}

\* Issues: what can be ranked, and that the id of a heap is its table's.
IsIssue(x) ==
    /\ x = [source |-> x.source, kind |-> x.kind, id |-> x.id, table |-> x.table,
            severity |-> x.severity, lane |-> x.lane, rank |-> x.rank, fix |-> x.fix]
    /\ x.rank \in Int /\ x.severity \in Grades /\ x.lane \in Lanes
    /\ x.source = "advisor" => x.lane = "opportunity"
    /\ HR!IsHeap(x) => x.id = <<"static", "heap_table", <<Letters[x.table], <<>>>>>>

Graded(S) == \A x \in S : IsIssue(x)
IsGradedList(list) == \E S : Graded(S) /\ list \in Seq(S)

LEMMA SeveritySet == HR!Range(HR!Severities) = Grades
<1>1. DOMAIN HR!Severities = 1..4
  BY DEF HR!Severities
<1>2. /\ HR!Severities[1] = "critical" /\ HR!Severities[2] = "error"
      /\ HR!Severities[3] = "warning" /\ HR!Severities[4] = "info"
  BY DEF HR!Severities
<1>3. HR!Range(HR!Severities) = {HR!Severities[i] : i \in 1..4}
  BY <1>1 DEF HR!Range
<1>. QED BY <1>2, <1>3 DEF Grades

LEMMA FiniteImage ==
    ASSUME NEW S, IsFiniteSet(S), NEW f
    PROVE  IsFiniteSet({f[x] : x \in S})
<1> DEFINE g == [x \in S |-> f[x]]
           T == {f[x] : x \in S}
<1>1. g \in Surjection(S, T)
  BY DEF Surjection
<1>. QED BY <1>1, FS_Surjection

\* Counting in HealthReport is counting here.
LEMMA SameCounting ==
    /\ \A S : HR!IsFiniteSet(S) <=> IsFiniteSet(S)
    /\ \A S : HR!Cardinality(S) = Cardinality(S)
BY DEF HR!IsFiniteSet, IsFiniteSet, HR!Cardinality, Cardinality

LEMMA FiniteThere ==
    ASSUME NEW S, IsFiniteSet(S)
    PROVE  Adds!IsFiniteSet(S) /\ Sorts!IsFiniteSet(S)
BY DEF IsFiniteSet, Adds!IsFiniteSet, Sorts!IsFiniteSet

\* A list of the members of U and of nothing else.
Lists(l, U) == l \in Seq(U) /\ \A x \in U : \E i \in 1..Len(l) : l[i] = x

\* ... with each of them once.
Once(l) == \A i, j \in 1..Len(l) : l[i] = l[j] => i = j

LEMMA ListedIsSeq == ASSUME NEW S, IsFiniteSet(S) PROVE Lists(HR!Listed(S), S) /\ Once(HR!Listed(S))
<1> DEFINE Done(U) == Lists(Adds!FoldOver(<<>>, U), U) /\ Once(Adds!FoldOver(<<>>, U))
           N == {n \in Nat : \A U \in SUBSET S : Cardinality(U) = n => Done(U)}
<1>0. ASSUME NEW U \in SUBSET S
      PROVE  IsFiniteSet(U) /\ Cardinality(U) \in Nat /\ (Cardinality(U) = 0 <=> U = {})
  BY FS_Subset, FS_CardinalityType, FS_EmptySet
<1>1. 0 \in N
  <2> SUFFICES ASSUME NEW U \in SUBSET S, Cardinality(U) = 0 PROVE Done(U)
    OBVIOUS
  <2>1. U = {}
    BY <1>0
  <2>2. Adds!FoldOver(<<>>, {}) = <<>>
    BY Adds!FoldOverEmpty
  <2>3. <<>> \in Seq({}) /\ 1..Len(<<>>) = {}
    OBVIOUS
  <2>4. Lists(<<>>, {}) /\ Once(<<>>)
    BY <2>3 DEF Lists, Once
  <2>. QED BY <2>1, <2>2, <2>4
<1>2. ASSUME NEW n \in Nat, n \in N PROVE n + 1 \in N
  <2> SUFFICES ASSUME NEW U \in SUBSET S, Cardinality(U) = n + 1
               PROVE  Done(U)
    OBVIOUS
  <2>1. IsFiniteSet(U) /\ U # {}
    BY <1>0
  <2>2. PICK x \in U : Adds!FoldOver(<<>>, U) = HR!Add(x, Adds!FoldOver(<<>>, U \ {x}))
    BY <2>1, FiniteThere, Adds!FoldOverStep
  <2>3. Cardinality(U \ {x}) = n
    <3>1. Cardinality(U \ {x}) = Cardinality(U) - 1
      BY <2>1, FS_RemoveElement
    <3>. QED BY <3>1
  <2> DEFINE l == Adds!FoldOver(<<>>, U \ {x})
             m == Append(l, x)
  <2>4. Lists(l, U \ {x}) /\ Once(l)
    BY <1>2, <2>3
  <2>5. Adds!FoldOver(<<>>, U) = m
    BY <2>2 DEF HR!Add
  <2> HIDE DEF l
  <2>6. l \in Seq(U) /\ x \in U
    <3>1. l \in Seq(U \ {x})
      BY <2>4 DEF Lists
    <3>. QED BY <3>1
  <2>7. /\ m \in Seq(U) /\ Len(m) = Len(l) + 1 /\ m[Len(l) + 1] = x /\ Len(l) \in Nat
        /\ \A i \in 1..Len(l) : m[i] = l[i]
    BY <2>6
  <2> HIDE DEF m
  <2>8. ASSUME NEW y \in U PROVE \E i \in 1..Len(m) : m[i] = y
    <3>1. CASE y = x
      BY <2>7, <3>1
    <3>2. CASE y # x
      <4>1. PICK i \in 1..Len(l) : l[i] = y
        BY <2>4, <3>2 DEF Lists
      <4>2. i \in 1..Len(m) /\ m[i] = y
        BY <2>7, <4>1
      <4>. QED BY <4>2
    <3>. QED BY <3>1, <3>2
  <2>9. ASSUME NEW i \in 1..Len(m), NEW j \in 1..Len(m), m[i] = m[j] PROVE i = j
    <3>1. \A k \in 1..Len(l) : l[k] # x
      <4>1. l \in Seq(U \ {x})
        BY <2>4 DEF Lists
      <4>. QED BY <4>1
    <3>2. \A k \in 1..Len(m) : k \in 1..Len(l) \/ k = Len(l) + 1
      BY <2>7
    <3>. QED BY <2>4, <2>7, <2>9, <3>1, <3>2 DEF Once
  <2>10. Lists(m, U) /\ Once(m)
    BY <2>7, <2>8, <2>9 DEF Lists, Once
  <2>. QED BY <2>5, <2>10
<1>3. Nat \subseteq N
  BY <1>1, <1>2, Adds!SetInduction
<1>4. Cardinality(S) \in N
  BY <1>0, <1>3
<1>5. Done(S)
  BY <1>4
<1>. QED BY <1>5 DEF HR!Listed, Adds!FoldOver, Adds!FoldSet, HR!FoldSet, HR!MapThenFoldSet,
                     Adds!MapThenFoldSet

-----------------------------------------------------------------------------
(* Severities, as numbers.                                                  *)

LEMMA SeverityRanks ==
    /\ HR!SeverityRank("critical") = 1 /\ HR!SeverityRank("error") = 2
    /\ HR!SeverityRank("warning") = 3 /\ HR!SeverityRank("info") = 4
<1>1. /\ HR!Severities[1] = "critical" /\ HR!Severities[2] = "error"
      /\ HR!Severities[3] = "warning" /\ HR!Severities[4] = "info"
  BY DEF HR!Severities
<1>2. \A i \in 1..4 : i = 1 \/ i = 2 \/ i = 3 \/ i = 4
  OBVIOUS
<1>3. ASSUME NEW k \in 1..4 PROVE HR!SeverityRank(HR!Severities[k]) = k
  <2>1. \A i \in 1..4 : HR!Severities[i] = HR!Severities[k] => i = k
    BY <1>1, <1>2
  <2>2. \E i \in 1..4 : HR!Severities[i] = HR!Severities[k]
    OBVIOUS
  <2>. QED BY <2>1, <2>2 DEF HR!SeverityRank
<1>. QED BY <1>1, <1>3

LEMMA RankedSeverities ==
    /\ \A x \in Grades : HR!SeverityRank(x) \in 1..4 /\ HR!Severities[HR!SeverityRank(x)] = x
    /\ \A x, y \in Grades : HR!SeverityRank(x) = HR!SeverityRank(y) => x = y
    /\ \A i \in 1..4 : HR!Severities[i] \in Grades /\ HR!SeverityRank(HR!Severities[i]) = i
BY SeverityRanks DEF Grades, HR!Severities

LEMMA UrgentOrders ==
    ASSUME NEW a, NEW b, NEW c, IsIssue(a), IsIssue(b), IsIssue(c)
    PROVE  /\ HR!Urgent(a, b) => ~HR!Urgent(b, a)
           /\ HR!Urgent(a, b) /\ ~HR!Urgent(c, b) => HR!Urgent(a, c)
<1>1. /\ a.rank \in Int /\ b.rank \in Int /\ c.rank \in Int
      /\ a.severity \in Grades /\ b.severity \in Grades /\ c.severity \in Grades
  BY DEF IsIssue
<1> DEFINE p == HR!SeverityRank(a.severity)
           q == HR!SeverityRank(b.severity)
           r == HR!SeverityRank(c.severity)
<1>2. /\ p \in 1..4 /\ q \in 1..4 /\ r \in 1..4
      /\ (a.severity = b.severity <=> p = q) /\ (b.severity = c.severity <=> q = r)
      /\ (a.severity = c.severity <=> p = r)
  BY <1>1, RankedSeverities
<1>3. /\ HR!Urgent(a, b) <=> p < q \/ (p = q /\ a.rank > b.rank)
      /\ HR!Urgent(b, a) <=> q < p \/ (p = q /\ b.rank > a.rank)
      /\ HR!Urgent(c, b) <=> r < q \/ (q = r /\ c.rank > b.rank)
      /\ HR!Urgent(a, c) <=> p < r \/ (p = r /\ a.rank > c.rank)
  BY <1>2 DEF HR!Urgent
<1> HIDE DEF p, q, r
<1>. QED BY <1>1, <1>2, <1>3

-----------------------------------------------------------------------------
\* The first and the last of a set of numbers.
LEMMA Extremes ==
    ASSUME NEW n \in Nat, NEW S \in SUBSET (0..n), S # {}
    PROVE  /\ HR!Max(S) \in S /\ HR!Min(S) \in S
         /\ \A y \in S : y <= HR!Max(S) /\ HR!Min(S) <= y
<1> DEFINE N == {k \in Nat : \A T \in SUBSET (0..k) : T # {} =>
                   /\ \E x \in T : \A y \in T : x >= y
                   /\ \E x \in T : \A y \in T : x <= y}
<1>1. 0 \in N
  <2> SUFFICES ASSUME NEW T \in SUBSET (0..0), T # {}
               PROVE  /\ \E x \in T : \A y \in T : x >= y
                      /\ \E x \in T : \A y \in T : x <= y
    OBVIOUS
  <2>1. PICK x \in T : TRUE
    OBVIOUS
  <2>2. \A y \in T : y = 0
    OBVIOUS
  <2>3. \A y \in T : x >= y /\ x <= y
    BY <2>2
  <2>. QED BY <2>3
<1>2. ASSUME NEW k \in Nat, k \in N PROVE k + 1 \in N
  <2> SUFFICES ASSUME NEW T \in SUBSET (0..(k + 1)), T # {}
               PROVE  /\ \E x \in T : \A y \in T : x >= y
                      /\ \E x \in T : \A y \in T : x <= y
    OBVIOUS
  <2> DEFINE U == T \cap (0..k)
  <2>1. CASE U = {}
    <3>0. \A y \in T : y = k + 1
      <4>1. ASSUME NEW y \in T PROVE y = k + 1
        <5>1. y \in 0..(k + 1) /\ y \notin 0..k
          BY <2>1
        <5>. QED BY <5>1
      <4>. QED BY <4>1
    <3>1. T = {k + 1}
      BY <3>0
    <3>. QED BY <3>1
  <2>2. CASE U # {}
    <3>1. PICK x \in U : \A y \in U : x >= y
      BY <1>2, <2>2
    <3>2. PICK z \in U : \A y \in U : z <= y
      BY <1>2, <2>2
    <3>3. \A y \in T : y \in U \/ y = k + 1
      OBVIOUS
    <3>4. z \in T /\ \A y \in T : z <= y
      BY <3>2, <3>3
    <3>5. \E w \in T : \A y \in T : w >= y
      <4>1. CASE k + 1 \in T
        BY <4>1
      <4>2. CASE k + 1 \notin T
        BY <3>1, <3>3, <4>2
      <4>. QED BY <4>1, <4>2
    <3>. QED BY <3>4, <3>5
  <2>. QED BY <2>1, <2>2
<1>3. n \in N
  BY <1>1, <1>2, Adds!SetInduction
<1>4. (\E x \in S : \A y \in S : x >= y) /\ (\E x \in S : \A y \in S : x <= y)
  BY <1>3
<1>5. HR!Max(S) \in S /\ (\A y \in S : HR!Max(S) >= y) /\ HR!Min(S) \in S /\ (\A y \in S : HR!Min(S) <= y)
  BY <1>4 DEF HR!Max, HR!Min
<1>0. \A y \in S : y \in 0..n
  OBVIOUS
<1>6. \A y \in S : y \in Int
  BY <1>0
<1>7. \A x \in S : (\A y \in S : x >= y) => \A y \in S : y <= x
  BY <1>6
<1>. QED BY <1>5, <1>7

Sorted(list) == \A i, j \in 1..Len(list) : i < j => ~HR!Urgent(list[j], list[i])

LEMMA SortInSorts ==
    ASSUME NEW T, Graded(T), NEW r \in T, NEW U \in SUBSET T, NEW list, Lists(list, U), Sorted(list)
    PROVE  Lists(HR!SortIn(r, list), U \cup {r}) /\ Sorted(HR!SortIn(r, list))
<1> DEFINE I == {i \in DOMAIN list : ~HR!Urgent(r, list[i])}
           c == Cardinality(I)
           m == HR!SortIn(r, list)
<1>0. list \in Seq(U) /\ Len(list) \in Nat /\ DOMAIN list = 1..Len(list)
      /\ \A i \in 1..Len(list) : list[i] \in U /\ IsIssue(list[i])
  <2>1. list \in Seq(U)
    BY DEF Lists
  <2>. QED BY <2>1 DEF Graded
<1>00. IsIssue(r)
  BY DEF Graded
<1>1. c \in 0..Len(list) /\ I = 1..c
  <2>1. \A j \in I : \A i \in 1..Len(list) : i < j => i \in I
    <3> SUFFICES ASSUME NEW j \in I, NEW i \in 1..Len(list), i < j PROVE ~HR!Urgent(r, list[i])
      BY <1>0
    <3>1. j \in 1..Len(list) /\ ~HR!Urgent(r, list[j])
      BY <1>0
    <3>2. ~HR!Urgent(list[j], list[i])
      BY <3>1 DEF Sorted
    <3>. QED BY <1>0, <1>00, <3>1, <3>2, UrgentOrders
  <2>2. I \in SUBSET (1..Len(list))
    BY <1>0
  <2> HIDE DEF I
  <2>3. CASE I = {}
    <3>1. c = 0 /\ 1..0 = {}
      BY <2>3, FS_EmptySet
    <3>. QED BY <1>0, <2>3, <3>1
  <2>4. CASE I # {}
    <3> DEFINE k == HR!Max(I)
    <3>1. I \in SUBSET (0..Len(list))
      BY <2>2
    <3>2. k \in I /\ \A i \in I : i <= k
      BY <1>0, <2>4, <3>1, Extremes
    <3> HIDE DEF k
    <3>3. k \in 1..Len(list)
      BY <2>2, <3>2
    <3>4. \A i \in 1..k : i \in I
      <4> SUFFICES ASSUME NEW i \in 1..k PROVE i \in I
        OBVIOUS
      <4>1. i \in 1..Len(list) /\ (i = k \/ i < k)
        BY <1>0, <3>3
      <4>. QED BY <2>1, <3>2, <4>1
    <3>5. \A i \in I : i \in 1..k
      BY <1>0, <2>2, <3>2, <3>3
    <3>6. I = 1..k
      BY <3>4, <3>5
    <3>7. Cardinality(1..k) = k
      BY <1>0, <3>3, FS_Interval
    <3>. QED BY <1>0, <3>3, <3>6, <3>7
  <2>. QED BY <2>3, <2>4
<1>2. /\ \A i \in 1..c : ~HR!Urgent(r, list[i])
      /\ \A i \in 1..Len(list) : i > c => HR!Urgent(r, list[i])
  <2>1. \A i \in 1..Len(list) : i \in 1..c <=> ~HR!Urgent(r, list[i])
    BY <1>0, <1>1
  <2>. QED BY <1>0, <1>1, <2>1
<1>3. m = SubSeq(list, 1, c) \o <<r>> \o SubSeq(list, 1 + c, Len(list))
  <2>1. m = SubSeq(list, 1, (1 + c) - 1) \o <<r>> \o SubSeq(list, 1 + c, Len(list))
    BY SameCounting DEF HR!SortIn, HR!InsertAt
  <2>2. (1 + c) - 1 = c
    BY <1>1
  <2>. QED BY <2>1, <2>2
<1> HIDE DEF c, m, I
<1> DEFINE V == U \cup {r}
<1>4. /\ m \in Seq(V) /\ Len(m) = Len(list) + 1
      /\ \A i \in 1..c : m[i] = list[i]
      /\ m[c + 1] = r
      /\ \A i \in (c + 2)..(Len(list) + 1) : m[i] = list[i - 1]
  <2> DEFINE A == SubSeq(list, 1, c)
             B == SubSeq(list, 1 + c, Len(list))
  <2>0. list \in Seq(V) /\ c \in Nat /\ c <= Len(list) /\ Len(list) \in Nat
    BY <1>0, <1>1
  <2>1. A \in Seq(V) /\ Len(A) = c /\ \A i \in 1..c : A[i] = list[i]
    BY <2>0
  <2>2. B \in Seq(V) /\ Len(B) = Len(list) - c /\ \A i \in 1..(Len(list) - c) : B[i] = list[c + i]
    BY <2>0
  <2>3. <<r>> \in Seq(V) /\ Len(<<r>>) = 1 /\ <<r>>[1] = r
    OBVIOUS
  <2> HIDE DEF A, B
  <2> DEFINE C == A \o <<r>>
  <2>4. C \in Seq(V) /\ Len(C) = c + 1 /\ (\A i \in 1..c : C[i] = A[i]) /\ C[c + 1] = r
    BY <2>0, <2>1, <2>3
  <2> HIDE DEF C
  <2>5. /\ C \o B \in Seq(V) /\ Len(C \o B) = (c + 1) + (Len(list) - c)
        /\ \A i \in 1..(c + 1) : (C \o B)[i] = C[i]
        /\ \A i \in (c + 2)..(Len(list) + 1) : (C \o B)[i] = B[i - (c + 1)]
    <3> HIDE DEF V
    <3>0. C \o B \in Seq(V) /\ Len(C \o B) = Len(C) + Len(B)
      BY <2>2, <2>4
    <3>1. C \o B \in Seq(V) /\ Len(C \o B) = (c + 1) + (Len(list) - c)
      BY <2>2, <2>4, <3>0
    <3>2. ASSUME NEW i \in 1..(c + 1) PROVE (C \o B)[i] = C[i]
      BY <2>0, <2>2, <2>4
    <3>3. ASSUME NEW i \in (c + 2)..(Len(list) + 1) PROVE (C \o B)[i] = B[i - (c + 1)]
      <4>1. i \in 1..(Len(C) + Len(B)) /\ i > Len(C) /\ Len(C) = c + 1
        BY <2>0, <2>2, <2>4
      <4>2. (C \o B)[i] = IF i <= Len(C) THEN C[i] ELSE B[i - Len(C)]
        BY <2>2, <2>4, <4>1, ConcatProperties
      <4>3. ~(i <= Len(C))
        BY <2>0, <4>1
      <4>. QED BY <4>1, <4>2, <4>3
    <3>. QED BY <3>1, <3>2, <3>3
  <2>6. m = C \o B
    BY <1>3 DEF A, B, C
  <2>7. \A i \in (c + 2)..(Len(list) + 1) :
          B[i - (c + 1)] = list[i - 1]
    <3> SUFFICES ASSUME NEW i \in (c + 2)..(Len(list) + 1) PROVE B[i - (c + 1)] = list[i - 1]
      OBVIOUS
    <3>1. i - (c + 1) \in 1..(Len(list) - c) /\ c + (i - (c + 1)) = i - 1
      BY <2>0
    <3>. QED BY <2>2, <3>1
  <2>. QED BY <2>0, <2>1, <2>4, <2>5, <2>6, <2>7
<1>5. Lists(m, V)
  <2> SUFFICES ASSUME NEW x \in V PROVE \E i \in 1..Len(m) : m[i] = x
    BY <1>4 DEF Lists
  <2>1. CASE x = r
    <3>1. c + 1 \in 1..Len(m)
      BY <1>0, <1>1, <1>4
    <3>. QED BY <1>4, <2>1, <3>1
  <2>2. CASE x # r
    <3>1. PICK i \in 1..Len(list) : list[i] = x
      BY <2>2 DEF Lists
    <3>2. CASE i <= c
      <4>1. i \in 1..c /\ i \in 1..Len(m)
        BY <1>0, <1>1, <1>4, <3>2
      <4>. QED BY <1>4, <3>1, <4>1
    <3>3. CASE i > c
      <4>1. i + 1 \in (c + 2)..(Len(list) + 1) /\ i + 1 \in 1..Len(m) /\ (i + 1) - 1 = i
        BY <1>0, <1>1, <1>4, <3>3
      <4>. QED BY <1>4, <3>1, <4>1
    <3>. QED BY <1>0, <1>1, <3>2, <3>3
  <2>. QED BY <2>1, <2>2
<1>6. Sorted(m)
  <2> SUFFICES ASSUME NEW i \in 1..Len(m), NEW j \in 1..Len(m), i < j
               PROVE  ~HR!Urgent(m[j], m[i])
    BY DEF Sorted
  <2>0. i \in Int /\ j \in Int /\ c \in Int /\ i <= Len(list) + 1 /\ j <= Len(list) + 1
    BY <1>0, <1>1, <1>4
  <2>1. CASE j <= c
    <3>1. i \in 1..c /\ j \in 1..c /\ i \in 1..Len(list) /\ j \in 1..Len(list)
      BY <1>0, <1>1, <2>0, <2>1
    <3>. QED BY <1>4, <3>1 DEF Sorted
  <2>2. CASE j = c + 1
    <3>1. i \in 1..c
      BY <2>0, <2>2
    <3>. QED BY <1>2, <1>4, <2>2, <3>1
  <2>3. CASE j > c + 1 /\ i <= c
    <3>1. i \in 1..c /\ j \in (c + 2)..(Len(list) + 1) /\ i \in 1..Len(list)
          /\ j - 1 \in 1..Len(list) /\ i < j - 1
      BY <1>0, <1>1, <2>0, <2>3
    <3>. QED BY <1>4, <3>1 DEF Sorted
  <2>4. CASE j > c + 1 /\ i = c + 1
    <3>1. j \in (c + 2)..(Len(list) + 1) /\ j - 1 \in 1..Len(list) /\ j - 1 > c
      BY <1>0, <1>1, <2>0, <2>4
    <3>2. HR!Urgent(r, list[j - 1]) /\ IsIssue(list[j - 1])
      BY <1>0, <1>2, <3>1
    <3>. QED BY <1>00, <1>4, <2>4, <3>1, <3>2, UrgentOrders
  <2>5. CASE i > c + 1
    <3>1. i \in (c + 2)..(Len(list) + 1) /\ j \in (c + 2)..(Len(list) + 1)
          /\ i - 1 \in 1..Len(list) /\ j - 1 \in 1..Len(list) /\ i - 1 < j - 1
      BY <1>0, <1>1, <2>0, <2>5
    <3>. QED BY <1>4, <3>1 DEF Sorted
  <2>. QED BY <2>0, <2>1, <2>2, <2>3, <2>4, <2>5
<1>. QED BY <1>5, <1>6 DEF m

LEMMA RecsSorted ==
    ASSUME NEW S, Graded(S), IsFiniteSet(S)
    PROVE  Lists(HR!FoldSet(HR!SortIn, <<>>, S), S) /\ Sorted(HR!FoldSet(HR!SortIn, <<>>, S))
<1> DEFINE Done(U) == Lists(Sorts!FoldOver(<<>>, U), U) /\ Sorted(Sorts!FoldOver(<<>>, U))
           N == {n \in Nat : \A U \in SUBSET S : Cardinality(U) = n => Done(U)}
<1>0. ASSUME NEW U \in SUBSET S
      PROVE  IsFiniteSet(U) /\ Cardinality(U) \in Nat /\ (Cardinality(U) = 0 <=> U = {})
  BY FS_Subset, FS_CardinalityType, FS_EmptySet
<1>1. 0 \in N
  <2> SUFFICES ASSUME NEW U \in SUBSET S, Cardinality(U) = 0 PROVE Done(U)
    OBVIOUS
  <2>1. U = {}
    BY <1>0
  <2>2. Sorts!FoldOver(<<>>, {}) = <<>>
    BY Sorts!FoldOverEmpty
  <2>3. <<>> \in Seq({}) /\ Len(<<>>) = 0
    OBVIOUS
  <2>4. Lists(<<>>, {})
    BY <2>3 DEF Lists
  <2>5. Sorted(<<>>)
    BY <2>3, 1..0 = {} DEF Sorted
  <2>. QED BY <2>1, <2>2, <2>4, <2>5
<1>2. ASSUME NEW n \in Nat, n \in N PROVE n + 1 \in N
  <2> SUFFICES ASSUME NEW U \in SUBSET S, Cardinality(U) = n + 1 PROVE Done(U)
    OBVIOUS
  <2>1. IsFiniteSet(U) /\ U # {}
    BY <1>0
  <2>2. PICK x \in U : Sorts!FoldOver(<<>>, U) = HR!SortIn(x, Sorts!FoldOver(<<>>, U \ {x}))
    BY <2>1, FiniteThere, Sorts!FoldOverStep
  <2>3. Cardinality(U \ {x}) = n
    <3>1. Cardinality(U \ {x}) = Cardinality(U) - 1
      BY <2>1, FS_RemoveElement
    <3>. QED BY <3>1
  <2>4. Done(U \ {x})
    BY <1>2, <2>3
  <2>5. (U \ {x}) \cup {x} = U /\ x \in S /\ U \ {x} \in SUBSET S
    OBVIOUS
  <2>. QED BY <2>2, <2>4, <2>5, SortInSorts
<1>3. Nat \subseteq N
  BY <1>1, <1>2, Sorts!SetInduction
<1>4. Cardinality(S) \in N
  BY <1>0, <1>3
<1>5. Done(S)
  BY <1>4
<1>. QED BY <1>5 DEF Sorts!FoldOver, Sorts!FoldSet, HR!FoldSet, HR!MapThenFoldSet, Sorts!MapThenFoldSet

-----------------------------------------------------------------------------
LEMMA IssueFields ==
    ASSUME NEW source, NEW kind, NEW id, NEW t, NEW severity, NEW lane, NEW rank, NEW fix
    PROVE  LET x == HR!Issue(source, kind, id, t, severity, lane, rank, fix)
           IN  /\ x = [source |-> x.source, kind |-> x.kind, id |-> x.id, table |-> x.table,
                       severity |-> x.severity, lane |-> x.lane, rank |-> x.rank, fix |-> x.fix]
               /\ x.source = source /\ x.kind = kind /\ x.id = <<source, kind, id>>
               /\ x.table = t /\ x.severity = severity /\ x.lane = lane /\ x.rank = rank
               /\ x.fix = fix
BY DEF HR!Issue

LEMMA IssueIs ==
    ASSUME NEW source, NEW kind, NEW id, NEW t, NEW severity \in Grades, NEW lane \in Lanes,
           NEW rank \in Int, NEW fix,
           source = "advisor" => lane = "opportunity",
           source = "static" /\ kind = "heap_table" => id = <<Letters[t], <<>>>>
    PROVE  IsIssue(HR!Issue(source, kind, id, t, severity, lane, rank, fix))
<1> DEFINE x == HR!Issue(source, kind, id, t, severity, lane, rank, fix)
<1>1. /\ x = [source |-> x.source, kind |-> x.kind, id |-> x.id, table |-> x.table,
                severity |-> x.severity, lane |-> x.lane, rank |-> x.rank, fix |-> x.fix]
      /\ x.source = source /\ x.kind = kind /\ x.id = <<source, kind, id>>
      /\ x.table = t /\ x.severity = severity /\ x.lane = lane /\ x.rank = rank
  BY IssueFields
<1> HIDE DEF x
<1>2. IsIssue(x)
  BY <1>1 DEF IsIssue, HR!IsHeap
<1>. QED BY <1>2 DEF x

LEMMA BaseTyped == \A x \in Grades : HR!Base[x] \in Int
BY DEF HR!Base, Grades

LEMMA MinOfTwo == ASSUME NEW a \in Int, NEW b \in Int PROVE HR!Min({a, b}) \in {a, b}
<1>1. \E x \in {a, b} : \A y \in {a, b} : x =< y
  OBVIOUS
<1>. QED BY <1>1 DEF HR!Min

LEMMA TableTyped ==
    ASSUME HR!HealthAssumption, server \in Servers, NEW t \in Tables, NEW failed
    PROVE  /\ server.tables[t].rows \in Nat
           /\ HR!Missing(t, failed) \in SUBSET HR!Advised /\ IsFiniteSet(HR!Missing(t, failed))
           /\ HR!UnusedIndexes(t, failed) \in SUBSET HR!Advised /\ IsFiniteSet(HR!UnusedIndexes(t, failed))
           /\ HR!DuplicateIndexes(t, failed) \in SUBSET HR!Advised
           /\ IsFiniteSet(HR!DuplicateIndexes(t, failed))
<1>1. /\ server.tables[t] \in HR!TableFacts
      /\ IsFiniteSet(server.tables[t].missing)
      /\ IsFiniteSet(server.tables[t].unused)
      /\ IsFiniteSet(server.tables[t].duplicates)
  BY SameCounting DEF HR!HealthAssumption
<1>. QED BY <1>1, FS_EmptySet DEF HR!TableFacts, HR!Missing, HR!UnusedIndexes, HR!DuplicateIndexes

LEMMA ImpactTyped ==
    ASSUME HR!HealthAssumption, server \in Servers, NEW t \in Tables, NEW failed,
           NEW severity \in Grades
    PROVE  HR!Impact(severity, HR!Rows(t, failed)) \in Int
<1>1. server.tables[t].rows \in Nat
  BY TableTyped
<1>2. HR!Rows(t, failed) = <<>> \/ HR!Rows(t, failed) = <<server.tables[t].rows>>
  BY DEF HR!Rows
<1>3. CASE HR!Rows(t, failed) = <<>>
  BY <1>3, BaseTyped DEF HR!Impact
<1>4. CASE HR!Rows(t, failed) = <<server.tables[t].rows>>
  <2> DEFINE n == HR!Rows(t, failed)[1]
  <2>1. HR!Rows(t, failed) # <<>> /\ n \in Nat
    BY <1>1, <1>4
  <2> HIDE DEF n
  <2>2. HR!Min({111 * n, 999}) \in Int
    BY <2>1, MinOfTwo
  <2>. QED BY <2>1, <2>2, BaseTyped DEF HR!Impact, n
<1>. QED BY <1>2, <1>3, <1>4

LEMMA FindingIs ==
    ASSUME HR!HealthAssumption, server \in Servers, NEW t \in Tables, NEW failed,
           NEW severity \in Grades, NEW rule, NEW about, rule = "heap_table" => about = <<>>
    PROVE  IsIssue(HR!Finding(rule, t, about, severity, failed))
<1> DEFINE lane == IF rule \in HR!Structural \/ severity \notin {"critical", "error"}
                   THEN "opportunity" ELSE "reliability"
<1>1. lane \in Lanes
  BY DEF Lanes
<1>2. HR!Impact(severity, HR!Rows(t, failed)) \in Int
  BY ImpactTyped
<1>3. HR!Finding(rule, t, about, severity, failed)
        = HR!Issue("static", rule, <<Letters[t], about>>, t, severity, lane,
                HR!Impact(severity, HR!Rows(t, failed)), {})
  BY DEF HR!Finding
<1> HIDE DEF lane
<1>. QED BY <1>1, <1>2, <1>3, IssueIs

LEMMA RecIs ==
    ASSUME NEW kind, NEW about, NEW t, NEW r \in HR!Advised
    PROVE  IsIssue(HR!Rec(kind, about, t, r))
<1>1. r.gain \in Int /\ r.severity \in Grades /\ "opportunity" \in Lanes
  BY SeveritySet DEF HR!Advised, Lanes
<1>. QED BY <1>1, IssueIs DEF HR!Rec

LEMMA FiniteUnion ==
    ASSUME NEW f, \A t \in Tables : IsFiniteSet(f[t]), HR!HealthAssumption
    PROVE  IsFiniteSet(UNION {f[t] : t \in Tables})
<1>1. IsFiniteSet({f[t] : t \in Tables})
  BY FiniteImage, SameCounting DEF HR!HealthAssumption
<1>. QED BY <1>1, FS_UNION

LEMMA AllRecsGraded ==
    ASSUME HR!HealthAssumption, server \in Servers, NEW failed
    PROVE  Graded(HR!AllRecs(failed)) /\ IsFiniteSet(HR!AllRecs(failed))
<1> DEFINE A(t) == {HR!Rec("missing_index", <<t>>, t, r) : r \in HR!Missing(t, failed)}
           B(t) == {HR!Rec("unused_index", <<t, r.fix>>, t, r) : r \in HR!UnusedIndexes(t, failed)}
           C(t) == {HR!Rec("duplicate_index", <<t, r.fix>>, t, r) : r \in HR!DuplicateIndexes(t, failed)}
           f == [t \in Tables |-> A(t) \cup B(t) \cup C(t)]
<1>1. ASSUME NEW t \in Tables
      PROVE  Graded(A(t)) /\ IsFiniteSet(A(t))
  <2> DEFINE g == [r \in HR!Missing(t, failed) |-> HR!Rec("missing_index", <<t>>, t, r)]
  <2>1. HR!Missing(t, failed) \in SUBSET HR!Advised /\ IsFiniteSet(HR!Missing(t, failed))
    BY TableTyped
  <2>2. A(t) = {g[r] : r \in HR!Missing(t, failed)}
    OBVIOUS
  <2>3. Graded(A(t))
    BY <2>1, RecIs DEF Graded
  <2> HIDE DEF g
  <2>. QED BY <2>1, <2>2, <2>3, FiniteImage
<1>2. ASSUME NEW t \in Tables
      PROVE  Graded(B(t)) /\ IsFiniteSet(B(t))
  <2> DEFINE g == [r \in HR!UnusedIndexes(t, failed) |-> HR!Rec("unused_index", <<t, r.fix>>, t, r)]
  <2>1. HR!UnusedIndexes(t, failed) \in SUBSET HR!Advised /\ IsFiniteSet(HR!UnusedIndexes(t, failed))
    BY TableTyped
  <2>2. B(t) = {g[r] : r \in HR!UnusedIndexes(t, failed)}
    OBVIOUS
  <2>3. Graded(B(t))
    BY <2>1, RecIs DEF Graded
  <2> HIDE DEF g
  <2>. QED BY <2>1, <2>2, <2>3, FiniteImage
<1>3. ASSUME NEW t \in Tables
      PROVE  Graded(C(t)) /\ IsFiniteSet(C(t))
  <2> DEFINE g == [r \in HR!DuplicateIndexes(t, failed) |-> HR!Rec("duplicate_index", <<t, r.fix>>, t, r)]
  <2>1. HR!DuplicateIndexes(t, failed) \in SUBSET HR!Advised /\ IsFiniteSet(HR!DuplicateIndexes(t, failed))
    BY TableTyped
  <2>2. C(t) = {g[r] : r \in HR!DuplicateIndexes(t, failed)}
    OBVIOUS
  <2>3. Graded(C(t))
    BY <2>1, RecIs DEF Graded
  <2> HIDE DEF g
  <2>. QED BY <2>1, <2>2, <2>3, FiniteImage
<1>4. HR!AllRecs(failed) = UNION {f[t] : t \in Tables}
  BY DEF HR!AllRecs
<1> HIDE DEF A, B, C
<1>5. \A t \in Tables : Graded(f[t]) /\ IsFiniteSet(f[t])
  <2>1. ASSUME NEW t \in Tables PROVE Graded(f[t]) /\ IsFiniteSet(f[t])
    <3>1. IsFiniteSet(A(t) \cup B(t))
      BY <1>1, <1>2, FS_Union
    <3>2. IsFiniteSet(A(t) \cup B(t) \cup C(t))
      BY <1>3, <3>1, FS_Union
    <3>3. Graded(A(t) \cup B(t) \cup C(t))
      BY <1>1, <1>2, <1>3 DEF Graded
    <3>. QED BY <3>2, <3>3
  <2>. QED BY <2>1
<1> HIDE DEF f
<1>6. Graded(HR!AllRecs(failed))
  BY <1>4, <1>5 DEF Graded
<1>. QED BY <1>4, <1>5, <1>6, FiniteUnion

LEMMA FindingsGraded ==
    ASSUME HR!HealthAssumption, server \in Servers, NEW failed
    PROVE  Graded(HR!Findings(failed)) /\ IsFiniteSet(HR!Findings(failed))
<1> DEFINE Of(rule, t, S, severity) == {HR!Finding(rule, t, r.fix, severity, failed) : r \in S}
           Z(t) == HR!StructuralFindings(t, failed)
           A(t) == Of("unused_index", t, HR!UnusedIndexes(t, failed), "warning")
           B(t) == Of("duplicate_index", t, HR!DuplicateIndexes(t, failed), "error")
           C(t) == Of("missing_index", t, HR!Missing(t, failed), "info")
           f == [t \in Tables |-> Z(t) \cup A(t) \cup B(t) \cup C(t)]
<1>0. ASSUME NEW t \in Tables, NEW S, IsFiniteSet(S), NEW rule, rule # "heap_table",
             NEW severity \in Grades
      PROVE  Graded(Of(rule, t, S, severity)) /\ IsFiniteSet(Of(rule, t, S, severity))
  <2> DEFINE g == [r \in S |-> HR!Finding(rule, t, r.fix, severity, failed)]
  <2>1. Of(rule, t, S, severity) = {g[r] : r \in S}
    OBVIOUS
  <2>2. Graded(Of(rule, t, S, severity))
    BY <1>0, FindingIs DEF Graded
  <2> HIDE DEF g
  <2>3. IsFiniteSet({g[r] : r \in S})
    BY <1>0, FiniteImage
  <2>. QED BY <2>1, <2>2, <2>3
<1>1. ASSUME NEW t \in Tables
      PROVE  Graded(Z(t)) /\ IsFiniteSet(Z(t))
  <2> DEFINE sh == IF server.tables[t].rows >= 6 THEN "error"
                  ELSE IF server.tables[t].rows >= 5 THEN "warning" ELSE "info"
             sp == IF server.tables[t].rows >= 6 THEN "error" ELSE "warning"
             h == HR!Finding("heap_table", t, <<>>, sh, failed)
             p == HR!Finding("no_primary_key", t, <<>>, sp, failed)
  <2>1. Graded({h, p})
    <3>1. sh \in Grades /\ sp \in Grades
      BY DEF Grades
    <3> HIDE DEF sh, sp
    <3>. QED BY <3>1, FindingIs DEF Graded
  <2>2. Z(t) \in SUBSET {h, p}
    BY DEF HR!StructuralFindings
  <2> HIDE DEF h, p
  <2>3. IsFiniteSet({h, p})
    <3>1. {h, p} = {h} \cup {p}
      OBVIOUS
    <3>2. IsFiniteSet({h})
      BY FS_Singleton
    <3>. QED BY <3>1, <3>2, FS_AddElement
  <2>4. IsFiniteSet(Z(t))
    BY <2>2, <2>3, FS_Subset
  <2>. QED BY <2>1, <2>2, <2>4 DEF Graded
<1>2. ASSUME NEW t \in Tables
      PROVE  /\ Graded(A(t)) /\ IsFiniteSet(A(t))
             /\ Graded(B(t)) /\ IsFiniteSet(B(t))
             /\ Graded(C(t)) /\ IsFiniteSet(C(t))
  <2>1. "warning" \in Grades /\ "error" \in Grades /\ "info" \in Grades
    BY DEF Grades
  <2>2. /\ IsFiniteSet(HR!UnusedIndexes(t, failed)) /\ IsFiniteSet(HR!DuplicateIndexes(t, failed))
        /\ IsFiniteSet(HR!Missing(t, failed))
    BY TableTyped
  <2> HIDE DEF Of
  <2>. QED BY <1>0, <2>1, <2>2
<1>3. HR!Findings(failed) = UNION {f[t] : t \in Tables}
  BY DEF HR!Findings
<1> HIDE DEF A, B, C, Z
<1>4. \A t \in Tables : Graded(f[t]) /\ IsFiniteSet(f[t])
  <2>1. ASSUME NEW t \in Tables PROVE Graded(f[t]) /\ IsFiniteSet(f[t])
    <3>1. IsFiniteSet(Z(t) \cup A(t))
      BY <1>1, <1>2, FS_Union
    <3>2. IsFiniteSet(Z(t) \cup A(t) \cup B(t))
      BY <1>2, <3>1, FS_Union
    <3>3. IsFiniteSet(Z(t) \cup A(t) \cup B(t) \cup C(t))
      BY <1>2, <3>2, FS_Union
    <3>4. Graded(Z(t) \cup A(t) \cup B(t) \cup C(t))
      BY <1>1, <1>2 DEF Graded
    <3>. QED BY <3>3, <3>4
  <2>. QED BY <2>1
<1> HIDE DEF f
<1>5. Graded(HR!Findings(failed))
  BY <1>3, <1>4 DEF Graded
<1>. QED BY <1>3, <1>4, <1>5, FiniteUnion

LEMMA GradedConcat ==
    ASSUME NEW a, IsGradedList(a), NEW b, IsGradedList(b)
    PROVE  IsGradedList(a \o b)
<1>1. PICK S : Graded(S) /\ a \in Seq(S)
  BY DEF IsGradedList
<1>2. PICK U : Graded(U) /\ b \in Seq(U)
  BY DEF IsGradedList
<1>3. a \in Seq(S \cup U) /\ b \in Seq(S \cup U)
  BY <1>1, <1>2
<1>4. a \o b \in Seq(S \cup U)
  BY <1>3
<1>5. Graded(S \cup U)
  BY <1>1, <1>2 DEF Graded
<1>. QED BY <1>4, <1>5 DEF IsGradedList

LEMMA LenConcat ==
    ASSUME NEW a, IsGradedList(a), NEW b, IsGradedList(b)
    PROVE  Len(a \o b) = Len(a) + Len(b) /\ Len(a) \in Nat /\ Len(b) \in Nat
<1>1. PICK S : a \in Seq(S)
  BY DEF IsGradedList
<1>2. PICK U : b \in Seq(U)
  BY DEF IsGradedList
<1>3. a \in Seq(S \cup U) /\ b \in Seq(S \cup U)
  BY <1>1, <1>2
<1>. QED BY <1>3

LEMMA BundleGraded ==
    ASSUME HR!HealthAssumption, server \in Servers, NEW failed
    PROVE  IsGradedList(HR!PullDmvBundle(failed).issues)
<1>1. HR!Recs(failed) \in Seq(HR!AllRecs(failed))
  BY AllRecsGraded, RecsSorted DEF HR!Recs, Lists
<1>2. HR!Listed(HR!Findings(failed)) \in Seq(HR!Findings(failed))
  BY FindingsGraded, ListedIsSeq DEF Lists
<1>3. IsGradedList(HR!Recs(failed)) /\ IsGradedList(HR!Listed(HR!Findings(failed)))
  BY <1>1, <1>2, AllRecsGraded, FindingsGraded DEF IsGradedList
<1>. QED BY <1>3, GradedConcat DEF HR!PullDmvBundle

-----------------------------------------------------------------------------
\* A finite set of checks of known severities.
Sane(S) == IsFiniteSet(S) /\ \A c \in S : c.severity \in Grades

LEMMA SaneUnion == ASSUME NEW S, Sane(S), NEW T, Sane(T) PROVE Sane(S \cup T)
BY FS_Union DEF Sane

LEMMA SaneEmpty == Sane({})
BY FS_EmptySet DEF Sane

LEMMA SaneCheck ==
    ASSUME NEW kind, NEW id, NEW severity \in Grades, NEW about
    PROVE  Sane({HR!Check(kind, id, severity, about)})
<1>1. IsFiniteSet({HR!Check(kind, id, severity, about)})
  BY FS_Singleton
<1>. QED BY <1>1 DEF Sane, HR!Check

LEMMA SaneConfig ==
    ASSUME NEW id, NEW severity \in Grades, NEW holds PROVE Sane(HR!Config(id, severity, holds))
BY SaneCheck, SaneEmpty DEF HR!Config

LEMMA SaneChecks ==
    ASSUME NEW s, IsFiniteSet(s.replicas), IsFiniteSet(s.jobs), NEW failed
    PROVE  Sane(HR!Evaluate(HR!PullOperational(s, failed)))
<1> DEFINE f == HR!PullOperational(s, failed)
<1>0. IsFiniteSet(f.replicas) /\ (HR!Known(f.jobs) => IsFiniteSet(f.jobs[1]))
  BY FS_EmptySet DEF HR!PullOperational, HR!Known
<1> HIDE DEF f
<1>g. "critical" \in Grades /\ "error" \in Grades /\ "warning" \in Grades /\ "info" \in Grades
  BY DEF Grades
<1>1. Sane(HR!Parallelism(f))
  BY SaneConfig, SaneUnion, <1>g DEF HR!Parallelism
<1>2. Sane(HR!DatabaseSettings(f))
  <2>1. (IF HR!Is(f.pageVerify, "NONE") THEN "error" ELSE "warning") \in Grades
    BY <1>g
  <2>. QED BY SaneConfig, SaneUnion, <1>g, <2>1 DEF HR!DatabaseSettings
<1>3. Sane(HR!TransactionLog(f))
  BY SaneCheck, SaneEmpty, <1>g DEF HR!TransactionLog
<1>4. Sane(HR!Backups(f))
  <2> DEFINE B(id, severity, holds) == IF holds THEN {HR!Check("backup", id, severity, "backup")} ELSE {}
  <2>1. ASSUME NEW id, NEW severity \in Grades, NEW holds PROVE Sane(B(id, severity, holds))
    BY SaneCheck, SaneEmpty
  <2> DEFINE b == f.backups[1]
             logged == HR!Is(f.recovery, "FULL") \/ HR!Is(f.recovery, "BULK_LOGGED")
             all == B("no_full_backup", "error", b.full = <<>>)
               \cup B("full_backup_stale", "warning", HR!Stale(b.full, HR!WeekHours))
               \cup B("no_log_backup", "warning", logged /\ b.log = <<>>)
               \cup B("log_backup_stale", "warning", logged /\ HR!Stale(b.log, 24))
  <2>2. HR!Backups(f) = IF ~HR!Known(f.backups) THEN {} ELSE all
    BY DEF HR!Backups
  <2>3. Sane(all)
    <3> HIDE DEF B, b, logged
    <3>. QED BY <2>1, SaneUnion, <1>g
  <2> HIDE DEF all
  <2>. QED BY <2>2, <2>3, SaneEmpty
<1>5. Sane(HR!Integrity(f))
  BY SaneCheck, SaneEmpty, <1>g DEF HR!Integrity
<1>6. Sane(HR!Replicas(f))
  <2> DEFINE R == {r \in f.replicas :
                 \/ r.suspended
                 \/ r.health = "NOT_HEALTHY"
                 \/ r.synchronous /\ r.state \in {"NOT SYNCHRONIZING", "NOT SYNCHRONIZED"}}
             g == [r \in R |-> HR!Check("hadr", "replica_unhealthy", "critical", r.name)]
  <2>1. IsFiniteSet(R)
    BY <1>0, FS_Subset
  <2>2. HR!Replicas(f) = {g[r] : r \in R}
    BY DEF HR!Replicas
  <2>3. \A c \in HR!Replicas(f) : c.severity \in Grades
    <3>1. \A r \in R : g[r].severity = "critical"
      BY DEF HR!Check
    <3> HIDE DEF g
    <3>. QED BY <1>g, <2>2, <3>1
  <2> HIDE DEF g, R
  <2>. QED BY <2>1, <2>2, <2>3, FiniteImage DEF Sane
<1>7. Sane(HR!FailedJobs(f))
  <2>1. CASE ~HR!Known(f.jobs)
    BY <2>1, SaneEmpty DEF HR!FailedJobs
  <2>2. CASE HR!Known(f.jobs)
    <3> DEFINE J == f.jobs[1]
               g == [j \in J |-> HR!Check("jobs", "recent_failures",
                                       IF j.protectsData THEN "error" ELSE "warning", j.name)]
    <3>1. HR!FailedJobs(f) = {g[j] : j \in J}
      BY <2>2 DEF HR!FailedJobs
    <3>2. \A c \in HR!FailedJobs(f) : c.severity \in Grades
      BY <1>g, <2>2 DEF HR!FailedJobs, HR!Check
    <3>3. IsFiniteSet(J)
      BY <1>0, <2>2
    <3> HIDE DEF g, J
    <3>. QED BY <3>1, <3>2, <3>3, FiniteImage DEF Sane
  <2>. QED BY <2>1, <2>2
<1>8. Sane(HR!Files(f))
  <2>1. (IF f.tempFiles[1] <= 1 THEN "warning" ELSE "info") \in Grades
    BY <1>g
  <2>. QED BY SaneConfig, SaneUnion, SaneEmpty, <1>g, <2>1 DEF HR!Files
<1>9. Sane(HR!TraceFlags(f))
  BY SaneConfig, <1>g DEF HR!TraceFlags
<1>. QED BY <1>1, <1>2, <1>3, <1>4, <1>5, <1>6, <1>7, <1>8, <1>9, SaneUnion DEF HR!Evaluate, f

LEMMA OperationalGraded ==
    ASSUME NEW S, Sane(S) PROVE IsGradedList(HR!OperationalIssues(S))
<1> DEFINE O(c) == HR!Issue("operational", c.kind, <<c.id>>, "db", c.severity, "operational",
                         HR!Base[c.severity], {c.about})
           g == [c \in S |-> O(c)]
           T == {g[c] : c \in S}
<1>1. HR!OperationalIssues(S) = HR!Listed(T)
  BY DEF HR!OperationalIssues
<1>2. Graded(T)
  <2>1. ASSUME NEW c \in S PROVE IsIssue(g[c])
    <3>1. c.severity \in Grades /\ HR!Base[c.severity] \in Int /\ "operational" \in Lanes
      BY BaseTyped DEF Sane, Lanes
    <3>2. IsIssue(O(c))
      BY <3>1, IssueIs
    <3>. QED BY <3>2
  <2> HIDE DEF g
  <2>. QED BY <2>1 DEF Graded
<1> HIDE DEF g
<1>3. IsFiniteSet(T)
  BY FiniteImage DEF Sane
<1>. QED BY <1>1, <1>2, <1>3, ListedIsSeq DEF IsGradedList, Lists

\* The pains of the week, as their counts.
LEMMA PainGraded ==
    ASSUME NEW pain \in [HR!Pains -> Nat]
    PROVE  /\ IsGradedList(HR!PainIssues(pain))
           /\ pain["deadlock"] # 0 => Len(HR!PainIssues(pain)) > 0
<1>1. /\ pain["deadlock"] \in Nat /\ pain["blocked"] \in Nat
      /\ pain["waits"] \in Nat /\ pain["slower"] \in Nat
  BY DEF HR!Pains
<1>2. ASSUME NEW kind, NEW severity \in Grades, NEW rank \in Int
      PROVE  /\ IsGradedList(HR!Pain(kind, severity, rank)) /\ Len(HR!Pain(kind, severity, rank)) = 1
  <2> DEFINE i == HR!Issue("sentinel", kind, <<>>, "server", severity, "reliability", rank, {})
  <2>1. HR!Pain(kind, severity, rank) = <<i>>
    BY DEF HR!Pain
  <2>2. Graded({i})
    <3>1. "reliability" \in Lanes
      BY DEF Lanes
    <3>2. IsIssue(i)
      BY <3>1, IssueIs
    <3>. QED BY <3>2 DEF Graded
  <2> HIDE DEF i
  <2>3. <<i>> \in Seq({i}) /\ Len(<<i>>) = 1
    OBVIOUS
  <2>. QED BY <2>1, <2>2, <2>3 DEF IsGradedList
<1>3. IsGradedList(<<>>) /\ Len(<<>>) = 0
  <2>1. Graded({}) /\ <<>> \in Seq({})
    BY DEF Graded
  <2>. QED BY <2>1 DEF IsGradedList
<1>g. "critical" \in Grades /\ "error" \in Grades /\ "warning" \in Grades /\ "info" \in Grades
  BY DEF Grades
<1> DEFINE D == IF pain["deadlock"] = 0 THEN <<>>
                ELSE HR!Pain("deadlock", IF pain["deadlock"] > ManyDeadlocks THEN "critical" ELSE "error",
                          1000 * pain["deadlock"])
           B == IF pain["blocked"] <= FewBlocked THEN <<>>
                ELSE HR!Pain("blocking", IF pain["blocked"] > ManyBlocked THEN "error" ELSE "warning",
                          pain["blocked"])
           W == IF pain["waits"] < SomeWait THEN <<>>
                ELSE HR!Pain("wait", IF pain["waits"] > HighWait THEN "warning" ELSE "info", pain["waits"])
           R == IF pain["slower"] = 0 THEN <<>> ELSE HR!Pain("regression", "warning", 1000)
<1>4. IsGradedList(D) /\ (pain["deadlock"] # 0 => Len(D) = 1)
  <2>1. (IF pain["deadlock"] > ManyDeadlocks THEN "critical" ELSE "error") \in Grades
        /\ 1000 * pain["deadlock"] \in Int
    BY <1>1, <1>g
  <2>. QED BY <1>2, <1>3, <2>1
<1>5. IsGradedList(B)
  <2>1. (IF pain["blocked"] > ManyBlocked THEN "error" ELSE "warning") \in Grades
        /\ pain["blocked"] \in Int
    BY <1>1, <1>g
  <2>. QED BY <1>2, <1>3, <2>1
<1>6. IsGradedList(W)
  <2>1. (IF pain["waits"] > HighWait THEN "warning" ELSE "info") \in Grades
        /\ pain["waits"] \in Int
    BY <1>1, <1>g
  <2>. QED BY <1>2, <1>3, <2>1
<1>7. IsGradedList(R)
  BY <1>2, <1>3, <1>g, 1000 \in Int
<1>8. HR!PainIssues(pain) = D \o B \o W \o R
  BY DEF HR!PainIssues
<1> HIDE DEF D, B, W, R
<1>9. IsGradedList(HR!PainIssues(pain))
  BY <1>4, <1>5, <1>6, <1>7, <1>8, GradedConcat
<1>11. ASSUME pain["deadlock"] # 0 PROVE Len(HR!PainIssues(pain)) > 0
  <2>1. IsGradedList(D \o B) /\ IsGradedList(D \o B \o W)
    BY <1>4, <1>5, <1>6, GradedConcat
  <2>2. Len(D \o B) = 1 + Len(B) /\ Len(B) \in Nat
    BY <1>4, <1>5, <1>11, LenConcat
  <2>3. Len(D \o B \o W) = Len(D \o B) + Len(W) /\ Len(W) \in Nat
    BY <1>6, <2>1, LenConcat
  <2>4. Len(D \o B \o W \o R) = Len(D \o B \o W) + Len(R) /\ Len(R) \in Nat
    BY <1>7, <2>1, LenConcat
  <2>. QED BY <1>8, <2>2, <2>3, <2>4
<1>. QED BY <1>9, <1>11

-----------------------------------------------------------------------------
(* Of the issues with one id, one is kept.                                  *)

LEMMA SourceRanks == \A x : HR!SourceRank(x) \in 0..2
BY DEF HR!SourceRank

LEMMA ReplacesOrders ==
    ASSUME NEW a, NEW b, NEW c, a.rank \in Int, b.rank \in Int, c.rank \in Int
    PROVE  /\ HR!Replaces(a, b) /\ HR!Replaces(b, c) => HR!Replaces(a, c)
           /\ HR!Replaces(a, c) /\ ~HR!Replaces(a, b) => HR!Replaces(b, c)
<1>1. HR!SourceRank(a.source) \in 0..2 /\ HR!SourceRank(b.source) \in 0..2 /\ HR!SourceRank(c.source) \in 0..2
  BY SourceRanks
<1>. QED BY <1>1 DEF HR!Replaces

\* Issue i is the one kept of the first n with its id.
Won(list, n, i) ==
    /\ i \in 1..n
    /\ \A j \in 1..n : list[j].id = list[i].id =>
         /\ j < i => HR!Replaces(list[j], list[i])
         /\ j > i => ~HR!Replaces(list[i], list[j])

LEMMA SomeoneWins ==
    ASSUME NEW list, IsGradedList(list), NEW n \in 0..Len(list)
    PROVE  \A k \in 1..n : \E i : Won(list, n, i) /\ list[i].id = list[k].id
<1> DEFINE N == {m \in Nat : m <= Len(list) =>
                    \A k \in 1..m : \E i : Won(list, m, i) /\ list[i].id = list[k].id}
<1>0. Len(list) \in Nat /\ \A i \in 1..Len(list) : list[i].rank \in Int
  <2>1. PICK S : Graded(S) /\ list \in Seq(S)
    BY DEF IsGradedList
  <2>. QED BY <2>1 DEF Graded, IsIssue
<1>1. 0 \in N
  OBVIOUS
<1>2. ASSUME NEW m \in Nat, m \in N PROVE m + 1 \in N
  <2> SUFFICES ASSUME m + 1 <= Len(list), NEW k \in 1..(m + 1)
               PROVE  \E i : Won(list, m + 1, i) /\ list[i].id = list[k].id
    OBVIOUS
  <2> DEFINE l == m + 1
  <2>0. l \in 1..Len(list) /\ \A i \in 1..l : i \in 1..Len(list)
    BY <1>0
  <2>1. CASE \E j \in 1..m : list[j].id = list[k].id
    <3>1. PICK j \in 1..m : list[j].id = list[k].id
      BY <2>1
    <3>2. PICK i : Won(list, m, i) /\ list[i].id = list[k].id
      BY <1>0, <1>2, <3>1
    <3>3. i \in 1..m /\ i < l
      BY <3>2 DEF Won
    <3>4. CASE list[l].id # list[k].id
      <4>1. Won(list, l, i)
        BY <3>2, <3>3, <3>4 DEF Won
      <4>. QED BY <3>2, <4>1
    <3>5. CASE list[l].id = list[k].id /\ ~HR!Replaces(list[i], list[l])
      <4>1. Won(list, l, i)
        BY <3>2, <3>3, <3>5 DEF Won
      <4>. QED BY <3>2, <4>1
    <3>6. CASE list[l].id = list[k].id /\ HR!Replaces(list[i], list[l])
      <4>1. ASSUME NEW x \in 1..l, list[x].id = list[l].id, x < l PROVE HR!Replaces(list[x], list[l])
        <5>1. x \in 1..m /\ list[x].id = list[i].id
          BY <4>1, <3>2, <3>6
        <5>2. list[x].rank \in Int /\ list[i].rank \in Int /\ list[l].rank \in Int
          BY <1>0, <2>0, <3>3
        <5>3. CASE x < i
          <6>1. HR!Replaces(list[x], list[i])
            BY <3>2, <5>1, <5>3 DEF Won
          <6>. QED BY <3>6, <5>2, <6>1, ReplacesOrders
        <5>4. CASE x > i
          <6>1. ~HR!Replaces(list[i], list[x])
            BY <3>2, <5>1, <5>4 DEF Won
          <6>. QED BY <3>6, <5>2, <6>1, ReplacesOrders
        <5>5. CASE x = i
          BY <3>6, <5>5
        <5>. QED BY <3>3, <5>3, <5>4, <5>5
      <4>2. Won(list, l, l)
        BY <4>1 DEF Won
      <4>. QED BY <3>6, <4>2
    <3>. QED BY <3>4, <3>5, <3>6
  <2>2. CASE ~\E j \in 1..m : list[j].id = list[k].id
    <3>1. k = l
      BY <2>2
    <3>2. Won(list, l, l)
      BY <2>2, <3>1 DEF Won
    <3>. QED BY <3>1, <3>2
  <2>. QED BY <2>1, <2>2
<1>3. Nat \subseteq N
  BY <1>1, <1>2, Adds!SetInduction
<1>4. n \in N /\ n <= Len(list)
  BY <1>0, <1>3
<1>. QED BY <1>4

LEMMA DedupKeeps ==
    ASSUME NEW list, IsGradedList(list)
    PROVE  /\ \A k \in 1..Len(list) : \E c \in HR!Dedup(list) : c.id = list[k].id
           /\ IsFiniteSet(HR!Dedup(list))
<1>0. Len(list) \in Nat /\ DOMAIN list = 1..Len(list)
  <2>1. PICK S : Graded(S) /\ list \in Seq(S)
    BY DEF IsGradedList
  <2>. QED BY <2>1
<1>1. ASSUME NEW k \in 1..Len(list) PROVE \E c \in HR!Dedup(list) : c.id = list[k].id
  <2>1. Len(list) \in 0..Len(list)
    BY <1>0
  <2>2. PICK i : Won(list, Len(list), i) /\ list[i].id = list[k].id
    BY <2>1, SomeoneWins
  <2>3. list[i] \in HR!Dedup(list)
    BY <1>0, <2>2 DEF HR!Dedup, Won
  <2>. QED BY <2>2, <2>3
<1>2. IsFiniteSet({list[i] : i \in 1..Len(list)})
  <2>1. IsFiniteSet(1..Len(list))
    BY <1>0, FS_Interval
  <2>. QED BY <2>1, FiniteImage
<1>3. HR!Dedup(list) \in SUBSET {list[i] : i \in 1..Len(list)}
  BY <1>0 DEF HR!Dedup
<1>. QED BY <1>1, <1>2, <1>3, FS_Subset

LEMMA CardsRemain ==
    ASSUME NEW list, IsGradedList(list), Len(list) > 0
    PROVE  HR!Reconcile(HR!Listed(HR!Dedup(list))) # {}
<1>1. 1 \in 1..Len(list)
  <2>1. PICK S : Graded(S) /\ list \in Seq(S)
    BY DEF IsGradedList
  <2>. QED BY <2>1
<1>2. HR!Dedup(list) # {} /\ IsFiniteSet(HR!Dedup(list))
  BY <1>1, DedupKeeps
<1> DEFINE l == HR!Listed(HR!Dedup(list))
<1>3. Lists(l, HR!Dedup(list))
  BY <1>2, ListedIsSeq
<1> HIDE DEF l
<1>4. 1 \in DOMAIN l
  <2> DEFINE D == HR!Dedup(list)
  <2>1. l \in Seq(D)
    BY <1>3 DEF Lists
  <2>2. PICK i \in 1..Len(l) : TRUE
    BY <1>2, <1>3 DEF Lists
  <2> HIDE DEF D
  <2>3. Len(l) \in Nat /\ DOMAIN l = 1..Len(l)
    BY <2>1
  <2>. QED BY <2>2, <2>3
<1> DEFINE ends == {<<i, HR!Anchor(l, i)>> : i \in DOMAIN l}
           e == <<1, HR!Anchor(l, 1)>>
           Card(x) == HR!MergeInto(l[x[2]], {l[f[1]] : f \in {f \in ends : f[2] = x[2]}})
<1>5. e \in ends
  BY <1>4
<1>6. HR!Reconcile(l) = {Card(x) : x \in ends}
  BY DEF HR!Reconcile
<1>7. Card(e) \in {Card(x) : x \in ends}
  <2> HIDE DEF Card, e, ends
  <2>. QED BY <1>5
<1>8. HR!Reconcile(l) # {}
  BY <1>6, <1>7
<1>. QED BY <1>8 DEF l

-----------------------------------------------------------------------------
(***************************************************************************)
(* What stays true of a scan.                                              *)
(***************************************************************************)
\* A duration, if it could be read.
Reading(x) == x = <<>> \/ \E n \in Int : x = <<n>>

Places == {"idle", "week", "probes", "freshness", "grade", "done"}

IsScan ==
    /\ scan = [pc |-> scan.pc, pulled |-> scan.pulled, issues |-> scan.issues,
               counterAge |-> scan.counterAge, checks |-> scan.checks, pain |-> scan.pain,
               fresh |-> scan.fresh, report |-> scan.report]
    /\ scan.pc \in Places
    /\ scan.pulled \in 0..now
    /\ IsGradedList(scan.issues)
    /\ Reading(scan.counterAge) /\ Reading(scan.fresh)
    /\ scan.pain \in [HR!Pains -> Nat]

Clocks ==
    /\ now \in Nat /\ booted \in 0..now
    /\ server \in Servers
    /\ IsFiniteSet(samples) /\ \A s \in samples : s.at \in 0..now

\* A deadlock of the week's is an issue.
DeadlocksListed == scan.pain["deadlock"] # 0 => Len(scan.issues) > 0

\* The monitor sampled while the scan ran or just before, if it was called
\* running and anything is left of what it sampled.
SampledLately ==
    scan.pc = "grade" /\ HR!Running => HR!Times = {} \/ \E t \in HR!Times : t >= scan.pulled - Live

HonestSoFar ==
    \A c \in scan.checks :
        \/ c \in HR!Evaluate(HR!PullOperational(server.settings, {}))
        \/ server.settings.readOnly /\ c.kind = "integrity"

ScanInv ==
    /\ IsScan /\ Clocks
    /\ scan.pc = "idle" => scan = HR!Idle
    /\ DeadlocksListed /\ SampledLately /\ HonestSoFar

LEMMA EmptyGraded == IsGradedList(<<>>)
<1>1. Graded({}) /\ <<>> \in Seq({})
  BY DEF Graded
<1>. QED BY <1>1 DEF IsGradedList

LEMMA IdleTyped ==
    /\ HR!Idle = [pc |-> HR!Idle.pc, pulled |-> HR!Idle.pulled, issues |-> HR!Idle.issues,
               counterAge |-> HR!Idle.counterAge, checks |-> HR!Idle.checks, pain |-> HR!Idle.pain,
               fresh |-> HR!Idle.fresh, report |-> HR!Idle.report]
    /\ HR!Idle.pc = "idle" /\ HR!Idle.pulled = 0 /\ HR!Idle.issues = <<>> /\ HR!Idle.counterAge = <<>>
    /\ HR!Idle.checks = {} /\ HR!Idle.pain = HR!NoPain /\ HR!Idle.fresh = <<>>
BY DEF HR!Idle

LEMMA NoPainTyped == HR!NoPain \in [HR!Pains -> Nat] /\ HR!NoPain["deadlock"] = 0
BY DEF HR!NoPain, HR!Pains

LEMMA ScanStarts == HR!HealthAssumption /\ HR!Init => ScanInv
<1> SUFFICES ASSUME HR!HealthAssumption, HR!Init PROVE ScanInv
  OBVIOUS
<1>1. Clocks
  BY FS_EmptySet DEF HR!Init, Clocks
<1>2. IsScan
  BY IdleTyped, NoPainTyped, EmptyGraded DEF HR!Init, IsScan, Reading, Places
<1>3. DeadlocksListed /\ SampledLately /\ HonestSoFar
  BY IdleTyped, NoPainTyped DEF HR!Init, DeadlocksListed, SampledLately, HonestSoFar
<1>. QED BY <1>1, <1>2, <1>3 DEF ScanInv, HR!Init

LEMMA ClocksKept == HR!HealthAssumption /\ Clocks /\ [HR!Next]_HR!vars => Clocks' /\ now <= now' /\ server' = server
<1> SUFFICES ASSUME HR!HealthAssumption, Clocks, [HR!Next]_HR!vars
             PROVE  Clocks' /\ now <= now' /\ server' = server
  OBVIOUS
<1>1. CASE HR!Scan \/ UNCHANGED HR!vars
  <2>1. UNCHANGED HR!Environment
    <3>1. \A failed : HR!Pull(failed) => UNCHANGED HR!Environment
      BY DEF HR!Pull
    <3>2. \A o : HR!BuildReport(o) \/ HR!LastCapture(o) \/ HR!Grade(o) => UNCHANGED HR!Environment
      BY DEF HR!BuildReport, HR!LastCapture, HR!Grade
    <3>3. \A failed, o : HR!Operational(failed, o) => UNCHANGED HR!Environment
      BY DEF HR!Operational
    <3>4. HR!Close => UNCHANGED HR!Environment
      BY DEF HR!Close
    <3>5. UNCHANGED HR!vars => UNCHANGED HR!Environment
      BY DEF HR!vars, HR!Environment
    <3>. QED BY <1>1, <3>1, <3>2, <3>3, <3>4, <3>5 DEF HR!Scan
  <2>. QED BY <2>1 DEF HR!Environment, Clocks
<1>2. CASE HR!Tick
  BY <1>2 DEF HR!Tick, Clocks
<1>3. ASSUME NEW shows \in Captures, HR!Capture(shows) PROVE Clocks' /\ now <= now' /\ server' = server
  <2>1. IsFiniteSet(samples')
    BY <1>3, FS_AddElement DEF HR!Capture, Clocks
  <2>. QED BY <1>3, <2>1 DEF HR!Capture, Clocks
<1>4. CASE HR!Prune
  <2>1. samples' \in SUBSET samples
    BY <1>4 DEF HR!Prune
  <2>2. IsFiniteSet(samples')
    BY <2>1, FS_Subset DEF Clocks
  <2>. QED BY <1>4, <2>1, <2>2 DEF HR!Prune, Clocks
<1>5. CASE HR!Restart
  BY <1>5 DEF HR!Restart, Clocks
<1>. QED BY <1>1, <1>2, <1>3, <1>4, <1>5 DEF HR!Next, HR!Meanwhile

LEMMA WeekTyped ==
    ASSUME Clocks
    PROVE  HR!PainSummary \in [HR!Pains -> Nat]
<1>1. ASSUME NEW w PROVE HR!Count(w) \in Nat
  <2>1. IsFiniteSet({s \in samples : HR!InWindow(s) /\ w \in s.shows})
    BY FS_Subset DEF Clocks
  <2>. QED BY <2>1, FS_CardinalityType, SameCounting DEF HR!Count
<1>. QED BY <1>1 DEF HR!PainSummary

LEMMA TimesTyped ==
    ASSUME Clocks
    PROVE  /\ HR!Times \in SUBSET (0..now)
           /\ HR!Times # {} => HR!Min(HR!Times) \in HR!Times /\ HR!Max(HR!Times) \in HR!Times
<1>1. HR!Times \in SUBSET (0..now)
  BY DEF Clocks, HR!Times
<1>. QED BY <1>1, Extremes DEF Clocks

\* Each step of the scan.
LEMMA PullKeeps ==
    ASSUME HR!HealthAssumption, ScanInv, Clocks', NEW failed, HR!Pull(failed)
    PROVE  ScanInv'
<1> DEFINE b == HR!PullDmvBundle(failed)
<1>1. /\ IsGradedList(b.issues) /\ Reading(b.counterAge)
  <2>1. IsGradedList(b.issues)
    BY BundleGraded DEF ScanInv, Clocks
  <2>2. Reading(b.counterAge)
    <3>1. now - booted \in Int
      BY DEF ScanInv, Clocks
    <3>. QED BY <3>1 DEF HR!PullDmvBundle, Reading
  <2>. QED BY <2>1, <2>2
<1>2. scan' = [scan EXCEPT !.pc = "week", !.pulled = now,
                  !.issues = b.issues, !.counterAge = b.counterAge]
      /\ scan.pc = "idle" /\ UNCHANGED HR!Environment
  BY DEF HR!Pull
<1> HIDE DEF b
<1>3. scan' = [pc |-> "week", pulled |-> now, issues |-> b.issues,
               counterAge |-> b.counterAge, checks |-> scan.checks, pain |-> scan.pain,
               fresh |-> scan.fresh, report |-> scan.report]
  <2>1. scan = [pc |-> scan.pc, pulled |-> scan.pulled, issues |-> scan.issues,
               counterAge |-> scan.counterAge, checks |-> scan.checks, pain |-> scan.pain,
               fresh |-> scan.fresh, report |-> scan.report]
    BY DEF ScanInv, IsScan
  <2>. QED BY <1>2, <2>1
<1>4. scan = HR!Idle /\ now' = now /\ server' = server /\ booted' = booted
  BY <1>2 DEF ScanInv, HR!Environment
<1>5. IsScan'
  BY <1>1, <1>3, <1>4 DEF ScanInv, IsScan, Places, Clocks
<1>6. DeadlocksListed' /\ SampledLately' /\ HonestSoFar'
  BY <1>3, <1>4, IdleTyped, NoPainTyped DEF DeadlocksListed, SampledLately, HonestSoFar
<1>. QED BY <1>3, <1>5, <1>6 DEF ScanInv

LEMMA ReportKeeps ==
    ASSUME HR!HealthAssumption, ScanInv, Clocks', NEW opened \in BOOLEAN, HR!BuildReport(opened)
    PROVE  ScanInv'
<1> DEFINE pain == IF opened THEN HR!PainSummary ELSE HR!NoPain
           more == HR!PainIssues(pain)
<1>1. scan' = [scan EXCEPT !.pc = "probes", !.pain = pain, !.issues = @ \o more]
      /\ scan.pc = "week" /\ UNCHANGED HR!Environment
  BY DEF HR!BuildReport
<1>2. pain \in [HR!Pains -> Nat]
  BY WeekTyped, NoPainTyped DEF ScanInv
<1> HIDE DEF pain
<1>3. IsGradedList(more) /\ (pain["deadlock"] # 0 => Len(more) > 0)
  BY <1>2, PainGraded
<1> HIDE DEF more
<1>4. scan' = [pc |-> "probes", pulled |-> scan.pulled, issues |-> scan.issues \o more,
               counterAge |-> scan.counterAge, checks |-> scan.checks, pain |-> pain,
               fresh |-> scan.fresh, report |-> scan.report]
  <2>1. scan = [pc |-> scan.pc, pulled |-> scan.pulled, issues |-> scan.issues,
               counterAge |-> scan.counterAge, checks |-> scan.checks, pain |-> scan.pain,
               fresh |-> scan.fresh, report |-> scan.report]
    BY DEF ScanInv, IsScan
  <2>. QED BY <1>1, <2>1
<1>5. now' = now /\ server' = server
  BY <1>1 DEF HR!Environment
<1>6. IsGradedList(scan.issues \o more)
  BY <1>3, GradedConcat DEF ScanInv, IsScan
<1>7. IsScan'
  BY <1>2, <1>4, <1>5, <1>6 DEF ScanInv, IsScan, Places
<1>8. DeadlocksListed'
  <2>1. Len(scan.issues \o more) = Len(scan.issues) + Len(more) /\ Len(scan.issues) \in Nat
    BY <1>3, LenConcat DEF ScanInv, IsScan
  <2>2. pain["deadlock"] # 0 => Len(scan.issues \o more) > 0
    BY <1>3, <2>1, LenConcat DEF ScanInv, IsScan
  <2>. QED BY <1>4, <2>2 DEF DeadlocksListed
<1>9. SampledLately' /\ HonestSoFar'
  BY <1>4, <1>5 DEF ScanInv, SampledLately, HonestSoFar
<1>. QED BY <1>4, <1>7, <1>8, <1>9 DEF ScanInv

LEMMA OperationalKeeps ==
    ASSUME HR!HealthAssumption, ScanInv, Clocks', NEW failed, NEW connected \in BOOLEAN,
           HR!Operational(failed, connected)
    PROVE  ScanInv'
<1> DEFINE checks == IF connected THEN HR!Evaluate(HR!PullOperational(server.settings, failed)) ELSE {}
           more == HR!OperationalIssues(checks)
<1>1. scan' = [scan EXCEPT !.pc = "freshness", !.checks = checks, !.issues = @ \o more]
      /\ scan.pc = "probes" /\ UNCHANGED HR!Environment
  BY DEF HR!Operational
<1>2. Sane(checks)
  <2>1. IsFiniteSet(server.settings.replicas) /\ IsFiniteSet(server.settings.jobs)
    BY SameCounting DEF ScanInv, Clocks, HR!HealthAssumption
  <2>. QED BY <2>1, SaneChecks, SaneEmpty
<1>3. \A c \in checks :
        \/ c \in HR!Evaluate(HR!PullOperational(server.settings, {}))
        \/ server.settings.readOnly /\ c.kind = "integrity"
  BY HonestChecks
<1> HIDE DEF checks
<1>4. IsGradedList(more)
  BY <1>2, OperationalGraded
<1> HIDE DEF more
<1>5. scan' = [pc |-> "freshness", pulled |-> scan.pulled, issues |-> scan.issues \o more,
               counterAge |-> scan.counterAge, checks |-> checks, pain |-> scan.pain,
               fresh |-> scan.fresh, report |-> scan.report]
  <2>1. scan = [pc |-> scan.pc, pulled |-> scan.pulled, issues |-> scan.issues,
               counterAge |-> scan.counterAge, checks |-> scan.checks, pain |-> scan.pain,
               fresh |-> scan.fresh, report |-> scan.report]
    BY DEF ScanInv, IsScan
  <2>. QED BY <1>1, <2>1
<1>6. now' = now /\ server' = server
  BY <1>1 DEF HR!Environment
<1>7. IsGradedList(scan.issues \o more)
  BY <1>4, GradedConcat DEF ScanInv, IsScan
<1>8. IsScan'
  BY <1>5, <1>6, <1>7 DEF ScanInv, IsScan, Places
<1>9. DeadlocksListed'
  <2>1. Len(scan.issues \o more) = Len(scan.issues) + Len(more) /\ Len(more) \in Nat
        /\ Len(scan.issues) \in Nat
    BY <1>4, LenConcat DEF ScanInv, IsScan
  <2>2. scan.pain["deadlock"] # 0 => Len(scan.issues \o more) > 0
    BY <2>1 DEF ScanInv, DeadlocksListed
  <2>. QED BY <1>5, <2>2 DEF DeadlocksListed
<1>10. SampledLately' /\ HonestSoFar'
  BY <1>3, <1>5, <1>6 DEF SampledLately, HonestSoFar
<1>. QED BY <1>5, <1>8, <1>9, <1>10 DEF ScanInv

LEMMA LastCaptureKeeps ==
    ASSUME HR!HealthAssumption, ScanInv, Clocks', NEW opened \in BOOLEAN, HR!LastCapture(opened)
    PROVE  ScanInv'
<1> DEFINE fresh == IF opened THEN HR!Freshness(HR!Times) ELSE <<>>
<1>1. scan' = [scan EXCEPT !.pc = "grade", !.fresh = fresh]
      /\ scan.pc = "freshness" /\ UNCHANGED HR!Environment
  BY DEF HR!LastCapture
<1>2. fresh = <<>> \/ (HR!Times # {} /\ fresh = <<now - HR!Max(HR!Times)>>)
  BY DEF HR!Freshness
<1>3. now \in Nat /\ Live \in Nat /\ scan.pulled \in 0..now
      /\ HR!Times \in SUBSET (0..now) /\ (HR!Times # {} => HR!Max(HR!Times) \in HR!Times)
  BY TimesTyped DEF ScanInv, Clocks, IsScan, HR!HealthAssumption
<1> HIDE DEF fresh
<1>4. Reading(fresh)
  <2>1. CASE fresh = <<>>
    BY <2>1 DEF Reading
  <2>2. CASE HR!Times # {} /\ fresh = <<now - HR!Max(HR!Times)>>
    <3>1. now - HR!Max(HR!Times) \in Int
      <4>1. HR!Max(HR!Times) \in 0..now
        BY <1>3, <2>2
      <4>. QED BY <1>3, <4>1
    <3>. QED BY <2>2, <3>1 DEF Reading
  <2>. QED BY <1>2, <2>1, <2>2
<1>5. scan' = [pc |-> "grade", pulled |-> scan.pulled, issues |-> scan.issues,
               counterAge |-> scan.counterAge, checks |-> scan.checks, pain |-> scan.pain,
               fresh |-> fresh, report |-> scan.report]
  <2>1. scan = [pc |-> scan.pc, pulled |-> scan.pulled, issues |-> scan.issues,
               counterAge |-> scan.counterAge, checks |-> scan.checks, pain |-> scan.pain,
               fresh |-> scan.fresh, report |-> scan.report]
    BY DEF ScanInv, IsScan
  <2>. QED BY <1>1, <2>1
<1>6. now' = now /\ server' = server /\ samples' = samples /\ HR!Times' = HR!Times
  BY <1>1 DEF HR!Environment, HR!Times
<1>7. IsScan'
  BY <1>4, <1>5, <1>6 DEF ScanInv, IsScan, Places
<1>8. SampledLately'
  <2> SUFFICES ASSUME fresh # <<>>, fresh[1] <= Live PROVE \E t \in HR!Times : t >= scan.pulled - Live
    BY <1>5, <1>6 DEF SampledLately, HR!Running
  <2>1. HR!Times # {} /\ fresh[1] = now - HR!Max(HR!Times)
    BY <1>2
  <2>2. HR!Max(HR!Times) \in HR!Times /\ HR!Max(HR!Times) \in 0..now /\ now - HR!Max(HR!Times) <= Live
    BY <1>3, <2>1
  <2>3. HR!Max(HR!Times) >= scan.pulled - Live
    BY <1>3, <2>2
  <2>. QED BY <2>2, <2>3
<1>9. DeadlocksListed' /\ HonestSoFar'
  BY <1>5, <1>6 DEF ScanInv, DeadlocksListed, HonestSoFar
<1>. QED BY <1>5, <1>7, <1>8, <1>9 DEF ScanInv

LEMMA GradeKeeps ==
    ASSUME HR!HealthAssumption, ScanInv, Clocks', NEW opened \in BOOLEAN, HR!Grade(opened)
    PROVE  ScanInv'
<1>1. PICK report : scan' = [scan EXCEPT !.pc = "done", !.report = report]
  BY DEF HR!Grade
<1>2. scan' = [pc |-> "done", pulled |-> scan.pulled, issues |-> scan.issues,
               counterAge |-> scan.counterAge, checks |-> scan.checks, pain |-> scan.pain,
               fresh |-> scan.fresh, report |-> report]
  <2>1. scan = [pc |-> scan.pc, pulled |-> scan.pulled, issues |-> scan.issues,
               counterAge |-> scan.counterAge, checks |-> scan.checks, pain |-> scan.pain,
               fresh |-> scan.fresh, report |-> scan.report]
    BY DEF ScanInv, IsScan
  <2>. QED BY <1>1, <2>1
<1>3. now' = now /\ server' = server
  BY DEF HR!Grade, HR!Environment
<1>4. IsScan'
  BY <1>2, <1>3 DEF ScanInv, IsScan, Places
<1>5. DeadlocksListed' /\ SampledLately' /\ HonestSoFar'
  BY <1>2, <1>3 DEF ScanInv, DeadlocksListed, SampledLately, HonestSoFar
<1>. QED BY <1>2, <1>4, <1>5 DEF ScanInv

LEMMA CloseKeeps ==
    ASSUME HR!HealthAssumption, ScanInv, Clocks', HR!Close
    PROVE  ScanInv'
<1>1. scan' = HR!Idle /\ now' = now /\ now \in Nat
  BY DEF HR!Close, HR!Environment, ScanInv, Clocks
<1>2. IsScan'
  BY <1>1, IdleTyped, NoPainTyped, EmptyGraded DEF IsScan, Reading, Places
<1>3. DeadlocksListed' /\ SampledLately' /\ HonestSoFar'
  BY <1>1, IdleTyped, NoPainTyped DEF DeadlocksListed, SampledLately, HonestSoFar
<1>. QED BY <1>1, <1>2, <1>3 DEF ScanInv

\* What happens meanwhile: samples go when they are older than what stays.
LEMMA MeanwhileKeeps ==
    ASSUME HR!HealthAssumption, ScanInv, Clocks', HR!Meanwhile \/ UNCHANGED HR!vars, now <= now',
           server' = server
    PROVE  ScanInv'
<1>1. scan' = scan
  BY DEF HR!Meanwhile, HR!Tick, HR!Capture, HR!Prune, HR!Restart, HR!vars
<1>2. now \in Nat /\ now' \in Nat /\ Retention \in Nat /\ Live \in Nat /\ scan.pulled \in 0..now
  BY DEF ScanInv, Clocks, IsScan, HR!HealthAssumption
<1>3. IsScan'
  BY <1>1, <1>2 DEF ScanInv, IsScan
<1>4. SampledLately'
  <2> SUFFICES ASSUME scan.pc = "grade", HR!Running, HR!Times' # {}
               PROVE  \E t \in HR!Times' : t >= scan.pulled - Live
    BY <1>1 DEF SampledLately, HR!Running
  <2>1. CASE samples \subseteq samples' /\ HR!Times # {}
    <3>1. HR!Times \subseteq HR!Times'
      BY <2>1 DEF HR!Times
    <3>. QED BY <2>1, <3>1 DEF ScanInv, SampledLately
  <2>2. CASE HR!Prune
    <3>1. PICK t \in HR!Times : t >= scan.pulled - Live
      <4>1. HR!Times # {}
        BY <2>2 DEF HR!Prune, HR!Times
      <4>. QED BY <4>1 DEF ScanInv, SampledLately
    <3>2. PICK s \in samples : t = s.at
      BY DEF HR!Times
    <3>3. PICK r \in samples' : TRUE
      BY DEF HR!Times
    <3>4. r.at >= now - Retention /\ r.at \in HR!Times' /\ r \in samples
      BY <2>2 DEF HR!Prune, HR!Times
    <3>5. t \in 0..now /\ r.at \in 0..now
      BY <3>2, <3>4 DEF ScanInv, Clocks
    <3>6. CASE s.at >= now - Retention
      <4>1. t \in HR!Times'
        BY <2>2, <3>2, <3>6 DEF HR!Prune, HR!Times
      <4>. QED BY <3>1, <4>1
    <3>7. CASE ~(s.at >= now - Retention)
      <4>1. r.at >= t
        BY <1>2, <3>2, <3>4, <3>5, <3>7
      <4>2. r.at >= scan.pulled - Live
        BY <1>2, <3>1, <3>5, <4>1
      <4>. QED BY <3>4, <4>2
    <3>. QED BY <3>6, <3>7
  <2>3. CASE HR!Times = {} /\ ~HR!Prune
    <3>1. PICK shows \in Captures : HR!Capture(shows)
      <4>1. samples' # samples
        BY <2>3 DEF HR!Times
      <4>. QED BY <2>3, <4>1 DEF HR!Meanwhile, HR!Tick, HR!Restart, HR!vars
    <3>2. now \in HR!Times'
      BY <3>1 DEF HR!Capture, HR!Times
    <3>3. now >= scan.pulled - Live
      BY <1>2
    <3>. QED BY <3>2, <3>3
  <2>4. samples \subseteq samples' \/ HR!Prune
    BY DEF HR!Meanwhile, HR!Tick, HR!Capture, HR!Restart, HR!vars
  <2>. QED BY <2>1, <2>2, <2>3, <2>4
<1>5. DeadlocksListed' /\ HonestSoFar'
  BY <1>1 DEF ScanInv, DeadlocksListed, HonestSoFar
<1>. QED BY <1>1, <1>3, <1>4, <1>5 DEF ScanInv

LEMMA ScanKept == ASSUME HR!HealthAssumption PROVE HR!Spec => []ScanInv
<1>1. HR!Init => ScanInv
  BY ScanStarts
<1>2. ScanInv /\ [HR!Next]_HR!vars => ScanInv'
  <2> SUFFICES ASSUME ScanInv, [HR!Next]_HR!vars PROVE ScanInv'
    OBVIOUS
  <2>1. Clocks' /\ now <= now' /\ server' = server
    BY ClocksKept DEF ScanInv
  <2>2. CASE HR!Scan
    BY <2>1, <2>2, PullKeeps, ReportKeeps, OperationalKeeps, LastCaptureKeeps, GradeKeeps,
       CloseKeeps DEF HR!Scan
  <2>3. CASE HR!Meanwhile \/ UNCHANGED HR!vars
    BY <2>1, <2>3, MeanwhileKeeps
  <2>. QED BY <2>2, <2>3 DEF HR!Next
<1>. QED BY <1>1, <1>2, PTL DEF HR!Spec

\* A probe that fails adds no check.
LEMMA EarnedOnGrade ==
    ASSUME HR!HealthAssumption, ScanInv, [HR!Next]_HR!vars, ~HR!Reported, HR!Reported', HR!AllClear',
           scan.pain["blocked"] = 0
    PROVE  HR!Earned
<1>1. PICK opened \in BOOLEAN : HR!Grade(opened)
  <2>1. HR!Scan
    <3>1. ~HR!Meanwhile /\ ~UNCHANGED HR!vars
      BY DEF HR!Reported, HR!Meanwhile, HR!Tick, HR!Capture, HR!Prune, HR!Restart, HR!vars
    <3>. QED BY <3>1 DEF HR!Next
  <2>2. scan' # scan
    BY DEF HR!Reported
  <2>3. ASSUME NEW p, p # "done", scan'.pc = p PROVE FALSE
    BY <2>3 DEF HR!Reported
  <2>4. \A failed : ~HR!Pull(failed)
    <3> SUFFICES ASSUME NEW failed, HR!Pull(failed) PROVE FALSE
      OBVIOUS
    <3>1. scan'.pc = "week"
      BY DEF HR!Pull, ScanInv, IsScan
    <3>. QED BY <3>1 DEF HR!Reported
  <2>5. \A o : ~HR!BuildReport(o) /\ ~HR!LastCapture(o)
    <3> SUFFICES ASSUME NEW o, HR!BuildReport(o) \/ HR!LastCapture(o) PROVE FALSE
      OBVIOUS
    <3>1. scan'.pc = "probes" \/ scan'.pc = "grade"
      BY DEF HR!BuildReport, HR!LastCapture, ScanInv, IsScan
    <3>. QED BY <3>1 DEF HR!Reported
  <2>6. \A failed, c : ~HR!Operational(failed, c)
    <3> SUFFICES ASSUME NEW failed, NEW c, HR!Operational(failed, c) PROVE FALSE
      OBVIOUS
    <3>1. scan'.pc = "freshness"
      BY DEF HR!Operational, ScanInv, IsScan
    <3>. QED BY <3>1 DEF HR!Reported
  <2>7. ~HR!Close
    BY DEF HR!Close, HR!Reported
  <2>. QED BY <2>1, <2>4, <2>5, <2>6, <2>7 DEF HR!Scan
<1> DEFINE monitored == IF HR!Running /\ opened THEN HR!Age(HR!Times) ELSE <<>>
           list == HR!Listed(HR!Dedup(scan.issues))
           cards == HR!Reconcile(list)
           score == HR!ScoreReport(cards, scan.pain, monitored, scan.counterAge)
           newer == scan.counterAge # <<>> /\ scan.counterAge[1] < Learning
<1>2. scan.pc = "grade"
      /\ scan' = [scan EXCEPT !.pc = "done",
                    !.report = HR!Summary(list, scan.pain, monitored, scan.counterAge)]
  BY <1>1 DEF HR!Grade
<1>3. scan'.report = HR!Summary(list, scan.pain, monitored, scan.counterAge)
  BY <1>2 DEF ScanInv, IsScan
<1>4. cards = {} /\ ~score.learning
  BY <1>3 DEF HR!AllClear, HR!Summary, HR!CompositeHeadline
<1>5. Len(scan.issues) = 0 /\ scan.pain["deadlock"] = 0
  <2>1. IsGradedList(scan.issues) /\ Len(scan.issues) \in Nat
    BY LenConcat DEF ScanInv, IsScan
  <2>2. ~(Len(scan.issues) > 0)
    BY <1>4, <2>1, CardsRemain
  <2>. QED BY <2>1, <2>2 DEF ScanInv, DeadlocksListed
<1>6. HR!NoSignal(cards, scan.pain)
  BY <1>4, <1>5 DEF HR!NoSignal
<1> HIDE DEF cards
<1>7. score.learning = (newer \/ ~HR!LongEnough(monitored))
  BY <1>6 DEF HR!ScoreReport
<1>8. ~newer /\ HR!LongEnough(monitored)
  BY <1>4, <1>7
<1>9. HR!Running /\ HR!Times # {} /\ monitored = <<now - HR!Min(HR!Times)>>
  BY <1>8 DEF HR!LongEnough, HR!Age
<1>10. \E t \in HR!Times : t >= scan.pulled - Live
  BY <1>2, <1>9 DEF ScanInv, SampledLately
<1>11. \E t \in HR!Times : now - t >= Mature
  <2>1. HR!Min(HR!Times) \in HR!Times
    BY <1>9, TimesTyped DEF ScanInv
  <2>. QED BY <1>8, <1>9, <2>1 DEF HR!LongEnough
<1>12. scan.counterAge # <<>> => scan.counterAge[1] >= Learning
  <2> SUFFICES ASSUME scan.counterAge # <<>> PROVE scan.counterAge[1] >= Learning
    OBVIOUS
  <2>1. PICK n \in Int : scan.counterAge = <<n>>
    BY DEF ScanInv, IsScan, Reading
  <2>2. ~(n < Learning) /\ Learning \in Nat
    BY <1>8, <2>1 DEF HR!HealthAssumption
  <2>. QED BY <2>1, <2>2
<1>. QED BY <1>10, <1>11, <1>12 DEF HR!Earned

-----------------------------------------------------------------------------
(* The faces of the cards, from the issues as a set.                         *)

\* What an issue of S may end on.
Home(S, i) ==
    LET hosts == {h \in S : HR!Joins(i, h)}
    IN  IF hosts = {} THEN {i} ELSE hosts

Household(S, i) == {j \in S : Home(S, j) = Home(S, i)}

Faces(S) == UNION {{HR!Face(HR!MergeInto(h, Household(S, i))) : h \in Home(S, i)} : i \in S}

\* A table has one heap.
OneHeap(S) ==
    \A g, h \in S : HR!IsHeap(g) /\ HR!IsHeap(h) /\ g.table = h.table => g = h

LEMMA HomesApart ==
    ASSUME NEW S, OneHeap(S), NEW i \in S, NEW j \in S, NEW g, g \in Home(S, i), g \in Home(S, j)
    PROVE  Home(S, i) = Home(S, j)
<1> DEFINE H(x) == {h \in S : HR!Joins(x, h)}
<1>0. ASSUME NEW x
      PROVE  /\ H(x) = {} => Home(S, x) = {x}
             /\ H(x) # {} => Home(S, x) = H(x)
  BY DEF Home
<1>1. CASE H(i) = {} /\ H(j) = {}
  BY <1>0, <1>1
<1>2. ASSUME NEW x \in S, NEW y \in S, g \in Home(S, x), g \in Home(S, y), H(x) = {}, H(y) # {}
      PROVE  Home(S, x) = Home(S, y)
  <2>1. g = x /\ HR!Joins(y, x) /\ ~HR!Joins(x, x)
    BY <1>0, <1>2
  <2>2. HR!IsHeap(x) /\ y.source = "static" /\ y.kind = "no_primary_key" /\ x.table = y.table
    BY <2>1 DEF HR!Joins
  <2>3. ASSUME NEW h \in H(y) PROVE h = x
    <3>1. HR!IsHeap(h) /\ h.table = y.table /\ h \in S
      BY <2>2 DEF HR!Joins
    <3>. QED BY <2>2, <3>1 DEF OneHeap
  <2>4. H(y) = {x}
    BY <1>2, <2>3
  <2>. QED BY <1>0, <1>2, <2>4
<1>3. CASE H(i) # {} /\ H(j) # {}
  <2>1. HR!Joins(i, g) /\ HR!Joins(j, g) /\ g \in S
    BY <1>0, <1>3
  <2>2. CASE g.source = "advisor"
    <3>1. ASSUME NEW x, HR!Joins(x, g), NEW h \in S
          PROVE  HR!Joins(x, h) <=> h.table = g.table /\ h.source = "advisor" /\ h.kind = g.kind
      BY <2>2, <3>1 DEF HR!Joins, HR!IsHeap
    <3>2. H(i) = H(j)
      BY <2>1, <3>1
    <3>. QED BY <1>0, <1>3, <3>2
  <2>3. CASE g.source # "advisor"
    <3>1. ASSUME NEW x, HR!Joins(x, g) PROVE H(x) = {g}
      <4>1. /\ HR!IsHeap(g) /\ x.source = "static" /\ x.kind = "no_primary_key"
            /\ g.table = x.table
        BY <2>3, <3>1 DEF HR!Joins
      <4>2. ASSUME NEW h \in H(x) PROVE h = g
        <5>1. HR!IsHeap(h) /\ h.table = g.table /\ h \in S
          BY <4>1 DEF HR!Joins
        <5>. QED BY <2>1, <4>1, <5>1 DEF OneHeap
      <4>. QED BY <2>1, <3>1, <4>2
    <3>2. H(i) = H(j)
      BY <2>1, <3>1
    <3>. QED BY <1>0, <1>3, <3>2
  <2>. QED BY <2>2, <2>3
<1>. QED BY <1>1, <1>2, <1>3

LEMMA FaceIs ==
    ASSUME NEW x, IsIssue(x), NEW G
    PROVE  LET s == HR!Worst({y.severity : y \in G})
               m == HR!Max({y.rank : y \in G})
               f == UNION {y.fix : y \in G}
           IN  /\ HR!MergeInto(x, G) =
                    [source |-> x.source, kind |-> x.kind, id |-> x.id, table |-> x.table,
                     severity |-> s, lane |-> x.lane, rank |-> m, fix |-> f]
               /\ HR!Face(HR!MergeInto(x, G)) =
                    [source |-> x.source, kind |-> x.kind, id |-> <<>>, table |-> x.table,
                     severity |-> s, lane |-> x.lane, rank |-> m, fix |-> f]
<1> DEFINE s == HR!Worst({y.severity : y \in G})
           m == HR!Max({y.rank : y \in G})
           f == UNION {y.fix : y \in G}
           a == x.source
           b == x.kind
           c == x.table
           d == x.lane
           e == x.id
<1>1. x = [source |-> a, kind |-> b, id |-> e, table |-> c,
           severity |-> x.severity, lane |-> d, rank |-> x.rank, fix |-> x.fix]
  BY DEF IsIssue
<1>2. HR!MergeInto(x, G) = [x EXCEPT !.severity = s, !.rank = m, !.fix = f]
  BY DEF HR!MergeInto
<1> HIDE DEF s, m, f
<1>3. HR!MergeInto(x, G) = [source |-> a, kind |-> b, id |-> e, table |-> c,
                            severity |-> s, lane |-> d, rank |-> m, fix |-> f]
  BY <1>1, <1>2
<1> HIDE DEF a, b, c, d, e
<1>4. HR!Face(HR!MergeInto(x, G)) = [source |-> a, kind |-> b, id |-> <<>>, table |-> c,
                                     severity |-> s, lane |-> d, rank |-> m, fix |-> f]
  BY <1>3 DEF HR!Face
<1>. QED BY <1>3, <1>4 DEF a, b, c, d, e, s, m, f

LEMMA FaceSource ==
    ASSUME NEW x, IsIssue(x), NEW G
    PROVE  /\ HR!MergeInto(x, G).source = x.source
           /\ HR!Face(HR!MergeInto(x, G)).source = x.source
<1> DEFINE s == HR!Worst({y.severity : y \in G})
           m == HR!Max({y.rank : y \in G})
           f == UNION {y.fix : y \in G}
           a == x.source
<1>1. /\ HR!MergeInto(x, G) =
           [source |-> a, kind |-> x.kind, id |-> x.id, table |-> x.table,
            severity |-> s, lane |-> x.lane, rank |-> m, fix |-> f]
      /\ HR!Face(HR!MergeInto(x, G)) =
           [source |-> a, kind |-> x.kind, id |-> <<>>, table |-> x.table,
            severity |-> s, lane |-> x.lane, rank |-> m, fix |-> f]
  BY FaceIs
<1> HIDE DEF s, m, f, a
<1>2. HR!MergeInto(x, G).source = a /\ HR!Face(HR!MergeInto(x, G)).source = a
  BY <1>1
<1>. QED BY <1>2 DEF a

\* Which host of a home the card keeps does not show.
LEMMA HostsAlike ==
    ASSUME NEW S, Graded(S), OneHeap(S), NEW i \in S,
           NEW g \in Home(S, i), NEW h \in Home(S, i), NEW G
    PROVE  HR!Face(HR!MergeInto(g, G)) = HR!Face(HR!MergeInto(h, G))
<1>1. CASE {x \in S : HR!Joins(i, x)} = {}
  BY <1>1 DEF Home
<1>2. CASE {x \in S : HR!Joins(i, x)} # {}
  <2>1. HR!Joins(i, g) /\ HR!Joins(i, h) /\ g \in S /\ h \in S
    BY <1>2 DEF Home
  <2>2. IsIssue(g) /\ IsIssue(h)
    BY <2>1 DEF Graded
  <2>3. g = h \/ (g.source = h.source /\ g.kind = h.kind /\ g.table = h.table /\ g.lane = h.lane)
    <3>1. g.table = h.table
      BY <2>1 DEF HR!Joins
    <3>2. CASE HR!IsHeap(g) /\ HR!IsHeap(h)
      BY <2>1, <3>1, <3>2 DEF OneHeap
    <3>3. CASE g.source = "advisor" /\ h.source = "advisor" /\ g.kind = h.kind
      BY <2>2, <3>1, <3>3 DEF IsIssue
    <3>. QED BY <2>1, <3>2, <3>3 DEF HR!Joins
  <2>4. CASE g.source = h.source /\ g.kind = h.kind /\ g.table = h.table /\ g.lane = h.lane
    <3> DEFINE s == HR!Worst({y.severity : y \in G})
               m == HR!Max({y.rank : y \in G})
               f == UNION {y.fix : y \in G}
               Card(x) == [source |-> x.source, kind |-> x.kind, id |-> <<>>, table |-> x.table,
                           severity |-> s, lane |-> x.lane, rank |-> m, fix |-> f]
    <3>1. HR!Face(HR!MergeInto(g, G)) = Card(g) /\ HR!Face(HR!MergeInto(h, G)) = Card(h)
      BY <2>2, FaceIs
    <3> HIDE DEF s, m, f
    <3>2. Card(g) = Card(h)
      BY <2>4
    <3>. QED BY <3>1, <3>2
  <2>. QED BY <2>3, <2>4
<1>. QED BY <1>1, <1>2

\* Each card of a list: the anchor of one of its members, with all that end on it.
LEMMA CardsAre ==
    ASSUME NEW l
    PROVE  HR!Reconcile(l) =
             {HR!MergeInto(l[HR!Anchor(l, i)],
                           {l[f] : f \in {f \in DOMAIN l : HR!Anchor(l, f) = HR!Anchor(l, i)}}) :
                i \in DOMAIN l}
<1> DEFINE ends == {<<i, HR!Anchor(l, i)>> : i \in DOMAIN l}
           Group(i) == {l[f] : f \in {f \in DOMAIN l : HR!Anchor(l, f) = HR!Anchor(l, i)}}
           Ended(e) == {l[f[1]] : f \in {f \in ends : f[2] = e[2]}}
<1>1. HR!Reconcile(l) = {HR!MergeInto(l[e[2]], Ended(e)) : e \in ends}
  BY DEF HR!Reconcile
<1>2. ASSUME NEW i \in DOMAIN l PROVE Ended(<<i, HR!Anchor(l, i)>>) = Group(i)
  <2>1. ASSUME NEW f \in DOMAIN l, HR!Anchor(l, f) = HR!Anchor(l, i)
        PROVE  l[f] \in Ended(<<i, HR!Anchor(l, i)>>)
    <3>1. <<f, HR!Anchor(l, f)>> \in {x \in ends : x[2] = <<i, HR!Anchor(l, i)>>[2]}
      BY <2>1
    <3>. QED BY <3>1
  <2>2. ASSUME NEW e \in ends, e[2] = <<i, HR!Anchor(l, i)>>[2]
        PROVE  l[e[1]] \in Group(i)
    <3>1. PICK f \in DOMAIN l : e = <<f, HR!Anchor(l, f)>>
      OBVIOUS
    <3>. QED BY <2>2, <3>1
  <2>. QED BY <2>1, <2>2
<1> DEFINE Card(i) == HR!MergeInto(l[HR!Anchor(l, i)], Group(i))
<1>3. ASSUME NEW i \in DOMAIN l
      PROVE  HR!MergeInto(l[<<i, HR!Anchor(l, i)>>[2]], Ended(<<i, HR!Anchor(l, i)>>)) = Card(i)
  BY <1>2
<1>4. {HR!MergeInto(l[e[2]], Ended(e)) : e \in ends} = {Card(i) : i \in DOMAIN l}
  <2> HIDE DEF Ended, Card
  <2>. QED BY <1>3
<1>. QED BY <1>1, <1>4

LEMMA AnchorIs ==
    ASSUME NEW S, NEW l, Lists(l, S), NEW i \in DOMAIN l
    PROVE  /\ HR!Anchor(l, i) \in DOMAIN l
           /\ l[HR!Anchor(l, i)] \in Home(S, l[i])
<1> DEFINE H == {h \in S : HR!Joins(l[i], h)}
           P == {h \in DOMAIN l : HR!Joins(l[i], l[h])}
<1>0. l \in Seq(S) /\ Len(l) \in Nat /\ DOMAIN l = 1..Len(l) /\ (\A k \in 1..Len(l) : l[k] \in S)
  <2>1. l \in Seq(S)
    BY DEF Lists
  <2>. QED BY <2>1
<1>1. P = {} <=> H = {}
  <2>1. ASSUME NEW h \in H PROVE P # {}
    <3>1. PICK k \in 1..Len(l) : l[k] = h
      BY DEF Lists
    <3>. QED BY <1>0, <3>1
  <2>2. ASSUME NEW k \in P PROVE l[k] \in H
    BY <1>0
  <2>. QED BY <2>1, <2>2
<1>2. CASE P = {}
  BY <1>1, <1>2 DEF HR!Anchor, Home
<1>3. CASE P # {}
  <2>1. P \in SUBSET (0..Len(l))
    BY <1>0
  <2>2. HR!Min(P) \in P
    BY <1>0, <1>3, <2>1, Extremes
  <2>3. HR!Anchor(l, i) = HR!Min(P)
    BY <1>3 DEF HR!Anchor
  <2> HIDE DEF P
  <2>4. HR!Anchor(l, i) \in P
    BY <2>2, <2>3
  <2>5. l[HR!Anchor(l, i)] \in H
    BY <1>0, <2>4 DEF P
  <2>6. Home(S, l[i]) = H
    BY <2>5 DEF Home
  <2>. QED BY <2>4, <2>5, <2>6 DEF P
<1>. QED BY <1>2, <1>3

\* Two members of a list end on one card if and only if they have one home.
LEMMA AnchorsMeet ==
    ASSUME NEW S, OneHeap(S), NEW l, Lists(l, S), Once(l), NEW i \in DOMAIN l, NEW j \in DOMAIN l
    PROVE  HR!Anchor(l, i) = HR!Anchor(l, j) <=> Home(S, l[i]) = Home(S, l[j])
<1> DEFINE H(x) == {h \in S : HR!Joins(x, h)}
           P(k) == {h \in DOMAIN l : HR!Joins(l[k], l[h])}
           a == HR!Anchor(l, i)
           b == HR!Anchor(l, j)
<1>0. /\ DOMAIN l = 1..Len(l) /\ (\A k \in DOMAIN l : l[k] \in S)
      /\ \A x \in S : \E k \in DOMAIN l : l[k] = x
  <2>1. l \in Seq(S) /\ DOMAIN l = 1..Len(l)
    BY DEF Lists
  <2>. QED BY <2>1 DEF Lists
<1>1. /\ a \in DOMAIN l /\ l[a] \in Home(S, l[i])
      /\ b \in DOMAIN l /\ l[b] \in Home(S, l[j])
  BY AnchorIs
<1>2. ASSUME a = b PROVE Home(S, l[i]) = Home(S, l[j])
  BY <1>0, <1>1, <1>2, HomesApart
<1>3. ASSUME Home(S, l[i]) = Home(S, l[j]) PROVE a = b
  <2>0. ASSUME NEW x
        PROVE  /\ H(x) = {} => Home(S, x) = {x}
               /\ H(x) # {} => Home(S, x) = H(x)
    BY DEF Home
  <2>1. CASE H(l[i]) = {}
    <3>1. l[a] = l[i] /\ l[b] = l[i]
      BY <1>1, <1>3, <2>0, <2>1
    <3>. QED BY <1>0, <1>1, <3>1 DEF Once
  <2>2. CASE H(l[j]) = {}
    <3>1. l[a] = l[j] /\ l[b] = l[j]
      BY <1>1, <1>3, <2>0, <2>2
    <3>. QED BY <1>0, <1>1, <3>1 DEF Once
  <2>3. CASE H(l[i]) # {} /\ H(l[j]) # {}
    <3>1. H(l[i]) = H(l[j])
      BY <1>3, <2>0, <2>3
    <3>2. P(i) = P(j)
      BY <1>0, <3>1
    <3>3. P(i) # {}
      BY <1>0, <2>3
    <3>4. a = HR!Min(P(i)) /\ b = HR!Min(P(j))
      BY <3>2, <3>3 DEF HR!Anchor
    <3>. QED BY <3>2, <3>4
  <2>. QED BY <2>1, <2>2, <2>3
<1>. QED BY <1>2, <1>3

\* Whatever their order, the cards of a set of issues have the faces of the set.
LEMMA FacesOfList ==
    ASSUME NEW S, Graded(S), OneHeap(S), NEW l, Lists(l, S), Once(l)
    PROVE  {HR!Face(c) : c \in HR!Reconcile(l)} = Faces(S)
<1> DEFINE a(i) == HR!Anchor(l, i)
           Group(i) == {l[f] : f \in {f \in DOMAIN l : a(f) = a(i)}}
<1>0. /\ \A k \in DOMAIN l : l[k] \in S
      /\ \A x \in S : \E k \in DOMAIN l : l[k] = x
  <2>1. l \in Seq(S) /\ DOMAIN l = 1..Len(l)
    BY DEF Lists
  <2>. QED BY <2>1 DEF Lists
<1>1. ASSUME NEW i \in DOMAIN l PROVE Group(i) = Household(S, l[i])
  <2>1. \A f \in DOMAIN l : a(f) = a(i) <=> Home(S, l[f]) = Home(S, l[i])
    BY AnchorsMeet
  <2> HIDE DEF a
  <2>. QED BY <1>0, <2>1 DEF Household
<1>2. \A i \in DOMAIN l : l[a(i)] \in Home(S, l[i])
  BY AnchorIs
<1>3. HR!Reconcile(l) = {HR!MergeInto(l[a(i)], Group(i)) : i \in DOMAIN l}
  BY CardsAre
<1> HIDE DEF a, Group
<1>4. ASSUME NEW c \in HR!Reconcile(l) PROVE HR!Face(c) \in Faces(S)
  <2>1. PICK i \in DOMAIN l : c = HR!MergeInto(l[a(i)], Group(i))
    BY <1>3
  <2>2. l[i] \in S /\ c = HR!MergeInto(l[a(i)], Household(S, l[i])) /\ l[a(i)] \in Home(S, l[i])
    BY <1>0, <1>1, <1>2, <2>1
  <2>. QED BY <2>2 DEF Faces
<1>5. ASSUME NEW i \in S, NEW h \in Home(S, i)
      PROVE  \E c \in HR!Reconcile(l) : HR!Face(c) = HR!Face(HR!MergeInto(h, Household(S, i)))
  <2>1. PICK k \in DOMAIN l : l[k] = i
    BY <1>0
  <2>2. HR!MergeInto(l[a(k)], Group(k)) \in HR!Reconcile(l)
    BY <1>3
  <2>3. Group(k) = Household(S, i) /\ l[a(k)] \in Home(S, i)
    BY <1>1, <1>2, <2>1
  <2>4. HR!Face(HR!MergeInto(l[a(k)], Household(S, i))) = HR!Face(HR!MergeInto(h, Household(S, i)))
    BY <2>3, HostsAlike
  <2>. QED BY <2>2, <2>3, <2>4
<1>. QED BY <1>4, <1>5 DEF Faces

\* One of the issues with an id wins.
LEMMA OneWinner ==
    ASSUME NEW list, IsGradedList(list), NEW a \in HR!Dedup(list), NEW b \in HR!Dedup(list), a.id = b.id
    PROVE  a = b
<1>0. Len(list) \in Nat /\ DOMAIN list = 1..Len(list)
  BY DEF IsGradedList
<1> DEFINE Wins(i) ==
             \A j \in DOMAIN list : list[j].id = list[i].id =>
               /\ j < i => HR!Replaces(list[j], list[i])
               /\ j > i => ~HR!Replaces(list[i], list[j])
<1>1. PICK i \in DOMAIN list : a = list[i] /\ Wins(i)
  BY DEF HR!Dedup
<1>2. PICK j \in DOMAIN list : b = list[j] /\ Wins(j)
  BY DEF HR!Dedup
<1>3. i \in Int /\ j \in Int
  BY <1>0
<1>4. ~(i < j) /\ ~(j < i)
  <2>1. i < j => j > i
    BY <1>3
  <2>2. j < i => i > j
    BY <1>3
  <2>. QED BY <1>1, <1>2, <2>1, <2>2
<1>5. i = j
  BY <1>3, <1>4
<1>. QED BY <1>1, <1>2, <1>5

LEMMA WinnersAre ==
    ASSUME NEW list, IsGradedList(list)
    PROVE  LET D == HR!Dedup(list)
           IN  Graded(D) /\ IsFiniteSet(D) /\ OneHeap(D) /\ Lists(HR!Listed(D), D) /\ Once(HR!Listed(D))
<1> DEFINE D == HR!Dedup(list)
<1>1. Graded(D)
  <2>1. PICK S : Graded(S) /\ list \in Seq(S)
    BY DEF IsGradedList
  <2>2. \A i \in DOMAIN list : list[i] \in S
    BY <2>1
  <2>. QED BY <2>1, <2>2 DEF HR!Dedup, Graded
<1>2. IsFiniteSet(D)
  BY DedupKeeps
<1>3. OneHeap(D)
  <2> SUFFICES ASSUME NEW g \in D, NEW h \in D, HR!IsHeap(g), HR!IsHeap(h), g.table = h.table
               PROVE  g = h
    BY DEF OneHeap
  <2>1. g.id = h.id
    BY <1>1 DEF Graded, IsIssue
  <2>. QED BY <2>1, OneWinner
<1>4. Lists(HR!Listed(D), D) /\ Once(HR!Listed(D))
  BY <1>2, ListedIsSeq
<1>. QED BY <1>1, <1>2, <1>3, <1>4

\* The issues that may be folded, apart from the others.
Foldable(D) == {i \in D : i.source \in HR!Folding}

LEMMA OthersApart ==
    ASSUME NEW D, NEW i \in D
    PROVE  /\ i \in Foldable(D) => /\ Home(D, i) = Home(Foldable(D), i)
                                   /\ Home(D, i) \subseteq Foldable(D)
                                   /\ Household(D, i) = Household(Foldable(D), i)
           /\ i \notin Foldable(D) => Home(D, i) = {i}
<1> DEFINE E == Foldable(D)
           H(S, x) == {h \in S : HR!Joins(x, h)}
<1>1. ASSUME NEW x \in D, NEW h \in D, HR!Joins(x, h) PROVE x \in E /\ h \in E
  BY <1>1 DEF HR!Joins, HR!IsHeap, Foldable, HR!Folding
<1>2. E \subseteq D
  BY DEF Foldable
<1>3. ASSUME NEW x \in E PROVE Home(D, x) = Home(E, x) /\ Home(D, x) \subseteq E
  <2>1. H(D, x) = H(E, x)
    BY <1>1, <1>2
  <2>. QED BY <1>1, <1>2, <2>1 DEF Home
<1>4. ASSUME NEW x \in D, x \notin E PROVE Home(D, x) = {x}
  <2>1. H(D, x) = {}
    BY <1>1, <1>4
  <2>. QED BY <2>1 DEF Home
<1>5. ASSUME i \in E PROVE Household(D, i) = Household(E, i)
  <2>1. ASSUME NEW j \in D, Home(D, j) = Home(D, i) PROVE j \in E
    <3>1. Home(D, j) \subseteq E
      BY <1>3, <1>5, <2>1
    <3>. QED BY <1>4, <3>1
  <2>. QED BY <1>2, <1>3, <1>5, <2>1 DEF Household
<1>. QED BY <1>3, <1>4, <1>5

LEMMA ShownAre ==
    ASSUME NEW list, IsGradedList(list)
    PROVE  LET D == HR!Dedup(list)
           IN  {HR!Face(c) : c \in {c \in HR!Reconcile(HR!Listed(D)) : c.source \in HR!Folding}}
                 = Faces(Foldable(D))
<1> DEFINE D == HR!Dedup(list)
           E == Foldable(D)
           R == HR!Reconcile(HR!Listed(D))
<1> DEFINE l == HR!Listed(D)
<1>0. Graded(D) /\ OneHeap(D) /\ Lists(l, D) /\ Once(l)
  BY WinnersAre
<1>1. {HR!Face(c) : c \in R} = Faces(D)
  BY <1>0, FacesOfList
<1>2. ASSUME NEW i \in D, NEW h \in Home(D, i) PROVE IsIssue(h)
  <2>1. h \in D
    BY <1>2 DEF Home
  <2>. QED BY <1>0, <2>1 DEF Graded
<1>3. ASSUME NEW c \in R PROVE HR!Face(c).source = c.source
  <2> HIDE DEF l
  <2>1. PICK i \in DOMAIN l : \E G : c = HR!MergeInto(l[HR!Anchor(l, i)], G)
    BY <1>3, CardsAre DEF l
  <2>2. PICK G : c = HR!MergeInto(l[HR!Anchor(l, i)], G)
    BY <2>1
  <2>3. l[i] \in D
    <3>1. l \in Seq(D)
      BY <1>0 DEF Lists
    <3>. QED BY <3>1
  <2>4. IsIssue(l[HR!Anchor(l, i)])
    BY <1>0, <1>2, <2>3, AnchorIs
  <2>5. HR!MergeInto(l[HR!Anchor(l, i)], G).source = l[HR!Anchor(l, i)].source
        /\ HR!Face(HR!MergeInto(l[HR!Anchor(l, i)], G)).source = l[HR!Anchor(l, i)].source
    BY <2>4, FaceSource
  <2>. QED BY <2>2, <2>5
<1> HIDE DEF D, R
<1>4. {HR!Face(c) : c \in {c \in R : c.source \in HR!Folding}}
        = {f \in Faces(D) : f.source \in HR!Folding}
  BY <1>1, <1>3
<1>5. ASSUME NEW i \in D, NEW h \in Home(D, i)
      PROVE  HR!Face(HR!MergeInto(h, Household(D, i))).source \in HR!Folding <=> i \in E
  <2>1. HR!Face(HR!MergeInto(h, Household(D, i))).source = h.source
    BY <1>2, FaceSource
  <2>2. h \in D
    BY DEF Home
  <2>3. h.source \in HR!Folding <=> i \in E
    BY <2>2, OthersApart DEF Foldable
  <2>. QED BY <2>1, <2>3
<1>6. ASSUME NEW i \in E
      PROVE  Home(D, i) = Home(E, i) /\ Household(D, i) = Household(E, i) /\ i \in D
  BY OthersApart DEF Foldable
<1> DEFINE F(i, h) == HR!Face(HR!MergeInto(h, Household(D, i)))
<1>7. \A x \in Faces(D) : \E i \in D : \E h \in Home(D, i) : x = F(i, h)
  BY DEF Faces
<1>8. \A x \in Faces(E) : \E i \in E : \E h \in Home(E, i) : x = HR!Face(HR!MergeInto(h, Household(E, i)))
  BY DEF Faces
<1>9. \A i \in E : \A h \in Home(E, i) : HR!Face(HR!MergeInto(h, Household(E, i))) \in Faces(E)
  BY DEF Faces
<1>10. \A i \in D : \A h \in Home(D, i) : F(i, h) \in Faces(D)
  BY DEF Faces
<1> HIDE DEF E
<1>11. ASSUME NEW x \in Faces(D), x.source \in HR!Folding PROVE x \in Faces(E)
  <2>1. PICK i \in D : \E h \in Home(D, i) : x = F(i, h)
    BY <1>7
  <2>2. PICK h \in Home(D, i) : x = F(i, h)
    BY <2>1
  <2>3. i \in E
    BY <1>5, <1>11, <2>2
  <2>. QED BY <1>6, <1>9, <2>2, <2>3
<1>12. ASSUME NEW x \in Faces(E) PROVE x \in Faces(D) /\ x.source \in HR!Folding
  <2>1. PICK i \in E : \E h \in Home(E, i) : x = HR!Face(HR!MergeInto(h, Household(E, i)))
    BY <1>8
  <2>2. PICK h \in Home(E, i) : x = HR!Face(HR!MergeInto(h, Household(E, i)))
    BY <2>1
  <2>3. i \in D /\ h \in Home(D, i) /\ x = F(i, h)
    BY <1>6, <2>2
  <2>. QED BY <1>5, <1>10, <2>1, <2>3
<1>13. {f \in Faces(D) : f.source \in HR!Folding} = Faces(E)
  BY <1>11, <1>12
<1>. QED BY <1>4, <1>13 DEF D, E, R

-----------------------------------------------------------------------------
\* A list of all but two, with the one before and the other after it.
LEMMA Embraced ==
    ASSUME NEW S, NEW a \in S, NEW b \in S, a # b, NEW l, Lists(l, S \ {a, b}), Once(l)
    PROVE  LET m == <<a>> \o l \o <<b>> IN Lists(m, S) /\ Once(m)
<1> DEFINE n == Len(l)
           p == <<a>> \o l
           m == p \o <<b>>
<1>0. l \in Seq(S \ {a, b}) /\ l \in Seq(S) /\ n \in Nat
      /\ \A i \in 1..n : l[i] \in S \ {a, b}
  <2>1. l \in Seq(S \ {a, b})
    BY DEF Lists
  <2>. QED BY <2>1
<1>1. <<a>> \in Seq(S) /\ Len(<<a>>) = 1 /\ <<a>>[1] = a /\ <<b>> \in Seq(S) /\ Len(<<b>>) = 1
      /\ <<b>>[1] = b
  OBVIOUS
<1>2. p \in Seq(S) /\ Len(p) = n + 1 /\ p[1] = a /\ \A i \in 2..(n + 1) : p[i] = l[i - 1]
  <2>1. p \in Seq(S) /\ Len(p) = 1 + n
        /\ \A i \in 1..(1 + n) : p[i] = IF i <= 1 THEN <<a>>[i] ELSE l[i - 1]
    BY <1>0, <1>1, ConcatProperties
  <2>. QED BY <1>0, <1>1, <2>1
<1> HIDE DEF p
<1>3. m \in Seq(S) /\ Len(m) = n + 2 /\ m[n + 2] = b /\ \A i \in 1..(n + 1) : m[i] = p[i]
  <2>1. m \in Seq(S) /\ Len(m) = (n + 1) + 1
        /\ \A i \in 1..((n + 1) + 1) : m[i] = IF i <= n + 1 THEN p[i] ELSE <<b>>[i - (n + 1)]
    BY <1>0, <1>1, <1>2, ConcatProperties
  <2>2. (n + 2) \in 1..((n + 1) + 1) /\ ~(n + 2 <= n + 1) /\ (n + 2) - (n + 1) = 1
    BY <1>0
  <2>. QED BY <1>0, <1>1, <2>1, <2>2
<1> HIDE DEF m
<1>4. /\ m[1] = a /\ m[n + 2] = b /\ 1 \in 1..Len(m) /\ n + 2 \in 1..Len(m)
      /\ \A i \in 1..n : i + 1 \in 1..Len(m) /\ m[i + 1] = l[i]
      /\ \A i \in 1..Len(m) : i = 1 \/ i = n + 2 \/ (i - 1 \in 1..n /\ i = (i - 1) + 1)
  <2>1. ASSUME NEW i \in 1..n PROVE i + 1 \in 1..Len(m) /\ m[i + 1] = l[i]
    <3>1. i + 1 \in 2..(n + 1) /\ i + 1 \in 1..(n + 1) /\ (i + 1) - 1 = i
      BY <1>0
    <3>. QED BY <1>0, <1>2, <1>3, <3>1
  <2>. QED BY <1>0, <1>2, <1>3, <2>1
<1>5. Lists(m, S)
  <2> SUFFICES ASSUME NEW x \in S PROVE \E i \in 1..Len(m) : m[i] = x
    BY <1>3 DEF Lists
  <2>1. CASE x \in S \ {a, b}
    <3>1. PICK i \in 1..n : l[i] = x
      BY <2>1 DEF Lists
    <3>. QED BY <1>4, <3>1
  <2>. QED BY <1>4, <2>1
<1>6. Once(m)
  <2> SUFFICES ASSUME NEW i \in 1..Len(m), NEW j \in 1..Len(m), m[i] = m[j] PROVE i = j
    BY DEF Once
  <2>1. CASE i - 1 \in 1..n /\ j - 1 \in 1..n
    <3>1. l[i - 1] = l[j - 1]
      BY <1>4, <2>1
    <3>. QED BY <2>1, <3>1 DEF Once
  <2>2. ASSUME NEW k \in 1..Len(m), k - 1 \in 1..n PROVE m[k] # a /\ m[k] # b
    <3>1. m[k] = l[k - 1]
      BY <1>4, <2>2
    <3>. QED BY <1>0, <2>2, <3>1
  <2>3. \A k \in 1..Len(m) : k = 1 \/ k = n + 2 \/ k - 1 \in 1..n
    BY <1>4
  <2>. QED BY <1>4, <2>1, <2>2, <2>3
<1>. QED BY <1>5, <1>6 DEF m, p

LEMMA AnyOrder ==
    ASSUME NEW list, IsGradedList(list),
           NEW a \in Foldable(HR!Dedup(list)), NEW b \in Foldable(HR!Dedup(list)), a # b
    PROVE  LET D == HR!Dedup(list)
           IN  {HR!Face(c) : c \in {c \in HR!Reconcile(HR!Listed(D)) : c.source \in HR!Folding}}
                 = {HR!Face(c) : c \in
                      HR!Reconcile(<<a>> \o HR!Listed(Foldable(D) \ {a, b}) \o <<b>>)}
<1> DEFINE D == HR!Dedup(list)
           E == Foldable(D)
<1>1. Graded(D) /\ IsFiniteSet(D) /\ OneHeap(D)
  BY WinnersAre
<1>2. Graded(E) /\ OneHeap(E) /\ IsFiniteSet(E \ {a, b})
  <2>1. E \in SUBSET D /\ E \ {a, b} \in SUBSET D
    BY DEF Foldable
  <2> HIDE DEF D, E
  <2>. QED BY <1>1, <2>1, FS_Subset DEF Graded, OneHeap
<1>3. Lists(HR!Listed(E \ {a, b}), E \ {a, b}) /\ Once(HR!Listed(E \ {a, b}))
  BY <1>2, ListedIsSeq
<1> DEFINE m == <<a>> \o HR!Listed(E \ {a, b}) \o <<b>>
<1>4. Lists(m, E) /\ Once(m)
  BY <1>3, Embraced
<1>5. {HR!Face(c) : c \in HR!Reconcile(m)} = Faces(E)
  BY <1>2, <1>4, FacesOfList
<1>. QED BY <1>5, ShownAre

-----------------------------------------------------------------------------
\* A report that is done is made of the issues gathered and the week read.
Concluded ==
    scan.pc = "done" =>
        \E monitored : scan.report = HR!Summary(HR!Listed(HR!Dedup(scan.issues)), scan.pain,
                                                monitored, scan.counterAge)

LEMMA ConcludedKept == ASSUME ScanInv, Concluded, [HR!Next]_HR!vars PROVE Concluded'
<1>1. ASSUME NEW failed, HR!Pull(failed) PROVE Concluded'
  <2>1. scan'.pc = "week"
    BY <1>1 DEF HR!Pull, ScanInv, IsScan
  <2>. QED BY <2>1 DEF Concluded
<1>2. ASSUME NEW opened, HR!BuildReport(opened) PROVE Concluded'
  <2>1. scan'.pc = "probes"
    BY <1>2 DEF HR!BuildReport, ScanInv, IsScan
  <2>. QED BY <2>1 DEF Concluded
<1>3. ASSUME NEW failed, NEW connected, HR!Operational(failed, connected) PROVE Concluded'
  <2>1. scan'.pc = "freshness"
    BY <1>3 DEF HR!Operational, ScanInv, IsScan
  <2>. QED BY <2>1 DEF Concluded
<1>4. ASSUME NEW opened, HR!LastCapture(opened) PROVE Concluded'
  <2>1. scan'.pc = "grade"
    BY <1>4 DEF HR!LastCapture, ScanInv, IsScan
  <2>. QED BY <2>1 DEF Concluded
<1>5. ASSUME NEW opened, HR!Grade(opened) PROVE Concluded'
  <2> DEFINE monitored == IF HR!Running /\ opened THEN HR!Age(HR!Times) ELSE <<>>
             report == HR!Summary(HR!Listed(HR!Dedup(scan.issues)), scan.pain, monitored,
                                  scan.counterAge)
  <2>1. scan' = [scan EXCEPT !.pc = "done", !.report = report]
    BY <1>5 DEF HR!Grade
  <2> HIDE DEF report
  <2>2. /\ scan'.report = report /\ scan'.issues = scan.issues /\ scan'.pain = scan.pain
        /\ scan'.counterAge = scan.counterAge
    BY <2>1 DEF ScanInv, IsScan
  <2>. QED BY <2>2 DEF Concluded, report
<1>6. CASE HR!Close
  BY <1>6, IdleTyped DEF HR!Close, Concluded
<1>7. CASE UNCHANGED scan
  BY <1>7 DEF Concluded
<1>8. HR!Meanwhile \/ UNCHANGED HR!vars => UNCHANGED scan
  BY DEF HR!Meanwhile, HR!Tick, HR!Capture, HR!Prune, HR!Restart, HR!vars
<1>. QED BY <1>1, <1>2, <1>3, <1>4, <1>5, <1>6, <1>7, <1>8 DEF HR!Next, HR!Scan

-----------------------------------------------------------------------------
(* The issues with one id, as a scan gathers them.                           *)

\* They are of one table and source; what ranks higher, or as high but earlier,
\* is as severe.
Fair(l) ==
    \A i, j \in 1..Len(l) : l[i].id = l[j].id =>
        /\ l[i].source = l[j].source /\ l[i].table = l[j].table
        /\ l[i].rank > l[j].rank \/ (l[i].rank = l[j].rank /\ i < j)
             => HR!SeverityRank(l[i].severity) <= HR!SeverityRank(l[j].severity)

\* ... and in any order.
Even(U) ==
    \A x, y \in U : x.id = y.id =>
        /\ x.source = y.source /\ x.table = y.table
        /\ x.rank >= y.rank => HR!SeverityRank(x.severity) <= HR!SeverityRank(y.severity)

\* Of these sources, which their ids name.
From(l, A) == \A i \in 1..Len(l) : l[i].source \in A /\ l[i].id[1] = l[i].source

LEMMA EvenIsFair ==
    ASSUME NEW U, Graded(U), Even(U), NEW l \in Seq(U) PROVE Fair(l)
<1>1. \A i \in 1..Len(l) : l[i] \in U
  OBVIOUS
<1> SUFFICES ASSUME NEW i \in 1..Len(l), NEW j \in 1..Len(l), l[i].id = l[j].id
             PROVE  /\ l[i].source = l[j].source /\ l[i].table = l[j].table
                    /\ l[i].rank > l[j].rank \/ (l[i].rank = l[j].rank /\ i < j)
                         => HR!SeverityRank(l[i].severity) <= HR!SeverityRank(l[j].severity)
  BY DEF Fair
<1>2. l[i] \in U /\ l[j] \in U
  BY <1>1
<1>3. l[i].rank \in Int /\ l[j].rank \in Int
  BY <1>2 DEF Graded, IsIssue
<1>4. (l[i].rank > l[j].rank \/ (l[i].rank = l[j].rank /\ i < j)) => l[i].rank >= l[j].rank
  BY <1>3
<1>. QED BY <1>2, <1>4 DEF Even

LEMMA FairConcat ==
    ASSUME NEW a, IsGradedList(a), Fair(a), NEW A, From(a, A),
           NEW b, IsGradedList(b), Fair(b), NEW B, From(b, B), A \cap B = {}
    PROVE  Fair(a \o b) /\ From(a \o b, A \cup B)
<1> DEFINE m == a \o b
           k == Len(a)
           n == Len(b)
<1>1. PICK S : a \in Seq(S)
  BY DEF IsGradedList
<1>2. PICK T : b \in Seq(T)
  BY DEF IsGradedList
<1>3. a \in Seq(S \cup T) /\ b \in Seq(S \cup T) /\ k \in Nat /\ n \in Nat
  BY <1>1, <1>2
<1>4. Len(m) = k + n /\ \A i \in 1..(k + n) : m[i] = IF i <= k THEN a[i] ELSE b[i - k]
  BY <1>3, ConcatProperties
<1> HIDE DEF m
<1>5. ASSUME NEW i \in 1..Len(m)
      PROVE  /\ i \in Int
             /\ \/ i <= k /\ i \in 1..k /\ m[i] = a[i]
                \/ i > k /\ i - k \in 1..n /\ m[i] = b[i - k]
  <2>1. i \in 1..(k + n)
    BY <1>4
  <2>2. m[i] = IF i <= k THEN a[i] ELSE b[i - k]
    BY <1>4, <2>1
  <2>3. CASE i <= k
    BY <1>3, <2>1, <2>2, <2>3
  <2>4. CASE ~(i <= k)
    BY <1>3, <2>1, <2>2, <2>4
  <2>. QED BY <2>3, <2>4
<1> HIDE DEF k, n
<1>6. ASSUME NEW i \in 1..Len(m)
      PROVE  /\ m[i].source \in A \cup B /\ m[i].id[1] = m[i].source
             /\ m[i].source \in A <=> i <= k
  <2>1. CASE i <= k
    BY <1>5, <2>1 DEF From, k
  <2>2. CASE ~(i <= k)
    <3>1. i - k \in 1..n /\ m[i] = b[i - k]
      BY <1>5, <2>2
    <3>. QED BY <2>2, <3>1 DEF From, n
  <2>. QED BY <2>1, <2>2
<1>7. From(m, A \cup B)
  BY <1>6 DEF From
<1>8. Fair(m)
  <2> SUFFICES ASSUME NEW i \in 1..Len(m), NEW j \in 1..Len(m), m[i].id = m[j].id
               PROVE  /\ m[i].source = m[j].source /\ m[i].table = m[j].table
                      /\ m[i].rank > m[j].rank \/ (m[i].rank = m[j].rank /\ i < j)
                           => HR!SeverityRank(m[i].severity) <= HR!SeverityRank(m[j].severity)
    BY DEF Fair
  <2>1. i <= k <=> j <= k
    BY <1>6
  <2>2. CASE i <= k
    <3>1. i \in 1..Len(a) /\ j \in 1..Len(a) /\ m[i] = a[i] /\ m[j] = a[j]
      BY <1>3, <1>5, <2>1, <2>2 DEF k
    <3>. QED BY <3>1 DEF Fair
  <2>3. CASE ~(i <= k)
    <3>0. i \in Int /\ j \in Int /\ k \in Int /\ i - k \in 1..n /\ j - k \in 1..n
          /\ m[i] = b[i - k] /\ m[j] = b[j - k]
      <4>1. ~(j <= k)
        BY <2>1, <2>3
      <4>2. i \in Int /\ i - k \in 1..n /\ m[i] = b[i - k]
        BY <1>5, <2>3
      <4>3. j \in Int /\ j - k \in 1..n /\ m[j] = b[j - k]
        BY <1>5, <4>1
      <4>4. k \in Int
        BY <1>3 DEF k
      <4>. QED BY <4>2, <4>3, <4>4
    <3> DEFINE x == i - k
               y == j - k
    <3>1. x \in 1..Len(b) /\ y \in 1..Len(b) /\ m[i] = b[x] /\ m[j] = b[y]
          /\ (i < j <=> x < y)
      BY <3>0 DEF n
    <3> HIDE DEF x, y
    <3>. QED BY <3>1 DEF Fair
  <2>. QED BY <2>2, <2>3
<1>. QED BY <1>7, <1>8 DEF m

-----------------------------------------------------------------------------
LEMMA RecFields ==
    ASSUME NEW kind, NEW about, NEW t, NEW r
    PROVE  LET x == HR!Rec(kind, about, t, r)
           IN  /\ x.source = "advisor" /\ x.id = <<"advisor", kind, about>> /\ x.table = t
               /\ x.severity = r.severity /\ x.rank = r.gain
BY IssueFields DEF HR!Rec

\* Ids are told apart part by part.
LEMMA IdParts ==
    /\ \A a, b, c, d, e, f : <<a, b, c>> = <<d, e, f>> => a = d /\ b = e /\ c = f
    /\ \A a, b, c, d : <<a, b>> = <<c, d>> => a = c /\ b = d
    /\ \A a, b : <<a>> = <<b>> => a = b
<1>1. ASSUME NEW a, NEW b, NEW c, NEW d, NEW e, NEW f, <<a, b, c>> = <<d, e, f>>
      PROVE  a = d /\ b = e /\ c = f
  <2>1. <<a, b, c>>[1] = <<d, e, f>>[1] /\ <<a, b, c>>[2] = <<d, e, f>>[2]
        /\ <<a, b, c>>[3] = <<d, e, f>>[3]
    BY <1>1
  <2>. QED BY <2>1
<1>2. ASSUME NEW a, NEW b, NEW c, NEW d, <<a, b>> = <<c, d>> PROVE a = c /\ b = d
  <2>1. <<a, b>>[1] = <<c, d>>[1] /\ <<a, b>>[2] = <<c, d>>[2]
    BY <1>2
  <2>. QED BY <2>1
<1>3. ASSUME NEW a, NEW b, <<a>> = <<b>> PROVE a = b
  <2>1. <<a>>[1] = <<b>>[1]
    BY <1>3
  <2>. QED BY <2>1
<1>. QED BY <1>1, <1>2, <1>3

LEMMA RecsFair ==
    ASSUME HR!HealthAssumption, server \in Servers, NEW failed
    PROVE  Fair(HR!Recs(failed)) /\ From(HR!Recs(failed), {"advisor"})
<1> DEFINE l == HR!Recs(failed)
           A == HR!AllRecs(failed)
           M(t) == HR!Missing(t, failed)
           U(t) == HR!UnusedIndexes(t, failed)
           D(t) == HR!DuplicateIndexes(t, failed)
<1>0. Lists(l, A) /\ Sorted(l) /\ Graded(A)
  BY AllRecsGraded, RecsSorted DEF HR!Recs
<1>1. l \in Seq(A) /\ \A i \in 1..Len(l) : l[i] \in A /\ IsIssue(l[i])
  <2>1. l \in Seq(A)
    BY <1>0 DEF Lists
  <2> HIDE DEF l, A
  <2>. QED BY <1>0, <2>1 DEF Graded
<1>2. ASSUME NEW t \in Tables
      PROVE  /\ M(t) \in SUBSET HR!Advised
             /\ \A q, r \in M(t) : HR!NotMilder(q, r)
             /\ \A q, r \in U(t) : q.fix = r.fix => HR!NotMilder(q, r)
             /\ \A q, r \in D(t) : q.fix = r.fix => HR!NotMilder(q, r)
  <2>1. HR!Rated(server.tables[t])
    BY DEF HR!HealthAssumption
  <2>. QED BY <2>1, TableTyped DEF HR!Rated, HR!Missing, HR!UnusedIndexes, HR!DuplicateIndexes
<1> DEFINE Of(x, k, t, r) ==
              /\ x.source = "advisor"
              /\ x.id = <<"advisor", k, IF k = "missing_index" THEN <<t>> ELSE <<t, r.fix>>>>
              /\ x.table = t /\ x.severity = r.severity /\ x.rank = r.gain
           Told(k, t) == IF k = "missing_index" THEN M(t)
                         ELSE IF k = "unused_index" THEN U(t) ELSE D(t)
           Kinds == {"missing_index", "unused_index", "duplicate_index"}
<1>3. ASSUME NEW x \in A
      PROVE  \E t \in Tables, k \in Kinds : \E r \in Told(k, t) :
               /\ Of(x, k, t, r)
               /\ x = HR!Rec(k, IF k = "missing_index" THEN <<t>> ELSE <<t, r.fix>>, t, r)
  <2>1. PICK t \in Tables : \/ \E r \in M(t) : x = HR!Rec("missing_index", <<t>>, t, r)
                            \/ \E r \in U(t) : x = HR!Rec("unused_index", <<t, r.fix>>, t, r)
                            \/ \E r \in D(t) : x = HR!Rec("duplicate_index", <<t, r.fix>>, t, r)
    BY DEF HR!AllRecs
  <2>2. CASE \E r \in M(t) : x = HR!Rec("missing_index", <<t>>, t, r)
    <3>1. PICK r \in M(t) : x = HR!Rec("missing_index", <<t>>, t, r)
      BY <2>2
    <3>2. Of(x, "missing_index", t, r)
      BY <3>1, RecFields
    <3>3. r \in Told("missing_index", t) /\ "missing_index" \in Kinds
      BY <3>1
    <3>. QED BY <3>1, <3>2, <3>3
  <2>3. CASE \E r \in U(t) : x = HR!Rec("unused_index", <<t, r.fix>>, t, r)
    <3>1. PICK r \in U(t) : x = HR!Rec("unused_index", <<t, r.fix>>, t, r)
      BY <2>3
    <3>2. Of(x, "unused_index", t, r)
      BY <3>1, RecFields
    <3>3. r \in Told("unused_index", t) /\ "unused_index" \in Kinds
      BY <3>1
    <3>. QED BY <3>1, <3>2, <3>3
  <2>4. CASE \E r \in D(t) : x = HR!Rec("duplicate_index", <<t, r.fix>>, t, r)
    <3>1. PICK r \in D(t) : x = HR!Rec("duplicate_index", <<t, r.fix>>, t, r)
      BY <2>4
    <3>2. Of(x, "duplicate_index", t, r)
      BY <3>1, RecFields
    <3>3. r \in Told("duplicate_index", t) /\ "duplicate_index" \in Kinds
      BY <3>1
    <3>. QED BY <3>1, <3>2, <3>3
  <2>. QED BY <2>1, <2>2, <2>3, <2>4
<1>7. ASSUME NEW t \in Tables, NEW k \in Kinds, NEW q \in Told(k, t), NEW r \in Told(k, t)
      PROVE  k = "missing_index" \/ q.fix = r.fix => HR!NotMilder(q, r)
  BY <1>2
<1> HIDE DEF l, A, M, U, D, Told
<1>4. ASSUME NEW x \in A, NEW y \in A, x.id = y.id
      PROVE  /\ x.source = "advisor" /\ x.table = y.table
             /\ x.rank > y.rank =>
                   HR!SeverityRank(x.severity) <= HR!SeverityRank(y.severity)
  <2> DEFINE About(k, t, r) == IF k = "missing_index" THEN <<t>> ELSE <<t, r.fix>>
  <2>1. PICK t \in Tables, k \in Kinds : \E r \in Told(k, t) :
               Of(x, k, t, r) /\ x = HR!Rec(k, About(k, t, r), t, r)
    BY <1>3
  <2>2. PICK q \in Told(k, t) : Of(x, k, t, q) /\ x = HR!Rec(k, About(k, t, q), t, q)
    BY <2>1
  <2>3. PICK s \in Tables, m \in Kinds : \E r \in Told(m, s) :
               Of(y, m, s, r) /\ y = HR!Rec(m, About(m, s, r), s, r)
    BY <1>3
  <2>4. PICK r \in Told(m, s) : Of(y, m, s, r) /\ y = HR!Rec(m, About(m, s, r), s, r)
    BY <2>3
  <2>5. <<"advisor", k, About(k, t, q)>> = <<"advisor", m, About(m, s, r)>>
    BY <1>4, <2>2, <2>4
  <2>6. k = m /\ About(k, t, q) = About(m, s, r)
    BY <2>5, IdParts
  <2>7. CASE k = "missing_index"
    <3>1. <<t>> = <<s>>
      BY <2>6, <2>7
    <3>2. t = s
      BY <3>1, IdParts
    <3>3. r \in Told(k, t)
      BY <2>6, <3>2
    <3>4. HR!NotMilder(q, r)
      BY <1>7, <2>7, <3>3
    <3>. QED BY <2>2, <2>4, <3>2, <3>4 DEF HR!NotMilder
  <2>8. CASE k # "missing_index"
    <3>1. <<t, q.fix>> = <<s, r.fix>>
      BY <2>6, <2>8
    <3>2. t = s /\ q.fix = r.fix
      BY <3>1, IdParts
    <3>3. r \in Told(k, t)
      BY <2>6, <3>2
    <3>4. HR!NotMilder(q, r)
      BY <1>7, <3>2, <3>3
    <3>. QED BY <2>2, <2>4, <3>2, <3>4 DEF HR!NotMilder
  <2>. QED BY <2>7, <2>8
<1>5. From(l, {"advisor"})
  <2> SUFFICES ASSUME NEW i \in 1..Len(l)
               PROVE  l[i].source \in {"advisor"} /\ l[i].id[1] = l[i].source
    BY DEF From
  <2>1. l[i] \in A
    BY <1>1
  <2>2. PICK t \in Tables, k \in Kinds : \E r \in Told(k, t) : Of(l[i], k, t, r)
    BY <1>3, <2>1
  <2>. QED BY <2>2
<1>6. Fair(l)
  <2> SUFFICES ASSUME NEW i \in 1..Len(l), NEW j \in 1..Len(l), l[i].id = l[j].id
               PROVE  /\ l[i].source = l[j].source /\ l[i].table = l[j].table
                      /\ l[i].rank > l[j].rank \/ (l[i].rank = l[j].rank /\ i < j)
                           => HR!SeverityRank(l[i].severity) <= HR!SeverityRank(l[j].severity)
    BY DEF Fair
  <2>1. l[i] \in A /\ l[j] \in A /\ l[i].severity \in Grades /\ l[j].severity \in Grades
    BY <1>1 DEF IsIssue
  <2>2. CASE i < j
    <3>1. ~(HR!SeverityRank(l[j].severity) < HR!SeverityRank(l[i].severity))
      BY <1>0, <2>2 DEF Sorted, HR!Urgent
    <3>2. HR!SeverityRank(l[i].severity) \in 1..4 /\ HR!SeverityRank(l[j].severity) \in 1..4
      BY <2>1, RankedSeverities
    <3>3. HR!SeverityRank(l[i].severity) <= HR!SeverityRank(l[j].severity)
      BY <3>1, <3>2
    <3>4. l[i].source = l[j].source /\ l[i].table = l[j].table
      BY <1>4, <2>1
    <3>. QED BY <3>3, <3>4
  <2>3. CASE ~(i < j)
    <3>1. l[i].rank \in Int /\ l[j].rank \in Int
          /\ HR!SeverityRank(l[i].severity) \in 1..4
      BY <1>1, <2>1, RankedSeverities DEF IsIssue
    <3>. QED BY <1>4, <2>1, <2>3, <3>1
  <2>. QED BY <2>2, <2>3
<1>. QED BY <1>5, <1>6 DEF l

LEMMA FindingFields ==
    ASSUME NEW rule, NEW t, NEW about, NEW severity, NEW failed
    PROVE  LET x == HR!Finding(rule, t, about, severity, failed)
           IN  /\ x.source = "static" /\ x.id = <<"static", rule, <<Letters[t], about>>>>
               /\ x.table = t
BY IssueFields DEF HR!Finding

\* No two tables have names that differ only in digits.
NamesApart == \A s, t \in Tables : Letters[s] = Letters[t] => s = t

\* How severe a finding of a rule on a table is.
Grading(rule, t) ==
    CASE rule = "heap_table" -> (IF server.tables[t].rows >= 6 THEN "error"
                                 ELSE IF server.tables[t].rows >= 5 THEN "warning" ELSE "info")
      [] rule = "no_primary_key" -> (IF server.tables[t].rows >= 6 THEN "error" ELSE "warning")
      [] rule = "unused_index" -> "warning"
      [] rule = "duplicate_index" -> "error"
      [] rule = "missing_index" -> "info"

Rules == {"heap_table", "no_primary_key", "unused_index", "duplicate_index", "missing_index"}

LEMMA FindingsAre ==
    ASSUME NEW failed, NEW x \in HR!Findings(failed)
    PROVE  \E t \in Tables, rule \in Rules : \E about :
             x = HR!Finding(rule, t, about, Grading(rule, t), failed)
<1>1. PICK t \in Tables :
        \/ x \in HR!StructuralFindings(t, failed)
        \/ \E r \in HR!UnusedIndexes(t, failed) :
             x = HR!Finding("unused_index", t, r.fix, "warning", failed)
        \/ \E r \in HR!DuplicateIndexes(t, failed) :
             x = HR!Finding("duplicate_index", t, r.fix, "error", failed)
        \/ \E r \in HR!Missing(t, failed) :
             x = HR!Finding("missing_index", t, r.fix, "info", failed)
  BY DEF HR!Findings
<1>2. CASE x \in HR!StructuralFindings(t, failed)
  <2>1. x \in {HR!Finding("heap_table", t, <<>>, Grading("heap_table", t), failed),
               HR!Finding("no_primary_key", t, <<>>, Grading("no_primary_key", t), failed)}
    BY <1>2 DEF HR!StructuralFindings, Grading
  <2>. QED BY <2>1 DEF Rules
<1>3. CASE \E r \in HR!UnusedIndexes(t, failed) :
             x = HR!Finding("unused_index", t, r.fix, "warning", failed)
  <2>1. PICK r : x = HR!Finding("unused_index", t, r.fix, "warning", failed)
    BY <1>3
  <2>2. "unused_index" \in Rules /\ Grading("unused_index", t) = "warning"
    BY DEF Rules, Grading
  <2>. QED BY <2>1, <2>2
<1>4. CASE \E r \in HR!DuplicateIndexes(t, failed) :
             x = HR!Finding("duplicate_index", t, r.fix, "error", failed)
  <2>1. PICK r : x = HR!Finding("duplicate_index", t, r.fix, "error", failed)
    BY <1>4
  <2>2. "duplicate_index" \in Rules /\ Grading("duplicate_index", t) = "error"
    BY DEF Rules, Grading
  <2>. QED BY <2>1, <2>2
<1>5. CASE \E r \in HR!Missing(t, failed) :
             x = HR!Finding("missing_index", t, r.fix, "info", failed)
  <2>1. PICK r : x = HR!Finding("missing_index", t, r.fix, "info", failed)
    BY <1>5
  <2>2. "missing_index" \in Rules /\ Grading("missing_index", t) = "info"
    BY DEF Rules, Grading
  <2>. QED BY <2>1, <2>2
<1>. QED BY <1>1, <1>2, <1>3, <1>4, <1>5

LEMMA FromSet ==
    ASSUME NEW A, NEW U, \A x \in U : x.source \in A /\ x.id[1] = x.source, NEW l \in Seq(U)
    PROVE  From(l, A)
<1>1. \A i \in 1..Len(l) : l[i] \in U
  OBVIOUS
<1>. QED BY <1>1 DEF From

\* A set in which an id tells an issue is even.
LEMMA ToldEven ==
    ASSUME NEW U, Graded(U), \A x, y \in U : x.id = y.id => x = y PROVE Even(U)
<1> SUFFICES ASSUME NEW x \in U, NEW y \in U, x.id = y.id
             PROVE  /\ x.source = y.source /\ x.table = y.table
                    /\ x.rank >= y.rank => HR!SeverityRank(x.severity) <= HR!SeverityRank(y.severity)
  BY DEF Even
<1>1. x = y /\ HR!SeverityRank(x.severity) \in 1..4
  BY RankedSeverities DEF Graded, IsIssue
<1>. QED BY <1>1

LEMMA FindingsFair ==
    ASSUME HR!HealthAssumption, server \in Servers, NamesApart, NEW failed
    PROVE  Fair(HR!Listed(HR!Findings(failed))) /\ From(HR!Listed(HR!Findings(failed)), {"static"})
<1> DEFINE U == HR!Findings(failed)
           l == HR!Listed(U)
<1>1. Graded(U) /\ l \in Seq(U)
  BY FindingsGraded, ListedIsSeq DEF Lists
<1>2. ASSUME NEW x \in U, NEW y \in U, x.id = y.id PROVE x = y
  <2>1. PICK t \in Tables, rule \in Rules : \E about :
          x = HR!Finding(rule, t, about, Grading(rule, t), failed)
    BY FindingsAre
  <2>2. PICK about : x = HR!Finding(rule, t, about, Grading(rule, t), failed)
    BY <2>1
  <2>3. PICK s \in Tables, law \in Rules : \E of :
           y = HR!Finding(law, s, of, Grading(law, s), failed)
    BY FindingsAre
  <2>4. PICK of : y = HR!Finding(law, s, of, Grading(law, s), failed)
    BY <2>3
  <2>5. x.id = <<"static", rule, <<Letters[t], about>>>> /\ y.id = <<"static", law, <<Letters[s], of>>>>
    BY <2>2, <2>4, FindingFields
  <2>6. <<"static", rule, <<Letters[t], about>>>> = <<"static", law, <<Letters[s], of>>>>
    BY <1>2, <2>5
  <2>7. rule = law /\ <<Letters[t], about>> = <<Letters[s], of>>
    BY <2>6, IdParts
  <2>8. Letters[t] = Letters[s] /\ about = of
    BY <2>7, IdParts
  <2>9. t = s
    BY <2>8 DEF NamesApart
  <2>. QED BY <2>2, <2>4, <2>7, <2>8, <2>9
<1>3. ASSUME NEW x \in U PROVE x.source \in {"static"} /\ x.id[1] = x.source
  <2>1. PICK t \in Tables, rule \in Rules : \E about :
          x = HR!Finding(rule, t, about, Grading(rule, t), failed)
    BY FindingsAre
  <2>2. PICK about : x = HR!Finding(rule, t, about, Grading(rule, t), failed)
    BY <2>1
  <2>3. x.source = "static" /\ x.id = <<"static", rule, <<Letters[t], about>>>>
    BY <2>2, FindingFields
  <2>. QED BY <2>3
<1> HIDE DEF U, l
<1>4. Even(U)
  BY <1>1, <1>2, ToldEven
<1>5. Fair(l)
  BY <1>1, <1>4, EvenIsFair
<1>6. From(l, {"static"})
  BY <1>1, <1>3, FromSet
<1>. QED BY <1>5, <1>6 DEF U, l

LEMMA BundleFair ==
    ASSUME HR!HealthAssumption, server \in Servers, NamesApart, NEW failed
    PROVE  LET l == HR!PullDmvBundle(failed).issues
           IN  Fair(l) /\ From(l, {"advisor", "static"})
<1> DEFINE a == HR!Recs(failed)
           b == HR!Listed(HR!Findings(failed))
<1>1. IsGradedList(a) /\ IsGradedList(b)
  BY AllRecsGraded, RecsSorted, FindingsGraded, ListedIsSeq DEF IsGradedList, Lists, HR!Recs
<1>2. Fair(a) /\ From(a, {"advisor"}) /\ Fair(b) /\ From(b, {"static"})
  BY RecsFair, FindingsFair
<1>3. HR!PullDmvBundle(failed).issues = a \o b
  BY DEF HR!PullDmvBundle
<1> HIDE DEF a, b
<1>4. {"advisor"} \cap {"static"} = {} /\ {"advisor"} \cup {"static"} = {"advisor", "static"}
  OBVIOUS
<1>5. Fair(a \o b) /\ From(a \o b, {"advisor"} \cup {"static"})
  BY <1>1, <1>2, <1>4, FairConcat
<1>. QED BY <1>3, <1>4, <1>5

LEMMA PainFair ==
    ASSUME NEW pain \in [HR!Pains -> Nat]
    PROVE  Fair(HR!PainIssues(pain)) /\ From(HR!PainIssues(pain), {"sentinel"})
<1>1. /\ pain["deadlock"] \in Nat /\ pain["blocked"] \in Nat
      /\ pain["waits"] \in Nat /\ pain["slower"] \in Nat
  BY DEF HR!Pains
<1> DEFINE I(kind, severity, rank) ==
             HR!Issue("sentinel", kind, <<>>, "server", severity, "reliability", rank, {})
           sd == IF pain["deadlock"] > ManyDeadlocks THEN "critical" ELSE "error"
           sb == IF pain["blocked"] > ManyBlocked THEN "error" ELSE "warning"
           sw == IF pain["waits"] > HighWait THEN "warning" ELSE "info"
           rd == 1000 * pain["deadlock"]
           d == I("deadlock", sd, rd)
           b == I("blocking", sb, pain["blocked"])
           w == I("wait", sw, pain["waits"])
           r == I("regression", "warning", 1000)
           U == {d, b, w, r}
<1>g. "critical" \in Grades /\ "error" \in Grades /\ "warning" \in Grades /\ "info" \in Grades
  BY DEF Grades
<1>2. ASSUME NEW kind, NEW severity \in Grades, NEW rank \in Int
      PROVE  LET x == I(kind, severity, rank)
             IN  IsIssue(x) /\ x.source = "sentinel" /\ x.id = <<"sentinel", kind, <<>>>>
                 /\ x.kind = kind
  <2>1. "reliability" \in Lanes
    BY DEF Lanes
  <2>. QED BY <2>1, IssueIs, IssueFields
<1> HIDE DEF I
<1>3. IsIssue(d) /\ d.source = "sentinel" /\ d.id = <<"sentinel", "deadlock", <<>>>>
  <2>1. sd \in Grades /\ rd \in Int
    BY <1>1, <1>g
  <2> HIDE DEF sd, rd
  <2>. QED BY <1>2, <2>1
<1>4. IsIssue(b) /\ b.source = "sentinel" /\ b.id = <<"sentinel", "blocking", <<>>>>
  <2> DEFINE blocked == pain["blocked"]
  <2>1. sb \in Grades /\ blocked \in Int
    BY <1>1, <1>g
  <2>2. b = I("blocking", sb, blocked)
    OBVIOUS
  <2> HIDE DEF sb, b, blocked
  <2>. QED BY <1>2, <2>1, <2>2
<1>5. IsIssue(w) /\ w.source = "sentinel" /\ w.id = <<"sentinel", "wait", <<>>>>
  <2>1. sw \in Grades /\ pain["waits"] \in Int
    BY <1>1, <1>g
  <2> HIDE DEF sw
  <2>. QED BY <1>2, <2>1
<1>6. IsIssue(r) /\ r.source = "sentinel" /\ r.id = <<"sentinel", "regression", <<>>>>
  BY <1>2, <1>g, 1000 \in Int
<1>7. HR!PainIssues(pain) \in Seq(U)
  <2> DEFINE D == IF pain["deadlock"] = 0 THEN <<>> ELSE <<d>>
             B == IF pain["blocked"] <= FewBlocked THEN <<>> ELSE <<b>>
             W == IF pain["waits"] < SomeWait THEN <<>> ELSE <<w>>
             R == IF pain["slower"] = 0 THEN <<>> ELSE <<r>>
  <2>1. HR!PainIssues(pain) = D \o B \o W \o R
    BY DEF HR!PainIssues, HR!Pain, I
  <2> HIDE DEF d, b, w, r
  <2>2. D \in Seq(U) /\ B \in Seq(U) /\ W \in Seq(U) /\ R \in Seq(U)
    <3>1. \A x \in U : <<x>> \in Seq(U)
      OBVIOUS
    <3>2. <<>> \in Seq(U) /\ d \in U /\ b \in U /\ w \in U /\ r \in U
      OBVIOUS
    <3> HIDE DEF U
    <3>. QED BY <3>1, <3>2
  <2> HIDE DEF D, B, W, R, U
  <2>3. D \o B \in Seq(U)
    BY <2>2
  <2>4. D \o B \o W \in Seq(U)
    BY <2>2, <2>3
  <2>5. D \o B \o W \o R \in Seq(U)
    BY <2>2, <2>4
  <2>. QED BY <2>1, <2>5
<1> HIDE DEF d, b, w, r
<1>8. Graded(U)
  BY <1>3, <1>4, <1>5, <1>6 DEF Graded
<1>9. \A x \in U : x.source \in {"sentinel"} /\ x.id[1] = x.source
  BY <1>3, <1>4, <1>5, <1>6
<1>10. ASSUME NEW x \in U, NEW y \in U, x.id = y.id PROVE x = y
  <2>1. d.id[2] = "deadlock" /\ b.id[2] = "blocking" /\ w.id[2] = "wait" /\ r.id[2] = "regression"
    BY <1>3, <1>4, <1>5, <1>6
  <2>2. x.id[2] = y.id[2]
    BY <1>10
  <2>. QED BY <2>1, <2>2
<1> HIDE DEF U
<1>. QED BY <1>7, <1>8, <1>9, <1>10, ToldEven, EvenIsFair, FromSet

LEMMA OperationalFair ==
    ASSUME NEW S, Sane(S)
    PROVE  Fair(HR!OperationalIssues(S)) /\ From(HR!OperationalIssues(S), {"operational"})
<1> DEFINE O(c) == HR!Issue("operational", c.kind, <<c.id>>, "db", c.severity, "operational",
                         HR!Base[c.severity], {c.about})
           g == [c \in S |-> O(c)]
           T == {g[c] : c \in S}
           l == HR!Listed(T)
<1>1. HR!OperationalIssues(S) = l
  BY DEF HR!OperationalIssues
<1>2. ASSUME NEW x \in T
      PROVE  /\ IsIssue(x) /\ x.source = "operational" /\ x.id[1] = "operational"
             /\ x.table = "db" /\ x.severity \in Grades /\ x.rank = HR!Base[x.severity]
  <2>1. PICK c \in S : x = O(c)
    OBVIOUS
  <2>2. c.severity \in Grades /\ HR!Base[c.severity] \in Int /\ "operational" \in Lanes
    BY BaseTyped DEF Sane, Lanes
  <2>3. IsIssue(x)
    BY <2>1, <2>2, IssueIs
  <2>4. x.source = "operational" /\ x.id = <<"operational", c.kind, <<c.id>>>>
        /\ x.table = "db" /\ x.severity = c.severity /\ x.rank = HR!Base[c.severity]
    BY <2>1, IssueFields
  <2>. QED BY <2>2, <2>3, <2>4
<1>3. IsFiniteSet(T)
  <2> HIDE DEF g
  <2>. QED BY FiniteImage DEF Sane
<1> HIDE DEF T, l, g
<1>4. Graded(T)
  BY <1>2 DEF Graded
<1>5. ASSUME NEW x \in T, NEW y \in T
      PROVE  /\ x.source = y.source /\ x.table = y.table
             /\ x.rank >= y.rank => HR!SeverityRank(x.severity) <= HR!SeverityRank(y.severity)
  <2>1. \A s \in Grades : s = "critical" \/ s = "error" \/ s = "warning" \/ s = "info"
    BY DEF Grades
  <2>2. /\ HR!Base["critical"] = 9000 /\ HR!Base["error"] = 7000
        /\ HR!Base["warning"] = 4000 /\ HR!Base["info"] = 1000
    BY DEF HR!Base
  <2>3. \A s, u \in Grades : HR!Base[s] >= HR!Base[u] => HR!SeverityRank(s) <= HR!SeverityRank(u)
    BY <2>1, <2>2, SeverityRanks
  <2>. QED BY <1>2, <2>3
<1>6. Even(T)
  BY <1>5 DEF Even
<1>7. l \in Seq(T)
  BY <1>3, ListedIsSeq DEF Lists, l
<1>8. From(l, {"operational"})
  BY <1>2, <1>7, FromSet
<1>. QED BY <1>1, <1>4, <1>6, <1>7, <1>8, EvenIsFair

-----------------------------------------------------------------------------
(* Each issue of a list, the one that wins its id, the card that one ends on, *)
(* and the headline.                                                          *)

\* What takes the place of the issues with an id is as bad as each of them.
Outdoes(w, x) ==
    /\ w.table = x.table /\ w.rank >= x.rank
    /\ HR!SeverityRank(w.severity) <= HR!SeverityRank(x.severity)

LEMMA WinnerOutdoes ==
    ASSUME NEW list, IsGradedList(list), Fair(list), NEW k \in 1..Len(list)
    PROVE  \E w \in HR!Dedup(list) : Outdoes(w, list[k])
<1>0. /\ Len(list) \in Nat /\ DOMAIN list = 1..Len(list)
      /\ \A i \in 1..Len(list) : list[i].rank \in Int /\ list[i].severity \in Grades
  <2>1. PICK S : Graded(S) /\ list \in Seq(S)
    BY DEF IsGradedList
  <2>. QED BY <2>1 DEF Graded, IsIssue
<1>1. PICK i : Won(list, Len(list), i) /\ list[i].id = list[k].id
  <2>1. Len(list) \in 0..Len(list)
    BY <1>0
  <2>. QED BY <2>1, SomeoneWins
<1>2. list[i] \in HR!Dedup(list) /\ i \in 1..Len(list)
  BY <1>0, <1>1 DEF HR!Dedup, Won
<1> DEFINE a == list[i]
           b == list[k]
<1>3. a.source = b.source /\ a.table = b.table
  BY <1>1, <1>2 DEF Fair
<1>4. /\ a.rank \in Int /\ b.rank \in Int /\ i \in Int /\ k \in Int
      /\ HR!SeverityRank(a.severity) \in 1..4 /\ HR!SeverityRank(b.severity) \in 1..4
      /\ HR!SourceRank(a.source) \in 0..2
  BY <1>0, <1>2, RankedSeverities, SourceRanks
<1>5. a.rank > b.rank \/ (a.rank = b.rank /\ i < k)
        => HR!SeverityRank(a.severity) <= HR!SeverityRank(b.severity)
  BY <1>1, <1>2 DEF Fair
<1>6. CASE k < i
  <2>1. HR!Replaces(b, a)
    BY <1>1, <1>6 DEF Won
  <2> HIDE DEF a, b
  <2>2. a.rank > b.rank
    BY <1>3, <1>4, <2>1 DEF HR!Replaces
  <2>3. Outdoes(a, b)
    BY <1>3, <1>4, <1>5, <2>2 DEF Outdoes
  <2>. QED BY <1>2, <2>3 DEF a, b
<1>7. CASE k > i
  <2>1. ~HR!Replaces(a, b)
    BY <1>1, <1>7 DEF Won
  <2> HIDE DEF a, b
  <2>2. ~(b.rank > a.rank)
    BY <1>3, <1>4, <2>1 DEF HR!Replaces
  <2>3. a.rank > b.rank \/ (a.rank = b.rank /\ i < k)
    BY <1>4, <1>7, <2>2
  <2>4. Outdoes(a, b)
    BY <1>3, <1>4, <1>5, <2>3 DEF Outdoes
  <2>. QED BY <1>2, <2>4 DEF a, b
<1>8. CASE k = i
  <2> HIDE DEF a, b
  <2>1. Outdoes(a, a)
    BY <1>4 DEF Outdoes
  <2>. QED BY <1>2, <1>8, <2>1 DEF a, b
<1>. QED BY <1>4, <1>6, <1>7, <1>8

\* The highest of finitely many ranks.
LEMMA Topmost ==
    ASSUME NEW n \in Nat, NEW f, \A i \in 1..n : f[i] \in Int, NEW P \in SUBSET (1..n), P # {}
    PROVE  \E x \in P : \A y \in P : f[x] >= f[y]
<1> DEFINE Top(P_) == \E x \in P_ : \A y \in P_ : f[x] >= f[y]
           N == {k \in Nat : \A Q \in SUBSET (1..n) : Q \subseteq 1..k /\ Q # {} => Top(Q)}
<1>1. 0 \in N
  <2>1. 1..0 = {}
    OBVIOUS
  <2>. QED BY <2>1
<1>2. ASSUME NEW k \in Nat, k \in N PROVE k + 1 \in N
  <2> SUFFICES ASSUME NEW Q \in SUBSET (1..n), Q \subseteq 1..(k + 1), Q # {} PROVE Top(Q)
    OBVIOUS
  <2>0. \A i \in Q : f[i] \in Int
    OBVIOUS
  <2> DEFINE R == Q \ {k + 1}
  <2>1. R \in SUBSET (1..n) /\ R \subseteq 1..k
    OBVIOUS
  <2>2. CASE R = {}
    <3>1. Q = {k + 1}
      BY <2>2
    <3>. QED BY <2>0, <3>1
  <2>3. CASE R # {} /\ k + 1 \notin Q
    BY <1>2, <2>1, <2>3
  <2>4. CASE R # {} /\ k + 1 \in Q
    <3>1. PICK x \in R : \A y \in R : f[x] >= f[y]
      BY <1>2, <2>1, <2>4
    <3>2. CASE f[x] >= f[k + 1]
      <4>1. \A y \in Q : f[x] >= f[y]
        BY <3>1, <3>2
      <4>. QED BY <4>1
    <3>3. CASE f[k + 1] >= f[x]
      <4>1. \A y \in Q : f[k + 1] >= f[y]
        BY <2>0, <2>4, <3>1, <3>3
      <4>. QED BY <2>4, <4>1
    <3>. QED BY <2>0, <2>4, <3>2, <3>3
  <2>. QED BY <2>2, <2>3, <2>4
<1>3. Nat \subseteq N
  <2> HIDE DEF N
  <2>. QED BY <1>1, <1>2, Adds!SetInduction
<1>4. n \in N
  BY <1>3
<1>. QED BY <1>4

\* A group's worst severity and highest rank.
LEMMA GroupExtremes ==
    ASSUME NEW S, Graded(S), NEW l \in Seq(S), NEW P \in SUBSET (DOMAIN l), NEW k \in P
    PROVE  LET G == {l[i] : i \in P}
               s == HR!Worst({y.severity : y \in G})
               m == HR!Max({y.rank : y \in G})
           IN  s \in Grades /\ HR!SeverityRank(s) <= HR!SeverityRank(l[k].severity) /\ m >= l[k].rank
               /\ m \in Int
<1> DEFINE G == {l[i] : i \in P}
           V == {y.severity : y \in G}
           W == {HR!SeverityRank(v) : v \in V}
           R == {y.rank : y \in G}
<1>0. /\ Len(l) \in Nat /\ DOMAIN l = 1..Len(l) /\ l[k] \in G
      /\ \A i \in 1..Len(l) : l[i].rank \in Int /\ l[i].severity \in Grades
  BY DEF Graded, IsIssue
<1>1. \A y \in G : y.rank \in Int /\ y.severity \in Grades
  BY <1>0
<1> HIDE DEF G
<1>2. HR!SeverityRank(l[k].severity) \in W /\ l[k].rank \in R
  BY <1>0
<1>3. HR!Min(W) \in 1..4 /\ HR!Min(W) <= HR!SeverityRank(l[k].severity)
  <2>1. W \in SUBSET (1..4) /\ W \in SUBSET (0..4) /\ W # {}
    BY <1>1, <1>2, RankedSeverities
  <2> HIDE DEF W
  <2>. QED BY <1>2, <2>1, Extremes
<1>4. HR!Worst(V) = HR!Severities[HR!Min(W)]
  BY DEF HR!Worst
<1>5. HR!Worst(V) \in Grades /\ HR!SeverityRank(HR!Worst(V)) <= HR!SeverityRank(l[k].severity)
  <2> HIDE DEF W, V
  <2>. QED BY <1>3, <1>4, RankedSeverities
<1>6. HR!Max(R) >= l[k].rank /\ HR!Max(R) \in Int
  <2> DEFINE f == [i \in 1..Len(l) |-> l[i].rank]
  <2>1. PICK x \in P : \A y \in P : f[x] >= f[y]
    <3>1. \A i \in 1..Len(l) : f[i] \in Int
      BY <1>0
    <3>2. P \in SUBSET (1..Len(l)) /\ P # {}
      BY <1>0
    <3> HIDE DEF f
    <3>. QED BY <1>0, <3>1, <3>2, Topmost
  <2>2. f[x] \in R /\ \A r \in R : f[x] >= r
    BY <1>0, <2>1 DEF G
  <2>3. \E r \in R : \A q \in R : r >= q
    BY <2>2
  <2>4. HR!Max(R) \in R /\ \A q \in R : HR!Max(R) >= q
    <3> HIDE DEF R
    <3>. QED BY <2>3 DEF HR!Max
  <2>. QED BY <1>1, <1>2, <2>4
<1>. QED BY <1>5, <1>6 DEF G

\* A card is of a known severity and lane, and can be ranked.
IsCard(c) == c.severity \in Grades /\ c.lane \in Lanes /\ c.rank \in Int

LEMMA CardsTyped ==
    ASSUME NEW S, Graded(S), NEW l, Lists(l, S), NEW c \in HR!Reconcile(l)
    PROVE  IsCard(c)
<1> DEFINE P(i) == {f \in DOMAIN l : HR!Anchor(l, f) = HR!Anchor(l, i)}
           G(i) == {l[f] : f \in P(i)}
<1>0. l \in Seq(S)
  BY DEF Lists
<1>1. PICK i \in DOMAIN l : c = HR!MergeInto(l[HR!Anchor(l, i)], G(i))
  BY CardsAre
<1>2. i \in P(i) /\ P(i) \in SUBSET (DOMAIN l)
  OBVIOUS
<1> DEFINE s == HR!Worst({y.severity : y \in G(i)})
           m == HR!Max({y.rank : y \in G(i)})
           fx == UNION {y.fix : y \in G(i)}
           h == l[HR!Anchor(l, i)]
<1> HIDE DEF P
<1>3. s \in Grades /\ m \in Int
  BY <1>0, <1>2, GroupExtremes
<1>4. IsIssue(h)
  <2>1. HR!Anchor(l, i) \in DOMAIN l
    BY AnchorIs
  <2>2. h \in S
    BY <1>0, <2>1
  <2>. QED BY <2>2 DEF Graded
<1>5. c = [source |-> h.source, kind |-> h.kind, id |-> h.id, table |-> h.table,
           severity |-> s, lane |-> h.lane, rank |-> m, fix |-> fx]
  BY <1>1, <1>4, FaceIs
<1> HIDE DEF s, m, fx, h
<1>6. c.severity = s /\ c.lane = h.lane /\ c.rank = m
  BY <1>5
<1>. QED BY <1>3, <1>4, <1>6 DEF IsIssue, IsCard

\* Each issue of a list is on a card of its table that is as bad.
LEMMA CardOutdoes ==
    ASSUME NEW S, Graded(S), NEW l, Lists(l, S), NEW w \in S
    PROVE  \E c \in HR!Reconcile(l) : Outdoes(c, w)
<1> DEFINE P(i) == {f \in DOMAIN l : HR!Anchor(l, f) = HR!Anchor(l, i)}
           G(i) == {l[f] : f \in P(i)}
<1>0. l \in Seq(S)
  BY DEF Lists
<1>1. PICK i \in DOMAIN l : l[i] = w
  BY <1>0 DEF Lists
<1> DEFINE h == l[HR!Anchor(l, i)]
           c == HR!MergeInto(h, G(i))
<1>2. c \in HR!Reconcile(l)
  BY CardsAre
<1>3. i \in P(i) /\ P(i) \in SUBSET (DOMAIN l)
  OBVIOUS
<1> DEFINE s == HR!Worst({y.severity : y \in G(i)})
           m == HR!Max({y.rank : y \in G(i)})
           fx == UNION {y.fix : y \in G(i)}
<1> HIDE DEF P
<1>4. s \in Grades /\ HR!SeverityRank(s) <= HR!SeverityRank(w.severity) /\ m >= w.rank
  BY <1>0, <1>1, <1>3, GroupExtremes
<1>5. IsIssue(h) /\ h.table = w.table
  <2>1. HR!Anchor(l, i) \in DOMAIN l /\ h \in Home(S, w)
    BY <1>1, AnchorIs
  <2>2. h \in S
    BY <1>0, <2>1
  <2>3. h.table = w.table
    <3>1. h = w \/ HR!Joins(w, h)
      BY <2>1 DEF Home
    <3>. QED BY <3>1 DEF HR!Joins
  <2>. QED BY <2>2, <2>3 DEF Graded
<1>6. c = [source |-> h.source, kind |-> h.kind, id |-> h.id, table |-> h.table,
           severity |-> s, lane |-> h.lane, rank |-> m, fix |-> fx]
  BY <1>5, FaceIs
<1> HIDE DEF s, m, fx, h, c
<1>7. c.severity = s /\ c.table = h.table /\ c.rank = m
  BY <1>6
<1>. QED BY <1>2, <1>4, <1>5, <1>7 DEF Outdoes

\* The points of a card, on top of others.
Points(c, n) == HR!BucketPoints[c.severity] + n
Tally == INSTANCE FoldLeftTheorems WITH Op <- Points

LEMMA FiniteTally == ASSUME NEW S, IsFiniteSet(S) PROVE Tally!IsFiniteSet(S)
BY DEF IsFiniteSet, Tally!IsFiniteSet

LEMMA PointsOf ==
    /\ HR!BucketPoints["critical"] = 25 /\ HR!BucketPoints["error"] = 12
    /\ HR!BucketPoints["warning"] = 4 /\ HR!BucketPoints["info"] = 1
    /\ \A x \in Grades : HR!BucketPoints[x] \in 1..25
    /\ \A x, y \in Grades : HR!SeverityRank(x) <= HR!SeverityRank(y)
                              => HR!BucketPoints[x] >= HR!BucketPoints[y]
<1>1. /\ HR!BucketPoints["critical"] = 25 /\ HR!BucketPoints["error"] = 12
      /\ HR!BucketPoints["warning"] = 4 /\ HR!BucketPoints["info"] = 1
  BY DEF HR!BucketPoints
<1>2. \A s \in Grades : s = "critical" \/ s = "error" \/ s = "warning" \/ s = "info"
  BY DEF Grades
<1>. QED BY <1>1, <1>2, SeverityRanks

\* A set of cards costs at least what each of them does.
LEMMA TallyBounds ==
    ASSUME NEW S, IsFiniteSet(S), \A c \in S : c.severity \in Grades
    PROVE  /\ Tally!FoldOver(0, S) \in Nat
           /\ \A c \in S : Tally!FoldOver(0, S) >= HR!BucketPoints[c.severity]
<1> DEFINE Sum(U) == Tally!FoldOver(0, U)
           Done(U) == Sum(U) \in Nat /\ \A c \in U : Sum(U) >= HR!BucketPoints[c.severity]
           N == {n \in Nat : \A U \in SUBSET S : Cardinality(U) = n => Done(U)}
<1>0. ASSUME NEW U \in SUBSET S
      PROVE  IsFiniteSet(U) /\ Cardinality(U) \in Nat /\ (Cardinality(U) = 0 <=> U = {})
  BY FS_Subset, FS_CardinalityType, FS_EmptySet
<1>1. 0 \in N
  <2> SUFFICES ASSUME NEW U \in SUBSET S, Cardinality(U) = 0 PROVE Done(U)
    OBVIOUS
  <2>1. U = {} /\ Tally!FoldOver(0, {}) = 0
    BY <1>0, Tally!FoldOverEmpty
  <2>. QED BY <2>1
<1>2. ASSUME NEW n \in Nat, n \in N PROVE n + 1 \in N
  <2> SUFFICES ASSUME NEW U \in SUBSET S, Cardinality(U) = n + 1 PROVE Done(U)
    OBVIOUS
  <2>1. IsFiniteSet(U) /\ U # {}
    BY <1>0
  <2>2. PICK x \in U : Sum(U) = Points(x, Sum(U \ {x}))
    BY <2>1, FiniteTally, Tally!FoldOverStep
  <2>3. Cardinality(U \ {x}) = n
    <3>1. Cardinality(U \ {x}) = Cardinality(U) - 1
      BY <2>1, FS_RemoveElement
    <3>. QED BY <3>1
  <2>4. Done(U \ {x})
    BY <1>2, <2>3
  <2>5. Sum(U) = HR!BucketPoints[x.severity] + Sum(U \ {x}) /\ x \in S
    BY <2>2 DEF Points
  <2>6. \A c \in U : HR!BucketPoints[c.severity] \in 1..25
    BY PointsOf
  <2> HIDE DEF Sum
  <2>7. Sum(U) \in Nat
    BY <2>4, <2>5, <2>6
  <2>8. ASSUME NEW c \in U PROVE Sum(U) >= HR!BucketPoints[c.severity]
    <3> DEFINE b == HR!BucketPoints[c.severity]
               a == HR!BucketPoints[x.severity]
    <3>1. a \in 1..25 /\ b \in 1..25 /\ Sum(U) = a + Sum(U \ {x}) /\ Sum(U \ {x}) \in Nat
      BY <2>4, <2>5, <2>6
    <3>2. c = x \/ Sum(U \ {x}) >= b
      BY <2>4
    <3>3. c = x => a = b
      OBVIOUS
    <3> HIDE DEF a, b
    <3>4. Sum(U) >= b
      BY <3>1, <3>2, <3>3
    <3>. QED BY <3>4 DEF b
  <2>. QED BY <2>7, <2>8
<1>3. Nat \subseteq N
  <2> HIDE DEF N
  <2>. QED BY <1>1, <1>2, Adds!SetInduction
<1>4. Cardinality(S) \in N
  BY <1>0, <1>3
<1>. QED BY <1>4

LEMMA PenaltyIs ==
    ASSUME NEW cards, NEW lane, NEW cap
    PROVE  HR!Penalty(cards, lane, cap)
             = HR!Min({cap, Tally!FoldOver(0, {c \in cards : c.lane = lane})})
BY DEF HR!Penalty, HR!MapThenSumSet, HR!MapThenFoldSet, Tally!FoldOver, Tally!FoldSet,
       Tally!MapThenFoldSet, Points

\* A lane is down by the points of each of its cards, or to its floor.
LEMMA PenaltyBounds ==
    ASSUME NEW cards, IsFiniteSet(cards), \A c \in cards : IsCard(c), NEW lane, NEW cap \in 25..100
    PROVE  /\ HR!Penalty(cards, lane, cap) \in 0..100
           /\ \A c \in cards : c.lane = lane =>
                HR!Penalty(cards, lane, cap) >= HR!BucketPoints[c.severity]
<1> DEFINE X == {c \in cards : c.lane = lane}
           t == Tally!FoldOver(0, X)
<1>1. t \in Nat /\ \A c \in X : t >= HR!BucketPoints[c.severity]
  <2>1. IsFiniteSet(X) /\ \A c \in X : c.severity \in Grades
    BY FS_Subset DEF IsCard
  <2> HIDE DEF X
  <2>. QED BY <2>1, TallyBounds
<1>2. \A c \in X : HR!BucketPoints[c.severity] \in 1..25
  BY PointsOf DEF IsCard
<1>p. HR!Penalty(cards, lane, cap) = HR!Min({cap, t})
  BY PenaltyIs
<1> HIDE DEF t
<1>3. HR!Penalty(cards, lane, cap) \in {cap, t}
  BY <1>1, <1>p, MinOfTwo
<1>4. HR!Penalty(cards, lane, cap) \in 0..100
  <2>1. \E x \in {cap, t} : \A y \in {cap, t} : x =< y
    BY <1>1
  <2>2. HR!Min({cap, t}) =< cap
    BY <2>1 DEF HR!Min
  <2>. QED BY <1>1, <1>3, <1>p, <2>2
<1>5. ASSUME NEW c \in cards, c.lane = lane
      PROVE  HR!Penalty(cards, lane, cap) >= HR!BucketPoints[c.severity]
  <2>1. c \in X
    BY <1>5
  <2>. QED BY <1>1, <1>2, <1>3, <2>1
<1>. QED BY <1>4, <1>5

\* The headline is down by the points of every card.
LEMMA HeadlineBound ==
    ASSUME NEW cards, IsFiniteSet(cards), \A c \in cards : IsCard(c),
           NEW pain, NEW monitored, NEW counterAge, NEW c \in cards
    PROVE  LET h == HR!CompositeHeadline(HR!ScoreReport(cards, pain, monitored, counterAge))
           IN  h.score \in Int /\ h.score <= 100 - HR!BucketPoints[c.severity]
<1> DEFINE P == HR!Penalty(cards, "reliability", 80)
           Q == HR!Penalty(cards, "opportunity", 60)
           R == HR!Penalty(cards, "operational", 80)
           L == {100 - P, 100 - Q, 100 - R}
           s == HR!ScoreReport(cards, pain, monitored, counterAge)
<1>1. ~HR!NoSignal(cards, pain)
  BY DEF HR!NoSignal
<1>2. s.lanes = L
  BY <1>1 DEF HR!ScoreReport
<1>3. /\ P \in 0..100 /\ Q \in 0..100 /\ R \in 0..100
      /\ c.lane = "reliability" => P >= HR!BucketPoints[c.severity]
      /\ c.lane = "opportunity" => Q >= HR!BucketPoints[c.severity]
      /\ c.lane = "operational" => R >= HR!BucketPoints[c.severity]
  <2>1. 80 \in 25..100 /\ 60 \in 25..100
    OBVIOUS
  <2>2. P \in 0..100 /\ (c.lane = "reliability" => P >= HR!BucketPoints[c.severity])
    BY <2>1, PenaltyBounds
  <2>3. Q \in 0..100 /\ (c.lane = "opportunity" => Q >= HR!BucketPoints[c.severity])
    BY <2>1, PenaltyBounds
  <2>4. R \in 0..100 /\ (c.lane = "operational" => R >= HR!BucketPoints[c.severity])
    BY <2>1, PenaltyBounds
  <2>. QED BY <2>2, <2>3, <2>4
<1>4. HR!CompositeHeadline(s).score = HR!Min(L)
  BY <1>2 DEF HR!CompositeHeadline
<1>5. c.lane \in Lanes /\ HR!BucketPoints[c.severity] \in 1..25
  BY PointsOf DEF IsCard
<1> HIDE DEF P, Q, R, s
<1>6. L \in SUBSET (0..100) /\ L # {}
  BY <1>3
<1>7. HR!Min(L) \in L /\ \A y \in L : HR!Min(L) <= y
  <2> HIDE DEF L
  <2>. QED BY <1>6, Extremes
<1> DEFINE b == HR!BucketPoints[c.severity]
           m == HR!Min(L)
<1>8. PICK y \in L : y <= 100 - b
  BY <1>3, <1>5 DEF Lanes
<1>9. y \in Int /\ m \in Int /\ m <= y /\ b \in Int
  <2>1. b \in Int
    BY <1>5
  <2> HIDE DEF L, b
  <2>2. y \in L /\ L \in SUBSET (0..100)
    BY <1>6, <1>8
  <2>3. m \in L /\ m <= y
    BY <1>7, <2>2
  <2> HIDE DEF m
  <2>4. y \in Int /\ m \in Int
    BY <2>2, <2>3
  <2>. QED BY <2>1, <2>3, <2>4
<1> HIDE DEF L, b, m
<1>10. m <= 100 - b
  BY <1>8, <1>9
<1>. QED BY <1>4, <1>9, <1>10 DEF s, b, m

LEMMA CardsFinite ==
    ASSUME NEW S, NEW l, Lists(l, S) PROVE IsFiniteSet(HR!Reconcile(l))
<1> DEFINE f == [i \in DOMAIN l |->
                   HR!MergeInto(l[HR!Anchor(l, i)],
                     {l[f] : f \in {f \in DOMAIN l : HR!Anchor(l, f) = HR!Anchor(l, i)}})]
<1>1. IsFiniteSet(DOMAIN l)
  <2>1. l \in Seq(S) /\ Len(l) \in Nat /\ DOMAIN l = 1..Len(l)
    BY DEF Lists
  <2>. QED BY <2>1, FS_Interval
<1>2. HR!Reconcile(l) = {f[i] : i \in DOMAIN l}
  BY CardsAre
<1> HIDE DEF f
<1>. QED BY <1>1, <1>2, FiniteImage

\* The report of a fair list keeps the worst of it.
LEMMA SummaryKeeps ==
    ASSUME NEW list, IsGradedList(list), Fair(list), NEW k \in 1..Len(list),
           NEW pain, NEW monitored, NEW counterAge
    PROVE  LET r == HR!Summary(HR!Listed(HR!Dedup(list)), pain, monitored, counterAge)
           IN  /\ \E c \in r.cards : Outdoes(c, list[k])
               /\ r.headline.score <= 100 - HR!BucketPoints[list[k].severity]
<1> DEFINE D == HR!Dedup(list)
           l == HR!Listed(D)
           x == list[k]
           r == HR!Summary(l, pain, monitored, counterAge)
           C == HR!Reconcile(l)
           h == HR!CompositeHeadline(HR!ScoreReport(C, pain, monitored, counterAge))
<1>1. Graded(D) /\ Lists(l, D)
  BY WinnersAre
<1>2. IsIssue(x)
  BY DEF IsGradedList, Graded
<1>3. PICK w \in D : Outdoes(w, x)
  BY WinnerOutdoes
<1>4. r.cards = C /\ r.headline = h
  BY DEF HR!Summary
<1> HIDE DEF D, l, x, r
<1>5. PICK c \in C : Outdoes(c, w)
  BY <1>1, CardOutdoes
<1>6. IsFiniteSet(C) /\ \A d \in C : IsCard(d)
  BY <1>1, CardsFinite, CardsTyped
<1> HIDE DEF C
<1>7. /\ w.rank \in Int /\ x.rank \in Int /\ HR!SeverityRank(w.severity) \in 1..4
      /\ HR!SeverityRank(x.severity) \in 1..4 /\ HR!SeverityRank(c.severity) \in 1..4
      /\ x.severity \in Grades /\ c.severity \in Grades
  BY <1>1, <1>2, <1>6, RankedSeverities DEF Graded, IsIssue, IsCard
<1>8. c.table = x.table /\ HR!SeverityRank(c.severity) <= HR!SeverityRank(x.severity)
  BY <1>3, <1>5, <1>7 DEF Outdoes
<1>9. c.rank >= x.rank
  BY <1>3, <1>5, <1>6, <1>7 DEF Outdoes, IsCard
<1>10. h.score <= 100 - HR!BucketPoints[c.severity] /\ h.score \in Int
  BY <1>6, HeadlineBound
<1> HIDE DEF h
<1>11. /\ HR!BucketPoints[c.severity] >= HR!BucketPoints[x.severity]
       /\ HR!BucketPoints[c.severity] \in 1..25 /\ HR!BucketPoints[x.severity] \in 1..25
  BY <1>7, <1>8, PointsOf
<1>12. h.score <= 100 - HR!BucketPoints[x.severity]
  <2> DEFINE a == HR!BucketPoints[c.severity]
             b == HR!BucketPoints[x.severity]
             n == h.score
  <2>1. n \in Int /\ a \in Int /\ b \in Int /\ n <= 100 - a /\ a >= b
    BY <1>10, <1>11
  <2> HIDE DEF a, b, n
  <2>2. n <= 100 - b
    BY <2>1
  <2>. QED BY <2>2 DEF n, b
<1>13. Outdoes(c, x)
  BY <1>8, <1>9 DEF Outdoes
<1>. QED BY <1>4, <1>12, <1>13 DEF D, l, x, r

-----------------------------------------------------------------------------
\* What a scan has gathered so far, and from where.
Gathered ==
    /\ scan.pc = "week" => Fair(scan.issues) /\ From(scan.issues, {"advisor", "static"})
    /\ scan.pc = "probes" =>
         Fair(scan.issues) /\ From(scan.issues, {"advisor", "static", "sentinel"})
    /\ scan.pc \in {"freshness", "grade", "done"} => Fair(scan.issues)

LEMMA GatheredKept ==
    ASSUME HR!HealthAssumption, NamesApart, ScanInv, Gathered, [HR!Next]_HR!vars
    PROVE  Gathered'
<1>1. ASSUME NEW failed, HR!Pull(failed) PROVE Gathered'
  <2> DEFINE b == HR!PullDmvBundle(failed)
  <2>1. Fair(b.issues) /\ From(b.issues, {"advisor", "static"})
    BY BundleFair DEF ScanInv, Clocks
  <2>2. scan' = [scan EXCEPT !.pc = "week", !.pulled = now,
                    !.issues = b.issues, !.counterAge = b.counterAge]
    BY <1>1 DEF HR!Pull
  <2> HIDE DEF b
  <2>3. scan'.pc = "week" /\ scan'.issues = b.issues
    BY <2>2 DEF ScanInv, IsScan
  <2>. QED BY <2>1, <2>3 DEF Gathered
<1>2. ASSUME NEW opened \in BOOLEAN, HR!BuildReport(opened) PROVE Gathered'
  <2> DEFINE pain == IF opened THEN HR!PainSummary ELSE HR!NoPain
             more == HR!PainIssues(pain)
  <2>1. scan' = [scan EXCEPT !.pc = "probes", !.pain = pain, !.issues = @ \o more]
        /\ scan.pc = "week"
    BY <1>2 DEF HR!BuildReport
  <2>2. pain \in [HR!Pains -> Nat]
    BY WeekTyped, NoPainTyped DEF ScanInv
  <2> HIDE DEF pain
  <2>3. IsGradedList(more) /\ Fair(more) /\ From(more, {"sentinel"})
    BY <2>2, PainGraded, PainFair
  <2> HIDE DEF more
  <2>4. scan'.pc = "probes" /\ scan'.issues = scan.issues \o more
    BY <2>1 DEF ScanInv, IsScan
  <2>5. IsGradedList(scan.issues) /\ Fair(scan.issues) /\ From(scan.issues, {"advisor", "static"})
    BY <2>1 DEF ScanInv, IsScan, Gathered
  <2>6. {"advisor", "static"} \cap {"sentinel"} = {}
        /\ {"advisor", "static"} \cup {"sentinel"} = {"advisor", "static", "sentinel"}
    OBVIOUS
  <2>7. /\ Fair(scan.issues \o more)
        /\ From(scan.issues \o more, {"advisor", "static"} \cup {"sentinel"})
    BY <2>3, <2>5, <2>6, FairConcat
  <2>. QED BY <2>4, <2>6, <2>7 DEF Gathered
<1>3. ASSUME NEW failed, NEW connected \in BOOLEAN, HR!Operational(failed, connected)
      PROVE  Gathered'
  <2> DEFINE checks == IF connected THEN HR!Evaluate(HR!PullOperational(server.settings, failed))
                       ELSE {}
             more == HR!OperationalIssues(checks)
             A == {"advisor", "static", "sentinel"}
  <2>1. scan' = [scan EXCEPT !.pc = "freshness", !.checks = checks, !.issues = @ \o more]
        /\ scan.pc = "probes"
    BY <1>3 DEF HR!Operational
  <2>2. Sane(checks)
    <3>1. IsFiniteSet(server.settings.replicas) /\ IsFiniteSet(server.settings.jobs)
      BY SameCounting DEF ScanInv, Clocks, HR!HealthAssumption
    <3>. QED BY <3>1, SaneChecks, SaneEmpty
  <2> HIDE DEF checks
  <2>3. IsGradedList(more) /\ Fair(more) /\ From(more, {"operational"})
    BY <2>2, OperationalGraded, OperationalFair
  <2> HIDE DEF more
  <2>4. scan'.pc = "freshness" /\ scan'.issues = scan.issues \o more
    BY <2>1 DEF ScanInv, IsScan
  <2>5. IsGradedList(scan.issues) /\ Fair(scan.issues) /\ From(scan.issues, A)
    BY <2>1 DEF ScanInv, IsScan, Gathered
  <2>6. A \cap {"operational"} = {}
    OBVIOUS
  <2>7. Fair(scan.issues \o more)
    BY <2>3, <2>5, <2>6, FairConcat
  <2>. QED BY <2>4, <2>7 DEF Gathered
<1>4. ASSUME NEW opened, HR!LastCapture(opened) PROVE Gathered'
  <2>1. scan'.pc = "grade" /\ scan'.issues = scan.issues /\ scan.pc = "freshness"
    BY <1>4 DEF HR!LastCapture, ScanInv, IsScan
  <2>. QED BY <2>1 DEF Gathered
<1>5. ASSUME NEW opened, HR!Grade(opened) PROVE Gathered'
  <2> DEFINE monitored == IF HR!Running /\ opened THEN HR!Age(HR!Times) ELSE <<>>
             report == HR!Summary(HR!Listed(HR!Dedup(scan.issues)), scan.pain, monitored,
                                  scan.counterAge)
  <2>1. scan' = [scan EXCEPT !.pc = "done", !.report = report] /\ scan.pc = "grade"
    BY <1>5 DEF HR!Grade
  <2> HIDE DEF report
  <2>2. scan'.pc = "done" /\ scan'.issues = scan.issues
    BY <2>1 DEF ScanInv, IsScan
  <2>. QED BY <2>1, <2>2 DEF Gathered
<1>6. CASE HR!Close
  BY <1>6, IdleTyped DEF HR!Close, Gathered
<1>7. CASE UNCHANGED scan
  BY <1>7 DEF Gathered
<1>8. HR!Meanwhile \/ UNCHANGED HR!vars => UNCHANGED scan
  BY DEF HR!Meanwhile, HR!Tick, HR!Capture, HR!Prune, HR!Restart, HR!vars
<1>. QED BY <1>1, <1>2, <1>3, <1>4, <1>5, <1>6, <1>7, <1>8 DEF HR!Next, HR!Scan

-----------------------------------------------------------------------------
(* Beside the other requests, a step of a scan is one of HealthReport, and   *)
(* every other step leaves its variables alone.                              *)

LEMMA ScansMove == RequestsSpec => HR!Spec
<1>1. RequestsInit => HR!Init
    BY DEF RequestsInit
<1>2. [RequestsNext]_allVars => [HR!Next]_HR!vars
    BY DEF RequestsNext, AiLogs, HealthScan, IndexAdvice, PlanRun, allVars, hVars, HR!vars
<1> QED
    BY <1>1, <1>2, PTL DEF RequestsSpec, HR!Spec

LEMMA ScansKept == RequestsSpec => []ScanInv
BY ScansMove, ScanKept, RequestsAssumption, PTL

\* Whichever probes fail, an operational check that is reported is one that a
\* full answer would have brought, but for the integrity check of a database
\* not known to be read-only (evaluate, health/operational.rs).
THEOREM Honest == RequestsSpec => []ChecksAreHonest
<1>1. ScanInv => ChecksAreHonest
    BY DEF ScanInv, HonestSoFar, ChecksAreHonest, HR!ChecksAreHonest
<1> QED
    BY <1>1, ScansKept, PTL

\* Whatever failed or happened meanwhile, an empty report that is not marked as
\* provisional rests on a monitor that runs and has run for long, and on
\* counters not known to be young (score_report, health/mod.rs).
THEOREM ClearIsEarned == RequestsSpec => AllClearIsEarned
<1>1. ScanInv /\ [HR!Next]_HR!vars =>
        [~HR!Reported /\ HR!Reported' /\ HR!AllClear' /\ scan.pain["blocked"] = 0
            => HR!Earned]_HR!vars
    BY EarnedOnGrade, RequestsAssumption
<1> QED
    BY <1>1, ScansKept, ScansMove, PTL DEF HR!Spec, AllClearIsEarned, HR!AllClearIsEarned

LEMMA ConcludedHolds == RequestsSpec => []Concluded
<1>1. HR!Init => Concluded
  BY IdleTyped DEF HR!Init, Concluded
<1>2. ScanInv /\ Concluded /\ [HR!Next]_HR!vars => Concluded'
  BY ConcludedKept
<1>. QED BY <1>1, <1>2, ScansKept, ScansMove, PTL DEF HR!Spec

\* In whatever order the deduplicated issues leave their map, the cards look
\* the same (dedup and reconcile, health/mod.rs).
THEOREM AnyOrderShows == RequestsSpec => []OrderFree
<1>1. ScanInv /\ Concluded => OrderFree
  <2> SUFFICES ASSUME ScanInv, Concluded, HR!Reported,
                      NEW a \in Foldable(HR!Dedup(scan.issues)),
                      NEW b \in Foldable(HR!Dedup(scan.issues)), a # b
               PROVE  {HR!Face(c) : c \in {c \in scan.report.cards : c.source \in HR!Folding}}
                        = {HR!Face(c) : c \in
                             HR!Reconcile(<<a>> \o HR!Listed(Foldable(HR!Dedup(scan.issues)) \ {a, b})
                                            \o <<b>>)}
    BY DEF OrderFree, HR!OrderFree, Foldable
  <2>1. IsGradedList(scan.issues)
    BY DEF ScanInv, IsScan
  <2>2. scan.report.cards = HR!Reconcile(HR!Listed(HR!Dedup(scan.issues)))
    <3> DEFINE l == HR!Listed(HR!Dedup(scan.issues))
    <3>1. PICK monitored : scan.report = HR!Summary(l, scan.pain, monitored, scan.counterAge)
      BY DEF Concluded, HR!Reported
    <3> HIDE DEF l
    <3>2. scan.report.cards = HR!Reconcile(l)
      BY <3>1 DEF HR!Summary
    <3>. QED BY <3>2 DEF l
  <2>. QED BY <2>1, <2>2, AnyOrder
<1> QED
    BY <1>1, ScansKept, ConcludedHolds, PTL

\* Nothing gathered is lost: whatever is dropped as a duplicate or folded into
\* another issue, a card of the same table is as severe and ranks as high, and
\* the headline is down by its points (dedup, reconcile and score_report,
\* health/mod.rs).  Ids drop the digits of a table's name, and so it takes
\* names that differ in something else.
THEOREM NothingLost == ASSUME NamesApart PROVE RequestsSpec => []WorstIsKept
<1>1. HR!Init => Gathered
  BY IdleTyped DEF HR!Init, Gathered
<1>2. ScanInv /\ Gathered /\ [HR!Next]_HR!vars => Gathered'
  BY GatheredKept, RequestsAssumption
<1>3. ScanInv /\ Concluded /\ Gathered => WorstIsKept
  <2> SUFFICES ASSUME ScanInv, Concluded, Gathered, HR!Reported, NEW k \in 1..Len(scan.issues)
               PROVE  /\ \E c \in scan.report.cards :
                            /\ c.table = scan.issues[k].table
                            /\ HR!SeverityRank(c.severity)
                                 <= HR!SeverityRank(scan.issues[k].severity)
                            /\ c.rank >= scan.issues[k].rank
                      /\ scan.report.headline.score
                           <= 100 - HR!BucketPoints[scan.issues[k].severity]
    BY DEF WorstIsKept, HR!WorstIsKept
  <2>1. IsGradedList(scan.issues) /\ Fair(scan.issues)
    BY DEF ScanInv, IsScan, Gathered, HR!Reported
  <2>2. PICK monitored : scan.report = HR!Summary(HR!Listed(HR!Dedup(scan.issues)), scan.pain,
                                                  monitored, scan.counterAge)
    BY DEF Concluded, HR!Reported
  <2>3. /\ \E c \in scan.report.cards : Outdoes(c, scan.issues[k])
        /\ scan.report.headline.score <= 100 - HR!BucketPoints[scan.issues[k].severity]
    BY <2>1, <2>2, SummaryKeeps
  <2>. QED BY <2>3 DEF Outdoes
<1> QED
    BY <1>1, <1>2, <1>3, ScansKept, ConcludedHolds, ScansMove, PTL DEF HR!Spec
=============================================================================
