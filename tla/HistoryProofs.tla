--------------------------- MODULE HistoryProofs ----------------------------
(***************************************************************************)
(* What is proved of a client or an export that pages backward through the *)
(* events while the writer inserts and prunes between any two statements:  *)
(* for any number of rows, any page and export size, any scan span.        *)
(*                                                                         *)
(* PagingInv says where the resume point stands among the rows shown; it   *)
(* needs nothing of the order of the rows.  FoundInv says that a row that  *)
(* was wanted and not shown is still within every bound the next SELECT    *)
(* will use; it is where WINDOW_ID_MARGIN has to cover the disorder of the *)
(* receive times, the premise of the last theorem.                         *)
(***************************************************************************)
EXTENDS History, TallyProofs

----------------------------------------------------------------------------
(* The table *)

\* A row trails a later time by at most Skew ids.
Skewed == \A i, j \in Ids : i < j - Skew => rows[i].ts <= rows[j].ts

EventsInv ==
  /\ lastId \in Nat /\ Ids \subseteq 1..lastId
  /\ \A i \in Ids : rows[i] \in Row
  /\ Skewed

(* The writer adds ids above all others and changes no row. *)
LEMMA WriterKeeps ==
  ASSUME EventsInv, WriterNext
  PROVE  /\ EventsInv' /\ lastId <= lastId'
         /\ \A i \in Ids' : i <= lastId => i \in Ids /\ rows'[i] = rows[i]
<1>0. lastId \in Nat /\ Ids \subseteq 1..lastId /\ (\A i \in Ids : rows[i] \in Row) /\ Skew \in Nat
  BY EventsAssumption DEF EventsInv
<1>1. CASE CommitRow
  <2>1. PICK row \in Row :
          /\ \A i \in Ids : i < lastId' - Skew => rows[i].ts <= row.ts
          /\ rows' = [i \in Ids \cup {lastId'} |-> IF i = lastId' THEN row ELSE rows[i]]
    BY <1>1 DEF CommitRow
  <2>2. lastId' = lastId + 1
    BY <1>1 DEF CommitRow
  <2>3. Ids' = Ids \cup {lastId'}
    BY <2>1 DEF Ids
  <2>4. rows'[lastId'] = row /\ \A i \in Ids : rows'[i] = rows[i]
    <3>1. \A i \in Ids : i # lastId'
      BY <1>0, <2>2
    <3> QED BY <2>1, <2>3, <3>1
  <2>5. Skewed'
    <3> SUFFICES ASSUME NEW i \in Ids', NEW j \in Ids', i < j - Skew
                 PROVE  rows'[i].ts <= rows'[j].ts
      BY DEF Skewed
    <3>1. i # lastId'
      BY <1>0, <2>2, <2>3
    <3> QED BY <1>0, <2>1, <2>3, <2>4, <3>1 DEF EventsInv, Skewed
  <2> QED BY <1>0, <2>2, <2>3, <2>4, <2>5 DEF EventsInv
<1>2. CASE Prune
  <2>1. PICK kept \in SUBSET Ids : rows' = [i \in kept |-> rows[i]]
    <3>1. PICK cutoff \in Times : \E newest :
            rows' = [i \in {j \in {k \in Ids : rows[k].ts >= cutoff} : j > newest - MaxEvents}
                       |-> rows[i]]
      BY <1>2 DEF Prune
    <3> QED BY <3>1
  <2>2. Ids' = kept /\ lastId' = lastId /\ \A i \in kept : rows'[i] = rows[i]
    BY <1>2, <2>1 DEF Prune, Ids
  <2>3. kept \subseteq Ids
    OBVIOUS
  <2>4. Skewed'
    <3> SUFFICES ASSUME NEW i \in kept, NEW j \in kept, i < j - Skew
                 PROVE  rows'[i].ts <= rows'[j].ts
      BY <2>2 DEF Skewed
    <3> QED BY <2>2, <2>3 DEF EventsInv, Skewed
  <2> QED BY <1>0, <2>2, <2>3, <2>4 DEF EventsInv
<1> QED BY <1>1, <1>2 DEF WriterNext

(* The first row by time, ties by id, of those a query looks at. *)
LEMMA FirstFound ==
  ASSUME EventsInv, NEW S \in SUBSET Ids
  PROVE  /\ S = {} => FirstByTs(S) = None
         /\ S # {} => /\ FirstByTs(S) \in S
                      /\ \A j \in S : j >= FirstByTs(S) - Skew
         /\ \A i \in Ids : S # {} /\ i > FirstByTs(S) + Skew
              => rows[FirstByTs(S)].ts <= rows[i].ts
<1>0. /\ Skew \in Nat /\ Ids \subseteq Nat /\ \A i \in Ids : rows[i].ts \in Nat
  BY EventsAssumption DEF EventsInv, Row, Times
<1>1. S = {} => FirstByTs(S) = None
  BY DEF FirstByTs
<1>2. ASSUME S # {}
      PROVE  /\ FirstByTs(S) \in S
             /\ \A j \in S : \/ rows[FirstByTs(S)].ts < rows[j].ts
                             \/ rows[FirstByTs(S)].ts = rows[j].ts /\ FirstByTs(S) <= j
  <2> DEFINE T == {rows[i].ts : i \in S}
  <2>1. T \subseteq Nat /\ T # {}
    BY <1>0, <1>2
  <2>2. PICK t \in T : \A u \in T : t <= u
    BY <2>1, LeastNumber
  <2> DEFINE F == {i \in S : rows[i].ts = t}
  <2>3. F \subseteq Nat /\ F # {}
    BY <1>0
  <2>4. PICK i \in F : \A j \in F : i <= j
    BY <2>3, LeastNumber
  <2>5. i \in S /\ \A j \in S : rows[i].ts < rows[j].ts \/ (rows[i].ts = rows[j].ts /\ i <= j)
    <3> SUFFICES ASSUME NEW j \in S
                 PROVE  rows[i].ts < rows[j].ts \/ (rows[i].ts = rows[j].ts /\ i <= j)
      OBVIOUS
    <3>1. rows[j].ts \in T /\ rows[i].ts = t /\ t \in Nat /\ rows[j].ts \in Nat
      BY <1>0, <2>1
    <3>2. t <= rows[j].ts
      BY <2>2, <3>1
    <3> QED BY <2>4, <3>1, <3>2
  <2> HIDE DEF T, F
  <2> QED BY <1>2, <2>5 DEF FirstByTs
<1>3. ASSUME S # {} PROVE \A j \in S : j >= FirstByTs(S) - Skew
  <2>1. PICK f \in S : f = FirstByTs(S)
    BY <1>2, <1>3
  <2> SUFFICES ASSUME NEW j \in S, ~(j >= f - Skew) PROVE FALSE
    BY <2>1
  <2>2. j \in Nat /\ f \in Nat /\ j \in Ids /\ f \in Ids
    BY <1>0
  <2>3. j < f - Skew
    BY <1>0, <2>2
  <2>4. rows[j].ts <= rows[f].ts
    BY <2>2, <2>3 DEF EventsInv, Skewed
  <2>5. rows[f].ts < rows[j].ts \/ (rows[f].ts = rows[j].ts /\ f <= j)
    BY <1>2, <1>3, <2>1
  <2>6. rows[f].ts \in Nat /\ rows[j].ts \in Nat
    BY <1>0, <2>2
  <2>7. f <= j
    BY <2>4, <2>5, <2>6
  <2> QED BY <1>0, <2>2, <2>3, <2>7
<1>4. ASSUME S # {}, NEW i \in Ids, i > FirstByTs(S) + Skew
      PROVE  rows[FirstByTs(S)].ts <= rows[i].ts
  <2>1. PICK f \in Nat : f = FirstByTs(S) /\ f \in Ids
    BY <1>0, <1>2, <1>4
  <2>2. i \in Nat /\ i > f + Skew
    BY <1>0, <1>4, <2>1
  <2>3. f < i - Skew
    BY <1>0, <2>2
  <2> QED BY <1>4, <2>1, <2>3 DEF EventsInv, Skewed
<1> QED BY <1>1, <1>2, <1>3, <1>4

LEMMA FoundType ==
  ASSUME EventsInv, NEW S \in SUBSET Ids
  PROVE  FirstByTs(S) \in {None} \cup Nat
<1>1. Ids \subseteq Nat
  BY DEF EventsInv
<1>2. FirstByTs(S) = None \/ FirstByTs(S) \in S
  BY FirstFound
<1> QED BY <1>1, <1>2

LEMMA NewestId ==
  ASSUME EventsInv
  PROVE  MaxId \in Nat /\ \A i \in Ids : i <= MaxId
<1>1. lastId \in Nat /\ Ids \subseteq 1..lastId /\ Ids \subseteq 0..lastId /\ Ids \subseteq Nat
  BY DEF EventsInv
<1>2. CASE Ids # {}
  <2>1. PICK x \in Ids : \A y \in Ids : x >= y
    BY <1>1, <1>2, GreatestNumber
  <2>2. Max(Ids) \in Ids /\ \A y \in Ids : Max(Ids) >= y
    BY <2>1 DEF Max
  <2>3. PICK m \in Nat : m = Max(Ids) /\ \A y \in Ids : m >= y
    BY <1>1, <2>2
  <2>4. \A y \in Ids : y <= m
    BY <1>1, <2>3
  <2> QED BY <1>2, <2>3, <2>4 DEF MaxId
<1>3. CASE Ids = {}
  BY <1>3 DEF MaxId
<1> QED BY <1>2, <1>3

----------------------------------------------------------------------------
(* A page: the k newest of the ids that may be returned *)

NewestOf(S, k) == {i \in S : Cardinality({j \in S : j > i}) < k}

\* P is the k newest of S, or all of them.
NewestFirst(P, S, k) ==
  /\ IsFiniteSet(P) /\ Cardinality(P) \in Nat /\ Cardinality(P) <= k
  /\ \A i \in S \ P : \A j \in P : i < j
  /\ Cardinality(P) < k => P = S
  /\ P # {} => Min(P) \in P /\ \A j \in P : Min(P) <= j

LEMMA TheNewest ==
  ASSUME NEW n \in Nat, NEW S, S \subseteq 1..n, NEW k \in Nat, NEW P, P = NewestOf(S, k)
  PROVE  NewestFirst(P, S, k)
<1> USE DEF NewestOf, NewestFirst
<1> DEFINE Above(i) == {j \in S : j > i}
<1>1. IsFiniteSet(S) /\ S \subseteq Nat /\ P \subseteq S
  <2>1. IsFiniteSet(1..n)
    BY IntervalSize
  <2>2. IsFiniteSet(S)
    BY <2>1, FS_Subset, Zenon
  <2>3. \A x \in 1..n : x \in Nat
    OBVIOUS
  <2> QED BY <2>2, <2>3
<1>2. IsFiniteSet(P) /\ Cardinality(P) \in Nat
  BY <1>1, FS_Subset, FS_CardinalityType
<1>3. \A i : IsFiniteSet(Above(i)) /\ Cardinality(Above(i)) \in Nat
  BY <1>1, FS_Subset, FS_CardinalityType
<1>4. ASSUME P # {} PROVE Min(P) \in P /\ \A j \in P : Min(P) <= j
  <2>1. PICK x \in P : \A y \in P : x <= y
    BY <1>1, <1>4, LeastNumber
  <2> QED BY <2>1 DEF Min
<1>5. Cardinality(P) <= k
  <2>1. CASE P = {}
    <3>1. Cardinality(P) = 0
      BY <2>1, FS_EmptySet, Zenon
    <3> QED BY <3>1
  <2>2. CASE P # {}
    <3>1. PICK m \in P : \A j \in P : m <= j
      BY <1>4, <2>2
    <3>2. Cardinality(Above(m)) < k /\ m \notin Above(m)
      BY <1>1
    <3>3. Cardinality(Above(m) \cup {m}) = Cardinality(Above(m)) + 1
      BY <1>3, <3>2, OneMore
    <3>4. P \subseteq Above(m) \cup {m} /\ IsFiniteSet(Above(m) \cup {m})
      <4>1. P \subseteq Above(m) \cup {m}
        <5> SUFFICES ASSUME NEW x \in P, x # m PROVE x \in S /\ x > m
          OBVIOUS
        <5>1. x \in Nat /\ m \in Nat /\ m <= x /\ x \in S
          BY <1>1, <3>1
        <5> QED BY <5>1
      <4> HIDE DEF Above
      <4> QED BY <1>3, <4>1, FS_AddElement
    <3>5. Cardinality(P) <= Cardinality(Above(m) \cup {m})
      BY <3>4, FS_Subset
    <3> HIDE DEF Above
    <3> QED BY <1>2, <1>3, <3>2, <3>3, <3>5
  <2> QED BY <2>1, <2>2
<1>6. ASSUME NEW i \in S \ P, NEW j \in P PROVE i < j
  <2> SUFFICES ASSUME j <= i PROVE FALSE
    BY <1>1
  <2>1. Above(i) \subseteq Above(j)
    <3> SUFFICES ASSUME NEW x \in S, x > i PROVE x > j
      OBVIOUS
    <3>1. x \in Nat /\ i \in Nat /\ j \in Nat
      BY <1>1
    <3> QED BY <3>1
  <2>2. Cardinality(Above(i)) <= Cardinality(Above(j))
    BY <1>3, <2>1, FS_Subset
  <2>3. Cardinality(Above(j)) < k /\ ~(Cardinality(Above(i)) < k)
    OBVIOUS
  <2> HIDE DEF Above
  <2> QED BY <1>3, <2>2, <2>3
<1>7. ASSUME Cardinality(P) < k, P # S PROVE FALSE
  <2>1. S \ P \subseteq 0..n /\ S \ P # {}
    <3>1. S \subseteq 0..n
      <4>1. \A x \in 1..n : x \in 0..n
        OBVIOUS
      <4> QED BY <4>1
    <3>2. P \subseteq S
      BY <1>1
    <3> QED BY <1>7, <3>1, <3>2, Zenon
  <2>2. PICK x \in S \ P : \A y \in S \ P : x >= y
    BY <2>1, GreatestNumber
  <2>3. Above(x) \subseteq P
    <3> SUFFICES ASSUME NEW j \in S, j > x, j \notin P PROVE FALSE
      OBVIOUS
    <3>1. j \in Nat /\ x \in Nat /\ x >= j
      BY <1>1, <2>2
    <3> QED BY <3>1
  <2>4. Cardinality(Above(x)) <= Cardinality(P)
    BY <1>2, <2>3, FS_Subset
  <2>5. ~(Cardinality(Above(x)) < k)
    OBVIOUS
  <2> HIDE DEF Above
  <2> QED BY <1>2, <1>3, <1>7, <2>4, <2>5
<1> QED BY <1>2, <1>4, <1>5, <1>6, <1>7

----------------------------------------------------------------------------
(* The resume point *)

\* While the client pages, all it was shown is at or above the resume point,
\* and a capped scan that resumes starts there.
PagingInv ==
  /\ EventsInv /\ req \in Queries
  /\ pc \in {"idle", "floor", "ceiling", "top", "select", "done"}
  /\ before \in Nat /\ got \subseteq 1..lastId /\ want \subseteq 1..lastId
  /\ lo \in {None} \cup Nat /\ hi \in {None} \cup Nat /\ top \in {None} \cup Nat
  /\ pc = "idle" => before = 0
  /\ pc # "done" => IF before = 0 THEN got = {} ELSE \A j \in got : j >= before
  /\ pc # "done" /\ req.csv => Cardinality(got) < CsvLimit
  /\ pc = "select" /\ top # None => ~req.csv /\ (before > 0 => top = before)

LEMMA GotSize ==
  ASSUME PagingInv
  PROVE  IsFiniteSet(got) /\ Cardinality(got) \in Nat
<1>1. IsFiniteSet(1..lastId)
  BY IntervalSize DEF PagingInv, EventsInv
<1> QED BY <1>1, FS_Subset, FS_CardinalityType, Zenon DEF PagingInv

(* What the last SELECT returns: rows below the resume point, so none that was *)
(* shown, the newest first, no more than the page or the export has room for.  *)
LEMMA ThePage ==
  ASSUME PagingInv, pc = "select"
  PROVE  /\ PageSize \in Nat \ {0}
         /\ req.csv => PageSize <= CsvLimit - Cardinality(got)
         /\ IsFiniteSet(Page) /\ Cardinality(Page) \in Nat /\ Cardinality(Page) <= PageSize
         /\ Page \subseteq Selected /\ Selected \subseteq 1..lastId
         /\ \A i \in Selected \ Page : \A j \in Page : i < j
         /\ Cardinality(Page) < PageSize => Page = Selected
         /\ Page # {} => Min(Page) \in Page /\ \A j \in Page : Min(Page) <= j
         /\ before > 0 => \A i \in Selected : i < before
         /\ Page \cap got = {}
<1>1. PageSize \in Nat \ {0} /\ (req.csv => PageSize <= CsvLimit - Cardinality(got))
  <2>1. req.csv => CsvLimit - Cardinality(got) \in Nat \ {0}
    BY GotSize, HistoryAssumption DEF PagingInv
  <2> QED BY <2>1, HistoryAssumption DEF PageSize
<1>2. Selected \subseteq 1..lastId /\ lastId \in Nat
  BY DEF Selected, PagingInv, EventsInv
<1>3. PICK P, S : \E k \in Nat : P = Page /\ S = Selected /\ k = PageSize
  BY <1>1
<1>4. PICK k \in Nat : P = Page /\ S = Selected /\ k = PageSize
  BY <1>3
<1>5. P = NewestOf(S, k)
  BY <1>4 DEF Page, NewestOf
<1>6. /\ IsFiniteSet(P) /\ Cardinality(P) \in Nat /\ Cardinality(P) <= k
      /\ \A i \in S \ P : \A j \in P : i < j
      /\ Cardinality(P) < k => P = S
      /\ P # {} => Min(P) \in P /\ \A j \in P : Min(P) <= j
  <2>1. PICK n \in Nat : S \subseteq 1..n
    BY <1>2, <1>4
  <2>2. NewestFirst(P, S, k)
    BY <1>5, <2>1, TheNewest
  <2> QED BY <2>2 DEF NewestFirst
<1>7. P \subseteq S
  BY <1>5 DEF NewestOf
<1>8. before > 0 => \A i \in Selected : i < before
  BY DEF Selected
<1>9. Page \cap got = {}
  <2>1. CASE before = 0
    BY <2>1 DEF PagingInv
  <2>2. CASE before # 0
    <3> SUFFICES ASSUME NEW i \in Page, i \in got PROVE FALSE
      OBVIOUS
    <3>1. i \in Selected /\ i \in Nat /\ before \in Nat
      BY <1>2, <1>4, <1>7 DEF PagingInv
    <3>2. i >= before
      BY <2>2 DEF PagingInv
    <3> QED BY <1>8, <2>2, <3>1, <3>2
  <2> QED BY <2>1, <2>2
<1> QED BY <1>1, <1>2, <1>4, <1>6, <1>7, <1>8, <1>9

(* A page the client comes back from resumes at or below all it was shown, *)
(* strictly below where it resumed before, and never at 0.                 *)
LEMMA Resumes ==
  ASSUME PagingInv, Select, pc' = "floor"
  PROVE  /\ before' \in Nat /\ before' >= 1
         /\ before > 0 => before' < before
         /\ \A j \in got' : j >= before'
         /\ req.csv => Cardinality(got') < CsvLimit
<1>0. /\ pc = "select" /\ got' = got \cup Page /\ before \in Nat
      /\ got \subseteq Nat /\ Selected \subseteq Nat /\ Page \subseteq Nat
      /\ \A i \in Selected : i >= 1
  BY ThePage DEF Select, PagingInv, EventsInv
<1>1. \/ Cardinality(Page) >= PageSize /\ Wanted /\ before' = Min(Page)
      \/ Cardinality(Page) < PageSize /\ CapHit /\ before' = ScannedLo
  BY <1>0, ThePage DEF Select, ResumeAt
<1>2. ASSUME before' \in Nat, before' >= 1, before > 0 => before' < before,
             \A j \in Page : j >= before'
      PROVE  \A j \in got' : j >= before'
  <2> SUFFICES ASSUME NEW j \in got PROVE j >= before'
    BY <1>0, <1>2
  <2>1. before > 0 /\ j >= before /\ j \in Nat
    BY <1>0 DEF PagingInv
  <2> QED BY <1>0, <1>2, <2>1
<1>3. CASE Cardinality(Page) >= PageSize /\ Wanted /\ before' = Min(Page)
  <2>1. Page # {}
    <3> SUFFICES ASSUME Page = {} PROVE FALSE
      OBVIOUS
    <3>1. Cardinality(Page) = 0
      BY FS_EmptySet, Zenon
    <3> QED BY <1>0, <1>3, <3>1, ThePage
  <2>2. Min(Page) \in Page /\ Min(Page) \in Selected /\ \A j \in Page : Min(Page) <= j
    BY <1>0, <2>1, ThePage
  <2>3. before' \in Nat /\ before' >= 1 /\ (before > 0 => before' < before)
    BY <1>0, <1>3, <2>2, ThePage
  <2>4. \A j \in Page : j >= before'
    BY <1>0, <1>3, <2>2, <2>3
  <2>5. req.csv => Cardinality(got') < CsvLimit
    <3>1. Cardinality(got \cup Page) = Cardinality(got) + Cardinality(Page)
                                        - Cardinality(got \cap Page)
      BY <1>0, GotSize, ThePage, FS_Union
    <3>2. Cardinality(got \cap Page) = 0
      <4>1. got \cap Page = {}
        BY <1>0, ThePage
      <4> QED BY <4>1, FS_EmptySet, Zenon
    <3> QED BY <1>0, <1>3, <3>1, <3>2, GotSize, ThePage DEF Wanted
  <2> QED BY <1>2, <2>3, <2>4, <2>5
<1>4. CASE Cardinality(Page) < PageSize /\ CapHit /\ before' = ScannedLo
  <2>1. /\ top # None /\ top \in Nat /\ ~req.csv /\ (before > 0 => top = before)
    BY <1>0, <1>4 DEF CapHit, Capped, PagingInv
  <2>2. PICK r \in Int : r = RangeLo
    BY HistoryAssumption DEF RangeLo, PagingInv, None
  <2>3. /\ ScannedLo \in Int /\ ScannedLo > 1 /\ ScannedLo = top - Span
    BY <1>4, <2>1, <2>2, HistoryAssumption DEF CapHit, ScannedLo
  <2>4. before' \in Nat /\ before' >= 1 /\ (before > 0 => before' < before)
    BY <1>0, <1>4, <2>1, <2>3, HistoryAssumption
  <2>5. \A j \in Page : j >= before'
    <3>1. \A j \in Selected : j >= ScannedLo
      BY <2>1 DEF Selected, Capped
    <3> QED BY <1>0, <1>4, <3>1, ThePage
  <2> QED BY <1>2, <2>1, <2>4, <2>5
<1> QED BY <1>1, <1>3, <1>4

LEMMA PagingStep == PagingInv /\ [Next]_vars => PagingInv'
<1> SUFFICES ASSUME PagingInv, [Next]_vars PROVE PagingInv'
  OBVIOUS
<1>0. lastId \in Nat /\ EventsInv
  BY DEF PagingInv, EventsInv
<1>1. CASE WriterNext /\ UNCHANGED reqVars
  <2>1. EventsInv' /\ lastId <= lastId' /\ lastId' \in Nat
    BY <1>0, <1>1, WriterKeeps DEF EventsInv
  <2>2. 1..lastId \subseteq 1..lastId'
    BY <1>0, <2>1
  <2> QED BY <1>1, <2>1, <2>2 DEF PagingInv, reqVars
<1>2. CASE Ask \/ ReadFloor \/ ReadCeiling \/ ReadTop
  <2> USE <1>2 DEF Ask, ReadFloor, ReadCeiling, ReadTop, eventVars
  <2>1. /\ EventsInv' /\ UNCHANGED <<req, before, got, lastId>>
        /\ pc' \in {"floor", "ceiling", "top", "select"}
    BY <1>0 DEF EventsInv, Skewed, Ids
  <2>2. want' \subseteq 1..lastId
    <3>1. Ids \subseteq 1..lastId
      BY <1>0 DEF EventsInv
    <3> QED BY <3>1 DEF PagingInv
  <2>3. lo' \in {None} \cup Nat
    <3>1. {i \in Ids : rows[i].ts >= req.start} \in SUBSET Ids
      OBVIOUS
    <3>2. FirstByTs({i \in Ids : rows[i].ts >= req.start}) \in {None} \cup Nat
      BY <1>0, <3>1, FoundType
    <3> QED BY <3>2 DEF PagingInv
  <2>4. hi' \in {None} \cup Nat
    <3>1. PICK f \in {None} \cup Nat :
            f = IF req.end = None THEN None ELSE FirstByTs({j \in Ids : rows[j].ts > req.end})
      <4>1. {j \in Ids : rows[j].ts > req.end} \in SUBSET Ids
        OBVIOUS
      <4>2. FirstByTs({j \in Ids : rows[j].ts > req.end}) \in {None} \cup Nat
        BY <1>0, <4>1, FoundType
      <4> QED BY <4>2
    <3>2. hi' = hi \/ hi' = IF f = None THEN None ELSE f + Margin
      BY <3>1
    <3> QED BY <3>2, HistoryAssumption DEF PagingInv
  <2>5. top' \in {None} \cup Nat
    <3>1. MaxId \in Nat
      BY <1>0, NewestId
    <3> QED BY <3>1, HistoryAssumption DEF PagingInv, None
  <2>6. pc' = "select" /\ top' # None => ~req.csv /\ (before > 0 => top' = before)
    BY DEF PagingInv
  <2> QED BY <2>1, <2>2, <2>3, <2>4, <2>5, <2>6 DEF PagingInv
<1>3. CASE Select
  <2> USE <1>3 DEF Select, eventVars
  <2>1. EventsInv' /\ UNCHANGED <<req, lo, hi, top, want, lastId>> /\ got' = got \cup Page
    BY <1>0 DEF EventsInv, Skewed, Ids
  <2>2. got' \subseteq 1..lastId
    <3>1. Page \subseteq 1..lastId
      BY ThePage
    <3> QED BY <2>1, <3>1 DEF PagingInv
  <2>3. CASE pc' = "floor"
    <3>1. before' \in Nat /\ before' # 0 /\ (\A j \in got' : j >= before')
          /\ (req.csv => Cardinality(got') < CsvLimit)
      BY <2>3, Resumes
    <3> QED BY <2>1, <2>2, <2>3, <3>1 DEF PagingInv
  <2>4. CASE pc' # "floor"
    <3>1. pc' = "done" /\ before' = before
      BY <2>4
    <3> QED BY <2>1, <2>2, <3>1 DEF PagingInv
  <2> QED BY <2>3, <2>4
<1>4. CASE UNCHANGED vars
  BY <1>4 DEF vars, eventVars, reqVars, PagingInv, EventsInv, Skewed, Ids
<1> QED BY <1>1, <1>2, <1>3, <1>4 DEF Next, QueryNext

LEMMA PagingHolds == Spec => []PagingInv
<1>1. Init => PagingInv
  <2> SUFFICES ASSUME Init PROVE PagingInv
    OBVIOUS
  <2>1. Ids = {} /\ lastId = 0
    BY DEF Init, EventsInit, Ids
  <2>2. Cardinality({}) = 0
    BY FS_EmptySet
  <2> QED BY <2>1, <2>2, HistoryAssumption DEF Init, PagingInv, EventsInv, Skewed
<1> QED BY <1>1, PagingStep, PTL DEF Spec

(* store.query_range.  No page brings a row an earlier one brought, whatever  *)
(* the writer inserts and prunes between two statements and two pages.        *)
THEOREM PagesAreApart == Spec => []NoRepeat
<1>1. PagingInv => NoRepeat
  BY ThePage DEF NoRepeat
<1> QED BY <1>1, PagingHolds, PTL

(* "an endless loop": every page the client comes back for resumes strictly   *)
(* below the one before, and at 1 at the lowest.                              *)
THEOREM ResumesLower == Spec => Descends
<1>1. PagingInv /\ [Next]_vars =>
        [(pc = "select" /\ pc' = "floor")
           => before' >= 1 /\ (before > 0 => before' < before)]_vars
  <2> SUFFICES ASSUME PagingInv, Next, pc = "select", pc' = "floor"
               PROVE  before' >= 1 /\ (before > 0 => before' < before)
    BY DEF vars
  <2>1. Select
    BY DEF Next, QueryNext, Ask, ReadFloor, ReadCeiling, ReadTop, reqVars
  <2> QED BY <2>1, Resumes
<1> QED BY <1>1, PagingHolds, PTL DEF Spec, Descends

----------------------------------------------------------------------------
(* Every row there was is found *)

\* A row wanted and still in the table.
Awaited(i) == i \in want /\ i \in Ids

\* It is within the id floor, the id ceiling and the start of the scan that
\* the statements of this page have read, and below the resume point unless it
\* was shown.
FoundInv ==
  /\ pc = "done" => Complete
  /\ pc \notin {"idle", "done"} =>
       \A i : Awaited(i) => Matches(i) /\ (i \in got \/ before = 0 \/ i < before)
  /\ pc \in {"ceiling", "top", "select"} =>
       \A i : Awaited(i) => lo # None /\ i >= lo - Margin
  /\ pc \in {"top", "select"} /\ hi # None => \A i : Awaited(i) => i <= hi
  /\ pc = "select" /\ top # None => \A i : Awaited(i) => i \in got \/ i < top

LEMMA AwaitedType ==
  ASSUME PagingInv, NEW i, Awaited(i)
  PROVE  i \in Nat /\ i >= 1 /\ i <= lastId /\ lastId \in Nat /\ rows[i].ts \in Nat
  BY DEF Awaited, PagingInv, EventsInv, Row, Times

(* What the writer does in between takes a wanted row away, or leaves it. *)
LEMMA WriterFound ==
  ASSUME PagingInv, FoundInv, WriterNext, UNCHANGED reqVars
  PROVE  FoundInv'
<1> USE DEF reqVars
<1>1. \A i \in Ids' : i <= lastId => i \in Ids /\ rows'[i] = rows[i]
  BY WriterKeeps DEF PagingInv
<1>2. \A i \in want : i <= lastId
  BY DEF PagingInv, EventsInv
<1>3. ASSUME NEW i, Awaited(i)'
      PROVE  Awaited(i) /\ rows'[i] = rows[i]
  BY <1>1, <1>2, <1>3 DEF Awaited
<1>4. \A i : Awaited(i)' => Awaited(i) /\ Matches(i)' = Matches(i)
  BY <1>3 DEF Matches, Hit
<1>5. Complete => Complete'
  <2> SUFFICES ASSUME Complete, pc = "done", NEW i \in want \cap Ids'
               PROVE  i \in got \/ (req.csv /\ Cardinality(got) = CsvLimit /\ \A j \in got : j > i)
    BY DEF Complete
  <2>1. i \in want \cap Ids
    BY <1>3 DEF Awaited
  <2> QED BY <2>1 DEF Complete
<1> QED BY <1>4, <1>5 DEF FoundInv

(* The id floor and ceiling, widened by the margin, hold every wanted row: a *)
(* row trails a later time by no more ids than the margin allows for.        *)
LEMMA BoundsFound ==
  ASSUME PagingInv, FoundInv, Skew <= Margin, Ask \/ ReadFloor \/ ReadCeiling
  PROVE  FoundInv'
<1>0. /\ EventsInv /\ Skew \in Nat /\ Margin \in Nat /\ req \in Queries
  BY EventsAssumption, HistoryAssumption DEF PagingInv
<1>1. CASE Ask
  <2> USE <1>1 DEF Ask, eventVars
  <2>1. UNCHANGED <<rows, req, before>> /\ before = 0 /\ pc' = "floor"
    BY DEF PagingInv
  <2>2. \A i : Awaited(i)' => Matches(i)'
    BY DEF Awaited, Matches, Hit, Ids
  <2> QED BY <2>1, <2>2 DEF FoundInv
<1>2. CASE ReadFloor
  <2> USE <1>2 DEF ReadFloor, eventVars
  <2> DEFINE S == {i \in Ids : rows[i].ts >= req.start}
  <2>1. ASSUME NEW i, Awaited(i) PROVE lo' # None /\ i >= lo' - Margin
    <3>1. i \in S
      BY <2>1 DEF FoundInv, Awaited, Matches
    <3>2. S \in SUBSET Ids /\ S # {} /\ Ids \subseteq Nat
      BY <1>0, <3>1 DEF EventsInv
    <3>3. lo' = FirstByTs(S)
      OBVIOUS
    <3> HIDE DEF S
    <3>4. PICK f \in Nat : f = lo' /\ i >= f - Skew
      BY <1>0, <3>1, <3>2, <3>3, FirstFound
    <3>5. i \in Nat
      BY <3>1, <3>2
    <3> QED BY <1>0, <3>4, <3>5 DEF None
  <2>2. \A i : (Awaited(i)' <=> Awaited(i)) /\ (Matches(i)' <=> Matches(i))
    BY DEF Awaited, Matches, Hit, Ids
  <2> QED BY <2>1, <2>2 DEF FoundInv
<1>3. CASE ReadCeiling
  <2> USE <1>3 DEF ReadCeiling, eventVars
  <2> DEFINE S == {j \in Ids : rows[j].ts > req.end}
  <2>1. ASSUME NEW i, Awaited(i), hi' # None PROVE i <= hi'
    <3>1. req.end # None /\ FirstByTs(S) # None /\ hi' = FirstByTs(S) + Margin
      BY <2>1
    <3>2. S \in SUBSET Ids /\ S # {} /\ Ids \subseteq Nat
      BY <1>0, <3>1, FirstFound DEF EventsInv
    <3>3. PICK f \in S : f = FirstByTs(S)
      BY <1>0, <3>2, FirstFound
    <3>4. f \in Nat /\ f \in Ids /\ rows[f].ts > req.end /\ rows[f].ts \in Nat /\ req.end \in Nat
      BY <1>0, <3>1, <3>3 DEF EventsInv, Row, Times, Queries
    <3>5. rows[i].ts <= req.end /\ i \in Nat /\ i \in Ids /\ rows[i].ts \in Nat
      BY <2>1, <3>1, AwaitedType DEF FoundInv, Awaited, Matches
    <3>6. ~(i > f + Skew)
      <4> SUFFICES ASSUME i > f + Skew PROVE FALSE
        OBVIOUS
      <4>1. f < i - Skew
        BY <1>0, <3>4, <3>5
      <4>2. rows[f].ts <= rows[i].ts
        BY <1>0, <3>4, <3>5, <4>1 DEF EventsInv, Skewed
      <4> QED BY <3>4, <3>5, <4>2
    <3>7. hi' = f + Margin
      BY <3>1, <3>3
    <3> HIDE <1>3 DEF ReadCeiling, S
    <3> QED BY <1>0, <3>4, <3>5, <3>6, <3>7
  <2>2. \A i : (Awaited(i)' <=> Awaited(i)) /\ (Matches(i)' <=> Matches(i))
    BY DEF Awaited, Matches, Hit, Ids
  <2> QED BY <2>1, <2>2 DEF FoundInv
<1> QED BY <1>1, <1>2, <1>3

(* A capped scan starts above every wanted row that was not shown. *)
LEMMA TopFound ==
  ASSUME PagingInv, FoundInv, ReadTop
  PROVE  FoundInv'
<1> USE DEF ReadTop, eventVars
<1>1. ASSUME NEW i, Awaited(i), top' # None PROVE i \in got \/ i < top'
  <2>1. i \in Nat /\ i \in Ids /\ (i \in got \/ before = 0 \/ i < before) /\ before \in Nat
    BY <1>1, AwaitedType DEF FoundInv, Awaited, PagingInv
  <2>2. CASE before > 0
    BY <1>1, <2>1, <2>2
  <2>3. CASE ~(before > 0) /\ hi # None
    <3>1. top' = hi + 1 /\ i <= hi /\ hi \in Nat
      BY <1>1, <2>3 DEF FoundInv, PagingInv
    <3> QED BY <2>1, <3>1
  <2>4. CASE ~(before > 0) /\ hi = None
    <3>1. top' = MaxId + 1
      BY <1>1, <2>4
    <3>2. MaxId \in Nat /\ i <= MaxId
      BY <2>1, NewestId DEF PagingInv
    <3> HIDE DEF ReadTop
    <3> QED BY <2>1, <3>1, <3>2
  <2> QED BY <2>2, <2>3, <2>4
<1>2. \A i : (Awaited(i)' <=> Awaited(i)) /\ (Matches(i)' <=> Matches(i))
  BY DEF Awaited, Matches, Hit, Ids
<1> QED BY <1>1, <1>2 DEF FoundInv

(* A wanted row not shown yet is returned, or lies below what was scanned. *)
LEMMA SelectedOrBelow ==
  ASSUME PagingInv, FoundInv, pc = "select", NEW i, Awaited(i), i \notin got
  PROVE  i \in Selected \/ (Capped /\ i < ScannedLo /\ i >= RangeLo)
<1>0. i \in Nat /\ i \in Ids /\ Matches(i) /\ before \in Nat /\ (before = 0 \/ i < before)
  BY AwaitedType DEF FoundInv, Awaited, PagingInv
<1>1. /\ before > 0 => i < before
      /\ hi # None => i <= hi
      /\ lo # None /\ i >= lo - Margin
  BY <1>0 DEF FoundInv
<1>2. i >= RangeLo /\ RangeLo = lo - Margin
  BY <1>1 DEF RangeLo
<1>3. CASE Capped
  <2>1. top \in Nat /\ lo \in Nat
    BY <1>1, <1>3 DEF Capped, PagingInv
  <2>2. ScannedLo \in Int
    BY <1>2, <2>1, HistoryAssumption DEF ScannedLo
  <2>3. i < ScannedLo \/ i >= ScannedLo
    BY <1>0, <2>2
  <2> QED BY <1>0, <1>1, <1>2, <1>3, <2>3 DEF Selected
<1>4. CASE ~Capped
  BY <1>0, <1>1, <1>2, <1>4 DEF Selected
<1> QED BY <1>3, <1>4

LEMMA SelectFound ==
  ASSUME PagingInv, PagingInv', FoundInv, Select
  PROVE  FoundInv'
<1> USE DEF eventVars
<1>0. /\ pc = "select" /\ got' = got \cup Page /\ UNCHANGED <<rows, lastId, req, want, hi, lo, top>>
      /\ \A i : (Awaited(i)' <=> Awaited(i)) /\ (Matches(i)' <=> Matches(i))
  BY DEF Select, Awaited, Matches, Hit, Ids
<1>1. /\ PageSize \in Nat \ {0} /\ Cardinality(Page) \in Nat /\ IsFiniteSet(Page)
      /\ Page \subseteq Selected /\ Selected \subseteq Nat
  BY <1>0, ThePage DEF PagingInv, EventsInv
<1>2. ASSUME Cardinality(Page) >= PageSize, NEW i, Awaited(i), i \notin got'
      PROVE  \A j \in Page : i < j
  <2>1. i \in Nat /\ i \notin got /\ i \notin Page
    BY <1>0, <1>2, AwaitedType
  <2>2. CASE i \in Selected
    BY <1>0, <2>1, <2>2, ThePage
  <2>3. CASE Capped /\ i < ScannedLo
    <3> SUFFICES ASSUME NEW j \in Page PROVE i < j
      OBVIOUS
    <3>1. j \in Nat /\ j >= ScannedLo
      BY <1>1, <2>3 DEF Selected, Capped
    <3>2. ScannedLo \in Int
      <4>1. top \in Nat /\ lo \in Int
        BY <2>3 DEF Capped, PagingInv, None
      <4> QED BY <4>1, HistoryAssumption DEF ScannedLo, RangeLo
    <3> QED BY <2>1, <2>3, <3>1, <3>2
  <2> QED BY <1>0, <1>2, <2>1, <2>2, <2>3, SelectedOrBelow
<1>3. ASSUME Cardinality(Page) < PageSize, NEW i, Awaited(i), i \notin got'
      PROVE  Capped /\ i < ScannedLo /\ i >= RangeLo
  <2>1. Page = Selected /\ i \notin got /\ i \notin Selected
    BY <1>0, <1>3, ThePage
  <2> QED BY <1>0, <1>3, <2>1, SelectedOrBelow
<1>4. CASE pc' = "floor"
  <2>1. ASSUME NEW i, Awaited(i), i \notin got' PROVE i < before'
    <3>1. CASE Cardinality(Page) >= PageSize /\ before' = Min(Page)
      <4>1. Page # {}
        <5> SUFFICES ASSUME Page = {} PROVE FALSE
          OBVIOUS
        <5>1. Cardinality(Page) = 0
          BY FS_EmptySet, Zenon
        <5> QED BY <1>1, <3>1, <5>1
      <4>2. Min(Page) \in Page
        BY <1>0, <4>1, ThePage
      <4> QED BY <1>2, <2>1, <3>1, <4>2
    <3>2. CASE Cardinality(Page) < PageSize /\ before' = ScannedLo
      BY <1>3, <2>1, <3>2
    <3> QED BY <1>1, <1>4, <3>1, <3>2 DEF Select, ResumeAt
  <2>2. \A i : Awaited(i)' => Matches(i)'
    BY <1>0 DEF FoundInv
  <2> QED BY <1>0, <1>4, <2>1, <2>2 DEF FoundInv
<1>5. CASE pc' = "done"
  <2> SUFFICES ASSUME NEW i, Awaited(i), i \notin got'
               PROVE  req.csv /\ Cardinality(got') = CsvLimit /\ \A j \in got' : j > i
    BY <1>0, <1>5 DEF FoundInv, Complete, Awaited
  <2>1. i \in Nat /\ i >= 1 /\ i \notin got
    BY <1>0, AwaitedType
  <2>2. Cardinality(Page) >= PageSize /\ ~Wanted
    <3>1. CASE Cardinality(Page) < PageSize
      <4>1. Capped /\ i < ScannedLo /\ i >= RangeLo
        BY <1>3, <3>1
      <4>2. ~CapHit
        BY <1>1, <1>5, <3>1 DEF Select
      <4>3. RangeLo \in Int /\ ScannedLo \in Int
        <5>1. top \in Nat /\ lo \in Int
          BY <4>1 DEF Capped, PagingInv, None
        <5> QED BY <5>1, HistoryAssumption DEF ScannedLo, RangeLo
      <4>4. ~(ScannedLo > (IF RangeLo > 1 THEN RangeLo ELSE 1))
        BY <4>1, <4>2 DEF CapHit
      <4> QED BY <2>1, <4>1, <4>3, <4>4
    <3>2. CASE ~(Cardinality(Page) < PageSize)
      BY <1>1, <1>5, <3>2 DEF Select
    <3> QED BY <3>1, <3>2
  <2>3. Cardinality(got) \in Nat /\ IsFiniteSet(got)
    BY GotSize
  <2>4. req.csv /\ Cardinality(got') = CsvLimit
    <3>1. Cardinality(got \cup Page) = Cardinality(got) + Cardinality(Page)
                                        - Cardinality(got \cap Page)
      BY <1>1, <2>3, FS_Union
    <3>2. Cardinality(got \cap Page) = 0
      <4>1. got \cap Page = {}
        BY <1>0, ThePage
      <4> QED BY <4>1, FS_EmptySet, Zenon
    <3>3. req.csv /\ ~(Cardinality(got) + Cardinality(Page) < CsvLimit)
      BY <2>2 DEF Wanted
    <3>4. Cardinality(Page) <= PageSize /\ PageSize <= CsvLimit - Cardinality(got)
      BY <1>0, <3>3, ThePage
    <3>5. Cardinality(got) + Cardinality(Page) = CsvLimit
      BY <1>1, <2>3, <3>3, <3>4, HistoryAssumption
    <3> QED BY <1>0, <1>1, <2>3, <3>1, <3>2, <3>3, <3>5
  <2>5. \A j \in got' : j > i
    <3>1. \A j \in Page : j > i
      BY <1>1, <1>2, <2>1, <2>2
    <3> SUFFICES ASSUME NEW j \in got PROVE j > i
      BY <1>0, <3>1
    <3>2. before # 0 /\ j >= before /\ before \in Nat /\ j \in Nat
      BY <1>0 DEF PagingInv, EventsInv
    <3>3. i < before
      BY <1>0, <2>1, <3>2 DEF FoundInv
    <3> QED BY <2>1, <3>2, <3>3
  <2> QED BY <2>4, <2>5
<1> QED BY <1>4, <1>5 DEF Select

(* store.query_range, "the ts filter keeps the result exact".  When no row    *)
(* trails a later receive time by more than WINDOW_ID_MARGIN ids, a client    *)
(* that paged to the end has every matching row that was there when it asked  *)
(* and is there still, however the writer's inserts and prunes fell between   *)
(* its statements; an export that ran into its limit has the newest.          *)
THEOREM NothingIsMissed == Skew <= Margin => (Spec => []Complete)
<1> SUFFICES ASSUME Skew <= Margin PROVE Spec => []Complete
  OBVIOUS
<1>1. Init => FoundInv
  BY DEF Init, FoundInv
<1>2. PagingInv /\ PagingInv' /\ FoundInv /\ [Next]_vars => FoundInv'
  <2> SUFFICES ASSUME PagingInv, PagingInv', FoundInv, [Next]_vars PROVE FoundInv'
    OBVIOUS
  <2>1. CASE UNCHANGED vars
    BY <2>1 DEF vars, eventVars, reqVars, FoundInv, Complete, Awaited, Matches, Hit, Ids
  <2> QED BY <2>1, WriterFound, BoundsFound, TopFound, SelectFound DEF Next, QueryNext
<1>3. FoundInv => Complete
  BY DEF FoundInv, Complete
<1> QED BY <1>1, <1>2, <1>3, PagingHolds, PTL DEF Spec

=============================================================================
