--------------------------- MODULE LiveTailProofs ---------------------------
(***************************************************************************)
(* What is proved of a client that polls for new events with the cursor it *)
(* was given, for any number of rows and any answer size, while the writer *)
(* inserts and prunes between any two statements.                          *)
(***************************************************************************)
EXTENDS LiveTail, TallyProofs

\* The cursor is an id that was handed out, and at or above all that was shown.
\* A first poll that has found nothing has shown nothing.
LiveInv ==
  /\ lastId \in 0..MaxRows /\ Ids \subseteq 1..lastId
  /\ \A i \in Ids : rows[i] \in Row
  /\ pc \in {"tail", "select", "fallback"}
  /\ cursor \in 0..lastId /\ base \in 0..lastId /\ shown \subseteq 1..lastId
  /\ \A i \in shown : i <= cursor
  /\ pc # "tail" => cursor = 0

LEMMA NewestOfSome ==
  ASSUME LiveInv, NEW S, S \subseteq Ids, S # {}
  PROVE  Max(S) \in S /\ \A i \in S : i <= Max(S)
<1>1. lastId \in Nat /\ S \subseteq 0..lastId /\ S \subseteq Nat
  BY EventsAssumption DEF LiveInv
<1>2. PICK x \in S : \A y \in S : x >= y
  BY <1>1, GreatestNumber
<1>3. PICK m \in S : m = Max(S) /\ \A y \in S : m >= y
  BY <1>2 DEF Max
<1>4. \A y \in S : y <= m
  BY <1>1, <1>3
<1> QED BY <1>3, <1>4

LEMMA MaxIdType == LiveInv => MaxId \in 0..lastId
<1> SUFFICES ASSUME LiveInv PROVE MaxId \in 0..lastId
  OBVIOUS
<1>1. lastId \in Nat /\ Ids \subseteq 0..lastId
  BY EventsAssumption DEF LiveInv
<1>2. Ids # {} => Max(Ids) \in Ids
  BY NewestOfSome
<1>3. CASE Ids = {}
  BY <1>1, <1>3 DEF MaxId
<1>4. CASE Ids # {}
  <2>1. MaxId = Max(Ids)
    BY <1>4 DEF MaxId
  <2> QED BY <1>1, <1>2, <1>4, <2>1
<1> QED BY <1>3, <1>4

(* An answer's cursor is the newest of its rows. *)
LEMMA AnswerInv ==
  ASSUME LiveInv, NEW page, page \subseteq Ids, page # {}, UNCHANGED eventVars,
         cursor' = NewestReturned(page), shown' = shown \cup page,
         \A i \in page : i > cursor,
         pc' = "tail", base' \in 0..lastId
  PROVE  LiveInv'
<1>1. PICK m \in page : m = cursor' /\ \A i \in page : i <= m
  BY NewestOfSome DEF NewestReturned
<1>2. lastId \in Nat /\ Ids \subseteq 1..lastId /\ shown \subseteq 1..lastId /\ cursor \in Nat
  BY EventsAssumption DEF LiveInv
<1>3. m \in 1..lastId /\ m > cursor
  BY <1>1, <1>2
<1>4. \A i \in shown : i <= m
  <2> SUFFICES ASSUME NEW i \in shown PROVE i <= m
    OBVIOUS
  <2>1. i <= cursor /\ i \in Nat /\ m \in Nat
    BY <1>2, <1>3 DEF LiveInv
  <2> QED BY <1>2, <1>3, <2>1
<1>5. UNCHANGED <<Ids, rows, lastId>>
  BY DEF eventVars, Ids
<1> QED BY <1>1, <1>2, <1>3, <1>4, <1>5 DEF LiveInv

LEMMA LiveStart == Init => LiveInv /\ Ids = {}
<1> SUFFICES ASSUME Init PROVE LiveInv /\ Ids = {}
  OBVIOUS
<1>1. Ids = {} /\ lastId = 0
  BY DEF Init, EventsInit, Ids
<1> QED BY <1>1, EventsAssumption DEF Init, LiveInv

LEMMA LiveStep == LiveInv /\ [Next]_vars => LiveInv'
<1> SUFFICES ASSUME LiveInv, [Next]_vars PROVE LiveInv'
  OBVIOUS
<1>0. /\ lastId \in Nat /\ MaxRows \in Nat /\ Ids \subseteq 1..lastId
      /\ MaxId \in 0..lastId /\ cursor \in Nat
  BY EventsAssumption, MaxIdType DEF LiveInv
<1>1. CASE CommitRow /\ UNCHANGED pollVars
  <2>1. PICK row \in Row :
          rows' = [i \in Ids \cup {lastId'} |-> IF i = lastId' THEN row ELSE rows[i]]
    BY <1>1 DEF CommitRow
  <2>2. lastId' = lastId + 1 /\ lastId' \in 0..MaxRows /\ 1..lastId \subseteq 1..lastId'
        /\ 0..lastId \subseteq 0..lastId'
    BY <1>0, <1>1 DEF CommitRow
  <2>3. Ids' = Ids \cup {lastId'} /\ Ids' \subseteq 1..lastId'
    BY <1>0, <2>1, <2>2 DEF Ids
  <2>4. \A i \in Ids' : rows'[i] \in Row
    BY <2>1, <2>3 DEF LiveInv
  <2> QED BY <1>1, <2>2, <2>3, <2>4 DEF LiveInv, pollVars
<1>2. CASE Prune /\ UNCHANGED pollVars
  <2>1. PICK kept \in SUBSET Ids : rows' = [i \in kept |-> rows[i]]
    <3>1. PICK cutoff \in Times : \E newest :
            rows' = [i \in {j \in {k \in Ids : rows[k].ts >= cutoff} : j > newest - MaxEvents}
                       |-> rows[i]]
      BY <1>2 DEF Prune
    <3> QED BY <3>1
  <2>2. Ids' = kept /\ lastId' = lastId
    BY <1>2, <2>1 DEF Prune, Ids
  <2> QED BY <1>0, <1>2, <2>1, <2>2 DEF LiveInv, pollVars
<1>3. CASE FirstPoll
  BY <1>3 DEF FirstPoll, LiveInv, eventVars, Ids
<1>4. CASE FirstSelect
  <2>1. PICK page \in SUBSET Ids :
          /\ shown' = shown \cup page
          /\ IF page # {} THEN cursor' = NewestReturned(page) /\ pc' = "tail"
             ELSE pc' = "fallback" /\ UNCHANGED cursor
    BY <1>4 DEF FirstSelect, Newest
  <2>2. pc = "select" /\ base' = MaxId /\ UNCHANGED eventVars
    BY <1>4 DEF FirstSelect
  <2>3. CASE page # {}
    <3>1. \A i \in page : i > cursor
      BY <1>0, <2>2 DEF LiveInv
    <3> QED BY <1>0, <2>1, <2>2, <2>3, <3>1, AnswerInv
  <2>4. CASE page = {}
    BY <1>0, <2>1, <2>2, <2>4 DEF LiveInv, eventVars, Ids
  <2> QED BY <2>3, <2>4
<1>5. CASE Fallback
  <2>1. shown = {}
    <3> SUFFICES ASSUME NEW i \in shown PROVE FALSE
      OBVIOUS
    <3>1. i \in 1..lastId /\ i <= 0
      BY <1>5 DEF LiveInv, Fallback
    <3> QED BY <1>0, <3>1
  <2> QED BY <1>0, <1>5, <2>1 DEF Fallback, LiveInv, eventVars, Ids
<1>6. CASE Poll
  <2>1. Newer \subseteq Ids /\ \A i \in Newer : i > cursor
    BY DEF Newer, Oldest
  <2>2. /\ Newer # {} /\ shown' = shown \cup Newer /\ cursor' = NewestReturned(Newer)
        /\ pc' = "tail" /\ base' \in 0..lastId /\ UNCHANGED eventVars
    BY <1>6 DEF Poll, LiveInv
  <2> QED BY <2>1, <2>2, AnswerInv
<1>7. CASE UNCHANGED vars
  BY <1>7 DEF vars, eventVars, pollVars, LiveInv, Ids
<1> QED BY <1>1, <1>2, <1>3, <1>4, <1>5, <1>6, <1>7 DEF Next, PollNext, WriterNext

(* store.query_live, "no re-send": whatever the writer inserts and prunes     *)
(* between the polls and between the statements of the first one, no poll     *)
(* returns a row the client was already given.                                *)
THEOREM NothingIsResent == Spec => []NoResend
<1>1. Init => LiveInv
  BY LiveStart
<1>2. LiveInv => NoResend
  <2> SUFFICES ASSUME LiveInv, NEW i \in Newer, i \in shown PROVE FALSE
    BY DEF NoResend
  <2>1. i > cursor /\ i <= cursor /\ i \in Nat /\ cursor \in Nat
    BY EventsAssumption DEF Newer, Oldest, LiveInv
  <2> QED BY <2>1
<1> QED BY <1>1, <1>2, LiveStep, PTL DEF Spec

----------------------------------------------------------------------------
(* Where a row can be skipped *)

\* NoSkip, also between the statements of the first poll.
Unskipped == \A i \in Ids : (base < i /\ i <= cursor /\ Matches(i)) => i \in shown

\* An incremental answer leaves out no match up to its newest row.
LEMMA AnswerIsDense ==
  ASSUME LiveInv, Newer # {}, NEW i \in Ids, Matches(i), i > cursor, i <= Max(Newer)
  PROVE  i \in Newer
<1> DEFINE S == {j \in Ids : j > cursor /\ Matches(j)}
           Below(x) == {j \in S : j < x}
<1>1. lastId \in Nat /\ Ids \subseteq 1..lastId
  BY EventsAssumption DEF LiveInv
<1>2. IsFiniteSet(Ids) /\ Ids \subseteq Nat
  <2>1. IsFiniteSet(1..lastId)
    BY <1>1, IntervalSize
  <2>2. IsFiniteSet(Ids)
    BY <1>1, <2>1, FS_Subset, Zenon
  <2> QED BY <1>1, <2>2
<1>3. \A x : IsFiniteSet(Below(x)) /\ Cardinality(Below(x)) \in Nat
  <2> SUFFICES ASSUME NEW x PROVE IsFiniteSet(Below(x)) /\ Cardinality(Below(x)) \in Nat
    OBVIOUS
  <2>1. Below(x) \subseteq Ids
    OBVIOUS
  <2> HIDE DEF Below
  <2> QED BY <1>2, <2>1, FS_Subset, FS_CardinalityType
<1>4. Newer = {x \in S : Cardinality(Below(x)) < Limit}
  BY DEF Newer, Oldest
<1>5. Max(Newer) \in Newer
  <2>1. Newer \subseteq Ids
    BY DEF Newer, Oldest
  <2> QED BY <2>1, NewestOfSome
<1>6. PICK m \in S : m = Max(Newer) /\ Cardinality(Below(m)) < Limit
  BY <1>4, <1>5
<1>7. Below(i) \subseteq Below(m)
  <2> SUFFICES ASSUME NEW j \in S, j < i PROVE j < m
    OBVIOUS
  <2>1. j \in Nat /\ i \in Nat /\ m \in Nat /\ i <= m
    BY <1>2, <1>6
  <2> QED BY <2>1
<1>8. Cardinality(Below(i)) <= Cardinality(Below(m)) /\ i \in S
  BY <1>3, <1>7, FS_Subset
<1> HIDE DEF Below, S
<1>9. Cardinality(Below(i)) < Limit
  BY <1>3, <1>6, <1>8, LiveAssumption
<1> QED BY <1>4, <1>8, <1>9

LEMMA UnskippedStep ==
  ASSUME LiveInv, Unskipped, [Next]_vars, Fallback => MaxId <= base
  PROVE  Unskipped'
<1>0. /\ lastId \in Nat /\ Ids \subseteq 1..lastId /\ Ids \subseteq Nat
      /\ MaxId \in 0..lastId /\ cursor \in 0..lastId /\ base \in 0..lastId
  BY EventsAssumption, MaxIdType DEF LiveInv
<1>1. CASE WriterNext /\ UNCHANGED pollVars
  <2>1. \A i \in Ids' : i <= lastId => i \in Ids /\ rows'[i] = rows[i]
    <3>1. CASE CommitRow
      <4>1. PICK row \in Row :
              rows' = [i \in Ids \cup {lastId'} |-> IF i = lastId' THEN row ELSE rows[i]]
        BY <3>1 DEF CommitRow
      <4>2. lastId' = lastId + 1 /\ Ids' = Ids \cup {lastId'}
        BY <3>1, <4>1 DEF CommitRow, Ids
      <4> QED BY <1>0, <4>1, <4>2
    <3>2. CASE Prune
      <4>1. PICK kept \in SUBSET Ids : rows' = [i \in kept |-> rows[i]]
        <5>1. PICK cutoff \in Times : \E newest :
                rows' = [i \in {j \in {k \in Ids : rows[k].ts >= cutoff} : j > newest - MaxEvents}
                           |-> rows[i]]
          BY <3>2 DEF Prune
        <5> QED BY <5>1
      <4> QED BY <4>1 DEF Ids
    <3> QED BY <1>1, <3>1, <3>2 DEF WriterNext
  <2>2. UNCHANGED <<filter, cursor, base, shown>>
    BY <1>1 DEF pollVars
  <2> SUFFICES ASSUME NEW i \in Ids', base < i, i <= cursor, Matches(i)' PROVE i \in shown
    BY <2>2 DEF Unskipped
  <2>3. i <= lastId
    <3>1. i \in Nat
      <4>1. LiveInv'
        BY <1>1, LiveStep DEF Next
      <4> QED BY <4>1, EventsAssumption DEF LiveInv
    <3> QED BY <1>0, <3>1
  <2>4. i \in Ids /\ Matches(i)
    BY <2>1, <2>2, <2>3 DEF Matches, Hit
  <2> QED BY <2>4 DEF Unskipped
<1>2. ASSUME UNCHANGED <<eventVars, filter>>
      PROVE  Ids' = Ids /\ \A i : Matches(i)' <=> Matches(i)
  BY <1>2 DEF eventVars, Ids, Matches, Hit
<1>3. CASE FirstPoll
  BY <1>2, <1>3 DEF FirstPoll, Unskipped
<1>4. CASE FirstSelect
  <2>1. PICK page \in SUBSET Ids :
          IF page # {} THEN cursor' = NewestReturned(page) ELSE UNCHANGED cursor
    BY <1>4 DEF FirstSelect, Newest
  <2>2. base' = MaxId /\ Ids' = Ids /\ cursor = 0
    BY <1>2, <1>4 DEF FirstSelect, LiveInv
  <2>3. \A i \in Ids : i <= MaxId
    BY <1>0, NewestOfSome DEF MaxId
  <2>4. cursor' \in Nat /\ cursor' <= MaxId
    <3>1. CASE page # {}
      <4>1. PICK m \in Ids : m = cursor'
        BY <2>1, <3>1, NewestOfSome DEF NewestReturned
      <4> QED BY <1>0, <2>3, <4>1
    <3>2. CASE page = {}
      <4>1. cursor' = 0 /\ MaxId >= 0
        BY <1>0, <2>1, <2>2, <3>2
      <4> QED BY <4>1
    <3> QED BY <3>1, <3>2
  <2> QED BY <1>0, <2>2, <2>4 DEF Unskipped
<1>5. CASE Fallback
  <2>1. cursor' = MaxId /\ base' = base /\ Ids' = Ids /\ MaxId <= base
    BY <1>2, <1>5 DEF Fallback
  <2> QED BY <1>0, <2>1 DEF Unskipped
<1>6. CASE Poll
  <2>1. /\ Newer # {} /\ shown' = shown \cup Newer /\ cursor' = Max(Newer) /\ base' = base
        /\ Ids' = Ids /\ \A i : Matches(i)' <=> Matches(i)
    BY <1>2, <1>6 DEF Poll, NewestReturned
  <2> SUFFICES ASSUME NEW i \in Ids, base < i, i <= Max(Newer), Matches(i)
               PROVE  i \in shown \/ i \in Newer
    BY <2>1 DEF Unskipped
  <2>2. i <= cursor \/ i > cursor
    BY <1>0
  <2> QED BY <2>1, <2>2, AnswerIsDense DEF Unskipped
<1>7. CASE UNCHANGED vars
  BY <1>2, <1>7 DEF vars, pollVars, Unskipped
<1> QED BY <1>1, <1>3, <1>4, <1>5, <1>6, <1>7 DEF Next, PollNext

(* store.query_live, "with no skip".  The one way to skip an event is the one  *)
(* the run LiveTailSkip shows: as long as nothing is committed between the two *)
(* statements of a first poll that finds no row, each match committed after it *)
(* is shown before the cursor passes it, or is pruned.                         *)
THEOREM SkipsOnlyAtTheStart == Spec /\ [][Fallback => MaxId <= base]_vars => []NoSkip
<1>1. Init => LiveInv /\ Unskipped
  BY LiveStart DEF Unskipped
<1>2. LiveInv /\ Unskipped /\ [Next]_vars /\ [Fallback => MaxId <= base]_vars
        => LiveInv' /\ Unskipped'
  <2> SUFFICES ASSUME LiveInv, Unskipped, [Next]_vars, [Fallback => MaxId <= base]_vars
               PROVE  Unskipped'
    BY LiveStep
  <2>1. CASE UNCHANGED vars
    BY <2>1 DEF vars, eventVars, pollVars, Unskipped, Ids, Matches, Hit
  <2>2. CASE Fallback => MaxId <= base
    BY <2>2, UnskippedStep
  <2> QED BY <2>1, <2>2
<1>3. Unskipped => NoSkip
  BY DEF Unskipped, NoSkip
<1> QED BY <1>1, <1>2, <1>3, PTL DEF Spec

=============================================================================
