-------------------------- MODULE CollectorProofs ---------------------------
(***************************************************************************)
(* What is proved of the writer across crashes and restarts, and of the    *)
(* whole collector, from the socket to the table.                          *)
(*                                                                         *)
(* Of the writer, three invariants together: WriterFlow says what each     *)
(* point of writer.run leaves in the buffers and in the queue, WriterBooks *)
(* that the published counters agree with the connection's own view of the *)
(* database once the buffered events are added, and Conserved that every   *)
(* item put is somewhere.  The collector adds to them what ListenerProofs  *)
(* proves of the listeners, which it implements.                           *)
(***************************************************************************)
EXTENDS Collector, ListenerProofs

\* What the points of writer.run leave behind.  The final drain runs with stop
\* set, so what is put after it found the queue empty is late.
WriterFlow ==
  /\ pcW \in {"loop", "get", "prune"} => Len(events) < Batch
  /\ pcW \in {"open", "prune0", "drops", "commit", "closed"} =>
       events = <<>> /\ unparsed = <<>>
  /\ pcW \in {"open", "prune0", "closed"} => txn = db
  /\ final => stop /\ pcW \in {"drain", "insert", "drops", "commit", "closed", "dead"}
  /\ pcW \in {"drain", "closed"} => final
  /\ final /\ pcW \in {"insert", "drops", "commit", "closed"} =>
       \A i \in 1..Len(q) : q[i].late

BooksOf(t) ==
  /\ t.parsed = t.seq /\ t.unparsedN = t.useq
  /\ \A d \in Devices : t.dev[d].total = t.inserted[d]

\* While the writer runs, what it will publish is what is in the tables and
\* in the buffers.
WriterBooks ==
  /\ db.seq <= txn.seq /\ db.useq <= txn.useq
  /\ BooksOf(db) /\ BooksOf(txn)
  /\ pcW \notin {"open", "dead"} =>
       /\ counters.parsed = txn.seq /\ counters.unparsed = txn.useq
       /\ \A d \in Devices : devStats[d].total = txn.inserted[d] + CountOf(events, d)

WriterInv == WriterTypeOK /\ WriterFlow /\ WriterBooks /\ Conserved

----------------------------------------------------------------------------
(* The operators *)

LEMMA CountType ==
  ASSUME NEW s, Len(s) \in Nat, NEW d
  PROVE  CountOf(s, d) \in Nat /\ CountOf(<<>>, d) = 0
<1>1. IsFiniteSet(1..Len(s))
  BY IntervalSize
<1>2. IsFiniteSet({i \in 1..Len(s) : s[i].dev = d})
  BY <1>1, FS_Subset
<1>3. {i \in 1..Len(<<>>) : (<<>>)[i].dev = d} = {}
  OBVIOUS
<1> QED BY <1>2, <1>3, FS_CardinalityType, FS_EmptySet DEF CountOf

(* Buffering an event counts it for its device and for no other. *)
LEMMA CountAppend ==
  ASSUME NEW S, NEW s \in Seq(S), NEW x \in S, NEW d
  PROVE  CountOf(Append(s, x), d) = CountOf(s, d) + (IF x.dev = d THEN 1 ELSE 0)
<1> DEFINE A == {i \in 1..Len(s) : s[i].dev = d}
           B == {i \in 1..Len(Append(s, x)) : Append(s, x)[i].dev = d}
<1>1. Len(s) \in Nat /\ Len(s) + 1 \notin A
  OBVIOUS
<1>2. B = IF x.dev = d THEN A \cup {Len(s) + 1} ELSE A
  OBVIOUS
<1>3. IsFiniteSet(A)
  BY <1>1, IntervalSize, FS_Subset
<1>4. Cardinality(A) \in Nat
  BY <1>3, FS_CardinalityType
<1>5. CountOf(s, d) = Cardinality(A) /\ CountOf(Append(s, x), d) = Cardinality(B)
  BY DEF CountOf
<1> HIDE DEF A, B
<1>6. CASE x.dev = d
  <2>1. Cardinality(A \cup {Len(s) + 1}) = Cardinality(A) + 1
    BY <1>1, <1>3, OneMore
  <2> QED BY <2>1, <1>2, <1>5, <1>6
<1>7. CASE x.dev # d
  BY <1>2, <1>4, <1>5, <1>7
<1> QED BY <1>6, <1>7

(* prune deletes rows and nothing else. *)
LEMMA PrunedType ==
  ASSUME NEW t \in DbType
  PROVE  /\ Pruned(t) \in DbType
         /\ Pruned(t).seq = t.seq /\ Pruned(t).useq = t.useq
         /\ Pruned(t).parsed = t.parsed /\ Pruned(t).unparsedN = t.unparsedN
         /\ Pruned(t).dev = t.dev /\ Pruned(t).inserted = t.inserted
<1>1. PICK ev : ev = IF MaxEvents > 0 THEN Newest(Younger(t.events), MaxEvents)
                     ELSE Younger(t.events)
  OBVIOUS
<1>2. PICK un : un = Newest(Younger(t.unparsed), UnparsedCap)
  OBVIOUS
<1>3. ev \subseteq t.events /\ un \subseteq t.unparsed
  BY <1>1, <1>2 DEF Newest, Younger
<1>4. Pruned(t) = [t EXCEPT !.events = ev, !.unparsed = un]
  BY <1>1, <1>2 DEF Pruned
<1> QED BY <1>3, <1>4 DEF DbType

LEMMA NewRowsType ==
  ASSUME NEW s \in Seq(Buffered), NEW n \in Nat
  PROVE  NewRows(s, n) \subseteq TableRow
<1> SUFFICES ASSUME NEW i \in 1..Len(s)
             PROVE  [id |-> n + i, ts |-> s[i].ts, dev |-> s[i].dev] \in TableRow
  BY DEF NewRows
<1>1. s[i] \in Buffered
  OBVIOUS
<1> QED BY <1>1 DEF Buffered, TableRow

----------------------------------------------------------------------------
(* The writer's steps *)

LEMMA WriterNumbers ==
  ASSUME WriterTypeOK
  PROVE  /\ Len(events) \in Nat /\ Len(unparsed) \in Nat /\ Len(q) \in Nat
         /\ txn.seq \in Nat /\ txn.useq \in Nat /\ db.seq \in Nat /\ db.useq \in Nat
         /\ lost \in Nat /\ puts \in Nat
<1>1. db \in DbType /\ txn \in DbType
  BY DEF WriterTypeOK
<1>2. txn.seq \in Nat /\ txn.useq \in Nat /\ db.seq \in Nat /\ db.useq \in Nat
  BY <1>1 DEF DbType
<1> QED BY <1>2 DEF WriterTypeOK, PipelineTypeOK

(* Items move from the queue to the buffers and on to the tables, or are lost. *)
LEMMA MovesConserve ==
  ASSUME WriterTypeOK, Conserved, puts' \in Nat,
         Len(q') \in Nat, Len(events') \in Nat, Len(unparsed') \in Nat,
         txn'.seq \in Nat, txn'.useq \in Nat, lost' \in Nat,
         db'.seq \in Nat, db'.useq \in Nat,
         puts' - puts = (Len(q') - Len(q)) + (Len(events') - Len(events))
           + (Len(unparsed') - Len(unparsed)) + (txn'.seq - txn.seq)
           + (txn'.useq - txn.useq) + (lost' - lost)
  PROVE  Conserved'
<1>1. PICK a \in Nat, b \in Nat, c \in Nat, e \in Nat, f \in Nat, g \in Nat,
           h \in Nat, k \in Nat, m \in Nat :
        /\ a = Len(q) /\ b = Len(events) /\ c = Len(unparsed) /\ e = txn.seq
        /\ f = txn.useq /\ g = db.seq /\ h = db.useq /\ k = lost /\ m = puts
  BY WriterNumbers
<1>2. PICK a2 \in Nat, b2 \in Nat, c2 \in Nat, e2 \in Nat, f2 \in Nat, g2 \in Nat,
           h2 \in Nat, k2 \in Nat, m2 \in Nat :
        /\ a2 = Len(q') /\ b2 = Len(events') /\ c2 = Len(unparsed') /\ e2 = txn'.seq
        /\ f2 = txn'.useq /\ g2 = db'.seq /\ h2 = db'.useq /\ k2 = lost' /\ m2 = puts'
  OBVIOUS
<1>3. m = g + h + (b + c + a + (e + f) - (g + h)) + k
  BY <1>1 DEF Conserved, AtRisk
<1>4. m2 - m = (a2 - a) + (b2 - b) + (c2 - c) + (e2 - e) + (f2 - f) + (k2 - k)
  BY <1>1, <1>2
<1>5. m2 = g2 + h2 + (b2 + c2 + a2 + (e2 + f2) - (g2 + h2)) + k2
  BY <1>3, <1>4
<1> QED BY <1>2, <1>5 DEF Conserved, AtRisk

(* What the other threads do leaves the writer's invariant: they put at most *)
(* one item, and a late one once stop is set.                                *)
LEMMA ArrivalInv ==
  ASSUME WriterInv, UNCHANGED <<writerVars, mainVars>>, PipelineTypeOK',
         stop' \in BOOLEAN, stop => stop',
         \/ q' = q /\ puts' = puts
         \/ \E item \in QItem : /\ q' = Append(q, item) /\ puts' = puts + 1
                                /\ stop => item.late
  PROVE  WriterInv'
<1> USE DEF writerVars, memoryVars, mainVars
<1>1. WriterTypeOK'
  BY DEF WriterInv, WriterTypeOK
<1>2. q \in Seq(QItem)
  BY DEF WriterInv, WriterTypeOK, PipelineTypeOK
<1>3. WriterFlow'
  BY <1>2 DEF WriterInv, WriterFlow
<1>4. WriterBooks'
  <2>1. UNCHANGED <<db, txn, pcW, counters, devStats, events>>
    OBVIOUS
  <2> QED BY <2>1 DEF WriterInv, WriterBooks, BooksOf, CountOf
<1>5. Conserved'
  <2>0. WriterTypeOK /\ Conserved
    BY DEF WriterInv
  <2>1. Len(q') - Len(q) = puts' - puts /\ Len(q') \in Nat /\ puts' \in Nat
    BY <1>2, <2>0, WriterNumbers
  <2>2. UNCHANGED <<events, unparsed, db, txn, lost>>
    OBVIOUS
  <2>3. /\ Len(events) \in Nat /\ Len(unparsed) \in Nat /\ Len(q) \in Nat /\ puts \in Nat
        /\ txn.seq \in Nat /\ txn.useq \in Nat /\ db.seq \in Nat /\ db.useq \in Nat
        /\ lost \in Nat
    BY <2>0, WriterNumbers
  <2> QED BY <2>0, <2>1, <2>2, <2>3, MovesConserve
<1> QED BY <1>1, <1>3, <1>4, <1>5 DEF WriterInv

(* The steps that buffer nothing and write nothing but a prune. *)
LEMMA ControlStepInv ==
  ASSUME WriterInv,
         \/ OpenWriter \/ Prune \/ WriterLoop \/ GetTimeout \/ FlushDue
         \/ FlushNotDue \/ DrainEmpty
  PROVE  WriterInv'
<1> USE DEF memoryVars, mainVars, pipelineVars
<1>0. WriterTypeOK /\ WriterFlow /\ WriterBooks /\ Conserved
  BY DEF WriterInv
<1>1. PICK p \in DbType : p = Pruned(txn)
  BY <1>0, PrunedType DEF WriterTypeOK
<1>2. /\ p.seq = txn.seq /\ p.useq = txn.useq /\ p.parsed = txn.parsed
      /\ p.unparsedN = txn.unparsedN /\ p.dev = txn.dev /\ p.inserted = txn.inserted
  BY <1>0, <1>1, PrunedType DEF WriterTypeOK
<1>3. \/ UNCHANGED <<db, txn>>
      \/ pcW \in {"prune0", "prune"} /\ pcW' = "loop" /\ db' = p /\ txn' = p
  BY <1>1 DEF OpenWriter, Prune, WriterLoop, GetTimeout, FlushDue, FlushNotDue, DrainEmpty
<1>4. UNCHANGED <<events, unparsed, q, puts, lost, stop, drops, wall, alive, died, restarts>>
  BY DEF OpenWriter, Prune, WriterLoop, GetTimeout, FlushDue, FlushNotDue, DrainEmpty
<1>5. \/ UNCHANGED <<counters, devStats>>
      \/ pcW = "open" /\ counters' = [parsed |-> db.parsed, unparsed |-> db.unparsedN]
         /\ devStats' = db.dev
  BY DEF OpenWriter, Prune, WriterLoop, GetTimeout, FlushDue, FlushNotDue, DrainEmpty
<1>6. WriterFlow' /\ WriterTypeOK'
  <2>1. PipelineTypeOK'
    BY <1>0, <1>4 DEF WriterTypeOK, PipelineTypeOK
  <2>2. db' \in DbType /\ txn' \in DbType
    BY <1>0, <1>3 DEF WriterTypeOK
  <2>3. counters' \in [parsed : Nat, unparsed : Nat] /\ devStats' \in Stats
    <3>1. db.parsed \in Nat /\ db.unparsedN \in Nat /\ db.dev \in Stats
      BY <1>0 DEF WriterTypeOK, DbType
    <3> QED BY <3>1, <1>0, <1>5 DEF WriterTypeOK
  <2>4. Len(events) \in Nat /\ Batch \in Nat \ {0} /\ Len(<<>>) = 0 /\ Len(q) \in Nat
    BY <1>0, WriterNumbers, WriterAssumption
  <2>5. /\ pcW' \in {"loop", "get", "prune"} => Len(events) < Batch
        /\ pcW' \in {"open", "prune0", "drops", "commit", "closed"} =>
             events = <<>> /\ unparsed = <<>> /\ txn' = db'
        /\ final' => stop /\ pcW' \in {"drain", "insert", "drops", "commit", "closed", "dead"}
        /\ pcW' \in {"drain", "closed"} => final'
        /\ final' \in BOOLEAN /\ (final' \/ Len(events) <= Batch)
        /\ pcW' \in {"open", "prune0", "loop", "get", "due", "prune", "drain", "insert",
                     "drops", "commit", "closed", "dead"}
    BY <1>0, <2>4 DEF WriterFlow, WriterTypeOK, OpenWriter, Prune, WriterLoop,
       GetTimeout, FlushDue, FlushNotDue, DrainEmpty
  <2>6. final' /\ pcW' \in {"insert", "drops", "commit", "closed"} =>
          \A i \in 1..Len(q) : q[i].late
    <3>1. CASE DrainEmpty
      <4>1. Len(q) = 0
        BY <3>1 DEF DrainEmpty
      <4> QED BY <4>1
    <3>2. CASE ~DrainEmpty
      <4>1. ~(final' /\ pcW' \in {"insert", "drops", "commit", "closed"})
        BY <1>0, <3>2 DEF WriterFlow, OpenWriter, Prune, WriterLoop, GetTimeout,
           FlushDue, FlushNotDue
      <4> QED BY <4>1
    <3> QED BY <3>1, <3>2
  <2> QED BY <1>0, <1>4, <2>1, <2>2, <2>3, <2>5, <2>6 DEF WriterFlow, WriterTypeOK
<1>7. WriterBooks'
  <2>1. db'.seq <= txn'.seq /\ db'.useq <= txn'.useq /\ BooksOf(db') /\ BooksOf(txn')
    <3>1. p.seq \in Nat /\ p.useq \in Nat
      BY <1>1 DEF DbType
    <3>2. BooksOf(p)
      BY <1>0, <1>2 DEF WriterBooks, BooksOf
    <3> QED BY <1>0, <1>3, <3>1, <3>2 DEF WriterBooks
  <2>2. CASE pcW = "open"
    <3>1. txn = db /\ events = <<>> /\ UNCHANGED <<db, txn>> /\ BooksOf(db)
      BY <1>0, <1>3, <2>2 DEF WriterFlow, WriterBooks
    <3>2. OpenWriter
      BY <2>2 DEF OpenWriter, Prune, WriterLoop, GetTimeout, FlushDue, FlushNotDue, DrainEmpty
    <3>3. \A d \in Devices : CountOf(events, d) = 0 /\ db.inserted[d] \in Nat
      <4>1. \A d \in Devices : CountOf(<<>>, d) = 0
        BY CountType
      <4>2. db.inserted \in [Devices -> Nat]
        BY <1>0 DEF WriterTypeOK, DbType
      <4> QED BY <3>1, <4>1, <4>2
    <3>4. counters'.parsed = db.parsed /\ counters'.unparsed = db.unparsedN /\ devStats' = db.dev
      BY <3>2 DEF OpenWriter
    <3>5. \A d \in Devices : devStats'[d].total = txn.inserted[d] + CountOf(events, d)
      BY <3>1, <3>3, <3>4 DEF BooksOf
    <3> QED BY <3>1, <3>4, <3>5, <2>1, <1>4 DEF WriterBooks, BooksOf
  <2>3. CASE pcW # "open"
    <3>1. pcW # "dead" /\ UNCHANGED <<counters, devStats, events>>
      BY <2>3, <1>4, <1>5 DEF OpenWriter, Prune, WriterLoop, GetTimeout, FlushDue,
         FlushNotDue, DrainEmpty
    <3>2. txn'.seq = txn.seq /\ txn'.useq = txn.useq /\ txn'.inserted = txn.inserted
      BY <1>2, <1>3
    <3> QED BY <3>1, <3>2, <2>1, <2>3, <1>0 DEF WriterBooks
  <2> QED BY <2>2, <2>3
<1>8. Conserved'
  <2>1. /\ txn'.seq = txn.seq /\ txn'.useq = txn.useq
        /\ db'.seq \in Nat /\ db'.useq \in Nat
    BY <1>0, <1>1, <1>2, <1>3, WriterNumbers DEF DbType
  <2> QED BY <2>1, <1>0, <1>4, WriterNumbers, MovesConserve
<1> QED BY <1>6, <1>7, <1>8 DEF WriterInv

(* record: the item leaves the queue for its buffer and its device's total. *)
LEMMA RecordStepInv ==
  ASSUME WriterInv, Get \/ Drain
  PROVE  WriterInv'
<1> USE DEF memoryVars, mainVars
<1>0. WriterTypeOK /\ WriterFlow /\ WriterBooks /\ Conserved
  BY DEF WriterInv
<1>1. TakeOne /\ pcW \in {"get", "drain"} /\ pcW' = IF pcW = "get" THEN "due" ELSE "drain"
  BY DEF Get, Drain
<1>2. /\ q # <<>> /\ q' = Tail(q) /\ Record(Head(q))
      /\ UNCHANGED <<drops, wall, puts, stop, final, counters, txn, db, alive, died,
                     restarts, lost>>
  BY <1>1 DEF TakeOne
<1>3. PICK item \in QItem : item = Head(q)
  BY <1>0, <1>2 DEF WriterTypeOK, PipelineTypeOK
<1>4. PICK x \in Buffered : x = [ts |-> item.ts, dev |-> item.dev]
  BY DEF QItem, Buffered
<1>5. \/ /\ events' = Append(events, x) /\ unparsed' = unparsed
         /\ devStats' = [devStats EXCEPT ![x.dev] = [last |-> item.ts, total |-> @.total + 1]]
      \/ /\ unparsed' = Append(unparsed, x) /\ events' = events /\ devStats' = devStats
  BY <1>2, <1>3, <1>4 DEF Record
<1>6. /\ q' \in Seq(QItem) /\ Len(q') = Len(q) - 1 /\ Len(q) \in Nat /\ Len(q') \in Nat
      /\ events \in Seq(Buffered) /\ unparsed \in Seq(Buffered)
  BY <1>0, <1>2 DEF WriterTypeOK, PipelineTypeOK
<1>7. /\ events' \in Seq(Buffered) /\ unparsed' \in Seq(Buffered)
      /\ Len(events) \in Nat /\ Len(events') \in Nat
      /\ Len(unparsed) \in Nat /\ Len(unparsed') \in Nat
      /\ Len(events') + Len(unparsed') = Len(events) + Len(unparsed) + 1
      /\ Len(events') <= Len(events) + 1
  <2>1. ASSUME NEW s \in Seq(Buffered)
        PROVE  Append(s, x) \in Seq(Buffered) /\ Len(Append(s, x)) = Len(s) + 1 /\ Len(s) \in Nat
    OBVIOUS
  <2>2. CASE events' = Append(events, x) /\ unparsed' = unparsed
    BY <1>6, <2>1, <2>2
  <2>3. CASE unparsed' = Append(unparsed, x) /\ events' = events
    BY <1>6, <2>1, <2>3
  <2> QED BY <1>5, <2>2, <2>3
<1>8. devStats' \in Stats
  <2>1. item.ts \in Nat
    BY DEF QItem
  <2> QED BY <1>0, <1>5, <2>1 DEF WriterTypeOK, Stats
<1>9. WriterFlow' /\ WriterTypeOK'
  <2>1. final \/ Len(events') <= Batch
    BY <1>0, <1>1, <1>7, WriterAssumption DEF WriterFlow
  <2>2. PipelineTypeOK'
    BY <1>0, <1>2, <1>6 DEF WriterTypeOK, PipelineTypeOK
  <2>3. WriterTypeOK'
    BY <1>0, <1>1, <1>2, <1>7, <1>8, <2>1, <2>2 DEF WriterTypeOK
  <2> QED BY <1>0, <1>1, <1>2, <2>3 DEF WriterFlow
<1>10. WriterBooks'
  <2>1. /\ counters.parsed = txn.seq /\ counters.unparsed = txn.useq
        /\ \A d \in Devices : devStats[d].total = txn.inserted[d] + CountOf(events, d)
    BY <1>0, <1>1 DEF WriterBooks
  <2>2. ASSUME NEW d \in Devices
        PROVE  devStats'[d].total = txn.inserted[d] + CountOf(events', d)
    <3>1. /\ devStats[d].total = txn.inserted[d] + CountOf(events, d)
          /\ CountOf(events, d) \in Nat /\ txn.inserted[d] \in Nat
      BY <1>0, <1>7, <2>1, CountType DEF WriterTypeOK, DbType
    <3>2. CASE events' = Append(events, x)
               /\ devStats' = [devStats EXCEPT ![x.dev] = [last |-> item.ts, total |-> @.total + 1]]
      <4>1. CountOf(events', d) = CountOf(events, d) + (IF x.dev = d THEN 1 ELSE 0)
        BY <1>6, <3>2, CountAppend
      <4>2. devStats'[d].total = devStats[d].total + (IF x.dev = d THEN 1 ELSE 0)
        <5>1. devStats[d].total \in Nat /\ devStats \in [Devices -> [last : Nat, total : Nat]]
          BY <1>0 DEF WriterTypeOK, Stats
        <5>2. CASE x.dev = d
          BY <3>2, <5>1, <5>2
        <5>3. CASE x.dev # d
          BY <3>2, <5>1, <5>3
        <5> QED BY <5>2, <5>3
      <4> QED BY <3>1, <4>1, <4>2
    <3>3. CASE events' = events /\ devStats' = devStats
      BY <3>1, <3>3
    <3> QED BY <1>5, <3>2, <3>3
  <2> QED BY <1>0, <1>2, <2>1, <2>2 DEF WriterBooks
<1>11. Conserved'
  <2>1. /\ txn.seq \in Nat /\ txn.useq \in Nat /\ db.seq \in Nat /\ db.useq \in Nat
        /\ lost \in Nat /\ puts \in Nat
    BY <1>0, WriterNumbers
  <2> QED BY <1>0, <1>2, <1>6, <1>7, <2>1, MovesConserve
<1> QED BY <1>9, <1>10, <1>11 DEF WriterInv

(* The flush: rows, sequences and counters in one transaction. *)
LEMMA FlushStepInv ==
  ASSUME WriterInv, FlushInsert \/ FlushDrops \/ Commit
  PROVE  WriterInv'
<1> USE DEF memoryVars, mainVars, pipelineVars
<1>0. WriterTypeOK /\ WriterFlow /\ WriterBooks /\ Conserved
  BY DEF WriterInv
<1>1. txn \in DbType /\ db \in DbType
  BY <1>0 DEF WriterTypeOK
<1>2. PipelineTypeOK'
  BY <1>0 DEF WriterTypeOK, PipelineTypeOK, FlushInsert, FlushDrops, Commit
<1>3. /\ Len(events) \in Nat /\ Len(unparsed) \in Nat /\ Len(q) \in Nat
      /\ txn.seq \in Nat /\ txn.useq \in Nat /\ db.seq \in Nat /\ db.useq \in Nat
      /\ lost \in Nat /\ puts \in Nat
  BY <1>0, WriterNumbers
<1>4. CASE FlushInsert
  <2> USE <1>4 DEF FlushInsert
  <2>1. PICK rows \in SUBSET TableRow, urows \in SUBSET TableRow,
            ins \in {[d \in Devices |-> txn.inserted[d] + CountOf(events, d)]} :
          /\ rows = txn.events \cup NewRows(events, txn.seq)
          /\ urows = txn.unparsed \cup NewRows(unparsed, txn.useq)
          /\ ins = [d \in Devices |-> txn.inserted[d] + CountOf(events, d)]
    BY <1>0, <1>1, <1>3, NewRowsType DEF WriterTypeOK, DbType
  <2>2. ins \in [Devices -> Nat]
    <3>1. \A d \in Devices : txn.inserted[d] \in Nat /\ CountOf(events, d) \in Nat
      BY <1>1, <1>3, CountType DEF DbType
    <3> QED BY <2>1, <3>1
  <2>3. /\ counters.parsed = txn.seq /\ counters.unparsed = txn.useq
        /\ \A d \in Devices : devStats[d].total = ins[d]
    BY <1>0, <2>1 DEF WriterBooks
  <2>4. PICK n \in Nat, u \in Nat : n = txn.seq + Len(events) /\ u = txn.useq + Len(unparsed)
    BY <1>3
  <2>5. counters' = [parsed |-> n, unparsed |-> u]
    BY <2>3, <2>4
  <2>6. txn' = [txn EXCEPT !.events = rows, !.seq = n, !.unparsed = urows, !.useq = u,
                  !.parsed = n, !.unparsedN = u, !.dev = devStats, !.inserted = ins]
    <3>1. txn' = [txn EXCEPT
            !.events = txn.events \cup NewRows(events, txn.seq),
            !.seq = txn.seq + Len(events),
            !.unparsed = txn.unparsed \cup NewRows(unparsed, txn.useq),
            !.useq = txn.useq + Len(unparsed),
            !.parsed = counters'.parsed, !.unparsedN = counters'.unparsed,
            !.dev = devStats,
            !.inserted = [d \in Devices |-> txn.inserted[d] + CountOf(events, d)]]
      BY Zenon
    <3>2. counters'.parsed = n /\ counters'.unparsed = u
      BY <2>5
    <3> QED BY <2>1, <2>4, <3>1, <3>2, Zenon
  <2>7. txn' \in DbType /\ txn'.seq = n /\ txn'.useq = u /\ txn'.parsed = n
        /\ txn'.unparsedN = u /\ txn'.dev = devStats /\ txn'.inserted = ins
    <3>1. devStats \in Stats
      BY <1>0 DEF WriterTypeOK
    <3>2. rows \in SUBSET TableRow /\ urows \in SUBSET TableRow /\ n \in Nat /\ u \in Nat
      OBVIOUS
    <3> HIDE <1>4 DEF FlushInsert
    <3> QED BY <1>1, <2>2, <2>6, <3>1, <3>2 DEF DbType
  <2>8. events' = <<>> /\ unparsed' = <<>> /\ Len(<<>>) = 0
    OBVIOUS
  <2>9. WriterTypeOK'
    <3>1. counters' \in [parsed : Nat, unparsed : Nat]
      BY <2>5
    <3>2. <<>> \in Seq(Buffered)
      OBVIOUS
    <3> QED BY <1>0, <1>2, <2>7, <2>8, <3>1, <3>2, WriterAssumption DEF WriterTypeOK
  <2>10. WriterFlow'
    BY <1>0, <2>8 DEF WriterFlow
  <2>11. WriterBooks'
    <3>1. db' = db /\ db.seq <= txn'.seq /\ db.useq <= txn'.useq
      <4>1. db.seq <= txn.seq /\ db.useq <= txn.useq /\ db' = db
        BY <1>0 DEF WriterBooks
      <4>2. txn'.seq = txn.seq + Len(events) /\ txn'.useq = txn.useq + Len(unparsed)
        BY <2>4, <2>7
      <4> HIDE <1>4 DEF FlushInsert
      <4> QED BY <1>3, <4>1, <4>2
    <3>2. \A d \in Devices : CountOf(events', d) = 0 /\ ins[d] \in Nat
      BY <2>2, <2>8, CountType
    <3> QED BY <1>0, <2>3, <2>5, <2>7, <3>1, <3>2 DEF WriterBooks, BooksOf
  <2>12. Conserved'
    <3>1. UNCHANGED <<q, puts, lost, db>>
      OBVIOUS
    <3>2. /\ Len(events') = 0 /\ Len(unparsed') = 0 /\ Len(q') = Len(q) /\ puts' = puts
          /\ lost' = lost /\ db' = db /\ txn'.seq = txn.seq + Len(events)
          /\ txn'.useq = txn.useq + Len(unparsed)
      BY <2>4, <2>7, <2>8, <3>1
    <3> HIDE <1>4 DEF FlushInsert
    <3>3. /\ puts' - puts = 0 /\ lost' - lost = 0 /\ Len(q') - Len(q) = 0
          /\ Len(events') - Len(events) = -Len(events)
          /\ Len(unparsed') - Len(unparsed) = -Len(unparsed)
          /\ txn'.seq - txn.seq = Len(events) /\ txn'.useq - txn.useq = Len(unparsed)
      BY <1>3, <3>2
    <3>4. /\ puts' \in Nat /\ lost' \in Nat /\ Len(q') \in Nat /\ Len(events') \in Nat
          /\ Len(unparsed') \in Nat /\ txn'.seq \in Nat /\ txn'.useq \in Nat
          /\ db'.seq \in Nat /\ db'.useq \in Nat
      BY <1>3, <3>2
    <3>5. puts' - puts = (Len(q') - Len(q)) + (Len(events') - Len(events))
            + (Len(unparsed') - Len(unparsed)) + (txn'.seq - txn.seq)
            + (txn'.useq - txn.useq) + (lost' - lost)
      BY <1>3, <3>3
    <3> QED BY <1>0, <3>4, <3>5, MovesConserve DEF WriterInv
  <2> QED BY <2>9, <2>10, <2>11, <2>12 DEF WriterInv
<1>5. CASE FlushDrops
  <2> USE <1>5 DEF FlushDrops
  <2>1. /\ txn' \in DbType /\ txn'.seq = txn.seq /\ txn'.useq = txn.useq
        /\ txn'.parsed = txn.parsed /\ txn'.unparsedN = txn.unparsedN
        /\ txn'.dev = txn.dev /\ txn'.inserted = txn.inserted
    BY <1>0, <1>1 DEF WriterTypeOK, PipelineTypeOK, DbType
  <2>2. WriterTypeOK'
    BY <1>0, <1>2, <2>1 DEF WriterTypeOK
  <2>3. WriterFlow'
    BY <1>0 DEF WriterFlow
  <2>4. WriterBooks'
    <3>1. UNCHANGED <<db, counters, devStats, events>>
      OBVIOUS
    <3> QED BY <1>0, <2>1, <3>1 DEF WriterBooks, BooksOf
  <2>5. Conserved'
    <3>1. UNCHANGED <<q, puts, lost, db, events, unparsed>>
      OBVIOUS
    <3> QED BY <1>0, <1>3, <2>1, <3>1, MovesConserve
  <2> QED BY <2>2, <2>3, <2>4, <2>5 DEF WriterInv
<1>6. CASE Commit
  <2> USE <1>6 DEF Commit
  <2>1. WriterTypeOK'
    BY <1>0, <1>2 DEF WriterTypeOK
  <2>2. WriterFlow'
    BY <1>0, WriterAssumption DEF WriterFlow
  <2>3. WriterBooks'
    BY <1>0, <1>3 DEF WriterBooks
  <2>4. Conserved'
    <3>1. UNCHANGED <<q, puts, lost, txn, events, unparsed>> /\ db' = txn
      OBVIOUS
    <3> QED BY <1>0, <1>3, <3>1, MovesConserve
  <2> QED BY <2>1, <2>2, <2>3, <2>4 DEF WriterInv
<1> QED BY <1>4, <1>5, <1>6

(* An error, a crash and a restart lose what they are said to lose. *)
LEMMA FaultStepInv ==
  ASSUME WriterInv, WriterError \/ MainDetects \/ MainExits \/ Crash \/ Restart
  PROVE  WriterInv'
<1> USE DEF memoryVars, mainVars, pipelineVars, writerVars
<1>0. WriterTypeOK /\ WriterFlow /\ WriterBooks /\ Conserved
  BY DEF WriterInv
<1>1. /\ Len(events) \in Nat /\ Len(unparsed) \in Nat /\ Len(q) \in Nat
      /\ txn.seq \in Nat /\ txn.useq \in Nat /\ db.seq \in Nat /\ db.useq \in Nat
      /\ lost \in Nat /\ puts \in Nat /\ db.seq <= txn.seq /\ db.useq <= txn.useq
  BY <1>0, WriterNumbers DEF WriterBooks
<1>2. Len(<<>>) = 0 /\ <<>> \in Seq(Buffered) /\ <<>> \in Seq(QItem)
  OBVIOUS
<1>3. PICK a \in Nat, b \in Nat, c \in Nat, e \in Nat, f \in Nat, g \in Nat,
           h \in Nat, k \in Nat, n \in Nat :
        /\ a = Len(q) /\ b = Len(events) /\ c = Len(unparsed) /\ e = txn.seq
        /\ f = txn.useq /\ g = db.seq /\ h = db.useq /\ k = lost /\ n = restarts
  BY <1>0, <1>1 DEF WriterTypeOK
<1>4. PICK r \in Nat : r = b + c + a + (e + f) - (g + h) /\ a <= r
  <2>1. g <= e /\ h <= f
    BY <1>1, <1>3
  <2> QED BY <2>1
<1>5. r = AtRisk
  BY <1>3, <1>4 DEF AtRisk
<1>6. /\ k + r - a \in Nat
       /\ 0 = 0 + (0 - b) + (0 - c) + (g - e) + (h - f) + ((k + r - a) - k)
       /\ 0 = (0 - a) + (0 - b) + (0 - c) + (g - e) + (h - f) + ((k + r) - k)
  BY <1>4
<1>7. /\ a = Len(q) /\ b = Len(events) /\ c = Len(unparsed) /\ e = txn.seq
      /\ f = txn.useq /\ g = db.seq /\ h = db.useq /\ k = lost /\ n = restarts
      /\ r = AtRisk /\ k + r - a \in Nat
      /\ 0 = 0 + (0 - b) + (0 - c) + (g - e) + (h - f) + ((k + r - a) - k)
      /\ 0 = (0 - a) + (0 - b) + (0 - c) + (g - e) + (h - f) + ((k + r) - k)
  BY <1>3, <1>5, <1>6
<1>8. CASE WriterError
  <2> USE <1>8 DEF WriterError
  <2>1. lost' = k + r - a /\ lost' \in Nat
    <3>1. lost' = k + r - a
      BY <1>7
    <3> QED BY <1>7, <3>1
  <2>2. WriterTypeOK'
    BY <1>0, <1>2, <2>1, WriterAssumption DEF WriterTypeOK, PipelineTypeOK
  <2>3. WriterFlow'
    BY <1>0 DEF WriterFlow
  <2>4. WriterBooks'
    BY <1>0, <1>1 DEF WriterBooks
  <2>5. Conserved'
    <3>1. UNCHANGED <<q, puts, db>> /\ txn' = db /\ Len(events') = 0 /\ Len(unparsed') = 0
      BY <1>2
    <3>2. 0 = 0 + (0 - b) + (0 - c) + (g - e) + (h - f) + ((k + r - a) - k)
      BY <1>7
    <3> HIDE <1>8 DEF WriterError
    <3>3. puts' - puts = (Len(q') - Len(q)) + (Len(events') - Len(events))
           + (Len(unparsed') - Len(unparsed)) + (txn'.seq - txn.seq)
           + (txn'.useq - txn.useq) + (lost' - lost)
      <4>1. puts' - puts = 0 /\ Len(q') - Len(q) = 0
        BY <1>1, <3>1
      <4> QED BY <1>7, <2>1, <3>1, <3>2, <4>1
    <3> QED BY <1>0, <1>1, <1>2, <2>1, <3>1, <3>3, MovesConserve
  <2> QED BY <2>2, <2>3, <2>4, <2>5 DEF WriterInv
<1>9. CASE MainDetects \/ MainExits \/ Crash
  <2> USE <1>9 DEF MainDetects, MainExits, Crash
  <2>1. /\ UNCHANGED <<final, events, unparsed, counters, devStats, txn, db, q, drops, wall,
                       puts, restarts, lost>>
        /\ pcW' \in {pcW, "dead"} /\ stop' \in {stop, TRUE} /\ alive' \in BOOLEAN
        /\ died' \in BOOLEAN
    BY <1>0 DEF WriterTypeOK
  <2>2. WriterTypeOK'
    BY <1>0, <2>1 DEF WriterTypeOK, PipelineTypeOK
  <2>3. WriterFlow'
    BY <1>0, <2>1 DEF WriterFlow
  <2>4. WriterBooks'
    BY <1>0, <2>1 DEF WriterBooks
  <2>5. Conserved'
    BY <1>0, <2>1 DEF Conserved, AtRisk
  <2> QED BY <2>2, <2>3, <2>4, <2>5 DEF WriterInv
<1>10. CASE Restart
  <2> USE <1>10 DEF Restart
  <2>1. lost' = k + r /\ lost' \in Nat /\ restarts' \in Nat
    <3>1. lost' = k + r /\ restarts' = n + 1
      BY <1>7
    <3> QED BY <3>1
  <2>2. NoStats \in Stats
    BY DEF NoStats, Stats
  <2>3. WriterTypeOK'
    <3>1. /\ q' \in Seq(QItem) /\ events' \in Seq(Buffered) /\ unparsed' \in Seq(Buffered)
          /\ Len(events') = 0
      BY <1>2
    <3>2. PipelineTypeOK'
      BY <1>0, <3>1 DEF WriterTypeOK, PipelineTypeOK
    <3>4. final' \/ Len(events') <= Batch
      BY <3>1, WriterAssumption
    <3>3. /\ pcW' = "open" /\ stop' = FALSE /\ final' = FALSE /\ alive' = TRUE
          /\ died' = FALSE /\ counters' \in [parsed : Nat, unparsed : Nat]
          /\ devStats' \in Stats /\ db' = db /\ txn' = db
      BY <2>2
    <3> HIDE <1>10 DEF Restart
    <3> QED BY <1>0, <2>1, <3>1, <3>2, <3>3, <3>4 DEF WriterTypeOK
  <2>4. WriterFlow'
    BY <1>0 DEF WriterFlow
  <2>5. WriterBooks'
    BY <1>0, <1>1 DEF WriterBooks
  <2>6. Conserved'
    <3>1. /\ UNCHANGED <<puts, db>> /\ txn' = db /\ Len(events') = 0 /\ Len(unparsed') = 0
          /\ Len(q') = 0
      BY <1>2
    <3>2. 0 = (0 - a) + (0 - b) + (0 - c) + (g - e) + (h - f) + ((k + r) - k)
      BY <1>7
    <3> HIDE <1>10 DEF Restart
    <3>3. puts' - puts = (Len(q') - Len(q)) + (Len(events') - Len(events))
           + (Len(unparsed') - Len(unparsed)) + (txn'.seq - txn.seq)
           + (txn'.useq - txn.useq) + (lost' - lost)
      <4>1. puts' - puts = 0
        BY <1>1, <3>1
      <4> QED BY <1>7, <2>1, <3>1, <3>2, <4>1
    <3> QED BY <1>0, <1>1, <1>2, <2>1, <3>1, <3>3, MovesConserve
  <2> QED BY <2>3, <2>4, <2>5, <2>6 DEF WriterInv
<1> QED BY <1>8, <1>9, <1>10

(* A Put is an arrival: the item is queued, late if stop is set, or counted. *)
LEMMA PutArrives ==
  ASSUME PipelineTypeOK, NEW d \in Devices, NEW tag \in {"ev", "un"}, NEW n \in Nat,
         stop \in BOOLEAN, Put(ItemOf(d, tag, n))
  PROVE  \/ q' = q /\ puts' = puts
         \/ \E item \in QItem : /\ q' = Append(q, item) /\ puts' = puts + 1
                                /\ stop => item.late
<1>1. ItemOf(d, tag, n) \in QItem /\ (stop => ItemOf(d, tag, n).late)
  BY DEF ItemOf, QItem
<1> HIDE DEF ItemOf
<1> QED BY <1>1 DEF Put

LEMMA ArriveInv ==
  ASSUME WriterInv,
         \/ Arrive
         \/ WallTick /\ UNCHANGED <<stop, writerVars, mainVars>>
         \/ OnSignal /\ UNCHANGED <<pipelineVars, writerVars, mainVars>>
  PROVE  WriterInv'
<1>0. PipelineTypeOK /\ stop \in BOOLEAN
  BY DEF WriterInv, WriterTypeOK
<1>1. CASE Arrive
  <2>1. PICK d \in Devices, tag \in {"ev", "un"}, ts \in 0..wall : Put(ItemOf(d, tag, ts))
    BY <1>1 DEF Arrive
  <2>2. ts \in Nat /\ UNCHANGED <<wall, stop, writerVars, mainVars>>
    BY <1>0, <1>1 DEF Arrive, PipelineTypeOK
  <2>3. PipelineTypeOK'
    <3>1. ItemOf(d, tag, ts) \in QItem
      BY <1>0, <2>2 DEF ItemOf, QItem
    <3>2. PICK item \in QItem : item = ItemOf(d, tag, ts)
      BY <3>1
    <3>3. /\ q \in Seq(QItem) /\ puts \in Nat /\ wall' = wall /\ wall \in Nat
          /\ drops \in [n : Nat, ignored : Nat, rejected : Nat]
      BY <1>0, <2>2 DEF PipelineTypeOK
    <3>4. CASE q' = Append(q, item) /\ puts' = puts + 1 /\ drops' = drops
      BY <3>3, <3>4 DEF PipelineTypeOK
    <3>5. CASE drops' = [drops EXCEPT !.n = @ + 1] /\ q' = q /\ puts' = puts
      BY <3>3, <3>5 DEF PipelineTypeOK
    <3> QED BY <2>1, <3>2, <3>4, <3>5 DEF Put
  <2> QED BY <1>0, <2>1, <2>2, <2>3, PutArrives, ArrivalInv
<1>2. CASE WallTick /\ UNCHANGED <<stop, writerVars, mainVars>>
  <2>1. PipelineTypeOK' /\ q' = q /\ puts' = puts
    BY <1>0, <1>2 DEF WallTick, PipelineTypeOK
  <2> QED BY <1>0, <1>2, <2>1, ArrivalInv
<1>3. CASE OnSignal /\ UNCHANGED <<pipelineVars, writerVars, mainVars>>
  <2>1. PipelineTypeOK' /\ q' = q /\ puts' = puts /\ stop' = TRUE
    BY <1>0, <1>3 DEF OnSignal, PipelineTypeOK, pipelineVars
  <2> QED BY <1>0, <1>3, <2>1, ArrivalInv
<1> QED BY <1>1, <1>2, <1>3

LEMMA WriterStarts ==
  ASSUME PipelineInit, stop = FALSE, WriterInit, MainInit
  PROVE  WriterInv
<1> USE DEF PipelineInit, WriterInit, MainInit
<1>1. EmptyDb \in DbType /\ EmptyDb.seq = 0 /\ EmptyDb.useq = 0 /\ BooksOf(EmptyDb)
  BY DEF EmptyDb, DbType, NoStats, Stats, BooksOf
<1>2. /\ <<>> \in Seq(QItem) /\ <<>> \in Seq(Buffered) /\ Len(<<>>) = 0
  OBVIOUS
<1>3. NoStats \in Stats
  BY DEF NoStats, Stats
<1>4. WriterTypeOK
  <2>1. PipelineTypeOK
    BY <1>2 DEF PipelineTypeOK
  <2>2. counters \in [parsed : Nat, unparsed : Nat]
    OBVIOUS
  <2>3. Len(events) <= Batch /\ events \in Seq(Buffered) /\ unparsed \in Seq(Buffered)
    BY <1>2, WriterAssumption
  <2>4. db \in DbType /\ txn \in DbType /\ devStats \in Stats
    BY <1>1, <1>3
  <2> QED BY <2>1, <2>2, <2>3, <2>4 DEF WriterTypeOK
<1>5. WriterFlow /\ WriterBooks
  BY <1>1 DEF WriterFlow, WriterBooks
<1>6. Conserved
  BY <1>1, <1>2 DEF Conserved, AtRisk
<1> QED BY <1>4, <1>5, <1>6 DEF WriterInv

LEMMA WriterStepInv == WriterInv /\ [WriterNext]_allWriterVars => WriterInv'
<1> SUFFICES ASSUME WriterInv, [WriterNext]_allWriterVars PROVE WriterInv'
  OBVIOUS
<1>1. CASE UNCHANGED allWriterVars
  <2>1. UNCHANGED <<writerVars, mainVars>> /\ q' = q /\ puts' = puts /\ stop' = stop
    BY <1>1 DEF allWriterVars, pipelineVars
  <2>2. PipelineTypeOK' /\ stop' \in BOOLEAN
    BY <1>1 DEF allWriterVars, pipelineVars, WriterInv, WriterTypeOK, PipelineTypeOK
  <2> QED BY <2>1, <2>2, ArrivalInv
<1>2. CASE WriterStep \/ WriterError \/ MainDetects \/ MainExits \/ Crash \/ Restart
  BY <1>2, ControlStepInv, RecordStepInv, FlushStepInv, FaultStepInv DEF WriterStep
<1>3. CASE Arrive \/ (alive /\ WallTick /\ UNCHANGED <<stop, writerVars, mainVars>>)
           \/ (alive /\ OnSignal /\ UNCHANGED <<pipelineVars, writerVars, mainVars>>)
  BY <1>3, ArriveInv
<1> QED BY <1>1, <1>2, <1>3 DEF WriterNext

LEMMA WriterInvHolds == WriterSpec => []WriterInv
<1>1. ProcessInit => WriterInv
  BY WriterStarts DEF ProcessInit
<1> QED BY <1>1, WriterStepInv, PTL DEF WriterSpec

(* writer.py, with main.py and store.py, for any number of devices, any      *)
(* batch and retention, and any number of crashes and restarts: the variables *)
(* keep their types, and the event buffer never outgrows a batch before the   *)
(* final drain.                                                               *)
THEOREM WriterTypes == WriterSpec => []WriterTypeOK
<1>1. WriterInv => WriterTypeOK
  BY DEF WriterInv
<1> QED BY <1>1, WriterInvHolds, PTL

(* writer.py:35-63.  Whenever a crash strikes, the counters it leaves agree  *)
(* with the rows ever inserted, per device too, across all restarts.         *)
THEOREM CountersMatchRows == WriterSpec => []Books
<1>1. WriterInv => Books
  BY DEF WriterInv, WriterBooks, BooksOf, Books
<1> QED BY <1>1, WriterInvHolds, PTL

(* writer.py:5.  However the stop fell between the writer's steps and the    *)
(* listeners' puts, a writer that stopped cleanly has committed all that was *)
(* queued before.                                                            *)
THEOREM StopsClean == WriterSpec => []CleanStop
<1>1. WriterInv => CleanStop
  BY DEF WriterInv, WriterFlow, CleanStop
<1> QED BY <1>1, WriterInvHolds, PTL

(* No flush, drain, error, crash or restart drops an item unaccounted for or *)
(* stores one twice.                                                         *)
THEOREM NothingUnaccounted == WriterSpec => []Conserved
<1>1. WriterInv => Conserved
  BY DEF WriterInv
<1> QED BY <1>1, WriterInvHolds, PTL

----------------------------------------------------------------------------
(* The whole collector *)

(* Whatever the writer and main do, the listeners see an item taken, a stop, *)
(* or nothing.                                                               *)
LEMMA WriterIsTake ==
  ASSUME WriterStep \/ WriterError \/ MainDetects \/ MainExits,
         UNCHANGED <<sourcesVars, listenerVars>>
  PROVE  [ListenersNext]_collectVars
<1>1. CASE Get \/ Drain
  <2>1. Take
    BY <1>1 DEF Get, Drain, TakeOne, Take, mainVars
  <2> QED BY <2>1 DEF ListenersNext
<1>2. CASE MainDetects
  <2>1. OnSignal /\ UNCHANGED <<sourcesVars, pipelineVars, listenerVars>>
    BY <1>2 DEF MainDetects, OnSignal
  <2> QED BY <2>1 DEF ListenersNext, CollectNext
<1>3. CASE ~(Get \/ Drain) /\ ~MainDetects
  <2>1. UNCHANGED <<stop, pipelineVars>>
    BY <1>3 DEF WriterStep, OpenWriter, Prune, WriterLoop, GetTimeout, FlushDue,
       FlushNotDue, DrainEmpty, FlushInsert, FlushDrops, Commit, WriterError, MainExits
  <2> QED BY <2>1 DEF collectVars
<1> QED BY <1>1, <1>2, <1>3

(* main.py's threads.  What ListenerProofs proves of the listeners with a    *)
(* writer that just takes items is true with the real one: the whole         *)
(* collector implements the listeners' specification.                        *)
THEOREM CollectorImplementsListeners == CollectorSpec => ImplementsListeners
<1>1. CollectorInit => ListenersInit
  BY DEF CollectorInit
<1>2. [CollectorNext]_collectorVars => [ListenersNext]_collectVars
  <2> SUFFICES ASSUME [CollectorNext]_collectorVars PROVE [ListenersNext]_collectVars
    OBVIOUS
  <2>1. CASE alive /\ CollectNext /\ UNCHANGED <<writerVars, mainVars>>
    BY <2>1 DEF ListenersNext
  <2>2. CASE /\ WriterStep \/ WriterError \/ MainDetects \/ MainExits
             /\ UNCHANGED <<sourcesVars, listenerVars>>
    BY <2>2, WriterIsTake
  <2>3. CASE UNCHANGED collectorVars
    BY <2>3 DEF collectorVars, allWriterVars, collectVars
  <2> QED BY <2>1, <2>2, <2>3 DEF CollectorNext
<1> QED BY <1>1, <1>2, PTL DEF CollectorSpec, ListenersSpec, ImplementsListeners

(* A listener puts at most one item, and marks it late once stop is set. *)
LEMMA ListenerArrives ==
  ASSUME ListenerTypeOK, CollectNext
  PROVE  /\ stop => stop'
         /\ \/ q' = q /\ puts' = puts
            \/ \E item \in QItem : /\ q' = Append(q, item) /\ puts' = puts + 1
                                   /\ stop => item.late
<1>0. /\ ThreadsTypeOK /\ PipelineTypeOK /\ stop \in BOOLEAN /\ wall \in Nat
  BY DEF ListenerTypeOK, SourcesTypeOK, PipelineTypeOK
<1>1. ASSUME NEW d \in Devices, NEW a, NEW t, NEW n \in Nat, Ingest(d, a, t, n)
      PROVE  \/ q' = q /\ puts' = puts
             \/ \E item \in QItem : /\ q' = Append(q, item) /\ puts' = puts + 1
                                    /\ stop => item.late
  <2>1. \/ Put(ItemOf(d, "ev", n)) \/ Put(ItemOf(d, "un", n)) \/ UNCHANGED <<q, puts>>
    BY <1>1 DEF Ingest
  <2>2. ASSUME NEW tag \in {"ev", "un"}, Put(ItemOf(d, tag, n))
        PROVE  \/ q' = q /\ puts' = puts
               \/ \E item \in QItem : /\ q' = Append(q, item) /\ puts' = puts + 1
                                      /\ stop => item.late
    BY <1>0, <2>2, PutArrives
  <2> QED BY <2>1, <2>2
<1>2. ASSUME NEW d \in Devices, Replay(d)
      PROVE  \E a, t : \E n \in Nat : Ingest(d, a, t, n) /\ stop' = stop
  <2>1. Head(out[d]) \in HeldItems
    BY <1>0, <1>2 DEF ThreadsTypeOK, Replay
  <2>2. Head(out[d]).ts \in Nat
    BY <2>1 DEF HeldItems
  <2> QED BY <1>2, <2>2 DEF Replay
<1>3. ASSUME NEW d \in Devices, IngestNow(d)
      PROVE  \E a, t : \E n \in Nat : Ingest(d, a, t, n) /\ stop' = stop
  BY <1>0, <1>3 DEF IngestNow
<1>4. ASSUME NEW d \in Devices, ListenerStep(d), ~Replay(d), ~IngestNow(d)
      PROVE  UNCHANGED <<q, puts>> /\ stop' \in {stop, TRUE}
  BY <1>4 DEF ListenerStep, Bind, BindFails, LoopTop, Recv, RecvTimeout, CheckGeneration,
     Reread, Examine, Released, Correct, Decide, Reject, Hold, pipelineVars
<1>5. CASE \E d \in Devices : ListenerStep(d)
  BY <1>1, <1>2, <1>3, <1>4, <1>5
<1>6. CASE ~\E d \in Devices : ListenerStep(d)
  BY <1>6 DEF CollectNext, WallTick, OnSignal, pipelineVars
<1> QED BY <1>5, <1>6

LEMMA CollectorStepInv ==
  ASSUME WriterInv, ListenerTypeOK, ListenerTypeOK', [CollectorNext]_collectorVars
  PROVE  WriterInv'
<1>1. PipelineTypeOK' /\ stop' \in BOOLEAN
  BY DEF ListenerTypeOK, SourcesTypeOK
<1>2. CASE alive /\ CollectNext /\ UNCHANGED <<writerVars, mainVars>>
  BY <1>1, <1>2, ListenerArrives, ArrivalInv
<1>3. CASE WriterStep \/ WriterError \/ MainDetects \/ MainExits
  BY <1>3, WriterStepInv DEF WriterNext
<1>4. CASE UNCHANGED collectorVars
  <2>1. UNCHANGED <<writerVars, mainVars>> /\ q' = q /\ puts' = puts /\ stop' = stop
    BY <1>4 DEF collectorVars, allWriterVars, pipelineVars
  <2> QED BY <1>1, <2>1, ArrivalInv
<1> QED BY <1>2, <1>3, <1>4 DEF CollectorNext

(* From the socket to the table: however the listeners, the resolver, the    *)
(* writer and main interleave, every datagram received is in one place.      *)
THEOREM SocketToTable == CollectorSpec => []EndToEnd
<1>1. CollectorSpec => [](ListenerTypeOK /\ Ledger)
  BY CollectorImplementsListeners, TypeCorrect, LedgerBalances, PTL DEF ImplementsListeners
<1>2. CollectorInit => WriterInv
  BY WriterStarts DEF CollectorInit, ListenersInit
<1>3. WriterInv /\ ListenerTypeOK /\ Ledger => EndToEnd
  <2> SUFFICES ASSUME WriterInv, ListenerTypeOK, Ledger PROVE EndToEnd
    OBVIOUS
  <2>1. PICK a \in Nat, b \in Nat, c \in Nat, e \in Nat, f \in Nat, g \in Nat,
             h \in Nat, k \in Nat, m \in Nat :
          /\ a = Len(q) /\ b = Len(events) /\ c = Len(unparsed) /\ e = txn.seq
          /\ f = txn.useq /\ g = db.seq /\ h = db.useq /\ k = lost /\ m = puts
    BY WriterNumbers DEF WriterInv
  <2>2. PICK r \in Int : r = AtRisk /\ m = g + h + r + k
    <3>1. PICK r \in Int : r = b + c + a + (e + f) - (g + h)
      OBVIOUS
    <3> QED BY <2>1, <3>1 DEF WriterInv, Conserved, AtRisk
  <2>3. PICK n \in Nat, i \in Nat, j \in Nat :
          n = drops.n /\ i = drops.ignored /\ j = drops.rejected
    BY DEF ListenerTypeOK, PipelineTypeOK
  <2>4. PICK w \in Nat : w = Cardinality(InHand)
    <3>1. IsFiniteSet(InHand)
      BY DevicesAssumption, FS_Subset DEF InHand
    <3> QED BY <3>1, FS_CardinalityType
  <2>5. received + Tally(credit, Devices) = m + n + i + j + w
    BY <2>1, <2>3, <2>4 DEF Ledger
  <2>6. received + Tally(credit, Devices) = g + h + r + k + n + i + j + w
    BY <2>2, <2>5
  <2> QED BY <2>1, <2>2, <2>3, <2>4, <2>6 DEF EndToEnd
<1>4. WriterInv /\ (ListenerTypeOK /\ Ledger) /\ (ListenerTypeOK /\ Ledger)'
        /\ [CollectorNext]_collectorVars => WriterInv'
  BY CollectorStepInv
<1> QED BY <1>1, <1>2, <1>3, <1>4, PTL DEF CollectorSpec

=============================================================================
