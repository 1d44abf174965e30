------------------------------- MODULE Writer -------------------------------
(***************************************************************************)
(* writer.run, the single thread that owns the event database, with the    *)
(* parts of main.py that watch it and of store.py that it calls, across    *)
(* crashes and restarts of the process.                                    *)
(*                                                                         *)
(* `db` is what a crash leaves (SQLite commits atomically), `txn` what the *)
(* writer's connection sees.  Any call into SQLite may raise: the thread   *)
(* dies, its transaction is rolled back, and main ends the process.        *)
(***************************************************************************)
EXTENDS Pipeline, FiniteSetsExt

CONSTANTS
  Retention,    \* retention_days, in seconds
  MaxEvents,    \* max_events, 0 for no cap
  UnparsedCap,  \* prune's unparsed_cap
  Batch,        \* events that force a flush (2000)
  MaxPuts,      \* bound: items the listeners put
  MaxRestarts   \* bound: process restarts

ASSUME WriterAssumption ==
  /\ Retention \in Nat /\ MaxEvents \in Nat /\ UnparsedCap \in Nat
  /\ Batch \in Nat \ {0} /\ MaxPuts \in Nat /\ MaxRestarts \in Nat

VARIABLES
  pcW,       \* where the writer thread is
  final,     \* it is in the final drain
  events,    \* buffered events, [ts, dev] each
  unparsed,  \* buffered unparsed lines
  counters,  \* {"parsed", "unparsed"}
  devStats,  \* `dev`: last_seen and total per device
  txn,       \* the database as the writer's connection sees it
  db,        \* the database as committed
  alive,     \* the process runs
  died,      \* main's writer_died
  restarts,  \* history: restarts so far
  lost       \* history: queued items a crash or a dead writer lost

memoryVars == <<final, events, unparsed, counters, devStats>>
writerVars == <<pcW, memoryVars, txn, db>>
mainVars == <<alive, died, restarts, lost>>
allWriterVars == <<pipelineVars, stop, writerVars, mainVars>>

NoStats == [d \in Devices |-> [last |-> 0, total |-> 0]]

\* The tables: rows, the AUTOINCREMENT sequences, and the meta values.
\* `inserted` (history) counts the rows ever inserted for each device.
EmptyDb ==
  [events |-> {}, seq |-> 0, unparsed |-> {}, useq |-> 0,
   parsed |-> 0, unparsedN |-> 0, dev |-> NoStats,
   drops |-> [n |-> 0, ignored |-> 0, rejected |-> 0],
   inserted |-> [d \in Devices |-> 0]]

----------------------------------------------------------------------------
(* store.py *)

\* insert_events, insert_unparsed: one row per item, ids from the sequence.
NewRows(items, seq) ==
  {[id |-> seq + i, ts |-> items[i].ts, dev |-> items[i].dev] : i \in 1..Len(items)}

CountOf(items, d) == Cardinality({i \in 1..Len(items) : items[i].dev = d})

MaxId(rows) == IF rows = {} THEN 0 ELSE Max({r.id : r \in rows})

\* The rows one pruning rule of prune() leaves.
Younger(rows) == {r \in rows : r.ts >= wall - Retention}
Newest(rows, cap) == {r \in rows : r.id > MaxId(rows) - cap}

Pruned(d) ==
  [d EXCEPT !.events = IF MaxEvents > 0 THEN Newest(Younger(@), MaxEvents)
                       ELSE Younger(@),
            !.unparsed = Newest(Younger(@), UnparsedCap)]

----------------------------------------------------------------------------
(* writer.run *)

WriterInit ==
  /\ pcW = "open" /\ final = FALSE
  /\ events = <<>> /\ unparsed = <<>>
  /\ counters = [parsed |-> 0, unparsed |-> 0] /\ devStats = NoStats
  /\ db = EmptyDb /\ txn = EmptyDb

MainInit == alive = TRUE /\ died = FALSE /\ restarts = 0 /\ lost = 0

\* Mutant: the device statistics start from nothing after a restart.
OpenWriter_ForgetsDevices ==
  /\ pcW = "open" /\ pcW' = "prune0"
  /\ counters' = [parsed |-> db.parsed, unparsed |-> db.unparsedN]
  /\ devStats' = NoStats
  /\ UNCHANGED <<pipelineVars, stop, mainVars, final, events, unparsed, txn, db>>

\* The database is opened and the published counters are taken up again.
OpenWriter ==
  /\ pcW = "open" /\ pcW' = "prune0"
  /\ counters' = [parsed |-> db.parsed, unparsed |-> db.unparsedN]
  /\ devStats' = db.dev
  /\ UNCHANGED <<pipelineVars, stop, mainVars, final, events, unparsed, txn, db>>

\* prune at startup, or at its interval: deletes and commits.
Prune ==
  /\ pcW \in {"prune0", "prune"} /\ pcW' = "loop"
  /\ db' = Pruned(txn) /\ txn' = db'
  /\ UNCHANGED <<pipelineVars, stop, mainVars, memoryVars>>

\* while not stop_event.is_set()
WriterLoop ==
  /\ pcW = "loop"
  /\ pcW' = IF stop THEN "drain" ELSE "get"
  /\ final' = stop
  /\ UNCHANGED <<pipelineVars, stop, mainVars, events, unparsed, counters,
                 devStats, txn, db>>

\* record: the item is buffered and its device's statistics updated.
Record(item) ==
  IF item.tag = "ev"
    THEN /\ events' = Append(events, [ts |-> item.ts, dev |-> item.dev])
         /\ devStats' = [devStats EXCEPT ![item.dev] =
                           [last |-> item.ts, total |-> @.total + 1]]
         /\ UNCHANGED unparsed
    ELSE /\ unparsed' = Append(unparsed, [ts |-> item.ts, dev |-> item.dev])
         /\ UNCHANGED <<events, devStats>>

TakeOne ==
  /\ q # <<>> /\ q' = Tail(q) /\ Record(Head(q))
  /\ UNCHANGED <<drops, wall, puts, stop, mainVars, final, counters, txn, db>>

Get == pcW = "get" /\ TakeOne /\ pcW' = "due"

\* queue.Empty after half a second.
GetTimeout ==
  /\ pcW = "get" /\ q = <<>> /\ pcW' = "due"
  /\ UNCHANGED <<pipelineVars, stop, mainVars, memoryVars, txn, db>>

\* Mutant: only a full batch is flushed.
FlushDue_BatchOnly ==
  /\ pcW = "due" /\ pcW' = "insert" /\ Len(events) >= Batch
  /\ UNCHANGED <<pipelineVars, stop, mainVars, memoryVars, txn, db>>

\* FLUSH_INTERVAL has passed, or the batch is full.
FlushDue ==
  /\ pcW = "due" /\ pcW' = "insert"
  /\ UNCHANGED <<pipelineVars, stop, mainVars, memoryVars, txn, db>>

\* Not yet; then the prune interval may have passed, or not.
FlushNotDue ==
  /\ pcW = "due" /\ Len(events) < Batch /\ pcW' \in {"loop", "prune"}
  /\ UNCHANGED <<pipelineVars, stop, mainVars, memoryVars, txn, db>>

\* Mutant: the drain stops at the first item instead of at queue.Empty.
DrainEmpty_Early ==
  /\ pcW = "drain" /\ pcW' = "insert"
  /\ UNCHANGED <<pipelineVars, stop, mainVars, memoryVars, txn, db>>

\* The final drain.
Drain == pcW = "drain" /\ TakeOne /\ UNCHANGED pcW

DrainEmpty ==
  /\ pcW = "drain" /\ q = <<>> /\ pcW' = "insert"
  /\ UNCHANGED <<pipelineVars, stop, mainVars, memoryVars, txn, db>>

\* Mutant: the buffered events are inserted again by the next flush.
FlushInsert_KeepsEvents ==
  /\ pcW = "insert" /\ pcW' = "drops"
  /\ counters' = [parsed |-> counters.parsed + Len(events),
                  unparsed |-> counters.unparsed + Len(unparsed)]
  /\ txn' = [txn EXCEPT
       !.events = @ \cup NewRows(events, txn.seq), !.seq = @ + Len(events),
       !.unparsed = @ \cup NewRows(unparsed, txn.useq),
       !.useq = @ + Len(unparsed),
       !.parsed = counters'.parsed, !.unparsedN = counters'.unparsed,
       !.dev = devStats,
       !.inserted = [d \in Devices |-> @[d] + CountOf(events, d)]]
  /\ unparsed' = <<>>
  /\ UNCHANGED <<events, pipelineVars, stop, mainVars, final, devStats, db>>

\* flush up to the counters: rows, sequences, meta; the buffers are cleared.
FlushInsert ==
  /\ pcW = "insert" /\ pcW' = "drops"
  /\ counters' = [parsed |-> counters.parsed + Len(events),
                  unparsed |-> counters.unparsed + Len(unparsed)]
  /\ txn' = [txn EXCEPT
       !.events = @ \cup NewRows(events, txn.seq), !.seq = @ + Len(events),
       !.unparsed = @ \cup NewRows(unparsed, txn.useq),
       !.useq = @ + Len(unparsed),
       !.parsed = counters'.parsed, !.unparsedN = counters'.unparsed,
       !.dev = devStats,
       !.inserted = [d \in Devices |-> @[d] + CountOf(events, d)]]
  /\ events' = <<>> /\ unparsed' = <<>>
  /\ UNCHANGED <<pipelineVars, stop, mainVars, final, devStats, db>>

\* Mutant: the shared counters start again once published.
FlushDrops_Resets ==
  /\ pcW = "drops" /\ pcW' = "commit"
  /\ txn' = [txn EXCEPT !.drops = drops]
  /\ drops' = [n |-> 0, ignored |-> 0, rejected |-> 0]
  /\ UNCHANGED <<q, wall, puts, stop, mainVars, memoryVars, db>>

\* flush: the drop counters, read under their lock.
FlushDrops ==
  /\ pcW = "drops" /\ pcW' = "commit"
  /\ txn' = [txn EXCEPT !.drops = drops]
  /\ UNCHANGED <<pipelineVars, stop, mainVars, memoryVars, db>>

\* db.commit(); the flush of the final drain is the last, then db.close().
Commit ==
  /\ pcW = "commit"
  /\ pcW' \in IF final THEN {"closed"} ELSE {"loop", "prune"}
  /\ db' = txn
  /\ UNCHANGED <<pipelineVars, stop, mainVars, memoryVars, txn>>

\* What the process would lose if it ended now.
AtRisk ==
  Len(events) + Len(unparsed) + Len(q)
    + (txn.seq + txn.useq) - (db.seq + db.useq)

\* A call into SQLite raises: the thread ends, the transaction with it.
WriterError ==
  /\ pcW \in {"open", "prune0", "prune", "insert", "drops", "commit"}
  /\ pcW' = "dead"
  /\ lost' = lost + AtRisk - Len(q)
  /\ events' = <<>> /\ unparsed' = <<>> /\ txn' = db
  /\ UNCHANGED <<pipelineVars, stop, final, counters, devStats, db, alive, died,
                 restarts>>

WriterStep ==
  \/ OpenWriter \/ Prune \/ WriterLoop \/ Get \/ GetTimeout \/ FlushDue
  \/ FlushNotDue \/ Drain \/ DrainEmpty \/ FlushInsert \/ FlushDrops \/ Commit

----------------------------------------------------------------------------
(* main *)

\* Mutant: a dead writer goes unnoticed.
MainDetects_Never ==
  /\ alive /\ pcW = "dead" /\ stop /\ died' = TRUE /\ stop' = TRUE
  /\ UNCHANGED <<pipelineVars, writerVars, alive, restarts, lost>>

\* main's loop finds the writer thread dead.
MainDetects ==
  /\ alive /\ pcW = "dead" /\ ~stop
  /\ died' = TRUE /\ stop' = TRUE
  /\ UNCHANGED <<pipelineVars, writerVars, alive, restarts, lost>>

\* main returns; the interpreter still waits for the writer, no daemon.
MainExits ==
  /\ alive /\ stop /\ pcW \in {"closed", "dead"}
  /\ alive' = FALSE
  /\ UNCHANGED <<pipelineVars, stop, writerVars, died, restarts, lost>>

\* The process is killed at any moment.
Crash ==
  /\ alive /\ restarts < MaxRestarts
  /\ alive' = FALSE /\ pcW' = "dead"
  /\ UNCHANGED <<pipelineVars, stop, memoryVars, txn, db, died, restarts, lost>>

\* The container's restart policy starts it anew, on the committed database.
Restart ==
  /\ ~alive /\ restarts < MaxRestarts
  /\ restarts' = restarts + 1 /\ alive' = TRUE /\ died' = FALSE
  /\ lost' = lost + AtRisk
  /\ q' = <<>> /\ drops' = [n |-> 0, ignored |-> 0, rejected |-> 0]
  /\ stop' = FALSE /\ UNCHANGED <<wall, puts, db>>
  /\ pcW' = "open" /\ final' = FALSE /\ events' = <<>> /\ unparsed' = <<>>
  /\ counters' = [parsed |-> 0, unparsed |-> 0] /\ devStats' = NoStats
  /\ txn' = db

----------------------------------------------------------------------------
(* The listeners, as far as the writer can tell: items of any device, with  *)
(* the time of reception or, replayed, an earlier one.                      *)
Arrive ==
  /\ alive /\ puts + drops.n < MaxPuts
  /\ \E d \in Devices, tag \in {"ev", "un"}, ts \in 0..wall : Put(ItemOf(d, tag, ts))
  /\ UNCHANGED <<wall, stop, writerVars, mainVars>>

WriterNext ==
  \/ WriterStep \/ WriterError \/ MainDetects \/ MainExits \/ Crash \/ Restart
  \/ Arrive
  \/ alive /\ WallTick /\ UNCHANGED <<stop, writerVars, mainVars>>
  \/ alive /\ OnSignal /\ UNCHANGED <<pipelineVars, writerVars, mainVars>>
  \/ ~alive /\ restarts = MaxRestarts /\ UNCHANGED allWriterVars

ProcessInit == PipelineInit /\ stop = FALSE /\ WriterInit /\ MainInit

WriterSpec == ProcessInit /\ [][WriterNext]_allWriterVars

\* The writer and main threads are scheduled, a flush comes due at the latest
\* a FLUSH_INTERVAL after the last one.  Nothing is assumed of errors,
\* crashes, restarts or arrivals.
WriterFairSpec ==
  /\ WriterSpec
  /\ WF_allWriterVars(WriterStep) /\ SF_allWriterVars(FlushDue)
  /\ WF_allWriterVars(MainDetects) /\ WF_allWriterVars(MainExits)

----------------------------------------------------------------------------
TableRow == [id : Nat, ts : Nat, dev : Devices]
Buffered == [ts : Nat, dev : Devices]
Stats == [Devices -> [last : Nat, total : Nat]]
DbType ==
  [events : SUBSET TableRow, seq : Nat, unparsed : SUBSET TableRow, useq : Nat,
   parsed : Nat, unparsedN : Nat, dev : Stats,
   drops : [n : Nat, ignored : Nat, rejected : Nat],
   inserted : [Devices -> Nat]]

\* The variables' types; the event buffer never outgrows a batch before the
\* final drain.
WriterTypeOK ==
  /\ PipelineTypeOK /\ stop \in BOOLEAN
  /\ pcW \in {"open", "prune0", "loop", "get", "due", "prune", "drain", "insert",
              "drops", "commit", "closed", "dead"}
  /\ final \/ Len(events) <= Batch
  /\ final \in BOOLEAN /\ events \in Seq(Buffered) /\ unparsed \in Seq(Buffered)
  /\ counters \in [parsed : Nat, unparsed : Nat] /\ devStats \in Stats
  /\ db \in DbType /\ txn \in DbType
  /\ alive \in BOOLEAN /\ died \in BOOLEAN /\ restarts \in Nat /\ lost \in Nat

\* writer.py:35-63.  At every moment a crash can strike, the committed counters
\* agree with the rows ever inserted: parsed and unparsed with the tables'
\* sequences, each device's total with its rows, across all restarts.
Books ==
  /\ db.parsed = db.seq /\ db.unparsedN = db.useq
  /\ \A d \in Devices : db.dev[d].total = db.inserted[d]

\* writer.py:5 "drains whatever is left so a container stop loses nothing".  A
\* writer that stopped cleanly leaves nothing behind that was queued before
\* stop_event was set: what is left in the queue came after.
CleanStop ==
  pcW = "closed" =>
    /\ events = <<>> /\ unparsed = <<>> /\ txn = db
    /\ \A i \in 1..Len(q) : q[i].late

\* Every item put on the queue is on the queue, buffered, inserted, or lost to
\* a crash or an error: no flush or drain drops or doubles one.
Conserved == puts = db.seq + db.useq + AtRisk + lost

\* main.py:375-379.  A dead writer ends the process (and the container restarts
\* it); it never goes on receiving into a queue nobody reads.
DeadWriterExits == (pcW = "dead") ~> ~alive

\* writer.py:74-77.  Whatever is queued is committed, unless the process ends:
\* the queue and the buffers do not stay filled for ever.
EventuallyStored == []<>(~alive \/ pcW \in {"dead", "closed"} \/ AtRisk = 0)
=============================================================================
