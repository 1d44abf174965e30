------------------------------- MODULE Stats --------------------------------
(***************************************************************************)
(* _stats and the cache of _completed_minutes.  A request reads the clock, *)
(* then runs its SELECTs under the lock of the shared reader connection;   *)
(* the writer thread commits rows (a held datagram's with an old receive   *)
(* time) and prunes between any two of them.                               *)
(*                                                                         *)
(* Counts are of rows; their split by device and action is left out.       *)
(***************************************************************************)
EXTENDS Requests

CONSTANTS
  Minute,      \* 60 s, in ticks of the clock
  Bars,        \* HIST_MINUTES - 1, the completed minutes on a card
  LateMax,     \* a row is committed at most this long after its receive time
  MaxNow,      \* bound: the clock stops here
  MaxLogged    \* bound: rows ever committed

ASSUME StatsAssumption ==
  /\ Minute \in Nat \ {0} /\ Bars \in Nat \ {0} /\ LateMax \in Nat
  /\ MaxNow \in Nat /\ MaxLogged \in Nat

VARIABLES
  now,        \* time.time()
  logged,     \* events, in id order: receive time and, as history, the times of
              \* the commit and of the prune (Kept: still there)
  histCache,  \* AppState._hist_cache
  statsTask   \* what each request thread has read

statsVars == <<now, logged, histCache, statsTask>>

Kept == MaxNow + 1
NoMinute == -1

\* The minute that time t is in begins here.
MinuteOf(t) == (t \div Minute) * Minute

\* (ts - base) / 60 for base <= ts < m0
Bar(m0, ts) == (ts - (m0 - Bars * Minute)) \div Minute
InBar(m0, b, i) == logged[i].ts < m0 /\ Bar(m0, logged[i].ts) = b

StatsInit ==
  /\ now = 0 /\ logged = <<>>
  /\ histCache = [key |-> NoMinute, bars |-> <<>>]
  /\ statsTask = [r \in Threads |-> Idle]

StatsTick == now < MaxNow /\ now' = now + 1 /\ UNCHANGED <<logged, histCache, statsTask>>

\* The writer's commit.
LogRow ==
  /\ Len(logged) < MaxLogged
  /\ \E ts \in (now - LateMax)..now :
       logged' = Append(logged, [ts |-> ts, at |-> now, gone |-> Kept])
  /\ UNCHANGED <<now, histCache, statsTask>>

There == {i \in DOMAIN logged : logged[i].gone = Kept}

\* The row cap of prune takes the oldest ids.
DropOldest ==
  /\ There # {} /\ logged' = [logged EXCEPT ![Min(There)].gone = now]
  /\ UNCHANGED <<now, histCache, statsTask>>

\* AppState.query takes the lock; _stats reads the clock.
StatsBegin(r) ==
  /\ \A q \in Threads : statsTask[q] = Idle
  /\ statsTask' = [statsTask EXCEPT ![r] = [op |-> "recent", m0 |-> MinuteOf(now)]]
  /\ UNCHANGED <<now, logged, histCache>>

\* The rate of the last minute, a SELECT of its own.
ReadRecent(r) ==
  /\ statsTask[r].op = "recent"
  /\ statsTask' = [statsTask EXCEPT ![r].op = "minutes"]
  /\ UNCHANGED <<now, logged, histCache>>

\* SELECT ... COUNT(*) ... GROUP BY the minute
Counted(m0) == [b \in 0..(Bars - 1) |-> Cardinality({i \in There : InBar(m0, b, i)})]

\* Mutant: whatever is in the cache will do.
Cached_AnyMinute(m0) == histCache.key # NoMinute

\* if key == m0
Cached(m0) == histCache.key = m0

\* _completed_minutes
CompletedMinutes(r) ==
  /\ statsTask[r].op = "minutes"
  /\ LET m0 == statsTask[r].m0
         bars == IF Cached(m0) THEN histCache.bars ELSE Counted(m0)
     IN  /\ histCache' = IF Cached(m0) THEN histCache ELSE [key |-> m0, bars |-> bars]
         /\ statsTask' = [statsTask EXCEPT ![r] = [op |-> "answer", m0 |-> m0, bars |-> bars]]
  /\ UNCHANGED <<now, logged>>

AnswerStats(r) ==
  /\ statsTask[r].op = "answer" /\ statsTask' = [statsTask EXCEPT ![r] = Idle]
  /\ UNCHANGED <<now, logged, histCache>>

StatsNext ==
  \/ StatsTick \/ LogRow \/ DropOldest
  \/ \E r \in Threads :
       StatsBegin(r) \/ ReadRecent(r) \/ CompletedMinutes(r) \/ AnswerStats(r)

StatsSpec == StatsInit /\ [][StatsNext]_statsVars

----------------------------------------------------------------------------
(* Properties *)

\* The cached minutes are never more than a minute behind: each bar of an
\* answer counts every row that was committed before the current minute began
\* and is still there, and none that had been pruned by then, though a row
\* with an old receive time can still join a completed minute.
BarsFresh ==
  \A r \in Threads : statsTask[r].op = "answer" =>
    \A b \in 0..(Bars - 1) :
      LET m0 == statsTask[r].m0
          inBar == {i \in DOMAIN logged : InBar(m0, b, i)}
      IN  /\ Cardinality({i \in inBar \cap There : logged[i].at < m0}) <= statsTask[r].bars[b]
          /\ statsTask[r].bars[b] <= Cardinality({i \in inBar : logged[i].gone >= m0})
=============================================================================
