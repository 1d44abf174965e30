------------------------------- MODULE Events -------------------------------
(***************************************************************************)
(* The events table as the read queries see it: the writer thread commits  *)
(* rows and prunes, on its own connection, between any two statements of   *)
(* a reader.  Ids grow by one (AUTOINCREMENT) and are never used again.    *)
(* A row keeps what the queries look at: its receive time and whether the  *)
(* request's filters match it.  Receive times need not follow the ids (a   *)
(* held datagram is written late, with the time it came in); Skew bounds   *)
(* by how many ids a row may trail a later time.                           *)
(***************************************************************************)
EXTENDS Integers, FiniteSets, FiniteSetsExt

CONSTANTS
  MaxTime,    \* bound: receive times are 1..MaxTime
  Skew,       \* a row with an earlier time than another is at most Skew ids later
  MaxEvents,  \* MAX_EVENTS, the row cap of prune
  MaxRows     \* bound: rows ever written

ASSUME EventsAssumption ==
  /\ MaxTime \in Nat \ {0} /\ Skew \in Nat
  /\ MaxEvents \in Nat \ {0} /\ MaxRows \in Nat

VARIABLES
  rows,   \* id -> [ts, hit]
  lastId  \* sqlite_sequence

eventVars == <<rows, lastId>>

Times == 1..MaxTime
Row == [ts : Times, hit : BOOLEAN]
Ids == DOMAIN rows

\* A request has no filter, one an index serves (the device), or one of
\* _SCANNING_FILTERS.
Filters == {"none", "device", "scan"}
Hit(filter, i) == filter = "none" \/ rows[i].hit

EventsInit == rows = [i \in {} |-> 0] /\ lastId = 0

EventsTypeOK ==
  /\ lastId \in 0..MaxRows /\ Ids \subseteq 1..lastId
  /\ \A i \in Ids : rows[i] \in Row

\* insert_events, and the commit that makes the row visible.
CommitRow ==
  /\ lastId < MaxRows /\ lastId' = lastId + 1
  /\ \E row \in Row :
       /\ \A i \in Ids : i < lastId' - Skew => rows[i].ts <= row.ts
       /\ rows' = [i \in Ids \cup {lastId'} |-> IF i = lastId' THEN row ELSE rows[i]]

\* SELECT COALESCE(MAX(id), 0)
MaxId == IF Ids = {} THEN 0 ELSE Max(Ids)

\* store.prune: the retention window, then the row cap.
Prune ==
  /\ \E cutoff \in Times :
       LET kept == {i \in Ids : rows[i].ts >= cutoff}
           newest == IF kept = {} THEN 0 ELSE Max(kept)
       IN  rows' = [i \in {i \in kept : i > newest - MaxEvents} |-> rows[i]]
  /\ UNCHANGED lastId

WriterNext == CommitRow \/ Prune
=============================================================================
