------------------------------ MODULE LiveTail ------------------------------
(***************************************************************************)
(* store.query_live and a client that polls it with the cursor it was      *)
(* given.  The first poll (since = 0) runs up to three SELECTs, each on a  *)
(* snapshot of its own; an incremental poll is one SELECT.                 *)
(***************************************************************************)
EXTENDS Events

CONSTANTS
  Limit,    \* rows per answer
  ScanCap   \* LIVE_SCAN_CAP

ASSUME LiveAssumption == Limit \in Nat \ {0} /\ ScanCap \in Nat \ {0}

VARIABLES
  filter,    \* the filter the polls carry
  pc,        \* "tail" between polls, else the next statement of the first poll
  cursor,    \* the client's cursor
  maxid,     \* MAX(id) as the first poll's cap read it
  shown,     \* ids shown
  base       \* history: the newest id when the first poll selected its rows

pollVars == <<filter, pc, cursor, maxid, shown, base>>
vars == <<eventVars, pollVars>>

Matches(i) == Hit(filter, i)

\* The `Limit` newest (oldest) ids of S.
Newest(S) == {i \in S : Cardinality({j \in S : j > i}) < Limit}
Oldest(S) == {i \in S : Cardinality({j \in S : j < i}) < Limit}

Init ==
  /\ EventsInit /\ filter \in Filters
  /\ pc = "tail" /\ cursor = 0 /\ maxid = 0 /\ shown = {} /\ base = 0

\* since <= 0: a scanning filter first reads MAX(id) for its cap; any other
\* poll has no floor (ids start at 1).
FirstPoll ==
  /\ pc = "tail" /\ cursor = 0 /\ pc' = "select"
  /\ maxid' = IF filter = "scan" THEN MaxId ELSE ScanCap
  /\ UNCHANGED <<eventVars, filter, cursor, shown, base>>

\* Mutant: the cursor is the oldest id returned.
NewestReturned_Oldest(page) == Min(page)

\* rows[-1][0]
NewestReturned(page) == Max(page)

\* The most recent matches; with none, the cursor falls back to MAX(id), read
\* by another statement.
FirstSelect ==
  /\ pc = "select"
  /\ LET page == Newest({i \in Ids : i > maxid - ScanCap /\ Matches(i)}) IN
       /\ shown' = shown \cup page
       /\ base' = MaxId
       /\ IF page # {} THEN cursor' = NewestReturned(page) /\ pc' = "tail"
          ELSE pc' = "fallback" /\ UNCHANGED cursor
  /\ UNCHANGED <<eventVars, filter, maxid>>

Fallback ==
  /\ pc = "fallback" /\ pc' = "tail"
  /\ cursor' = MaxId
  /\ UNCHANGED <<eventVars, filter, maxid, shown, base>>

\* The ids an incremental poll returns.
Newer == Oldest({i \in Ids : i > cursor /\ Matches(i)})

\* Mutant: the cursor jumps to MAX(id) though the answer was cut at the limit.
Poll_ToMaxId ==
  /\ pc = "tail" /\ cursor > 0 /\ Newer # {}
  /\ shown' = shown \cup Newer /\ cursor' = MaxId
  /\ UNCHANGED <<eventVars, filter, pc, maxid, base>>

\* since > 0: with no newer match the cursor stays and nothing changes.
Poll ==
  /\ pc = "tail" /\ cursor > 0 /\ Newer # {}
  /\ shown' = shown \cup Newer /\ cursor' = NewestReturned(Newer)
  /\ UNCHANGED <<eventVars, filter, pc, maxid, base>>

PollNext == FirstPoll \/ FirstSelect \/ Fallback \/ Poll
Next == PollNext \/ (WriterNext /\ UNCHANGED pollVars)

Spec == Init /\ [][Next]_vars

\* The dashboard polls on a timer, and the server answers.
FairSpec == Spec /\ WF_vars(PollNext)

----------------------------------------------------------------------------
(* Properties *)

\* The variables' types; the cursor never runs ahead of the ids handed out.
LiveTypeOK ==
  /\ EventsTypeOK
  /\ cursor \in 0..lastId /\ base \in 0..lastId /\ shown \subseteq 1..lastId

\* No poll re-sends a row the client was already given.
NoResend ==
  (pc = "tail" /\ cursor > 0) => \A i \in Newer : i \notin shown

\* A row committed above the client's cursor is shown in the end, or pruned
\* first: a burst longer than one answer is worked off, not jumped over.
CatchesUp ==
  \A i \in 1..MaxRows :
    (pc = "tail" /\ 0 < cursor /\ cursor < i /\ i \in Ids /\ Matches(i))
      ~> (i \in shown \/ i \notin Ids)

\* "the next incremental poll (id > cursor) picks up strictly newer events
\* with no skip and no re-send": behind the cursor there is no match that was
\* committed after the first poll and never shown.
NoSkip ==
  pc = "tail" =>
    \A i \in Ids : (base < i /\ i <= cursor /\ Matches(i)) => i \in shown
=============================================================================
