------------------------------ MODULE History -------------------------------
(***************************************************************************)
(* store.query_range and its two callers: the client that pages backward   *)
(* through a range, and the CSV export (_stream_csv).  Both pass           *)
(* next_before back as `before` until has_more is false; the export has no *)
(* scan cap and stops at its own limit.  One page takes three or four      *)
(* SELECTs, each on a snapshot of its own.                                 *)
(***************************************************************************)
EXTENDS Events

CONSTANTS
  Limit,     \* rows per page
  CsvPage,   \* CSV_PAGE
  CsvLimit,  \* rows per export
  Margin,    \* WINDOW_ID_MARGIN
  Span       \* WINDOW_SCAN_SPAN

ASSUME HistoryAssumption ==
  /\ Limit \in Nat \ {0} /\ CsvPage \in Nat \ {0} /\ CsvLimit \in Nat \ {0}
  /\ Margin \in Nat /\ Span \in Nat \ {0}

None == -1   \* a query that found no row, or a clause left out

VARIABLES
  req,     \* the range and filters the client asked for
  pc,      \* the next statement of query_range; "done" when has_more is false
  before,  \* the client's resume point (0: none)
  lo,      \* id of the first row of the range (None: no row)
  hi,      \* id ceiling (None: no clause)
  top,     \* where a capped scan starts (None: no cap)
  got,     \* ids shown so far
  want     \* history: matching ids there when the first page was asked for

reqVars == <<req, pc, before, lo, hi, top, got, want>>
vars == <<eventVars, reqVars>>

\* Without the scan cap the filters of an export make no difference to how
\* it is read; one that scans stands for all of them.
Queries == {x \in [start : Times, end : Times \cup {None}, filter : Filters, csv : BOOLEAN] :
              x.csv => x.filter = "scan"}

\* ts >= start, ts <= end and _filter_clauses
Matches(i) ==
  /\ rows[i].ts >= req.start
  /\ req.end # None => rows[i].ts <= req.end
  /\ Hit(req.filter, i)

\* SELECT id ... ORDER BY ts LIMIT 1, over idx_events_ts (ties by id)
FirstByTs(S) ==
  IF S = {} THEN None
  ELSE CHOOSE i \in S : \A j \in S :
         rows[i].ts < rows[j].ts \/ (rows[i].ts = rows[j].ts /\ i <= j)

Init ==
  /\ EventsInit
  /\ req \in Queries /\ pc = "idle" /\ before = 0
  /\ lo = None /\ hi = None /\ top = None
  /\ got = {} /\ want = {}

\* The client asks for the first page.
Ask ==
  /\ pc = "idle" /\ pc' = "floor"
  /\ want' = {i \in Ids : Matches(i)}
  /\ UNCHANGED <<eventVars, req, before, lo, hi, top, got>>

ReadFloor ==
  /\ pc = "floor" /\ pc' = "ceiling"
  /\ lo' = FirstByTs({i \in Ids : rows[i].ts >= req.start})
  /\ UNCHANGED <<eventVars, req, before, hi, top, got, want>>

ReadCeiling ==
  /\ pc = "ceiling" /\ pc' = "top"
  /\ hi' = LET i == IF req.end = None THEN None
                    ELSE FirstByTs({j \in Ids : rows[j].ts > req.end})
           IN  IF i = None THEN None ELSE i + Margin
  /\ UNCHANGED <<eventVars, req, before, lo, top, got, want>>

\* Where a scanning filter starts; without one, or with scan_span None, there
\* is no cap.
ReadTop ==
  /\ pc = "top" /\ pc' = "select"
  /\ top' = IF req.csv \/ req.filter # "scan" THEN None
            ELSE IF before > 0 THEN before
            ELSE IF hi # None THEN hi + 1 ELSE MaxId + 1
  /\ UNCHANGED <<eventVars, req, before, lo, hi, got, want>>

RangeLo == IF lo = None THEN 0 ELSE lo - Margin
ScannedLo == IF RangeLo > top - Span THEN RangeLo ELSE top - Span
Capped == top # None

\* The ids the last SELECT may return, and those it does.
Selected ==
  {i \in Ids :
     /\ Matches(i)
     /\ before > 0 => i < before
     /\ hi # None => i <= hi
     /\ (lo # None \/ Capped) => i >= (IF Capped THEN ScannedLo ELSE RangeLo)}

\* min(CSV_PAGE, limit - sent)
PageSize ==
  IF ~req.csv THEN Limit
  ELSE IF CsvPage < CsvLimit - Cardinality(got) THEN CsvPage
  ELSE CsvLimit - Cardinality(got)
Page == {i \in Selected : Cardinality({j \in Selected : j > i}) < PageSize}

\* Mutant: a resume point in the empty margin zone still counts as more.
CapHit_NoClamp == Capped /\ ScannedLo > RangeLo

\* "without that clamp the cursor could walk into the empty margin zone"
CapHit == Capped /\ ScannedLo > (IF RangeLo > 1 THEN RangeLo ELSE 1)

\* Mutant: the next page starts at the last row of this one.
ResumeAt_Inclusive(page) == Min(page) + 1

\* next_before after a full page
ResumeAt(page) == Min(page)

\* while sent < limit
Wanted == ~req.csv \/ Cardinality(got) + Cardinality(Page) < CsvLimit

\* Mutant: a short page is the last one even when the scan stopped at the cap.
Select_StopsAtCap ==
  /\ pc = "select"
  /\ got' = got \cup Page
  /\ IF Cardinality(Page) >= PageSize /\ Wanted
       THEN pc' = "floor" /\ before' = ResumeAt(Page)
       ELSE pc' = "done" /\ UNCHANGED before
  /\ UNCHANGED <<eventVars, req, lo, hi, top, want>>

\* The page, has_more and next_before; the client comes back while has_more,
\* an export while it has not reached its limit.
Select ==
  /\ pc = "select"
  /\ got' = got \cup Page
  /\ IF Cardinality(Page) >= PageSize /\ Wanted
       THEN pc' = "floor" /\ before' = ResumeAt(Page)
     ELSE IF Cardinality(Page) < PageSize /\ CapHit
       THEN pc' = "floor" /\ before' = ScannedLo
     ELSE pc' = "done" /\ UNCHANGED before
  /\ UNCHANGED <<eventVars, req, lo, hi, top, want>>

QueryNext == ReadFloor \/ ReadCeiling \/ ReadTop \/ Select
Next == Ask \/ QueryNext \/ (WriterNext /\ UNCHANGED reqVars)

Spec == Init /\ [][Next]_vars

----------------------------------------------------------------------------
(* Properties *)

\* The variables' types: a floor is the id of a row, a scan starts above 0.
HistoryTypeOK ==
  /\ EventsTypeOK
  /\ before \in 0..(MaxRows + 1)
  /\ lo \in {None} \cup 1..MaxRows
  /\ hi \in {None} \cup 1..(MaxRows + Margin)
  /\ top \in {None} \cup 1..(MaxRows + Margin + 1)
  /\ got \subseteq 1..lastId /\ want \subseteq 1..lastId

\* Paged to the end, the client has every matching row that was there when
\* it started and has not been pruned since: neither the id floor and ceiling,
\* nor the scan cap, nor rows committed and pruned between two statements
\* lose one ("the ts filter keeps the result exact").  An export that reached
\* its limit holds the newest of them.
Complete ==
  pc = "done" =>
    \A i \in want \cap Ids :
      i \in got \/ (req.csv /\ Cardinality(got) = CsvLimit /\ \A j \in got : j > i)

\* No page brings a row that an earlier page already brought.
NoRepeat == pc = "select" => Page \cap got = {}

\* Paging comes to an end: every page the client comes back for resumes
\* strictly below the one before, and never below 1, where "no resume point"
\* would restart from the top ("an endless loop").
Descends ==
  [][(pc = "select" /\ pc' = "floor")
       => before' >= 1 /\ (before > 0 => before' < before)]_vars
=============================================================================
