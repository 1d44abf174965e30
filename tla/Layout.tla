------------------------------- MODULE Layout -------------------------------
(***************************************************************************)
(* layout.LayoutStore: the grouping of the devices on the overview, held   *)
(* in memory and in layout.json.  A save writes a temporary file, renames  *)
(* it over the old one and then replaces the copy in memory, all under the *)
(* store's lock; any of its steps can fail, and the process can be killed  *)
(* between two of them.                                                    *)
(*                                                                         *)
(* A layout is the sequence of its categories, each the sequence of its    *)
(* devices.  Category names have no influence here: one that fails         *)
(* _validate_layout is a 400.  The temporary file has a name of its own    *)
(* and nobody reads it: what it holds is left out.                         *)
(***************************************************************************)
EXTENDS Requests, SequencesExt

CONSTANTS
  DeviceNames,  \* names that occur in layouts and configurations
  MaxPlaced,    \* bound: devices in one category
  MaxGroups     \* bound: categories (MAX_CATEGORIES in the code)

NoOne == "no one"

ASSUME LayoutAssumption ==
  /\ IsFiniteSet(DeviceNames) /\ MaxPlaced \in Nat /\ MaxGroups \in Nat
  /\ NoOne \notin Threads

\* layout.json: whether it parses, and what it holds; or missing, or damaged.
FileOf(l) == [ok |-> TRUE, cats |-> l]
Broken == [ok |-> FALSE, cats |-> <<>>]

VARIABLES
  file,      \* layout.json
  cats,      \* LayoutStore._cats
  devices,   \* the configured devices
  running,   \* the process is up
  holder,    \* who holds LayoutStore.lock
  layTask    \* what each request thread is doing

layoutVars == <<file, cats, devices, running, holder, layTask>>

Layouts == BoundedSeq(BoundedSeq(DeviceNames, MaxPlaced), MaxGroups)

\* _read: anything unusable is the empty layout.
Parsed(f) == IF f.ok THEN f.cats ELSE <<>>

\* The places of a layout, in the order the loops visit them.
Places(l) == {p \in (1..MaxGroups) \X (1..MaxPlaced) :
                p[1] \in 1..Len(l) /\ p[2] \in 1..Len(l[p[1]])}
Before(p, q) == p[1] < q[1] \/ (p[1] = q[1] /\ p[2] < q[2])
At(l, p) == l[p[1]][p[2]]

\* Mutant: the devices seen are forgotten at the end of each category.
Keeps_PerCategory(l, p, valid) ==
  /\ At(l, p) \in valid
  /\ \A q \in Places(l) : Before(q, p) /\ q[1] = p[1] => At(l, q) # At(l, p)

\* d in valid and d not in seen
Keeps(l, p, valid) ==
  /\ At(l, p) \in valid
  /\ \A q \in Places(l) : Before(q, p) => At(l, q) # At(l, p)

\* The k-th of a set of numbers, from the least on.
Under(S, j) == {i \in S : i < j}
Nth(S, k) == CHOOSE j \in S : Cardinality(Under(S, j)) = k - 1

\* The loop that _validate_layout and resolve share.
KeptOf(l, c, valid) == {j \in 1..Len(l[c]) : Keeps(l, <<c, j>>, valid)}
Placed(l, valid) ==
  [c \in 1..Len(l) |->
     [k \in 1..Cardinality(KeptOf(l, c, valid)) |-> l[c][Nth(KeptOf(l, c, valid), k)]]]

\* resolve's leftover: the configured devices that no category shows.
Leftover(l, valid) == {d \in valid : \A p \in Places(l) : At(l, p) # d}

LayoutInit ==
  /\ file \in {FileOf(l) : l \in Layouts} \cup {Broken} /\ cats = Parsed(file)
  /\ devices \in SUBSET DeviceNames
  /\ running = TRUE /\ holder = NoOne /\ layTask = [r \in Threads |-> Idle]

Becomes(r, t) == layTask' = [layTask EXCEPT ![r] = t]

\* An admin's save: _validate_layout cleans what the client sent.  The resolve
\* for its answer is a request of its own, CopyLayout.
SaveLayout(r) ==
  /\ running /\ layTask[r] = Idle
  /\ \E l \in Layouts :
       Becomes(r, [op |-> "save", new |-> Placed(l, devices)])
  /\ UNCHANGED <<file, cats, devices, running, holder>>

TakeLock(r) ==
  /\ layTask[r].op = "save" /\ holder = NoOne /\ holder' = r
  /\ Becomes(r, [layTask[r] EXCEPT !.op = "dump"])
  /\ UNCHANGED <<file, cats, devices, running>>

\* Mutant: the file is written in place.
DumpTemp_InPlace(r) ==
  /\ layTask[r].op = "dump" /\ file' = Broken
  /\ Becomes(r, [layTask[r] EXCEPT !.op = "replace"])
  /\ UNCHANGED <<cats, devices, running, holder>>

\* mkstemp and json.dump
DumpTemp(r) ==
  /\ layTask[r].op = "dump"
  /\ Becomes(r, [layTask[r] EXCEPT !.op = "replace"])
  /\ UNCHANGED <<file, cats, devices, running, holder>>

\* os.replace
Replace(r) ==
  /\ layTask[r].op = "replace" /\ file' = FileOf(layTask[r].new)
  /\ Becomes(r, [layTask[r] EXCEPT !.op = "assign"])
  /\ UNCHANGED <<cats, devices, running, holder>>

\* self._cats = clean, and the lock is released.
Assign(r) ==
  /\ layTask[r].op = "assign" /\ cats' = layTask[r].new
  /\ holder' = NoOne /\ Becomes(r, Idle)
  /\ UNCHANGED <<file, devices, running>>

\* The write or the rename raises: the temporary file goes, the answer is 500.
WriteFails(r) ==
  /\ layTask[r].op \in {"dump", "replace"}
  /\ holder' = NoOne /\ Becomes(r, Idle)
  /\ UNCHANGED <<file, cats, devices, running>>

\* resolve copies the categories under the lock, and works on the copy.
CopyLayout(r) ==
  /\ running /\ layTask[r] = Idle /\ holder = NoOne
  /\ Becomes(r, [op |-> "resolve", got |-> cats])
  /\ UNCHANGED <<file, cats, devices, running, holder>>

AnswerLayout(r) ==
  /\ layTask[r].op = "resolve" /\ Becomes(r, Idle)
  /\ UNCHANGED <<file, cats, devices, running, holder>>

\* The process is killed, and started again on another devices.json.
Kill ==
  /\ running /\ running' = FALSE
  /\ cats' = <<>> /\ holder' = NoOne /\ layTask' = [r \in Threads |-> Idle]
  /\ UNCHANGED <<file, devices>>

Start ==
  /\ ~running /\ running' = TRUE
  /\ cats' = Parsed(file) /\ devices' \in SUBSET DeviceNames
  /\ UNCHANGED <<file, holder, layTask>>

LayoutNext ==
  \/ Kill \/ Start
  \/ \E r \in Threads :
       \/ SaveLayout(r) \/ TakeLock(r) \/ DumpTemp(r) \/ Replace(r) \/ Assign(r)
       \/ WriteFails(r) \/ CopyLayout(r) \/ AnswerLayout(r)

LayoutSpec == LayoutInit /\ [][LayoutNext]_layoutVars

----------------------------------------------------------------------------
(* Properties *)

\* What the overview shows from a copy of the categories: every configured
\* device exactly once, and no other, whatever layout.json was written under
\* an earlier configuration or edited by hand ("newly added firewalls always
\* show up").
ShowsEachOnce ==
  \A r \in Threads : layTask[r].op = "resolve" =>
    LET l == layTask[r].got
        shown == Placed(l, devices)
        times(d) == Cardinality({p \in Places(shown) : At(shown, p) = d})
    IN  \A d \in DeviceNames :
          times(d) + (IF d \in Leftover(l, devices) THEN 1 ELSE 0)
            = (IF d \in devices THEN 1 ELSE 0)

\* The call of the register that a request stands for.
CallOf(t) ==
  CASE t.op \in {"save", "dump", "replace"} -> [op |-> "write", new |-> t.new]
    [] t.op = "assign" -> [op |-> "written"]
    [] t.op = "resolve" -> [op |-> "read", got |-> t.got]
    [] OTHER -> Idle

Saved == INSTANCE Register WITH
  Clients <- Threads, Values <- Layouts,
  value <- Parsed(file), client <- [r \in Threads |-> CallOf(layTask[r])]

\* The store is a durable register: a save takes effect at the rename or not
\* at all, no kill and no failed write leaves a damaged or a half-made
\* layout, and a request always reads the layout that was saved last.
LayoutDurable == Saved!RegisterSpec
=============================================================================
