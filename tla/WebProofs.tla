----------------------------- MODULE WebProofs ------------------------------
(***************************************************************************)
(* What is proved of the parts of the web server that keep no accounts,    *)
(* for any number of request threads: the two pools of permits (Server),   *)
(* the layout file and the overview built from it (Layout), the statistics *)
(* cache (Stats), the two credentials a request carries, the session       *)
(* cookie (Sessions) and the API key (ApiKeys), and the country tables     *)
(* (Geo).  The last theorem puts them and SignInProofs together (Web).     *)
(*                                                                         *)
(* A thread acts on what it read before it took a lock, so the invariants  *)
(* speak of what the threads hold, however old it is: of the copies of the *)
(* layout and the rows a thread aggregates, and of the time it has read.   *)
(***************************************************************************)
EXTENDS Web, SignInProofs

----------------------------------------------------------------------------
(* Server: the two semaphores are pools of permits *)

Held == Cardinality(serving) + (IF accepting = "spawn" THEN 1 ELSE 0)
ForgotHeld == workers + Cardinality(asking) + leaked

ServerTypeOK ==
  /\ slots \in Nat /\ accepting \in {"listen", "spawn"}
  /\ forgotSlots \in Nat /\ workers \in Nat /\ leaked \in Nat
  /\ asking \subseteq serving /\ serving \subseteq Threads

\* Every permit is free or held.
NoPermitLost ==
  slots + Held = MaxConnections /\ forgotSlots + ForgotHeld = ForgotWorkers

ServerInv == ServerTypeOK /\ NoPermitLost

\* What the threads hold is a number.
LEMMA HeldOK ==
  ASSUME ServerTypeOK
  PROVE  /\ IsFiniteSet(serving) /\ Cardinality(serving) \in Nat
         /\ IsFiniteSet(asking) /\ Cardinality(asking) \in Nat
  BY FS_Subset, FS_CardinalityType, RequestsAssumption DEF ServerTypeOK

\* A step takes a permit, gives one back, hands one on, or has nothing to do
\* with the pool: for the connections.
ConnectionStep ==
  \/ UNCHANGED <<slots, Held>>
  \/ slots > 0 /\ slots' = slots - 1 /\ Held' = Held + 1
  \/ Held > 0 /\ slots' = slots + 1 /\ Held' = Held - 1

\* The same for the workers of /api/forgot_password.
WorkerStep ==
  \/ UNCHANGED <<forgotSlots, ForgotHeld>>
  \/ forgotSlots > 0 /\ forgotSlots' = forgotSlots - 1 /\ ForgotHeld' = ForgotHeld + 1
  \/ ForgotHeld > 0 /\ forgotSlots' = forgotSlots + 1 /\ ForgotHeld' = ForgotHeld - 1

\* Each action of the server is a step of the two pools.
LEMMA PoolSteps ==
  ASSUME ServerTypeOK, [ServerNext]_serverVars
  PROVE  ServerTypeOK' /\ ConnectionStep /\ WorkerStep
  <1> USE DEF ServerTypeOK, ConnectionStep, WorkerStep, Held, ForgotHeld, forgotVars
  <1>0. /\ IsFiniteSet(serving) /\ Cardinality(serving) \in Nat
        /\ IsFiniteSet(asking) /\ Cardinality(asking) \in Nat
    BY HeldOK
  <1>1. CASE UNCHANGED serverVars BY <1>1 DEF serverVars
  <1>2. CASE AcceptConnection BY <1>0, <1>2 DEF AcceptConnection
  <1>3. CASE SpawnFails BY <1>0, <1>3 DEF SpawnFails
  <1>4. CASE EndWorker BY <1>0, <1>4 DEF EndWorker
  <1>5. ASSUME NEW r \in Threads, SpawnThread(r)
        PROVE  ServerTypeOK' /\ ConnectionStep /\ WorkerStep
    <2>1. Cardinality(serving') = Cardinality(serving) + 1
      BY <1>0, <1>5, OneMore DEF SpawnThread
    <2> QED BY <1>0, <1>5, <2>1 DEF SpawnThread
  <1>6. ASSUME NEW r \in Threads, EndConnection(r)
        PROVE  ServerTypeOK' /\ ConnectionStep /\ WorkerStep
    <2>1. Cardinality(serving') = Cardinality(serving) - 1 /\ Cardinality(serving) > 0
      BY <1>0, <1>6, OneMore DEF EndConnection
    <2> QED BY <1>0, <1>6, <2>1 DEF EndConnection
  <1>7. ASSUME NEW r \in Threads, AskForWorker(r)
        PROVE  ServerTypeOK' /\ ConnectionStep /\ WorkerStep
    <2>1. Cardinality(asking') = Cardinality(asking) + 1
      BY <1>0, <1>7, OneMore DEF AskForWorker
    <2> QED BY <1>0, <1>7, <2>1 DEF AskForWorker
  <1>8. ASSUME NEW r \in Threads, StartWorker(r) \/ WorkerFails(r)
        PROVE  ServerTypeOK' /\ ConnectionStep /\ WorkerStep
    <2>1. Cardinality(asking') = Cardinality(asking) - 1
      BY <1>0, <1>8, OneMore DEF StartWorker, WorkerFails
    <2> QED BY <1>0, <1>8, <2>1 DEF StartWorker, WorkerFails
  <1> QED BY <1>1, <1>2, <1>3, <1>4, <1>5, <1>6, <1>7, <1>8 DEF ServerNext

\* No permit is lost or made up, so never more than MAX_CONNECTIONS requests
\* are served at once and never more than _FORGOT_WORKERS workers run.
LEMMA ServerInvariant == ServerSpec => []ServerInv
  <1>1. ServerInit => ServerInv
    BY FS_EmptySet, ServerAssumption
    DEF ServerInit, ServerInv, ServerTypeOK, NoPermitLost, Held, ForgotHeld
  <1>2. ASSUME ServerInv, [ServerNext]_serverVars PROVE ServerInv'
    <2>1. ServerTypeOK' /\ ConnectionStep /\ WorkerStep BY <1>2, PoolSteps DEF ServerInv
    <2>2. Held \in Nat /\ ForgotHeld \in Nat
      BY <1>2, HeldOK DEF ServerInv, ServerTypeOK, Held, ForgotHeld
    <2>3. slots' + Held' = MaxConnections
      BY <1>2, <2>1, <2>2, ServerAssumption
      DEF ServerInv, ServerTypeOK, NoPermitLost, ConnectionStep
    <2>4. forgotSlots' + ForgotHeld' = ForgotWorkers
      BY <1>2, <2>1, <2>2, ServerAssumption
      DEF ServerInv, ServerTypeOK, NoPermitLost, WorkerStep
    <2> QED BY <2>1, <2>3, <2>4 DEF ServerInv, NoPermitLost
  <1> QED BY <1>1, <1>2, PTL DEF ServerSpec

\* Server._slots and _forgot_slots implement pools of permits.
THEOREM ServerImplementsPools == ServerSpec => SlotsArePools
  <1>1. ServerInit => Connections!PoolInit /\ Workers!PoolInit
    BY FS_EmptySet, ServerAssumption DEF ServerInit, Connections!PoolInit, Workers!PoolInit
  <1>2. ASSUME ServerInv, [ServerNext]_serverVars
        PROVE  [Connections!Acquire \/ Connections!Release]_
                  <<slots, Cardinality(serving) + (IF accepting = "spawn" THEN 1 ELSE 0)>>
    BY <1>2, PoolSteps
    DEF ServerInv, ConnectionStep, Held, Connections!Acquire, Connections!Release
  <1>3. ASSUME ServerInv, [ServerNext]_serverVars
        PROVE  [Workers!Acquire \/ Workers!Release]_
                  <<forgotSlots, workers + Cardinality(asking) + leaked>>
    BY <1>3, PoolSteps
    DEF ServerInv, WorkerStep, ForgotHeld, Workers!Acquire, Workers!Release
  <1> QED BY <1>1, <1>2, <1>3, ServerInvariant, PTL
       DEF ServerSpec, SlotsArePools, Connections!PoolSpec, Workers!PoolSpec

----------------------------------------------------------------------------
(* Layout: a durable register, and an overview that shows each device once *)

\* The numbers of a set below one of its own: fewer than it has.
LEMMA UnderOK ==
  ASSUME NEW S, S \subseteq Nat, IsFiniteSet(S), NEW j \in S
  PROVE  /\ IsFiniteSet(Under(S, j)) /\ Cardinality(Under(S, j)) \in 0..(Cardinality(S) - 1)
         /\ Cardinality(Under(S, j)) \in Nat
         /\ \A i \in S : i < j => Cardinality(Under(S, i)) < Cardinality(Under(S, j))
  <1>1. \A i \in S : /\ Under(S, i) \subseteq S /\ i \notin Under(S, i)
                     /\ Under(S, i) \cup {i} \subseteq S
    BY DEF Under
  <1>2. \A i \in S : IsFiniteSet(Under(S, i)) BY <1>1, FS_Subset
  <1>3. \A i \in S : Cardinality(Under(S, i)) \in Nat BY <1>2, FS_CardinalityType
  <1>4. \A i \in S : Cardinality(Under(S, i) \cup {i}) = Cardinality(Under(S, i)) + 1
    BY <1>1, <1>2, FS_AddElement
  <1>5. Cardinality(Under(S, j) \cup {j}) <= Cardinality(S) BY <1>1, FS_Subset
  <1>6. Cardinality(S) \in Nat BY FS_CardinalityType
  <1>7. ASSUME NEW i \in S, i < j
        PROVE  Cardinality(Under(S, i)) < Cardinality(Under(S, j))
    <2>1. \A x \in S : x \in Nat OBVIOUS
    <2>2. Under(S, i) \cup {i} \subseteq Under(S, j)
      <3> SUFFICES ASSUME NEW x \in Under(S, i) \cup {i} PROVE x \in Under(S, j)
        OBVIOUS
      <3>1. x \in S /\ (x < i \/ x = i) BY DEF Under
      <3>2. x \in Nat /\ i \in Nat /\ j \in Nat BY <2>1, <3>1
      <3>3. x < j BY <1>7, <3>1, <3>2
      <3> QED BY <3>1, <3>3 DEF Under
    <2>3. Cardinality(Under(S, i) \cup {i}) <= Cardinality(Under(S, j))
      BY <1>2, <2>2, FS_Subset
    <2>4. Cardinality(Under(S, i) \cup {i}) = Cardinality(Under(S, i)) + 1 BY <1>4
    <2>5. Cardinality(Under(S, i)) \in Nat /\ Cardinality(Under(S, j)) \in Nat BY <1>3
    <2> QED BY <2>3, <2>4, <2>5
  <1> QED BY <1>2, <1>3, <1>4, <1>5, <1>6, <1>7

\* Nth counts a finite set of numbers through, each once.
LEMMA NthCounts ==
  ASSUME NEW S, S \subseteq Nat, IsFiniteSet(S)
  PROVE  /\ \A k \in 1..Cardinality(S) : Nth(S, k) \in S
         /\ \A k, m \in 1..Cardinality(S) : Nth(S, k) = Nth(S, m) => k = m
         /\ \A j \in S : \E k \in 1..Cardinality(S) : Nth(S, k) = j
  <1> DEFINE rank == [j \in S |-> Cardinality(Under(S, j))]
  <1>1. PICK N \in Nat : N = Cardinality(S) BY FS_CardinalityType
  <1>2. rank \in [S -> 0..(N - 1)] BY <1>1, UnderOK
  <1>3. \A i, j \in S : rank[i] = rank[j] => i = j
    <2> SUFFICES ASSUME NEW i \in S, NEW j \in S, rank[i] = rank[j], i # j PROVE FALSE
      OBVIOUS
    <2>1. i < j \/ j < i OBVIOUS
    <2>2. Cardinality(Under(S, i)) = Cardinality(Under(S, j)) OBVIOUS
    <2>3. Cardinality(Under(S, i)) \in Nat BY UnderOK
    <2>4. /\ i < j => Cardinality(Under(S, i)) < Cardinality(Under(S, j))
          /\ j < i => Cardinality(Under(S, j)) < Cardinality(Under(S, i))
      BY UnderOK
    <2> QED BY <2>1, <2>2, <2>3, <2>4
  <1>4. \A k \in 1..N : (\E j \in S : rank[j] = k - 1) => Nth(S, k) \in S /\ rank[Nth(S, k)] = k - 1
    BY DEF Nth
  <1> HIDE DEF rank
  <1>5. rank \in Injection(S, 0..(N - 1)) BY <1>2, <1>3, Fun_IsInj
  <1>6. IsFiniteSet(0..(N - 1)) /\ Cardinality(0..(N - 1)) = N BY IntervalSize
  <1>7. rank \in Surjection(S, 0..(N - 1)) BY <1>1, <1>5, <1>6, FS_Injection
  <1>8. \A t \in 0..(N - 1) : \E s \in S : rank[s] = t
    BY <1>7, Fun_SurjectionProperties
  <1>9. \A k \in 1..N : Nth(S, k) \in S /\ rank[Nth(S, k)] = k - 1
    <2> TAKE k \in 1..N
    <2>1. k - 1 \in 0..(N - 1) OBVIOUS
    <2> QED BY <1>4, <1>8, <2>1
  <1>10. ASSUME NEW k \in 1..N, NEW m \in 1..N, Nth(S, k) = Nth(S, m) PROVE k = m
    <2>1. k - 1 = m - 1 BY <1>9, <1>10
    <2> QED BY <2>1
  <1>11. ASSUME NEW j \in S PROVE \E k \in 1..N : Nth(S, k) = j
    <2>1. rank[j] \in 0..(N - 1) BY <1>2
    <2>2. rank[j] + 1 \in 1..N /\ (rank[j] + 1) - 1 = rank[j] BY <2>1
    <2>3. rank[Nth(S, rank[j] + 1)] = rank[j] /\ Nth(S, rank[j] + 1) \in S
      BY <1>9, <2>2
    <2> QED BY <1>3, <2>2, <2>3
  <1> QED BY <1>1, <1>9, <1>10, <1>11

\* A layout, told by its lengths and its devices.
LEMMA LayoutsAre ==
  ASSUME NEW l
  PROVE  l \in Layouts
           <=> \E m \in 0..MaxGroups : l \in [1..m -> BoundedSeq(DeviceNames, MaxPlaced)]
  BY DEF Layouts, BoundedSeq, SeqOf

LEMMA CategoriesAre ==
  ASSUME NEW s
  PROVE  s \in BoundedSeq(DeviceNames, MaxPlaced)
           <=> \E m \in 0..MaxPlaced : s \in [1..m -> DeviceNames]
  BY DEF BoundedSeq, SeqOf

LEMMA LayoutShape ==
  ASSUME NEW l \in Layouts
  PROVE  /\ Len(l) \in 0..MaxGroups /\ DOMAIN l = 1..Len(l)
         /\ \A c \in 1..Len(l) :
              /\ Len(l[c]) \in 0..MaxPlaced /\ DOMAIN l[c] = 1..Len(l[c])
              /\ \A j \in 1..Len(l[c]) : l[c][j] \in DeviceNames
  <1>1. PICK m \in 0..MaxGroups : l \in [1..m -> BoundedSeq(DeviceNames, MaxPlaced)]
    BY LayoutsAre
  <1>2. Len(l) = m /\ DOMAIN l = 1..m BY <1>1, LayoutAssumption
  <1>3. ASSUME NEW c \in 1..m
        PROVE  /\ Len(l[c]) \in 0..MaxPlaced /\ DOMAIN l[c] = 1..Len(l[c])
               /\ \A j \in 1..Len(l[c]) : l[c][j] \in DeviceNames
    <2>1. l[c] \in BoundedSeq(DeviceNames, MaxPlaced) BY <1>1
    <2>2. PICK n \in 0..MaxPlaced : l[c] \in [1..n -> DeviceNames] BY <2>1, CategoriesAre
    <2>3. Len(l[c]) = n BY <2>2, LayoutAssumption
    <2> QED BY <2>2, <2>3
  <1> QED BY <1>2, <1>3

\* The places a category keeps, counted.
LEMMA KeptOK ==
  ASSUME NEW l \in Layouts, NEW valid, NEW c \in 1..Len(l)
  PROVE  /\ KeptOf(l, c, valid) \subseteq 1..Len(l[c]) /\ KeptOf(l, c, valid) \subseteq Nat
         /\ IsFiniteSet(KeptOf(l, c, valid))
         /\ Cardinality(KeptOf(l, c, valid)) \in 0..MaxPlaced
  <1>1. Len(l[c]) \in 0..MaxPlaced BY LayoutShape
  <1>2. IsFiniteSet(1..Len(l[c])) /\ Cardinality(1..Len(l[c])) = Len(l[c])
    BY <1>1, IntervalSize, LayoutAssumption
  <1>3. KeptOf(l, c, valid) \subseteq 1..Len(l[c]) BY DEF KeptOf
  <1>4. /\ IsFiniteSet(KeptOf(l, c, valid))
        /\ Cardinality(KeptOf(l, c, valid)) <= Cardinality(1..Len(l[c]))
    BY <1>2, <1>3, FS_Subset
  <1>5. Cardinality(KeptOf(l, c, valid)) \in Nat BY <1>4, FS_CardinalityType
  <1> QED BY <1>1, <1>2, <1>3, <1>4, <1>5, LayoutAssumption

\* What _validate_layout returns is a layout again.
LEMMA PlacedIsLayout ==
  ASSUME NEW l \in Layouts, NEW valid
  PROVE  /\ Placed(l, valid) \in Layouts
         /\ Len(Placed(l, valid)) = Len(l)
         /\ \A c \in 1..Len(l) :
              /\ Len(Placed(l, valid)[c]) = Cardinality(KeptOf(l, c, valid))
              /\ \A k \in 1..Cardinality(KeptOf(l, c, valid)) :
                   Placed(l, valid)[c][k] = l[c][Nth(KeptOf(l, c, valid), k)]
  <1> DEFINE row(c) == [k \in 1..Cardinality(KeptOf(l, c, valid)) |->
                          l[c][Nth(KeptOf(l, c, valid), k)]]
  <1>1. Len(l) \in 0..MaxGroups BY LayoutShape
  <1>2. ASSUME NEW c \in 1..Len(l)
        PROVE  row(c) \in BoundedSeq(DeviceNames, MaxPlaced)
               /\ Len(row(c)) = Cardinality(KeptOf(l, c, valid))
    <2> DEFINE n == Cardinality(KeptOf(l, c, valid))
    <2>1. n \in 0..MaxPlaced BY KeptOK
    <2>2. \A k \in 1..n : Nth(KeptOf(l, c, valid), k) \in 1..Len(l[c])
      BY KeptOK, NthCounts
    <2>3. row(c) \in [1..n -> DeviceNames] BY <2>2, LayoutShape
    <2>4. Len(row(c)) = n BY <2>1, LayoutAssumption
    <2> HIDE DEF n, row
    <2> QED BY <2>1, <2>3, <2>4, CategoriesAre DEF n
  <1>3. Placed(l, valid) = [c \in 1..Len(l) |-> row(c)] BY DEF Placed
  <1>4. Placed(l, valid) \in [1..Len(l) -> BoundedSeq(DeviceNames, MaxPlaced)]
    BY <1>2, <1>3
  <1>5. Placed(l, valid) \in Layouts BY <1>1, <1>4, LayoutsAre
  <1>6. Len(Placed(l, valid)) = Len(l) BY <1>1, <1>3, LayoutAssumption
  <1>7. \A c \in 1..Len(l) : Placed(l, valid)[c] = row(c) BY <1>3
  <1> QED BY <1>2, <1>5, <1>6, <1>7

\* A request that saves, and one that reads.
SaveTask == [op : {"save", "dump", "replace", "assign"}, new : Layouts]
ReadTask == [op : {"resolve"}, got : Layouts]

LayoutTypeOK ==
  /\ file \in [ok : BOOLEAN, cats : Layouts] /\ Parsed(file) \in Layouts /\ cats \in Layouts
  /\ devices \subseteq DeviceNames /\ running \in BOOLEAN
  /\ layTask \in [Threads -> {Idle} \cup SaveTask \cup ReadTask]

\* Only the holder of the lock is past taking it.
LockHeld ==
  \A r \in Threads : layTask[r].op \in {"dump", "replace", "assign"} => holder = r

\* The copy in memory is what the file holds, but between os.replace and the
\* assignment, and then the file holds what is about to be assigned.
MemoryFits ==
  /\ running /\ (\A r \in Threads : layTask[r].op # "assign") => cats = Parsed(file)
  /\ \A r \in Threads : layTask[r].op = "assign" => Parsed(file) = layTask[r].new

\* No request outlives the process.
DownIsIdle == ~running => \A r \in Threads : layTask[r] = Idle

LayoutInv == LayoutTypeOK /\ LockHeld /\ MemoryFits /\ DownIsIdle

\* The empty layout is one.
LEMMA EmptyLayout == <<>> \in Layouts
  <1>1. 0 \in 0..MaxGroups BY LayoutAssumption
  <1>2. <<>> \in [1..0 -> BoundedSeq(DeviceNames, MaxPlaced)] OBVIOUS
  <1> QED BY <1>1, <1>2, LayoutsAre

\* A file that was written parses to what was written.
LEMMA ParsedFile ==
  ASSUME NEW l
  PROVE  Parsed(FileOf(l)) = l /\ (l \in Layouts => FileOf(l) \in [ok : BOOLEAN, cats : Layouts])
  BY DEF Parsed, FileOf

\* What a request looks like to the register.
LEMMA CallOfIs ==
  /\ CallOf(Idle) = Idle
  /\ \A t \in SaveTask : CallOf(t) = IF t.op = "assign" THEN [op |-> "written"]
                                     ELSE [op |-> "write", new |-> t.new]
  /\ \A t \in ReadTask : CallOf(t) = [op |-> "read", got |-> t.got]
  BY DEF CallOf, SaveTask, ReadTask, Idle

\* A step of one request, its lock and its file, keeps LayoutInv.
LEMMA LayoutInvStep ==
  ASSUME LayoutInv, [LayoutNext]_layoutVars
  PROVE  LayoutInv'
  <1> USE DEF LayoutInv, LayoutTypeOK, LockHeld, MemoryFits, DownIsIdle
  <1>1. CASE UNCHANGED layoutVars BY <1>1 DEF layoutVars
  <1>2. CASE Kill BY <1>2, EmptyLayout DEF Kill, Idle
  <1>3. CASE Start BY <1>3 DEF Start
  <1>4. ASSUME NEW r \in Threads, SaveLayout(r) PROVE LayoutInv'
    <2>1. PICK l \in Layouts : Becomes(r, [op |-> "save", new |-> Placed(l, devices)])
      BY <1>4 DEF SaveLayout
    <2>2. Placed(l, devices) \in Layouts BY PlacedIsLayout
    <2>3. PICK t \in SaveTask : t.op = "save" /\ layTask' = [layTask EXCEPT ![r] = t]
      BY <2>1, <2>2 DEF Becomes, SaveTask
    <2>4. running /\ layTask[r] = Idle /\ UNCHANGED <<file, cats, devices, running, holder>>
      BY <1>4 DEF SaveLayout
    <2> QED BY <2>3, <2>4 DEF Idle
  <1>5. ASSUME NEW r \in Threads, TakeLock(r) \/ DumpTemp(r) \/ Replace(r) PROVE LayoutInv'
    <2>1. layTask[r] \in SaveTask /\ layTask[r] # Idle
      BY <1>5 DEF TakeLock, DumpTemp, Replace, SaveTask, ReadTask, Idle
    <2>2. ASSUME NEW p \in {"dump", "replace", "assign"}
          PROVE  /\ [layTask[r] EXCEPT !.op = p] \in SaveTask
                 /\ [layTask[r] EXCEPT !.op = p].op = p
                 /\ [layTask[r] EXCEPT !.op = p].new = layTask[r].new
      BY <2>1 DEF SaveTask
    <2>3. CASE TakeLock(r)
      <3>1. PICK t \in SaveTask : t.op = "dump" /\ layTask' = [layTask EXCEPT ![r] = t]
        BY <2>2, <2>3 DEF TakeLock, Becomes
      <3>2. layTask[r].op = "save" /\ holder = NoOne /\ holder' = r /\ UNCHANGED <<file, cats, devices, running>>
        BY <2>3 DEF TakeLock
      <3>3. \A q \in Threads : layTask[q].op \notin {"dump", "replace", "assign"}
        BY <3>2, LayoutAssumption
      <3>4. running BY <2>1
      <3> QED BY <3>1, <3>2, <3>3, <3>4
    <2>4. CASE DumpTemp(r)
      <3>1. PICK t \in SaveTask : t.op = "replace" /\ layTask' = [layTask EXCEPT ![r] = t]
        BY <2>2, <2>4 DEF DumpTemp, Becomes
      <3>2. layTask[r].op = "dump" /\ UNCHANGED <<file, cats, devices, running, holder>>
        BY <2>4 DEF DumpTemp
      <3> QED BY <2>1, <3>1, <3>2
    <2>5. CASE Replace(r)
      <3>1. PICK t \in SaveTask : /\ t.op = "assign" /\ t.new = layTask[r].new
                                  /\ layTask' = [layTask EXCEPT ![r] = t]
        BY <2>2, <2>5 DEF Replace, Becomes
      <3>2. layTask[r].op = "replace" /\ file' = FileOf(t.new) /\ UNCHANGED <<cats, devices, running, holder>>
        BY <2>5, <3>1 DEF Replace
      <3>3. t.new \in Layouts BY DEF SaveTask
      <3>4. /\ file' \in [ok : BOOLEAN, cats : Layouts] /\ Parsed(file') = t.new
        BY <3>2, <3>3, ParsedFile
      <3>5. \A q \in Threads \ {r} : layTask[q].op # "assign"
        BY <3>2
      <3> QED BY <2>1, <3>1, <3>2, <3>3, <3>4, <3>5
    <2> QED BY <1>5, <2>3, <2>4, <2>5
  <1>6. ASSUME NEW r \in Threads, Assign(r) PROVE LayoutInv'
    <2>1. layTask[r].op = "assign" /\ cats' = layTask[r].new /\ UNCHANGED <<file, devices, running>>
      BY <1>6 DEF Assign
    <2>2. holder' = NoOne /\ layTask' = [layTask EXCEPT ![r] = Idle] BY <1>6 DEF Assign, Becomes
    <2>3. \A q \in Threads \ {r} : layTask[q].op \notin {"dump", "replace", "assign"}
      BY <2>1
    <2> QED BY <2>1, <2>2, <2>3 DEF Idle
  <1>7. ASSUME NEW r \in Threads, WriteFails(r) PROVE LayoutInv'
    <2>1. /\ layTask[r].op \in {"dump", "replace"} /\ holder' = NoOne
          /\ layTask' = [layTask EXCEPT ![r] = Idle] /\ UNCHANGED <<file, cats, devices, running>>
      BY <1>7 DEF WriteFails, Becomes
    <2>2. \A q \in Threads \ {r} : layTask[q].op \notin {"dump", "replace", "assign"}
      BY <2>1
    <2> QED BY <2>1, <2>2 DEF Idle
  <1>8. ASSUME NEW r \in Threads, CopyLayout(r) PROVE LayoutInv'
    <2>1. PICK t \in ReadTask : layTask' = [layTask EXCEPT ![r] = t]
      BY <1>8 DEF CopyLayout, Becomes, ReadTask
    <2>2. running /\ layTask[r] = Idle /\ UNCHANGED <<file, cats, devices, running, holder>>
      BY <1>8 DEF CopyLayout
    <2> QED BY <2>1, <2>2 DEF Idle, ReadTask
  <1>9. ASSUME NEW r \in Threads, AnswerLayout(r) PROVE LayoutInv'
    BY <1>9 DEF AnswerLayout, Becomes, Idle
  <1> QED BY <1>1, <1>2, <1>3, <1>4, <1>5, <1>6, <1>7, <1>8, <1>9 DEF LayoutNext

\* LayoutInv holds throughout.
LEMMA LayoutInvariant == LayoutSpec => []LayoutInv
  <1>1. LayoutInit => LayoutInv
    <2> SUFFICES ASSUME LayoutInit PROVE LayoutInv OBVIOUS
    <2>1. file \in [ok : BOOLEAN, cats : Layouts] /\ Parsed(file) \in Layouts
      <3>1. CASE file = Broken BY <3>1, EmptyLayout DEF Broken, Parsed
      <3>2. ASSUME NEW l \in Layouts, file = FileOf(l)
            PROVE  file \in [ok : BOOLEAN, cats : Layouts] /\ Parsed(file) \in Layouts
        BY <3>2, ParsedFile
      <3> QED BY <3>1, <3>2 DEF LayoutInit
    <2> QED BY <2>1 DEF LayoutInit, LayoutInv, LayoutTypeOK, LockHeld, MemoryFits, DownIsIdle, Idle
  <1>2. LayoutInv /\ [LayoutNext]_layoutVars => LayoutInv' BY LayoutInvStep
  <1> QED BY <1>1, <1>2, PTL DEF LayoutSpec

\* The register's clients while one request of the store moves.
LEMMA ClientStep ==
  ASSUME LayoutTypeOK, NEW r \in Threads, NEW t, layTask' = [layTask EXCEPT ![r] = t],
         NEW call, CallOf(t) = call
  PROVE  [q \in Threads |-> CallOf(layTask[q])]'
           = [[q \in Threads |-> CallOf(layTask[q])] EXCEPT ![r] = call]
  BY DEF LayoutTypeOK

\* A request's step is a step of the register, or none.
LEMMA RegisterStep ==
  ASSUME LayoutInv, [LayoutNext]_layoutVars
  PROVE  [Saved!RegisterNext]_<<Parsed(file), [r \in Threads |-> CallOf(layTask[r])]>>
  <1> DEFINE client == [r \in Threads |-> CallOf(layTask[r])]
             value == Parsed(file)
  <1> USE DEF Saved!NoCall, Saved!Calls
  <1>0. LayoutTypeOK /\ \A r \in Threads : client[r] = CallOf(layTask[r])
    BY DEF LayoutInv
  <1>1. CASE UNCHANGED <<file, layTask>>
    BY <1>1 DEF Parsed
  <1>2. CASE Kill
    <2>1. layTask' = [r \in Threads |-> Idle] /\ UNCHANGED file BY <1>2 DEF Kill
    <2>2. client' = [r \in Threads |-> Idle] BY <2>1, CallOfIs
    <2>3. Saved!Crash BY <2>1, <2>2 DEF Saved!Crash, Idle
    <2> QED BY <2>3 DEF Saved!RegisterNext
  <1>3. ASSUME NEW r \in Threads, SaveLayout(r) PROVE Saved!RegisterNext
    <2>1. PICK l \in Layouts : Becomes(r, [op |-> "save", new |-> Placed(l, devices)])
      BY <1>3 DEF SaveLayout
    <2>2. Placed(l, devices) \in Layouts BY PlacedIsLayout
    <2> DEFINE t == [op |-> "save", new |-> Placed(l, devices)]
    <2>3. t \in SaveTask /\ CallOf(t) = [op |-> "write", new |-> Placed(l, devices)]
      BY <2>2, CallOfIs DEF SaveTask
    <2>4. client' = [client EXCEPT ![r] = [op |-> "write", new |-> Placed(l, devices)]]
      <3>1. layTask' = [layTask EXCEPT ![r] = t] BY <2>1 DEF Becomes
      <3> HIDE DEF t
      <3> QED BY <1>0, <2>3, <3>1, ClientStep
    <2>5. client[r] = Idle /\ UNCHANGED value
      BY <1>0, <1>3, CallOfIs DEF SaveLayout
    <2>6. Saved!Invoke(r) BY <2>2, <2>4, <2>5 DEF Saved!Invoke, Idle
    <2> QED BY <2>6 DEF Saved!RegisterNext
  <1>4. ASSUME NEW r \in Threads, TakeLock(r) \/ DumpTemp(r)
        PROVE  UNCHANGED <<client, value>>
    <2>1. layTask[r] \in SaveTask /\ layTask[r].op \in {"save", "dump"}
      BY <1>0, <1>4 DEF LayoutTypeOK, TakeLock, DumpTemp, SaveTask, ReadTask, Idle
    <2>2. PICK t \in SaveTask : /\ t.op # "assign" /\ t.new = layTask[r].new
                                /\ layTask' = [layTask EXCEPT ![r] = t]
      BY <1>4, <2>1 DEF TakeLock, DumpTemp, Becomes, SaveTask
    <2>3. CallOf(t) = CallOf(layTask[r]) BY <2>1, <2>2, CallOfIs
    <2>4. client' = [client EXCEPT ![r] = client[r]] BY <1>0, <2>2, <2>3, ClientStep
    <2>5. client' = client BY <2>4
    <2> QED BY <1>4, <2>5 DEF TakeLock, DumpTemp
  <1>5. ASSUME NEW r \in Threads, Replace(r) PROVE Saved!RegisterNext
    <2>1. layTask[r] \in SaveTask /\ layTask[r].op = "replace"
      BY <1>0, <1>5 DEF LayoutTypeOK, Replace, SaveTask, ReadTask, Idle
    <2>2. PICK t \in SaveTask : t.op = "assign" /\ layTask' = [layTask EXCEPT ![r] = t]
      BY <1>5, <2>1 DEF Replace, Becomes, SaveTask
    <2>3. client' = [client EXCEPT ![r] = [op |-> "written"]]
      <3>1. CallOf(t) = [op |-> "written"] BY <2>2, CallOfIs
      <3> QED BY <1>0, <2>2, <3>1, ClientStep
    <2>4. client[r] = [op |-> "write", new |-> layTask[r].new] BY <1>0, <2>1, CallOfIs
    <2>5. value' = layTask[r].new BY <1>5, ParsedFile DEF Replace
    <2>6. Saved!Commit(r) BY <2>3, <2>4, <2>5 DEF Saved!Commit
    <2> QED BY <2>6 DEF Saved!RegisterNext
  <1>6. ASSUME NEW r \in Threads, Assign(r) \/ WriteFails(r) \/ AnswerLayout(r)
        PROVE  Saved!RegisterNext
    <2>1. layTask' = [layTask EXCEPT ![r] = Idle] /\ UNCHANGED value
      BY <1>6 DEF Assign, WriteFails, AnswerLayout, Becomes
    <2>2. client' = [client EXCEPT ![r] = Idle]
      <3>1. CallOf(Idle) = Idle BY CallOfIs
      <3> QED BY <1>0, <2>1, <3>1, ClientStep
    <2>3. client[r].op \in {"write", "written", "read"}
      <3>1. layTask[r].op \in {"assign", "dump", "replace", "resolve"}
        BY <1>6 DEF Assign, WriteFails, AnswerLayout
      <3>2. layTask[r] \in SaveTask \cup ReadTask
        BY <1>0, <3>1 DEF LayoutTypeOK, Idle
      <3> QED BY <1>0, <3>2, CallOfIs
    <2>4. Saved!Fail(r) \/ Saved!Return(r)
      BY <2>1, <2>2, <2>3 DEF Saved!Fail, Saved!Return, Idle
    <2> QED BY <2>4 DEF Saved!RegisterNext
  <1>7. ASSUME NEW r \in Threads, CopyLayout(r) PROVE Saved!RegisterNext
    <2>1. \A q \in Threads : layTask[q].op # "assign"
      BY <1>7, LayoutAssumption DEF CopyLayout, LayoutInv, LockHeld
    <2>2. cats = value BY <1>7, <2>1 DEF CopyLayout, LayoutInv, MemoryFits
    <2> DEFINE t == [op |-> "resolve", got |-> cats]
    <2>3. t \in ReadTask /\ CallOf(t) = [op |-> "read", got |-> value]
      BY <1>0, <2>2, CallOfIs DEF ReadTask, LayoutTypeOK
    <2>4. client' = [client EXCEPT ![r] = [op |-> "read", got |-> value]]
      BY <1>0, <1>7, <2>3, ClientStep DEF CopyLayout, Becomes
    <2>5. client[r] = Idle /\ UNCHANGED value
      BY <1>0, <1>7, CallOfIs DEF CopyLayout
    <2>6. Saved!Read(r) BY <2>4, <2>5 DEF Saved!Read, Idle
    <2> QED BY <2>6 DEF Saved!RegisterNext
  <1> QED BY <1>1, <1>2, <1>3, <1>4, <1>5, <1>6, <1>7 DEF LayoutNext, layoutVars, Start

\* LayoutStore implements a durable register: what a crash, a failed write or
\* a concurrent read can see of a save is all of it or nothing.
THEOREM StoreImplementsRegister == LayoutSpec => LayoutDurable
  <1>1. LayoutInit => Saved!RegisterInit
    <2> SUFFICES ASSUME LayoutInit PROVE Saved!RegisterInit OBVIOUS
    <2>1. Parsed(file) \in Layouts
      BY EmptyLayout, ParsedFile DEF LayoutInit, Parsed, Broken
    <2>2. [r \in Threads |-> CallOf(layTask[r])] = [r \in Threads |-> Idle]
      BY CallOfIs DEF LayoutInit
    <2> QED BY <2>1, <2>2 DEF Saved!RegisterInit, Saved!NoCall, Idle
  <1>2. LayoutInv /\ [LayoutNext]_layoutVars
          => [Saved!RegisterNext]_<<Parsed(file), [r \in Threads |-> CallOf(layTask[r])]>>
    BY RegisterStep
  <1> QED BY <1>1, <1>2, LayoutInvariant, PTL DEF LayoutSpec, LayoutDurable, Saved!RegisterSpec

\* The place of a layout that place p of its cleaned form was copied from.
Origin(l, valid, p) == <<p[1], Nth(KeptOf(l, p[1], valid), p[2])>>

\* A cleaned layout shows at each place a device that was kept.
LEMMA OriginOK ==
  ASSUME NEW l \in Layouts, NEW valid, NEW p \in Places(Placed(l, valid))
  PROVE  /\ Origin(l, valid, p) \in Places(l)
         /\ Keeps(l, Origin(l, valid, p), valid)
         /\ At(Placed(l, valid), p) = At(l, Origin(l, valid, p))
  <1> DEFINE c == p[1]
             k == p[2]
             K == KeptOf(l, c, valid)
  <1>1. /\ c \in 1..Len(l) /\ c \in 1..MaxGroups
        /\ k \in 1..Cardinality(K) /\ Placed(l, valid)[c][k] = l[c][Nth(K, k)]
    <2>1. c \in 1..Len(Placed(l, valid)) /\ c \in 1..MaxGroups /\ k \in 1..Len(Placed(l, valid)[c])
      BY DEF Places
    <2> QED BY <2>1, PlacedIsLayout
  <1>2. Nth(K, k) \in K BY <1>1, KeptOK, NthCounts
  <1>3. Nth(K, k) \in 1..Len(l[c]) /\ Keeps(l, <<c, Nth(K, k)>>, valid)
    BY <1>2 DEF KeptOf
  <1>4. Len(l[c]) \in 0..MaxPlaced BY <1>1, LayoutShape
  <1>5. Nth(K, k) \in 1..MaxPlaced BY <1>3, <1>4, LayoutAssumption
  <1> HIDE DEF K
  <1>6. <<c, Nth(K, k)>> \in Places(l) BY <1>1, <1>3, <1>5 DEF Places
  <1>7. At(Placed(l, valid), p) = At(l, <<c, Nth(K, k)>>) BY <1>1 DEF At
  <1> QED BY <1>3, <1>6, <1>7 DEF Origin, K

\* No two places keep the same device, and no two copies have one origin.
LEMMA OriginUnique ==
  ASSUME NEW l \in Layouts, NEW valid,
         NEW p \in Places(Placed(l, valid)), NEW q \in Places(Placed(l, valid)),
         At(Placed(l, valid), p) = At(Placed(l, valid), q)
  PROVE  p = q
  <1> DEFINE x == Origin(l, valid, p)
             y == Origin(l, valid, q)
  <1>1. /\ x \in Places(l) /\ y \in Places(l) /\ At(l, x) = At(l, y)
        /\ Keeps(l, x, valid) /\ Keeps(l, y, valid)
    BY OriginOK
  <1>2. ~Before(x, y) /\ ~Before(y, x)
    <2> HIDE DEF x, y
    <2> QED BY <1>1 DEF Keeps
  <1>3. x[1] \in Nat /\ y[1] \in Nat /\ x[2] \in Nat /\ y[2] \in Nat
    <2> HIDE DEF x, y
    <2>1. x \in (1..MaxGroups) \X (1..MaxPlaced) /\ y \in (1..MaxGroups) \X (1..MaxPlaced)
      BY <1>1 DEF Places
    <2> QED BY <2>1
  <1>4. x[1] = y[1] /\ x[2] = y[2]
    <2> HIDE DEF x, y
    <2> QED BY <1>2, <1>3 DEF Before
  <1>5. p[1] = q[1] BY <1>4 DEF Origin
  <1>6. Nth(KeptOf(l, p[1], valid), p[2]) = Nth(KeptOf(l, p[1], valid), q[2])
    BY <1>4, <1>5 DEF Origin
  <1>7. /\ p[1] \in 1..Len(l)
        /\ p[2] \in 1..Cardinality(KeptOf(l, p[1], valid))
        /\ q[2] \in 1..Cardinality(KeptOf(l, p[1], valid))
    <2>1. /\ p[1] \in 1..Len(Placed(l, valid))
          /\ p[2] \in 1..Len(Placed(l, valid)[p[1]]) /\ q[2] \in 1..Len(Placed(l, valid)[p[1]])
      BY <1>5 DEF Places
    <2> QED BY <2>1, PlacedIsLayout
  <1>8. p[2] = q[2] BY <1>6, <1>7, KeptOK, NthCounts
  <1>9. p = <<p[1], p[2]>> /\ q = <<q[1], q[2]>> BY DEF Places
  <1> QED BY <1>5, <1>8, <1>9

\* The first place of a device in a layout.
LEMMA FirstPlace ==
  ASSUME NEW l \in Layouts, NEW d, NEW p \in Places(l), At(l, p) = d
  PROVE  \E q \in Places(l) : At(l, q) = d /\ \A x \in Places(l) : Before(x, q) => At(l, x) # d
  <1> DEFINE Q == {q \in Places(l) : At(l, q) = d}
             C == {q[1] : q \in Q}
  <1>0. \A q \in Q : q \in Places(l) /\ q[1] \in Nat /\ q[2] \in Nat /\ q = <<q[1], q[2]>>
    BY DEF Places
  <1>1. C \subseteq Nat /\ C # {} BY <1>0
  <1>2. PICK c \in C : \A e \in C : c <= e BY <1>1, LeastNumber
  <1> DEFINE J == {q[2] : q \in {z \in Q : z[1] = c}}
  <1>3. J \subseteq Nat /\ J # {} BY <1>0, <1>2
  <1>4. PICK j \in J : \A i \in J : j <= i BY <1>3, LeastNumber
  <1>5. PICK q \in Q : q[1] = c /\ q[2] = j BY <1>4
  <1>6. ASSUME NEW x \in Places(l), Before(x, q), At(l, x) = d PROVE FALSE
    <2>1. x \in Q BY <1>6
    <2>2. c <= x[1] BY <1>2, <2>1
    <2>3. x[1] = c => j <= x[2] BY <1>4, <2>1
    <2>4. x[1] \in Nat /\ x[2] \in Nat /\ q[1] \in Nat /\ q[2] \in Nat BY <1>0, <2>1
    <2> HIDE DEF Q, C, J
    <2> QED BY <1>5, <1>6, <2>2, <2>3, <2>4 DEF Before
  <1> QED BY <1>5, <1>6

\* A configured device that a layout names is shown.
LEMMA NamedIsShown ==
  ASSUME NEW l \in Layouts, NEW valid, NEW d \in valid, NEW p \in Places(l), At(l, p) = d
  PROVE  \E q \in Places(Placed(l, valid)) : At(Placed(l, valid), q) = d
  <1>1. PICK f \in Places(l) : At(l, f) = d /\ \A x \in Places(l) : Before(x, f) => At(l, x) # d
    BY FirstPlace
  <1>2. Keeps(l, f, valid) BY <1>1 DEF Keeps
  <1>3. /\ f = <<f[1], f[2]>> /\ f[1] \in 1..Len(l) /\ f[1] \in 1..MaxGroups
        /\ f[2] \in 1..Len(l[f[1]])
    BY DEF Places
  <1> DEFINE K == KeptOf(l, f[1], valid)
  <1>4. f[2] \in K BY <1>2, <1>3 DEF KeptOf
  <1>5. K \subseteq Nat /\ IsFiniteSet(K) /\ Cardinality(K) \in 0..MaxPlaced
    BY <1>3, KeptOK
  <1> HIDE DEF K
  <1>6. PICK k \in 1..Cardinality(K) : Nth(K, k) = f[2] BY <1>4, <1>5, NthCounts
  <1>7. /\ Len(Placed(l, valid)) = Len(l) /\ Len(Placed(l, valid)[f[1]]) = Cardinality(K)
        /\ Placed(l, valid)[f[1]][k] = l[f[1]][f[2]]
    BY <1>3, <1>6, PlacedIsLayout DEF K
  <1>8. <<f[1], k>> \in Places(Placed(l, valid))
    BY <1>3, <1>5, <1>7, LayoutAssumption DEF Places
  <1>9. At(Placed(l, valid), <<f[1], k>>) = d
    BY <1>1, <1>7 DEF At
  <1> QED BY <1>8, <1>9

\* What the overview shows of a layout: each configured device once, no other.
LEMMA EachOnce ==
  ASSUME NEW l \in Layouts, NEW valid, NEW d
  PROVE  Cardinality({p \in Places(Placed(l, valid)) : At(Placed(l, valid), p) = d})
           + (IF d \in Leftover(l, valid) THEN 1 ELSE 0)
             = (IF d \in valid THEN 1 ELSE 0)
  <1> DEFINE P == {p \in Places(Placed(l, valid)) : At(Placed(l, valid), p) = d}
  <1>1. CASE P = {}
    <2>1. Cardinality(P) = 0 BY <1>1, FS_EmptySet
    <2>2. d \in valid => d \in Leftover(l, valid) BY <1>1, NamedIsShown DEF Leftover
    <2>3. d \in Leftover(l, valid) => d \in valid BY DEF Leftover
    <2> HIDE DEF P
    <2> QED BY <2>1, <2>2, <2>3 DEF P
  <1>2. ASSUME NEW p \in P
        PROVE  Cardinality(P) = 1 /\ d \in valid /\ d \notin Leftover(l, valid)
    <2>1. P = {p} BY OriginUnique
    <2>2. Cardinality(P) = 1 BY <2>1, FS_Singleton
    <2>3. d \in valid /\ \E q \in Places(l) : At(l, q) = d
      BY OriginOK DEF Keeps
    <2> QED BY <2>2, <2>3 DEF Leftover
  <1> QED BY <1>1, <1>2

\* The overview (resolve) shows every configured device exactly once, whatever
\* is in layout.json.
THEOREM OverviewIsComplete == LayoutSpec => []ShowsEachOnce
  <1>1. LayoutInv => ShowsEachOnce
    <2> SUFFICES ASSUME LayoutInv, NEW r \in Threads, layTask[r].op = "resolve", NEW d \in DeviceNames
                 PROVE  Cardinality({p \in Places(Placed(layTask[r].got, devices)) :
                                       At(Placed(layTask[r].got, devices), p) = d})
                          + (IF d \in Leftover(layTask[r].got, devices) THEN 1 ELSE 0)
                            = (IF d \in devices THEN 1 ELSE 0)
      BY DEF ShowsEachOnce
    <2>1. layTask[r].got \in Layouts
      BY DEF LayoutInv, LayoutTypeOK, SaveTask, ReadTask, Idle
    <2> QED BY <2>1, EachOnce
  <1> QED BY <1>1, LayoutInvariant, PTL

----------------------------------------------------------------------------
(* Stats: bars at most a minute old *)

LogRowOf == [ts : Int, at : Nat, gone : Nat]

StatsTypeOK ==
  /\ now \in 0..MaxNow /\ logged \in Seq(LogRowOf)
  /\ statsTask \in [Threads -> {Idle} \cup [op : {"recent", "minutes"}, m0 : Nat]
                                 \cup [op : {"answer"}, m0 : Nat, bars : [0..(Bars - 1) -> Nat]]]

\* The rows a bar must count, and the ones it may.
MustCount(m0, b) == {i \in DOMAIN logged : InBar(m0, b, i) /\ logged[i].gone = Kept /\ logged[i].at < m0}
MayCount(m0, b) == {i \in DOMAIN logged : InBar(m0, b, i) /\ logged[i].gone >= m0}

\* Bars that are right for the minute m0, which has begun.
RightFor(m0, bars) ==
  /\ m0 \in Nat /\ m0 <= now
  /\ bars \in [0..(Bars - 1) -> Nat]
  /\ \A b \in 0..(Bars - 1) :
       Cardinality(MustCount(m0, b)) <= bars[b] /\ bars[b] <= Cardinality(MayCount(m0, b))

\* The cache, and the answers taken from it, are right for their minutes; a
\* request's minute has begun.
StatsInv ==
  /\ StatsTypeOK
  /\ histCache.key # NoMinute => RightFor(histCache.key, histCache.bars)
  /\ \A r \in Threads :
       /\ statsTask[r].op \in {"recent", "minutes"} => statsTask[r].m0 <= now
       /\ statsTask[r].op = "answer" => RightFor(statsTask[r].m0, statsTask[r].bars)

\* A minute begins at or before the times in it.
LEMMA MinuteBegun ==
  ASSUME NEW t \in Nat
  PROVE  MinuteOf(t) \in Nat /\ MinuteOf(t) <= t
  <1>1. t \div Minute \in Nat /\ t % Minute \in Nat
        /\ t = Minute * (t \div Minute) + (t % Minute)
    BY StatsAssumption
  <1>2. (t \div Minute) * Minute = Minute * (t \div Minute)
        /\ Minute * (t \div Minute) \in Nat
    BY <1>1, StatsAssumption
  <1> QED BY <1>1, <1>2 DEF MinuteOf

\* Rows by their ids.
LEMMA LoggedIds ==
  ASSUME NEW rows \in Seq(LogRowOf)
  PROVE  /\ Len(rows) \in Nat /\ DOMAIN rows = 1..Len(rows)
         /\ IsFiniteSet(DOMAIN rows)
         /\ \A i \in DOMAIN rows : rows[i] \in LogRowOf
  <1>1. Len(rows) \in Nat /\ DOMAIN rows = 1..Len(rows) OBVIOUS
  <1>2. IsFiniteSet(DOMAIN rows) BY <1>1, IntervalSize
  <1> QED BY <1>1, <1>2

\* Bars depend on the rows and the clock alone.
LEMMA SameRight ==
  ASSUME UNCHANGED <<now, logged>>
  PROVE  \A m0, bars : RightFor(m0, bars)' <=> RightFor(m0, bars)
  <1>1. \A m0, b : MustCount(m0, b)' = MustCount(m0, b) /\ MayCount(m0, b)' = MayCount(m0, b)
    BY DEF MustCount, MayCount, InBar
  <1> QED BY <1>1 DEF RightFor

\* A request's step that leaves the cache alone and answers nothing.
LEMMA StatsTaskOK ==
  ASSUME StatsInv, UNCHANGED <<now, logged, histCache>>, NEW r \in Threads,
         NEW t \in {Idle} \cup [op : {"recent", "minutes"}, m0 : Nat],
         t.op \in {"recent", "minutes"} => t.m0 <= now,
         statsTask' = [statsTask EXCEPT ![r] = t]
  PROVE  StatsInv'
  <1>1. \A m0, bars : RightFor(m0, bars)' <=> RightFor(m0, bars) BY SameRight
  <1>2. t.op # "answer" BY DEF Idle
  <1>3. StatsTypeOK' BY DEF StatsInv, StatsTypeOK
  <1> QED BY <1>1, <1>2, <1>3 DEF StatsInv, StatsTypeOK

\* Rows that come, with the present time, and a row that goes now, leave bars
\* of a minute that has begun right.
LEMMA RightStays ==
  ASSUME StatsTypeOK, StatsTypeOK', NEW m0, NEW bars, RightFor(m0, bars), now' = now,
         DOMAIN logged \subseteq DOMAIN logged',
         \A i \in DOMAIN logged :
           /\ logged'[i].ts = logged[i].ts /\ logged'[i].at = logged[i].at
           /\ logged'[i].gone = logged[i].gone \/ logged'[i].gone = now,
         \A i \in DOMAIN logged' \ DOMAIN logged : logged'[i].at = now
  PROVE  RightFor(m0, bars)'
  <1>1. m0 \in Nat /\ m0 <= now /\ now \in 0..MaxNow /\ MaxNow \in Nat
    BY StatsAssumption DEF RightFor, StatsTypeOK
  <1>2. ASSUME NEW b \in 0..(Bars - 1)
        PROVE  /\ Cardinality(MustCount(m0, b)') <= bars[b]
               /\ bars[b] <= Cardinality(MayCount(m0, b)')
    <2>1. MustCount(m0, b)' \subseteq MustCount(m0, b)
      BY <1>1 DEF MustCount, InBar, Kept
    <2>2. MayCount(m0, b) \subseteq MayCount(m0, b)'
      BY <1>1 DEF MayCount, InBar
    <2>3. IsFiniteSet(DOMAIN logged) /\ IsFiniteSet(DOMAIN logged')
      BY LoggedIds DEF StatsTypeOK
    <2>4. /\ IsFiniteSet(MustCount(m0, b)) /\ IsFiniteSet(MustCount(m0, b)')
          /\ IsFiniteSet(MayCount(m0, b)) /\ IsFiniteSet(MayCount(m0, b)')
      BY <2>3, FS_Subset DEF MustCount, MayCount
    <2>5. /\ Cardinality(MustCount(m0, b)') <= Cardinality(MustCount(m0, b))
          /\ Cardinality(MayCount(m0, b)) <= Cardinality(MayCount(m0, b)')
      BY <2>1, <2>2, <2>4, FS_Subset
    <2>6. /\ Cardinality(MustCount(m0, b)) \in Nat /\ Cardinality(MustCount(m0, b)') \in Nat
          /\ Cardinality(MayCount(m0, b)) \in Nat /\ Cardinality(MayCount(m0, b)') \in Nat
      BY <2>4, FS_CardinalityType
    <2>7. /\ bars[b] \in Nat /\ Cardinality(MustCount(m0, b)) <= bars[b]
          /\ bars[b] <= Cardinality(MayCount(m0, b))
      BY DEF RightFor
    <2> QED BY <2>5, <2>6, <2>7
  <1> QED BY <1>1, <1>2 DEF RightFor

\* A count made now is right for a minute that has begun.
LEMMA CountedRight ==
  ASSUME StatsTypeOK, NEW m0 \in Nat, m0 <= now
  PROVE  RightFor(m0, Counted(m0))
  <1>1. now \in 0..MaxNow /\ MaxNow \in Nat BY StatsAssumption DEF StatsTypeOK
  <1>2. ASSUME NEW b \in 0..(Bars - 1)
        PROVE  /\ Counted(m0)[b] \in Nat
               /\ Cardinality(MustCount(m0, b)) <= Counted(m0)[b]
               /\ Counted(m0)[b] <= Cardinality(MayCount(m0, b))
    <2> DEFINE S == {i \in There : InBar(m0, b, i)}
    <2>1. Counted(m0)[b] = Cardinality(S) BY DEF Counted
    <2>2. MustCount(m0, b) \subseteq S BY DEF MustCount, There
    <2>3. S \subseteq MayCount(m0, b) BY <1>1 DEF MayCount, There, Kept
    <2>4. IsFiniteSet(MayCount(m0, b))
      <3>1. IsFiniteSet(DOMAIN logged) BY LoggedIds DEF StatsTypeOK
      <3> QED BY <3>1, FS_Subset DEF MayCount
    <2> HIDE DEF S
    <2>5. IsFiniteSet(S) /\ Cardinality(S) <= Cardinality(MayCount(m0, b))
      BY <2>3, <2>4, FS_Subset
    <2>6. Cardinality(MustCount(m0, b)) <= Cardinality(S) BY <2>2, <2>5, FS_Subset
    <2>7. Cardinality(S) \in Nat BY <2>5, FS_CardinalityType
    <2> QED BY <2>1, <2>5, <2>6, <2>7
  <1>3. Counted(m0) \in [0..(Bars - 1) -> Nat]
    BY <1>2 DEF Counted
  <1> QED BY <1>2, <1>3 DEF RightFor

\* Every step keeps StatsInv.
LEMMA StatsStep ==
  ASSUME StatsInv, [StatsNext]_statsVars
  PROVE  StatsInv'
  <1>0. StatsTypeOK /\ now \in 0..MaxNow /\ MaxNow \in Nat
    BY StatsAssumption DEF StatsInv, StatsTypeOK
  <1>1. CASE UNCHANGED statsVars
    <2>1. \A m0, bars : RightFor(m0, bars)' <=> RightFor(m0, bars)
      BY <1>1, SameRight DEF statsVars
    <2>2. StatsTypeOK' BY <1>0, <1>1 DEF statsVars, StatsTypeOK
    <2> QED BY <1>1, <2>1, <2>2 DEF statsVars, StatsInv
  <1>2. CASE StatsTick
    <2>1. now' = now + 1 /\ now' \in 0..MaxNow /\ UNCHANGED <<logged, histCache, statsTask>>
      BY <1>0, <1>2 DEF StatsTick
    <2>2. StatsTypeOK' BY <1>0, <2>1 DEF StatsTypeOK
    <2>3. ASSUME NEW m0, NEW bars, RightFor(m0, bars) PROVE RightFor(m0, bars)'
      <3>1. \A b : MustCount(m0, b)' = MustCount(m0, b) /\ MayCount(m0, b)' = MayCount(m0, b)
        BY <2>1 DEF MustCount, MayCount, InBar
      <3>2. m0 \in Nat /\ m0 <= now' BY <1>0, <2>1, <2>3 DEF RightFor
      <3> QED BY <2>3, <3>1, <3>2 DEF RightFor
    <2>4. histCache'.key # NoMinute => RightFor(histCache.key, histCache.bars)'
      BY <2>1, <2>3 DEF StatsInv
    <2>5. ASSUME NEW r \in Threads
          PROVE  /\ statsTask'[r].op \in {"recent", "minutes"} => statsTask'[r].m0 <= now'
                 /\ statsTask'[r].op = "answer" => RightFor(statsTask[r].m0, statsTask[r].bars)'
      <3>1. statsTask[r].op \in {"recent", "minutes"} => statsTask[r].m0 \in Nat
        BY <1>0 DEF StatsTypeOK, Idle
      <3> QED BY <1>0, <2>1, <2>3, <3>1 DEF StatsInv
    <2> QED BY <2>2, <2>4, <2>5 DEF StatsInv
  <1>3. CASE LogRow \/ DropOldest
    <2>1. UNCHANGED <<now, histCache, statsTask>> BY <1>3 DEF LogRow, DropOldest
    <2>2. StatsTypeOK' /\ DOMAIN logged \subseteq DOMAIN logged'
          /\ (\A i \in DOMAIN logged :
                /\ logged'[i].ts = logged[i].ts /\ logged'[i].at = logged[i].at
                /\ logged'[i].gone = logged[i].gone \/ logged'[i].gone = now)
          /\ (\A i \in DOMAIN logged' \ DOMAIN logged : logged'[i].at = now)
      <3>1. CASE LogRow
        <4>1. PICK ts \in (now - LateMax)..now :
                logged' = Append(logged, [ts |-> ts, at |-> now, gone |-> Kept])
          BY <3>1 DEF LogRow
        <4>2. [ts |-> ts, at |-> now, gone |-> Kept] \in LogRowOf
          BY <1>0, StatsAssumption DEF LogRowOf, Kept
        <4>3. StatsTypeOK' BY <1>0, <2>1, <4>1, <4>2 DEF StatsTypeOK
        <4>4. DOMAIN logged = 1..Len(logged) /\ DOMAIN logged' = 1..(Len(logged) + 1)
              /\ Len(logged) \in Nat
          BY <1>0, <4>1, <4>2 DEF StatsTypeOK
        <4>5. \A i \in DOMAIN logged : logged'[i] = logged[i]
          BY <1>0, <4>1, <4>2, <4>4 DEF StatsTypeOK
        <4>6. logged'[Len(logged) + 1] = [ts |-> ts, at |-> now, gone |-> Kept]
          BY <1>0, <4>1, <4>2 DEF StatsTypeOK
        <4>7. \A i \in DOMAIN logged' \ DOMAIN logged : i = Len(logged) + 1 BY <4>4
        <4> QED BY <4>3, <4>4, <4>5, <4>6, <4>7
      <3>2. CASE DropOldest
        <4>1. PICK n : logged' = [logged EXCEPT ![n].gone = now] BY <3>2 DEF DropOldest
        <4>2. DOMAIN logged' = DOMAIN logged BY <4>1
        <4>3. \A i \in DOMAIN logged : logged[i] \in LogRowOf BY <1>0, LoggedIds DEF StatsTypeOK
        <4>4. \A i \in DOMAIN logged : logged'[i] = IF i = n THEN [logged[i] EXCEPT !.gone = now]
                                                    ELSE logged[i]
          BY <4>1
        <4>5. \A i \in DOMAIN logged :
                /\ logged'[i] \in LogRowOf
                /\ logged'[i].ts = logged[i].ts /\ logged'[i].at = logged[i].at
                /\ logged'[i].gone = logged[i].gone \/ logged'[i].gone = now
          <5> TAKE i \in DOMAIN logged
          <5>1. logged[i] \in LogRowOf /\ now \in Nat BY <1>0, <4>3
          <5>2. CASE i = n
            <6>1. logged'[i] = [logged[i] EXCEPT !.gone = now] BY <4>4, <5>2
            <6> QED BY <5>1, <6>1 DEF LogRowOf
          <5>3. CASE i # n BY <4>4, <5>1, <5>3
          <5> QED BY <5>2, <5>3
        <4>6. logged' \in Seq(LogRowOf)
          <5>1. DOMAIN logged = 1..Len(logged) /\ Len(logged) \in Nat
            BY <1>0, LoggedIds DEF StatsTypeOK
          <5>2. logged' \in [1..Len(logged) -> LogRowOf] BY <4>1, <4>2, <4>5, <5>1
          <5> QED BY <5>1, <5>2
        <4> QED BY <1>0, <2>1, <4>2, <4>5, <4>6 DEF StatsTypeOK
      <3> QED BY <1>3, <3>1, <3>2
    <2>3. ASSUME NEW m0, NEW bars, RightFor(m0, bars) PROVE RightFor(m0, bars)'
      BY <1>0, <2>1, <2>2, <2>3, RightStays
    <2> QED BY <2>1, <2>2, <2>3 DEF StatsInv
  <1>4. ASSUME NEW r \in Threads, StatsBegin(r) \/ ReadRecent(r) \/ AnswerStats(r) PROVE StatsInv'
    <2>1. CASE StatsBegin(r)
      <3> DEFINE t == [op |-> "recent", m0 |-> MinuteOf(now)]
      <3>1. MinuteOf(now) \in Nat /\ MinuteOf(now) <= now BY <1>0, MinuteBegun
      <3>2. t \in [op : {"recent", "minutes"}, m0 : Nat] /\ t.m0 <= now BY <3>1
      <3>3. statsTask' = [statsTask EXCEPT ![r] = t] /\ UNCHANGED <<now, logged, histCache>>
        BY <2>1 DEF StatsBegin
      <3> HIDE DEF t
      <3> QED BY <3>2, <3>3, StatsTaskOK
    <2>2. CASE ReadRecent(r)
      <3> DEFINE t == [statsTask[r] EXCEPT !.op = "minutes"]
      <3>1. statsTask[r] \in [op : {"recent", "minutes"}, m0 : Nat] /\ statsTask[r].m0 <= now
        BY <1>0, <2>2 DEF ReadRecent, StatsInv, StatsTypeOK, Idle
      <3>2. t \in [op : {"recent", "minutes"}, m0 : Nat] /\ t.m0 <= now BY <3>1
      <3>3. statsTask' = [statsTask EXCEPT ![r] = t] /\ UNCHANGED <<now, logged, histCache>>
        BY <2>2 DEF ReadRecent
      <3> HIDE DEF t
      <3> QED BY <3>2, <3>3, StatsTaskOK
    <2>3. CASE AnswerStats(r) BY <2>3, StatsTaskOK DEF AnswerStats, Idle
    <2> QED BY <1>4, <2>1, <2>2, <2>3
  <1>5. ASSUME NEW r \in Threads, CompletedMinutes(r) PROVE StatsInv'
    <2> DEFINE m0 == statsTask[r].m0
               bars == IF Cached(m0) THEN histCache.bars ELSE Counted(m0)
    <2>1. m0 \in Nat /\ m0 <= now
      BY <1>0, <1>5 DEF CompletedMinutes, StatsInv, StatsTypeOK, Idle
    <2>2. RightFor(m0, bars)
      BY <1>0, <2>1, CountedRight DEF Cached, StatsInv, NoMinute
    <2>3. /\ histCache' = IF Cached(m0) THEN histCache ELSE [key |-> m0, bars |-> bars]
          /\ statsTask' = [statsTask EXCEPT ![r] = [op |-> "answer", m0 |-> m0, bars |-> bars]]
          /\ UNCHANGED <<now, logged>>
      BY <1>5 DEF CompletedMinutes
    <2>4. \A m, bs : RightFor(m, bs)' <=> RightFor(m, bs) BY <2>3, SameRight
    <2>5. histCache'.key # NoMinute => RightFor(histCache'.key, histCache'.bars)
      <3> HIDE DEF m0, bars
      <3> QED BY <2>2, <2>3 DEF StatsInv
    <2>6. bars \in [0..(Bars - 1) -> Nat] BY <2>2 DEF RightFor
    <2> HIDE DEF m0, bars
    <2>7. StatsTypeOK' BY <1>0, <2>1, <2>3, <2>6 DEF StatsTypeOK
    <2>8. ASSUME NEW q \in Threads
          PROVE  /\ statsTask'[q].op \in {"recent", "minutes"} => statsTask'[q].m0 <= now'
                 /\ statsTask'[q].op = "answer" => RightFor(statsTask'[q].m0, statsTask'[q].bars)
      BY <1>0, <2>2, <2>3 DEF StatsInv, StatsTypeOK
    <2> QED BY <2>4, <2>5, <2>7, <2>8 DEF StatsInv
  <1> QED BY <1>1, <1>2, <1>3, <1>4, <1>5 DEF StatsNext

\* Every bar that /api/stats answers with counts the rows that were there when
\* its minute began and still are, and none that had gone by then.
THEOREM BarsAreFresh == StatsSpec => []BarsFresh
  <1>1. StatsInit => StatsInv
    BY StatsAssumption DEF StatsInit, StatsInv, StatsTypeOK, Idle, NoMinute
  <1>2. StatsInv /\ [StatsNext]_statsVars => StatsInv' BY StatsStep
  <1>3. StatsInv => BarsFresh
    <2> SUFFICES ASSUME StatsInv, NEW r \in Threads, statsTask[r].op = "answer",
                        NEW b \in 0..(Bars - 1)
                 PROVE  LET m0 == statsTask[r].m0
                            inBar == {i \in DOMAIN logged : InBar(m0, b, i)}
                        IN  /\ Cardinality({i \in inBar \cap There : logged[i].at < m0})
                                 <= statsTask[r].bars[b]
                            /\ statsTask[r].bars[b]
                                 <= Cardinality({i \in inBar : logged[i].gone >= m0})
      BY DEF BarsFresh
    <2> DEFINE m0 == statsTask[r].m0
               inBar == {i \in DOMAIN logged : InBar(m0, b, i)}
    <2>1. {i \in inBar \cap There : logged[i].at < m0} = MustCount(m0, b)
      BY DEF MustCount, There
    <2>2. {i \in inBar : logged[i].gone >= m0} = MayCount(m0, b) BY DEF MayCount
    <2>3. RightFor(m0, statsTask[r].bars) BY DEF StatsInv
    <2> QED BY <2>1, <2>2, <2>3 DEF RightFor
  <1> QED BY <1>1, <1>2, <1>3, PTL DEF StatsSpec

----------------------------------------------------------------------------
(* Sessions *)

SessionRow == [created : Nat, expires : Nat]

\* A thread with a cookie: the token it carries and the time it has read.
CookieTask == [op : {"get", "poll", "touch", "slide"}, tok : Tokens, now : Nat,
               for : {"poll", "touch"}]

SessionsTypeOK ==
  /\ clock \in Nat /\ issued \in 0..MaxSessions
  /\ DOMAIN sess \subseteq 1..issued /\ sess \in [DOMAIN sess -> SessionRow]
  /\ active \in [Tokens -> Nat]
  /\ sessTask \in [Threads -> {Idle} \cup CookieTask]

\* touch_session goes on to the lock only where there is an idle timeout.
SlideNeedsIdle == \A r \in Threads : sessTask[r].op = "slide" => IdleSec > 0

\* The row of a refused token is gone, and no later session has its token.
RefusedGone ==
  /\ refused \subseteq 1..issued
  /\ refused \cap DOMAIN sess = {}

\* A token in a request has been handed out.
CookiesIssued == \A r \in Threads : sessTask[r] # Idle => sessTask[r].tok \in 1..issued

SessionsInv ==
  SessionsTypeOK /\ SlideNeedsIdle /\ CookiesIssued /\ RefusedGone /\ DeadlineExact

\* Rows that go leave the others as they are.
LEMMA DeleteOK ==
  ASSUME SessionsInv, NEW T, Delete(T),
         UNCHANGED <<clock, issued, sessTask, active, refused>>
  PROVE  SessionsInv'
  BY DEF SessionsInv, SessionsTypeOK, SlideNeedsIdle, CookiesIssued, RefusedGone,
         DeadlineExact, Delete

\* A new session has the deadline its creation earns.
LEMMA CreateSessionOK ==
  ASSUME SessionsInv, CreateSession
  PROVE  SessionsInv'
  <1>1. issued' \in Tokens /\ issued' = issued + 1 /\ issued' \notin DOMAIN sess
    BY SessionsAssumption DEF SessionsInv, SessionsTypeOK, CreateSession, Tokens
  <1>2. DOMAIN sess' = DOMAIN sess \cup {issued'} BY DEF CreateSession
  <1>3. FirstTtl \in Nat BY SessionsAssumption DEF FirstTtl, Smaller
  <1>4. sess'[issued'] = [created |-> clock, expires |-> clock + FirstTtl]
    BY DEF CreateSession
  <1>5. SessionsTypeOK'
    BY <1>1, <1>2, <1>3 DEF SessionsInv, SessionsTypeOK, CreateSession, SessionRow, Tokens
  <1>6. SlideNeedsIdle' /\ CookiesIssued' /\ RefusedGone'
    BY <1>1, <1>2 DEF SessionsInv, SessionsTypeOK, SlideNeedsIdle, CookiesIssued,
         RefusedGone, CreateSession
  <1>7. DeadlineExact'
    <2> SUFFICES ASSUME NEW t \in DOMAIN sess'
                 PROVE  sess'[t].expires = IF IdleSec = 0 THEN sess'[t].created + MaxTtl
                          ELSE Smaller(active'[t] + IdleSec, sess'[t].created + MaxTtl)
      BY DEF DeadlineExact
    <2>1. CASE t = issued'
      <3>1. active'[t] = clock
        BY <1>1, <2>1 DEF CreateSession, SessionsInv, SessionsTypeOK
      <3> QED BY <2>1, <3>1, <1>4, SessionsAssumption
           DEF FirstTtl, Smaller, SessionsInv, SessionsTypeOK
    <2>2. CASE t # issued'
      <3>1. t \in DOMAIN sess /\ sess'[t] = sess[t] /\ active'[t] = active[t]
        BY <1>1, <1>2, <2>2 DEF CreateSession, SessionsInv, SessionsTypeOK
      <3> QED BY <3>1 DEF SessionsInv, DeadlineExact
    <2> QED BY <2>1, <2>2
  <1> QED BY <1>5, <1>6, <1>7 DEF SessionsInv

\* A request's step that leaves the table alone.
LEMMA OnlyTaskOK ==
  ASSUME SessionsInv, NEW r \in Threads, NEW new \in {Idle} \cup CookieTask,
         new # Idle => new.tok \in 1..issued, new.op = "slide" => IdleSec > 0,
         sessTask' = [sessTask EXCEPT ![r] = new],
         UNCHANGED <<clock, sess, issued, active, refused>>
  PROVE  SessionsInv'
  BY DEF SessionsInv, SessionsTypeOK, SlideNeedsIdle, CookiesIssued, RefusedGone,
         DeadlineExact

\* get_session lets the request through, or deletes the row it refuses.
LEMMA GetSessionOK ==
  ASSUME SessionsInv, NEW r \in Threads, GetSession(r)
  PROVE  SessionsInv'
  <1>1. sessTask[r] \in CookieTask /\ sessTask[r] # Idle
    BY DEF SessionsInv, SessionsTypeOK, GetSession, Idle
  <1>2. sessTask[r].tok \in 1..issued BY <1>1 DEF SessionsInv, CookiesIssued
  <1>3. CASE Found(r) /\ Row(r).expires >= sessTask[r].now
    <2> DEFINE new == [sessTask[r] EXCEPT !.op = sessTask[r].for]
    <2>1. new \in CookieTask /\ new.tok = sessTask[r].tok /\ new.op # "slide"
      BY <1>1 DEF CookieTask
    <2>2. sessTask' = [sessTask EXCEPT ![r] = new]
      BY <1>3 DEF GetSession
    <2> QED BY <1>2, <1>3, <2>1, <2>2, OnlyTaskOK DEF GetSession
  <1>4. CASE ~(Found(r) /\ Row(r).expires >= sessTask[r].now)
    <2>1. /\ sessTask' = [sessTask EXCEPT ![r] = Idle]
          /\ refused' = refused \cup {sessTask[r].tok}
          /\ sess' = [t \in DOMAIN sess \ {sessTask[r].tok} |-> sess[t]]
          /\ UNCHANGED <<clock, issued, active>>
      BY <1>4 DEF GetSession, Delete
    <2>2. SessionsTypeOK' BY <2>1 DEF SessionsInv, SessionsTypeOK
    <2>3. SlideNeedsIdle' /\ CookiesIssued'
      BY <2>1 DEF SessionsInv, SessionsTypeOK, SlideNeedsIdle, CookiesIssued, Idle
    <2>4. RefusedGone' BY <1>2, <2>1 DEF SessionsInv, RefusedGone
    <2>5. DeadlineExact' BY <2>1 DEF SessionsInv, DeadlineExact
    <2> QED BY <2>2, <2>3, <2>4, <2>5 DEF SessionsInv
  <1> QED BY <1>3, <1>4

\* touch_session under the lock: whichever of two touches comes last, the
\* deadline is the one the later activity earned.
LEMMA TouchSessionOK ==
  ASSUME SessionsInv, NEW r \in Threads, TouchSession(r)
  PROVE  SessionsInv'
  <1>1. sessTask[r] \in CookieTask /\ sessTask[r] # Idle /\ IdleSec > 0
    BY DEF SessionsInv, SessionsTypeOK, SlideNeedsIdle, TouchSession, Idle
  <1> DEFINE tok == sessTask[r].tok
             stamp == sessTask[r].now
             new == Smaller(stamp + IdleSec, sess[tok].created + MaxTtl)
  <1>2. tok \in Tokens /\ stamp \in Nat BY <1>1 DEF CookieTask
  <1>3. sessTask' = [sessTask EXCEPT ![r] = Idle] /\ UNCHANGED <<clock, issued, refused>>
    BY DEF TouchSession
  <1>4. SlideNeedsIdle'
    BY <1>3 DEF SessionsInv, SessionsTypeOK, SlideNeedsIdle, Idle
  <1>5. CookiesIssued'
    BY <1>3 DEF SessionsInv, SessionsTypeOK, CookiesIssued
  <1>6. CASE ~(Found(r) /\ Row(r).expires >= stamp)
    <2>1. UNCHANGED <<sess, active>> BY <1>6 DEF TouchSession
    <2> QED BY <1>3, <2>1, OnlyTaskOK DEF Idle
  <1>7. CASE Found(r) /\ Row(r).expires >= stamp
    <2>1. tok \in DOMAIN sess BY <1>7 DEF Found
    <2>2. sess[tok] \in SessionRow BY <2>1 DEF SessionsInv, SessionsTypeOK
    <2>3. active' = [active EXCEPT ![tok] = IF stamp > @ THEN stamp ELSE @]
      BY <1>7 DEF TouchSession
    <2>4. sess' = IF new > sess[tok].expires
                    THEN [sess EXCEPT ![tok].expires = new] ELSE sess
      BY <1>7 DEF TouchSession, Slides, Row
    <2>5. new \in Nat
      BY <1>2, <2>2, SessionsAssumption DEF Smaller, SessionRow
    <2>6. DOMAIN sess' = DOMAIN sess BY <2>4
    <2>7. SessionsTypeOK'
      BY <1>2, <1>3, <2>1, <2>2, <2>3, <2>4, <2>5, <2>6
         DEF SessionsInv, SessionsTypeOK, SessionRow
    <2>8. RefusedGone' BY <1>3, <2>6 DEF SessionsInv, RefusedGone
    <2>9. DeadlineExact'
      <3> SUFFICES ASSUME NEW t \in DOMAIN sess
                   PROVE  sess'[t].expires = Smaller(active'[t] + IdleSec,
                                                     sess'[t].created + MaxTtl)
        BY <1>1, <2>6 DEF DeadlineExact
      <3>1. sess[t].expires = Smaller(active[t] + IdleSec, sess[t].created + MaxTtl)
        BY <1>1 DEF SessionsInv, DeadlineExact
      <3>2. CASE t # tok
        <4>1. sess'[t] = sess[t] /\ active'[t] = active[t]
          BY <2>3, <2>4, <3>2 DEF SessionsInv, SessionsTypeOK, Tokens
        <4> QED BY <3>1, <4>1
      <3>3. CASE t = tok
        <4>1. active[tok] \in Nat /\ active'[tok] = IF stamp > active[tok] THEN stamp ELSE active[tok]
          BY <1>2, <2>3 DEF SessionsInv, SessionsTypeOK
        <4>2. sess'[tok].created = sess[tok].created /\ sess'[tok].created \in Nat
          BY <2>1, <2>2, <2>4 DEF SessionRow
        <4>3. sess'[tok].expires = IF new > sess[tok].expires THEN new ELSE sess[tok].expires
          BY <2>1, <2>2, <2>4 DEF SessionRow
        <4> QED BY <1>2, <3>1, <3>3, <4>1, <4>2, <4>3, SessionsAssumption DEF Smaller
      <3> QED BY <3>2, <3>3
    <2> QED BY <1>4, <1>5, <2>7, <2>8, <2>9 DEF SessionsInv
  <1> QED BY <1>6, <1>7

\* Every step keeps SessionsInv.
LEMMA SessionsStep ==
  ASSUME SessionsInv, [SessionsNext]_sessVars
  PROVE  SessionsInv'
  <1>1. CASE ClockTick \/ UNCHANGED sessVars
    BY <1>1 DEF ClockTick, sessVars, SessionsInv, SessionsTypeOK, SlideNeedsIdle,
         CookiesIssued, RefusedGone, DeadlineExact
  <1>2. CASE CreateSession BY <1>2, CreateSessionOK
  <1>3. CASE SignOut \/ SweepSessions BY <1>3, DeleteOK DEF SignOut, SweepSessions
  <1>4. ASSUME NEW r \in Threads, NEW tok \in 1..issued, NEW op \in {"poll", "touch"},
               Arrives(r, tok, op)
        PROVE  SessionsInv'
    <2> DEFINE new == [op |-> "get", tok |-> tok, now |-> clock, for |-> op]
    <2>1. new \in CookieTask
      BY SessionsAssumption DEF CookieTask, SessionsInv, SessionsTypeOK, Tokens
    <2> QED BY <1>4, <2>1, OnlyTaskOK DEF Arrives
  <1>5. ASSUME NEW r \in Threads, GetSession(r) PROVE SessionsInv'
    BY <1>5, GetSessionOK
  <1>6. ASSUME NEW r \in Threads, Serve(r) PROVE SessionsInv'
    BY <1>6, OnlyTaskOK DEF Serve, Idle
  <1>7. ASSUME NEW r \in Threads, TouchRead(r) PROVE SessionsInv'
    <2>1. sessTask[r] \in CookieTask /\ sessTask[r] # Idle
      BY <1>7 DEF SessionsInv, SessionsTypeOK, TouchRead, Idle
    <2>2. sessTask[r].tok \in 1..issued BY <2>1 DEF SessionsInv, CookiesIssued
    <2>3. CASE IdleSec = 0
      BY <1>7, <2>3, OnlyTaskOK DEF TouchRead, Idle
    <2>4. CASE IdleSec # 0
      <3> DEFINE new == [sessTask[r] EXCEPT !.op = "slide", !.now = clock]
      <3>1. new \in CookieTask /\ new.tok = sessTask[r].tok
        BY <2>1 DEF CookieTask, SessionsInv, SessionsTypeOK
      <3>2. sessTask' = [sessTask EXCEPT ![r] = new] BY <1>7, <2>4 DEF TouchRead
      <3>3. IdleSec > 0 BY <2>4, SessionsAssumption
      <3> HIDE DEF new
      <3> QED BY <1>7, <2>2, <3>1, <3>2, <3>3, OnlyTaskOK DEF TouchRead
    <2> QED BY <2>3, <2>4
  <1>8. ASSUME NEW r \in Threads, TouchSession(r) PROVE SessionsInv'
    BY <1>8, TouchSessionOK
  <1> QED BY <1>1, <1>2, <1>3, <1>4, <1>5, <1>6, <1>7, <1>8 DEF SessionsNext

\* SessionsInv holds throughout.
LEMMA SessionsInvariant == SessionsSpec => []SessionsInv
  <1>1. SessionsInit => SessionsInv
    BY SessionsAssumption DEF SessionsInit, SessionsInv, SessionsTypeOK, SlideNeedsIdle,
       CookiesIssued, RefusedGone, DeadlineExact, Idle
  <1>2. SessionsInv /\ [SessionsNext]_sessVars => SessionsInv' BY SessionsStep
  <1> QED BY <1>1, <1>2, PTL DEF SessionsSpec

\* A session ends when touch_session's latest activity says, whatever the order
\* in which touches that cross take the lock.
THEOREM DeadlineIsExact == SessionsSpec => []DeadlineExact
  <1>1. SessionsInv => DeadlineExact BY DEF SessionsInv
  <1> QED BY <1>1, SessionsInvariant, PTL

\* A session that get_session answered 401 once is never let in again.
THEOREM RefusedStaysRefused == SessionsSpec => []RefusedForGood
  <1>1. SessionsInv => RefusedForGood
    BY DEF SessionsInv, RefusedGone, RefusedForGood, Found
  <1> QED BY <1>1, SessionsInvariant, PTL

----------------------------------------------------------------------------
(* API keys *)

KeyRow == [expires : Nat, used : 0..MaxKeyTime]

\* A request thread: creating a key, or carrying one and the time it has read.
KeyTask == [op : {"create"}, expires : Nat]
             \cup [op : {"verify"}, id : 1..MaxIds, now : 1..MaxKeyTime]

\* KeysTypeOK with what the threads hold.
KeysShape ==
  /\ keyTime \in 1..MaxKeyTime /\ lastKey \in 0..MaxIds
  /\ DOMAIN keys \subseteq (1..lastKey) \ revoked /\ revoked \subseteq 1..lastKey
  /\ IsFiniteSet(DOMAIN keys) /\ Cardinality(DOMAIN keys) <= MaxApiKeys
  /\ keys \in [DOMAIN keys -> KeyRow]
  /\ uses \in [1..MaxIds -> 0..MaxKeyTime]
  /\ keyTask \in [Threads -> {Idle} \cup KeyTask]

\* An id that has not been handed out has not been used, and no thread carries it.
UnissuedUnused ==
  /\ \A k \in (lastKey + 1)..MaxIds : uses[k] = Never
  /\ \A r \in Threads : keyTask[r].op = "verify" => keyTask[r].id \in 1..lastKey

KeysInv == KeysShape /\ UnissuedUnused /\ LastUsedFresh

\* A request's step that leaves the table alone.
LEMMA KeyTaskOK ==
  ASSUME KeysInv, NEW r \in Threads, NEW new \in {Idle} \cup KeyTask,
         new.op = "verify" => new.id \in 1..lastKey,
         keyTask' = [keyTask EXCEPT ![r] = new],
         UNCHANGED <<keyTime, keys, lastKey, uses, revoked>>
  PROVE  KeysInv'
  BY DEF KeysInv, KeysShape, UnissuedUnused, LastUsedFresh

\* create_api_key counts the rows under the lock that covers the insert, and
\* the new id is one nobody has used.
LEMMA CreateApiKeyOK ==
  ASSUME KeysInv, NEW r \in Threads, CreateApiKey(r)
  PROVE  KeysInv'
  <1>1. keyTask[r] \in KeyTask /\ keyTask[r].expires \in Nat
    BY DEF KeysInv, KeysShape, CreateApiKey, KeyTask, Idle
  <1>2. CASE ~((keyTask[r].expires = Never \/ keyTask[r].expires > keyTime) /\ HasRoom)
    BY <1>2, KeyTaskOK DEF CreateApiKey, Idle
  <1>3. CASE (keyTask[r].expires = Never \/ keyTask[r].expires > keyTime) /\ HasRoom
    <2> DEFINE new == [expires |-> keyTask[r].expires, used |-> Never]
    <2>1. /\ lastKey < MaxIds /\ lastKey' = lastKey + 1
          /\ keys' = [k \in DOMAIN keys \cup {lastKey'} |-> IF k = lastKey' THEN new ELSE keys[k]]
          /\ keyTask' = [keyTask EXCEPT ![r] = Idle]
          /\ UNCHANGED <<keyTime, uses, revoked>>
      BY <1>3 DEF CreateApiKey
    <2>2. lastKey' \in 1..MaxIds /\ lastKey' \notin DOMAIN keys /\ lastKey' \notin revoked
      BY <2>1, ApiKeysAssumption DEF KeysInv, KeysShape
    <2>3. DOMAIN keys' = DOMAIN keys \cup {lastKey'} BY <2>1
    <2>4. IsFiniteSet(DOMAIN keys') /\ Cardinality(DOMAIN keys') = Cardinality(DOMAIN keys) + 1
      <3>1. PICK D : D = DOMAIN keys OBVIOUS
      <3>2. IsFiniteSet(D) /\ lastKey' \notin D BY <2>2, <3>1 DEF KeysInv, KeysShape
      <3>3. IsFiniteSet(D \cup {lastKey'}) /\ Cardinality(D \cup {lastKey'}) = Cardinality(D) + 1
        BY <3>2, FS_AddElement
      <3> QED BY <2>3, <3>1, <3>3
    <2>5. Cardinality(DOMAIN keys') <= MaxApiKeys
      <3>1. Cardinality(DOMAIN keys) \in Nat BY FS_CardinalityType DEF KeysInv, KeysShape
      <3> QED BY <1>3, <2>4, <3>1, ApiKeysAssumption DEF HasRoom
    <2>6. new \in KeyRow BY <1>1, ApiKeysAssumption DEF KeyRow, Never
    <2>7. KeysShape'
      <3>1. DOMAIN keys' \subseteq (1..lastKey') \ revoked' /\ revoked' \subseteq 1..lastKey'
        BY <2>1, <2>2, <2>3, ApiKeysAssumption DEF KeysInv, KeysShape
      <3>2. keys' \in [DOMAIN keys' -> KeyRow]
        BY <2>1, <2>3, <2>6 DEF KeysInv, KeysShape
      <3>3. lastKey' \in 0..MaxIds BY <2>2
      <3> QED BY <2>1, <2>4, <2>5, <3>1, <3>2, <3>3 DEF KeysInv, KeysShape
    <2>8. UnissuedUnused'
      <3>1. \A k \in (lastKey' + 1)..MaxIds : uses'[k] = Never
        BY <2>1, ApiKeysAssumption DEF KeysInv, KeysShape, UnissuedUnused
      <3>2. \A q \in Threads : keyTask'[q].op = "verify" => keyTask'[q].id \in 1..lastKey'
        BY <2>1, ApiKeysAssumption DEF KeysInv, KeysShape, UnissuedUnused, Idle
      <3> QED BY <3>1, <3>2 DEF UnissuedUnused
    <2>9. LastUsedFresh'
      <3> SUFFICES ASSUME NEW k \in DOMAIN keys'
                   PROVE  /\ keys'[k].used <= uses'[k]
                          /\ uses'[k] # Never => keys'[k].used # Never /\ uses'[k] - keys'[k].used < TouchSec
        BY DEF LastUsedFresh
      <3>1. CASE k = lastKey'
        <4>1. uses'[k] = Never
          BY <2>1, <2>2, <3>1, ApiKeysAssumption DEF KeysInv, KeysShape, UnissuedUnused
        <4>2. keys'[k].used = Never BY <2>1, <3>1
        <4> QED BY <4>1, <4>2 DEF Never
      <3>2. CASE k # lastKey'
        <4>1. k \in DOMAIN keys /\ keys'[k] = keys[k] /\ uses'[k] = uses[k]
          BY <2>1, <2>3, <3>2
        <4> QED BY <4>1 DEF KeysInv, LastUsedFresh
      <3> QED BY <3>1, <3>2
    <2> QED BY <2>7, <2>8, <2>9 DEF KeysInv
  <1> QED BY <1>2, <1>3

\* verify_api_key: the throttle compares with the time this thread read, old
\* or new.
LEMMA VerifyApiKeyOK ==
  ASSUME KeysInv, NEW r \in Threads, VerifyApiKey(r)
  PROVE  KeysInv'
  <1> DEFINE k == keyTask[r].id
             stamp == keyTask[r].now
  <1>1. k \in 1..lastKey /\ k \in 1..MaxIds /\ stamp \in 1..MaxKeyTime
    BY DEF KeysInv, KeysShape, UnissuedUnused, VerifyApiKey, KeyTask, Idle
  <1>2. keyTask' = [keyTask EXCEPT ![r] = Idle] /\ UNCHANGED <<keyTime, lastKey, revoked>>
    BY DEF VerifyApiKey
  <1>3. CASE ~(k \in DOMAIN keys /\ (keys[k].expires = Never \/ keys[k].expires >= stamp))
    BY <1>3, KeyTaskOK DEF VerifyApiKey, Idle
  <1>4. CASE k \in DOMAIN keys /\ (keys[k].expires = Never \/ keys[k].expires >= stamp)
    <2>1. /\ uses' = [uses EXCEPT ![k] = IF stamp > @ THEN stamp ELSE @]
          /\ keys' = IF Stale(keys[k].used, stamp) THEN [keys EXCEPT ![k].used = stamp] ELSE keys
      BY <1>4 DEF VerifyApiKey
    <2>2. keys[k] \in KeyRow /\ uses[k] \in 0..MaxKeyTime
      BY <1>1, <1>4 DEF KeysInv, KeysShape
    <2>3. DOMAIN keys' = DOMAIN keys BY <2>1
    <2>4. KeysShape'
      <3>1. keys' \in [DOMAIN keys' -> KeyRow]
        <4>1. [keys[k] EXCEPT !.used = stamp] \in KeyRow
          BY <1>1, <2>2, ApiKeysAssumption DEF KeyRow
        <4>2. keys' = [keys EXCEPT ![k] = [keys[k] EXCEPT !.used = stamp]] \/ keys' = keys
          BY <2>1
        <4> QED BY <1>4, <2>3, <4>1, <4>2 DEF KeysInv, KeysShape
      <3>2. uses' \in [1..MaxIds -> 0..MaxKeyTime]
        BY <1>1, <2>1, <2>2, ApiKeysAssumption DEF KeysInv, KeysShape
      <3> QED BY <1>2, <2>3, <3>1, <3>2 DEF KeysInv, KeysShape
    <2>5. UnissuedUnused'
      BY <1>1, <1>2, <2>1 DEF KeysInv, KeysShape, UnissuedUnused, Idle
    <2>6. LastUsedFresh'
      <3> SUFFICES ASSUME NEW j \in DOMAIN keys
                   PROVE  /\ keys'[j].used <= uses'[j]
                          /\ uses'[j] # Never => keys'[j].used # Never /\ uses'[j] - keys'[j].used < TouchSec
        BY <2>3 DEF LastUsedFresh
      <3>1. /\ keys[j].used <= uses[j]
            /\ uses[j] # Never => keys[j].used # Never /\ uses[j] - keys[j].used < TouchSec
        BY DEF KeysInv, LastUsedFresh
      <3>2. CASE j # k
        BY <2>1, <3>1, <3>2 DEF KeysInv, KeysShape
      <3>3. CASE j = k
        <4>1. uses'[k] = IF stamp > uses[k] THEN stamp ELSE uses[k]
          BY <1>1, <2>1 DEF KeysInv, KeysShape
        <4>2. keys'[k].used = IF Stale(keys[k].used, stamp) THEN stamp ELSE keys[k].used
          BY <1>4, <2>1, <2>2 DEF KeyRow
        <4>3. keys[k].used \in Nat /\ uses[k] \in Nat BY <2>2, ApiKeysAssumption DEF KeyRow
        <4> QED BY <1>1, <3>1, <3>3, <4>1, <4>2, <4>3, ApiKeysAssumption DEF Stale, Never
      <3> QED BY <3>2, <3>3
    <2> QED BY <2>4, <2>5, <2>6 DEF KeysInv
  <1> QED BY <1>3, <1>4

\* Every step keeps KeysInv.
LEMMA KeysStep ==
  ASSUME KeysInv, [KeysNext]_keyVars
  PROVE  KeysInv'
  <1>1. CASE KeyTick \/ UNCHANGED keyVars
    BY <1>1, ApiKeysAssumption DEF KeyTick, keyVars, KeysInv, KeysShape, UnissuedUnused,
       LastUsedFresh
  <1>2. CASE DeleteApiKey
    <2>1. PICK k \in DOMAIN keys :
            /\ keys' = [j \in DOMAIN keys \ {k} |-> keys[j]]
            /\ revoked' = revoked \cup {k}
      BY <1>2 DEF DeleteApiKey
    <2>2. UNCHANGED <<keyTime, lastKey, keyTask, uses>> BY <1>2 DEF DeleteApiKey
    <2>3. DOMAIN keys' = DOMAIN keys \ {k} /\ DOMAIN keys' \subseteq DOMAIN keys BY <2>1
    <2>4. IsFiniteSet(DOMAIN keys') /\ Cardinality(DOMAIN keys') <= Cardinality(DOMAIN keys)
      BY <2>3, FS_Subset DEF KeysInv, KeysShape
    <2>5. Cardinality(DOMAIN keys') \in Nat /\ Cardinality(DOMAIN keys) \in Nat
      BY <2>4, FS_CardinalityType DEF KeysInv, KeysShape
    <2>6. Cardinality(DOMAIN keys') <= MaxApiKeys
      BY <2>4, <2>5, ApiKeysAssumption DEF KeysInv, KeysShape
    <2>7. KeysShape'
      BY <2>1, <2>2, <2>3, <2>4, <2>6 DEF KeysInv, KeysShape
    <2>8. UnissuedUnused' /\ LastUsedFresh'
      BY <2>1, <2>2, <2>3 DEF KeysInv, UnissuedUnused, LastUsedFresh
    <2> QED BY <2>7, <2>8 DEF KeysInv
  <1>3. ASSUME NEW r \in Threads, NewKeyRead(r) PROVE KeysInv'
    <2>1. PICK e \in {Never} \cup {keyTime + d : d \in Lifetimes} :
            keyTask' = [keyTask EXCEPT ![r] = [op |-> "create", expires |-> e]]
      BY <1>3 DEF NewKeyRead
    <2>2. e \in Nat BY <2>1, ApiKeysAssumption DEF KeysInv, KeysShape, Never
    <2>3. [op |-> "create", expires |-> e] \in KeyTask BY <2>2 DEF KeyTask
    <2> QED BY <1>3, <2>1, <2>3, KeyTaskOK DEF NewKeyRead
  <1>4. ASSUME NEW r \in Threads, CreateApiKey(r) PROVE KeysInv' BY <1>4, CreateApiKeyOK
  <1>5. ASSUME NEW r \in Threads, KeyArrives(r) PROVE KeysInv'
    <2>1. PICK k \in 1..lastKey :
            keyTask' = [keyTask EXCEPT ![r] = [op |-> "verify", id |-> k, now |-> keyTime]]
      BY <1>5 DEF KeyArrives
    <2>2. [op |-> "verify", id |-> k, now |-> keyTime] \in KeyTask
      BY ApiKeysAssumption DEF KeysInv, KeysShape, KeyTask
    <2> QED BY <1>5, <2>1, <2>2, KeyTaskOK DEF KeyArrives
  <1>6. ASSUME NEW r \in Threads, VerifyApiKey(r) PROVE KeysInv' BY <1>6, VerifyApiKeyOK
  <1> QED BY <1>1, <1>2, <1>3, <1>4, <1>5, <1>6 DEF KeysNext

\* KeysInv holds throughout.
LEMMA KeysInvariant == KeysSpec => []KeysInv
  <1>1. KeysInit => KeysInv
    <2> SUFFICES ASSUME KeysInit PROVE KeysInv OBVIOUS
    <2>1. DOMAIN keys = {} BY DEF KeysInit
    <2>2. IsFiniteSet(DOMAIN keys) /\ Cardinality(DOMAIN keys) = 0 BY <2>1, FS_EmptySet
    <2> QED BY <2>1, <2>2, ApiKeysAssumption DEF KeysInit, KeysInv, KeysShape, UnissuedUnused,
         LastUsedFresh, Never, Idle
  <1>2. KeysInv /\ [KeysNext]_keyVars => KeysInv' BY KeysStep
  <1> QED BY <1>1, <1>2, PTL DEF KeysSpec

\* api_keys never holds more than MAX_API_KEYS rows and never gives a revoked
\* id to a new key (KeysTypeOK), and last_used_at trails the latest use by
\* less than API_KEY_TOUCH_SEC, with requests that cross between the clock and
\* the lock.
THEOREM KeysAreFresh == KeysSpec => [](KeysTypeOK /\ LastUsedFresh)
  <1>1. KeysInv => KeysTypeOK /\ LastUsedFresh
    BY DEF KeysInv, KeysShape, KeysTypeOK, KeyRow
  <1> QED BY <1>1, KeysInvariant, PTL

----------------------------------------------------------------------------
(* Geo: the compiled table, and the bisection in it *)

\* What the loop of write_v4 leaves of the ranges S.
Written(table, S) ==
  \A r \in S : r \in table <=> ~Skips({q \in table : Precedes(q, r)}, r)

\* What is taken of them, told without the loop.
Chosen(T, S) ==
  \A r \in S : r \in T <=> ~\E q \in T : Precedes(q, r) /\ Overlap(q, r)

WithFlag(rs) == {r \in rs : r.cc \in Flagged}

\* A code has a place among the codes, and no other has it.
LEMMA CodesRanked ==
  /\ Cardinality(Countries) \in Nat
  /\ CcRank \in [Countries -> 1..Cardinality(Countries)]
  /\ \A a, b \in Countries : CcRank[a] = CcRank[b] => a = b
  <1> DEFINE n == Cardinality(Countries)
  <1>1. n \in Nat /\ ExistsBijection(1..n, Countries)
    BY GeoAssumption, FS_CardinalityType
  <1>2. ExistsBijection(Countries, 1..n) BY <1>1, Fun_ExistsBijSymmetric
  <1>3. PICK f \in Bijection(Countries, 1..n) : TRUE BY <1>2 DEF ExistsBijection
  <1>4. /\ f \in [Countries -> 1..n]
        /\ \A a, b \in Countries : f[a] = f[b] => a = b
    BY <1>3 DEF Bijection, Injection, IsInjective
  <1>5. /\ CcRank \in [Countries -> 1..n]
        /\ \A a, b \in Countries : CcRank[a] = CcRank[b] => a = b
    BY <1>4 DEF CcRank
  <1> QED BY <1>1, <1>5

\* sort: the order of the tuples is a strict one, and tells any two apart.
LEMMA Ordered ==
  ASSUME NEW a \in Delegations, NEW b \in Delegations, NEW c \in Delegations
  PROVE  /\ ~Precedes(a, a)
         /\ Precedes(a, b) /\ Precedes(b, c) => Precedes(a, c)
         /\ a = b \/ Precedes(a, b) \/ Precedes(b, a)
  <1>1. /\ a.s \in Nat /\ b.s \in Nat /\ c.s \in Nat
        /\ a.e \in Nat /\ b.e \in Nat /\ c.e \in Nat
        /\ a.cc \in Countries /\ b.cc \in Countries /\ c.cc \in Countries
    BY GeoAssumption DEF Delegations, GeoAddrs
  <1>2. /\ CcRank[a.cc] \in Nat /\ CcRank[b.cc] \in Nat /\ CcRank[c.cc] \in Nat
        /\ CcRank[a.cc] = CcRank[b.cc] => a.cc = b.cc
    BY <1>1, CodesRanked
  <1>3. a.s = b.s /\ a.e = b.e /\ a.cc = b.cc => a = b BY DEF Delegations
  <1> QED BY <1>1, <1>2, <1>3, SMT DEF Precedes

\* A set of ranges has a last one in that order, and a first one.
LEMMA FirstAndLast ==
  ASSUME NEW T, T \subseteq Delegations, T # {}
  PROVE  /\ \E r \in T : \A q \in T \ {r} : Precedes(q, r)
         /\ \E r \in T : \A q \in T \ {r} : Precedes(r, q)
  <1>1. /\ MaxAddr \in Nat /\ Cardinality(Countries) \in Nat
        /\ \A r \in T : /\ r.s \in 0..MaxAddr /\ r.e \in 0..MaxAddr
                        /\ CcRank[r.cc] \in 0..Cardinality(Countries)
                        /\ r.s \in Nat /\ r.e \in Nat /\ CcRank[r.cc] \in Nat
        /\ \A q, r \in T : q.s = r.s /\ q.e = r.e /\ CcRank[q.cc] = CcRank[r.cc] => q = r
    BY GeoAssumption, CodesRanked DEF Delegations, GeoAddrs
  <1>2. \E r \in T : \A q \in T \ {r} : Precedes(q, r)
    <2> DEFINE starts == {r.s : r \in T}
    <2>1. starts \subseteq 0..MaxAddr /\ starts # {} BY <1>1
    <2>2. PICK s \in starts : \A y \in starts : s >= y BY <1>1, <2>1, GreatestNumber, Zenon
    <2> DEFINE ends == {r.e : r \in {q \in T : q.s = s}}
    <2>3. ends \subseteq 0..MaxAddr /\ ends # {} BY <1>1, <2>2
    <2>4. PICK e \in ends : \A y \in ends : e >= y BY <1>1, <2>3, GreatestNumber, Zenon
    <2> DEFINE ranks == {CcRank[r.cc] : r \in {q \in T : q.s = s /\ q.e = e}}
    <2>5. ranks \subseteq 0..Cardinality(Countries) /\ ranks # {} BY <1>1, <2>4
    <2>6. PICK c \in ranks : \A y \in ranks : c >= y BY <1>1, <2>5, GreatestNumber, Zenon
    <2>7. PICK r \in T : r.s = s /\ r.e = e /\ CcRank[r.cc] = c BY <2>6
    <2>8. ASSUME NEW q \in T, q # r PROVE Precedes(q, r)
      <3>1. s >= q.s BY <2>2
      <3>2. q.s = s => e >= q.e BY <2>4
      <3>3. q.s = s /\ q.e = e => c >= CcRank[q.cc] BY <2>6
      <3> HIDE DEF starts, ends, ranks
      <3> QED BY <1>1, <2>7, <2>8, <3>1, <3>2, <3>3 DEF Precedes
    <2> QED BY <2>8
  <1>3. \E r \in T : \A q \in T \ {r} : Precedes(r, q)
    <2> DEFINE starts == {r.s : r \in T}
    <2>1. starts \subseteq Nat /\ starts # {} BY <1>1
    <2>2. PICK s \in starts : \A y \in starts : s <= y BY <2>1, LeastNumber, Zenon
    <2> DEFINE ends == {r.e : r \in {q \in T : q.s = s}}
    <2>3. ends \subseteq Nat /\ ends # {} BY <1>1, <2>2
    <2>4. PICK e \in ends : \A y \in ends : e <= y BY <2>3, LeastNumber, Zenon
    <2> DEFINE ranks == {CcRank[r.cc] : r \in {q \in T : q.s = s /\ q.e = e}}
    <2>5. ranks \subseteq Nat /\ ranks # {} BY <1>1, <2>4
    <2>6. PICK c \in ranks : \A y \in ranks : c <= y BY <2>5, LeastNumber, Zenon
    <2>7. PICK r \in T : r.s = s /\ r.e = e /\ CcRank[r.cc] = c BY <2>6
    <2>8. ASSUME NEW q \in T, q # r PROVE Precedes(r, q)
      <3>1. s <= q.s BY <2>2
      <3>2. q.s = s => e <= q.e BY <2>4
      <3>3. q.s = s /\ q.e = e => c <= CcRank[q.cc] BY <2>6
      <3> HIDE DEF starts, ends, ranks
      <3> QED BY <1>1, <2>7, <2>8, <3>1, <3>2, <3>3 DEF Precedes
    <2> QED BY <2>8
  <1> QED BY <1>2, <1>3

LEMMA LastIs ==
  ASSUME NEW T, T \subseteq Delegations, T # {}
  PROVE  /\ LastOf(T) \in T
         /\ \A q \in T \ {LastOf(T)} : Precedes(q, LastOf(T))
  <1>1. \E r \in T : \A q \in T \ {r} : Precedes(q, r) BY FirstAndLast
  <1> QED BY <1>1, Zenon DEF LastOf

\* There are finitely many ranges.
LEMMA FiniteRanges == IsFiniteSet(Delegations)
  <1> DEFINE D == (GeoAddrs \X GeoAddrs) \X Countries
             All == [s : GeoAddrs, e : GeoAddrs, cc : Countries]
             g == [p \in D |-> [s |-> p[1][1], e |-> p[1][2], cc |-> p[2]]]
  <1>1. IsFiniteSet(GeoAddrs)
    <2>1. 0 \in Int /\ MaxAddr \in Int BY GeoAssumption
    <2> QED BY <2>1, FS_Interval DEF GeoAddrs
  <1>2. IsFiniteSet(D)
    <2>1. IsFiniteSet(GeoAddrs \X GeoAddrs) BY <1>1, FS_Product
    <2> QED BY <2>1, GeoAssumption, FS_Product
  <1>3. g \in Surjection(D, All)
    <2>1. g \in [D -> All] OBVIOUS
    <2>2. ASSUME NEW r \in All PROVE \E p \in D : g[p] = r
      <3>1. <<<<r.s, r.e>>, r.cc>> \in D OBVIOUS
      <3>2. g[<<<<r.s, r.e>>, r.cc>>] = [s |-> r.s, e |-> r.e, cc |-> r.cc] BY <3>1
      <3>3. r = [s |-> r.s, e |-> r.e, cc |-> r.cc] OBVIOUS
      <3> QED BY <3>1, <3>2, <3>3, Zenon
    <2> QED BY <2>1, <2>2 DEF Surjection
  <1>4. IsFiniteSet(All)
    <2> HIDE DEF g, D, All
    <2> QED BY <1>2, <1>3, FS_Surjection
  <1>5. Delegations \in SUBSET All BY DEF Delegations
  <1> HIDE DEF All
  <1> QED BY <1>4, <1>5, FS_Subset

\* The ranges of S before r that are in the table, once r itself is left out.
LEMMA LastOne ==
  ASSUME NEW S, S \subseteq Delegations, NEW r \in S,
         \A q \in S \ {r} : Precedes(q, r),
         NEW old, old \subseteq S \ {r}, Written(old, S \ {r}),
         NEW new, new = IF Skips(old, r) THEN old ELSE old \cup {r}
  PROVE  new \subseteq S /\ Written(new, S)
  <1>1. ASSUME NEW x \in S \ {r} PROVE {q \in new : Precedes(q, x)} = {q \in old : Precedes(q, x)}
    BY Ordered
  <1>2. {q \in new : Precedes(q, r)} = old
    BY Ordered
  <1>3. r \in new <=> ~Skips(old, r) OBVIOUS
  <1>4. \A x \in S \ {r} : x \in new <=> x \in old OBVIOUS
  <1> QED BY <1>1, <1>2, <1>3, <1>4 DEF Written

\* write_v4: whatever the ranges are, the loop ends with a table.
LEMMA LoopEnds ==
  ASSUME NEW S, S \subseteq Delegations
  PROVE  \E table \in SUBSET S : Written(table, S)
  <1> DEFINE Done(U) == \E table \in SUBSET U : Written(table, U)
             Bad == {n \in Nat : \E U \in SUBSET Delegations : Cardinality(U) = n /\ ~Done(U)}
  <1>1. \A U \in SUBSET Delegations : IsFiniteSet(U) /\ Cardinality(U) \in Nat
    BY FiniteRanges, FS_Subset, FS_CardinalityType
  <1>2. ASSUME Bad # {} PROVE FALSE
    <2>1. PICK n \in Bad : \A m \in Bad : n <= m BY <1>2, LeastNumber
    <2>2. PICK U \in SUBSET Delegations : Cardinality(U) = n /\ ~Done(U) BY <2>1
    <2>3. U # {}
      <3>1. Done({}) BY DEF Written
      <3> QED BY <2>2, <3>1
    <2>4. PICK r \in U : \A q \in U \ {r} : Precedes(q, r) BY <2>2, <2>3, FirstAndLast
    <2>5. Cardinality(U \ {r}) = n - 1 /\ n \in Nat /\ n - 1 \in Nat
      BY <1>1, <2>2, OneMore
    <2>6. Done(U \ {r})
      <3>1. n - 1 \notin Bad BY <2>1, <2>5
      <3> QED BY <2>2, <2>5, <3>1
    <2>7. PICK old \in SUBSET (U \ {r}) : Written(old, U \ {r}) BY <2>6
    <2> DEFINE new == IF Skips(old, r) THEN old ELSE old \cup {r}
    <2>8. new \subseteq U /\ Written(new, U) BY <2>4, <2>7, LastOne
    <2> QED BY <2>2, <2>8
  <1> QED BY <1>1, <1>2

LEMMA TableWritten ==
  ASSUME NEW rs, rs \subseteq Delegations
  PROVE  Compile(rs) \subseteq WithFlag(rs) /\ Written(Compile(rs), WithFlag(rs))
  <1>1. WithFlag(rs) \subseteq Delegations BY DEF WithFlag
  <1>2. \E table \in SUBSET WithFlag(rs) : Written(table, WithFlag(rs)) BY <1>1, LoopEnds
  <1>3. Compile(rs) = CHOOSE table \in SUBSET WithFlag(rs) : Written(table, WithFlag(rs))
    BY DEF Compile, WithFlag, Written
  <1> QED BY <1>2, <1>3

\* prev_end: the ranges written are disjoint, in the order they are written.
LEMMA TableDisjoint ==
  ASSUME NEW S, S \subseteq Delegations, NEW table, table \subseteq S, Written(table, S)
  PROVE  \A q, r \in table : Precedes(q, r) => q.e < r.s
  <1> DEFINE Bad == {r \in table : \E q \in table : Precedes(q, r) /\ ~(q.e < r.s)}
  <1>1. ASSUME Bad # {} PROVE FALSE
    <2>1. PICK r \in Bad : \A q \in Bad \ {r} : Precedes(r, q) BY <1>1, FirstAndLast
    <2>2. PICK q \in table : Precedes(q, r) /\ ~(q.e < r.s) BY <2>1
    <2> DEFINE before == {x \in table : Precedes(x, r)}
    <2>3. r \in table /\ before \subseteq Delegations /\ q \in before BY <2>1, <2>2
    <2>4. ~(before # {} /\ r.s <= LastOf(before).e) BY <2>3 DEF Written, Skips
    <2>5. PICK l \in before : l = LastOf(before) /\ \A x \in before \ {l} : Precedes(x, l)
      BY <2>3, LastIs
    <2>6. l \in table /\ l \in Delegations /\ r \in Delegations /\ q \in Delegations
      BY <2>3
    <2>7. /\ l.s \in Nat /\ l.e \in Nat /\ q.e \in Nat /\ r.s \in Nat /\ l.s <= l.e
      BY <2>6, GeoAssumption DEF Delegations, GeoAddrs
    <2>8. l.e < r.s BY <2>3, <2>4, <2>5, <2>7
    <2>9. CASE q = l BY <2>2, <2>8, <2>9
    <2>10. CASE q # l
      <3>1. Precedes(q, l) /\ Precedes(l, r) BY <2>3, <2>5, <2>10
      <3>2. l \notin Bad
        <4>1. l \in Bad => l = r \/ Precedes(r, l) BY <2>1
        <4> QED BY <4>1, <3>1, <2>6, Ordered
      <3>3. q.e < l.s BY <3>1, <3>2, <2>6
      <3> QED BY <2>2, <2>7, <2>8, <3>3
    <2> QED BY <2>9, <2>10
  <1> QED BY <1>1

\* So what the loop leaves is what was to be taken ...
LEMMA TableChosen ==
  ASSUME NEW S, S \subseteq Delegations, NEW table, table \subseteq S, Written(table, S)
  PROVE  Chosen(table, S)
  <1> SUFFICES ASSUME NEW r \in S
               PROVE  r \in table <=> ~\E q \in table : Precedes(q, r) /\ Overlap(q, r)
    BY DEF Chosen
  <1>1. \A x \in S : x.s \in Nat /\ x.e \in Nat /\ x.s <= x.e
    BY GeoAssumption DEF Delegations, GeoAddrs
  <1>2. ASSUME r \in table, NEW q \in table, Precedes(q, r), Overlap(q, r) PROVE FALSE
    <2>1. q.e < r.s BY <1>2, TableDisjoint
    <2> QED BY <1>1, <1>2, <2>1 DEF Overlap
  <1>3. ASSUME r \notin table PROVE \E q \in table : Precedes(q, r) /\ Overlap(q, r)
    <2> DEFINE before == {x \in table : Precedes(x, r)}
    <2>1. before # {} /\ r.s <= LastOf(before).e BY <1>3 DEF Written, Skips
    <2>2. LastOf(before) \in before BY <2>1, LastIs
    <2>3. PICK l \in table : Precedes(l, r) /\ r.s <= l.e BY <2>1, <2>2
    <2>4. l.s <= r.s
      <3>1. l.s \in Nat /\ r.s \in Nat BY <1>1
      <3> QED BY <2>3, <3>1 DEF Precedes
    <2>5. l # r BY <1>3
    <2>6. Overlap(l, r) BY <1>1, <2>3, <2>4, <2>5 DEF Overlap
    <2> QED BY <2>3, <2>6
  <1> QED BY <1>2, <1>3

\* ... and there is one way only to take them.
LEMMA OneChoice ==
  ASSUME NEW S, S \subseteq Delegations,
         NEW T, T \subseteq S, Chosen(T, S), NEW U, U \subseteq S, Chosen(U, S)
  PROVE  T = U
  <1> DEFINE Bad == {r \in S : ~(r \in T <=> r \in U)}
  <1>1. ASSUME Bad # {} PROVE FALSE
    <2>1. Bad \subseteq Delegations OBVIOUS
    <2>2. PICK r \in Bad : \A q \in Bad \ {r} : Precedes(r, q)
      <3> HIDE DEF Bad
      <3> QED BY <1>1, <2>1, FirstAndLast
    <2>3. ASSUME NEW q \in S, Precedes(q, r) PROVE q \in T <=> q \in U
      <3>1. q # r /\ ~Precedes(r, q) BY <2>2, <2>3, Ordered
      <3> QED BY <2>2, <3>1
    <2> QED BY <2>2, <2>3 DEF Chosen
  <1> QED BY <1>1

LEMMA TableIsTaken ==
  ASSUME delegated \subseteq Delegations
  PROVE  Compile(delegated) = Taken
  <1> DEFINE S == WithFlag(delegated)
  <1>1. S \subseteq Delegations BY DEF WithFlag
  <1>2. Compile(delegated) \subseteq S /\ Written(Compile(delegated), S) BY TableWritten
  <1>3. Chosen(Compile(delegated), S) BY <1>1, <1>2, TableChosen
  <1>4. Taken = CHOOSE T \in SUBSET S : Chosen(T, S) BY DEF Taken, WithFlag, Chosen
  <1>5. Taken \subseteq S /\ Chosen(Taken, S) BY <1>2, <1>3, <1>4
  <1> HIDE DEF S
  <1> QED BY <1>1, <1>2, <1>3, <1>5, OneChoice

\* bisect: in a table of disjoint ranges, the last one that starts at n or
\* before is the only one that may have n.
LEMMA BisectionFinds ==
  ASSUME NEW table, table \subseteq Delegations, NEW n \in Nat,
         \A q, r \in table : Precedes(q, r) => q.e < r.s
  PROVE  Resolve(table, n) \in
           LET owners == {r \in table : Covers(r, n)}
           IN  IF owners = {} THEN {None} ELSE {r.cc : r \in owners}
  <1> DEFINE below == {r \in table : r.s <= n}
             owners == {r \in table : Covers(r, n)}
  <1>1. \A r \in table : r.s \in Nat /\ r.e \in Nat
    BY GeoAssumption DEF Delegations, GeoAddrs
  <1>2. CASE below = {}
    <2>1. owners = {} BY <1>2 DEF Covers
    <2> QED BY <1>2, <2>1 DEF Resolve
  <1>3. CASE below # {}
    <2>1. PICK l \in below : l = LastOf(below) /\ \A q \in below \ {l} : Precedes(q, l)
      BY <1>3, LastIs
    <2>2. ASSUME NEW r \in owners PROVE r = l
      <3>1. r \in below BY DEF Covers
      <3>2. CASE Precedes(r, l)
        <4>1. r.e < l.s /\ l.s <= n /\ n <= r.e BY <2>1, <3>2 DEF Covers
        <4> QED BY <1>1, <4>1
      <3> QED BY <2>1, <3>1, <3>2
    <2>3. CASE n <= l.e
      <3>1. l \in owners BY <2>3 DEF Covers
      <3>2. Resolve(table, n) = l.cc BY <1>3, <2>1, <2>3 DEF Resolve
      <3> QED BY <3>1, <3>2
    <2>4. CASE ~(n <= l.e)
      <3>1. owners = {} BY <2>2, <2>4 DEF Covers
      <3>2. Resolve(table, n) = None BY <1>3, <2>1, <2>4 DEF Resolve
      <3> QED BY <3>1, <3>2
    <2> QED BY <2>3, <2>4
  <1> QED BY <1>2, <1>3

----------------------------------------------------------------------------
(* Geo: the tables are loaded once, and every answer is theirs *)

\* What the compiled tables say of an address.
Answer(k) ==
  IF k[2] \in Special \/ readable # Families THEN None
  ELSE Resolve(Compile(delegated), k[2])

\* The addresses that are looked up in the tables.
Plain == {k \in Lookups : k[2] \notin Special}
Asking == [op : {"lock", "load", "bisect"}, key : Plain]

LookupOK(r) ==
  /\ \/ geoTask[r] = Idle
     \/ geoTask[r] \in Asking
     \/ \E k \in Lookups : geoTask[r] = [op |-> "store", key |-> k, cc |-> Answer(k)]
  /\ geoTask[r].op = "load" => loader = r /\ ~loaded
  /\ geoTask[r].op = "bisect" => loaded

\* The tables once they are loaded: all of them or none.
Loaded == [f \in Families |-> IF readable = Families THEN Compile(delegated) ELSE {}]

GeoInv ==
  /\ loaded \in BOOLEAN /\ readable \subseteq Families
  /\ ranges \in [Families -> {{}, Compile(delegated)}]
  /\ loaded => ranges = Loaded
  /\ geoTask = [r \in Threads |-> geoTask[r]]
  /\ \A r \in Threads : LookupOK(r)
  /\ \A k \in DOMAIN cache : k \in Lookups /\ cache[k] = Answer(k)
  /\ delegated \subseteq Delegations

\* Nothing is found in an empty table.
LEMMA EmptyTable == \A n : Resolve({}, n) = None
  BY DEF Resolve

\* Only one request moves, and nothing that the others' answers depend on.
LEMMA OneLookup ==
  ASSUME GeoInv, NEW r \in Threads, NEW t,
         geoTask' = [geoTask EXCEPT ![r] = t],
         UNCHANGED <<delegated, readable>>,
         loaded' \in BOOLEAN, loaded => loaded',
         loader' # loader => loader \in {r, Nobody},
         loaded' # loaded => loader = r,
         ranges' \in [Families -> {{}, Compile(delegated)}],
         loaded' => ranges' = Loaded,
         \/ t = Idle \/ t \in Asking
         \/ \E k \in Lookups : t = [op |-> "store", key |-> k, cc |-> Answer(k)],
         t.op = "load" => loader' = r /\ ~loaded',
         t.op = "bisect" => loaded',
         \A k \in DOMAIN cache' : k \in Lookups /\ cache'[k] = Answer(k)
  PROVE  GeoInv'
  <1> USE DEF GeoInv
  <1>1. \A k : Answer(k)' = Answer(k) BY DEF Answer
  <1>2. Loaded' = Loaded BY DEF Loaded
  <1>3. \A p \in Threads : geoTask'[p] = IF p = r THEN t ELSE geoTask[p]
    OBVIOUS
  <1>4. geoTask' = [p \in Threads |-> geoTask'[p]] BY Zenon
  <1>5. ASSUME NEW p \in Threads PROVE LookupOK(p)'
    <2>1. CASE p = r
      <3>1. geoTask'[p] = t BY <1>3, <2>1
      <3> QED BY <1>1, <2>1, <3>1, Zenon DEF LookupOK, Asking, Plain
    <2>2. CASE p # r
      <3>1. geoTask'[p] = geoTask[p] BY <1>3, <2>2
      <3>2. LookupOK(p) OBVIOUS
      <3>3. geoTask[p].op = "load" => loader' = p /\ ~loaded'
        BY <2>2, <3>2, GeoAssumption DEF LookupOK
      <3> QED BY <1>1, <3>1, <3>2, <3>3, Zenon DEF LookupOK, Asking, Plain
    <2> QED BY <2>1, <2>2
  <1> QED BY <1>1, <1>2, <1>4, <1>5, Zenon

LEMMA GeoStep ==
  ASSUME GeoInv, [GeoNext]_geoVars
  PROVE  GeoInv'
  <1>1. CASE UNCHANGED geoVars
    <2>1. /\ UNCHANGED <<delegated, readable, ranges, loaded, loader, cache, geoTask>>
          /\ \A k : Answer(k)' = Answer(k)
      BY <1>1 DEF geoVars, Answer
    <2>2. \A p \in Threads : LookupOK(p)' BY <2>1, Zenon DEF GeoInv, LookupOK, Asking, Plain
    <2> QED BY <2>1, <2>2, Zenon DEF GeoInv, Loaded
  <1>2. ASSUME NEW r \in Threads,
               \/ Country(r) \/ LoadLock(r) \/ LoadTable(r)
               \/ LoadDone(r) \/ Bisect(r) \/ Remember(r)
        PROVE  GeoInv'
    <2>0. /\ LookupOK(r) /\ loaded \in BOOLEAN /\ (loaded => ranges = Loaded)
          /\ ranges \in [Families -> {{}, Compile(delegated)}]
          /\ geoTask = [p \in Threads |-> geoTask[p]] /\ r # Nobody
          /\ readable \subseteq Families
          /\ \A k \in DOMAIN cache : k \in Lookups /\ cache[k] = Answer(k)
      BY GeoAssumption DEF GeoInv
    <2>a. ASSUME NEW o, geoTask[r].op = o, o \in {"lock", "load", "bisect"}
          PROVE  geoTask[r] \in Asking /\ geoTask[r].op = o
      BY <2>0, <2>a DEF LookupOK, Idle
    <2>1. CASE Country(r)
      <3>1. PICK k \in Lookups \ DOMAIN cache :
              geoTask' = [geoTask EXCEPT ![r] =
                IF k[2] \in Special THEN [op |-> "store", key |-> k, cc |-> None]
                ELSE [op |-> IF loaded THEN "bisect" ELSE "lock", key |-> k]]
        BY <2>1, Zenon DEF Country
      <3>2. CASE k[2] \in Special
        <4>1. Answer(k) = None BY <3>2 DEF Answer
        <4> DEFINE t == [op |-> "store", key |-> k, cc |-> None]
        <4>2. geoTask' = [geoTask EXCEPT ![r] = t] BY <3>1, <3>2
        <4>3. t.op = "store" /\ \E j \in Lookups : t = [op |-> "store", key |-> j, cc |-> Answer(j)]
          BY <4>1
        <4> HIDE DEF t
        <4> QED BY <2>0, <2>1, <4>2, <4>3, OneLookup DEF Country
      <3>3. CASE k[2] \notin Special
        <4> DEFINE t == [op |-> IF loaded THEN "bisect" ELSE "lock", key |-> k]
        <4>2. geoTask' = [geoTask EXCEPT ![r] = t] BY <3>1, <3>3
        <4>3. t \in Asking /\ t.op # "load" /\ (t.op = "bisect" => loaded)
          BY <3>3 DEF Asking, Plain
        <4> HIDE DEF t
        <4> QED BY <2>0, <2>1, <4>2, <4>3, OneLookup DEF Country
      <3> QED BY <3>2, <3>3
    <2>2. CASE LoadLock(r)
      <3>1. geoTask[r] \in Asking BY <2>2, <2>a DEF LoadLock
      <3>2. CASE loaded
        <4> DEFINE t == [geoTask[r] EXCEPT !.op = "bisect"]
        <4>1. geoTask' = [geoTask EXCEPT ![r] = t] BY <2>2, <3>2 DEF LoadLock, To
        <4>2. t \in Asking /\ t.op = "bisect" BY <3>1 DEF Asking
        <4> HIDE DEF t
        <4> QED BY <2>0, <2>2, <3>2, <4>1, <4>2, OneLookup DEF LoadLock
      <3>3. CASE ~loaded
        <4> DEFINE t == [geoTask[r] EXCEPT !.op = "load"]
        <4>1. geoTask' = [geoTask EXCEPT ![r] = t] /\ loader = Nobody /\ loader' = r
          BY <2>2, <3>3 DEF LoadLock, To
        <4>2. t \in Asking /\ t.op = "load" BY <3>1 DEF Asking
        <4> HIDE DEF t
        <4> QED BY <2>0, <2>2, <3>3, <4>1, <4>2, OneLookup DEF LoadLock
      <3> QED BY <3>2, <3>3
    <2>3. CASE LoadTable(r)
      <3>1. geoTask[r] \in Asking /\ geoTask[r].op = "load" BY <2>3, <2>a DEF LoadTable
      <3>2. loader = r /\ ~loaded BY <2>0, <3>1 DEF LookupOK
      <3>3. ranges' \in [Families -> {{}, Compile(delegated)}]
        <4>1. PICK f \in readable : ranges' = [ranges EXCEPT ![f] = Compile(delegated)]
          BY <2>3, Zenon DEF LoadTable
        <4> QED BY <2>0, <4>1
      <3>4. geoTask' = [geoTask EXCEPT ![r] = geoTask[r]] BY <2>0, <2>3 DEF LoadTable
      <3> QED BY <2>0, <2>3, <3>1, <3>2, <3>3, <3>4, OneLookup DEF LoadTable
    <2>4. CASE LoadDone(r)
      <3>1. geoTask[r] \in Asking /\ geoTask[r].op = "load" BY <2>4, <2>a DEF LoadDone
      <3>2. loader = r /\ ~loaded BY <2>0, <3>1 DEF LookupOK
      <3> DEFINE t == [geoTask[r] EXCEPT !.op = "bisect"]
      <3>3. geoTask' = [geoTask EXCEPT ![r] = t] BY <2>4 DEF LoadDone, To
      <3>4. t \in Asking /\ t.op = "bisect" BY <3>1 DEF Asking
      <3>5. ranges' = Loaded
        <4>1. CASE readable = Families
          BY <2>0, <2>4, <4>1 DEF LoadDone, Loaded
        <4>2. CASE readable # Families
          BY <2>4, <4>2 DEF LoadDone, Loaded
        <4> QED BY <4>1, <4>2
      <3>6. ranges' \in [Families -> {{}, Compile(delegated)}] BY <3>5 DEF Loaded
      <3> HIDE DEF t
      <3> QED BY <2>0, <2>4, <3>2, <3>3, <3>4, <3>5, <3>6, OneLookup DEF LoadDone
    <2>5. CASE Bisect(r)
      <3>1. geoTask[r] \in Asking /\ geoTask[r].op = "bisect" BY <2>5, <2>a DEF Bisect
      <3>2. loaded /\ ranges = Loaded BY <2>0, <3>1 DEF LookupOK
      <3> DEFINE k == geoTask[r].key
      <3>3. k \in Lookups /\ k[1] \in Families /\ k[2] \notin Special
        BY <3>1 DEF Asking, Plain, Lookups
      <3>4. Resolve(ranges[k[1]], k[2]) = Answer(k)
        BY <3>2, <3>3, EmptyTable DEF Answer, Loaded
      <3> DEFINE t == [op |-> "store", key |-> k, cc |-> Resolve(ranges[k[1]], k[2])]
      <3>5. geoTask' = [geoTask EXCEPT ![r] = t] BY <2>0, <2>5 DEF Bisect
      <3>6. t.op = "store" /\ \E j \in Lookups : t = [op |-> "store", key |-> j, cc |-> Answer(j)]
        BY <3>3, <3>4
      <3> HIDE DEF t
      <3> QED BY <2>0, <2>5, <3>5, <3>6, OneLookup DEF Bisect
    <2>6. CASE Remember(r)
      <3>1. PICK k \in Lookups : geoTask[r] = [op |-> "store", key |-> k, cc |-> Answer(k)]
        BY <2>0, <2>6 DEF LookupOK, Remember, Idle, Asking
      <3>2. \A j \in DOMAIN cache' : j \in Lookups /\ cache'[j] = Answer(j)
        <4>1. CASE cache' = cache BY <2>0, <4>1
        <4>2. CASE cache' = [j \in DOMAIN cache \cup {geoTask[r].key} |->
                              IF j = geoTask[r].key THEN geoTask[r].cc ELSE cache[j]]
          BY <2>0, <3>1, <4>2
        <4> QED BY <2>6, <4>1, <4>2 DEF Remember
      <3>3. geoTask' = [geoTask EXCEPT ![r] = Idle] /\ Idle.op = "idle"
        BY <2>6 DEF Remember, Idle
      <3> QED BY <2>0, <2>6, <3>2, <3>3, OneLookup DEF Remember
    <2> QED BY <1>2, <2>1, <2>2, <2>3, <2>4, <2>5, <2>6
  <1> QED BY <1>1, <1>2 DEF GeoNext

LEMMA GeoInvariant == GeoSpec => []GeoInv
  <1>1. GeoInit => GeoInv
    <2> SUFFICES ASSUME GeoInit PROVE GeoInv
      OBVIOUS
    <2>1. \A r \in Threads : geoTask[r] = Idle /\ Idle.op = "idle" BY DEF GeoInit, Idle
    <2>2. \A r \in Threads : LookupOK(r) BY <2>1, Zenon DEF LookupOK
    <2>3. /\ readable \subseteq Families /\ loaded = FALSE
          /\ geoTask = [r \in Threads |-> geoTask[r]]
      BY DEF GeoInit
    <2>4. ranges \in [Families -> {{}, Compile(delegated)}] BY Zenon DEF GeoInit
    <2>5. DOMAIN cache = {} /\ delegated \subseteq Delegations BY DEF GeoInit
    <2> QED BY <2>2, <2>3, <2>4, <2>5, Zenon DEF GeoInv
  <1>2. GeoInv /\ [GeoNext]_geoVars => GeoInv' BY GeoStep
  <1> QED BY <1>1, <1>2, PTL DEF GeoSpec

\* write_v4, _load, country: every answer is the country that the delegations
\* give the address, the loop and the bisection left out of it.
THEOREM AnswersGiven == GeoSpec => []AnswersRight
  <1>1. ASSUME GeoInv, NEW k \in Lookups PROVE Answer(k) \in Expected(k[2])
    <2>1. CASE k[2] \in Special \/ readable # Families
      BY <2>1 DEF Answer, Expected
    <2>2. CASE ~(k[2] \in Special \/ readable # Families)
      <3>1. delegated \subseteq Delegations BY <1>1 DEF GeoInv
      <3>2. Compile(delegated) = Taken BY <3>1, TableIsTaken
      <3>3. /\ Taken \subseteq Delegations
            /\ \A q, r \in Taken : Precedes(q, r) => q.e < r.s
        <4> DEFINE S == WithFlag(delegated)
        <4>1. S \subseteq Delegations BY <3>1 DEF WithFlag
        <4>2. Taken \subseteq S /\ Written(Taken, S) BY <3>1, <3>2, TableWritten
        <4> HIDE DEF S
        <4> QED BY <4>1, <4>2, TableDisjoint
      <3>4. k[2] \in Nat BY GeoAssumption DEF Lookups, GeoAddrs
      <3> QED BY <2>2, <3>2, <3>3, <3>4, BisectionFinds DEF Answer, Expected
    <2> QED BY <2>1, <2>2
  <1>2. GeoInv => AnswersRight
    <2> SUFFICES ASSUME GeoInv PROVE AnswersRight
      OBVIOUS
    <2>1. ASSUME NEW k \in DOMAIN cache PROVE cache[k] \in Expected(k[2])
      <3>1. k \in Lookups /\ cache[k] = Answer(k) BY <2>1 DEF GeoInv
      <3> QED BY <1>1, <3>1
    <2>2. ASSUME NEW r \in Threads, geoTask[r].op = "store"
          PROVE  geoTask[r].cc \in Expected(geoTask[r].key[2])
      <3>1. PICK k \in Lookups : geoTask[r] = [op |-> "store", key |-> k, cc |-> Answer(k)]
        BY <2>2 DEF GeoInv, LookupOK, Idle, Asking
      <3> QED BY <1>1, <3>1
    <2> QED BY <2>1, <2>2 DEF AnswersRight
  <1> QED BY <1>2, GeoInvariant, PTL

----------------------------------------------------------------------------
(* Web: the parts side by side *)

\* A step of Web moves one part, or none, as the part's own specification says.
LEMMA PartSteps ==
  ASSUME [WebNext]_webVars
  PROVE  /\ [LockNext]_lockVars /\ [TotpNext]_totpVars /\ [ResetsNext]_resetVars
         /\ [SessionsNext]_sessVars /\ [KeysNext]_keyVars /\ [LayoutNext]_layoutVars
         /\ [GeoNext]_geoVars /\ [StatsNext]_statsVars /\ [ServerNext]_serverVars
  <1>1. CASE WebNext BY <1>1, Zenon DEF WebNext, Rests
  <1>2. CASE UNCHANGED webVars
    <2>1. /\ UNCHANGED lockVars /\ UNCHANGED totpVars /\ UNCHANGED resetVars
          /\ UNCHANGED sessVars /\ UNCHANGED keyVars /\ UNCHANGED layoutVars
          /\ UNCHANGED geoVars /\ UNCHANGED statsVars /\ UNCHANGED serverVars
      BY <1>2 DEF webVars
    <2> QED BY <2>1, Zenon
  <1> QED BY <1>1, <1>2

\* What the run checks of Web is what is proved of its parts.
LEMMA PartSpecs ==
  WebSpec => /\ LockSpec /\ TotpSpec /\ ResetsSpec /\ SessionsSpec /\ KeysSpec
             /\ LayoutSpec /\ GeoSpec /\ StatsSpec /\ ServerSpec
  <1>1. WebInit => /\ LockInit /\ TotpInit /\ ResetsInit /\ SessionsInit /\ KeysInit
                   /\ LayoutInit /\ GeoInit /\ StatsInit /\ ServerInit
    BY Zenon DEF WebInit
  <1>2. [WebNext]_webVars =>
          /\ [LockNext]_lockVars /\ [TotpNext]_totpVars /\ [ResetsNext]_resetVars
          /\ [SessionsNext]_sessVars /\ [KeysNext]_keyVars /\ [LayoutNext]_layoutVars
          /\ [GeoNext]_geoVars /\ [StatsNext]_statsVars /\ [ServerNext]_serverVars
    BY PartSteps
  <1> QED BY <1>1, <1>2, PTL DEF WebSpec, LockSpec, TotpSpec, ResetsSpec, SessionsSpec,
             KeysSpec, LayoutSpec, GeoSpec, StatsSpec, ServerSpec

\* Every safety property of the parts holds of the process that is made of them:
\* the lockout, the second factor, reset limits, sessions, keys, overview, look-ups,
\* statistics, the layout file as a register and the slots as pools.
THEOREM WebIsSafe ==
  WebSpec =>
    /\ [](TiersHold /\ CodeGuessesHold)
    /\ [](RecoveryOnce /\ RecoveryFits /\ TriesBounded /\ OnceInTurn)
    /\ []LimitsHold
    /\ [](DeadlineExact /\ RefusedForGood /\ LastUsedFresh)
    /\ [](ShowsEachOnce /\ AnswersRight /\ BarsFresh)
    /\ LayoutDurable /\ SlotsArePools
  BY PartSpecs, LockoutHolds, GuessesAreBounded, RecoveryCodesOnce, RecoveryCodesFit,
     AttemptsAreBounded, CodesOnceInTurn, ResetLimitsHold, DeadlineIsExact,
     RefusedStaysRefused, KeysAreFresh, OverviewIsComplete, AnswersGiven,
     BarsAreFresh, StoreImplementsRegister, ServerImplementsPools, PTL
=============================================================================
