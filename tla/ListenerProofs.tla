--------------------------- MODULE ListenerProofs ---------------------------
(***************************************************************************)
(* For every set of devices, names and addresses, every queue and hold     *)
(* size and any number of datagrams: the listeners and the resolver are    *)
(* type-correct, no held datagram is ever stranded, every datagram is in   *)
(* one place, and nothing comes in from an unknown sender.  Of the source  *)
(* filter on its own: it forgets no address and loses no trigger.          *)
(***************************************************************************)
EXTENDS Listener, TallyProofs, TLAPS

(* Expiry keeps a suffix of the held datagrams. *)
LEMMA ExpireSuffix ==
  ASSUME NEW S, NEW s \in Seq(S)
  PROVE  /\ Expire(s) \in Seq(S)
         /\ \A i \in 1..Len(Expire(s)) : \E j \in 1..Len(s) : Expire(s)[i] = s[j]
<1>1. IsFiniteSet(Expired(s))
  <2>1. Len(s) \in Nat
    OBVIOUS
  <2>2. IsFiniteSet(1..Len(s))
    BY <2>1, FS_Interval
  <2>3. Expired(s) \subseteq 1..Len(s)
    BY DEF Expired
  <2> QED BY <2>2, <2>3, FS_Subset
<1>2. PICK k \in Nat : k = Cardinality(Expired(s))
  BY <1>1, FS_CardinalityType
<1>3. Expire(s) = SubSeq(s, k + 1, Len(s))
  BY <1>2 DEF Expire
<1> QED BY <1>3

(* A bounded append keeps nothing but old elements and the new one. *)
LEMMA PushElements ==
  ASSUME NEW S, NEW s \in Seq(S), NEW x \in S
  PROVE  /\ Push(s, x) \in Seq(S)
         /\ \A i \in 1..Len(Push(s, x)) :
              Push(s, x)[i] = x \/ \E j \in 1..Len(s) : Push(s, x)[i] = s[j]
<1>1. CASE Len(s) < HeldMax
  BY <1>1 DEF Push
<1>2. CASE ~(Len(s) < HeldMax)
  <2>1. s # <<>>
    BY <1>2, HeldAssumption
  <2>2. Push(s, x) = Append(Tail(s), x)
    BY <1>2 DEF Push
  <2>3. Tail(s) \in Seq(S) /\ Len(Tail(s)) = Len(s) - 1
    BY <2>1
  <2>4. \A i \in 1..Len(Tail(s)) : Tail(s)[i] = s[i+1]
    BY <2>1
  <2>5. Push(s, x) \in Seq(S) /\ Len(Push(s, x)) = Len(s) /\ Len(s) \in Nat
    BY <2>2, <2>3
  <2>6. ASSUME NEW i \in 1..Len(Push(s, x))
        PROVE  Push(s, x)[i] = x \/ \E j \in 1..Len(s) : Push(s, x)[i] = s[j]
    <3>1. CASE i = Len(s)
      BY <3>1, <2>2, <2>3
    <3>2. CASE i # Len(s)
      <4> DEFINE n == Len(s)
      <4>3. n \in Nat /\ i \in 1..n /\ i # n /\ Len(Tail(s)) = n - 1
        BY <3>2, <2>3, <2>5
      <4> HIDE DEF n
      <4>4. i \in 1..(n - 1) /\ i + 1 \in 1..n
        BY <4>3
      <4>1. i \in 1..Len(Tail(s)) /\ i + 1 \in 1..Len(s)
        BY <4>3, <4>4 DEF n
      <4>2. Push(s, x)[i] = s[i+1]
        BY <4>1, <2>2, <2>3, <2>4
      <4> QED BY <4>1, <4>2
    <3> QED BY <3>1, <3>2
  <2> QED BY <2>5, <2>6
<1> QED BY <1>1, <1>2

(***************************************************************************)
(* Type correctness.                                                       *)
(***************************************************************************)

(* A step of the resolver or of the DNS around it keeps the filter's types. *)
LEMMA SourcesTypeStep ==
  ASSUME SourcesTypeOK, SourcesNext, UNCHANGED stop
  PROVE  SourcesTypeOK'
<1> USE DEF SourcesTypeOK, Answers
<1>1. CASE DnsChange
  BY <1>1 DEF DnsChange
<1>2. CASE MonoTick
  BY <1>2, TimesAssumption DEF MonoTick, NextInterval
<1>3. CASE LookupOk
  BY <1>3 DEF LookupOk
<1>4. CASE LookupFail
  BY <1>4 DEF LookupFail
<1>5. CASE Settle
  <2>1. allowed' \subseteq Addrs
    BY <1>5, NetsAssumption DEF Settle
  <2>2. failures' \in Nat
    BY <1>5 DEF Settle
  <2>3. /\ pcR' \in {"lookup", "bump", "wait", "off"}
        /\ resolved' \in [Hosts -> SUBSET Addrs]
    BY <1>5 DEF Settle
  <2>4. failed' \in BOOLEAN
    BY <1>5 DEF Settle
  <2>5. slept' = 0 /\ UNCHANGED <<dns, dnsChanges, faults,
          todo, found, generation, kicked, owed, answered, latest>>
    BY <1>5 DEF Settle
  <2> QED BY <2>1, <2>2, <2>3, <2>4, <2>5, TimesAssumption
<1>6. CASE Bump
  BY <1>6, TimesAssumption DEF Bump
<1>7. CASE Wake
  <2>1. /\ pcR' = "lookup" /\ todo' = Hosts
        /\ found' = resolved /\ slept' = 0
        /\ UNCHANGED <<dns, dnsChanges, faults, failed, resolved, failures,
                       allowed, generation, owed, answered, latest>>
    BY <1>7 DEF Wake
  <2>2. kicked' \in BOOLEAN
    BY <1>7 DEF Wake
  <2> QED BY <2>1, <2>2, TimesAssumption
<1>8. CASE ResolverStop
  BY <1>8 DEF ResolverStop
<1> QED
  BY <1>1, <1>2, <1>3, <1>4, <1>5, <1>6, <1>7, <1>8 DEF SourcesNext, ResolverStep

(* Ingesting one line adds at most one item of the right shape. *)
LEMMA IngestType ==
  ASSUME PipelineTypeOK, stop \in BOOLEAN, admitted \subseteq Addrs,
         NEW d \in Devices, NEW a \in Addrs, NEW t, NEW n \in Nat,
         Ingest(d, a, t, n), wall' = wall
  PROVE  PipelineTypeOK' /\ admitted' \subseteq Addrs
<1>1. ASSUME NEW tag \in {"ev", "un"}, Put(ItemOf(d, tag, n))
      PROVE  PipelineTypeOK'
  <2>1. ItemOf(d, tag, n) \in QItem
    BY DEF ItemOf, QItem
  <2>2. CASE Len(q) < QueueMax
    <3>1. q' = Append(q, ItemOf(d, tag, n)) /\ puts' = puts + 1 /\ drops' = drops
      BY <1>1, <2>2 DEF Put
    <3> QED BY <3>1, <2>1 DEF PipelineTypeOK
  <2>3. CASE ~(Len(q) < QueueMax)
    <3>1. /\ drops' = [drops EXCEPT !.n = @ + 1] /\ q' = q /\ puts' = puts
      BY <1>1, <2>3 DEF Put
    <3> QED BY <3>1 DEF PipelineTypeOK
  <2> QED BY <2>2, <2>3
<1>2. ASSUME drops' = [drops EXCEPT !.ignored = @ + 1], UNCHANGED <<q, puts>>
      PROVE  PipelineTypeOK'
  BY <1>2 DEF PipelineTypeOK
<1>3. PipelineTypeOK'
  BY <1>1, <1>2 DEF Ingest
<1> QED BY <1>3 DEF Ingest

(* The actions that touch no more than the program counter and the locals. *)
LEMMA LocalTypeStep ==
  ASSUME ListenerTypeOK, NEW d \in Devices,
         \/ Bind(d) \/ LoopTop(d) \/ Recv(d) \/ RecvTimeout(d)
         \/ CheckGeneration(d) \/ Examine(d) \/ Released(d) \/ Decide(d)
  PROVE  ListenerTypeOK'
<1> USE DEF ListenerTypeOK, ThreadsTypeOK, Goto
<1>1. SourcesTypeOK' /\ PipelineTypeOK'
  <2>1. UNCHANGED <<sourcesVars, stop, pipelineVars>>
    BY DEF Bind, LoopTop, Recv, RecvTimeout, CheckGeneration, Examine, Released,
           Decide
  <2> QED
    BY <2>1 DEF sourcesVars, pipelineVars, SourcesTypeOK, PipelineTypeOK, Answers
<1>2. CASE Bind(d)
  <2>1. generation \in Nat
    BY DEF SourcesTypeOK
  <2> QED BY <1>1, <1>2, <2>1 DEF Bind
<1>3. CASE LoopTop(d)
  BY <1>1, <1>3 DEF LoopTop
<1>4. CASE Recv(d)
  BY <1>1, <1>4 DEF Recv
<1>5. CASE RecvTimeout(d)
  BY <1>1, <1>5 DEF RecvTimeout, Forget
<1>6. CASE CheckGeneration(d)
  BY <1>1, <1>6 DEF CheckGeneration, AfterReplay
<1>7. CASE Examine(d)
  <2>1. held[d] \in Seq(HeldItems) /\ held[d] # <<>>
    BY <1>7 DEF Examine
  <2>2. Head(held[d]) \in HeldItems /\ Tail(held[d]) \in Seq(HeldItems)
    BY <2>1
  <2>3. UNCHANGED <<pcL, dgram, gen, credit, received, admitted>>
    BY <1>7 DEF Examine
  <2>4. held' \in [Devices -> Seq(HeldItems)]
    BY <1>7, <2>2 DEF Examine
  <2>5. CASE Allows(Head(held[d]).sender)
    <3>1. out' = [out EXCEPT ![d] = Append(out[d], Head(held[d]))] /\ keep' = keep
      BY <1>7, <2>5 DEF Examine
    <3> QED BY <1>1, <2>2, <2>3, <2>4, <3>1
  <2>6. CASE ~Allows(Head(held[d]).sender)
    <3>1. keep' = [keep EXCEPT ![d] = Append(keep[d], Head(held[d]))] /\ out' = out
      BY <1>7, <2>6 DEF Examine
    <3> QED BY <1>1, <2>2, <2>3, <2>4, <3>1
  <2> QED BY <2>5, <2>6
<1>8. CASE Released(d)
  BY <1>1, <1>8 DEF Released, AfterReplay
<1>9. CASE Decide(d)
  BY <1>1, <1>9 DEF Decide
<1> QED BY <1>2, <1>3, <1>4, <1>5, <1>6, <1>7, <1>8, <1>9

(* A datagram being dealt with is a datagram. *)
InHandType ==
  \A d \in Devices : pcL[d] \in {"decide", "ingest", "reject", "hold"} =>
                       dgram[d] \in Datagrams

(* A step of a listener thread keeps the types of all that listeners share. *)
LEMMA ListenerTypeStep ==
  ASSUME ListenerTypeOK, InHandType, NEW d \in Devices, ListenerStep(d)
  PROVE  ListenerTypeOK'
<1> USE DEF ListenerTypeOK, ThreadsTypeOK, Goto
<1>1. CASE BindFails(d)
  BY <1>1 DEF BindFails, sourcesVars, pipelineVars, SourcesTypeOK,
              PipelineTypeOK, Answers
<1>2. CASE Reread(d)
  <2>1. Expire(held[d]) \in Seq(HeldItems)
    BY ExpireSuffix
  <2>2. SourcesTypeOK' /\ PipelineTypeOK'
    BY <1>2 DEF Reread, sourcesVars, pipelineVars, SourcesTypeOK,
                PipelineTypeOK, Answers
  <2>3. generation \in Nat
    BY DEF SourcesTypeOK
  <2> QED BY <1>2, <2>1, <2>2, <2>3 DEF Reread
<1>3. CASE Replay(d)
  <2>1. out[d] \in Seq(HeldItems) /\ out[d] # <<>>
    BY <1>3 DEF Replay
  <2>2. Head(out[d]) \in HeldItems /\ Tail(out[d]) \in Seq(HeldItems)
    BY <2>1
  <2>3. PICK m : m = Head(out[d]) /\ m \in HeldItems
    BY <2>2
  <2>4. m.sender \in Addrs /\ m.ts \in Nat
    BY <2>3 DEF HeldItems
  <2>5. Ingest(d, m.sender, m.text, m.ts) /\ wall' = wall
    BY <1>3, <2>3 DEF Replay
  <2>6. stop \in BOOLEAN
    BY DEF SourcesTypeOK
  <2>7. PipelineTypeOK' /\ admitted' \subseteq Addrs
    BY <2>4, <2>5, <2>6, IngestType
  <2>8. SourcesTypeOK'
    BY <1>3 DEF Replay, sourcesVars, SourcesTypeOK, Answers
  <2> QED BY <1>3, <2>2, <2>7, <2>8 DEF Replay
<1>4. CASE Correct(d)
  <2>1. SourcesTypeOK'
    BY <1>4 DEF Correct, sourcesVars, SourcesTypeOK, Answers
  <2>2. credit[d] \in Nat /\ drops \in [n : Nat, ignored : Nat, rejected : Nat]
    BY DEF PipelineTypeOK
  <2>3. drops' \in [n : Nat, ignored : Nat, rejected : Nat]
    <3>1. PICK r : /\ r = IF drops.rejected - credit[d] < 0 THEN 0
                          ELSE drops.rejected - credit[d]
                   /\ drops' = [drops EXCEPT !.rejected = r]
      BY <1>4 DEF Correct
    <3>2. drops.rejected \in Nat
      BY <2>2
    <3>3. r \in Nat
      BY <2>2, <3>1, <3>2
    <3> QED BY <2>2, <3>1, <3>3
  <2>4. PipelineTypeOK'
    BY <1>4, <2>3 DEF Correct, PipelineTypeOK
  <2> QED BY <1>4, <2>1, <2>4 DEF Correct, AfterReplay
<1>5. CASE IngestNow(d)
  <2>1. dgram[d] \in Datagrams
    BY <1>5 DEF IngestNow, InHandType
  <2>2. dgram[d].sender \in Addrs /\ wall \in Nat /\ stop \in BOOLEAN
    BY <2>1 DEF Datagrams, PipelineTypeOK, SourcesTypeOK
  <2>3. Ingest(d, dgram[d].sender, dgram[d].text, wall) /\ wall' = wall
    BY <1>5 DEF IngestNow
  <2>4. PipelineTypeOK' /\ admitted' \subseteq Addrs
    BY <2>2, <2>3, IngestType
  <2>5. SourcesTypeOK'
    BY <1>5 DEF IngestNow, sourcesVars, SourcesTypeOK, Answers
  <2> QED BY <1>5, <2>4, <2>5 DEF IngestNow, Forget
<1>6. CASE Reject(d)
  <2>1. SourcesTypeOK'
    BY <1>6 DEF Reject, sourcesVars, SourcesTypeOK, Answers
  <2>2. PipelineTypeOK'
    <3>1. drops' = [drops EXCEPT !.rejected = drops.rejected + 1]
      BY <1>6 DEF Reject
    <3>2. drops \in [n : Nat, ignored : Nat, rejected : Nat]
      BY DEF PipelineTypeOK
    <3>5. PICK r \in Nat : r = drops.rejected + 1
      BY <3>2
    <3>3. drops' \in [n : Nat, ignored : Nat, rejected : Nat]
      BY <3>1, <3>2, <3>5
    <3>4. UNCHANGED <<q, wall, puts>>
      BY <1>6 DEF Reject
    <3> QED BY <3>3, <3>4 DEF PipelineTypeOK
  <2> QED BY <1>6, <2>1, <2>2 DEF Reject, Forget
<1>7. CASE Hold(d)
  <2> DEFINE item == [ts |-> wall, sender |-> dgram[d].sender,
                      text |-> Truncate(dgram[d].text)]
  <2>1. dgram[d] \in Datagrams
    BY <1>7 DEF Hold, InHandType
  <2>2. item \in HeldItems
    BY <2>1 DEF Datagrams, HeldItems, Truncate, PipelineTypeOK
  <2>3. Expire(held[d]) \in Seq(HeldItems)
    BY ExpireSuffix
  <2>4. Push(Expire(held[d]), item) \in Seq(HeldItems)
    BY <2>2, <2>3, PushElements
  <2>5. kicked' \in BOOLEAN /\ owed' \subseteq Hosts
    BY <1>7 DEF Hold, Trigger, SourcesTypeOK
  <2>6. SourcesTypeOK'
    BY <1>7, <2>5 DEF Hold, SourcesTypeOK, Answers
  <2>7. PipelineTypeOK'
    BY <1>7 DEF Hold, PipelineTypeOK, pipelineVars
  <2> HIDE DEF item
  <2>8. held' = [held EXCEPT ![d] = Push(Expire(held[d]), item)]
    BY <1>7 DEF Hold, item
  <2>9. held' \in [Devices -> Seq(HeldItems)]
    BY <2>4, <2>8
  <2> QED BY <1>7, <2>6, <2>7, <2>9 DEF Hold, Forget
<1>8. CASE \/ Bind(d) \/ LoopTop(d) \/ Recv(d) \/ RecvTimeout(d)
           \/ CheckGeneration(d) \/ Examine(d) \/ Released(d) \/ Decide(d)
  BY <1>8, LocalTypeStep
<1> QED BY <1>1, <1>2, <1>3, <1>4, <1>5, <1>6, <1>7, <1>8 DEF ListenerStep
(***************************************************************************)
(* No held datagram is stranded.  The inductive invariant says the same of *)
(* every place a rejected datagram passes through on its way to `held`:    *)
(* the listener's hands, after the decision of line 199, and `keep`.       *)
(***************************************************************************)

\* The listener of d has not missed that sender a became allowed.
Watched(d, a) == Allows(a) => Announced(d)

KeepWatched(d) == \A i \in 1..Len(keep[d]) : Watched(d, keep[d][i].sender)
HeldWatched(d) == \A i \in 1..Len(held[d]) : Watched(d, held[d][i].sender)

StrandInvAt(d) ==
  /\ gen[d] <= generation
  /\ pcL[d] \notin {"reread", "release"} => HeldWatched(d)
  /\ pcL[d] = "release" => KeepWatched(d)
  /\ pcL[d] # "release" => keep[d] = <<>>
  /\ pcL[d] = "start" => held[d] = <<>>
  /\ pcL[d] \in {"reject", "hold"} => Watched(d, dgram[d].sender)

StrandInv == \A d \in Devices : StrandInvAt(d)

IInv == ListenerTypeOK /\ InHandType /\ StrandInv

(* A step of the resolver, or of the world around it, misses nobody. *)
LEMMA ResolverWatches ==
  ASSUME SourcesTypeOK, SourcesNext, NEW d \in Devices, gen[d] \in Nat,
         gen[d] <= generation, UNCHANGED gen, NEW a, Watched(d, a)
  PROVE  Watched(d, a)' /\ generation <= generation' /\ generation' \in Nat
<1> USE DEF Watched, Announced, Allows
<1>1. generation \in Nat
  BY DEF SourcesTypeOK
<1>2. CASE Settle
  <2>1. generation' = generation /\ pcR = "lookup"
    BY <1>2 DEF Settle
  <2>2. CASE pcR' = "bump"
    BY <1>1, <2>1, <2>2
  <2>3. CASE pcR' # "bump"
    <3>1. allowed' = allowed
      BY <1>2, <2>3 DEF Settle
    <3> QED BY <1>1, <2>1, <3>1
  <2> QED BY <2>2, <2>3
<1>3. CASE Bump
  <2>1. generation' = generation + 1
    BY <1>3 DEF Bump
  <2> QED BY <1>1, <2>1
<1>4. CASE DnsChange \/ MonoTick \/ LookupOk \/ LookupFail \/ Wake \/ ResolverStop
  <2>1. UNCHANGED <<allowed, generation>>
    BY <1>4 DEF DnsChange, MonoTick, LookupOk, LookupFail, Wake, ResolverStop
  <2>2. pcR = "bump" => pcR' = "bump"
    BY <1>4 DEF DnsChange, MonoTick, LookupOk, LookupFail, Wake, ResolverStop
  <2> QED BY <1>1, <2>1, <2>2
<1> QED BY <1>2, <1>3, <1>4 DEF SourcesNext, ResolverStep

(* The resolver's steps keep the inductive invariant: a changed allow-list
   is followed by a generation no listener has taken up. *)
LEMMA ResolverStepInv ==
  ASSUME IInv, SourcesNext, UNCHANGED <<stop, pipelineVars, listenerVars>>
  PROVE  IInv'
<1>1. ListenerTypeOK'
  <2>1. SourcesTypeOK'
    BY SourcesTypeStep DEF IInv, ListenerTypeOK
  <2> QED
    BY <2>1 DEF IInv, ListenerTypeOK, ThreadsTypeOK, PipelineTypeOK,
                pipelineVars, listenerVars
<1>2. InHandType'
  BY DEF IInv, InHandType, listenerVars
<1>3. StrandInv'
  <2> SUFFICES ASSUME NEW d \in Devices
               PROVE  StrandInvAt(d)'
    BY DEF StrandInv
  <2>1. StrandInvAt(d)
    BY DEF IInv, StrandInv
  <2>2. SourcesTypeOK /\ gen[d] \in Nat /\ generation \in Nat
    BY DEF IInv, ListenerTypeOK, ThreadsTypeOK, SourcesTypeOK
  <2>3. UNCHANGED <<pcL, dgram, gen, held, keep>>
    BY DEF listenerVars
  <2>4. ASSUME NEW a, Watched(d, a) PROVE Watched(d, a)'
    BY <2>1, <2>2, <2>3, <2>4, ResolverWatches DEF StrandInvAt
  <2>5. generation <= generation' /\ generation' \in Nat
    <3>1. CASE Bump
      BY <3>1, <2>2 DEF Bump
    <3>2. CASE ~Bump
      <4>1. generation' = generation
        BY <3>2 DEF SourcesNext, ResolverStep, DnsChange, MonoTick, LookupOk,
                    LookupFail, Settle, Wake, ResolverStop
      <4> QED BY <2>2, <4>1
    <3> QED BY <3>1, <3>2
  <2>6. HeldWatched(d) => HeldWatched(d)'
    BY <2>3, <2>4 DEF HeldWatched
  <2>7. KeepWatched(d) => KeepWatched(d)'
    BY <2>3, <2>4 DEF KeepWatched
  <2>8. gen'[d] <= generation'
    BY <2>1, <2>2, <2>3, <2>5 DEF StrandInvAt
  <2> QED BY <2>1, <2>3, <2>4, <2>6, <2>7, <2>8 DEF StrandInvAt
<1> QED BY <1>1, <1>2, <1>3 DEF IInv

(* What a listener is about to decide on, or is holding, is a datagram. *)
LEMMA InHandStep ==
  ASSUME ListenerTypeOK, InHandType, NEW d \in Devices, ListenerStep(d)
  PROVE  InHandType'
<1>1. ThreadsTypeOK
  BY DEF ListenerTypeOK
<1> SUFFICES ASSUME NEW e \in Devices,
                    pcL'[e] \in {"decide", "ingest", "reject", "hold"}
             PROVE  dgram'[e] \in Datagrams
  BY DEF InHandType
<1> USE DEF ThreadsTypeOK, Goto
<1>2. CASE e # d
  <2>1. pcL'[e] = pcL[e] /\ dgram'[e] = dgram[e]
    BY <1>1, <1>2 DEF ListenerStep, Bind, BindFails, LoopTop, Recv, RecvTimeout,
         CheckGeneration, Reread, Examine, Released, Replay, Correct, Decide,
         IngestNow, Reject, Hold, Forget
  <2> QED BY <2>1 DEF InHandType
<1>3. CASE e = d
  <2>1. pcL'[d] = "decide" => dgram'[d] # NoData
    BY <1>1, <1>3 DEF ListenerStep, Bind, BindFails, LoopTop, Recv, RecvTimeout,
         CheckGeneration, Reread, Examine, Released, Replay, Correct, Decide,
         IngestNow, Reject, Hold, Forget, AfterReplay
  <2>2. dgram'[d] = dgram[d]
    BY <1>1, <1>3 DEF ListenerStep, Bind, BindFails, LoopTop, Recv, RecvTimeout,
         CheckGeneration, Reread, Examine, Released, Replay, Correct, Decide,
         IngestNow, Reject, Hold, Forget, AfterReplay
  <2>3. CASE pcL'[d] = "decide"
    BY <1>1, <1>3, <2>1, <2>2, <2>3
  <2>4. CASE pcL'[d] # "decide"
    <3>1. pcL[d] \in {"decide", "ingest", "reject", "hold"}
      BY <1>1, <1>3, <2>4 DEF ListenerStep, Bind, BindFails, LoopTop, Recv,
         RecvTimeout, CheckGeneration, Reread, Examine, Released, Replay, Correct,
         Decide, IngestNow, Reject, Hold, AfterReplay
    <3> QED BY <1>3, <2>2, <3>1 DEF InHandType
  <2> QED BY <2>3, <2>4
<1> QED BY <1>2, <1>3

(* A listener's own steps keep the inductive invariant: it takes up the
   generation before it looks at the allow-list. *)
LEMMA ListenerStepInv ==
  ASSUME IInv, NEW d \in Devices, ListenerStep(d)
  PROVE  IInv'
<1> USE DEF Goto
<1>1. ListenerTypeOK' /\ InHandType'
  BY ListenerTypeStep, InHandStep DEF IInv
<1>2. UNCHANGED <<allowed, generation, pcR>>
  BY DEF ListenerStep, Bind, BindFails, LoopTop, Recv, RecvTimeout,
       CheckGeneration, Reread, Examine, Released, Replay, Correct, Decide,
       IngestNow, Reject, Hold, sourcesVars
<1>3. ThreadsTypeOK /\ generation \in Nat
  BY DEF IInv, ListenerTypeOK, SourcesTypeOK
<1>4. ASSUME NEW e \in Devices, gen'[e] = gen[e], NEW a
      PROVE  Watched(e, a)' = Watched(e, a)
  BY <1>2, <1>4 DEF Watched, Allows, Announced
<1>5. ASSUME NEW e \in Devices, e # d PROVE StrandInvAt(e)'
  <2>1. StrandInvAt(e)
    BY DEF IInv, StrandInv
  <2>2. /\ pcL'[e] = pcL[e] /\ dgram'[e] = dgram[e] /\ gen'[e] = gen[e]
        /\ held'[e] = held[e] /\ keep'[e] = keep[e]
    BY <1>3, <1>5 DEF ThreadsTypeOK, ListenerStep, Bind, BindFails, LoopTop, Recv,
         RecvTimeout, CheckGeneration, Reread, Examine, Released, Replay, Correct,
         Decide, IngestNow, Reject, Hold, Forget
  <2>3. HeldWatched(e) => HeldWatched(e)'
    BY <1>4, <2>2 DEF HeldWatched
  <2>4. KeepWatched(e) => KeepWatched(e)'
    BY <1>4, <2>2 DEF KeepWatched
  <2>5. Watched(e, dgram[e].sender) => Watched(e, dgram[e].sender)'
    BY <1>4, <2>2 DEF Watched
  <2> QED BY <1>2, <2>1, <2>2, <2>3, <2>4, <2>5 DEF StrandInvAt
<1>6. StrandInvAt(d)
  BY DEF IInv, StrandInv
<1>7. StrandInvAt(d)'
  <2> USE <1>2, <1>3, <1>6 DEF StrandInvAt, ThreadsTypeOK
  <2>1. CASE Bind(d)
    <3>1. /\ gen'[d] = generation /\ pcL'[d] = "top"
          /\ held'[d] = <<>> /\ keep'[d] = <<>>
      BY <2>1 DEF Bind
    <3>2. HeldWatched(d)'
      BY <3>1 DEF HeldWatched
    <3> QED BY <3>1, <3>2
  <2>2. CASE Reread(d)
    <3>1. gen'[d] = generation /\ pcL'[d] = "release" /\ keep'[d] = <<>>
      BY <2>2 DEF Reread
    <3>2. KeepWatched(d)'
      BY <3>1 DEF KeepWatched
    <3> QED BY <3>1, <3>2
  <2>3. CASE Examine(d)
    <3>1. pcL'[d] = "release" /\ gen'[d] = gen[d] /\ pcL[d] = "release"
      BY <2>3 DEF Examine
    <3>2. CASE Allows(Head(held[d]).sender)
      <4>1. keep' = keep
        BY <2>3, <3>2 DEF Examine
      <4>2. KeepWatched(d)'
        BY <1>4, <3>1, <4>1 DEF KeepWatched
      <4> QED BY <3>1, <4>2
    <3>3. CASE ~Allows(Head(held[d]).sender)
      <4>1. keep'[d] = Append(keep[d], Head(held[d]))
        BY <2>3, <3>3 DEF Examine
      <4>2. Watched(d, Head(held[d]).sender)
        BY <3>3 DEF Watched
      <4>3. KeepWatched(d)'
        BY <1>4, <3>1, <4>1, <4>2 DEF KeepWatched
      <4> QED BY <3>1, <4>3
    <3> QED BY <3>2, <3>3
  <2>4. CASE Released(d)
    <3>1. /\ pcL[d] = "release" /\ pcL'[d] \in {"top", "decide", "replay"}
          /\ held'[d] = keep[d] /\ keep'[d] = <<>> /\ gen'[d] = gen[d]
      BY <2>4 DEF Released, AfterReplay
    <3>2. HeldWatched(d)'
      BY <1>4, <3>1 DEF HeldWatched, KeepWatched
    <3> QED BY <3>1, <3>2
  <2>5. CASE Decide(d)
    <3>1. /\ pcL[d] = "decide" /\ pcL'[d] \in {"ingest", "reject"}
          /\ UNCHANGED <<dgram, gen, held, keep>>
          /\ pcL'[d] = "reject" => ~Allows(dgram[d].sender)
      BY <2>5 DEF Decide
    <3>2. HeldWatched(d)'
      BY <1>4, <3>1 DEF HeldWatched
    <3>3. pcL'[d] = "reject" => Watched(d, dgram[d].sender)'
      BY <1>4, <3>1 DEF Watched
    <3> QED BY <3>1, <3>2, <3>3
  <2>6. CASE Reject(d)
    <3>1. /\ pcL[d] = "reject" /\ pcL'[d] \in {"hold", "top"}
          /\ UNCHANGED <<gen, held, keep>>
          /\ pcL'[d] = "hold" => dgram' = dgram
      BY <2>6 DEF Reject
    <3>2. HeldWatched(d)'
      BY <1>4, <3>1 DEF HeldWatched
    <3>3. pcL'[d] = "hold" => Watched(d, dgram[d].sender)'
      BY <1>4, <3>1 DEF Watched
    <3> QED BY <3>1, <3>2, <3>3
  <2>7. CASE Hold(d)
    <3> DEFINE item == [ts |-> wall, sender |-> dgram[d].sender,
                        text |-> Truncate(dgram[d].text)]
    <3>1. /\ pcL[d] = "hold" /\ pcL'[d] = "top" /\ UNCHANGED <<gen, keep>>
          /\ held'[d] = Push(Expire(held[d]), item)
      BY <2>7 DEF Hold
    <3>2. dgram[d] \in Datagrams
      BY <3>1 DEF IInv, InHandType
    <3>3. item \in HeldItems /\ item.sender = dgram[d].sender
      BY <3>2 DEF Datagrams, HeldItems, Truncate, IInv, ListenerTypeOK,
                  PipelineTypeOK
    <3> HIDE DEF item
    <3>4. /\ Expire(held[d]) \in Seq(HeldItems)
          /\ \A i \in 1..Len(Expire(held[d])) :
               \E j \in 1..Len(held[d]) : Expire(held[d])[i] = held[d][j]
      BY ExpireSuffix
    <3>5. \A i \in 1..Len(held'[d]) :
            \/ held'[d][i] = item
            \/ \E j \in 1..Len(Expire(held[d])) :
                 held'[d][i] = Expire(held[d])[j]
      <4> DEFINE old == Expire(held[d])
      <4> HIDE DEF old
      <4>1. old \in Seq(HeldItems) /\ item \in HeldItems
        BY <3>3, <3>4 DEF old
      <4>2. \A i \in 1..Len(Push(old, item)) :
              \/ Push(old, item)[i] = item
              \/ \E j \in 1..Len(old) : Push(old, item)[i] = old[j]
        BY <4>1, PushElements
      <4>3. held'[d] = Push(old, item)
        BY <3>1 DEF old
      <4> QED BY <4>2, <4>3 DEF old
    <3>6. \A i \in 1..Len(held'[d]) :
            held'[d][i] = item \/ \E j \in 1..Len(held[d]) : held'[d][i] = held[d][j]
      BY <3>4, <3>5
    <3>7. HeldWatched(d) /\ Watched(d, item.sender)
      BY <3>1, <3>3 DEF Watched
    <3>8. HeldWatched(d)'
      BY <1>4, <3>1, <3>6, <3>7 DEF HeldWatched
    <3> QED BY <3>1, <3>8
  <2>8. CASE \/ BindFails(d) \/ LoopTop(d) \/ Recv(d) \/ RecvTimeout(d)
             \/ CheckGeneration(d) \/ Replay(d) \/ Correct(d) \/ IngestNow(d)
    <3>1. /\ UNCHANGED <<gen, held, keep>>
          /\ pcL[d] \notin {"reread", "release"}
          /\ pcL'[d] \notin {"start", "release", "reject", "hold"}
      BY <2>8 DEF BindFails, LoopTop, Recv, RecvTimeout, CheckGeneration, Replay,
                  Correct, IngestNow, AfterReplay
    <3>2. HeldWatched(d)'
      BY <1>4, <3>1 DEF HeldWatched
    <3> QED BY <3>1, <3>2
  <2> QED BY <2>1, <2>2, <2>3, <2>4, <2>5, <2>6, <2>7, <2>8 DEF ListenerStep
<1>8. StrandInv'
  BY <1>5, <1>7 DEF StrandInv
<1> QED BY <1>1, <1>8 DEF IInv

(* Nothing is held at the start. *)
LEMMA InitInv == ListenersInit => IInv
<1> SUFFICES ASSUME ListenersInit PROVE IInv
  OBVIOUS
<1> USE DEF ListenersInit, SourcesInit, PipelineInit, ListenerInit
<1>1. SourcesTypeOK
  <2>1. failed \in BOOLEAN /\ kicked \in BOOLEAN /\ stop \in BOOLEAN
    OBVIOUS
  <2>2. pcR \in {"lookup", "bump", "wait", "off"}
    OBVIOUS
  <2>3. /\ dns \in [Hosts -> Answers] /\ dnsChanges \in Nat /\ faults \in Nat
        /\ todo \subseteq Hosts /\ owed \subseteq Hosts
        /\ found \in [Hosts -> SUBSET Addrs]
        /\ resolved \in [Hosts -> SUBSET Addrs]
        /\ allowed \subseteq Addrs /\ answered \subseteq Addrs
        /\ latest \in [Hosts -> SUBSET Addrs]
    BY NetsAssumption
  <2>4. failures \in Nat /\ generation \in Nat /\ slept \in 0..Interval
    BY TimesAssumption
  <2> QED BY <2>1, <2>2, <2>3, <2>4 DEF SourcesTypeOK
<1>2. PipelineTypeOK
  BY DEF PipelineTypeOK
<1>3. ThreadsTypeOK
  BY DEF ThreadsTypeOK
<1>4. InHandType
  BY DEF InHandType
<1>5. StrandInv
  BY DEF StrandInv, StrandInvAt, HeldWatched, KeepWatched
<1> QED BY <1>1, <1>2, <1>3, <1>4, <1>5 DEF IInv, ListenerTypeOK

(* Steps that change nothing the invariant reads. *)
LEMMA OutsideStepInv ==
  ASSUME IInv, UNCHANGED <<sourcesVars, listenerVars>>, stop' \in BOOLEAN,
         PipelineTypeOK'
  PROVE  IInv'
<1> USE DEF sourcesVars, listenerVars
<1>1. ListenerTypeOK'
  BY DEF IInv, ListenerTypeOK, SourcesTypeOK, ThreadsTypeOK, Answers
<1>2. InHandType'
  BY DEF IInv, InHandType
<1>3. StrandInv'
  BY DEF IInv, StrandInv, StrandInvAt, HeldWatched, KeepWatched, Watched, Allows,
         Announced
<1> QED BY <1>1, <1>2, <1>3 DEF IInv

(* Every step keeps the inductive invariant. *)
LEMMA StepInv == IInv /\ [ListenersNext]_collectVars => IInv'
<1> SUFFICES ASSUME IInv, [ListenersNext]_collectVars PROVE IInv'
  OBVIOUS
<1>1. stop \in BOOLEAN /\ PipelineTypeOK
  BY DEF IInv, ListenerTypeOK, SourcesTypeOK
<1>2. CASE \E d \in Devices : ListenerStep(d)
  BY <1>2, ListenerStepInv
<1>3. CASE SourcesNext /\ UNCHANGED <<stop, pipelineVars, listenerVars>>
  BY <1>3, ResolverStepInv
<1>4. CASE WallTick /\ UNCHANGED <<sourcesVars, stop, listenerVars>>
  <2>1. PipelineTypeOK'
    BY <1>1, <1>4 DEF WallTick, PipelineTypeOK
  <2> QED BY <1>1, <1>4, <2>1, OutsideStepInv
<1>5. CASE OnSignal /\ UNCHANGED <<sourcesVars, pipelineVars, listenerVars>>
  <2>1. stop' \in BOOLEAN
    BY <1>5 DEF OnSignal
  <2>2. PipelineTypeOK'
    BY <1>1, <1>5 DEF pipelineVars, PipelineTypeOK
  <2> QED BY <1>5, <2>1, <2>2, OutsideStepInv
<1>6. CASE Take
  <2>1. q \in Seq(QItem) /\ q # <<>> /\ q' = Tail(q)
    BY <1>1, <1>6 DEF Take, PipelineTypeOK
  <2>2. q' \in Seq(QItem)
    BY <2>1
  <2>3. PipelineTypeOK'
    BY <1>1, <1>6, <2>2 DEF Take, PipelineTypeOK
  <2> QED BY <1>1, <1>6, <2>3, OutsideStepInv DEF Take
<1>7. CASE UNCHANGED collectVars
  <2>1. PipelineTypeOK'
    BY <1>1, <1>7 DEF collectVars, pipelineVars, PipelineTypeOK
  <2> QED BY <1>1, <1>7, <2>1, OutsideStepInv DEF collectVars
<1>8. CASE Stopped
  BY <1>7, <1>8 DEF Stopped
<1> QED
  BY <1>2, <1>3, <1>4, <1>5, <1>6, <1>7, <1>8 DEF ListenersNext, CollectNext

(* Type correctness of the listeners, the resolver and what they share. *)
THEOREM TypeCorrect == ListenersSpec => []ListenerTypeOK
<1>1. IInv => ListenerTypeOK
  BY DEF IInv
<1> QED BY <1>1, InitInv, StepInv, PTL DEF ListenersSpec

(* listener.py:190-195 with sources.py:175-177: for any number of listeners, *)
(* names and datagrams, whenever the sender of a held datagram is allowed,   *)
(* the listener that holds it is still going to find the generation changed. *)
THEOREM NoStrandedDatagram == ListenersSpec => []NotStranded
<1>1. IInv => NotStranded
  BY DEF IInv, StrandInv, StrandInvAt, HeldWatched, Watched, NotStranded
<1> QED BY <1>1, InitInv, StepInv, PTL DEF ListenersSpec

(***************************************************************************)
(* The source filter on its own, triggered by any thread at any time.      *)
(***************************************************************************)

\* What the filter holds belongs together: `allowed` is the literal list with
\* the addresses kept, every address kept was an answer, and a round in
\* progress has lost no name's addresses.
FilterInv ==
  /\ SourcesTypeOK
  /\ allowed = Nets \cup UNION {resolved[h] : h \in Hosts}
  /\ \A h \in Hosts : found[h] \cup resolved[h] \subseteq answered
  /\ \A h \in Hosts : resolved[h] # {} => found[h] # {}

(* The types, and what belongs together, at the start. *)
LEMMA FilterStart == ASSUME SourcesInit, stop \in BOOLEAN PROVE FilterInv
<1> USE DEF SourcesInit
<1>1. SourcesTypeOK
  <2>1. failed \in BOOLEAN /\ kicked \in BOOLEAN
    OBVIOUS
  <2>2. pcR \in {"lookup", "bump", "wait", "off"}
    OBVIOUS
  <2>3. /\ dns \in [Hosts -> Answers] /\ dnsChanges \in Nat /\ faults \in Nat
        /\ todo \subseteq Hosts /\ owed \subseteq Hosts
        /\ found \in [Hosts -> SUBSET Addrs]
        /\ resolved \in [Hosts -> SUBSET Addrs]
        /\ allowed \subseteq Addrs /\ answered \subseteq Addrs
        /\ latest \in [Hosts -> SUBSET Addrs]
    BY NetsAssumption
  <2>4. failures \in Nat /\ generation \in Nat /\ slept \in 0..Interval
    BY TimesAssumption
  <2> QED BY <2>1, <2>2, <2>3, <2>4 DEF SourcesTypeOK
<1>2. \A h \in Hosts : found[h] = {} /\ resolved[h] = {}
  OBVIOUS
<1>3. UNION {resolved[h] : h \in Hosts} = {}
  BY <1>2
<1>4. allowed = Nets
  OBVIOUS
<1> QED BY <1>1, <1>2, <1>3, <1>4 DEF FilterInv

(* The resolver and the DNS keep it, and no step of theirs empties a name's
   addresses or the allow-list. *)
LEMMA FilterStep ==
  ASSUME FilterInv, SourcesNext, UNCHANGED stop
  PROVE  /\ FilterInv' /\ answered \subseteq answered'
         /\ \A h \in Hosts : resolved[h] # {} => resolved'[h] # {}
         /\ allowed # {} => allowed' # {}
<1>1. SourcesTypeOK /\ SourcesTypeOK'
  BY SourcesTypeStep DEF FilterInv
<1>2. CASE LookupOk
  <2>1. PICK h \in todo :
          /\ found' = [found EXCEPT ![h] = dns[h]] /\ answered' = answered \cup dns[h]
    BY <1>2 DEF LookupOk
  <2>2. UNCHANGED <<resolved, allowed>>
    BY <1>2 DEF LookupOk
  <2>3. h \in Hosts /\ dns[h] # {} /\ found \in [Hosts -> SUBSET Addrs]
    <3>1. todo \subseteq Hosts /\ dns \in [Hosts -> Answers] /\ found \in [Hosts -> SUBSET Addrs]
      BY <1>1 DEF SourcesTypeOK
    <3>2. h \in Hosts
      BY <2>1, <3>1
    <3>3. dns[h] \in Answers
      BY <3>1, <3>2
    <3> QED BY <3>1, <3>2, <3>3 DEF Answers
  <2>4. \A g \in Hosts : found'[g] = IF g = h THEN dns[h] ELSE found[g]
    BY <2>1, <2>3
  <2>5. \A g \in Hosts : found'[g] \cup resolved'[g] \subseteq answered'
    BY <2>1, <2>2, <2>4 DEF FilterInv
  <2>6. \A g \in Hosts : resolved'[g] # {} => found'[g] # {}
    BY <2>2, <2>3, <2>4 DEF FilterInv
  <2>7. allowed' = Nets \cup UNION {resolved'[g] : g \in Hosts}
    BY <2>2 DEF FilterInv
  <2> QED BY <1>1, <2>1, <2>2, <2>5, <2>6, <2>7 DEF FilterInv
<1>3. CASE Settle
  <2>1. UNCHANGED <<found, answered>>
    BY <1>3 DEF Settle
  <2>2. CASE found # resolved
    <3>1. resolved' = found /\ allowed' = Nets \cup UNION {found[h] : h \in Hosts}
      BY <1>3, <2>2 DEF Settle
    <3>2. allowed' = Nets \cup UNION {resolved'[h] : h \in Hosts}
      BY <3>1
    <3>3. \A h \in Hosts : found'[h] \cup resolved'[h] \subseteq answered'
      BY <2>1, <3>1 DEF FilterInv
    <3>4. \A h \in Hosts : resolved[h] # {} => resolved'[h] # {}
      BY <3>1 DEF FilterInv
    <3>5. allowed # {} => allowed' # {}
      <4>1. ASSUME NEW a \in allowed PROVE allowed' # {}
        <5>1. CASE a \in Nets
          BY <3>1, <5>1
        <5>2. CASE a \notin Nets
          <6>1. PICK h \in Hosts : a \in resolved[h]
            BY <4>1, <5>2 DEF FilterInv
          <6>2. PICK b : b \in found[h]
            BY <6>1 DEF FilterInv
          <6> QED BY <3>1, <6>2
        <5> QED BY <5>1, <5>2
      <4> QED BY <4>1
    <3> QED BY <1>1, <2>1, <3>1, <3>2, <3>3, <3>4, <3>5 DEF FilterInv
  <2>3. CASE found = resolved
    <3>1. UNCHANGED <<resolved, allowed>>
      BY <1>3, <2>3 DEF Settle
    <3> QED BY <1>1, <2>1, <3>1 DEF FilterInv
  <2> QED BY <2>2, <2>3
<1>4. CASE Wake
  <2>1. found' = resolved /\ UNCHANGED <<resolved, allowed, answered>>
    BY <1>4 DEF Wake
  <2> QED BY <1>1, <2>1 DEF FilterInv
<1>5. CASE DnsChange \/ MonoTick \/ LookupFail \/ Bump \/ ResolverStop
  <2>1. UNCHANGED <<found, resolved, allowed, answered>>
    BY <1>5 DEF DnsChange, MonoTick, LookupFail, Bump, ResolverStop
  <2> QED BY <1>1, <2>1 DEF FilterInv
<1> QED BY <1>2, <1>3, <1>4, <1>5 DEF SourcesNext, ResolverStep

(* So does any step of the filter on its own. *)
LEMMA FilterNextInv ==
  ASSUME FilterInv, [FilterNext]_<<sourcesVars, stop>>
  PROVE  /\ FilterInv'
         /\ \A h \in Hosts : resolved[h] # {} => resolved'[h] # {}
         /\ allowed # {} => allowed' # {}
<1>1. CASE SourcesNext /\ UNCHANGED stop
  BY <1>1, FilterStep
<1>2. CASE AnyTrigger /\ UNCHANGED stop
  <2>1. kicked' \in BOOLEAN /\ owed' \subseteq Hosts
    BY <1>2 DEF AnyTrigger, Trigger, FilterInv, SourcesTypeOK
  <2>2. UNCHANGED <<dns, dnsChanges, faults, pcR, todo, found, failed, resolved,
                    failures, allowed, generation, slept, answered, latest, stop>>
    BY <1>2 DEF AnyTrigger
  <2> QED BY <2>1, <2>2 DEF FilterInv, SourcesTypeOK, Answers
<1>3. CASE UNCHANGED sourcesVars /\ (OnSignal \/ UNCHANGED stop)
  <2>1. stop' \in BOOLEAN
    BY <1>3 DEF OnSignal, FilterInv, SourcesTypeOK
  <2>2. UNCHANGED <<dns, dnsChanges, faults, pcR, todo, found, failed, resolved,
                    failures, allowed, generation, kicked, slept, owed, answered, latest>>
    BY <1>3 DEF sourcesVars
  <2> QED BY <2>1, <2>2 DEF FilterInv, SourcesTypeOK, Answers
<1> QED BY <1>1, <1>2, <1>3 DEF FilterNext

\* What the round in progress has is what the names' latest lookups returned, and
\* so is what the filter keeps, but for the names this round has already asked.
LatestInv ==
  /\ \A h \in Hosts : found[h] = latest[h]
  /\ \A h \in Hosts : (pcR = "lookup" => h \in todo) => resolved[h] = latest[h]

LEMMA LatestStep ==
  ASSUME FilterInv, LatestInv, [FilterNext]_<<sourcesVars, stop>>
  PROVE  LatestInv'
<1> USE DEF LatestInv
<1>1. /\ found \in [Hosts -> SUBSET Addrs] /\ latest \in [Hosts -> SUBSET Addrs]
      /\ resolved \in [Hosts -> SUBSET Addrs] /\ todo \subseteq Hosts
  BY DEF FilterInv, SourcesTypeOK
<1>2. CASE LookupOk
  <2>1. PICK h \in todo :
          /\ found' = [found EXCEPT ![h] = dns[h]] /\ latest' = [latest EXCEPT ![h] = dns[h]]
          /\ todo' = todo \ {h}
    BY <1>2 DEF LookupOk
  <2>2. pcR = "lookup" /\ pcR' = "lookup" /\ resolved' = resolved
    BY <1>2 DEF LookupOk
  <2>3. \A g \in Hosts : /\ found'[g] = IF g = h THEN dns[h] ELSE found[g]
                         /\ latest'[g] = IF g = h THEN dns[h] ELSE latest[g]
    BY <1>1, <2>1
  <2> QED BY <2>1, <2>2, <2>3
<1>3. CASE LookupFail
  <2>1. /\ pcR = "lookup" /\ pcR' = "lookup" /\ todo' \subseteq todo
        /\ UNCHANGED <<found, latest, resolved>>
    BY <1>3 DEF LookupFail
  <2> QED BY <2>1
<1>4. CASE Settle
  <2>1. resolved' = found /\ UNCHANGED <<found, latest>>
    BY <1>4 DEF Settle
  <2> QED BY <2>1
<1>5. CASE Wake
  <2>1. pcR = "wait" /\ found' = resolved /\ UNCHANGED <<latest, resolved>>
    BY <1>5 DEF Wake
  <2> QED BY <2>1
<1>6. CASE Bump \/ ResolverStop
  <2>1. pcR # "lookup" /\ UNCHANGED <<found, latest, resolved>>
    BY <1>6 DEF Bump, ResolverStop
  <2> QED BY <2>1
<1>7. CASE DnsChange \/ MonoTick \/ AnyTrigger \/ UNCHANGED sourcesVars
  <2>1. UNCHANGED <<pcR, todo, found, latest, resolved>>
    BY <1>7 DEF DnsChange, MonoTick, AnyTrigger, sourcesVars
  <2> QED BY <2>1
<1> QED BY <1>2, <1>3, <1>4, <1>5, <1>6, <1>7 DEF FilterNext, SourcesNext, ResolverStep

(* sources.py:15: for any names, addresses and order of answers, failures    *)
(* and triggers, a name keeps all the addresses its latest successful lookup *)
(* returned until another one returns, and they are the allow-list; which,   *)
(* once it is not empty, never becomes empty (that would be no filter).      *)
THEOREM AddressesAreKept ==
  FilterSpec => []NeverForgets /\ [][allowed # {} => allowed' # {}]_<<sourcesVars, stop>>
<1>1. FilterInit => FilterInv /\ LatestInv
  <2>1. FilterInit => LatestInv
    BY DEF FilterInit, SourcesInit, LatestInv
  <2> QED BY <2>1, FilterStart DEF FilterInit
<1>2. FilterInv /\ [FilterNext]_<<sourcesVars, stop>> =>
        FilterInv' /\ [allowed # {} => allowed' # {}]_<<sourcesVars, stop>>
  BY FilterNextInv
<1>3. FilterInv /\ LatestInv /\ [FilterNext]_<<sourcesVars, stop>> => LatestInv'
  BY LatestStep
<1>4. FilterInv /\ LatestInv => NeverForgets
  BY DEF FilterInv, LatestInv, NeverForgets
<1> QED BY <1>1, <1>2, <1>3, <1>4, PTL DEF FilterSpec

(* sources.py:180 with :209: whatever the resolver is doing when a listener  *)
(* triggers it, every name is looked up again: by the round that runs, if    *)
(* that is still to come to it, or by the further round `_kicked` books.     *)
THEOREM NoTriggerIsLost == FilterSpec => []NoLostTrigger
<1> DEFINE Inv == FilterInv /\ NoLostTrigger
<1>1. FilterInit => Inv
  BY FilterStart DEF FilterInit, NoLostTrigger, SourcesInit
<1>2. Inv /\ [FilterNext]_<<sourcesVars, stop>> => Inv'
  <2> SUFFICES ASSUME FilterInv, NoLostTrigger, [FilterNext]_<<sourcesVars, stop>>
               PROVE  Inv'
    OBVIOUS
  <2> USE DEF NoLostTrigger
  <2>1. FilterInv'
    BY FilterNextInv
  <2>2. owed \subseteq Hosts
    BY DEF FilterInv, SourcesTypeOK
  <2>3. CASE DnsChange
    BY <2>1, <2>3 DEF DnsChange
  <2>4. CASE MonoTick
    BY <2>1, <2>4 DEF MonoTick
  <2>5. CASE LookupOk
    BY <2>1, <2>5 DEF LookupOk
  <2>6. CASE LookupFail
    BY <2>1, <2>6 DEF LookupFail
  <2>7. CASE Settle
    BY <2>1, <2>7 DEF Settle
  <2>8. CASE Bump
    BY <2>1, <2>8 DEF Bump
  <2>9. CASE Wake
    BY <2>1, <2>2, <2>9 DEF Wake
  <2>10. CASE ResolverStop
    BY <2>1, <2>10 DEF ResolverStop
  <2>11. CASE AnyTrigger
    BY <2>1, <2>11 DEF AnyTrigger, Trigger
  <2>12. CASE UNCHANGED sourcesVars
    BY <2>1, <2>12 DEF sourcesVars
  <2> QED
    BY <2>3, <2>4, <2>5, <2>6, <2>7, <2>8, <2>9, <2>10, <2>11, <2>12
    DEF FilterNext, SourcesNext, ResolverStep
<1> QED BY <1>1, <1>2, PTL DEF FilterSpec

(* What the running round has looked up is what the DNS says. *)
RoundInv ==
  (pcR = "lookup" /\ ~failed) => \A h \in Hosts \ todo : found[h] = dns[h]

LEMMA RoundStep ==
  ASSUME FilterInv, RoundInv, [FilterNext]_<<sourcesVars, stop>>,
         [DnsChange => pcR = "wait"]_<<sourcesVars, stop>>
  PROVE  RoundInv'
<1> USE DEF RoundInv
<1>1. found \in [Hosts -> SUBSET Addrs] /\ todo \subseteq Hosts
  BY DEF FilterInv, SourcesTypeOK
<1>2. CASE DnsChange
  <2>1. dns' # dns /\ UNCHANGED pcR
    <3>1. PICK h \in Hosts, a \in Answers : a # dns[h] /\ dns' = [dns EXCEPT ![h] = a]
      BY <1>2 DEF DnsChange
    <3>2. dns \in [Hosts -> Answers]
      BY DEF FilterInv, SourcesTypeOK
    <3>3. dns'[h] = a
      BY <3>1, <3>2
    <3> QED BY <1>2, <3>1, <3>3 DEF DnsChange
  <2>2. pcR = "wait"
    BY <1>2, <2>1 DEF sourcesVars
  <2> QED BY <2>1, <2>2
<1>3. CASE LookupOk
  <2>1. PICK h \in todo :
          found' = [found EXCEPT ![h] = dns[h]] /\ todo' = todo \ {h}
    BY <1>3 DEF LookupOk
  <2>2. pcR = "lookup" /\ UNCHANGED <<dns, failed, pcR>>
    BY <1>3 DEF LookupOk
  <2>3. \A g \in Hosts : found'[g] = IF g = h THEN dns[h] ELSE found[g]
    BY <1>1, <2>1
  <2> QED BY <2>1, <2>2, <2>3
<1>4. CASE LookupFail
  BY <1>4 DEF LookupFail
<1>5. CASE Settle \/ Bump \/ ResolverStop
  BY <1>5 DEF Settle, Bump, ResolverStop
<1>6. CASE Wake
  BY <1>6 DEF Wake
<1>7. CASE MonoTick \/ AnyTrigger \/ UNCHANGED sourcesVars
  <2>1. UNCHANGED <<dns, pcR, todo, found, failed>>
    BY <1>7 DEF MonoTick, AnyTrigger, sourcesVars
  <2> QED BY <2>1
<1> QED BY <1>2, <1>3, <1>4, <1>5, <1>6, <1>7 DEF FilterNext, SourcesNext, ResolverStep

(* The safety part of ResolverConverges. As long as no name changes its      *)
(* address while a round is running (which the next round would find), a     *)
(* round that ends without a failed lookup leaves `_resolved` as the DNS has *)
(* it, and every address of every name in `allowed`: whatever had failed     *)
(* before, and whoever triggers meanwhile.                                   *)
THEOREM RoundsAgree ==
  FilterSpec /\ [][DnsChange => pcR = "wait"]_<<sourcesVars, stop>>
    => [][Settle /\ ~failed =>
            \A h \in Hosts : resolved'[h] = dns[h] /\ dns[h] \subseteq allowed'
         ]_<<sourcesVars, stop>>
<1>1. FilterInit => FilterInv /\ RoundInv
  <2>1. FilterInit => RoundInv
    BY DEF FilterInit, SourcesInit, RoundInv
  <2> QED BY <2>1, FilterStart DEF FilterInit
<1>2. FilterInv /\ [FilterNext]_<<sourcesVars, stop>> => FilterInv'
  BY FilterNextInv
<1>3. FilterInv /\ RoundInv /\ [FilterNext]_<<sourcesVars, stop>>
        /\ [DnsChange => pcR = "wait"]_<<sourcesVars, stop>> => RoundInv'
  BY RoundStep
<1>4. FilterInv /\ RoundInv =>
        [Settle /\ ~failed => \A h \in Hosts : resolved'[h] = dns[h] /\ dns[h] \subseteq allowed'
        ]_<<sourcesVars, stop>>
  <2> SUFFICES ASSUME FilterInv, RoundInv, Settle, ~failed, NEW h \in Hosts
               PROVE  resolved'[h] = dns[h] /\ dns[h] \subseteq allowed'
    OBVIOUS
  <2>1. \A g \in Hosts : found[g] = dns[g]
    BY DEF RoundInv, Settle
  <2>2. CASE found # resolved
    <3>1. resolved' = found /\ allowed' = Nets \cup UNION {found[g] : g \in Hosts}
      BY <2>2 DEF Settle
    <3> QED BY <2>1, <3>1
  <2>3. CASE found = resolved
    <3>1. resolved' = found /\ allowed' = allowed
      BY <2>3 DEF Settle
    <3>2. allowed = Nets \cup UNION {found[g] : g \in Hosts}
      BY <2>3 DEF FilterInv
    <3> QED BY <2>1, <3>1, <3>2
  <2> QED BY <2>2, <2>3
<1> QED BY <1>1, <1>2, <1>3, <1>4, PTL DEF FilterSpec

(***************************************************************************)
(* Who gets in.                                                            *)
(***************************************************************************)

Known == Nets \cup answered

\* What a listener has decided to ingest came from a known address.
EntryInv ==
  /\ FilterInv
  /\ Enabled => /\ admitted \subseteq Known
                /\ \A d \in Devices : pcL[d] = "ingest" => dgram[d].sender \in Known
                /\ \A d \in Devices : \A i \in 1..Len(out[d]) : out[d][i].sender \in Known

(* A sender the filter allows is known. *)
LEMMA AllowedIsKnown ==
  ASSUME FilterInv, Enabled, NEW a, Allows(a)
  PROVE  a \in Known
<1>1. a \in allowed
  BY DEF Allows, SourceAllowed
<1>2. allowed = Nets \cup UNION {resolved[h] : h \in Hosts}
  BY DEF FilterInv
<1>3. UNION {resolved[h] : h \in Hosts} \subseteq answered
  BY DEF FilterInv
<1> QED BY <1>1, <1>2, <1>3 DEF Known

(* Only the actions below touch what the invariant says of a listener. *)
LEMMA EntryStep ==
  ASSUME IInv, EntryInv, NEW d \in Devices, ListenerStep(d)
  PROVE  EntryInv'
<1> USE DEF Goto
<1>1. UNCHANGED <<allowed, resolved, found, answered>> /\ SourcesTypeOK'
  <2>1. UNCHANGED <<allowed, resolved, found, answered>>
    BY DEF ListenerStep, Bind, BindFails, LoopTop, Recv, RecvTimeout, CheckGeneration,
           Reread, Examine, Released, Replay, Correct, Decide, IngestNow, Reject, Hold,
           sourcesVars
  <2> QED BY <2>1, ListenerStepInv DEF IInv, ListenerTypeOK
<1>2. FilterInv'
  BY <1>1 DEF EntryInv, FilterInv
<1>3. Known' = Known
  BY <1>1 DEF Known
<1>4. ThreadsTypeOK
  BY DEF IInv, ListenerTypeOK
<1> SUFFICES ASSUME Enabled
             PROVE  /\ admitted' \subseteq Known
                    /\ \A e \in Devices : pcL'[e] = "ingest" => dgram'[e].sender \in Known
                    /\ \A e \in Devices : \A i \in 1..Len(out'[e]) : out'[e][i].sender \in Known
  BY <1>2, <1>3 DEF EntryInv, Enabled
<1>5. /\ admitted \subseteq Known
      /\ \A e \in Devices : pcL[e] = "ingest" => dgram[e].sender \in Known
      /\ \A e \in Devices : \A i \in 1..Len(out[e]) : out[e][i].sender \in Known
  BY DEF EntryInv
<1>6. CASE Examine(d)
  <2>1. PICK m : m = Head(held[d])
    OBVIOUS
  <2>2. UNCHANGED <<pcL, dgram, admitted>>
    BY <1>6 DEF Examine
  <2>3. CASE Allows(m.sender)
    <3>1. out' = [out EXCEPT ![d] = Append(out[d], m)]
      BY <1>6, <2>1, <2>3 DEF Examine
    <3>2. m.sender \in Known
      BY <2>3, AllowedIsKnown DEF EntryInv
    <3>3. ASSUME NEW e \in Devices, NEW i \in 1..Len(out'[e]) PROVE out'[e][i].sender \in Known
      <4>1. out[e] \in Seq(HeldItems) /\ held[d] \in Seq(HeldItems) /\ held[d] # <<>>
        BY <1>4, <1>6 DEF ThreadsTypeOK, Examine
      <4>2. m \in HeldItems
        BY <2>1, <4>1
      <4>3. out'[e] = IF e = d THEN Append(out[e], m) ELSE out[e]
        BY <1>4, <3>1 DEF ThreadsTypeOK
      <4>4. (i \in 1..Len(out[e]) /\ out'[e][i] = out[e][i]) \/ out'[e][i] = m
        BY <4>1, <4>2, <4>3
      <4> QED BY <1>5, <3>2, <4>4
    <3> QED BY <1>5, <2>2, <3>3
  <2>4. CASE ~Allows(m.sender)
    <3>1. out' = out
      BY <1>6, <2>1, <2>4 DEF Examine
    <3> QED BY <1>5, <2>2, <3>1
  <2> QED BY <2>3, <2>4
<1>7. CASE Replay(d)
  <2>1. out[d] \in Seq(HeldItems) /\ out[d] # <<>>
    BY <1>4, <1>7 DEF ThreadsTypeOK, Replay
  <2>2. admitted' = admitted \cup {Head(out[d]).sender}
    BY <1>7 DEF Replay, Ingest
  <2>3. Head(out[d]).sender \in Known
    <3>1. Head(out[d]) = out[d][1] /\ 1 \in 1..Len(out[d])
      BY <2>1
    <3> QED BY <1>5, <3>1
  <2>4. UNCHANGED <<pcL, dgram>> /\ out' = [out EXCEPT ![d] = Tail(out[d])]
    BY <1>7 DEF Replay
  <2>5. ASSUME NEW e \in Devices, NEW i \in 1..Len(out'[e]) PROVE out'[e][i].sender \in Known
    <3>1. out'[e] = IF e = d THEN Tail(out[e]) ELSE out[e]
      BY <1>4, <2>4 DEF ThreadsTypeOK
    <3>2. \E j \in 1..Len(out[e]) : out'[e][i] = out[e][j]
      BY <2>1, <3>1
    <3> QED BY <1>5, <3>2
  <2> QED BY <1>5, <2>2, <2>3, <2>4, <2>5
<1>8. CASE Decide(d)
  <2>1. UNCHANGED <<dgram, out, admitted>>
    BY <1>8 DEF Decide
  <2>2. ASSUME NEW e \in Devices, pcL'[e] = "ingest" PROVE dgram'[e].sender \in Known
    <3>1. PICK a : a = dgram[d].sender
      OBVIOUS
    <3>2. pcL'[d] = "ingest" => Allows(a)
      BY <1>4, <1>8, <3>1 DEF Decide, ThreadsTypeOK
    <3>3. Allows(a) => a \in Known
      BY AllowedIsKnown DEF EntryInv
    <3>4. e # d => pcL'[e] = pcL[e]
      BY <1>4, <1>8 DEF Decide, ThreadsTypeOK
    <3> QED BY <1>5, <2>1, <2>2, <3>1, <3>2, <3>3, <3>4
  <2> QED BY <1>5, <2>1, <2>2
<1>9. CASE IngestNow(d)
  <2>1. admitted' = admitted \cup {dgram[d].sender} /\ out' = out /\ pcL[d] = "ingest"
    BY <1>9 DEF IngestNow, Ingest
  <2>2. ASSUME NEW e \in Devices, pcL'[e] = "ingest" PROVE dgram'[e] = dgram[e] /\ pcL[e] = "ingest"
    BY <1>4, <1>9, <2>2 DEF IngestNow, Forget, ThreadsTypeOK
  <2> QED BY <1>5, <2>1, <2>2
<1>10. CASE \/ Bind(d) \/ BindFails(d) \/ LoopTop(d) \/ Recv(d) \/ RecvTimeout(d)
            \/ CheckGeneration(d) \/ Reread(d) \/ Released(d) \/ Correct(d)
            \/ Reject(d) \/ Hold(d)
  <2>1. UNCHANGED <<out, admitted>>
    BY <1>10 DEF Bind, BindFails, LoopTop, Recv, RecvTimeout, CheckGeneration, Reread,
         Released, Correct, Reject, Hold
  <2>2. ASSUME NEW e \in Devices, pcL'[e] = "ingest" PROVE dgram'[e] = dgram[e] /\ pcL[e] = "ingest"
    BY <1>4, <1>10, <2>2 DEF Bind, BindFails, LoopTop, Recv, RecvTimeout, CheckGeneration,
         Reread, Released, Correct, Reject, Hold, Forget, AfterReplay, ThreadsTypeOK
  <2> QED BY <1>5, <2>1, <2>2
<1> QED BY <1>6, <1>7, <1>8, <1>9, <1>10 DEF ListenerStep

(* sources.py:121 with listener.py:198: for any list, names, addresses and    *)
(* order of the threads, nothing is ever ingested from a sender that is       *)
(* neither on the literal list nor was ever the answer for a name on it, be   *)
(* it at once or from what was held.                                          *)
THEOREM OnlyKnownSenders == ListenersSpec => []FailClosed
<1> DEFINE Inv == IInv /\ EntryInv
<1>1. ListenersInit => Inv
  <2> SUFFICES ASSUME ListenersInit PROVE EntryInv
    BY InitInv
  <2>1. FilterInv
    BY FilterStart DEF ListenersInit
  <2>2. /\ admitted = {} /\ \A d \in Devices : pcL[d] = "start"
        /\ \A d \in Devices : out[d] = <<>>
    BY DEF ListenersInit, ListenerInit
  <2> QED BY <2>1, <2>2 DEF EntryInv
<1>2. Inv /\ [ListenersNext]_collectVars => Inv'
  <2> SUFFICES ASSUME IInv, EntryInv, [ListenersNext]_collectVars PROVE Inv'
    OBVIOUS
  <2>1. IInv'
    BY StepInv
  <2>2. CASE \E d \in Devices : ListenerStep(d)
    BY <2>1, <2>2, EntryStep
  <2>3. CASE SourcesNext /\ UNCHANGED <<stop, pipelineVars, listenerVars>>
    <3>1. FilterInv' /\ answered \subseteq answered'
      BY <2>3, FilterStep DEF EntryInv
    <3>2. UNCHANGED <<admitted, pcL, dgram, out>>
      BY <2>3 DEF listenerVars
    <3>3. Known \subseteq Known'
      BY <3>1 DEF Known
    <3> QED BY <2>1, <3>1, <3>2, <3>3 DEF EntryInv, Enabled
  <2>4. CASE UNCHANGED <<sourcesVars, listenerVars>>
    <3>1. UNCHANGED <<allowed, resolved, found, answered, admitted, pcL, dgram, out>>
      BY <2>4 DEF sourcesVars, listenerVars
    <3>2. FilterInv'
      BY <2>1, <3>1 DEF EntryInv, FilterInv, IInv, ListenerTypeOK
    <3> QED BY <2>1, <3>1, <3>2 DEF EntryInv, Enabled, Known
  <2> QED BY <2>2, <2>3, <2>4
          DEF ListenersNext, CollectNext, Take, Stopped, collectVars
<1>3. Inv => FailClosed
  BY DEF EntryInv, FailClosed, Known
<1> QED BY <1>1, <1>2, <1>3, PTL DEF ListenersSpec

(***************************************************************************)
(* The books.                                                              *)
(***************************************************************************)

About(d) == IF pcL[d] = "hold" THEN 1 ELSE 0
Hand(d) == IF dgram[d] # NoData /\ pcL[d] # "hold" THEN 1 ELSE 0
Taken == puts + drops.n + drops.ignored

\* Counted as rejected, and perhaps still to be taken off again: what d holds,
\* looks through, has released, has ingested or is about to hold.
Owing(d) == credit[d] + Len(held[d]) + Len(keep[d]) + Len(out[d]) + About(d)

\* A listener has a datagram only between the receipt and the end of an
\* iteration, and whatever may be taken off `rejected` has been added to it.
BooksInv ==
  /\ \A d \in Devices : pcL[d] \in {"start", "top", "recv", "done"} => dgram[d] = NoData
  /\ Tally([d \in Devices |-> Owing(d)], Devices) <= drops.rejected
  /\ Ledger

LEMMA NoDataIsNone == NoData \notin Datagrams
  BY TextsAssumption DEF NoData, Datagrams

(* Whatever the text, ingesting a datagram counts it once. *)
LEMMA IngestCounts ==
  ASSUME PipelineTypeOK, NEW d, NEW a, NEW t, NEW n, Ingest(d, a, t, n)
  PROVE  /\ puts' + drops'.n + drops'.ignored = puts + drops.n + drops.ignored + 1
         /\ drops'.rejected = drops.rejected
<1> USE DEF PipelineTypeOK
<1>1. ASSUME NEW item, Put(item)
      PROVE  /\ puts' + drops'.n + drops'.ignored = puts + drops.n + drops.ignored + 1
             /\ drops'.rejected = drops.rejected
  <2>1. CASE puts' = puts + 1 /\ drops' = drops
    BY <2>1
  <2>2. CASE puts' = puts /\ drops' = [drops EXCEPT !.n = @ + 1]
    BY <2>2
  <2> QED BY <1>1, <2>1, <2>2 DEF Put
<1>2. CASE drops' = [drops EXCEPT !.ignored = @ + 1] /\ UNCHANGED <<q, puts>>
  BY <1>2
<1> QED BY <1>1, <1>2 DEF Ingest

\* One listener's step: what it has in hand and what it owes, before and
\* after, against what was received and what was counted.
Balanced(d) ==
  /\ received' + credit'[d] + Hand(d) + Taken + drops.rejected
       = received + credit[d] + Hand(d)' + Taken' + drops'.rejected
  /\ Owing(d)' + drops.rejected <= Owing(d) + drops'.rejected
  /\ pcL'[d] \in {"start", "top", "recv", "done"} => dgram'[d] = NoData

(* Expiry takes datagrams away, holding one adds no more than that one. *)
LEMMA HeldLengths ==
  ASSUME NEW S, NEW s \in Seq(S)
  PROVE  /\ Expire(s) \in Seq(S) /\ Len(Expire(s)) <= Len(s)
         /\ \A x \in S : Push(s, x) \in Seq(S) /\ Len(Push(s, x)) <= Len(s) + 1
<1>1. Expire(s) \in Seq(S) /\ Len(Expire(s)) <= Len(s)
  <2>1. IsFiniteSet(Expired(s))
    <3>1. Len(s) \in Nat
      OBVIOUS
    <3>2. IsFiniteSet(1..Len(s))
      BY <3>1, FS_Interval
    <3>3. Expired(s) \subseteq 1..Len(s)
      BY DEF Expired
    <3> QED BY <3>2, <3>3, FS_Subset
  <2>2. PICK k \in Nat : k = Cardinality(Expired(s))
    BY <2>1, FS_CardinalityType
  <2>3. Expire(s) = SubSeq(s, k + 1, Len(s))
    BY <2>2 DEF Expire
  <2> QED BY <2>3
<1>2. ASSUME NEW x \in S PROVE Push(s, x) \in Seq(S) /\ Len(Push(s, x)) <= Len(s) + 1
  <2>1. CASE Len(s) < HeldMax
    BY <2>1 DEF Push
  <2>2. CASE ~(Len(s) < HeldMax)
    <3>1. s # <<>>
      BY <2>2, HeldAssumption
    <3>2. Push(s, x) = Append(Tail(s), x)
      BY <2>2 DEF Push
    <3> QED BY <3>1, <3>2
  <2> QED BY <2>1, <2>2
<1> QED BY <1>1, <1>2

LEMMA OwingType ==
  ASSUME ThreadsTypeOK, NEW d \in Devices
  PROVE  Owing(d) \in Nat /\ credit[d] <= Owing(d)
<1>1. PICK c \in Nat, h \in Nat, k \in Nat, o \in Nat, p \in Nat :
        /\ c = credit[d] /\ h = Len(held[d]) /\ k = Len(keep[d]) /\ o = Len(out[d])
        /\ p = About(d)
  BY DEF ThreadsTypeOK, About
<1>2. Owing(d) = c + h + k + o + p
  BY <1>1 DEF Owing
<1>3. c + h + k + o + p \in Nat /\ c <= c + h + k + o + p
  OBVIOUS
<1>4. credit[d] = c
  BY <1>1
<1> QED BY <1>2, <1>3, <1>4

(* What one listener owes has been counted. *)
LEMMA OwedIsCounted ==
  ASSUME ThreadsTypeOK, PipelineTypeOK, BooksInv, NEW d \in Devices
  PROVE  credit[d] <= drops.rejected
<1> DEFINE owing == [e \in Devices |-> Owing(e)]
<1>1. \A e \in Devices : owing[e] \in Nat
  BY OwingType
<1>2. Tally(owing, Devices) <= drops.rejected
  BY DEF BooksInv
<1>3. credit[d] <= owing[d]
  BY OwingType
<1> HIDE DEF owing
<1>4. owing[d] <= Tally(owing, Devices) /\ Tally(owing, Devices) \in Nat
  BY <1>1, DevicesAssumption, TallyChange, TallyType
<1>5. credit[d] \in Nat /\ owing[d] \in Nat /\ drops.rejected \in Nat
  BY <1>1 DEF ThreadsTypeOK, PipelineTypeOK
<1> QED BY <1>2, <1>3, <1>4, <1>5

\* The numbers of one listener.
Numbers(d) ==
  /\ received \in Nat /\ credit[d] \in Nat
  /\ Len(held[d]) \in Nat /\ Len(keep[d]) \in Nat /\ Len(out[d]) \in Nat
  /\ About(d) \in Nat /\ Hand(d) \in Nat /\ Taken \in Nat /\ drops.rejected \in Nat

LEMMA NumbersType ==
  ASSUME ThreadsTypeOK, PipelineTypeOK, NEW d \in Devices
  PROVE  Numbers(d)
<1>1. held[d] \in Seq(HeldItems) /\ keep[d] \in Seq(HeldItems) /\ out[d] \in Seq(HeldItems)
  BY DEF ThreadsTypeOK
<1>2. Len(held[d]) \in Nat /\ Len(keep[d]) \in Nat /\ Len(out[d]) \in Nat
  BY <1>1
<1>3. About(d) \in Nat /\ Hand(d) \in Nat
  BY DEF About, Hand
<1>4. Taken \in Nat
  BY DEF Taken, PipelineTypeOK
<1> QED BY <1>2, <1>3, <1>4 DEF Numbers, ThreadsTypeOK, PipelineTypeOK

(* Each step of a listener balances. *)
LEMMA StepBalances ==
  ASSUME IInv, BooksInv, NEW d \in Devices, ListenerStep(d)
  PROVE  Balanced(d)
<1> USE DEF Goto, ThreadsTypeOK, PipelineTypeOK
<1>1. ThreadsTypeOK /\ PipelineTypeOK
  BY DEF IInv, ListenerTypeOK
<1>0. PICK r \in Nat, c \in Nat, h \in Nat, k \in Nat, o \in Nat, p \in Nat, n \in Nat,
           m \in Nat, j \in Nat :
        /\ r = received /\ c = credit[d] /\ h = Len(held[d]) /\ k = Len(keep[d])
        /\ o = Len(out[d]) /\ p = About(d) /\ n = Hand(d) /\ m = Taken /\ j = drops.rejected
  BY <1>1, NumbersType DEF Numbers
<1>00. PICK r2 \in Nat, c2 \in Nat, h2 \in Nat, k2 \in Nat, o2 \in Nat, p2 \in Nat,
            n2 \in Nat, m2 \in Nat, j2 \in Nat :
        /\ r2 = received' /\ c2 = credit'[d] /\ h2 = Len(held'[d]) /\ k2 = Len(keep'[d])
        /\ o2 = Len(out'[d]) /\ p2 = About(d)' /\ n2 = Hand(d)' /\ m2 = Taken'
        /\ j2 = drops'.rejected
  <2>1. ThreadsTypeOK' /\ PipelineTypeOK'
    BY ListenerStepInv DEF IInv, ListenerTypeOK
  <2>2. held'[d] \in Seq(HeldItems) /\ keep'[d] \in Seq(HeldItems) /\ out'[d] \in Seq(HeldItems)
    BY <2>1
  <2>3. Len(held'[d]) \in Nat /\ Len(keep'[d]) \in Nat /\ Len(out'[d]) \in Nat
    BY <2>2
  <2>4. About(d)' \in Nat /\ Hand(d)' \in Nat
    BY DEF About, Hand
  <2>5. Taken' \in Nat
    BY <2>1 DEF Taken
  <2>6. received' \in Nat /\ credit'[d] \in Nat /\ drops'.rejected \in Nat
    BY <2>1
  <2> HIDE DEF ThreadsTypeOK, PipelineTypeOK
  <2> QED BY <2>3, <2>4, <2>5, <2>6
<1> SUFFICES /\ r2 + c2 + n + m + j = r + c + n2 + m2 + j2
             /\ c2 + h2 + k2 + o2 + p2 + j <= c + h + k + o + p + j2
             /\ pcL'[d] \in {"start", "top", "recv", "done"} => dgram'[d] = NoData
  <2>1. Owing(d) = c + h + k + o + p /\ Owing(d)' = c2 + h2 + k2 + o2 + p2
    BY <1>0, <1>00 DEF Owing
  <2> QED BY <1>0, <1>00, <2>1 DEF Balanced
<1>2. pcL[d] \in {"start", "top", "recv", "done"} => dgram[d] = NoData
  BY DEF BooksInv
<1>3. pcL[d] \in {"decide", "ingest", "reject", "hold"} => dgram[d] # NoData
  BY NoDataIsNone DEF IInv, InHandType
<1>4. CASE Bind(d) \/ BindFails(d) \/ LoopTop(d) \/ CheckGeneration(d) \/ Decide(d)
  <2>1. /\ UNCHANGED <<puts, drops, dgram, held, keep, out, credit, received>>
        /\ pcL[d] # "hold" /\ pcL'[d] # "hold"
        /\ pcL'[d] \in {"start", "top", "recv", "done"} => dgram[d] = NoData
    BY <1>1, <1>2, <1>4
    DEF Bind, BindFails, LoopTop, CheckGeneration, Decide, AfterReplay, pipelineVars
  <2>2. r2 = r /\ c2 = c /\ h2 = h /\ k2 = k /\ o2 = o /\ p2 = p /\ n2 = n /\ m2 = m /\ j2 = j
    BY <1>0, <1>00, <2>1 DEF About, Hand, Taken
  <2> QED BY <2>1, <2>2
<1>5. CASE Recv(d)
  <2>1. /\ UNCHANGED <<puts, drops, held, keep, out, credit>>
        /\ pcL[d] = "recv" /\ pcL'[d] = "check" /\ dgram'[d] # NoData
        /\ received' = received + 1
    BY <1>1, <1>5, NoDataIsNone DEF Recv, pipelineVars
  <2>2. /\ r2 = r + 1 /\ c2 = c /\ h2 = h /\ k2 = k /\ o2 = o /\ p2 = p /\ m2 = m /\ j2 = j
        /\ n = 0 /\ n2 = 1
    BY <1>0, <1>00, <1>2, <2>1 DEF About, Hand, Taken
  <2> QED BY <2>1, <2>2
<1>6. CASE RecvTimeout(d)
  <2>1. /\ UNCHANGED <<puts, drops, held, keep, out, credit, received>>
        /\ pcL[d] = "recv" /\ pcL'[d] = "check" /\ dgram'[d] = NoData
    BY <1>1, <1>6 DEF RecvTimeout, Forget, pipelineVars
  <2>2. r2 = r /\ c2 = c /\ h2 = h /\ k2 = k /\ o2 = o /\ p2 = p /\ n2 = n /\ m2 = m /\ j2 = j
    BY <1>0, <1>00, <1>2, <2>1 DEF About, Hand, Taken
  <2> QED BY <2>1, <2>2
<1>7. CASE Reread(d)
  <2>1. /\ UNCHANGED <<puts, drops, dgram, keep, out, credit, received>>
        /\ pcL[d] = "reread" /\ pcL'[d] = "release" /\ held'[d] = Expire(held[d])
    BY <1>1, <1>7 DEF Reread, pipelineVars
  <2>2. Len(held'[d]) <= Len(held[d])
    <3>1. held[d] \in Seq(HeldItems)
      BY <1>1
    <3> QED BY <2>1, <3>1, HeldLengths
  <2>3. r2 = r /\ c2 = c /\ h2 <= h /\ k2 = k /\ o2 = o /\ p2 = p /\ n2 = n /\ m2 = m /\ j2 = j
    BY <1>0, <1>00, <2>1, <2>2 DEF About, Hand, Taken
  <2> QED BY <2>1, <2>3
<1>8. CASE Examine(d)
  <2>1. /\ UNCHANGED <<puts, drops, pcL, dgram, credit, received>>
        /\ pcL[d] = "release" /\ held[d] # <<>> /\ held'[d] = Tail(held[d])
    BY <1>1, <1>8 DEF Examine, pipelineVars
  <2>2. held[d] \in Seq(HeldItems) /\ keep[d] \in Seq(HeldItems) /\ out[d] \in Seq(HeldItems)
    BY <1>1
  <2>3. Len(held'[d]) = Len(held[d]) - 1 /\ Head(held[d]) \in HeldItems
    BY <2>1, <2>2
  <2>4. \/ o2 = o + 1 /\ k2 = k
        \/ k2 = k + 1 /\ o2 = o
    <3>1. PICK x : x = Head(held[d])
      OBVIOUS
    <3>2. x \in HeldItems
      BY <2>3, <3>1
    <3>3. Len(Append(out[d], x)) = Len(out[d]) + 1 /\ Len(Append(keep[d], x)) = Len(keep[d]) + 1
      BY <2>2, <3>2
    <3>4. CASE out' = [out EXCEPT ![d] = Append(out[d], x)] /\ keep' = keep
      <4>1. out'[d] = Append(out[d], x) /\ keep'[d] = keep[d]
        BY <1>1, <3>4
      <4> QED BY <1>0, <1>00, <3>3, <4>1
    <3>5. CASE keep' = [keep EXCEPT ![d] = Append(keep[d], x)] /\ out' = out
      <4>1. keep'[d] = Append(keep[d], x) /\ out'[d] = out[d]
        BY <1>1, <3>5
      <4> QED BY <1>0, <1>00, <3>3, <4>1
    <3> QED BY <1>8, <3>1, <3>4, <3>5 DEF Examine
  <2>5. r2 = r /\ c2 = c /\ h2 = h - 1 /\ p2 = p /\ n2 = n /\ m2 = m /\ j2 = j
    BY <1>0, <1>00, <2>1, <2>3 DEF About, Hand, Taken
  <2>6. /\ r2 + c2 + n + m + j = r + c + n2 + m2 + j2
        /\ c2 + h2 + k2 + o2 + p2 + j <= c + h + k + o + p + j2
    <3>1. CASE o2 = o + 1 /\ k2 = k
      BY <2>5, <3>1
    <3>2. CASE k2 = k + 1 /\ o2 = o
      BY <2>5, <3>2
    <3> QED BY <2>4, <3>1, <3>2
  <2> QED BY <2>1, <2>6
<1>9. CASE Released(d)
  <2>1. /\ UNCHANGED <<puts, drops, dgram, out, credit, received>>
        /\ pcL[d] = "release" /\ pcL'[d] \in {"top", "decide", "replay"}
        /\ pcL'[d] = "top" => dgram[d] = NoData
        /\ held[d] = <<>> /\ held'[d] = keep[d] /\ keep'[d] = <<>>
    BY <1>1, <1>9 DEF Released, AfterReplay, pipelineVars
  <2>2. /\ r2 = r /\ c2 = c /\ h2 = k /\ k2 = 0 /\ h = 0 /\ o2 = o
        /\ p2 = p /\ n2 = n /\ m2 = m /\ j2 = j
    BY <1>0, <1>00, <2>1 DEF About, Hand, Taken
  <2> QED BY <2>1, <2>2
<1>10. CASE Replay(d)
  <2>1. /\ UNCHANGED <<pcL, dgram, held, keep, received>>
        /\ pcL[d] = "replay" /\ out[d] # <<>> /\ out'[d] = Tail(out[d])
        /\ credit'[d] = credit[d] + 1
    BY <1>1, <1>10 DEF Replay
  <2>2. m2 = m + 1 /\ j2 = j
    <3>1. PICK x : x = Head(out[d])
      OBVIOUS
    <3>2. Ingest(d, x.sender, x.text, x.ts)
      BY <1>10, <3>1 DEF Replay
    <3> QED BY <1>0, <1>00, <1>1, <3>2, IngestCounts DEF Taken
  <2>3. Len(Tail(out[d])) = Len(out[d]) - 1
    BY <1>1, <2>1
  <2>4. r2 = r /\ c2 = c + 1 /\ h2 = h /\ k2 = k /\ o2 = o - 1 /\ p2 = p /\ n2 = n
    BY <1>0, <1>00, <2>1, <2>3 DEF About, Hand
  <2>5. r2 + c2 + n + m + j = r + c + n2 + m2 + j2
    BY <2>2, <2>4
  <2>6. c2 + h2 + k2 + o2 + p2 + j <= c + h + k + o + p + j2
    BY <2>2, <2>4
  <2> QED BY <2>1, <2>5, <2>6, Zenon
<1>11. CASE Correct(d)
  <2>1. /\ UNCHANGED <<dgram, puts, held, keep, out, received>>
        /\ pcL[d] = "replay" /\ pcL'[d] \in {"top", "decide"} /\ credit'[d] = 0
        /\ pcL'[d] = "top" => dgram[d] = NoData
    BY <1>1, <1>11 DEF Correct, AfterReplay
  <2>2. c <= j
    BY <1>0, <1>1, OwedIsCounted
  <2>3. drops' = [drops EXCEPT !.rejected = j - c]
    <3>1. drops' = [drops EXCEPT !.rejected = IF drops.rejected - credit[d] < 0 THEN 0
                                              ELSE drops.rejected - credit[d]]
      BY <1>11 DEF Correct
    <3>2. PICK x : x = IF drops.rejected - credit[d] < 0 THEN 0 ELSE drops.rejected - credit[d]
      OBVIOUS
    <3>3. x = j - c
      BY <1>0, <2>2, <3>2
    <3> QED BY <3>1, <3>2, <3>3
  <2>4. drops'.rejected = j - c /\ drops'.n = drops.n /\ drops'.ignored = drops.ignored
    BY <1>1, <2>2, <2>3
  <2>5. /\ r2 = r /\ c2 = 0 /\ h2 = h /\ k2 = k /\ o2 = o /\ p2 = p /\ n2 = n
        /\ m2 = m /\ j2 = j - c
    BY <1>0, <1>00, <2>1, <2>4 DEF About, Hand, Taken
  <2> QED BY <2>1, <2>2, <2>5
<1>12. CASE IngestNow(d)
  <2>1. /\ UNCHANGED <<held, keep, out, credit, received>>
        /\ pcL[d] = "ingest" /\ pcL'[d] = "top" /\ dgram'[d] = NoData
    BY <1>1, <1>12 DEF IngestNow, Forget
  <2>2. m2 = m + 1 /\ j2 = j
    <3>1. PICK x : x = dgram[d]
      OBVIOUS
    <3>2. Ingest(d, x.sender, x.text, wall)
      BY <1>12, <3>1 DEF IngestNow
    <3> QED BY <1>0, <1>00, <1>1, <3>2, IngestCounts DEF Taken
  <2>3. r2 = r /\ c2 = c /\ h2 = h /\ k2 = k /\ o2 = o /\ p2 = p /\ n = 1 /\ n2 = 0
    BY <1>0, <1>00, <1>3, <2>1 DEF About, Hand
  <2> QED BY <2>1, <2>2, <2>3
<1>13. CASE Reject(d)
  <2>1. /\ UNCHANGED <<puts, held, keep, out, credit, received>>
        /\ pcL[d] = "reject"
        /\ \/ pcL'[d] = "hold" /\ dgram' = dgram
           \/ pcL'[d] = "top" /\ dgram'[d] = NoData
    BY <1>1, <1>13 DEF Reject, Forget
  <2>2. /\ drops'.rejected = drops.rejected + 1
        /\ drops'.n = drops.n /\ drops'.ignored = drops.ignored
    BY <1>1, <1>13 DEF Reject
  <2>3. /\ r2 = r /\ c2 = c /\ h2 = h /\ k2 = k /\ o2 = o /\ p = 0 /\ p2 <= 1
        /\ n = 1 /\ n2 = 0 /\ m2 = m /\ j2 = j + 1
    BY <1>0, <1>00, <1>3, <2>1, <2>2 DEF About, Hand, Taken
  <2>4. pcL'[d] \in {"start", "top", "recv", "done"} => dgram'[d] = NoData
    BY <2>1
  <2> QED BY <2>3, <2>4
<1>14. CASE Hold(d)
  <2> DEFINE item == [ts |-> wall, sender |-> dgram[d].sender, text |-> Truncate(dgram[d].text)]
  <2>1. /\ UNCHANGED <<puts, drops, keep, out, credit, received>>
        /\ pcL[d] = "hold" /\ pcL'[d] = "top" /\ dgram'[d] = NoData
        /\ held'[d] = Push(Expire(held[d]), item)
    BY <1>1, <1>14 DEF Hold, Forget, pipelineVars
  <2>2. item \in HeldItems
    <3>1. dgram[d] \in Datagrams
      BY <2>1 DEF IInv, InHandType
    <3> QED BY <1>1, <3>1 DEF Datagrams, HeldItems, Truncate
  <2> HIDE DEF item
  <2>3. h2 <= h + 1
    <3>1. held[d] \in Seq(HeldItems)
      BY <1>1
    <3>2. PICK old : old = Expire(held[d])
      OBVIOUS
    <3>3. old \in Seq(HeldItems) /\ Len(old) <= Len(held[d])
      BY <3>1, <3>2, HeldLengths
    <3>4. Push(old, item) \in Seq(HeldItems) /\ Len(Push(old, item)) <= Len(old) + 1
      BY <2>2, <3>3, HeldLengths
    <3>5. PICK l \in Nat : l = Len(old)
      BY <3>3
    <3>6. l <= h /\ h2 <= l + 1
      BY <1>0, <1>00, <2>1, <3>2, <3>3, <3>4, <3>5
    <3> QED BY <3>6
  <2>4. /\ r2 = r /\ c2 = c /\ k2 = k /\ o2 = o /\ p = 1 /\ p2 = 0 /\ n = 0 /\ n2 = 0
        /\ m2 = m /\ j2 = j
    BY <1>0, <1>00, <2>1 DEF About, Hand, Taken
  <2> QED BY <2>1, <2>3, <2>4
<1> QED BY <1>4, <1>5, <1>6, <1>7, <1>8, <1>9, <1>10, <1>11, <1>12, <1>13, <1>14
        DEF ListenerStep

(* A listener's step leaves what the others have and owe. *)
LEMMA OthersRest ==
  ASSUME ThreadsTypeOK, NEW d \in Devices, ListenerStep(d), NEW e \in Devices, e # d
  PROVE  /\ credit'[e] = credit[e] /\ Owing(e)' = Owing(e)
         /\ pcL'[e] = pcL[e] /\ dgram'[e] = dgram[e]
<1>1. /\ credit'[e] = credit[e] /\ pcL'[e] = pcL[e] /\ dgram'[e] = dgram[e]
      /\ held'[e] = held[e] /\ keep'[e] = keep[e] /\ out'[e] = out[e]
  BY DEF ThreadsTypeOK, Goto, ListenerStep, Bind, BindFails, LoopTop, Recv, RecvTimeout,
         CheckGeneration, Reread, Examine, Released, Replay, Correct, Decide, IngestNow,
         Reject, Hold, Forget
<1> QED BY <1>1 DEF Owing, About

(* So the books of all of them balance. *)
LEMMA BooksStep ==
  ASSUME IInv, BooksInv, NEW d \in Devices, ListenerStep(d)
  PROVE  BooksInv'
<1>1. ThreadsTypeOK /\ PipelineTypeOK /\ ThreadsTypeOK' /\ PipelineTypeOK'
  BY ListenerStepInv DEF IInv, ListenerTypeOK
<1>2. Balanced(d)
  BY StepBalances
<1>3. ASSUME NEW e \in Devices, pcL'[e] \in {"start", "top", "recv", "done"}
      PROVE  dgram'[e] = NoData
  <2>1. CASE e = d
    BY <1>2, <1>3, <2>1 DEF Balanced
  <2>2. CASE e # d
    BY <1>1, <1>3, <2>2, OthersRest DEF BooksInv
  <2> QED BY <2>1, <2>2
<1>4. PICK before, after :
        before = [e \in Devices |-> Owing(e)] /\ after = [e \in Devices |-> Owing(e)']
  OBVIOUS
<1>5. (\A e \in Devices : before[e] \in Nat) /\ (\A e \in Devices : after[e] \in Nat)
  <2>1. \A e \in Devices : Owing(e) \in Nat
    BY <1>1, OwingType
  <2>2. \A e \in Devices : Owing(e)' \in Nat
    <3> SUFFICES ASSUME NEW e \in Devices PROVE Owing(e)' \in Nat
      OBVIOUS
    <3>1. CASE e # d
      BY <1>1, <2>1, <3>1, OthersRest
    <3>2. CASE e = d
      <4>1. PICK c \in Nat, h \in Nat, k \in Nat, o \in Nat, p \in Nat :
              /\ c = credit'[d] /\ h = Len(held'[d]) /\ k = Len(keep'[d])
              /\ o = Len(out'[d]) /\ p = About(d)'
        <5>1. /\ held'[d] \in Seq(HeldItems) /\ keep'[d] \in Seq(HeldItems)
              /\ out'[d] \in Seq(HeldItems) /\ credit'[d] \in Nat
          BY <1>1 DEF ThreadsTypeOK
        <5>2. Len(held'[d]) \in Nat /\ Len(keep'[d]) \in Nat /\ Len(out'[d]) \in Nat
          BY <5>1
        <5>3. About(d)' \in Nat
          BY DEF About
        <5> QED BY <5>1, <5>2, <5>3
      <4>2. Owing(d)' = c + h + k + o + p
        BY <4>1 DEF Owing
      <4>3. c + h + k + o + p \in Nat
        OBVIOUS
      <4> QED BY <3>2, <4>2, <4>3
    <3> QED BY <3>1, <3>2
  <2> QED BY <1>4, <2>1, <2>2
<1>6. \A e \in Devices \ {d} : after[e] = before[e]
  BY <1>1, <1>4, OthersRest
<1>7. Tally(after, Devices) = Tally(before, Devices) - before[d] + after[d]
  BY <1>5, <1>6, DevicesAssumption, TallyChange
<1>8. Tally(before, Devices) \in Nat /\ Tally(after, Devices) \in Nat
  BY <1>5, DevicesAssumption, TallyType
<1>9. drops.rejected \in Nat /\ drops'.rejected \in Nat
  BY <1>1 DEF PipelineTypeOK
<1>10. Tally(after, Devices) <= drops'.rejected
  <2>1. Tally(before, Devices) <= drops.rejected
    BY <1>4 DEF BooksInv
  <2>2. after[d] + drops.rejected <= before[d] + drops'.rejected
    BY <1>2, <1>4 DEF Balanced
  <2>3. before[d] \in Nat /\ after[d] \in Nat
    BY <1>5
  <2> QED BY <1>7, <1>8, <1>9, <2>1, <2>2, <2>3
<1>11. Tally([e \in Devices |-> Owing(e)]', Devices) <= drops'.rejected
  BY <1>4, <1>10
<1>12. Ledger'
  <2>1. (\A e \in Devices : credit[e] \in Nat) /\ (\A e \in Devices : credit'[e] \in Nat)
    BY <1>1 DEF ThreadsTypeOK
  <2>2. PICK c, c2 : c = credit /\ c2 = credit'
    OBVIOUS
  <2>3. Tally(c2, Devices) = Tally(c, Devices) - c[d] + c2[d]
    <3>1. \A e \in Devices \ {d} : c2[e] = c[e]
      BY <1>1, <2>2, OthersRest
    <3> QED BY <2>1, <2>2, <3>1, DevicesAssumption, TallyChange
  <2>4. Tally(c, Devices) \in Nat /\ Tally(c2, Devices) \in Nat
    BY <2>1, <2>2, DevicesAssumption, TallyType
  <2>5. Cardinality(InHand') + Hand(d) = Cardinality(InHand) + Hand(d)'
        /\ Cardinality(InHand') \in Nat /\ Cardinality(InHand) \in Nat
    <3>1. PICK A, B : A = InHand /\ B = InHand'
      OBVIOUS
    <3>2. IsFiniteSet(A) /\ IsFiniteSet(B)
      <4>1. A \subseteq Devices /\ B \subseteq Devices
        BY <3>1 DEF InHand
      <4> QED BY <4>1, DevicesAssumption, FS_Subset
    <3>3. (d \in A <=> Hand(d) = 1) /\ (d \in B <=> Hand(d)' = 1)
          /\ Hand(d) \in {0, 1} /\ Hand(d)' \in {0, 1}
      BY <3>1 DEF InHand, Hand
    <3>4. \A e \in Devices : e # d => (e \in A <=> e \in B)
      BY <1>1, <3>1, OthersRest DEF InHand
    <3>5. A \subseteq Devices /\ B \subseteq Devices
      BY <3>1 DEF InHand
    <3>6. Cardinality(A) \in Nat /\ Cardinality(B) \in Nat
      BY <3>2, FS_CardinalityType
    <3>7. CASE d \in A /\ d \notin B
      <4>1. B = A \ {d}
        BY <3>4, <3>5, <3>7
      <4> QED BY <3>1, <3>2, <3>3, <3>6, <3>7, <4>1, OneMore
    <3>8. CASE d \notin A /\ d \in B
      <4>1. B = A \cup {d}
        BY <3>4, <3>5, <3>8
      <4> QED BY <3>1, <3>2, <3>3, <3>6, <3>8, <4>1, OneMore
    <3>9. CASE d \in A <=> d \in B
      <4>1. A = B
        BY <3>4, <3>5, <3>9
      <4> QED BY <3>1, <3>3, <3>6, <3>9, <4>1
    <3> QED BY <3>7, <3>8, <3>9
  <2>6. PICK r \in Nat, r2 \in Nat, a \in Nat, a2 \in Nat, b \in Nat, b2 \in Nat,
             h \in Nat, h2 \in Nat, m \in Nat, m2 \in Nat, j \in Nat, j2 \in Nat :
          /\ r = received /\ r2 = received' /\ a = c[d] /\ a2 = c2[d]
          /\ b = Cardinality(InHand) /\ b2 = Cardinality(InHand')
          /\ h = Hand(d) /\ h2 = Hand(d)' /\ m = Taken /\ m2 = Taken'
          /\ j = drops.rejected /\ j2 = drops'.rejected
    <3>1. Hand(d) \in Nat /\ Hand(d)' \in Nat
      BY DEF Hand
    <3>2. Taken \in Nat /\ Taken' \in Nat
      BY <1>1 DEF Taken, PipelineTypeOK
    <3>3. received \in Nat /\ received' \in Nat
      BY <1>1 DEF ThreadsTypeOK
    <3>4. c[d] \in Nat /\ c2[d] \in Nat
      BY <2>1, <2>2, Zenon
    <3>5. Cardinality(InHand) \in Nat /\ Cardinality(InHand') \in Nat
      BY <2>5, Zenon
    <3> HIDE DEF Hand, Taken, InHand
    <3> QED BY <1>9, <3>1, <3>2, <3>3, <3>4, <3>5, Zenon
  <2>7. r2 + a2 + h + m + j = r + a + h2 + m2 + j2
    BY <1>2, <2>2, <2>6 DEF Balanced
  <2>8. b2 + h = b + h2
    BY <2>5, <2>6
  <2>9. PICK t \in Nat, t2 \in Nat : t = Tally(c, Devices) /\ t2 = Tally(c2, Devices)
    BY <2>4
  <2>10. t2 = t - a + a2
    BY <2>3, <2>6, <2>9
  <2>11. r + t = m + j + b
    <3>1. received + Tally(c, Devices)
            = puts + drops.n + drops.ignored + drops.rejected + Cardinality(InHand)
      BY <2>2 DEF BooksInv, Ledger
    <3>2. received + Tally(c, Devices) = Taken + drops.rejected + Cardinality(InHand)
      BY <3>1 DEF Taken
    <3> QED BY <2>6, <2>9, <3>2
  <2>12. r2 + t2 = m2 + j2 + b2
    BY <2>7, <2>8, <2>10, <2>11
  <2>13. received' + Tally(c2, Devices) = Taken' + drops'.rejected + Cardinality(InHand')
    BY <2>6, <2>9, <2>12
  <2>14. received' + Tally(credit', Devices)
           = puts' + drops'.n + drops'.ignored + drops'.rejected + Cardinality(InHand')
    BY <2>2, <2>13 DEF Taken
  <2> QED BY <2>14 DEF Ledger
<1> QED BY <1>3, <1>11, <1>12 DEF BooksInv

(* listener.py:124-144: for any number of listeners, datagrams and names,    *)
(* and queues of any size, every datagram received is in exactly one place:  *)
(* queued, dropped, ignored, rejected, or in its listener's hands.  None is  *)
(* replayed twice, none vanishes, and max(0, ...) never has to clip.         *)
THEOREM LedgerBalances == ListenersSpec => []Ledger
<1> DEFINE Inv == IInv /\ BooksInv
<1>1. ListenersInit => Inv
  <2> SUFFICES ASSUME ListenersInit PROVE BooksInv
    BY InitInv
  <2> USE DEF ListenersInit, ListenerInit, PipelineInit
  <2>1. \A d \in Devices : dgram[d] = NoData /\ credit[d] = 0
    OBVIOUS
  <2>2. \A d \in Devices : Owing(d) = 0
    <3> SUFFICES ASSUME NEW d \in Devices PROVE Owing(d) = 0
      OBVIOUS
    <3>1. credit[d] = 0 /\ held[d] = <<>> /\ keep[d] = <<>> /\ out[d] = <<>> /\ About(d) = 0
      BY DEF About
    <3> QED BY <3>1 DEF Owing
  <2>3. Tally([d \in Devices |-> Owing(d)], Devices) = 0
    <3> DEFINE owing == [d \in Devices |-> Owing(d)]
    <3>1. \A d \in Devices : owing[d] = 0
      BY <2>2
    <3> HIDE DEF owing
    <3>2. Tally(owing, Devices) = 0
      BY <3>1, TallyZero
    <3> QED BY <3>2 DEF owing
  <2>4. Tally(credit, Devices) = 0
    BY <2>1, TallyZero
  <2>5. Cardinality(InHand) = 0
    <3>1. InHand = {}
      BY <2>1 DEF InHand
    <3> QED BY <3>1, FS_EmptySet
  <2>6. drops.n = 0 /\ drops.ignored = 0 /\ drops.rejected = 0 /\ puts = 0 /\ received = 0
    OBVIOUS
  <2> HIDE DEF ListenersInit, ListenerInit, PipelineInit
  <2> QED BY <2>1, <2>3, <2>4, <2>5, <2>6 DEF BooksInv, Ledger
<1>2. Inv /\ [ListenersNext]_collectVars => Inv'
  <2> SUFFICES ASSUME IInv, BooksInv, [ListenersNext]_collectVars PROVE Inv'
    OBVIOUS
  <2>1. IInv'
    BY StepInv
  <2>2. CASE \E d \in Devices : ListenerStep(d)
    BY <2>1, <2>2, BooksStep
  <2>3. CASE UNCHANGED <<listenerVars, drops, puts>>
    <3>1. /\ UNCHANGED <<pcL, dgram, held, keep, out, credit, received>>
          /\ drops' = drops /\ puts' = puts
      BY <2>3 DEF listenerVars
    <3>2. \A d \in Devices : Owing(d)' = Owing(d)
      BY <3>1 DEF Owing, About
    <3>3. [d \in Devices |-> Owing(d)]' = [d \in Devices |-> Owing(d)]
      BY <3>2
    <3>4. InHand' = InHand
      BY <3>1 DEF InHand
    <3>5. Ledger'
      <4>1. Cardinality(InHand)' = Cardinality(InHand)
        BY <3>4, Zenon
      <4>2. Tally(credit, Devices)' = Tally(credit, Devices)
        BY <3>1, Zenon
      <4> QED BY <3>1, <4>1, <4>2 DEF BooksInv, Ledger
    <3>6. Tally([d \in Devices |-> Owing(d)], Devices)'
            = Tally([d \in Devices |-> Owing(d)], Devices)
      BY <3>3, Zenon
    <3> QED BY <2>1, <3>1, <3>5, <3>6 DEF BooksInv
  <2> QED
    BY <2>2, <2>3
    DEF ListenersNext, CollectNext, Take, Stopped, WallTick, OnSignal, collectVars,
        pipelineVars
<1>3. Inv => Ledger
  BY DEF BooksInv
<1> QED BY <1>1, <1>2, <1>3, PTL DEF ListenersSpec
=============================================================================
