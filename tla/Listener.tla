------------------------------ MODULE Listener ------------------------------
(***************************************************************************)
(* listener.run: one thread per device, sharing the source filter of       *)
(* Sources and the queue and counters of Pipeline.                         *)
(*                                                                         *)
(* Every read or write of an object another thread uses is a step of its   *)
(* own: the generation is read twice, `allowed` once per datagram          *)
(* examined, and the resolver's two assignments fall anywhere between.     *)
(* Arrival is reception: the kernel's socket buffer is not modelled.       *)
(***************************************************************************)
EXTENDS Sources, Pipeline, Tally

CONSTANTS
  HeldMax,       \* HELD_MAX
  HeldTtl,       \* HELD_TTL, in seconds of the wall clock
  Texts,         \* what arrives, of the four kinds of text below
  MaxDatagrams   \* bound: datagrams received

ASSUME HeldAssumption == HeldMax \in Nat \ {0} /\ HeldTtl \in Nat
ASSUME TextsAssumption == Texts \subseteq {"event", "gap", "host", "long"}
ASSUME ArrivalBound == MaxDatagrams \in Nat

VARIABLES
  pcL,       \* where each listener thread is
  dgram,     \* the datagram of this iteration, or NoData after a timeout
  gen,       \* the local `generation`
  held,      \* _Held.items; while releasing, the ones not yet examined
  keep,      \* _Held.release's `keep`
  out,       \* released datagrams still to be ingested
  credit,    \* released datagrams ingested, still counted as rejected
  received,  \* history: datagrams received
  admitted   \* history: senders whose datagram was ingested

listenerVars == <<pcL, dgram, gen, held, keep, out, credit, received, admitted>>
collectVars == <<sourcesVars, stop, pipelineVars, listenerVars>>

----------------------------------------------------------------------------
(* Datagrams.  A text is what the parser makes of it: an event, a firewall *)
(* line it cannot parse, ordinary host syslog, or an event line longer     *)
(* than MAX_RAW_LEN, whose first MAX_RAW_LEN bytes no longer parse.        *)

Truncate(text) == IF text = "long" THEN "gap" ELSE text

NoData == [sender |-> "none", text |-> "none"]

Datagrams == [sender : Addrs, text : Texts]
HeldItems == [ts : Nat, sender : Addrs, text : Texts \cup {"gap"}]

\* The end of an iteration: the next one overwrites `data` and `addr`.
Forget(d) == dgram' = [dgram EXCEPT ![d] = NoData]

\* A thread leaves one statement for the next.
Goto(d, from, to) == pcL[d] = from /\ pcL' = [pcL EXCEPT ![d] = to]

\* held is not None: only a list with hostnames holds datagrams.
Holds == Hosts # {}

----------------------------------------------------------------------------
(* _Held *)

\* _expire: the datagrams at the front that are older than HELD_TTL go.
Expired(s) == {i \in 1..Len(s) : \A j \in 1..i : wall - s[j].ts > HeldTtl}
Expire(s) == SubSeq(s, Cardinality(Expired(s)) + 1, Len(s))

\* Appending to a deque of maxlen HELD_MAX: the oldest goes first.
Push(s, x) == IF Len(s) < HeldMax THEN Append(s, x) ELSE Append(Tail(s), x)

----------------------------------------------------------------------------
(* _ingest *)

Ingest(d, sender, text, ts) ==
  /\ admitted' = admitted \cup {sender}
  /\ CASE text \in {"event", "long"} -> Put(ItemOf(d, "ev", ts))
       [] text = "gap" -> Put(ItemOf(d, "un", ts))
       [] OTHER -> /\ drops' = [drops EXCEPT !.ignored = @ + 1]
                   /\ UNCHANGED <<q, puts>>

----------------------------------------------------------------------------
(* The thread *)

ListenerInit ==
  /\ pcL = [d \in Devices |-> "start"]
  /\ dgram = [d \in Devices |-> NoData]
  /\ gen = [d \in Devices |-> 0]
  /\ held = [d \in Devices |-> <<>>] /\ keep = held /\ out = held
  /\ credit = [d \in Devices |-> 0]
  /\ received = 0 /\ admitted = {}

\* The port is bound and the generation read for the first time.
Bind(d) ==
  /\ Goto(d, "start", "top")
  /\ gen' = [gen EXCEPT ![d] = generation]
  /\ UNCHANGED <<sourcesVars, stop, pipelineVars, dgram, held, keep, out,
                 credit, received, admitted>>

\* The port cannot be bound: the whole process stops.
BindFails(d) ==
  /\ Goto(d, "start", "done")
  /\ stop' = TRUE
  /\ UNCHANGED <<sourcesVars, pipelineVars, dgram, gen, held, keep, out,
                 credit, received, admitted>>

\* while not stop_event.is_set()
LoopTop(d) ==
  /\ Goto(d, "top", IF stop THEN "done" ELSE "recv")
  /\ UNCHANGED <<sourcesVars, stop, pipelineVars, dgram, gen, held, keep, out,
                 credit, received, admitted>>

Recv(d) ==
  /\ received < MaxDatagrams
  /\ Goto(d, "recv", "check")
  /\ \E m \in Datagrams : dgram' = [dgram EXCEPT ![d] = m]
  /\ received' = received + 1
  /\ UNCHANGED <<sourcesVars, stop, pipelineVars, gen, held, keep, out,
                 credit, admitted>>

\* The socket's one-second timeout.
RecvTimeout(d) ==
  /\ Goto(d, "recv", "check")
  /\ Forget(d)
  /\ UNCHANGED <<sourcesVars, stop, pipelineVars, gen, held, keep, out,
                 credit, received, admitted>>

\* Where an iteration goes once the held datagrams have had their chance.
AfterReplay(d) == IF dgram[d] = NoData THEN "top" ELSE "decide"

\* filt.generation != generation
CheckGeneration(d) ==
  /\ Goto(d, "check", IF Holds /\ generation # gen[d] THEN "reread"
                      ELSE AfterReplay(d))
  /\ UNCHANGED <<sourcesVars, stop, pipelineVars, dgram, gen, held, keep, out,
                 credit, received, admitted>>

\* generation = filt.generation, then _replay enters release().
Reread(d) ==
  /\ Goto(d, "reread", "release")
  /\ gen' = [gen EXCEPT ![d] = generation]
  /\ held' = [held EXCEPT ![d] = Expire(@)]
  /\ UNCHANGED <<sourcesVars, stop, pipelineVars, dgram, keep, out, credit,
                 received, admitted>>

\* One turn of release()'s loop: `allowed` is read for one held datagram.
Examine(d) ==
  /\ pcL[d] = "release" /\ held[d] # <<>>
  /\ held' = [held EXCEPT ![d] = Tail(@)]
  /\ LET item == Head(held[d]) IN
       IF Allows(item.sender)
         THEN out' = [out EXCEPT ![d] = Append(@, item)] /\ UNCHANGED keep
         ELSE keep' = [keep EXCEPT ![d] = Append(@, item)] /\ UNCHANGED out
  /\ UNCHANGED <<sourcesVars, stop, pipelineVars, pcL, dgram, gen, credit,
                 received, admitted>>

\* Mutant: the generation is remembered after the replay instead of before.
Released_LateGeneration(d) ==
  /\ Goto(d, "release", IF out[d] = <<>> THEN AfterReplay(d) ELSE "replay")
  /\ held[d] = <<>>
  /\ held' = [held EXCEPT ![d] = keep[d]]
  /\ keep' = [keep EXCEPT ![d] = <<>>]
  /\ gen' = [gen EXCEPT ![d] = generation]
  /\ UNCHANGED <<sourcesVars, stop, pipelineVars, dgram, out, credit,
                 received, admitted>>

\* self.items = keep; nothing released is the early return of _replay.
Released(d) ==
  /\ Goto(d, "release", IF out[d] = <<>> THEN AfterReplay(d) ELSE "replay")
  /\ held[d] = <<>>
  /\ held' = [held EXCEPT ![d] = keep[d]]
  /\ keep' = [keep EXCEPT ![d] = <<>>]
  /\ UNCHANGED <<sourcesVars, stop, pipelineVars, dgram, gen, out, credit,
                 received, admitted>>

\* One released datagram is ingested with its original timestamp.
Replay(d) ==
  /\ pcL[d] = "replay" /\ out[d] # <<>>
  /\ LET item == Head(out[d]) IN Ingest(d, item.sender, item.text, item.ts)
  /\ out' = [out EXCEPT ![d] = Tail(@)]
  /\ credit' = [credit EXCEPT ![d] = @ + 1]
  /\ UNCHANGED <<sourcesVars, stop, wall, pcL, dgram, gen, held, keep, received>>

\* Mutant: the correction counts senders, not datagrams.
Correct_OnePerReplay(d) ==
  /\ out[d] = <<>>
  /\ Goto(d, "replay", AfterReplay(d))
  /\ drops' = [drops EXCEPT !.rejected = IF @ - 1 < 0 THEN 0 ELSE @ - 1]
  /\ credit' = [credit EXCEPT ![d] = 0]
  /\ UNCHANGED <<sourcesVars, stop, q, wall, puts, dgram, gen, held, keep, out,
                 received, admitted>>

\* Mutant: one correction too many, and no clipping.
Correct_TooMuch(d) ==
  /\ out[d] = <<>>
  /\ Goto(d, "replay", AfterReplay(d))
  /\ drops' = [drops EXCEPT !.rejected = @ - credit[d] - 1]
  /\ credit' = [credit EXCEPT ![d] = 0]
  /\ UNCHANGED <<sourcesVars, stop, q, wall, puts, dgram, gen, held, keep, out,
                 received, admitted>>

\* "They were counted as rejected when held; they weren't, in the end."
Correct(d) ==
  /\ out[d] = <<>>
  /\ Goto(d, "replay", AfterReplay(d))
  /\ drops' = [drops EXCEPT !.rejected =
                 IF @ - credit[d] < 0 THEN 0 ELSE @ - credit[d]]
  /\ credit' = [credit EXCEPT ![d] = 0]
  /\ UNCHANGED <<sourcesVars, stop, q, wall, puts, dgram, gen, held, keep, out,
                 received, admitted>>

\* not filt.allows(addr[0])
Decide(d) ==
  /\ Goto(d, "decide", IF Allows(dgram[d].sender) THEN "ingest" ELSE "reject")
  /\ UNCHANGED <<sourcesVars, stop, pipelineVars, dgram, gen, held, keep, out,
                 credit, received, admitted>>

IngestNow(d) ==
  /\ Goto(d, "ingest", "top")
  /\ Ingest(d, dgram[d].sender, dgram[d].text, wall)
  /\ Forget(d)
  /\ UNCHANGED <<sourcesVars, stop, wall, gen, held, keep, out, credit,
                 received>>

\* The datagram is counted and, when names are configured, will be held.
Reject(d) ==
  /\ Goto(d, "reject", IF Holds THEN "hold" ELSE "top")
  /\ drops' = [drops EXCEPT !.rejected = @ + 1]
  /\ IF Holds THEN UNCHANGED dgram ELSE Forget(d)
  /\ UNCHANGED <<sourcesVars, stop, q, wall, puts, gen, held, keep, out,
                 credit, received, admitted>>

\* held.add (which expires, truncates and appends) and filt.trigger.
Hold(d) ==
  /\ Goto(d, "hold", "top")
  /\ held' = [held EXCEPT ![d] =
       Push(Expire(@), [ts |-> wall, sender |-> dgram[d].sender,
                        text |-> Truncate(dgram[d].text)])]
  /\ Trigger
  /\ Forget(d)
  /\ UNCHANGED <<dns, dnsChanges, faults, pcR, todo, found, failed, resolved,
                 failures, allowed, generation, slept, answered, latest>>
  /\ UNCHANGED <<stop, pipelineVars, gen, keep, out, credit, received,
                 admitted>>

ListenerStep(d) ==
  \/ Bind(d) \/ BindFails(d) \/ LoopTop(d) \/ Recv(d) \/ RecvTimeout(d)
  \/ CheckGeneration(d) \/ Reread(d) \/ Examine(d) \/ Released(d)
  \/ Replay(d) \/ Correct(d) \/ Decide(d) \/ IngestNow(d) \/ Reject(d) \/ Hold(d)

\* The listeners and the resolver, which they trigger.
CollectNext ==
  \/ \E d \in Devices : ListenerStep(d)
  \/ SourcesNext /\ UNCHANGED <<stop, pipelineVars, listenerVars>>
  \/ WallTick /\ UNCHANGED <<sourcesVars, stop, listenerVars>>
  \/ OnSignal /\ UNCHANGED <<sourcesVars, pipelineVars, listenerVars>>

\* The writer thread, as far as the listeners can tell.
Take ==
  /\ q # <<>> /\ q' = Tail(q)
  /\ UNCHANGED <<drops, wall, puts, stop, sourcesVars, listenerVars>>

\* The process ends when every thread of it has.
Stopped ==
  /\ \A d \in Devices : pcL[d] = "done"
  /\ pcR = "off" /\ UNCHANGED collectVars

ListenersNext == CollectNext \/ Take \/ Stopped

ListenersInit == SourcesInit /\ stop = FALSE /\ PipelineInit /\ ListenerInit

\* Safety only.
ListenersSpec == ListenersInit /\ [][ListenersNext]_collectVars

\* Each thread is scheduled; a receive ends at the latest by its timeout, and
\* the monotonic clock advances.  Nothing is assumed of the wall clock, of
\* the senders or of the writer.
ListenersFairSpec ==
  /\ ListenersSpec
  /\ WF_collectVars(ResolverStep /\ UNCHANGED <<stop, pipelineVars, listenerVars>>)
  /\ WF_collectVars(MonoTick /\ UNCHANGED <<stop, pipelineVars, listenerVars>>)
  /\ \A d \in Devices : WF_collectVars(ListenerStep(d))
----------------------------------------------------------------------------
ThreadsTypeOK ==
  /\ pcL \in [Devices -> {"start", "top", "recv", "check", "reread", "release",
                          "replay", "decide", "ingest", "reject", "hold", "done"}]
  /\ dgram \in [Devices -> Datagrams \cup {NoData}]
  /\ gen \in [Devices -> Nat] /\ credit \in [Devices -> Nat]
  /\ held \in [Devices -> Seq(HeldItems)]
  /\ keep \in [Devices -> Seq(HeldItems)]
  /\ out \in [Devices -> Seq(HeldItems)]
  /\ received \in Nat /\ admitted \subseteq Addrs

ListenerTypeOK == SourcesTypeOK /\ PipelineTypeOK /\ ThreadsTypeOK

\* The listener of d will look at its held datagrams again: the generation it
\* remembers is out of date, or the resolver is about to make it so.
Announced(d) == generation # gen[d] \/ pcR = "bump"

\* listener.py:190, sources.py:176.  No datagram is stranded: whenever the
\* sender of a held datagram is allowed, the listener that holds it is still
\* going to find the generation changed, however the resolver's assignments
\* fell between the listener's reads.
NotStranded ==
  \A d \in Devices : pcL[d] \notin {"reread", "release"} =>
    \A i \in 1..Len(held[d]) : Allows(held[d][i].sender) => Announced(d)

\* The listeners with a datagram received, and neither queued nor counted
\* anywhere yet.
InHand == {d \in Devices : dgram[d] # NoData /\ pcL[d] # "hold"}

\* listener.py:124-144.  Every datagram is in exactly one place: what was
\* received is what was queued, dropped, ignored or rejected, up to the one in
\* each listener's hands and the replayed ones not yet taken off `rejected`.
\* So no datagram is replayed twice, none vanishes, and the max(0, ...) of the
\* correction never has to clip.
Ledger ==
  received + Tally(credit, Devices)
    = puts + drops.n + drops.ignored + drops.rejected + Cardinality(InHand)

\* sources.py:121 "allows nobody (not everybody)".  Only a sender from the
\* literal list or from an answer of the DNS ever gets a datagram ingested,
\* also before the first name has resolved.
FailClosed == Enabled => admitted \subseteq Nets \cup answered

Senders(s) == {s[i].sender : i \in 1..Len(s)}

\* listener.py:20-24.  A held datagram whose sender's address is, and stays,
\* the answer for a configured name is replayed: it does not stay held (the
\* run leaves it no other way out than the replay: no time passes on the wall
\* clock, so it cannot expire, and HeldMax is never reached).
HeldReplayed ==
  \A d \in Devices, a \in Addrs :
    (a \in Senders(held[d])) ~>
      (a \notin Senders(held[d]) \/ stop \/ \A h \in Hosts : a \notin dns[h])
=============================================================================
