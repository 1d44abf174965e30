------------------------------ MODULE Sources ------------------------------
(***************************************************************************)
(* sources.SourceFilter and its resolver thread: the syslog source         *)
(* allow-list, with entries that are hostnames resolved in the background. *)
(*                                                                         *)
(* One resolution round is a lookup per hostname, then the assignments of  *)
(* resolve_all; between rounds the thread waits on a condition variable    *)
(* until its deadline, or until a listener's trigger once the minimum gap  *)
(* has passed.  `allowed` and `generation` are written without a lock, in  *)
(* two steps, and read by the listener threads at any moment.              *)
(*                                                                         *)
(* An address stands for a network of the list or for a sender; a lookup   *)
(* that does not raise returns at least one address.  Time is the number   *)
(* of ticks of the monotonic clock since the last round ended.             *)
(***************************************************************************)
EXTENDS Integers, Sequences, FiniteSets, StopEvent

CONSTANTS
  Addrs,          \* sender addresses
  Hosts,          \* configured hostnames
  Nets,           \* configured literal addresses and networks
  Interval,       \* RESOLVE_INTERVAL, in ticks
  MinGap,         \* TRIGGER_MIN_GAP
  Retry,          \* RETRY_INTERVAL
  MaxDnsChanges,  \* bound: how often the DNS answer changes
  MaxFaults       \* bound: how many lookups fail

ASSUME NetsAssumption == Nets \subseteq Addrs
ASSUME TimesAssumption ==
  /\ Interval \in Nat /\ MinGap \in Nat /\ Retry \in Nat
  /\ MinGap <= Retry /\ Retry <= Interval /\ MinGap > 0
ASSUME ResolverBounds == MaxDnsChanges \in Nat /\ MaxFaults \in Nat

VARIABLES
  dns,         \* what a lookup of each host would return now (external)
  dnsChanges,  \* how often dns changed
  faults,      \* how many lookups failed
  pcR,         \* where the resolver thread is
  todo,        \* hosts the current round has still to look up
  found,       \* resolve_all's local copy `resolved`
  failed,      \* resolve_all's local flag
  resolved,    \* self._resolved; {} for a host that never resolved
  failures,    \* self._failures
  allowed,     \* self.allowed
  generation,  \* self.generation
  kicked,      \* self._kicked
  slept,       \* ticks since the round ended
  owed,        \* history: hosts not looked up since the last trigger
  answered,    \* history: every address a lookup ever returned
  latest       \* history: what the latest lookup of each host that did not raise returned

sourcesVars == <<dns, dnsChanges, faults, pcR, todo, found, failed, resolved,
                 failures, allowed, generation, kicked, slept, owed, answered, latest>>

Answers == (SUBSET Addrs) \ {{}}

----------------------------------------------------------------------------
(* What the listeners ask of the filter. *)

\* enabled: False when nothing is configured, and every sender is accepted.
Enabled == Nets # {} \/ Hosts # {}

\* source_allowed: an empty list is no filter at all.
SourceAllowed(sender, list) == list = {} \/ sender \in list

\* Mutant: the emptiness test of allows() is forgotten.
Allows_EmptyIsOpen(sender) == Enabled => SourceAllowed(sender, allowed)

\* allows: a hostname that has not resolved yet allows nobody.  The code
\* reads `allowed` twice; one read says the same, because a list that is not
\* empty stays so (AddressesAreKept).
Allows(sender) ==
  Enabled => (allowed # {} /\ SourceAllowed(sender, allowed))

----------------------------------------------------------------------------
(* The wait between two rounds. *)

\* _next_interval: doubling retries while a name fails.
NextInterval ==
  IF failures = 0 THEN Interval
  ELSE LET backoff == Retry * 2 ^ (failures - 1)
       IN IF backoff < Interval THEN backoff ELSE Interval

\* trigger: called by a listener that rejected a datagram.
Trigger ==
  IF Hosts = {} THEN UNCHANGED <<kicked, owed>>
  ELSE kicked' = TRUE /\ owed' = Hosts

----------------------------------------------------------------------------
SourcesInit ==
  /\ dns \in [Hosts -> Answers] /\ dnsChanges = 0 /\ faults = 0
  /\ pcR = IF Hosts = {} THEN "off" ELSE "lookup"   \* start(): no thread
  /\ todo = Hosts
  /\ found = [h \in Hosts |-> {}] /\ resolved = found
  /\ failed = FALSE /\ failures = 0
  /\ allowed = Nets /\ generation = 0
  /\ kicked = FALSE /\ slept = 0
  /\ owed = {} /\ answered = {} /\ latest = found

\* The name's address changes in the DNS.
DnsChange ==
  /\ dnsChanges < MaxDnsChanges
  /\ \E h \in Hosts, a \in Answers :
       a # dns[h] /\ dns' = [dns EXCEPT ![h] = a]
  /\ dnsChanges' = dnsChanges + 1
  /\ UNCHANGED <<faults, pcR, todo, found, failed, resolved, failures,
                 allowed, generation, kicked, slept, owed, answered, latest>>

\* One successful lookup of the round.
LookupOk ==
  /\ pcR = "lookup"
  /\ \E h \in todo :
       /\ found' = [found EXCEPT ![h] = dns[h]]
       /\ answered' = answered \cup dns[h] /\ latest' = [latest EXCEPT ![h] = dns[h]]
       /\ todo' = todo \ {h}
       /\ owed' = owed \ {h}
  /\ UNCHANGED <<dns, dnsChanges, faults, pcR, failed, resolved, failures,
                 allowed, generation, kicked, slept>>

\* Mutant: a failed lookup forgets the name's addresses.
LookupFail_Forgets ==
  /\ pcR = "lookup" /\ faults < MaxFaults
  /\ \E h \in todo :
       /\ found' = [found EXCEPT ![h] = {}]
       /\ todo' = todo \ {h} /\ owed' = owed \ {h}
  /\ failed' = TRUE /\ faults' = faults + 1
  /\ UNCHANGED <<dns, dnsChanges, pcR, resolved, failures, allowed,
                 generation, kicked, slept, answered, latest>>

\* A lookup that raises: the last known addresses stay.
LookupFail ==
  /\ pcR = "lookup" /\ faults < MaxFaults
  /\ \E h \in todo : todo' = todo \ {h} /\ owed' = owed \ {h}
  /\ failed' = TRUE /\ faults' = faults + 1
  /\ UNCHANGED <<dns, dnsChanges, pcR, found, resolved, failures, allowed,
                 generation, kicked, slept, answered, latest>>

\* Mutant: the flag is cleared at the end of the round, not before it.
Settle_ClearsKick ==
  /\ pcR = "lookup" /\ todo = {} /\ pcR' = "bump"
  /\ failures' = IF failed THEN failures + 1 ELSE 0
  /\ resolved' = found
  /\ allowed' = Nets \cup UNION {found[h] : h \in Hosts}
  /\ slept' = 0 /\ failed' = FALSE /\ kicked' = FALSE
  /\ UNCHANGED <<dns, dnsChanges, faults, todo, found, generation, owed,
                 answered, latest>>

\* The end of resolve_all up to the assignment of `allowed`.
Settle ==
  /\ pcR = "lookup" /\ todo = {}
  /\ failures' = IF failed THEN failures + 1 ELSE 0
  /\ IF found # resolved
       THEN /\ resolved' = found
            /\ allowed' = Nets \cup UNION {found[h] : h \in Hosts}
            /\ pcR' = "bump"
       ELSE /\ pcR' = "wait"
            /\ UNCHANGED <<resolved, allowed>>
  /\ slept' = 0 /\ failed' = FALSE
  /\ UNCHANGED <<dns, dnsChanges, faults, todo, found, generation, kicked,
                 owed, answered, latest>>

\* Mutant: the change is not announced.
Bump_Silent ==
  /\ pcR = "bump" /\ pcR' = "wait" /\ slept' = 0
  /\ UNCHANGED <<dns, dnsChanges, faults, todo, found, failed, resolved,
                 failures, allowed, generation, kicked, owed, answered, latest>>

\* self.generation += 1, a step of its own: listeners run in between.
Bump ==
  /\ pcR = "bump"
  /\ generation' = generation + 1
  /\ pcR' = "wait" /\ slept' = 0
  /\ UNCHANGED <<dns, dnsChanges, faults, todo, found, failed, resolved,
                 failures, allowed, kicked, owed, answered, latest>>

\* The monotonic clock; it matters only while the thread waits.
MonoTick ==
  /\ pcR = "wait" /\ slept < NextInterval
  /\ slept' = slept + 1
  /\ UNCHANGED <<dns, dnsChanges, faults, pcR, todo, found, failed, resolved,
                 failures, allowed, generation, kicked, owed, answered, latest>>

\* Mutant: waits for a trigger only; the baseline deadline is lost.
Wake_NoDeadline ==
  /\ pcR = "wait" /\ ~stop
  /\ kicked /\ slept >= MinGap
  /\ kicked' = FALSE
  /\ pcR' = "lookup" /\ todo' = Hosts /\ found' = resolved /\ slept' = 0
  /\ UNCHANGED <<dns, dnsChanges, faults, failed, resolved, failures, allowed,
                 generation, owed, answered, latest>>

\* The wait ends: _kicked is cleared, under the same lock, before the round.
Wake ==
  /\ pcR = "wait" /\ ~stop
  /\ slept >= NextInterval \/ (kicked /\ slept >= MinGap)
  /\ kicked' = FALSE
  /\ pcR' = "lookup" /\ todo' = Hosts /\ found' = resolved /\ slept' = 0
  /\ UNCHANGED <<dns, dnsChanges, faults, failed, resolved, failures, allowed,
                 generation, owed, answered, latest>>

\* stop_event ends the wait, and the thread.
ResolverStop ==
  /\ pcR = "wait" /\ stop
  /\ kicked' = FALSE /\ pcR' = "off"
  /\ UNCHANGED <<dns, dnsChanges, faults, todo, found, failed, resolved,
                 failures, allowed, generation, slept, owed, answered, latest>>

ResolverStep == LookupOk \/ LookupFail \/ Settle \/ Bump \/ Wake \/ ResolverStop

SourcesNext == DnsChange \/ MonoTick \/ ResolverStep

----------------------------------------------------------------------------
(* The filter on its own: any thread may trigger it at any time. *)

AnyTrigger ==
  /\ Trigger
  /\ UNCHANGED <<dns, dnsChanges, faults, pcR, todo, found, failed, resolved,
                 failures, allowed, generation, slept, answered, latest>>

FilterNext ==
  \/ (SourcesNext \/ AnyTrigger) /\ UNCHANGED stop
  \/ OnSignal /\ UNCHANGED sourcesVars

FilterInit == SourcesInit /\ stop = FALSE

\* The scheduler runs the resolver thread, the clock advances, and a lookup
\* that keeps being tried succeeds (MaxFaults bounds the failures).
FilterSpec ==
  /\ FilterInit
  /\ [][FilterNext]_<<sourcesVars, stop>>
  /\ WF_<<sourcesVars, stop>>(ResolverStep /\ UNCHANGED stop)
  /\ WF_<<sourcesVars, stop>>(MonoTick /\ UNCHANGED stop)

----------------------------------------------------------------------------
SourcesTypeOK ==
  /\ dns \in [Hosts -> Answers] /\ dnsChanges \in Nat /\ faults \in Nat
  /\ pcR \in {"lookup", "bump", "wait", "off"}
  /\ todo \subseteq Hosts /\ owed \subseteq Hosts
  /\ found \in [Hosts -> SUBSET Addrs] /\ resolved \in [Hosts -> SUBSET Addrs]
  /\ failed \in BOOLEAN /\ kicked \in BOOLEAN /\ stop \in BOOLEAN
  /\ failures \in Nat /\ generation \in Nat /\ slept \in 0..Interval
  /\ allowed \subseteq Addrs /\ answered \subseteq Addrs
  /\ latest \in [Hosts -> SUBSET Addrs]

\* sources.py:180 trigger / :209 _kicked = False.  A trigger is never lost:
\* every host it is owed a lookup of is either still ahead in the round now
\* running, or a further round is booked by _kicked.
NoLostTrigger ==
  (owed # {} /\ pcR # "off") =>
     (kicked \/ (pcR = "lookup" /\ owed \subseteq todo))

\* sources.py:15 "A failed lookup keeps the name's last known addresses": all of
\* what its latest lookup that did not raise returned, and nothing older.  So it
\* is after every round, however many lookups failed in it, and for the names a
\* round has not come to yet; and the allow-list is those addresses.
NeverForgets ==
  /\ \A h \in Hosts : (pcR = "lookup" => h \in todo) => resolved[h] = latest[h]
  /\ allowed = Nets \cup UNION {resolved[h] : h \in Hosts}

\* Once the DNS stands still, every host's current addresses end up in
\* `allowed` and stay there, with or without a trigger, unless the process
\* is stopped first.
Converges ==
  <>[](stop \/ \A h \in Hosts : resolved[h] = dns[h] /\ dns[h] \subseteq allowed)
=============================================================================
