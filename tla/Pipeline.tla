------------------------------ MODULE Pipeline ------------------------------
(***************************************************************************)
(* What main.py creates for the collector's threads: the bounded queue     *)
(* from the listeners to the writer and the shared drop counters.          *)
(***************************************************************************)
EXTENDS Integers, Sequences, FiniteSets, StopEvent

CONSTANTS
  Devices,    \* configured devices, one listener each
  QueueMax,   \* QUEUE_MAX
  MaxWall     \* bound: last second of the wall clock

ASSUME DevicesAssumption == IsFiniteSet(Devices)
ASSUME QueueAssumption == QueueMax \in Nat \ {0} /\ MaxWall \in Nat

VARIABLES
  q,      \* queue.Queue(maxsize=QUEUE_MAX)
  drops,  \* {"n", "ignored", "rejected"}, each access under its lock
  wall,   \* time.time(), in whole seconds
  puts    \* history: items ever put on the queue

pipelineVars == <<q, drops, wall, puts>>

\* A queue item: an event or an unparsed line, with the time the datagram
\* was received.  `late` (history): it was put after stop_event was set.
QItem == [tag : {"ev", "un"}, ts : Nat, dev : Devices, late : BOOLEAN]

PipelineInit ==
  /\ q = <<>> /\ wall = 0 /\ puts = 0
  /\ drops = [n |-> 0, ignored |-> 0, rejected |-> 0]

PipelineTypeOK ==
  /\ q \in Seq(QItem) /\ wall \in Nat /\ puts \in Nat
  /\ drops \in [n : Nat, ignored : Nat, rejected : Nat]

\* The item the listener of device d makes of a line it could place.
ItemOf(d, tag, ts) == [tag |-> tag, ts |-> ts, dev |-> d, late |-> stop]

\* Mutant: a full queue loses the datagram without counting it.
Put_Uncounted(item) ==
  IF Len(q) < QueueMax
    THEN q' = Append(q, item) /\ puts' = puts + 1 /\ UNCHANGED drops
    ELSE UNCHANGED <<q, puts, drops>>

\* put_nowait: a full queue drops the datagram and counts it.
Put(item) ==
  IF Len(q) < QueueMax
    THEN q' = Append(q, item) /\ puts' = puts + 1 /\ UNCHANGED drops
    ELSE drops' = [drops EXCEPT !.n = @ + 1] /\ UNCHANGED <<q, puts>>

\* The wall clock (external); held datagrams age by it.
WallTick ==
  /\ wall < MaxWall
  /\ wall' = wall + 1
  /\ UNCHANGED <<q, drops, puts>>
=============================================================================
