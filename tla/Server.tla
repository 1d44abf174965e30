------------------------------- MODULE Server -------------------------------
(***************************************************************************)
(* The two counting semaphores of webserver.py: the connections that       *)
(* Server serves at once, and the background workers of                    *)
(* /api/forgot_password.  Both are taken without waiting by one thread and *)
(* given back by the thread it starts; the start itself can fail.          *)
(***************************************************************************)
EXTENDS Requests

CONSTANTS
  MaxConnections,  \* MAX_CONNECTIONS
  ForgotWorkers    \* _FORGOT_WORKERS

ASSUME ServerAssumption ==
  MaxConnections \in Nat \ {0} /\ ForgotWorkers \in Nat \ {0}

VARIABLES
  slots,        \* Server._slots
  accepting,    \* the accept loop: "listen", or "spawn" with a slot in hand
  serving,      \* the request threads that run
  forgotSlots,  \* _forgot_slots
  asking,       \* the request threads about to start a worker
  workers,      \* background workers that run
  leaked        \* history: workers that could not be started

serverVars == <<slots, accepting, serving, forgotSlots, asking, workers, leaked>>
forgotVars == <<forgotSlots, asking, workers, leaked>>

ServerInit ==
  /\ slots = MaxConnections /\ accepting = "listen" /\ serving = {}
  /\ forgotSlots = ForgotWorkers /\ asking = {} /\ workers = 0 /\ leaked = 0

\* process_request takes a slot; without one the answer is 503 at once.
AcceptConnection ==
  /\ accepting = "listen" /\ slots > 0
  /\ slots' = slots - 1 /\ accepting' = "spawn"
  /\ UNCHANGED <<serving, forgotVars>>

\* super().process_request starts the request's thread.
SpawnThread(r) ==
  /\ accepting = "spawn" /\ accepting' = "listen"
  /\ r \notin serving /\ serving' = serving \cup {r}
  /\ UNCHANGED <<slots, forgotVars>>

\* Mutant: the slot of a thread that did not start is not given back.
SpawnFails_KeepsSlot ==
  /\ accepting = "spawn" /\ accepting' = "listen"
  /\ UNCHANGED <<slots, serving, forgotVars>>

\* It cannot: the slot is given back and the error goes to the accept loop.
SpawnFails ==
  /\ accepting = "spawn" /\ accepting' = "listen" /\ slots' = slots + 1
  /\ UNCHANGED <<serving, forgotVars>>

\* process_request_thread ends, with or without an error.
EndConnection(r) ==
  /\ r \in serving \ asking /\ serving' = serving \ {r} /\ slots' = slots + 1
  /\ UNCHANGED <<accepting, forgotVars>>

\* _handle_forgot_password: with no slot free the request is dropped.
AskForWorker(r) ==
  /\ r \in serving \ asking /\ forgotSlots > 0
  /\ forgotSlots' = forgotSlots - 1 /\ asking' = asking \cup {r}
  /\ UNCHANGED <<slots, accepting, serving, workers, leaked>>

StartWorker(r) ==
  /\ r \in asking /\ asking' = asking \ {r} /\ workers' = workers + 1
  /\ UNCHANGED <<slots, accepting, serving, forgotSlots, leaked>>

\* Thread.start() raises: nobody gives the slot back.
WorkerFails(r) ==
  /\ r \in asking /\ asking' = asking \ {r} /\ leaked' = leaked + 1
  /\ UNCHANGED <<slots, accepting, serving, forgotSlots, workers>>

\* _process_forgot_guarded, "finally".
EndWorker ==
  /\ workers > 0 /\ workers' = workers - 1 /\ forgotSlots' = forgotSlots + 1
  /\ UNCHANGED <<slots, accepting, serving, asking, leaked>>

ServerNext ==
  \/ AcceptConnection \/ SpawnFails \/ EndWorker
  \/ \E r \in Threads :
       \/ SpawnThread(r) \/ EndConnection(r)
       \/ AskForWorker(r) \/ StartWorker(r) \/ WorkerFails(r)

ServerSpec == ServerInit /\ [][ServerNext]_serverVars

----------------------------------------------------------------------------
(* Properties *)

Connections == INSTANCE Pool WITH
  Size <- MaxConnections, free <- slots,
  held <- Cardinality(serving) + (IF accepting = "spawn" THEN 1 ELSE 0)

Workers == INSTANCE Pool WITH
  Size <- ForgotWorkers, free <- forgotSlots,
  held <- workers + Cardinality(asking) + leaked

\* Both semaphores are pools of permits: no slot is lost or given back twice,
\* through threads that start, fail to start and end in any order, so the
\* server never comes to answer 503 for good, and "at most _FORGOT_WORKERS
\* lookups/sends [are] in flight".  A worker that could not be started holds
\* its slot for ever.
SlotsArePools == Connections!PoolSpec /\ Workers!PoolSpec
=============================================================================
