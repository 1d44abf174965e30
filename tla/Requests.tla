------------------------------ MODULE Requests ------------------------------
(***************************************************************************)
(* What the web components share: every connection is served by a thread   *)
(* of its own (ThreadingHTTPServer), and a thread holds a component's lock  *)
(* for one step at a time.                                                 *)
(***************************************************************************)
EXTENDS Integers, Sequences, FiniteSets, FiniteSetsExt

CONSTANTS
  Threads,  \* request threads
  Ips       \* client addresses, as client_ip_from returns them

ASSUME RequestsAssumption == IsFiniteSet(Threads) /\ IsFiniteSet(Ips)

\* A thread that serves no request.
Idle == [op |-> "idle"]
=============================================================================
