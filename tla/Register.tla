------------------------------ MODULE Register ------------------------------
(***************************************************************************)
(* A durable register: clients write a value or read it, a write takes     *)
(* effect at one moment between its call and its answer or not at all, and *)
(* a crash forgets the calls but never the value.                          *)
(***************************************************************************)
CONSTANTS Clients, Values

VARIABLES
  value,   \* what the register holds
  client   \* the call each client is in

Calls(c, t) == client' = [client EXCEPT ![c] = t]
NoCall == [op |-> "idle"]

RegisterInit == value \in Values /\ client = [c \in Clients |-> NoCall]

Invoke(c) ==
  /\ client[c] = NoCall
  /\ \E v \in Values : Calls(c, [op |-> "write", new |-> v])
  /\ UNCHANGED value

Commit(c) ==
  /\ client[c].op = "write"
  /\ value' = client[c].new /\ Calls(c, [op |-> "written"])

\* The caller is told, and the register is as it was.
Fail(c) == client[c].op = "write" /\ Calls(c, NoCall) /\ UNCHANGED value

Read(c) ==
  client[c] = NoCall /\ Calls(c, [op |-> "read", got |-> value]) /\ UNCHANGED value

Return(c) ==
  client[c].op \in {"written", "read"} /\ Calls(c, NoCall) /\ UNCHANGED value

Crash == client' = [c \in Clients |-> NoCall] /\ UNCHANGED value

RegisterNext ==
  Crash \/ \E c \in Clients : Invoke(c) \/ Commit(c) \/ Fail(c) \/ Read(c) \/ Return(c)

RegisterSpec == RegisterInit /\ [][RegisterNext]_<<value, client>>
=============================================================================
