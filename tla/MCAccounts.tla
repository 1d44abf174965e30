----------------------------- MODULE MCAccounts -----------------------------
(* Accounts for TLC: the request threads are interchangeable. *)
EXTENDS Accounts, TLC

ThreadSymmetry == Permutations(Threads)
=============================================================================
