------------------------------- MODULE MCWeb --------------------------------
(* Web for TLC: request threads and addresses are interchangeable. *)
EXTENDS Web

WebSymmetry == Permutations(Threads) \cup Permutations(Ips)
=============================================================================
