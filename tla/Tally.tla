------------------------------- MODULE Tally --------------------------------
(***************************************************************************)
(* SELECT COUNT over a table that keeps f[k] alike rows under the key k,   *)
(* and every other sum of numbers over a finite set: the number of rows,   *)
(* each a key and its place among its like.                                *)
(***************************************************************************)
EXTENDS Integers, FiniteSets

Rows(f, keys) == UNION {{k} \X (1..f[k]) : k \in keys}

Tally(f, keys) == Cardinality(Rows(f, keys))
=============================================================================
